-------------------------- MODULE OrbisRingProofs --------------------------
(***************************************************************************)
(* Proofs about the ring lifecycle, for every set of nodes, rings, keys,   *)
(* committees and configurations, and for blockchains of any length: what  *)
(* the messages that change a stored ring's settings, and the schedulers   *)
(* of a reshare, may do to the ring; that each step keeps the inductive    *)
(* invariant RingInv; and what follows.                                    *)
(***************************************************************************)
EXTENDS OrbisRing, FiniteSetTheorems, TLAPS

-----------------------------------------------------------------------------
(* Backups *)

(* A part of a sequence.                                                   *)
LEMMA PartOfSeq ==
    ASSUME NEW S, NEW s \in Seq(S), NEW m \in Nat \ {0}, NEW n \in Nat, n <= Len(s), m <= n + 1
    PROVE  /\ SubSeq(s, m, n) \in Seq(S) /\ Len(SubSeq(s, m, n)) = n - m + 1
           /\ \A k \in 1 .. n - m + 1 : SubSeq(s, m, n)[k] = s[m + k - 1]
OBVIOUS

(* Two sequences joined.                                                   *)
LEMMA JoinOfSeqs ==
    ASSUME NEW S, NEW s \in Seq(S), NEW t \in Seq(S)
    PROVE  /\ Len(s \o t) = Len(s) + Len(t) /\ DOMAIN (s \o t) = 1 .. Len(s) + Len(t)
           /\ \A k \in 1 .. Len(s) + Len(t) :
                 (s \o t)[k] = IF k <= Len(s) THEN s[k] ELSE t[k - Len(s)]
OBVIOUS

(* Promoting a backup leaves a part of the list.                           *)
LEMMA WithoutBackupPart ==
    ASSUME NEW b \in Seq(Node), NEW i \in DOMAIN b, NEW j \in DOMAIN WithoutBackup(b, i)
    PROVE  \E k \in DOMAIN b : WithoutBackup(b, i)[j] = b[k]
<1> DEFINE front == SubSeq(b, 1, i - 1)
           back == SubSeq(b, i + 1, Len(b))
<1>1. i \in 1 .. Len(b) /\ Len(b) \in Nat /\ DOMAIN b = 1 .. Len(b)
  OBVIOUS
<1>2. /\ front \in Seq(Node) /\ Len(front) = i - 1
      /\ \A k \in 1 .. i - 1 : front[k] = b[k]
  BY <1>1, PartOfSeq
<1>3. /\ back \in Seq(Node) /\ Len(back) = Len(b) - i
      /\ \A k \in 1 .. Len(b) - i : back[k] = b[k + i]
  BY <1>1, PartOfSeq
<1>4. WithoutBackup(b, i) = front \o back
  BY Zenon DEF WithoutBackup
<1> HIDE DEF front, back
<1>5. /\ DOMAIN (front \o back) = 1 .. Len(front) + Len(back)
      /\ \A k \in 1 .. Len(front) + Len(back) :
            (front \o back)[k] = IF k <= Len(front) THEN front[k] ELSE back[k - Len(front)]
  BY <1>2, <1>3, JoinOfSeqs, Zenon
<1>6. j \in 1 .. Len(b) - 1 /\ (front \o back)[j] = IF j <= i - 1 THEN front[j] ELSE back[j - (i - 1)]
  <2>1. j \in 1 .. (i - 1) + (Len(b) - i)
    BY <1>2, <1>3, <1>4, <1>5, Zenon
  <2>2. j \in 1 .. Len(b) - 1
    BY <1>1, <2>1
  <2> QED
    BY <1>2, <1>3, <1>5, <2>1, <2>2, Zenon
<1>7. CASE j <= i - 1
  <2>1. j \in 1 .. i - 1 /\ j \in 1 .. Len(b)
    BY <1>1, <1>6, <1>7
  <2> QED
    BY <2>1, <1>1, <1>2, <1>4, <1>6, <1>7, Zenon
<1>8. CASE ~ (j <= i - 1)
  <2>1. j - (i - 1) \in 1 .. Len(b) - i /\ j - (i - 1) + i = j + 1 /\ j + 1 \in DOMAIN b
    BY <1>1, <1>6, <1>8
  <2>2. back[j - (i - 1)] = b[j + 1]
    BY <1>3, <2>1, Zenon
  <2> QED
    BY <1>4, <1>6, <1>8, <2>1, <2>2, Zenon
<1> QED
  BY <1>7, <1>8, Zenon

-----------------------------------------------------------------------------
(* Settings of a stored ring *)

(* normalizeMaturedRingUpgrade returns a ring, leaves everything but the   *)
(* upgrade fields alone, and makes the version in force the stored one.    *)
LEMMA NormalizeType ==
    ASSUME NEW ring \in Ring
    PROVE  LET r == NormalizeUpgrade(ring)
           IN  /\ r \in Ring
               /\ r.output = ring.output /\ r.nonce = ring.nonce
               /\ r.peers = ring.peers /\ r.confirmations = ring.confirmations
               /\ r.newPeers = ring.newPeers /\ r.newThreshold = ring.newThreshold
               /\ r.version = EffectiveVersion(ring, now)
               /\ r.nextVersion # None =>
                     /\ r.nextVersion = ring.nextVersion /\ r.activation = ring.activation
                     /\ r.version = ring.version /\ ~ (now >= r.activation)
BY Zenon DEF NormalizeUpgrade, EffectiveVersion, Ring, OptNat, None

(* Removing one entry of a backup list leaves a list of nodes.             *)
LEMMA WithoutBackupType ==
    ASSUME NEW b \in Seq(Node), NEW i \in DOMAIN b
    PROVE  WithoutBackup(b, i) \in Seq(Node)
<1>1. i \in 1 .. Len(b) /\ Len(b) \in Nat
  OBVIOUS
<1>2. SubSeq(b, 1, i - 1) \in Seq(Node)
  BY <1>1
<1>3. SubSeq(b, i + 1, Len(b)) \in Seq(Node)
  BY <1>1
<1> QED
  BY <1>2, <1>3 DEF WithoutBackup

SameUpgrade(new, old) ==
    /\ new.version = old.version
    /\ new.nextVersion = old.nextVersion /\ new.activation = old.activation
SameCommittee(new, old) ==
    /\ new.peers = old.peers /\ new.confirmations = old.confirmations
    /\ new.newPeers = old.newPeers /\ new.newThreshold = old.newThreshold

(* What the settings messages and the reshare schedulers do to a ring: they*)
(* keep its keys and nonce, keep the committee, the confirmations and the  *)
(* upgrade of a ring whose DKG is open, and keep the version in force.     *)
SettingsUpdate(id) ==
    /\ Exists(id)
    /\ used' = used /\ scheduledAt' \in [RingId -> Nat]
    /\ \A x \in RingId : x # id => scheduledAt'[x] = scheduledAt[x]
    /\ \E ring \in Ring :
          /\ UpdateRing(id, ring)
          /\ ring.output = rings[id].output /\ ring.nonce = rings[id].nonce
          /\ ~ Finalized(rings[id]) => SameCommittee(ring, rings[id]) /\ SameUpgrade(ring, rings[id])
          /\ EffectiveVersion(ring, now) = EffectiveVersion(rings[id], now)
          /\ Notice(ring, scheduledAt'[id])

(* The settings messages and the reshare schedulers of a stored ring.      *)
LEMMA SettingsUpdates ==
    ASSUME RingInv, NEW id \in RingId,
           \/ \E c \in Committee, t \in Threshold : StartRingReshareByAcp(id, c, t)
           \/ CancelRingReshareByAcp(id)
           \/ \E i \in PssInterval : SetRingPssIntervalByAcp(id, i)
           \/ \E v \in Version, t \in 0 .. MaxTime : ScheduleRingUpgradeByAcp(id, v, t)
           \/ CancelRingUpgradeByAcp(id)
           \/ \E r \in ReportingConfig : SetRingReportingByAcp(id, r)
           \/ \E r \in Relay : AddRingTrustedAuthRelayByAcp(id, r)
           \/ \E r \in Relay : RemoveRingTrustedAuthRelayByAcp(id, r)
           \/ \E n \in Node : ScheduleAutoReshare(id, n)
    PROVE  SettingsUpdate(id)
<1> DEFINE ring == rings[id]
           norm == NormalizeUpgrade(ring)
<1>1. scheduledAt \in [RingId -> Nat] /\ now \in Nat
  BY Zenon DEF RingInv, TypeOK
<1>2. Exists(id) => /\ ring \in Ring
                    /\ norm \in Ring
                    /\ norm.output = ring.output /\ norm.nonce = ring.nonce
                    /\ norm.version = EffectiveVersion(ring, now)
                    /\ norm.nextVersion # None =>
                          /\ norm.nextVersion = ring.nextVersion
                          /\ norm.activation = ring.activation
                          /\ norm.version = ring.version /\ ~ (now >= norm.activation)
                    /\ Notice(ring, scheduledAt[id])
  <2> SUFFICES ASSUME Exists(id) PROVE <1>2!2
    BY Zenon
  <2>1. ring \in Ring
    BY Zenon DEF RingInv, TypeOK, Exists
  <2>2. Notice(ring, scheduledAt[id])
    BY Zenon DEF RingInv, UpgradeInv
  <2> QED
    BY <2>1, <2>2, NormalizeType, Zenon
<1> HIDE DEF norm
<1>0. ASSUME NEW new \in Ring, NEW old \in {ring, norm}, Exists(id), UpdateRing(id, new),
             UNCHANGED <<used, scheduledAt>>, SameUpgrade(new, old),
             new.output = ring.output /\ new.nonce = ring.nonce,
             Finalized(ring) \/ (SameCommittee(new, ring) /\ SameUpgrade(new, ring))
      PROVE  SettingsUpdate(id)
  <2>1. EffectiveVersion(new, now) = EffectiveVersion(ring, now)
    BY <1>0, <1>2, Zenon DEF EffectiveVersion, SameUpgrade
  <2>2. Notice(new, scheduledAt'[id])
    BY <1>0, <1>2, Zenon DEF Notice, SameUpgrade
  <2> QED
    BY <1>0, <1>1, <2>1, <2>2, Zenon DEF SettingsUpdate
<1>3. ASSUME NEW c \in Committee, NEW t \in Threshold, StartRingReshareByAcp(id, c, t)
      PROVE  SettingsUpdate(id)
  <2> DEFINE new == [norm EXCEPT !.newPeers = c, !.newThreshold = t]
  <2>1. Exists(id) /\ Finalized(ring) /\ UpdateRing(id, new) /\ UNCHANGED <<used, scheduledAt>>
    BY <1>3, Zenon DEF StartRingReshareByAcp, norm
  <2>2. /\ new \in Ring /\ new.output = ring.output /\ new.nonce = ring.nonce
        /\ SameUpgrade(new, norm)
    BY <1>2, <2>1, RingAssumption, Zenon DEF Ring, SameUpgrade
  <2> HIDE DEF new
  <2> QED
    BY <1>0, <2>1, <2>2, Zenon
<1>4. ASSUME CancelRingReshareByAcp(id) PROVE SettingsUpdate(id)
  <2> DEFINE new == [ring EXCEPT !.newPeers = {}, !.newThreshold = None]
  <2>1. Exists(id) /\ Finalized(ring) /\ UpdateRing(id, new) /\ UNCHANGED <<used, scheduledAt>>
    BY <1>4, Zenon DEF CancelRingReshareByAcp
  <2>2. /\ new \in Ring /\ new.output = ring.output /\ new.nonce = ring.nonce
        /\ SameUpgrade(new, ring)
    BY <1>2, <2>1, ZenonT(30) DEF Ring, SameUpgrade, OptNat
  <2> HIDE DEF new
  <2> QED
    BY <1>0, <2>1, <2>2, Zenon
<1>5. ASSUME NEW i \in PssInterval, SetRingPssIntervalByAcp(id, i) PROVE SettingsUpdate(id)
  <2> DEFINE new == [norm EXCEPT !.pssInterval = i]
  <2>1. Exists(id) /\ Finalized(ring) /\ UpdateRing(id, new) /\ UNCHANGED <<used, scheduledAt>>
    BY <1>5, Zenon DEF SetRingPssIntervalByAcp, norm
  <2>2. /\ new \in Ring /\ new.output = ring.output /\ new.nonce = ring.nonce
        /\ SameUpgrade(new, norm)
    BY <1>2, <2>1, RingAssumption, Zenon DEF Ring, SameUpgrade
  <2> HIDE DEF new
  <2> QED
    BY <1>0, <2>1, <2>2, Zenon
<1>6. ASSUME NEW v \in Version, NEW t \in 0 .. MaxTime, ScheduleRingUpgradeByAcp(id, v, t)
      PROVE  SettingsUpdate(id)
  <2> DEFINE new == [norm EXCEPT !.nextVersion = v, !.activation = t]
  <2>1. /\ Exists(id) /\ Finalized(ring) /\ UpdateRing(id, new) /\ UNCHANGED used
        /\ scheduledAt' = [scheduledAt EXCEPT ![id] = now]
        /\ v > norm.version /\ t >= now + MinUpgradeLead
    BY <1>6, Zenon DEF ScheduleRingUpgradeByAcp, MinimumActivation, norm
  <2>2. v \in Nat /\ t \in Nat /\ v \in OptNat /\ t \in OptNat
    BY RingAssumption DEF OptNat
  <2>3. /\ new \in Ring /\ new.output = ring.output /\ new.nonce = ring.nonce
        /\ new.version = norm.version /\ new.nextVersion = v /\ new.activation = t
    BY <1>2, <2>1, <2>2, Zenon DEF Ring
  <2> HIDE DEF new
  <2>4. /\ scheduledAt' \in [RingId -> Nat] /\ scheduledAt'[id] = now
        /\ \A x \in RingId : x # id => scheduledAt'[x] = scheduledAt[x]
    BY <1>1, <2>1, Zenon
  <2>5. EffectiveVersion(new, now) = EffectiveVersion(ring, now)
    <3>1. ~ (now >= t)
      BY <1>1, <2>1, <2>2, RingAssumption, SMTT(30)
    <3> QED
      BY <1>2, <2>1, <2>3, <3>1, Zenon DEF EffectiveVersion
  <2>6. Notice(new, scheduledAt'[id])
    BY <2>1, <2>2, <2>3, <2>4, Zenon DEF Notice
  <2> QED
    BY <2>1, <2>3, <2>4, <2>5, <2>6, Zenon DEF SettingsUpdate
<1>7. ASSUME CancelRingUpgradeByAcp(id) PROVE SettingsUpdate(id)
  <2> DEFINE new == [ring EXCEPT !.nextVersion = None, !.activation = None]
  <2>1. /\ Exists(id) /\ Finalized(ring) /\ UpdateRing(id, new) /\ UNCHANGED <<used, scheduledAt>>
        /\ ring.nextVersion # None /\ now < ring.activation
    BY <1>7, Zenon DEF CancelRingUpgradeByAcp
  <2>2. /\ new \in Ring /\ new.output = ring.output /\ new.nonce = ring.nonce
        /\ new.version = ring.version /\ new.nextVersion = None
    BY <1>2, <2>1, ZenonT(30) DEF Ring, OptNat
  <2> HIDE DEF new
  <2>3. EffectiveVersion(new, now) = EffectiveVersion(ring, now)
    <3>1. ring.activation \in Nat
      BY <1>2, <2>1, Zenon DEF Notice
    <3>2. ~ (now >= ring.activation)
      BY <1>1, <2>1, <3>1
    <3> QED
      BY <2>2, <3>2, Zenon DEF EffectiveVersion
  <2> QED
    BY <1>1, <2>1, <2>2, <2>3, Zenon DEF SettingsUpdate, Notice
<1>8. ASSUME NEW r \in ReportingConfig, SetRingReportingByAcp(id, r) PROVE SettingsUpdate(id)
  <2> DEFINE new == [norm EXCEPT !.reporting = r]
  <2>1. Exists(id) /\ Finalized(ring) /\ UpdateRing(id, new) /\ UNCHANGED <<used, scheduledAt>>
    BY <1>8, Zenon DEF SetRingReportingByAcp, norm
  <2>2. /\ new \in Ring /\ new.output = ring.output /\ new.nonce = ring.nonce
        /\ SameUpgrade(new, norm)
    BY <1>2, <2>1, RingAssumption, Zenon DEF Ring, SameUpgrade
  <2> HIDE DEF new
  <2> QED
    BY <1>0, <2>1, <2>2, Zenon
<1>9. ASSUME NEW relays \in SUBSET Relay, Exists(id), UNCHANGED <<used, scheduledAt>>,
             UpdateRing(id, [ring EXCEPT !.relays = relays])
      PROVE  SettingsUpdate(id)
  <2> DEFINE new == [ring EXCEPT !.relays = relays]
  <2>1. /\ new \in Ring /\ new.output = ring.output /\ new.nonce = ring.nonce
        /\ SameCommittee(new, ring) /\ SameUpgrade(new, ring)
    BY <1>2, <1>9, Zenon DEF Ring, SameCommittee, SameUpgrade
  <2>2. UpdateRing(id, new)
    BY <1>9, Zenon
  <2> HIDE DEF new
  <2> QED
    BY <1>0, <1>9, <2>1, <2>2, Zenon
<1>10. ASSUME NEW r \in Relay, AddRingTrustedAuthRelayByAcp(id, r) PROVE SettingsUpdate(id)
  <2>1. Exists(id) /\ UNCHANGED <<used, scheduledAt>>
        /\ UpdateRing(id, [ring EXCEPT !.relays = ring.relays \cup {r}])
    BY <1>10, Zenon DEF AddRingTrustedAuthRelayByAcp
  <2>2. ring.relays \cup {r} \in SUBSET Relay
    BY <1>2, <2>1, Zenon DEF Ring
  <2> QED
    BY <1>9, <2>1, <2>2, Zenon
<1>11. ASSUME NEW r \in Relay, RemoveRingTrustedAuthRelayByAcp(id, r) PROVE SettingsUpdate(id)
  <2>1. Exists(id) /\ UNCHANGED <<used, scheduledAt>>
        /\ UpdateRing(id, [ring EXCEPT !.relays = ring.relays \ {r}])
    BY <1>11, Zenon DEF RemoveRingTrustedAuthRelayByAcp
  <2>2. ring.relays \ {r} \in SUBSET Relay
    BY <1>2, <2>1, Zenon DEF Ring
  <2> QED
    BY <1>9, <2>1, <2>2, Zenon
<1>12. ASSUME NEW n \in Node, ScheduleAutoReshare(id, n) PROVE SettingsUpdate(id)
  <2> DEFINE backups == ring.reporting.backups
  <2>1. PICK i \in DOMAIN backups : UpdateRing(id, AutoReshared(id, n, i))
    BY <1>12, Zenon DEF ScheduleAutoReshare
  <2>2. Exists(id) /\ Finalized(ring) /\ UNCHANGED <<used, scheduledAt>>
    BY <1>12, Zenon DEF ScheduleAutoReshare
  <2>3. ring \in Ring /\ ring.reporting \in Reporting /\ backups \in Seq(Node)
    BY <1>2, <2>2, Zenon DEF Ring, Reporting
  <2> HIDE DEF backups
  <2>4. WithoutBackup(backups, i) \in Seq(Node) /\ backups[i] \in Node
    <3>1. WithoutBackup(backups, i) \in Seq(Node)
      BY <2>1, <2>3, WithoutBackupType, Zenon
    <3>2. backups[i] \in Node
      BY <2>1, <2>3
    <3> QED
      BY <3>1, <3>2, Zenon
  <2>5. [ring.reporting EXCEPT !.backups = WithoutBackup(backups, i)] \in Reporting
    BY <2>3, <2>4, Zenon DEF Reporting
  <2>6. AutoReshared(id, n, i) =
          [ring EXCEPT !.newPeers = (ring.peers \ {n}) \cup {backups[i]}, !.newThreshold = None,
              !.reporting = [ring.reporting EXCEPT !.backups = WithoutBackup(backups, i)]]
    BY <2>3, Zenon DEF AutoReshared, Ring, backups
  <2> DEFINE new == AutoReshared(id, n, i)
  <2>7. /\ new \in Ring /\ new.output = ring.output /\ new.nonce = ring.nonce
        /\ SameUpgrade(new, ring)
    <3>1. (ring.peers \ {n}) \cup {backups[i]} \in SUBSET Node
      BY <2>3, <2>4, Zenon DEF Ring
    <3>2. None \in OptNat
      BY Zenon DEF OptNat
    <3>3. ASSUME NEW P \in SUBSET Node, NEW R \in Reporting
          PROVE  LET r == [ring EXCEPT !.newPeers = P, !.newThreshold = None, !.reporting = R]
                 IN  /\ r \in Ring /\ r.output = ring.output /\ r.nonce = ring.nonce
                     /\ SameUpgrade(r, ring)
      BY <2>3, <3>2, Zenon DEF Ring, SameUpgrade
    <3> QED
      BY <2>5, <2>6, <3>1, <3>3, Zenon
  <2> HIDE DEF new
  <2> QED
    BY <1>0, <2>1, <2>2, <2>7, Zenon DEF new
<1> QED
  BY <1>3, <1>4, <1>5, <1>6, <1>7, <1>8, <1>10, <1>11, <1>12, Zenon

-----------------------------------------------------------------------------
(* Typing of the rings that handlers write *)

(* ringForReshareFinalization returns a ring with the same keys.           *)
LEMMA ReshareFinalizedType ==
    ASSUME NEW ring \in Ring
    PROVE  LET r == ReshareFinalized(ring)
           IN  /\ r \in Ring /\ r.output = ring.output
               /\ r.version = ring.version /\ r.nextVersion = ring.nextVersion
               /\ r.activation = ring.activation
BY ZenonT(30) DEF ReshareFinalized, TargetPeers, TargetThreshold, Ring, OptNat, None

-----------------------------------------------------------------------------
(* The inductive invariant *)

(* The first block starts with an empty ring store.                        *)
LEMMA InitRingInv == Init => RingInv
<1> SUFFICES ASSUME Init PROVE RingInv
  BY Zenon
<1> USE DEF Init
<1>1. TypeOK
  BY NodeAssumption, RingAssumption, Zenon DEF TypeOK, NodeInit
<1>2. DkgInv
  BY Zenon DEF DkgInv, DkgOf, Exists
<1>3. NonceInv /\ UpgradeInv
  BY Zenon DEF NonceInv, UpgradeInv, Exists
<1> QED
  BY <1>1, <1>2, <1>3, Zenon DEF RingInv

(* The DKG bookkeeping reads five stores only.                             *)
LEMMA DkgUnchanged ==
    ASSUME DkgInv, UNCHANGED <<rings, acpObjects, votes, fate, used>>
    PROVE  DkgInv'
BY Zenon DEF DkgInv, DkgOf, Exists

(* What it says of a ring depends on that ring's entries only, so a step   *)
(* that changes one ring has to be checked for that ring.                  *)
LEMMA DkgStep ==
    ASSUME DkgInv, NEW id \in RingId, DkgOf(id)',
           \A x \in RingId : x # id => /\ rings'[x] = rings[x] /\ votes'[x] = votes[x]
                                       /\ fate'[x] = fate[x] /\ used'[x] = used[x]
                                       /\ x \in acpObjects' <=> x \in acpObjects
    PROVE  DkgInv'
<1> SUFFICES ASSUME NEW x \in RingId, x # id PROVE DkgOf(x)'
  BY Zenon DEF DkgInv
<1>1. DkgOf(x)
  BY Zenon DEF DkgInv
<1>2. /\ rings'[x] = rings[x] /\ votes'[x] = votes[x] /\ fate'[x] = fate[x] /\ used'[x] = used[x]
      /\ x \in acpObjects' <=> x \in acpObjects
  BY Zenon
<1>3. Exists(x)' <=> Exists(x)
  BY <1>2, Zenon DEF Exists
<1> QED
  BY <1>1, <1>2, <1>3, Zenon DEF DkgOf

(* A ring whose DKG is open has no reshare pending.                        *)
LEMMA OpenHasNoReshare ==
    ASSUME RingInv, NEW id \in RingId, Exists(id)
    PROVE  rings[id] \in Ring /\ (~ Finalized(rings[id]) => ~ ResharePending(rings[id]))
<1>1. rings[id] \in Ring
  BY Zenon DEF RingInv, TypeOK, Exists
<1>2. DkgOf(id)
  BY Zenon DEF RingInv, DkgInv
<1> QED
  BY <1>1, <1>2, Zenon DEF DkgOf, OpenDkg

(* Such an update keeps the invariant.                                     *)
LEMMA UpdateKeepsInv ==
    ASSUME RingInv, NEW id \in RingId, SettingsUpdate(id), UNCHANGED blockVars, fresh' = FALSE
    PROVE  RingInv'
<1>a. TypeOK /\ DkgInv /\ NonceInv /\ UpgradeInv
  BY Zenon DEF RingInv
<1>b. Exists(id) /\ used' = used /\ scheduledAt' \in [RingId -> Nat]
      /\ \A x \in RingId : x # id => scheduledAt'[x] = scheduledAt[x]
  BY Zenon DEF SettingsUpdate
<1>c. PICK ring \in Ring :
        /\ UpdateRing(id, ring)
        /\ ring.output = rings[id].output /\ ring.nonce = rings[id].nonce
        /\ ~ Finalized(rings[id]) => SameCommittee(ring, rings[id])
        /\ Notice(ring, scheduledAt'[id])
  BY Zenon DEF SettingsUpdate
<1>d. rings' = [rings EXCEPT ![id] = ring] /\ ring # NoRing
  BY <1>c, RingAssumption, Zenon DEF UpdateRing, SetRing
<1>e. UNCHANGED <<nodeInfo, acpObjects, defaultReporting, signed, votes, fate, height, now>>
  BY <1>c, Zenon DEF UpdateRing, blockVars
<1>1. TypeOK'
  BY <1>a, <1>b, <1>d, <1>e, Zenon DEF TypeOK
<1>2. /\ \A x \in RingId : x # id => rings'[x] = rings[x]
      /\ rings'[id] = ring
  BY <1>a, <1>d, Zenon DEF TypeOK
<1>3. Exists(id) /\ Exists(id)'
  BY <1>b, <1>d, <1>2, Zenon DEF Exists
<1>4. DkgInv'
  <2>1. DkgOf(id)
    BY <1>a, Zenon DEF DkgInv
  <2>2. Finalized(ring) <=> Finalized(rings[id])
    BY <1>c, Zenon DEF Finalized
  <2>3. ASSUME ~ Finalized(rings[id]) PROVE OpenDkg(id, ring) /\ Recorded(ring) = Recorded(rings[id])
    <3>1. /\ SameCommittee(ring, rings[id])
          /\ OpenDkg(id, rings[id])
      BY <1>3, <1>c, <2>1, <2>3, Zenon DEF DkgOf
    <3>2. /\ Confirmed(ring) = Confirmed(rings[id])
          /\ ResharePending(ring) <=> ResharePending(rings[id])
          /\ ring.peers = rings[id].peers
          /\ ring.confirmations = rings[id].confirmations
      BY <3>1, Zenon DEF Confirmed, ResharePending, SameCommittee
    <3> QED
      BY <3>1, <3>2, Zenon DEF OpenDkg, Recorded
  <2>4. votes' = votes /\ fate' = fate /\ used' = used /\ acpObjects' = acpObjects
    BY <1>b, <1>e, Zenon
  <2>5. DkgOf(id)'
    BY <1>2, <1>3, <1>c, <2>1, <2>2, <2>3, <2>4, Zenon DEF DkgOf
  <2> QED
    BY <1>2, <1>a, <2>4, <2>5, DkgStep, Zenon
<1>5. NonceInv'
  <2>1. UNCHANGED <<used, signed, height>> /\ rings'[id].nonce = rings[id].nonce /\ fresh' = FALSE
    BY <1>2, <1>b, <1>c, <1>e, Zenon
  <2> QED
    BY <1>2, <1>3, <1>a, <2>1, Zenon DEF NonceInv, Exists
<1>6. UpgradeInv'
  BY <1>2, <1>a, <1>b, <1>c, Zenon DEF UpgradeInv, Exists
<1> QED
  BY <1>1, <1>4, <1>5, <1>6, Zenon DEF RingInv

(* CreateRing: the identifier was never registered, so nothing has been    *)
(* voted, signed off or deleted under it.                                  *)
LEMMA CreateKeepsInv ==
    ASSUME RingInv, NEW id \in RingId, NEW creator \in Account, NEW reporting \in Reporting,
           CreateRing(id, creator, reporting), UNCHANGED blockVars, fresh' = FALSE
    PROVE  RingInv'
<1> DEFINE ring == NewRing(id, creator, reporting)
<1> USE DEF RingInv
<1>1. /\ rings' = [rings EXCEPT ![id] = ring]
      /\ acpObjects' = acpObjects \cup {id}
      /\ id \notin acpObjects
      /\ UNCHANGED <<nodeInfo, defaultReporting, signed, votes, fate, used, scheduledAt, height, now>>
  BY Zenon DEF CreateRing, RegisterRingACPObject, SetRing, blockVars
<1>2. Config[id] \in RingConfig
  BY RingAssumption, Zenon
<1>3. ring \in Ring
  BY <1>2, Zenon DEF NewRing, Ring, RingConfig, OptNat, None
<1>4. /\ ring.output = NoOutput /\ ring.nonce = 0 /\ ring.peers = Config[id].peers
      /\ ring.newPeers = {} /\ ring.newThreshold = None /\ ring.nextVersion = None
      /\ \A n \in Node : ring.confirmations[n] = NoOutput
  BY Zenon DEF NewRing
<1> HIDE DEF ring
<1>5. TypeOK'
  BY <1>1, <1>3, Zenon DEF TypeOK
<1>6. /\ \A x \in RingId : x # id => rings'[x] = rings[x]
      /\ rings'[id] = ring
      /\ ring # NoRing
  BY <1>1, <1>3, RingAssumption, Zenon DEF TypeOK
<1>7. DkgInv'
  <2>1. Confirmed(ring) = {} /\ ~ Finalized(ring) /\ ~ ResharePending(ring)
    BY <1>4, Zenon DEF Confirmed, Finalized, ResharePending
  <2>2. OpenDkg(id, ring) /\ Recorded(ring) = {}
    BY <1>4, <2>1, Zenon DEF OpenDkg, Recorded
  <2>3. votes'[id] = {} /\ fate'[id] = "none" /\ id \in acpObjects'
    <3>1. DkgOf(id)
      BY Zenon DEF DkgInv
    <3> QED
      BY <1>1, <3>1, Zenon DEF DkgOf
  <2>4. DkgOf(id)'
    BY <1>6, <2>1, <2>2, <2>3, Zenon DEF DkgOf
  <2>5. \A x \in RingId : x # id => x \in acpObjects' <=> x \in acpObjects
    BY <1>1, Zenon
  <2> QED
    BY <1>1, <1>6, <2>4, <2>5, DkgStep, Zenon
<1>8. NonceInv'
  <2>1. used'[id] = {}
    BY <1>1, Zenon DEF DkgInv, DkgOf
  <2>2. height \in Nat
    BY Zenon DEF TypeOK
  <2> SUFFICES ASSUME NEW x \in RingId, Exists(x)'
               PROVE  rings'[x].nonce <= height /\ \A d \in used[x] : d.nonce < rings'[x].nonce
    BY <1>1, Zenon DEF NonceInv
  <2>3. CASE x # id
    <3>1. rings'[x] = rings[x] /\ Exists(x)
      BY <2>3, <1>6, Zenon DEF Exists
    <3> QED
      BY <3>1, Zenon DEF NonceInv
  <2>4. CASE x = id
    BY <2>1, <2>2, <2>4, <1>1, <1>4, <1>6
  <2> QED
    BY <2>3, <2>4, Zenon
<1>9. UpgradeInv'
  BY <1>1, <1>4, <1>6, Zenon DEF UpgradeInv, Notice, Exists
<1> QED
  BY <1>5, <1>7, <1>8, <1>9, Zenon

(* Deleting a ring whose DKG is open keeps the invariant: its object stays *)
(* registered, and a deletion for conflict is backed by two votes.         *)
LEMMA DeleteKeepsInv ==
    ASSUME RingInv, NEW id \in RingId, NEW why \in {"conflict", "cancelled"},
           Exists(id), DeleteRing(id, why),
           votes' \in [RingId -> SUBSET (Node \X Output)],
           \A x \in RingId : x # id => votes'[x] = votes[x],
           why = "conflict" => Opposed(votes'[id]),
           UNCHANGED <<nodeInfo, acpObjects, defaultReporting, signed, used, scheduledAt>>,
           UNCHANGED blockVars, fresh' = FALSE
    PROVE  RingInv'
<1> USE DEF RingInv
<1>1. /\ rings' = [rings EXCEPT ![id] = NoRing]
      /\ fate' = [fate EXCEPT ![id] = why]
      /\ UNCHANGED <<height, now>>
  BY Zenon DEF DeleteRing, blockVars
<1>2. TypeOK'
  BY <1>1, Zenon DEF TypeOK
<1>3. /\ \A x \in RingId : x # id => rings'[x] = rings[x] /\ fate'[x] = fate[x]
      /\ rings'[id] = NoRing /\ fate'[id] = why
  BY <1>1, Zenon DEF TypeOK
<1>4. id \in acpObjects
  BY Zenon DEF DkgInv, DkgOf
<1>5. DkgInv'
  <2>1. ~ Exists(id)' /\ fate'[id] = why /\ id \in acpObjects'
    BY <1>3, <1>4, Zenon DEF Exists
  <2>2. DkgOf(id)'
    BY <2>1, Zenon DEF DkgOf
  <2> QED
    BY <1>3, <2>2, DkgStep, Zenon
<1>6. \A x \in RingId : Exists(x)' => Exists(x) /\ rings'[x] = rings[x]
  BY <1>3, Zenon DEF Exists
<1>7. NonceInv'
  BY <1>1, <1>6, Zenon DEF NonceInv
<1>8. UpgradeInv'
  BY <1>6, Zenon DEF UpgradeInv
<1> QED
  BY <1>2, <1>5, <1>7, <1>8, Zenon

(* FinalizeRing counts confirmations; the count reaches the committee's    *)
(* size only when every member has confirmed.                              *)
CountMeansAll(ring) ==
    Confirmed(ring) \subseteq ring.peers /\ AllConfirmed(ring) => Confirmed(ring) = ring.peers

(* FinalizeRing: the duplicate check comes first, so a conflict is between *)
(* two nodes; the last confirmation completes the committee, because the   *)
(* confirming nodes are a subset of it with as many members.               *)
LEMMA FinalizeRingKeepsInv ==
    ASSUME RingInv, NEW id \in RingId, NEW n \in Node, NEW out \in Output,
           CountMeansAll([rings[id] EXCEPT !.confirmations[n] = out]),
           FinalizeRing(id, n, out), UNCHANGED blockVars, fresh' = FALSE
    PROVE  RingInv'
<1> DEFINE ring == rings[id]
           confirmed == [ring EXCEPT !.confirmations[n] = out]
           final == [ring EXCEPT !.output = out,
                                 !.confirmations = [m \in Node |-> NoOutput]]
<1> USE DEF RingInv
<1>1. /\ Exists(id) /\ ~ Finalized(ring)
      /\ n \in ring.peers /\ n \notin Confirmed(ring)
      /\ votes' = [votes EXCEPT ![id] = @ \cup {<<n, out>>}]
      /\ UNCHANGED <<nodeInfo, acpObjects, defaultReporting, signed, used, scheduledAt>>
      /\ UNCHANGED <<height, now>>
  BY Zenon DEF FinalizeRing, DuplicateConfirmation, blockVars
<1>2. ring \in Ring
  BY <1>1, Zenon DEF TypeOK, Exists
<1>3. out # NoOutput
  BY RingAssumption DEF Output, NoOutput
<1>4. /\ votes' \in [RingId -> SUBSET (Node \X Output)]
      /\ votes'[id] = votes[id] \cup {<<n, out>>}
      /\ \A x \in RingId : x # id => votes'[x] = votes[x]
  BY <1>1 DEF TypeOK
<1>5. /\ id \in acpObjects /\ fate[id] = "none"
      /\ ring.peers = Config[id].peers /\ ~ ResharePending(ring)
      /\ Confirmed(ring) \subseteq ring.peers
      /\ votes[id] = {<<m, ring.confirmations[m]>> : m \in Confirmed(ring)}
  BY <1>1, Zenon DEF DkgInv, DkgOf, OpenDkg, Recorded
<1>6. /\ confirmed \in Ring /\ final \in Ring
      /\ confirmed.output = NoOutput /\ final.output = out
      /\ confirmed.nonce = ring.nonce /\ final.nonce = ring.nonce
      /\ confirmed.peers = ring.peers
      /\ confirmed.newPeers = ring.newPeers /\ confirmed.newThreshold = ring.newThreshold
      /\ confirmed.confirmations = [ring.confirmations EXCEPT ![n] = out]
      /\ \A r \in {confirmed, final} :
            /\ r.version = ring.version /\ r.nextVersion = ring.nextVersion
            /\ r.activation = ring.activation
  BY <1>1, <1>2, Zenon DEF Ring, Finalized
<1>7. Confirmed(confirmed) = Confirmed(ring) \cup {n}
  BY <1>2, <1>3, <1>6 DEF Confirmed, Ring
<1>8. ring.confirmations \in [Node -> Output \cup {NoOutput}] /\ ring.peers \in SUBSET Node
  BY <1>2, Zenon DEF Ring
<1>9. CASE Conflict(ring, out) /\ DeleteRing(id, "conflict")
  <2>1. PICK m \in Confirmed(ring) : ring.confirmations[m] # out
    BY <1>9, Zenon DEF Conflict
  <2>2. <<m, ring.confirmations[m]>> \in votes'[id] /\ <<n, out>> \in votes'[id]
    BY <2>1, <1>4, <1>5, Zenon
  <2>3. m # n
    BY <2>1, <1>1, Zenon
  <2>4. Opposed(votes'[id])
    BY <2>1, <2>2, <2>3, Zenon DEF Opposed
  <2> QED
    BY <1>1, <1>4, <1>9, <2>4, DeleteKeepsInv, Zenon
<1>10. CASE ~ Conflict(ring, out) /\ ~ AllConfirmed(confirmed) /\ SetRing(id, confirmed)
            /\ UNCHANGED fate
  <2> HIDE DEF confirmed
  <2>1. /\ rings' = [rings EXCEPT ![id] = confirmed]
        /\ \A x \in RingId : x # id => rings'[x] = rings[x]
        /\ rings'[id] = confirmed /\ confirmed # NoRing
    BY <1>6, <1>10, RingAssumption, Zenon DEF SetRing, TypeOK
  <2>2. TypeOK'
    BY <1>1, <1>4, <1>6, <1>10, <2>1, Zenon DEF TypeOK
  <2>3. \A m \in Confirmed(confirmed) : confirmed.confirmations[m] = out
    BY <1>6, <1>7, <1>8, <1>10, Zenon DEF Conflict, Confirmed
  <2>4. votes'[id] = {<<m, confirmed.confirmations[m]>> : m \in Confirmed(confirmed)}
    <3>1. \A m \in Confirmed(ring) : confirmed.confirmations[m] = ring.confirmations[m]
      BY <1>1, <1>6, <1>8, Zenon DEF Confirmed
    <3>2. confirmed.confirmations[n] = out
      BY <1>6, <1>8, Zenon
    <3> QED
      BY <1>4, <1>5, <1>7, <3>1, <3>2
  <2>5. DkgInv'
    <3>1. ~ Finalized(confirmed) /\ ~ ResharePending(confirmed)
      BY <1>5, <1>6, Zenon DEF Finalized, ResharePending
    <3>2. confirmed.peers = Config[id].peers /\ Confirmed(confirmed) \subseteq confirmed.peers
      BY <1>1, <1>5, <1>6, <1>7, Zenon
    <3>3. OpenDkg(id, confirmed) /\ votes'[id] = Recorded(confirmed)
      BY <2>3, <2>4, <3>1, <3>2, Zenon DEF OpenDkg, Recorded
    <3>4. acpObjects' = acpObjects /\ fate'[id] = "none" /\ id \in acpObjects'
      BY <1>1, <1>5, <1>10, Zenon
    <3>5. DkgOf(id)'
      BY <2>1, <3>1, <3>3, <3>4, Zenon DEF DkgOf
    <3> QED
      BY <1>1, <1>4, <1>10, <2>1, <3>4, <3>5, DkgStep, Zenon
  <2>6. NonceInv'
    BY <1>1, <1>6, <2>1 DEF NonceInv, Exists
  <2>7. UpgradeInv'
    BY <1>1, <1>6, <2>1 DEF UpgradeInv, Notice, Exists
  <2> QED
    BY <2>2, <2>5, <2>6, <2>7, Zenon
<1>11. CASE ~ Conflict(ring, out) /\ AllConfirmed(confirmed) /\ SetRing(id, final)
            /\ UNCHANGED fate
  <2> HIDE DEF final
  <2>1. /\ rings' = [rings EXCEPT ![id] = final]
        /\ \A x \in RingId : x # id => rings'[x] = rings[x]
        /\ rings'[id] = final /\ final # NoRing
    BY <1>6, <1>11, RingAssumption, Zenon DEF SetRing, TypeOK
  <2>2. TypeOK'
    BY <1>1, <1>4, <1>6, <1>11, <2>1, Zenon DEF TypeOK
  <2>3. Confirmed(ring) \cup {n} = ring.peers
    BY <1>1, <1>5, <1>6, <1>7, <1>11, Zenon DEF CountMeansAll
  <2>4. votes'[id] = {<<m, out>> : m \in Config[id].peers}
    <3>1. \A m \in Confirmed(ring) : ring.confirmations[m] = out
      BY <1>11, Zenon DEF Conflict
    <3>2. votes[id] = {<<m, out>> : m \in Confirmed(ring)}
      BY <1>5, <3>1, Zenon
    <3> QED
      BY <1>4, <1>5, <2>3, <3>2, Zenon
  <2>5. DkgInv'
    <3>1. Finalized(final) /\ final.output = out
      BY <1>3, <1>6, Zenon DEF Finalized
    <3>2. votes'[id] = AllFor(id, out)
      BY <2>4, Zenon DEF AllFor
    <3>3. acpObjects' = acpObjects /\ fate'[id] = "none" /\ id \in acpObjects'
      BY <1>1, <1>5, <1>11, Zenon
    <3>4. DkgOf(id)'
      BY <2>1, <3>1, <3>2, <3>3, Zenon DEF DkgOf
    <3> QED
      BY <1>1, <1>4, <1>11, <2>1, <3>3, <3>4, DkgStep, Zenon
  <2>6. NonceInv'
    BY <1>1, <1>6, <2>1 DEF NonceInv, Exists
  <2>7. UpgradeInv'
    BY <1>1, <1>6, <2>1 DEF UpgradeInv, Notice, Exists
  <2> QED
    BY <2>2, <2>5, <2>6, <2>7, Zenon
<1> QED
  BY <1>9, <1>10, <1>11, Zenon DEF FinalizeRing

(* FinalizeRingReshareByThresholdSignature: the signed document carries the*)
(* ring's nonce, which is older than this block; the new nonce is this     *)
(* block's height, so every used signature is now older than the ring.     *)
LEMMA FinalizeReshareKeepsInv ==
    ASSUME RingInv, NEW id \in RingId, FinalizeRingReshareByThresholdSignature(id),
           UNCHANGED blockVars, fresh' = FALSE
    PROVE  RingInv'
<1> DEFINE ring == rings[id]
           doc == ReshareSignDoc(id, ring)
           base == ReshareFinalized(ring)
           new == [base EXCEPT !.nonce = height]
<1> USE DEF RingInv
<1>1. /\ Exists(id) /\ ResharePending(ring) /\ doc \in signed
      /\ rings' = [rings EXCEPT ![id] = new]
      /\ used' = [used EXCEPT ![id] = @ \cup {doc}]
      /\ UNCHANGED <<nodeInfo, acpObjects, defaultReporting, signed, votes, fate, scheduledAt>>
      /\ UNCHANGED <<height, now>>
  BY Zenon DEF FinalizeRingReshareByThresholdSignature, UpdateRing, SetRing, NextNonce, blockVars
<1>2. ring \in Ring /\ doc.nonce = ring.nonce
  BY <1>1, Zenon DEF TypeOK, Exists, ReshareSignDoc
<1>3. Finalized(ring)
  BY <1>1, Zenon DEF DkgInv, DkgOf, OpenDkg
<1>4. /\ new \in Ring /\ new.output = ring.output /\ new.nonce = height
      /\ new.version = ring.version /\ new.nextVersion = ring.nextVersion
      /\ new.activation = ring.activation
  <2>1. /\ base \in Ring /\ base.output = ring.output
        /\ base.version = ring.version /\ base.nextVersion = ring.nextVersion
        /\ base.activation = ring.activation
    BY <1>2, ReshareFinalizedType, Zenon
  <2>2. height \in Nat
    BY Zenon DEF TypeOK
  <2> HIDE DEF base
  <2> QED
    BY <2>1, <2>2, Zenon DEF Ring
<1> HIDE DEF new, doc
<1>5. /\ \A x \in RingId : x # id => rings'[x] = rings[x] /\ used'[x] = used[x]
      /\ rings'[id] = new /\ used'[id] = used[id] \cup {doc} /\ new # NoRing
  BY <1>1, <1>4, RingAssumption, Zenon DEF TypeOK
<1>6. TypeOK'
  BY <1>1, <1>4, ZenonT(30) DEF TypeOK
<1>7. DkgInv'
  <2>1. DkgOf(id)
    BY Zenon DEF DkgInv
  <2>2. /\ Exists(id) /\ Finalized(rings[id]) /\ Finalized(rings'[id])
        /\ rings'[id].output = rings[id].output
    BY <1>1, <1>3, <1>4, <1>5, Zenon DEF Finalized
  <2>3. votes' = votes /\ fate' = fate /\ acpObjects' = acpObjects
    BY <1>1, Zenon
  <2>4. DkgOf(id)'
    BY <2>1, <2>2, <2>3, Zenon DEF DkgOf
  <2> QED
    BY <1>5, <2>3, <2>4, DkgStep, Zenon
<1>8. NonceInv'
  <2>1. doc.nonce < height
    BY <1>1, Zenon DEF NonceInv
  <2>2. \A d \in used'[id] : d.nonce < height
    <3>1. \A d \in used[id] : d \in SignDoc /\ d.nonce < ring.nonce
      BY <1>1, Zenon DEF NonceInv, TypeOK
    <3>2. height \in Nat /\ ring.nonce \in Nat /\ \A d \in SignDoc : d.nonce \in Nat
      BY <1>2, Zenon DEF TypeOK, SignDoc, Ring
    <3> QED
      BY <1>2, <1>5, <2>1, <3>1, <3>2
  <2> QED
    BY <1>1, <1>4, <1>5, <2>2 DEF NonceInv, Exists, TypeOK
<1>9. UpgradeInv'
  BY <1>1, <1>4, <1>5, Zenon DEF UpgradeInv, Notice, Exists
<1> QED
  BY <1>6, <1>7, <1>8, <1>9, Zenon

(* Off-chain signing adds a document of the last committed state.          *)
LEMMA SignKeepsInv ==
    ASSUME RingInv, NEW id \in RingId, SignReshare(id), UNCHANGED <<blockVars, fresh>>
    PROVE  RingInv'
<1> USE DEF RingInv
<1> DEFINE doc == ReshareSignDoc(id, rings[id])
<1>1. /\ fresh /\ Exists(id) /\ signed' = signed \cup {doc}
      /\ UNCHANGED <<nodeInfo, rings, acpObjects, defaultReporting, votes, fate, used, scheduledAt>>
      /\ UNCHANGED <<height, now, fresh>>
  BY Zenon DEF SignReshare, blockVars
<1>2. rings[id] \in Ring
  BY <1>1, Zenon DEF TypeOK, Exists
<1>3. doc \in SignDoc /\ doc.nonce = rings[id].nonce
  BY <1>2, Zenon DEF ReshareSignDoc, SignDoc, Ring
<1> HIDE DEF doc
<1>4. TypeOK'
  BY <1>1, <1>3, Zenon DEF TypeOK
<1>5. DkgInv'
  BY <1>1, DkgUnchanged, Zenon
<1>6. NonceInv'
  BY <1>1, <1>3, Zenon DEF NonceInv, Exists
<1>7. UpgradeInv'
  BY <1>1, Zenon DEF UpgradeInv, Notice, Exists
<1> QED
  BY <1>4, <1>5, <1>6, <1>7, Zenon

(* A new block only moves height and time forward.                         *)
LEMMA NextBlockKeepsInv == RingInv /\ NextBlock => RingInv'
<1> SUFFICES ASSUME RingInv, NextBlock PROVE RingInv'
  BY Zenon
<1> USE DEF RingInv
<1>1. /\ height' = height + 1 /\ fresh' = TRUE
      /\ \E gap \in BlockGap : now' = now + gap
      /\ UNCHANGED <<nodeInfo, rings, acpObjects, defaultReporting, signed, votes, fate,
                     used, scheduledAt>>
  BY Zenon DEF NextBlock, ringVars
<1>2. TypeOK'
  BY <1>1, RingAssumption DEF TypeOK
<1>3. DkgInv'
  BY <1>1, DkgUnchanged, Zenon
<1>4. NonceInv'
  <2>1. height \in Nat /\ \A id \in RingId : Exists(id) => rings[id].nonce \in Nat
    BY Zenon DEF TypeOK, Ring, Exists
  <2>2. \A d \in signed : d.nonce \in Nat
    BY Zenon DEF TypeOK, SignDoc
  <2> QED
    BY <1>1, <2>1, <2>2 DEF NonceInv, Exists
<1>5. UpgradeInv'
  BY <1>1, Zenon DEF UpgradeInv, Notice, Exists
<1> QED
  BY <1>2, <1>3, <1>4, <1>5, Zenon

(* Registry messages and parameter updates leave the rings alone.          *)
LEMMA RegistryKeepsInv ==
    ASSUME RingInv, UNCHANGED blockVars, fresh' = FALSE,
           NodeStep \/ OtherMessage \/ \E r \in ReportingConfig : UpdateParams(r)
    PROVE  RingInv'
<1> USE DEF RingInv
<1>1. /\ UNCHANGED <<rings, acpObjects, signed, votes, fate, used, scheduledAt, height, now>>
  BY Zenon DEF NodeStep, OtherMessage, UpdateParams, ringVars, blockVars
<1>2. DkgInv'
  BY <1>1, DkgUnchanged, Zenon
<1>3. NonceInv' /\ UpgradeInv'
  BY <1>1, Zenon DEF NonceInv, UpgradeInv, Notice, Exists
<1>4. defaultReporting' \in Reporting
  <2>1. CASE NodeStep \/ OtherMessage
    BY <2>1, Zenon DEF NodeStep, OtherMessage, ringVars, TypeOK
  <2>2. ASSUME NEW r \in ReportingConfig, UpdateParams(r) PROVE defaultReporting' \in Reporting
    <3>1. r \in Reporting /\ <<>> \in Seq(Node)
      BY RingAssumption
    <3>2. [r EXCEPT !.backups = <<>>] \in Reporting
      BY <3>1, Zenon DEF Reporting
    <3> QED
      BY <2>2, <3>2, Zenon DEF UpdateParams
  <2> QED
    BY <2>1, <2>2, Zenon
<1>5. nodeInfo' \in [Node -> NodeInfo \cup {NoInfo}]
  <2>1. CASE OtherMessage \/ \E r \in ReportingConfig : UpdateParams(r)
    BY <2>1, Zenon DEF OtherMessage, UpdateParams, TypeOK
  <2>2. CASE NodeStep
    BY <2>2, NodeAssumption DEF NodeStep, NodeNext, CreateNodeInfo, UpdateNodePeerId,
       TransferNodeController, AddNodeToWhitelist, RemoveNodeFromWhitelist, Authorized,
       Registered, NodeInfo, TypeOK
  <2> QED
    BY <2>1, <2>2, Zenon
<1>6. TypeOK'
  BY <1>1, <1>4, <1>5, Zenon DEF TypeOK
<1> QED
  BY <1>2, <1>3, <1>6, Zenon

-----------------------------------------------------------------------------
(* What a step may never do *)

(* A ring whose keys are fixed keeps them, and a stored ring keeps the     *)
(* protocol version in force at the current block time.                    *)
Kept(x) ==
    /\ Finalized(rings[x]) => rings'[x] # NoRing /\ rings'[x].output = rings[x].output
    /\ rings'[x] # NoRing => EffectiveVersion(rings'[x], now) = EffectiveVersion(rings[x], now)

(* No ring message touches the keys of a final ring, nor a version in      *)
(* force: only FinalizeRing writes keys, and only over an open DKG.        *)
LEMMA RingStepKeeps ==
    ASSUME RingInv, NEW id \in RingId, RingStep(id), NEW x \in RingId, Exists(x)
    PROVE  Kept(x)
<1> rings \in [RingId -> Ring \cup {NoRing}] /\ rings[x] # NoRing
  BY Zenon DEF RingInv, TypeOK, Exists
<1>1. ASSUME NEW ring, rings' = [rings EXCEPT ![id] = ring], x # id PROVE Kept(x)
  BY <1>1, Zenon DEF Kept
<1>2. ASSUME NEW a \in Account, NEW r \in ReportingConfig \cup {defaultReporting},
             CreateRing(id, a, r)
      PROVE  Kept(x)
  <2>1. x # id
    BY <1>2, Zenon DEF CreateRing, Exists
  <2> QED
    BY <1>1, <1>2, <2>1, Zenon DEF CreateRing, SetRing
<1>3. ASSUME NEW n \in Node, NEW out \in Output, FinalizeRing(id, n, out) PROVE Kept(x)
  <2> DEFINE ring == rings[id]
             confirmed == [ring EXCEPT !.confirmations[n] = out]
             final == [ring EXCEPT !.output = out,
                                   !.confirmations = [m \in Node |-> NoOutput]]
  <2>1. ~ Finalized(ring) /\ ring \in Ring
    BY <1>3, Zenon DEF FinalizeRing, Exists
  <2>2. SameUpgrade(confirmed, ring) /\ SameUpgrade(final, ring)
    BY <2>1, Zenon DEF Ring, SameUpgrade
  <2>3. PICK r \in {NoRing, confirmed, final} : rings' = [rings EXCEPT ![id] = r]
    BY <1>3, Zenon DEF FinalizeRing, SetRing, DeleteRing
  <2> HIDE DEF confirmed, final
  <2>4. CASE x = id
    BY <2>1, <2>2, <2>3, <2>4, Zenon DEF Kept, SameUpgrade, EffectiveVersion
  <2> QED
    BY <1>1, <2>3, <2>4, Zenon
<1>4. ASSUME NEW s \in Account \cup Node, CancelPendingRing(id, s) PROVE Kept(x)
  BY <1>1, <1>4, Zenon DEF CancelPendingRing, DeleteRing, Kept
<1>5. CASE FinalizeRingReshareByThresholdSignature(id)
  <2> DEFINE base == ReshareFinalized(rings[id])
             new == [base EXCEPT !.nonce = height]
  <2>1. rings' = [rings EXCEPT ![id] = new] /\ rings[id] \in Ring
    BY <1>5, Zenon DEF FinalizeRingReshareByThresholdSignature, UpdateRing, SetRing, NextNonce, Exists
  <2>2. base \in Ring /\ base.output = rings[id].output /\ SameUpgrade(base, rings[id])
    BY <2>1, ReshareFinalizedType, Zenon DEF SameUpgrade
  <2>3. height \in Nat
    BY Zenon DEF RingInv, TypeOK
  <2> HIDE DEF base
  <2>4. new \in Ring /\ new.output = rings[id].output /\ SameUpgrade(new, rings[id])
    BY <2>2, <2>3, Zenon DEF Ring, SameUpgrade
  <2> HIDE DEF new
  <2>5. CASE x = id
    BY <2>1, <2>4, <2>5, RingAssumption, Zenon DEF Kept, SameUpgrade, EffectiveVersion
  <2> QED
    BY <1>1, <2>1, <2>5, Zenon
<1>6. ASSUME SettingsUpdate(id) PROVE Kept(x)
  <2>1. PICK ring \in Ring :
            /\ rings' = [rings EXCEPT ![id] = ring]
            /\ ring.output = rings[id].output
            /\ EffectiveVersion(ring, now) = EffectiveVersion(rings[id], now)
    BY <1>6, Zenon DEF SettingsUpdate, UpdateRing, SetRing
  <2>2. CASE x = id
    BY <2>1, <2>2, RingAssumption, Zenon DEF Kept
  <2> QED
    BY <1>1, <2>1, <2>2, Zenon
<1> QED
  BY <1>2, <1>3, <1>4, <1>5, <1>6, SettingsUpdates, Zenon DEF RingStep, RingMessage

(* Every step keeps keys, and either the block time or the rings.          *)
LEMMA NextKeeps ==
    ASSUME RingInv, Next, NEW x \in RingId, Exists(x)
    PROVE  (Kept(x) /\ now' = now) \/ (rings' = rings /\ now' \in Nat /\ now' >= now)
<1>0. now \in Nat
  BY Zenon DEF RingInv, TypeOK
<1>1. ASSUME NEW id \in RingId, RingStep(id), UNCHANGED blockVars PROVE Kept(x) /\ now' = now
  BY <1>1, RingStepKeeps, Zenon DEF blockVars
<1>2. CASE (NodeStep \/ OtherMessage) /\ UNCHANGED blockVars
  BY <1>0, <1>2 DEF NodeStep, OtherMessage, ringVars, blockVars
<1>3. ASSUME NEW r \in ReportingConfig, UpdateParams(r), UNCHANGED blockVars
      PROVE  rings' = rings /\ now' = now
  BY <1>3, Zenon DEF UpdateParams, blockVars
<1>4. ASSUME NEW id \in RingId, SignReshare(id), UNCHANGED <<blockVars, fresh>>
      PROVE  rings' = rings /\ now' = now
  BY <1>4, Zenon DEF SignReshare, blockVars
<1>5. CASE NextBlock
  BY <1>0, <1>5, RingAssumption DEF NextBlock, ringVars
<1> QED
  BY <1>0, <1>1, <1>2, <1>3, <1>4, <1>5 DEF Next, Message

-----------------------------------------------------------------------------
(* The invariant theorem *)

(* A committee is finite, so as many confirmations as members are all of   *)
(* them.                                                                   *)
LEMMA CountIsUnanimity == ASSUME NEW ring, ring.peers \subseteq Node PROVE CountMeansAll(ring)
<1> SUFFICES ASSUME Confirmed(ring) \subseteq ring.peers,
                    Cardinality(Confirmed(ring)) >= Cardinality(ring.peers)
             PROVE  Confirmed(ring) = ring.peers
  BY Zenon DEF CountMeansAll, AllConfirmed
<1>1. IsFiniteSet(ring.peers)
  BY NodeAssumption, FS_Subset, Zenon
<1>2. /\ IsFiniteSet(Confirmed(ring))
      /\ Cardinality(Confirmed(ring)) <= Cardinality(ring.peers)
      /\ Cardinality(ring.peers) = Cardinality(Confirmed(ring)) => ring.peers = Confirmed(ring)
  BY <1>1, FS_Subset, Zenon
<1>3. Cardinality(ring.peers) \in Nat /\ Cardinality(Confirmed(ring)) \in Nat
  BY <1>1, <1>2, FS_CardinalityType, Zenon
<1> QED
  BY <1>2, <1>3

(* Every step keeps the invariant, action by action.                       *)
LEMMA NextRingInv == RingInv /\ [Next]_vars => RingInv'
<1> SUFFICES ASSUME RingInv, [Next]_vars PROVE RingInv'
  BY Zenon
<1>1. CASE UNCHANGED vars
  <2>1. /\ UNCHANGED <<nodeInfo, rings, acpObjects, defaultReporting, signed, votes, fate, used>>
        /\ UNCHANGED <<scheduledAt, height, now, fresh>>
    BY <1>1, Zenon DEF vars, ringVars, blockVars
  <2>2. TypeOK /\ DkgInv /\ NonceInv /\ UpgradeInv
    BY Zenon DEF RingInv
  <2>3. TypeOK'
    BY <2>1, <2>2, Zenon DEF TypeOK
  <2>4. DkgInv'
    BY <2>1, <2>2, DkgUnchanged, Zenon
  <2>5. NonceInv' /\ UpgradeInv'
    BY <2>1, <2>2, Zenon DEF NonceInv, UpgradeInv, Notice, Exists
  <2> QED
    BY <2>3, <2>4, <2>5, Zenon DEF RingInv
<1>2. ASSUME NEW id \in RingId, RingStep(id), fresh' = FALSE, UNCHANGED blockVars
      PROVE  RingInv'
  <2>1. ASSUME NEW a \in Account, NEW r \in ReportingConfig \cup {defaultReporting},
               CreateRing(id, a, r)
        PROVE  RingInv'
    <3>1. r \in Reporting
      BY RingAssumption, Zenon DEF RingInv, TypeOK
    <3> QED
      BY <1>2, <2>1, <3>1, CreateKeepsInv, Zenon
  <2>2. ASSUME NEW n \in Node, NEW out \in Output, FinalizeRing(id, n, out) PROVE RingInv'
    <3> DEFINE confirmed == [rings[id] EXCEPT !.confirmations[n] = out]
    <3>1. rings[id] \in Ring
      BY <2>2, Zenon DEF FinalizeRing, Exists, RingInv, TypeOK
    <3>2. confirmed.peers \subseteq Node
      BY <3>1, Zenon DEF Ring
    <3>3. CountMeansAll(confirmed)
      BY <3>2, CountIsUnanimity, Zenon
    <3> QED
      BY <1>2, <2>2, <3>3, FinalizeRingKeepsInv, Zenon
  <2>3. ASSUME NEW s \in Account \cup Node, CancelPendingRing(id, s) PROVE RingInv'
    <3>1. /\ Exists(id) /\ DeleteRing(id, "cancelled")
          /\ UNCHANGED <<nodeInfo, acpObjects, defaultReporting, signed, votes, used, scheduledAt>>
      BY <2>3, Zenon DEF CancelPendingRing
    <3>2. votes' \in [RingId -> SUBSET (Node \X Output)]
      BY <3>1, Zenon DEF RingInv, TypeOK
    <3> QED
      BY <1>2, <3>1, <3>2, DeleteKeepsInv, Zenon
  <2>4. CASE FinalizeRingReshareByThresholdSignature(id)
    BY <1>2, <2>4, FinalizeReshareKeepsInv, Zenon
  <2> QED
    BY <1>2, <2>1, <2>2, <2>3, <2>4, SettingsUpdates, UpdateKeepsInv, Zenon DEF RingStep, RingMessage
<1>3. CASE Message
  BY <1>2, <1>3, RegistryKeepsInv, Zenon DEF Message
<1>4. CASE (\E id \in RingId : SignReshare(id)) /\ UNCHANGED <<blockVars, fresh>>
  BY <1>4, SignKeepsInv, Zenon
<1>5. CASE NextBlock
  BY <1>5, NextBlockKeepsInv, Zenon
<1> QED
  BY <1>1, <1>3, <1>4, <1>5, Zenon DEF Next

(* Every reachable state of the ring lifecycle is well typed, its DKG      *)
(* bookkeeping agrees with what nodes submitted, and its nonces are past.  *)
THEOREM RingInvariant == Spec => []RingInv
BY InitRingInv, NextRingInv, PTL DEF Spec

-----------------------------------------------------------------------------
(* Safety *)

(* The keys of a final ring were submitted by every node of the committee  *)
(* it was created with, each exactly once.                                 *)
THEOREM Unanimity == Spec => []FinalizedUnanimously
<1>1. RingInv => FinalizedUnanimously
  BY DEF RingInv, DkgInv, DkgOf, AllFor, FinalizedUnanimously
<1> QED
  BY <1>1, RingInvariant, PTL

(* A ring is deleted as conflicting only after two different nodes         *)
(* submitted different keys.                                               *)
THEOREM ConflictSafety == Spec => []ConflictNeedsTwoNodes
<1>1. RingInv => ConflictNeedsTwoNodes
  BY Zenon DEF RingInv, DkgInv, DkgOf, Opposed, ConflictNeedsTwoNodes
<1> QED
  BY <1>1, RingInvariant, PTL

(* No ring identifier is ever reused after its ring was deleted.           *)
THEOREM NoResurrection == Spec => []DeletedForever
<1>1. RingInv => DeletedForever
  BY Zenon DEF RingInv, DkgInv, DkgOf, DeletedForever
<1> QED
  BY <1>1, RingInvariant, PTL

(* No threshold signature finalises two reshares.                          *)
THEOREM NoSignatureReplay == Spec => []SignatureUsedOnce
<1>1. RingInv => SignatureUsedOnce
  <2> SUFFICES ASSUME RingInv, NEW id \in RingId, Exists(id),
                      ReshareSignDoc(id, rings[id]) \in used[id]
               PROVE  FALSE
    BY Zenon DEF SignatureUsedOnce
  <2>1. ReshareSignDoc(id, rings[id]).nonce = rings[id].nonce
    BY Zenon DEF ReshareSignDoc
  <2>2. rings[id].nonce \in Nat
    BY Zenon DEF RingInv, TypeOK, Exists, Ring
  <2> QED
    BY <2>1, <2>2, SMTT(30) DEF RingInv, NonceInv
<1> QED
  BY <1>1, RingInvariant, PTL

(* Once final, a ring's keys are never changed and never deleted.          *)
THEOREM KeyStability == Spec => KeysStable
<1> DEFINE Step == \A id \in RingId : Exists(id) /\ Finalized(rings[id]) =>
                       /\ rings'[id] # NoRing
                       /\ rings'[id].output = rings[id].output
<1>1. RingInv /\ [Next]_vars => [Step]_vars
  <2> SUFFICES ASSUME RingInv, Next, NEW id \in RingId, Exists(id), Finalized(rings[id])
               PROVE  rings'[id] # NoRing /\ rings'[id].output = rings[id].output
    BY Zenon
  <2> QED
    BY NextKeeps, Zenon DEF Kept, Exists
<1> QED
  BY <1>1, RingInvariant, PTL DEF Spec, KeysStable

(* The protocol version in force for a ring never goes back.               *)
THEOREM VersionMonotonicity == Spec => EffectiveVersionMonotone
<1> DEFINE Step == \A id \in RingId : Exists(id) /\ rings'[id] # NoRing =>
                       EffectiveVersion(rings'[id], now') >= EffectiveVersion(rings[id], now)
<1>1. RingInv /\ [Next]_vars => [Step]_vars
  <2> SUFFICES ASSUME RingInv, Next, NEW id \in RingId, Exists(id), rings'[id] # NoRing
               PROVE  EffectiveVersion(rings'[id], now') >= EffectiveVersion(rings[id], now)
    BY Zenon
  <2> DEFINE ring == rings[id]
  <2>1. /\ ring.version \in Nat /\ ring.nextVersion \in OptNat /\ now \in Nat
        /\ Notice(ring, scheduledAt[id])
    BY Zenon DEF RingInv, TypeOK, UpgradeInv, Exists, Ring
  <2>2. CASE Kept(id) /\ now' = now
    <3>1. EffectiveVersion(ring, now) \in Int
      BY <2>1 DEF EffectiveVersion, OptNat, None
    <3>2. EffectiveVersion(rings'[id], now') = EffectiveVersion(ring, now)
      BY <2>2, Zenon DEF Kept
    <3> QED
      BY <3>1, <3>2
  <2>3. CASE rings' = rings /\ now' \in Nat /\ now' >= now
    <3>1. CASE ring.nextVersion = None
      BY <2>1, <2>3, <3>1 DEF EffectiveVersion
    <3>2. CASE ring.nextVersion # None
      <4>1. ring.nextVersion \in Nat /\ ring.activation \in Nat /\ ring.nextVersion > ring.version
        BY <2>1, <3>2, Zenon DEF Notice, OptNat
      <4> QED
        BY <2>1, <2>3, <4>1 DEF EffectiveVersion
    <3> QED
      BY <3>1, <3>2, Zenon
  <2> QED
    BY <2>2, <2>3, NextKeeps, Zenon
<1> QED
  BY <1>1, RingInvariant, PTL DEF Spec, EffectiveVersionMonotone

(* A version comes into force only as the pending one, and only after the  *)
(* lead time that ScheduleRingUpgradeByAcp demands.                        *)
THEOREM VersionNotice == Spec => UpgradeNotice
<1> DEFINE Step == \A id \in RingId :
                      LET after == EffectiveVersion(rings'[id], now')
                      IN  Exists(id) /\ rings'[id] # NoRing
                              /\ after # EffectiveVersion(rings[id], now) =>
                          /\ after = rings[id].nextVersion
                          /\ now' >= scheduledAt[id] + MinUpgradeLead
<1>1. RingInv /\ [Next]_vars => [Step]_vars
  <2> SUFFICES ASSUME RingInv, Next, NEW id \in RingId, Exists(id), rings'[id] # NoRing,
                      EffectiveVersion(rings'[id], now') # EffectiveVersion(rings[id], now)
               PROVE  /\ EffectiveVersion(rings'[id], now') = rings[id].nextVersion
                      /\ now' >= scheduledAt[id] + MinUpgradeLead
    BY Zenon
  <2> DEFINE ring == rings[id]
  <2>1. /\ ring.version \in Nat /\ ring.nextVersion \in OptNat /\ now \in Nat
        /\ Notice(ring, scheduledAt[id]) /\ scheduledAt[id] \in Nat
    BY Zenon DEF RingInv, TypeOK, UpgradeInv, Exists, Ring
  <2>2. rings' = rings /\ now' \in Nat /\ now' >= now
    BY NextKeeps, Zenon DEF Kept
  <2> QED
    BY <2>1, <2>2, RingAssumption DEF EffectiveVersion, Notice, OptNat, None
<1> QED
  BY <1>1, RingInvariant, PTL DEF Spec, UpgradeNotice

-----------------------------------------------------------------------------
(* Validity of what is stored *)

(* A stored ring passes validateRing, and has no upgrade pending before    *)
(* its DKG is final.                                                       *)
Sound(id, ring) == ValidateRing(id, ring) /\ (~ Finalized(ring) => ring.nextVersion = None)
SoundInv == \A id \in RingId : Exists(id) => Sound(id, rings[id])

(* validateRing reads neither the keys nor the confirmations.              *)
LEMMA SameValidity ==
    ASSUME NEW id \in RingId, NEW ring \in Ring, NEW n \in Node, NEW out \in Output,
           ValidateRing(id, ring)
    PROVE  ValidateRing(id, [ring EXCEPT !.confirmations[n] = out])
<1> DEFINE new == [ring EXCEPT !.confirmations[n] = out]
<1>1. /\ new.peers = ring.peers /\ new.threshold = ring.threshold
      /\ new.newPeers = ring.newPeers /\ new.newThreshold = ring.newThreshold
      /\ new.version = ring.version /\ new.nextVersion = ring.nextVersion
      /\ new.activation = ring.activation /\ new.reporting = ring.reporting
      /\ new.relays = ring.relays
  BY Zenon DEF Ring
<1> HIDE DEF new
<1>2. ValidateRing(id, new)
  BY <1>1, Zenon DEF ValidateRing, ValidateUpgradeInfo, ResharePending, TargetPeers, TargetThreshold
<1> QED
  BY <1>2, Zenon DEF new

(* Every ring message writes a sound ring or deletes the ring.             *)
LEMMA RingStepSound ==
    ASSUME RingInv, SoundInv, NEW id \in RingId, RingStep(id)
    PROVE  \E r : (r = NoRing \/ Sound(id, r)) /\ rings' = [rings EXCEPT ![id] = r]
<1> DEFINE Writes(r) == (r = NoRing \/ Sound(id, r)) /\ rings' = [rings EXCEPT ![id] = r]
<1> SUFFICES \E r : Writes(r)
  BY Zenon
<1>1. ASSUME NEW a \in Account, NEW r \in ReportingConfig \cup {defaultReporting},
             CreateRing(id, a, r)
      PROVE  Writes(NewRing(id, a, r))
  <2>1. NewRing(id, a, r).nextVersion = None
    BY Zenon DEF NewRing
  <2> QED
    BY <1>1, <2>1, Zenon DEF CreateRing, SetRing, Sound
<1>2. ASSUME NEW n \in Node, NEW out \in Output, FinalizeRing(id, n, out)
      PROVE  \E r : Writes(r)
  <2> DEFINE ring == rings[id]
             confirmed == [ring EXCEPT !.confirmations[n] = out]
             final == [ring EXCEPT !.output = out,
                                   !.confirmations = [m \in Node |-> NoOutput]]
  <2>1. Exists(id) /\ ~ Finalized(ring) /\ ring \in Ring
    BY <1>2, Zenon DEF FinalizeRing, Exists, RingInv, TypeOK
  <2>2. ValidateRing(id, ring) /\ ring.nextVersion = None
    BY <2>1, Zenon DEF SoundInv, Sound
  <2>3. confirmed.nextVersion = None /\ final.nextVersion = None
    BY <2>1, <2>2, Zenon DEF Ring
  <2>4. ValidateRing(id, confirmed)
    BY <2>1, <2>2, SameValidity, Zenon
  <2> HIDE DEF confirmed, final, ring
  <2>5. \/ rings' = [rings EXCEPT ![id] = NoRing]
        \/ rings' = [rings EXCEPT ![id] = confirmed]
        \/ rings' = [rings EXCEPT ![id] = final] /\ ValidateRing(id, final)
    BY <1>2, Zenon DEF FinalizeRing, SetRing, DeleteRing, ring, confirmed, final
  <2> QED
    BY <2>3, <2>4, <2>5, Zenon DEF Sound
<1>3. ASSUME NEW s \in Account \cup Node, CancelPendingRing(id, s) PROVE Writes(NoRing)
  BY <1>3, Zenon DEF CancelPendingRing, DeleteRing
<1>4. ASSUME FinalizeRingReshareByThresholdSignature(id) PROVE \E r : Writes(r)
  <2> DEFINE base == ReshareFinalized(rings[id])
             new == [base EXCEPT !.nonce = height]
  <2>1. Exists(id) /\ ResharePending(rings[id]) /\ ValidateRing(id, new)
        /\ rings' = [rings EXCEPT ![id] = new]
    BY <1>4, Zenon DEF FinalizeRingReshareByThresholdSignature, UpdateRing, SetRing, NextNonce
  <2>2. rings[id] \in Ring /\ Finalized(rings[id])
    BY <2>1, OpenHasNoReshare, Zenon
  <2>3. base \in Ring /\ base.output = rings[id].output
    BY <2>2, ReshareFinalizedType, Zenon
  <2> HIDE DEF base
  <2>4. new.output = base.output
    BY <2>3, Zenon DEF Ring
  <2> HIDE DEF new
  <2>5. Sound(id, new)
    BY <2>1, <2>2, <2>3, <2>4, Zenon DEF Sound, Finalized
  <2> QED
    BY <2>1, <2>5, Zenon
<1>5. ASSUME SettingsUpdate(id) PROVE \E r : Writes(r)
  <2>1. PICK ring \in Ring :
            /\ UpdateRing(id, ring) /\ ring.output = rings[id].output
            /\ ~ Finalized(rings[id]) => SameUpgrade(ring, rings[id])
    BY <1>5, Zenon DEF SettingsUpdate
  <2>2. Exists(id)
    BY <1>5, Zenon DEF SettingsUpdate
  <2>3. Sound(id, ring)
    BY <2>1, <2>2, Zenon DEF UpdateRing, Sound, SoundInv, Finalized, SameUpgrade
  <2> QED
    BY <2>1, <2>3, Zenon DEF UpdateRing, SetRing
<1> QED
  BY <1>1, <1>2, <1>3, <1>4, <1>5, SettingsUpdates, Zenon DEF RingStep, RingMessage

(* A valid ring stays valid when its pending reshare is finalised.         *)
LEMMA TargetValid ==
    ASSUME NEW id \in RingId, NEW ring \in Ring, ValidateRing(id, ring), ResharePending(ring)
    PROVE  ValidateRing(id, ReshareFinalized(ring))
<1> DEFINE new == ReshareFinalized(ring)
<1>1. /\ new.peers = TargetPeers(ring) /\ new.threshold = TargetThreshold(ring)
      /\ new.newPeers = {} /\ new.newThreshold = None
      /\ new.version = ring.version /\ new.nextVersion = ring.nextVersion
      /\ new.activation = ring.activation /\ new.reporting = ring.reporting
      /\ new.relays = ring.relays
  BY Zenon DEF ReshareFinalized, Ring
<1> HIDE DEF new
<1>2. TargetPeers(ring) # {} /\ TargetPeers(ring) \subseteq Node
  BY Zenon DEF ValidateRing, TargetPeers, Ring
<1>3. Cardinality(TargetPeers(ring)) \in Nat
  BY <1>2, NodeAssumption, FS_Subset, FS_CardinalityType, Zenon
<1>4. TargetThreshold(ring) \in Nat \ {0} /\ TargetThreshold(ring) <= Cardinality(TargetPeers(ring))
  <2>1. ring.threshold \in Nat /\ ring.newThreshold \in OptNat /\ ring.newThreshold # 0
    BY Zenon DEF Ring, ValidateRing
  <2>2. ring.threshold >= 1
    <3>1. ring.threshold \in 1 .. Cardinality(ring.peers)
      BY Zenon DEF ValidateRing
    <3>2. Cardinality(ring.peers) \in Nat
      BY NodeAssumption, FS_Subset, FS_CardinalityType, Zenon DEF Ring
    <3> QED
      BY <2>1, <3>1, <3>2
  <2> QED
    BY <2>1, <2>2 DEF TargetThreshold, ValidateRing, OptNat
<1>5. new.threshold \in 1 .. Cardinality(new.peers)
  <2>1. new.threshold = TargetThreshold(ring) /\ new.peers = TargetPeers(ring)
    BY <1>1, Zenon
  <2>2. TargetThreshold(ring) \in 1 .. Cardinality(TargetPeers(ring))
    BY <1>3, <1>4
  <2> QED
    BY <2>1, <2>2, Zenon
<1>6. ~ ResharePending(new) /\ new.newThreshold # 0
  BY <1>1 DEF ResharePending, None
<1>7. ValidateUpgradeInfo(new)
  BY <1>1, Zenon DEF ValidateRing, ValidateUpgradeInfo
<1> QED
  BY <1>1, <1>2, <1>5, <1>6, <1>7, Zenon DEF ValidateRing, new

(* Whatever messages change a ring, what is stored passes validateRing and *)
(* a pending reshare leads to a ring that passes it too.                   *)
THEOREM ValidRings == Spec => []StoredRingsValid
<1>1. Init => SoundInv
  BY Zenon DEF Init, SoundInv, Exists
<1>2. RingInv /\ SoundInv /\ [Next]_vars => SoundInv'
  <2> SUFFICES ASSUME RingInv, SoundInv, [Next]_vars PROVE SoundInv'
    BY Zenon
  <2>0. rings \in [RingId -> Ring \cup {NoRing}]
    BY Zenon DEF RingInv, TypeOK
  <2>1. ASSUME NEW id \in RingId, RingStep(id) PROVE SoundInv'
    <3>1. PICK r : (r = NoRing \/ Sound(id, r)) /\ rings' = [rings EXCEPT ![id] = r]
      BY <2>1, RingStepSound, Zenon
    <3> SUFFICES ASSUME NEW x \in RingId, rings'[x] # NoRing PROVE Sound(x, rings'[x])
      BY Zenon DEF SoundInv, Exists, Sound, ValidateRing, ValidateUpgradeInfo,
         ValidateReportingConfig, ResharePending, TargetPeers, TargetThreshold, Finalized
    <3>2. CASE x = id
      BY <2>0, <3>1, <3>2, Zenon
    <3>3. CASE x # id
      BY <2>0, <3>1, <3>3, Zenon DEF SoundInv, Exists
    <3> QED
      BY <3>2, <3>3, Zenon
  <2>2. CASE rings' = rings
    BY <2>2, Zenon DEF SoundInv, Exists, Sound, ValidateRing, ValidateUpgradeInfo,
       ValidateReportingConfig, ResharePending, TargetPeers, TargetThreshold, Finalized
  <2>3. rings' = rings \/ \E id \in RingId : RingStep(id)
    BY Zenon DEF Next, Message, NodeStep, OtherMessage, UpdateParams, SignReshare, NextBlock,
       ringVars, vars
  <2> QED
    BY <2>1, <2>2, <2>3, Zenon
<1>3. RingInv /\ SoundInv => StoredRingsValid
  <2> SUFFICES ASSUME RingInv, SoundInv, NEW id \in RingId, Exists(id)
               PROVE  StoredRingsValid!(id)!2
    BY Zenon DEF StoredRingsValid
  <2>1. rings[id] \in Ring /\ (~ Finalized(rings[id]) => ~ ResharePending(rings[id]))
    BY OpenHasNoReshare, Zenon
  <2> QED
    BY <2>1, TargetValid, Zenon DEF SoundInv, Sound
<1> QED
  BY <1>1, <1>2, <1>3, RingInvariant, PTL DEF Spec

-----------------------------------------------------------------------------
(* The nodes a ring names *)

(* Every node of a ring is registered.                                     *)
NamesKnown(ring) ==
    /\ \A n \in ring.peers \cup ring.newPeers : Registered(n)
    /\ BackupsRegistered(ring.reporting)
NamesInv == \A id \in RingId : Exists(id) => NamesKnown(rings[id])

(* A ring brings in new members only if their whitelists admit it.         *)
Consented(id, old, new) ==
    \A n \in new.newPeers \ (old.newPeers \cup old.peers) :
        Config[id].policy \in nodeInfo[n].policies \/ id \in nodeInfo[n].rings

(* Every ring message writes a ring of registered nodes, with consent of   *)
(* those that were not in it before, or deletes the ring.                  *)
LEMMA RingStepNames ==
    ASSUME RingInv, NamesInv, NEW id \in RingId, RingStep(id)
    PROVE  /\ nodeInfo' = nodeInfo
           /\ \E r : /\ r = NoRing \/ (NamesKnown(r) /\ Consented(id, rings[id], r))
                    /\ rings' = [rings EXCEPT ![id] = r]
<1> DEFINE ring == rings[id]
           norm == NormalizeUpgrade(ring)
           Writes(r) == /\ nodeInfo' = nodeInfo
                        /\ r = NoRing \/ (NamesKnown(r) /\ Consented(id, ring, r))
                        /\ rings' = [rings EXCEPT ![id] = r]
           Same(r) == /\ r.peers = ring.peers /\ r.newPeers = ring.newPeers
                      /\ r.reporting = ring.reporting
<1> SUFFICES \E r : Writes(r)
  BY Zenon
<1>0. Exists(id) => /\ ring \in Ring /\ norm \in Ring /\ Same(ring) /\ Same(norm)
                    /\ NamesKnown(ring)
  <2>1. Exists(id) => ring \in Ring /\ NamesKnown(ring)
    BY Zenon DEF RingInv, TypeOK, Exists, NamesInv
  <2>2. ring \in Ring => Same(norm)
    BY Zenon DEF NormalizeUpgrade, Ring
  <2> QED
    BY <2>1, <2>2, NormalizeType, Zenon
<1> HIDE DEF norm, ring
<1>1. ASSUME NEW new, Exists(id), SetRing(id, new), nodeInfo' = nodeInfo, Same(new)
      PROVE  Writes(new)
  BY <1>0, <1>1, Zenon DEF NamesKnown, Consented, SetRing
<1>2. ASSUME NEW a \in Account, NEW r \in ReportingConfig \cup {defaultReporting},
             CreateRing(id, a, r)
      PROVE  Writes(NewRing(id, a, r))
  <2>1. NewRing(id, a, r).newPeers = {} /\ NewRing(id, a, r).reporting = r
    BY Zenon DEF NewRing
  <2> QED
    BY <1>2, <2>1, Zenon DEF CreateRing, SetRing, NamesKnown, Consented
<1>3. ASSUME NEW n \in Node, NEW out \in Output, FinalizeRing(id, n, out) PROVE \E r : Writes(r)
  <2> DEFINE confirmed == [ring EXCEPT !.confirmations[n] = out]
             final == [ring EXCEPT !.output = out,
                                   !.confirmations = [m \in Node |-> NoOutput]]
  <2>1. Exists(id) /\ nodeInfo' = nodeInfo
    BY <1>3, Zenon DEF FinalizeRing
  <2>2. Same(confirmed) /\ Same(final)
    BY <1>0, <2>1, Zenon DEF Ring
  <2>3. PICK r \in {NoRing, confirmed, final} : rings' = [rings EXCEPT ![id] = r]
    BY <1>3, Zenon DEF FinalizeRing, SetRing, DeleteRing, ring
  <2> HIDE DEF confirmed, final
  <2> QED
    BY <1>1, <2>1, <2>2, <2>3, Zenon DEF SetRing
<1>4. ASSUME NEW s \in Account \cup Node, CancelPendingRing(id, s) PROVE Writes(NoRing)
  BY <1>4, Zenon DEF CancelPendingRing, DeleteRing
<1>5. ASSUME FinalizeRingReshareByThresholdSignature(id) PROVE \E r : Writes(r)
  <2> DEFINE new == [ReshareFinalized(ring) EXCEPT !.nonce = height]
  <2>1. Exists(id) /\ rings' = [rings EXCEPT ![id] = new] /\ nodeInfo' = nodeInfo
    BY <1>5, Zenon DEF FinalizeRingReshareByThresholdSignature, UpdateRing, SetRing, NextNonce, ring
  <2>2. /\ new.peers = TargetPeers(ring) /\ new.newPeers = {}
        /\ new.reporting = ring.reporting
    BY <1>0, <2>1, Zenon DEF ReshareFinalized, Ring
  <2> HIDE DEF new
  <2> QED
    BY <1>0, <2>1, <2>2, Zenon DEF NamesKnown, Consented, TargetPeers
<1>6. ASSUME NEW c \in Committee, NEW t \in Threshold, StartRingReshareByAcp(id, c, t)
      PROVE  \E r : Writes(r)
  <2> DEFINE new == [norm EXCEPT !.newPeers = c, !.newThreshold = t]
  <2>1. /\ Exists(id) /\ rings' = [rings EXCEPT ![id] = new] /\ nodeInfo' = nodeInfo
        /\ \A n \in c : NodeAllowsRing(n, Config[id].policy, id)
    BY <1>6, Zenon DEF StartRingReshareByAcp, UpdateRing, SetRing, norm, ring
  <2>2. new.peers = ring.peers /\ new.newPeers = c /\ new.reporting = ring.reporting
    BY <1>0, <2>1, Zenon DEF Ring
  <2> HIDE DEF new
  <2> QED
    BY <1>0, <2>1, <2>2, Zenon DEF NamesKnown, Consented, NodeAllowsRing
<1>7. ASSUME CancelRingReshareByAcp(id) PROVE \E r : Writes(r)
  <2> DEFINE new == [ring EXCEPT !.newPeers = {}, !.newThreshold = None]
  <2>1. Exists(id) /\ rings' = [rings EXCEPT ![id] = new] /\ nodeInfo' = nodeInfo
    BY <1>7, Zenon DEF CancelRingReshareByAcp, UpdateRing, SetRing, ring
  <2>2. new.peers = ring.peers /\ new.newPeers = {} /\ new.reporting = ring.reporting
    BY <1>0, <2>1, Zenon DEF Ring
  <2> HIDE DEF new
  <2> QED
    BY <1>0, <2>1, <2>2, Zenon DEF NamesKnown, Consented
<1>8. ASSUME NEW i \in PssInterval, SetRingPssIntervalByAcp(id, i) PROVE \E r : Writes(r)
  <2> DEFINE new == [norm EXCEPT !.pssInterval = i]
  <2>1. Exists(id) /\ SetRing(id, new) /\ nodeInfo' = nodeInfo
    BY <1>8, Zenon DEF SetRingPssIntervalByAcp, UpdateRing, norm, ring
  <2>2. Same(new)
    BY <1>0, <2>1, Zenon DEF Ring
  <2> QED
    BY <1>1, <2>1, <2>2, Zenon
<1>9. ASSUME NEW v \in Version, NEW t \in 0 .. MaxTime, ScheduleRingUpgradeByAcp(id, v, t)
      PROVE  \E r : Writes(r)
  <2> DEFINE new == [norm EXCEPT !.nextVersion = v, !.activation = t]
  <2>1. Exists(id) /\ SetRing(id, new) /\ nodeInfo' = nodeInfo
    BY <1>9, Zenon DEF ScheduleRingUpgradeByAcp, UpdateRing, norm, ring
  <2>2. Same(new)
    BY <1>0, <2>1, Zenon DEF Ring
  <2> QED
    BY <1>1, <2>1, <2>2, Zenon
<1>10. ASSUME CancelRingUpgradeByAcp(id) PROVE \E r : Writes(r)
  <2> DEFINE new == [ring EXCEPT !.nextVersion = None, !.activation = None]
  <2>1. Exists(id) /\ SetRing(id, new) /\ nodeInfo' = nodeInfo
    BY <1>10, Zenon DEF CancelRingUpgradeByAcp, UpdateRing, ring
  <2>2. Same(new)
    BY <1>0, <2>1, Zenon DEF Ring
  <2> QED
    BY <1>1, <2>1, <2>2, Zenon
<1>11. ASSUME NEW r \in ReportingConfig, SetRingReportingByAcp(id, r) PROVE \E x : Writes(x)
  <2> DEFINE new == [norm EXCEPT !.reporting = r]
  <2>1. /\ Exists(id) /\ rings' = [rings EXCEPT ![id] = new] /\ nodeInfo' = nodeInfo
        /\ BackupsRegistered(r)
    BY <1>11, Zenon
       DEF SetRingReportingByAcp, UpdateRing, SetRing, NodeAllowsRing, BackupsRegistered, norm, ring
  <2>2. new.peers = ring.peers /\ new.newPeers = ring.newPeers /\ new.reporting = r
    BY <1>0, <2>1, Zenon DEF Ring
  <2> HIDE DEF new
  <2> QED
    BY <1>0, <2>1, <2>2, Zenon DEF NamesKnown, Consented
<1>12. ASSUME NEW relays, Exists(id), UpdateRing(id, [ring EXCEPT !.relays = relays])
       PROVE  \E r : Writes(r)
  <2> DEFINE new == [ring EXCEPT !.relays = relays]
  <2>1. SetRing(id, new) /\ nodeInfo' = nodeInfo
    BY <1>12, Zenon DEF UpdateRing
  <2>2. Same(new)
    BY <1>0, <1>12, Zenon DEF Ring
  <2> QED
    BY <1>1, <1>12, <2>1, <2>2, Zenon
<1>13. ASSUME NEW r \in Relay,
              AddRingTrustedAuthRelayByAcp(id, r) \/ RemoveRingTrustedAuthRelayByAcp(id, r)
       PROVE  \E x : Writes(x)
  <2>1. /\ Exists(id)
        /\ \/ UpdateRing(id, [ring EXCEPT !.relays = ring.relays \cup {r}])
           \/ UpdateRing(id, [ring EXCEPT !.relays = ring.relays \ {r}])
    BY <1>13, Zenon DEF AddRingTrustedAuthRelayByAcp, RemoveRingTrustedAuthRelayByAcp, ring
  <2> QED
    BY <1>12, <2>1, Zenon
<1>14. ASSUME NEW n \in Node, ScheduleAutoReshare(id, n) PROVE \E r : Writes(r)
  <2>1. Exists(id)
    BY <1>14, Zenon DEF ScheduleAutoReshare
  <2> DEFINE b == ring.reporting.backups
  <2>2. PICK i \in DOMAIN b : Replacement(id, i) /\ UpdateRing(id, AutoReshared(id, n, i))
    BY <1>14, Zenon DEF ScheduleAutoReshare, ring
  <2> DEFINE new == AutoReshared(id, n, i)
  <2>3. rings' = [rings EXCEPT ![id] = new] /\ nodeInfo' = nodeInfo
        /\ NodeAllowsRing(b[i], Config[id].policy, id)
    BY <2>2, Zenon DEF UpdateRing, SetRing, Replacement, Eligible, ring
  <2>4. ring \in Ring /\ ring.reporting \in Reporting /\ b \in Seq(Node)
    BY <1>0, <2>1, Zenon DEF Ring, Reporting
  <2>5. /\ new.peers = ring.peers /\ new.newPeers = (ring.peers \ {n}) \cup {b[i]}
        /\ new.reporting.backups = WithoutBackup(b, i)
    BY <2>4, Zenon DEF AutoReshared, Ring, Reporting, ring
  <2> HIDE DEF new, b
  <2>6. \A j \in DOMAIN WithoutBackup(b, i) : Registered(WithoutBackup(b, i)[j])
    <3> TAKE j \in DOMAIN WithoutBackup(b, i)
    <3>1. PICK k \in DOMAIN b : WithoutBackup(b, i)[j] = b[k]
      BY <2>2, <2>4, WithoutBackupPart, Zenon
    <3> QED
      BY <1>0, <2>1, <3>1, Zenon DEF NamesKnown, BackupsRegistered, b
  <2> QED
    BY <1>0, <2>1, <2>3, <2>5, <2>6, Zenon
       DEF NamesKnown, Consented, BackupsRegistered, NodeAllowsRing
<1> QED
  BY <1>2, <1>3, <1>4, <1>5, <1>6, <1>7, <1>8, <1>9, <1>10, <1>11, <1>13, <1>14, Zenon
     DEF RingStep, RingMessage

(* The registry never forgets a node.                                      *)
LEMMA RegistryGrows ==
    ASSUME RingInv, NodeStep, NEW n \in Node, Registered(n)
    PROVE  nodeInfo'[n] # NoInfo
<1>1. nodeInfo \in [Node -> NodeInfo \cup {NoInfo}] /\ nodeInfo[n] \in NodeInfo
  BY Zenon DEF RingInv, TypeOK, Registered
<1>2. nodeInfo'[n] \in NodeInfo
  BY <1>1, NodeAssumption DEF NodeStep, NodeNext, CreateNodeInfo, UpdateNodePeerId,
     TransferNodeController, AddNodeToWhitelist, RemoveNodeFromWhitelist, Authorized,
     Registered, NodeInfo
<1> QED
  BY <1>2, NodeAssumption, Zenon

(* Every node of every ring is registered, whatever settings, reshares and *)
(* kicks do.                                                               *)
LEMMA NamesInvariant == Spec => []NamesInv
<1>1. Init => NamesInv
  BY Zenon DEF Init, NamesInv, Exists
<1>2. RingInv /\ NamesInv /\ [Next]_vars => NamesInv'
  <2> SUFFICES ASSUME RingInv, NamesInv, [Next]_vars PROVE NamesInv'
    BY Zenon
  <2> DEFINE KnownNext(ring) ==
          /\ \A n \in ring.peers \cup ring.newPeers : nodeInfo'[n] # NoInfo
          /\ \A i \in DOMAIN ring.reporting.backups : nodeInfo'[ring.reporting.backups[i]] # NoInfo
  <2>0. rings \in [RingId -> Ring \cup {NoRing}]
    BY Zenon DEF RingInv, TypeOK
  <2>s. SUFFICES ASSUME NEW x \in RingId, rings'[x] # NoRing PROVE KnownNext(rings'[x])
    BY Zenon DEF NamesInv, NamesKnown, BackupsRegistered, Registered, Exists
  <2>1. ASSUME NEW id \in RingId, RingStep(id) PROVE KnownNext(rings'[x])
    <3>1. PICK r : /\ nodeInfo' = nodeInfo /\ (r = NoRing \/ NamesKnown(r))
                   /\ rings' = [rings EXCEPT ![id] = r]
      BY <2>1, RingStepNames, Zenon
    <3>2. NamesKnown(rings'[x])
      <4>1. CASE x = id
        BY <2>0, <2>s, <3>1, <4>1, Zenon
      <4>2. CASE x # id
        BY <2>0, <2>s, <3>1, <4>2, Zenon DEF NamesInv, Exists
      <4> QED
        BY <4>1, <4>2, Zenon
    <3> QED
      BY <3>1, <3>2, Zenon DEF NamesKnown, BackupsRegistered, Registered
  <2>2. CASE rings' = rings /\ nodeInfo' = nodeInfo
    <3>1. NamesKnown(rings[x])
      BY <2>s, <2>2, Zenon DEF NamesInv, Exists
    <3> QED
      BY <2>2, <3>1, Zenon DEF NamesKnown, BackupsRegistered, Registered
  <2>3. CASE NodeStep
    <3>1. rings' = rings
      BY <2>3, Zenon DEF NodeStep, ringVars
    <3>2. NamesKnown(rings[x]) /\ rings[x] \in Ring
      BY <2>0, <2>s, <3>1, Zenon DEF NamesInv, Exists
    <3>3. /\ \A n \in rings[x].peers \cup rings[x].newPeers : n \in Node
          /\ \A i \in DOMAIN rings[x].reporting.backups : rings[x].reporting.backups[i] \in Node
      <4>1. rings[x].peers \subseteq Node /\ rings[x].newPeers \subseteq Node /\ rings[x].reporting \in Reporting
        BY <3>2, Zenon DEF Ring
      <4>2. rings[x].reporting.backups \in Seq(Node)
        BY <4>1, Zenon DEF Reporting
      <4> QED
        BY <4>1, <4>2
    <3> QED
      BY <2>3, <3>1, <3>2, <3>3, RegistryGrows, Zenon DEF NamesKnown, BackupsRegistered
  <2>4. \/ rings' = rings /\ nodeInfo' = nodeInfo
        \/ NodeStep
        \/ \E id \in RingId : RingStep(id)
    BY Zenon DEF Next, Message, OtherMessage, UpdateParams, SignReshare, NextBlock, ringVars, vars
  <2> QED
    BY <2>1, <2>2, <2>3, <2>4, Zenon
<1> QED
  BY <1>1, <1>2, RingInvariant, PTL DEF Spec

(* Every node that a stored ring names, active, incoming or backup, is     *)
(* registered, whatever settings, reshares and kicks do.                   *)
THEOREM NamedAreRegistered == Spec => []CommitteeRegistered
<1>1. NamesInv => CommitteeRegistered
  BY Zenon DEF NamesInv, NamesKnown, BackupsRegistered, Registered, CommitteeRegistered
<1> QED
  BY <1>1, NamesInvariant, PTL

(* A reshare drafts a node only if its own whitelist admits the ring or    *)
(* the ring's policy, whether StartRingReshareByAcp proposes the committee *)
(* or a kick promotes a backup.                                            *)
THEOREM NobodyDrafted == Spec => DraftedWithConsent
<1> DEFINE Step == \A id \in RingId : Exists(id) /\ rings'[id] # NoRing =>
                      \A n \in rings'[id].newPeers \ (rings[id].newPeers \cup rings[id].peers) :
                          \/ Config[id].policy \in nodeInfo[n].policies
                          \/ id \in nodeInfo[n].rings
<1>1. RingInv /\ NamesInv /\ [Next]_vars => [Step]_vars
  <2> SUFFICES ASSUME RingInv, NamesInv, [Next]_vars, NEW x \in RingId, Exists(x),
                      rings'[x] # NoRing
               PROVE  Consented(x, rings[x], rings'[x])
    BY Zenon DEF Consented
  <2>0. rings \in [RingId -> Ring \cup {NoRing}]
    BY Zenon DEF RingInv, TypeOK
  <2>1. CASE rings' = rings
    BY <2>1, Zenon DEF Consented
  <2>2. ASSUME NEW id \in RingId, RingStep(id) PROVE Consented(x, rings[x], rings'[x])
    <3>1. PICK r : /\ r = NoRing \/ Consented(id, rings[id], r)
                   /\ rings' = [rings EXCEPT ![id] = r]
      BY <2>2, RingStepNames, Zenon
    <3>2. CASE x = id
      BY <2>0, <3>1, <3>2, Zenon
    <3>3. CASE x # id
      <4>1. rings'[x] = rings[x]
        BY <2>0, <3>1, <3>3, Zenon
      <4> QED
        BY <4>1, Zenon DEF Consented
    <3> QED
      BY <3>2, <3>3, Zenon
  <2>3. rings' = rings \/ \E id \in RingId : RingStep(id)
    BY Zenon DEF Next, Message, NodeStep, OtherMessage, UpdateParams, SignReshare, NextBlock,
       ringVars, vars
  <2> QED
    BY <2>1, <2>2, <2>3, Zenon
<1> QED
  BY <1>1, RingInvariant, NamesInvariant, PTL DEF Spec, DraftedWithConsent
=============================================================================
