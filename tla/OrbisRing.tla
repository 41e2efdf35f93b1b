------------------------------ MODULE OrbisRing ------------------------------
(***************************************************************************)
(* Ring lifecycle of x/orbis: creation, unanimous DKG finalisation,        *)
(* cancellation, committee reshares finalised by a threshold signature,    *)
(* scheduled protocol upgrades and ring-scoped settings.                   *)
(*                                                                         *)
(* A ring identifier is the hash of the configuration that created it, so  *)
(* Config maps identifiers to configurations.  A message that fails leaves *)
(* no trace (its writes are rolled back), so an action is a message that   *)
(* succeeds.  Several messages run in one block; NextBlock ends it.        *)
(*                                                                         *)
(* An absent optional number is None; an absent committee is {}.           *)
(***************************************************************************)
EXTENDS OrbisNode

CONSTANTS
    Account,           \* ring creators
    Key,               \* DKG public keys
    IdentityKey,       \* the key that rejectIdentityRingPublicKey refuses
    NoKey,             \* an absent key
    Relay,             \* trusted auth relay DIDs
    ReportType,        \* kinds of misbehaviour report
    Config,            \* ring configuration behind each identifier
    NoRing,            \* no ring is stored under an identifier
    MinPSSInterval,    \* types.MinPSSIntervalSeconds
    MinUpgradeLead,    \* MinRingUpgradeLeadSeconds
    Committee,         \* committees a reshare message may propose ({}: none)
    Threshold,         \* thresholds a reshare message may propose (or None)
    Version,           \* versions an upgrade message may propose
    PssInterval,       \* intervals a message may propose
    ReportingConfig,   \* reporting configurations a message may carry
    MaxHeight,         \* bound on the block height
    MaxTime,           \* bound on block time, in seconds
    BlockGap           \* seconds that may pass between two blocks

VARIABLES
    rings,             \* ring store: identifier -> ring, or NoRing
    acpObjects,        \* ring objects registered with x/acp (external)
    defaultReporting,  \* Params.DefaultReporting
    height,            \* height of the current block
    now,               \* its time, in whole seconds
    fresh,             \* no message of the current block has run yet
    signed,            \* reshare documents a committee has threshold-signed (external)
    votes,             \* history: outputs accepted by FinalizeRing, per node
    fate,              \* history: how a stored ring went away
    used,              \* history: signatures that finalised a reshare
    scheduledAt        \* history: when the pending upgrade was scheduled

ringVars == <<rings, acpObjects, defaultReporting, signed, votes, fate, used, scheduledAt>>
blockVars == <<height, now>>
vars == <<nodeInfo, ringVars, blockVars, fresh>>

None == -1
OptNat == Nat \cup {None}

(* What a DKG ceremony produces; NoOutput stands for an empty RingPk. *)
Output == [ringPk : Key, petPk : Key \cup {NoKey}]
NoOutput == [ringPk |-> NoKey, petPk |-> NoKey]

Reporting == [demerits : [ReportType -> Nat], reset : Nat, kick : Nat, backups : Seq(Node)]

Ring == [creator : Account \cup Node, peers : SUBSET Node, threshold : Nat,
         newPeers : SUBSET Node, newThreshold : OptNat,
         pssInterval : Nat, nonce : Nat,
         version : Nat, nextVersion : OptNat, activation : OptNat,
         reporting : Reporting, relays : SUBSET Relay,
         output : Output \cup {NoOutput},
         confirmations : [Node -> Output \cup {NoOutput}]]

RingConfig == [peers : SUBSET Node, threshold : Nat, pssInterval : Nat, policy : Policy,
               version : Nat, allowRelays : BOOLEAN, relays : SUBSET Relay,
               requiresPet : BOOLEAN]

ASSUME RingAssumption ==
    /\ Config \in [RingId -> RingConfig]
    /\ NoRing \notin Ring
    /\ NoKey \notin Key
    /\ MinPSSInterval \in Nat /\ MinUpgradeLead \in Nat \ {0}
    /\ MaxHeight \in Nat /\ MaxTime \in Nat /\ BlockGap \subseteq Nat
    /\ Committee \subseteq SUBSET Node /\ Threshold \subseteq OptNat
    /\ Version \subseteq Nat /\ PssInterval \subseteq Nat
    /\ ReportingConfig \subseteq Reporting

-----------------------------------------------------------------------------
(* Validation *)

Exists(id) == rings[id] # NoRing
Finalized(ring) == ring.output # NoOutput
Confirmed(ring) == {n \in Node : ring.confirmations[n] # NoOutput}

(* FinalizeRing's checks against the confirmations already recorded. *)
DuplicateIgnored(ring, n) == FALSE
DuplicateConfirmation(ring, n) == n \in Confirmed(ring)
Conflict(ring, out) == \E m \in Confirmed(ring) : ring.confirmations[m] # out
ThresholdConfirmed(ring) == Cardinality(Confirmed(ring)) >= ring.threshold
AllConfirmed(ring) == Cardinality(Confirmed(ring)) >= Cardinality(ring.peers)

ResharePending(ring) == ring.newPeers # {} \/ ring.newThreshold # None

(* The committee and threshold a pending reshare leads to. *)
TargetPeers(ring) == IF ring.newPeers # {} THEN ring.newPeers ELSE ring.peers
TargetThreshold(ring) ==
    IF ring.newThreshold # None THEN ring.newThreshold ELSE ring.threshold

ValidateUpgradeInfo(ring) ==
    /\ (ring.nextVersion = None) <=> (ring.activation = None)
    /\ ring.nextVersion # None => ring.nextVersion > ring.version /\ ring.activation # 0

ValidateReportingConfig(r) ==
    /\ \A t \in ReportType : r.demerits[t] >= 1
    /\ r.reset >= 1 /\ r.kick >= 1
    /\ \A i, j \in DOMAIN r.backups : r.backups[i] = r.backups[j] => i = j

ValidateRing(id, ring) ==
    /\ ring.peers # {}
    /\ ring.threshold \in 1 .. Cardinality(ring.peers)
    /\ ValidateUpgradeInfo(ring)
    /\ ValidateReportingConfig(ring.reporting)
    /\ ring.relays # {} => Config[id].allowRelays
    /\ ring.newThreshold # 0
    /\ ResharePending(ring) => TargetThreshold(ring) <= Cardinality(TargetPeers(ring))

ValidateStartRingReshare(newPeers, newThreshold, ring) ==
    /\ ~ ResharePending(ring)
    /\ \/ newPeers # {} /\ newPeers # ring.peers
       \/ newThreshold # None /\ newThreshold # ring.threshold
    /\ newThreshold # 0
    /\ newPeers = {} /\ newThreshold # None => newThreshold <= Cardinality(ring.peers)
    /\ newPeers # {} =>
          (IF newThreshold # None THEN newThreshold ELSE ring.threshold)
              <= Cardinality(newPeers)

(* validateRingUpgradeSchedule: the earliest activation a message may ask. *)
ImmediateActivation == now
MinimumActivation == now + MinUpgradeLead

NeverNormalize(ring) == ring

(* normalizeMaturedRingUpgrade: a matured upgrade becomes the version. *)
NormalizeUpgrade(ring) ==
    IF ring.nextVersion # None /\ now >= ring.activation
    THEN [ring EXCEPT !.version = ring.nextVersion,
                      !.nextVersion = None, !.activation = None]
    ELSE ring

(* effectiveReportProtocolVersion: the version in force at time t. *)
EffectiveVersion(ring, t) ==
    IF ring.nextVersion # None /\ t >= ring.activation
    THEN ring.nextVersion
    ELSE ring.version

(* ringReshareSignState with the finalised state it determines. *)
ReshareSignDoc(id, ring) ==
    [id |-> id, output |-> ring.output, peers |-> ring.peers, threshold |-> ring.threshold,
     newPeers |-> ring.newPeers, newThreshold |-> ring.newThreshold,
     nonce |-> ring.nonce, relays |-> ring.relays]

-----------------------------------------------------------------------------
(* Creation and DKG finalisation *)

SetRing(id, ring) == rings' = [rings EXCEPT ![id] = ring]
DeleteRing(id, why) ==
    /\ rings' = [rings EXCEPT ![id] = NoRing]
    /\ fate' = [fate EXCEPT ![id] = why]

NewRing(id, creator, reporting) ==
    [creator |-> creator, peers |-> Config[id].peers, threshold |-> Config[id].threshold,
     newPeers |-> {}, newThreshold |-> None,
     pssInterval |-> Config[id].pssInterval, nonce |-> 0,
     version |-> Config[id].version, nextVersion |-> None, activation |-> None,
     reporting |-> reporting, relays |-> Config[id].relays,
     output |-> NoOutput, confirmations |-> [n \in Node |-> NoOutput]]

RegisterAgain(id) == acpObjects' = acpObjects \cup {id}

(* registerRingACPObject: external; fails when the object was ever         *)
(* registered, archived since or not, and a registration outlives the ring.*)
RegisterRingACPObject(id) ==
    /\ id \notin acpObjects
    /\ acpObjects' = acpObjects \cup {id}

BackupsUnchecked(reporting) == TRUE
BackupsRegistered(reporting) ==
    \A i \in DOMAIN reporting.backups : Registered(reporting.backups[i])

CreateRing(id, creator, reporting) ==
    LET ring == NewRing(id, creator, reporting)
    IN  /\ \A n \in ring.peers : Registered(n)
        /\ ~ Exists(id)
        /\ ring.pssInterval >= MinPSSInterval
        /\ ValidateRing(id, ring)
        /\ BackupsRegistered(reporting)
        /\ RegisterRingACPObject(id)
        /\ SetRing(id, ring)
        /\ UNCHANGED <<nodeInfo, defaultReporting, signed, votes, fate, used, scheduledAt>>

FinalizeRing(id, n, out) ==
    /\ Exists(id)
    /\ LET ring == rings[id]
           confirmed == [ring EXCEPT !.confirmations[n] = out]
           final == [ring EXCEPT !.output = out,
                                 !.confirmations = [m \in Node |-> NoOutput]]
       IN  /\ ~ Finalized(ring)
           /\ IdentityKey \notin {out.ringPk, out.petPk}
           /\ (out.petPk # NoKey) <=> Config[id].requiresPet
           /\ n \in ring.peers
           /\ ~ DuplicateConfirmation(ring, n)
           /\ votes' = [votes EXCEPT ![id] = @ \cup {<<n, out>>}]
           /\ \/ Conflict(ring, out) /\ DeleteRing(id, "conflict")
              \/ /\ ~ Conflict(ring, out)
                 /\ ~ AllConfirmed(confirmed)
                 /\ SetRing(id, confirmed)
                 /\ UNCHANGED fate
              \/ /\ ~ Conflict(ring, out)
                 /\ AllConfirmed(confirmed)
                 /\ ValidateRing(id, final)
                 /\ SetRing(id, final)
                 /\ UNCHANGED fate
    /\ UNCHANGED <<nodeInfo, acpObjects, defaultReporting, signed, used, scheduledAt>>

CancelAnyRing(id, signer) ==
    /\ Exists(id)
    /\ signer \in rings[id].peers \cup {rings[id].creator}
    /\ DeleteRing(id, "cancelled")
    /\ UNCHANGED <<nodeInfo, acpObjects, defaultReporting, signed, votes, used, scheduledAt>>

CancelPendingRing(id, signer) ==
    /\ Exists(id)
    /\ ~ Finalized(rings[id])
    /\ signer \in rings[id].peers \cup {rings[id].creator}
    /\ DeleteRing(id, "cancelled")
    /\ UNCHANGED <<nodeInfo, acpObjects, defaultReporting, signed, votes, used, scheduledAt>>

-----------------------------------------------------------------------------
(* Updates of a finalised ring, authorised by x/acp *)

(* ensureRingUpdatePermission: external; some actor holds update_ring on   *)
(* the registered ring object.                                             *)
UpdatePermitted(id) == id \in acpObjects

UpdateUnchecked(id, ring) ==
    /\ SetRing(id, ring)
    /\ UNCHANGED <<nodeInfo, acpObjects, defaultReporting, signed, votes, fate>>

UpdateRing(id, ring) ==
    /\ ValidateRing(id, ring)
    /\ SetRing(id, ring)
    /\ UNCHANGED <<nodeInfo, acpObjects, defaultReporting, signed, votes, fate>>

StartRingReshareByAcp(id, newPeers, newThreshold) ==
    /\ Exists(id) /\ Finalized(rings[id]) /\ UpdatePermitted(id)
    /\ ValidateStartRingReshare(newPeers, newThreshold, rings[id])
    /\ \A n \in newPeers : NodeAllowsRing(n, Config[id].policy, id)
    /\ UpdateRing(id, [NormalizeUpgrade(rings[id]) EXCEPT
                          !.newPeers = newPeers, !.newThreshold = newThreshold])
    /\ UNCHANGED <<used, scheduledAt>>

CancelRingReshareByAcp(id) ==
    /\ Exists(id) /\ Finalized(rings[id]) /\ UpdatePermitted(id)
    /\ ResharePending(rings[id])
    /\ UpdateRing(id, [rings[id] EXCEPT !.newPeers = {}, !.newThreshold = None])
    /\ UNCHANGED <<used, scheduledAt>>

SetRingPssIntervalByAcp(id, interval) ==
    /\ Exists(id) /\ Finalized(rings[id]) /\ UpdatePermitted(id)
    /\ interval >= MinPSSInterval
    /\ interval # rings[id].pssInterval
    /\ UpdateRing(id, [NormalizeUpgrade(rings[id]) EXCEPT !.pssInterval = interval])
    /\ UNCHANGED <<used, scheduledAt>>

ScheduleRingUpgradeByAcp(id, nextVersion, activation) ==
    /\ Exists(id) /\ Finalized(rings[id]) /\ UpdatePermitted(id)
    /\ LET ring == NormalizeUpgrade(rings[id])
       IN  /\ ~ (ring.nextVersion = nextVersion /\ ring.activation = activation)
           /\ nextVersion > ring.version
           /\ activation >= MinimumActivation
           /\ UpdateRing(id, [ring EXCEPT !.nextVersion = nextVersion,
                                          !.activation = activation])
    /\ scheduledAt' = [scheduledAt EXCEPT ![id] = now]
    /\ UNCHANGED used

CancelRingUpgradeByAcp(id) ==
    /\ Exists(id) /\ Finalized(rings[id]) /\ UpdatePermitted(id)
    /\ rings[id].nextVersion # None
    /\ now < rings[id].activation
    /\ UpdateRing(id, [rings[id] EXCEPT !.nextVersion = None, !.activation = None])
    /\ UNCHANGED <<used, scheduledAt>>

SetRingReportingByAcp(id, reporting) ==
    /\ Exists(id) /\ Finalized(rings[id]) /\ UpdatePermitted(id)
    /\ \A i \in DOMAIN reporting.backups :
          NodeAllowsRing(reporting.backups[i], Config[id].policy, id)
    /\ UpdateRing(id, [NormalizeUpgrade(rings[id]) EXCEPT !.reporting = reporting])
    /\ UNCHANGED <<used, scheduledAt>>

(* Relay changes need neither a finalised ring nor a normalised upgrade. *)
AddRingTrustedAuthRelayByAcp(id, r) ==
    /\ Exists(id) /\ Config[id].allowRelays /\ UpdatePermitted(id)
    /\ r \notin rings[id].relays
    /\ UpdateRing(id, [rings[id] EXCEPT !.relays = @ \cup {r}])
    /\ UNCHANGED <<used, scheduledAt>>

RemoveRingTrustedAuthRelayByAcp(id, r) ==
    /\ Exists(id) /\ Config[id].allowRelays /\ UpdatePermitted(id)
    /\ r \in rings[id].relays
    /\ UpdateRing(id, [rings[id] EXCEPT !.relays = @ \ {r}])
    /\ UNCHANGED <<used, scheduledAt>>

-----------------------------------------------------------------------------
(* Finalising a reshare by threshold signature *)

(* ringForReshareFinalization. *)
ReshareFinalized(ring) ==
    [ring EXCEPT !.peers = TargetPeers(ring), !.threshold = TargetThreshold(ring),
                 !.newPeers = {}, !.newThreshold = None]

NonceKept(ring) == ring.nonce
NextNonce(ring) == height

FinalizeRingReshareByThresholdSignature(id) ==
    /\ Exists(id)
    /\ ResharePending(rings[id])
    /\ ReshareSignDoc(id, rings[id]) \in signed
    /\ UpdateRing(id, [ReshareFinalized(rings[id]) EXCEPT !.nonce = NextNonce(rings[id])])
    /\ used' = [used EXCEPT ![id] = @ \cup {ReshareSignDoc(id, rings[id])}]
    /\ UNCHANGED scheduledAt

-----------------------------------------------------------------------------
(* The reshare that accepted misbehaviour reports schedule *)

EligibleActive(id, i) == NodeAllowsRing(rings[id].reporting.backups[i], Config[id].policy, id)

(* selectAutoReshareReplacement: the first backup that is not active and   *)
(* whose whitelist admits the ring.                                        *)
Eligible(id, i) ==
    /\ rings[id].reporting.backups[i] \notin rings[id].peers
    /\ NodeAllowsRing(rings[id].reporting.backups[i], Config[id].policy, id)

Replacement(id, i) ==
    /\ Eligible(id, i)
    /\ \A j \in 1 .. i - 1 : ~ Eligible(id, j)

WithoutBackup(b, i) == SubSeq(b, 1, i - 1) \o SubSeq(b, i + 1, Len(b))

AutoReshared(id, accused, i) ==
    LET backups == rings[id].reporting.backups
    IN  [rings[id] EXCEPT !.newPeers = (rings[id].peers \ {accused}) \cup {backups[i]},
                          !.newThreshold = None,
                          !.reporting.backups = WithoutBackup(backups, i)]

(* maybeScheduleAutoReshareForReport, once the accused node has reached the*)
(* kick threshold.  OrbisReport says when it does.                         *)
ScheduleAutoReshare(id, accused) ==
    /\ Exists(id) /\ Finalized(rings[id])
    /\ ~ ResharePending(rings[id])
    /\ accused \in rings[id].peers
    /\ \E i \in DOMAIN rings[id].reporting.backups :
          Replacement(id, i) /\ UpdateRing(id, AutoReshared(id, accused, i))
    /\ UNCHANGED <<used, scheduledAt>>

-----------------------------------------------------------------------------

(* The committee signs off chain over the state the last block committed,  *)
(* i.e. before any message of the current block has run.  Signatures are   *)
(* public and never forgotten, so a later message may present any of them. *)
SignReshare(id) ==
    /\ fresh
    /\ Exists(id)
    /\ ResharePending(rings[id])
    /\ ReshareSignDoc(id, rings[id]) \notin signed
    /\ signed' = signed \cup {ReshareSignDoc(id, rings[id])}
    /\ UNCHANGED <<nodeInfo, rings, acpObjects, defaultReporting, votes, fate, used, scheduledAt>>

UpdateParams(reporting) ==
    /\ ValidateReportingConfig(reporting)
    /\ defaultReporting' = [reporting EXCEPT !.backups = <<>>]
    /\ UNCHANGED <<nodeInfo, rings, acpObjects, signed, votes, fate, used, scheduledAt>>

NodeStep == NodeNext /\ UNCHANGED ringVars

(* Block time is a nanosecond clock; the module reads whole seconds, so    *)
(* two blocks may carry the same second.                                   *)
NextBlock ==
    /\ height < MaxHeight
    /\ height' = height + 1
    /\ \E gap \in BlockGap : now + gap <= MaxTime /\ now' = now + gap
    /\ fresh' = TRUE
    /\ UNCHANGED <<nodeInfo, ringVars>>

-----------------------------------------------------------------------------

Init ==
    /\ NodeInit
    /\ rings = [id \in RingId |-> NoRing]
    /\ acpObjects = {}
    /\ defaultReporting \in ReportingConfig
    /\ ValidateReportingConfig(defaultReporting) /\ defaultReporting.backups = <<>>
    /\ height = 1 /\ now = 0 /\ fresh = TRUE
    /\ signed = {}
    /\ votes = [id \in RingId |-> {}]
    /\ fate = [id \in RingId |-> "none"]
    /\ used = [id \in RingId |-> {}]
    /\ scheduledAt = [id \in RingId |-> 0]

(* The messages that name a ring. *)
RingMessage(id) ==
    \/ \E a \in Account, r \in ReportingConfig \cup {defaultReporting} : CreateRing(id, a, r)
    \/ \E n \in Node, out \in Output : FinalizeRing(id, n, out)
    \/ \E s \in Account \cup Node : CancelPendingRing(id, s)
    \/ \E c \in Committee, t \in Threshold : StartRingReshareByAcp(id, c, t)
    \/ CancelRingReshareByAcp(id)
    \/ \E i \in PssInterval : SetRingPssIntervalByAcp(id, i)
    \/ \E v \in Version, t \in 0 .. MaxTime : ScheduleRingUpgradeByAcp(id, v, t)
    \/ CancelRingUpgradeByAcp(id)
    \/ \E r \in ReportingConfig : SetRingReportingByAcp(id, r)
    \/ \E r \in Relay : AddRingTrustedAuthRelayByAcp(id, r)
    \/ \E r \in Relay : RemoveRingTrustedAuthRelayByAcp(id, r)
    \/ FinalizeRingReshareByThresholdSignature(id)

RingStep(id) == RingMessage(id) \/ \E n \in Node : ScheduleAutoReshare(id, n)

(* Messages that touch neither the registry nor a ring: SubmitReport short *)
(* of a kick, documents, other modules.                                    *)
OtherMessage == UNCHANGED <<nodeInfo, ringVars>>

(* A message transaction of the current block. *)
Message ==
    /\ \/ NodeStep
       \/ \E r \in ReportingConfig : UpdateParams(r)
       \/ OtherMessage
       \/ \E id \in RingId : RingStep(id)
    /\ fresh' = FALSE
    /\ UNCHANGED blockVars

Next ==
    \/ Message
    \/ (\E id \in RingId : SignReshare(id)) /\ UNCHANGED <<blockVars, fresh>>
    \/ NextBlock

Spec == Init /\ [][Next]_vars

-----------------------------------------------------------------------------
(* Properties *)

SignDoc == [id : RingId, output : Output \cup {NoOutput}, peers : SUBSET Node,
            threshold : Nat, newPeers : SUBSET Node, newThreshold : OptNat,
            nonce : Nat, relays : SUBSET Relay]

TypeOK ==
    /\ nodeInfo \in [Node -> NodeInfo \cup {NoInfo}]
    /\ rings \in [RingId -> Ring \cup {NoRing}]
    /\ acpObjects \subseteq RingId
    /\ defaultReporting \in Reporting
    /\ height \in Nat /\ now \in Nat /\ fresh \in BOOLEAN
    /\ signed \subseteq SignDoc
    /\ votes \in [RingId -> SUBSET (Node \X Output)]
    /\ fate \in [RingId -> {"none", "conflict", "cancelled"}]
    /\ used \in [RingId -> SUBSET SignDoc]
    /\ scheduledAt \in [RingId -> Nat]

(* Every stored ring passes validateRing, no ring has a reshare or an      *)
(* upgrade pending before its DKG is final, and the ring a pending reshare *)
(* leads to passes validateRing too: whatever settings change while it is  *)
(* pending, FinalizeRingReshareByThresholdSignature never refuses the      *)
(* committee's signature because of them.                                  *)
StoredRingsValid ==
    \A id \in RingId : Exists(id) =>
        /\ ValidateRing(id, rings[id])
        /\ ~ Finalized(rings[id]) =>
              ~ ResharePending(rings[id]) /\ rings[id].nextVersion = None
        /\ ResharePending(rings[id]) => ValidateRing(id, ReshareFinalized(rings[id]))

(* What FinalizeRing has recorded for a ring and what nodes submitted to it*)
(* agree: one confirmation per voting member and no two that differ while  *)
(* the DKG is open, a vote of the same keys by every member once it is     *)
(* final, nothing before the ring's object is registered.                  *)
Recorded(ring) == {<<n, ring.confirmations[n]>> : n \in Confirmed(ring)}
AllFor(id, output) == {<<n, output>> : n \in Config[id].peers}
Opposed(cast) == \E v, w \in cast : v[1] # w[1] /\ v[2] # w[2]
OpenDkg(id, ring) ==
    /\ ring.peers = Config[id].peers
    /\ ~ ResharePending(ring)
    /\ Confirmed(ring) \subseteq ring.peers
    /\ \A m, n \in Confirmed(ring) : ring.confirmations[m] = ring.confirmations[n]
DkgOf(id) ==
    /\ id \notin acpObjects => ~ Exists(id) /\ fate[id] = "none" /\ votes[id] = {} /\ used[id] = {}
    /\ Exists(id) => fate[id] = "none"
    /\ Exists(id) /\ ~ Finalized(rings[id]) => OpenDkg(id, rings[id]) /\ votes[id] = Recorded(rings[id])
    /\ Exists(id) /\ Finalized(rings[id]) => votes[id] = AllFor(id, rings[id].output)
    /\ fate[id] = "conflict" => Opposed(votes[id])
DkgInv == \A id \in RingId : DkgOf(id)

(* A ring's BlockNumberNonce is a past height before a block's first       *)
(* message, so a committee only ever signs documents with past nonces, and *)
(* every signature already used carries an older nonce than the ring.      *)
NonceInv ==
    /\ \A id \in RingId : Exists(id) =>
          /\ rings[id].nonce <= height
          /\ fresh => rings[id].nonce < height
          /\ \A d \in used[id] : d.nonce < rings[id].nonce
    /\ \A d \in signed : d.nonce < height

(* A pending upgrade raises the version, and takes effect no sooner than   *)
(* the lead time after it was scheduled.                                   *)
Notice(ring, scheduled) ==
    ring.nextVersion # None =>
        /\ ring.activation \in Nat
        /\ ring.nextVersion > ring.version
        /\ ring.activation >= scheduled + MinUpgradeLead
UpgradeInv == \A id \in RingId : Exists(id) => Notice(rings[id], scheduledAt[id])

(* The inductive invariant of the ring lifecycle. *)
RingInv == TypeOK /\ DkgInv /\ NonceInv /\ UpgradeInv

(* A ring is final only with the keys that every node of the committee it  *)
(* was created with submitted to FinalizeRing, each exactly once.          *)
FinalizedUnanimously ==
    \A id \in RingId : Exists(id) /\ Finalized(rings[id]) =>
        \A n \in Config[id].peers :
            {v \in votes[id] : v[1] = n} = {<<n, rings[id].output>>}

(* FinalizeRing deletes a ring as conflicting only when two different nodes*)
(* submitted different keys; one node contradicting itself never does.     *)
ConflictNeedsTwoNodes ==
    \A id \in RingId : fate[id] = "conflict" =>
        \E v, w \in votes[id] : v[1] # w[1] /\ v[2] # w[2]

(* A deleted ring never comes back under its identifier, so what other     *)
(* stores keep under that identifier can never apply to another ring.      *)
DeletedForever == \A id \in RingId : fate[id] # "none" => ~ Exists(id)

(* A threshold signature that has finalised a reshare never matches the    *)
(* ring's pending reshare again, even when the same reshare is repeated.   *)
SignatureUsedOnce ==
    \A id \in RingId : Exists(id) /\ ResharePending(rings[id]) =>
        ReshareSignDoc(id, rings[id]) \notin used[id]

(* Every node a stored ring names, active, incoming or backup, has a       *)
(* NodeInfo record: the lookups of later handlers find one.                *)
CommitteeRegistered ==
    \A id \in RingId : Exists(id) =>
        LET r == rings[id]
        IN  \A n \in r.peers \cup r.newPeers
                     \cup {r.reporting.backups[i] : i \in DOMAIN r.reporting.backups} :
                nodeInfo[n] # NoInfo

(* Once FinalizeRing has fixed a ring's keys, no message changes or        *)
(* deletes them.                                                           *)
KeysStable ==
    [][\A id \in RingId : Exists(id) /\ Finalized(rings[id]) =>
           /\ rings'[id] # NoRing
           /\ rings'[id].output = rings[id].output]_vars

(* The protocol version in force for a ring never goes back, whether an    *)
(* upgrade matures by time alone, is normalised by a message, is replaced  *)
(* or is cancelled.                                                        *)
EffectiveVersionMonotone ==
    [][\A id \in RingId : Exists(id) /\ rings'[id] # NoRing =>
           EffectiveVersion(rings'[id], now') >= EffectiveVersion(rings[id], now)]_vars

(* The version in force changes only to one that was pending, and only at  *)
(* least MinRingUpgradeLeadSeconds after it was scheduled.                 *)
UpgradeNotice ==
    [][\A id \in RingId :
          LET after == EffectiveVersion(rings'[id], now')
          IN  Exists(id) /\ rings'[id] # NoRing
                  /\ after # EffectiveVersion(rings[id], now) =>
              /\ after = rings[id].nextVersion
              /\ now' >= scheduledAt[id] + MinUpgradeLead]_vars

(* A reshare drafts a node that is not in the committee only if that node's*)
(* own whitelist admits the ring or its policy when it is scheduled.       *)
DraftedWithConsent ==
    [][\A id \in RingId : Exists(id) /\ rings'[id] # NoRing =>
          \A n \in rings'[id].newPeers \ (rings[id].newPeers \cup rings[id].peers) :
              \/ Config[id].policy \in nodeInfo[n].policies
              \/ id \in nodeInfo[n].rings]_vars
=============================================================================
