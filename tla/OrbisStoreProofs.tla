-------------------------- MODULE OrbisStoreProofs --------------------------
(***************************************************************************)
(* Proofs about what x/orbis keeps for its rings.  Reports: the ring       *)
(* lifecycle is still the one OrbisRing describes, a node is kicked for    *)
(* recent points and replaced, and no evidence counts twice as long as no  *)
(* two blocks fall into the same second.  Documents and key derivations:   *)
(* what is stored stays usable and stays its first creator's.              *)
(***************************************************************************)
EXTENDS OrbisReport, OrbisDocument, OrbisRingProofs, SumTheorems

-----------------------------------------------------------------------------
(* Reports within the ring lifecycle *)

(* To the rings, a report is a scheduled kick or nothing at all.           *)
LEMMA ReportStepIsRingStep == [ReportNext]_allVars => [Next]_vars
<1> SUFFICES ASSUME [ReportNext]_allVars PROVE [Next]_vars
  BY Zenon
<1>1. CASE UNCHANGED allVars
  BY <1>1, Zenon DEF allVars
<1>2. CASE RingTransaction /\ fresh' = FALSE /\ UNCHANGED blockVars
  BY <1>2, Zenon DEF RingTransaction, Next, Message, RingStep
<1>3. ASSUME NEW id \in RingId, NEW r \in Submittable(id), SubmitReport(r),
             fresh' = FALSE, UNCHANGED blockVars
      PROVE  Next
  <2>1. r.ring = id /\ r.accused \in Node
    BY ReportAssumption, Zenon DEF Submittable
  <2>2. ScheduleAutoReshare(id, r.accused) \/ OtherMessage
    BY <1>3, <2>1, Zenon DEF SubmitReport, MaybeScheduleAutoReshare
  <2> QED
    BY <1>3, <2>1, <2>2, Zenon DEF Next, Message, RingStep
<1>4. CASE (\E id \in RingId : SignReshare(id)) /\ UNCHANGED <<blockVars, fresh, reportVars>>
  BY <1>4, Zenon DEF Next
<1>5. CASE EndBlock
  BY <1>5, Zenon DEF EndBlock, Next
<1> QED
  BY <1>1, <1>2, <1>3, <1>4, <1>5, Zenon DEF ReportNext

(* With reports, rings still behave as the ring lifecycle says.            *)
THEOREM ReportImplementsRing == ReportSpec => Spec
<1>1. ReportInit => Init
  BY Zenon DEF ReportInit
<1> QED
  BY <1>1, ReportStepIsRingStep, PTL DEF ReportSpec, Spec

(* So the inductive invariant of the rings carries over.                   *)
THEOREM ReportKeepsRingInv == ReportSpec => []RingInv
BY ReportImplementsRing, RingInvariant, PTL

-----------------------------------------------------------------------------
(* Kicks *)

(* A report that changes a ring has scheduled a reshare that trades the    *)
(* accused node for a backup.                                              *)
LEMMA KickReshares ==
    ASSUME RingInv, NEW id \in RingId, Exists(id), NEW n, ScheduleAutoReshare(id, n)
    PROVE  /\ Cardinality(rings'[id].newPeers) = Cardinality(rings'[id].peers)
           /\ n \in rings'[id].peers \ rings'[id].newPeers
<1>1. PICK i \in DOMAIN rings[id].reporting.backups :
         Replacement(id, i) /\ UpdateRing(id, AutoReshared(id, n, i))
  BY Zenon DEF ScheduleAutoReshare
<1> DEFINE ring == rings[id]
           b == ring.reporting.backups[i]
           rest == ring.peers \ {n}
           new == AutoReshared(id, n, i)
<1>2. ring \in Ring
  BY Zenon DEF RingInv, TypeOK, Exists
<1>3. n \in ring.peers /\ b \notin ring.peers /\ ring.peers \subseteq Node
  BY <1>1, <1>2, Zenon DEF ScheduleAutoReshare, Replacement, Eligible, Ring
<1>4. new.newPeers = rest \cup {b} /\ new.peers = ring.peers
  BY <1>2, Zenon DEF AutoReshared, Ring
<1>5. rings'[id] = new
  BY <1>1, Zenon DEF UpdateRing, SetRing, RingInv, TypeOK
<1>6. Cardinality(rest \cup {b}) = Cardinality(ring.peers)
  <2>1. IsFiniteSet(ring.peers) /\ IsFiniteSet(rest)
    BY <1>3, NodeAssumption, FS_Subset, Zenon
  <2>2. Cardinality(ring.peers) \in Nat
    BY <2>1, FS_CardinalityType, Zenon
  <2>3. Cardinality(rest) = Cardinality(ring.peers) - 1
    BY <1>3, <2>1, FS_RemoveElement, Zenon
  <2>4. Cardinality(rest \cup {b}) = Cardinality(rest) + 1
    <3>1. b \notin rest
      BY <1>3, Zenon
    <3> HIDE DEF b, rest, ring
    <3>2. Cardinality(rest \cup {b})
             = IF b \in rest THEN Cardinality(rest) ELSE Cardinality(rest) + 1
      BY <2>1, FS_AddElement, Zenon
    <3> QED
      BY <3>1, <3>2, Zenon
  <2> HIDE DEF rest, b, ring
  <2> QED
    BY <2>2, <2>3, <2>4
<1>7. n \notin rest \cup {b}
  BY <1>3, Zenon
<1> HIDE DEF new, rest, b
<1> QED
  BY <1>3, <1>4, <1>5, <1>6, <1>7, Zenon

(* The entry that SubmitReport adds to the history.                        *)
LedgerEntry(r) ==
    [report |-> r, at |-> now, amount |-> rings[r.ring].reporting.demerits[r.type]]

(* An accepted report is valid and enters the ledger once.                 *)
LEMMA SubmitLedger ==
    ASSUME NEW r, SubmitReport(r)
    PROVE  ValidReport(r) /\ ledger' = ledger \cup {LedgerEntry(r)}
<1>1. ValidReport(r)
  BY Zenon DEF SubmitReport
<1>2. ledger' = ledger \cup {LedgerEntry(r)}
  BY Zenon DEF SubmitReport, LedgerEntry
<1> QED
  BY <1>1, <1>2, Zenon

(* What a step that accepts a report has done.                             *)
LEMMA Accepting ==
    ASSUME [ReportNext]_allVars, NEW x \in ledger' \ ledger
    PROVE  \E id \in RingId : Exists(id) /\ \E r \in Submittable(id) :
              SubmitReport(r) /\ UNCHANGED blockVars /\ r.ring = id
              /\ x = LedgerEntry(r) /\ x.report = r
<1>1. ledger' # ledger
  BY Zenon
<1>2. PICK id \in RingId : Exists(id) /\ \E r \in Submittable(id) :
         SubmitReport(r) /\ UNCHANGED blockVars
  <2>1. ~ RingTransaction /\ ~ EndBlock /\ ~ UNCHANGED reportVars
    BY <1>1, Zenon DEF reportVars, RingTransaction, EndBlock
  <2> QED
    BY <2>1, Zenon DEF ReportNext, allVars
<1>3. PICK r \in Submittable(id) : SubmitReport(r) /\ UNCHANGED blockVars
  BY <1>2, Zenon
<1>4. r.ring = id
  BY Zenon DEF Submittable
<1>5. x = LedgerEntry(r)
  BY <1>3, SubmitLedger, Zenon
<1>6. x.report = r
  BY <1>5, Zenon DEF LedgerEntry
<1> QED
  BY <1>2, <1>3, <1>4, <1>5, <1>6, Zenon

(* maybeScheduleAutoReshareForReport keeps the committee's size: the       *)
(* pending committee is as large as the current one and lacks the accused. *)
THEOREM KickSize == ReportSpec => KickKeepsSize
<1> DEFINE Step ==
       \A x \in ledger' \ ledger : rings' # rings =>
          LET ring == rings'[x.report.ring]
          IN  /\ Cardinality(ring.newPeers) = Cardinality(ring.peers)
              /\ x.report.accused \in ring.peers \ ring.newPeers
<1>1. RingInv /\ [ReportNext]_allVars => [Step]_allVars
  <2> SUFFICES ASSUME RingInv, [ReportNext]_allVars, NEW x \in ledger' \ ledger, rings' # rings
               PROVE  /\ Cardinality(rings'[x.report.ring].newPeers)
                           = Cardinality(rings'[x.report.ring].peers)
                      /\ x.report.accused
                           \in rings'[x.report.ring].peers \ rings'[x.report.ring].newPeers
    BY Zenon
  <2>1. PICK id \in RingId : Exists(id) /\ \E r \in Submittable(id) :
           SubmitReport(r) /\ UNCHANGED blockVars /\ r.ring = id /\ x.report = r
    BY Accepting, Zenon
  <2>2. PICK r \in Submittable(id) : SubmitReport(r) /\ r.ring = id /\ x.report = r
    BY <2>1, Zenon
  <2>3. ScheduleAutoReshare(id, r.accused)
    BY <2>2, Zenon DEF SubmitReport, MaybeScheduleAutoReshare, OtherMessage, ringVars
  <2> QED
    BY <2>1, <2>2, <2>3, KickReshares, Zenon
<1> QED
  BY <1>1, ReportKeepsRingInv, PTL DEF ReportSpec, KickKeepsSize

(* Points of ledger entries add up.                                        *)
LEMMA PointsAdd ==
    ASSUME NEW S, IsFiniteSet(S), NEW x, x \notin S, \A y \in S \cup {x} : y.amount \in Nat
    PROVE  Points(S \cup {x}) = Points(S) + x.amount
<1> DEFINE T == S \cup {x}
           f == [y \in T |-> y.amount]
           e == [y \in S |-> y.amount]
<1>1. SumFunctionOnSet(f, S) = SumFunctionOnSet(e, S)
  <2>1. \A y \in S : f[y] = e[y]
    BY Zenon
  <2> HIDE DEF f, e
  <2> QED
    BY <2>1, SumAgree, Zenon
<1>2. SumFunctionOnSet(f, S \cup {x}) = f[x] + SumFunctionOnSet(f, S)
  <2>1. \A y \in S \cup {x} : f[y] \in Int
    OBVIOUS
  <2> HIDE DEF f
  <2> QED
    BY <2>1, SumAdd, Zenon
<1>3. SumFunctionOnSet(e, S) \in Nat
  <2>1. \A y \in S : e[y] \in Nat
    BY Zenon
  <2> HIDE DEF e
  <2> QED
    BY <2>1, SumNat, Zenon
<1>4. f[x] = x.amount /\ x.amount \in Nat
  BY Zenon
<1>5. Points(S \cup {x}) = SumFunctionOnSet(f, S \cup {x}) /\ Points(S) = SumFunctionOnSet(e, S)
  BY Zenon DEF Points
<1> HIDE DEF f, e
<1> QED
  BY <1>1, <1>2, <1>3, <1>4, <1>5

(* More entries, no fewer points.                                          *)
LEMMA PointsSubset ==
    ASSUME NEW S, IsFiniteSet(S), NEW T \in SUBSET S, \A y \in S : y.amount \in Nat
    PROVE  Points(T) \in Nat /\ Points(S) \in Nat /\ Points(T) <= Points(S)
<1> DEFINE f == [y \in S |-> y.amount]
           e == [y \in T |-> y.amount]
<1>1. (\A y \in S : f[y] \in Nat) /\ (\A y \in T : e[y] = f[y]) /\ \A y \in T : e[y] \in Nat
  BY Zenon
<1>2. Points(S) = SumFunctionOnSet(f, S) /\ Points(T) = SumFunctionOnSet(e, T)
  BY Zenon DEF Points
<1>3. IsFiniteSet(T)
  BY FS_Subset, Zenon
<1> HIDE DEF f, e
<1>4. SumFunctionOnSet(e, T) = SumFunctionOnSet(f, T)
  BY <1>1, <1>3, SumAgree, Zenon
<1>5. SumFunctionOnSet(f, T) <= SumFunctionOnSet(f, S)
  BY <1>1, SumSubset, Zenon
<1>6. SumFunctionOnSet(f, S) \in Nat
  BY <1>1, SumNat, Zenon
<1>7. SumFunctionOnSet(e, T) \in Nat
  BY <1>1, <1>3, SumNat, Zenon
<1> QED
  BY <1>2, <1>4, <1>5, <1>6, <1>7, Zenon

(* The entries against node n in ring id since a time.                     *)
Against(entries, id, n, since) ==
    {y \in entries : y.report.ring = id /\ y.report.accused = n /\ y.at >= since}

(* A session accepted this second is still on record, whatever was swept.  *)
PairInv ==
    /\ acceptedSessions = {p.session : p \in acceptedExpiry}
    /\ \A p, q \in acceptedExpiry : p.session = q.session => p = q
    /\ \A p \in acceptedExpiry : p.expires \in Nat
    /\ \A x \in ledger : x.at = now =>
          \E p \in acceptedExpiry : p.session = SessionId(x.report) /\ p.expires > now

Backed(id, n) ==
    demerits[id][n].since # None =>
        /\ demerits[id][n].since <= now
        /\ demerits[id][n].points <= Points(Against(ledger, id, n, demerits[id][n].since))

(* The points on a node are no more than it was reported for since its     *)
(* window began.                                                           *)
DemeritInv ==
    /\ demerits \in [RingId -> [Node -> [points : 0 .. Word - 1, since : OptNat]]]
    /\ IsFiniteSet(ledger)
    /\ \A x \in ledger : x.at \in Nat /\ x.at <= now /\ x.amount \in Nat
    /\ \A id \in RingId, n \in Node : Backed(id, n)

(* A report accepted this second is refused for the rest of it.            *)
LEMMA EntryIsNew ==
    ASSUME PairInv, NEW r, SubmitReport(r)
    PROVE  LedgerEntry(r) \notin ledger
<1>1. SessionId(r) \notin acceptedSessions
  BY SubmitLedger, Zenon DEF ValidReport, AlreadyAccepted
<1>2. LedgerEntry(r).at = now /\ LedgerEntry(r).report = r
  BY Zenon DEF LedgerEntry
<1> QED
  BY <1>1, <1>2, Zenon DEF PairInv

(* Adding points wraps around at most.                                     *)
LEMMA WordBounds ==
    ASSUME NEW m \in Nat
    PROVE  m % Word \in 0 .. Word - 1 /\ m % Word <= m
<1>1. Word \in Nat \ {0}
  BY ReportAssumption, Zenon
<1>2. m % Word \in 0 .. Word - 1
  BY <1>1
<1>3. CASE m < Word
  <2> DEFINE q == m \div Word
             k == m % Word
  <2>1. q \in Nat /\ m = Word * q + k
    BY <1>1
  <2>2. q = 0
    <3> HIDE DEF q, k
    <3> QED
      BY <1>1, <1>2, <1>3, <2>1 DEF k
  <2> HIDE DEF q, k
  <2> QED
    BY <1>1, <1>2, <2>1, <2>2 DEF k
<1>4. CASE m >= Word
  BY <1>1, <1>2, <1>4
<1> QED
  BY <1>1, <1>2, <1>3, <1>4

(* IncrementNodeDemerits: what the accused node carries afterwards.        *)
LEMMA SubmitDemerits ==
    ASSUME RingInv, DemeritInv, NEW id \in RingId, Exists(id), NEW r \in Submittable(id),
           SubmitReport(r)
    PROVE  LET old == demerits[id][r.accused]
               reset == rings[id].reporting.reset
               new == demerits'[id][r.accused]
           IN  /\ r.accused \in Node /\ r.ring = id
               /\ LedgerEntry(r).amount \in Nat /\ now \in Nat
               /\ demerits' = [demerits EXCEPT ![id][r.accused] = new]
               /\ MaybeScheduleAutoReshare(id, r.accused, new.points)
               /\ new \in [points : 0 .. Word - 1, since : OptNat]
               /\ WindowExpired(old, reset) =>
                     new.since = now /\ new.points <= LedgerEntry(r).amount
               /\ ~ WindowExpired(old, reset) =>
                     new.since = old.since /\ new.points <= old.points + LedgerEntry(r).amount
<1> DEFINE reporting == rings[id].reporting
           amount == reporting.demerits[r.type]
           old == demerits[id][r.accused]
           base == IF WindowExpired(old, reporting.reset)
                   THEN [points |-> 0, since |-> now] ELSE old
           d == Incremented(old, amount, reporting.reset)
<1>1. r.ring = id /\ r.accused \in Node /\ r.type \in ReportType
  BY ReportAssumption, Zenon DEF Submittable
<1>2. /\ demerits' = [demerits EXCEPT ![id][r.accused] = d]
      /\ MaybeScheduleAutoReshare(id, r.accused, d.points)
  BY <1>1, Zenon DEF SubmitReport
<1>3. now \in Nat
  BY Zenon DEF RingInv, TypeOK
<1>4. amount \in Nat /\ LedgerEntry(r).amount = amount
  <2>1. rings[id] \in Ring
    BY Zenon DEF RingInv, TypeOK, Exists
  <2> QED
    BY <1>1, <2>1, Zenon DEF Ring, Reporting, LedgerEntry
<1>5. old \in [points : 0 .. Word - 1, since : OptNat]
  BY <1>1, Zenon DEF DemeritInv
<1>6. base \in [points : 0 .. Word - 1, since : OptNat]
  BY <1>3, <1>5, ReportAssumption DEF OptNat
<1>7. d = [base EXCEPT !.points = (@ + amount) % Word]
  BY Zenon DEF Incremented
<1>8. /\ (base.points + amount) % Word \in 0 .. Word - 1
      /\ (base.points + amount) % Word <= base.points + amount
  <2>1. base.points + amount \in Nat
    BY <1>4, <1>6
  <2> QED
    BY <2>1, WordBounds, Zenon
<1>9. /\ d \in [points : 0 .. Word - 1, since : OptNat]
      /\ d.since = base.since /\ d.points <= base.points + amount
  <2> HIDE DEF base, d, amount
  <2> QED
    BY <1>6, <1>7, <1>8, Zenon
<1>10. demerits'[id][r.accused] = d
  <2> HIDE DEF d
  <2> QED
    BY <1>1, <1>2, Zenon DEF DemeritInv
<1>11. /\ WindowExpired(old, reporting.reset) => base.since = now /\ base.points = 0
       /\ ~ WindowExpired(old, reporting.reset) => base = old
  BY Zenon
<1> HIDE DEF d, base, amount
<1>12. demerits' = [demerits EXCEPT ![id][r.accused] = demerits'[id][r.accused]]
  BY <1>2, <1>10, Zenon
<1>13. /\ WindowExpired(old, reporting.reset) => d.since = now /\ d.points <= amount
       /\ ~ WindowExpired(old, reporting.reset) =>
             d.since = old.since /\ d.points <= old.points + amount
  <2>1. amount \in Nat /\ base.points \in Nat
    BY <1>4, <1>6
  <2> QED
    BY <1>9, <1>11, <2>1
<1> HIDE DEF old, reporting
<1>14. MaybeScheduleAutoReshare(id, r.accused, demerits'[id][r.accused].points)
  BY <1>2, <1>10, Zenon
<1> QED
  BY <1>1, <1>3, <1>4, <1>9, <1>10, <1>12, <1>13, <1>14, Zenon DEF old, reporting

(* The points the accused node carries once its report is accepted are     *)
(* those of reports accepted since its window began, this one included,    *)
(* and the window has not run out.                                         *)
LEMMA SubmitBacked ==
    ASSUME RingInv, PairInv, DemeritInv, NEW id \in RingId, Exists(id),
           NEW r \in Submittable(id), SubmitReport(r)
    PROVE  LET new == demerits'[id][r.accused]
               reset == rings[id].reporting.reset
           IN  /\ new.since \in Nat /\ new.since <= now
               /\ reset >= 1 => new.since + reset > now
               /\ new.points <= Points(Against(ledger', id, r.accused, new.since))
<1> DEFINE n == r.accused
           new == demerits'[id][n]
           old == demerits[id][n]
           reset == rings[id].reporting.reset
           entry == LedgerEntry(r)
           before == Against(ledger, id, n, new.since)
           after == Against(ledger', id, n, new.since)
<1>1. /\ n \in Node /\ r.ring = id /\ entry.amount \in Nat /\ now \in Nat
      /\ new \in [points : 0 .. Word - 1, since : OptNat]
      /\ WindowExpired(old, reset) => new.since = now /\ new.points <= entry.amount
      /\ ~ WindowExpired(old, reset) =>
            new.since = old.since /\ new.points <= old.points + entry.amount
  BY SubmitDemerits, Zenon
<1>2. old \in [points : 0 .. Word - 1, since : OptNat] /\ Backed(id, n)
  BY <1>1, Zenon DEF DemeritInv
<1>3. entry.report = r /\ entry.at = now
  BY Zenon DEF LedgerEntry
<1>4. reset \in Nat
  <2>1. rings[id] \in Ring
    BY Zenon DEF RingInv, TypeOK, Exists
  <2> QED
    BY <2>1, Zenon DEF Ring, Reporting
<1>5. ledger' = ledger \cup {entry} /\ entry \notin ledger
  BY SubmitLedger, EntryIsNew, Zenon
<1>6. IsFiniteSet(ledger) /\ \A y \in ledger : y.amount \in Nat
  BY Zenon DEF DemeritInv
<1> HIDE DEF entry, reset, new
<1>7. /\ new.since \in Nat /\ new.since <= now
      /\ reset >= 1 => new.since + reset > now
      /\ new.points <= Points(before) + entry.amount
  <2>1. Points(before) \in Nat
    BY <1>6, PointsSubset, Zenon DEF Against
  <2>2. CASE WindowExpired(old, reset)
    BY <1>1, <1>4, <2>1, <2>2
  <2>3. CASE ~ WindowExpired(old, reset)
    <3>1. old.since # None /\ ~ (now >= old.since /\ now - old.since >= reset)
      BY <2>3, Zenon DEF WindowExpired
    <3>2. old.since <= now /\ old.points <= Points(Against(ledger, id, n, old.since))
      BY <1>2, <3>1, Zenon DEF Backed
    <3>3. old.since \in Nat /\ old.points \in Nat
      BY <1>2, <3>1 DEF OptNat
    <3>4. new.since = old.since /\ new.points <= old.points + entry.amount
      BY <1>1, <2>3, Zenon
    <3>5. old.points <= Points(before)
      BY <3>2, <3>4, Zenon
    <3>6. new.points \in Nat
      BY <1>1
    <3> HIDE DEF before, old
    <3> QED
      BY <1>1, <1>4, <2>1, <3>1, <3>2, <3>3, <3>4, <3>5, <3>6
  <2> QED
    BY <2>2, <2>3, Zenon
<1>8. after = before \cup {entry}
  BY <1>1, <1>3, <1>5, <1>7, Zenon DEF Against
<1>9. Points(before \cup {entry}) = Points(before) + entry.amount
  <2>1. IsFiniteSet(before)
    BY <1>6, FS_Subset, Zenon DEF Against
  <2>2. entry \notin before /\ \A y \in before \cup {entry} : y.amount \in Nat
    BY <1>1, <1>5, <1>6, Zenon DEF Against
  <2> HIDE DEF before
  <2> QED
    BY <2>1, <2>2, PointsAdd, Zenon
<1>10. Points(after) = Points(before) + entry.amount
  <2> HIDE DEF after, before
  <2> QED
    BY <1>8, <1>9, Zenon
<1>11. new.points <= Points(after)
  <2> HIDE DEF after, before
  <2> QED
    BY <1>7, <1>10, Zenon
<1> QED
  BY <1>7, <1>11, Zenon DEF new, reset

(* Accepting a report keeps the points backed.                             *)
LEMMA SubmitKeepsBacked ==
    ASSUME RingInv, PairInv, DemeritInv, NEW id \in RingId, Exists(id),
           NEW r \in Submittable(id), SubmitReport(r), UNCHANGED blockVars
    PROVE  DemeritInv'
<1>1. now' = now /\ now \in Nat
  BY Zenon DEF blockVars, RingInv, TypeOK
<1>2. /\ r.accused \in Node /\ LedgerEntry(r).amount \in Nat
      /\ demerits' = [demerits EXCEPT ![id][r.accused] = demerits'[id][r.accused]]
      /\ demerits'[id][r.accused] \in [points : 0 .. Word - 1, since : OptNat]
      /\ r.ring = id
  BY SubmitDemerits, Zenon
<1>3. ledger' = ledger \cup {LedgerEntry(r)} /\ LedgerEntry(r).at = now /\ LedgerEntry(r).report = r
  BY SubmitLedger, Zenon DEF LedgerEntry
<1>4. demerits' \in [RingId -> [Node -> [points : 0 .. Word - 1, since : OptNat]]]
  <2> DEFINE d == demerits'[id][r.accused]
  <2> HIDE DEF d
  <2>1. demerits' = [demerits EXCEPT ![id][r.accused] = d] /\ d \in [points : 0 .. Word - 1, since : OptNat]
    BY <1>2, Zenon DEF d
  <2> QED
    BY <1>2, <2>1, Zenon DEF DemeritInv
<1>5. IsFiniteSet(ledger')
  BY <1>3, FS_AddElement, Zenon DEF DemeritInv
<1>6. \A x \in ledger' : x.at \in Nat /\ x.at <= now' /\ x.amount \in Nat
  BY <1>1, <1>2, <1>3 DEF DemeritInv
<1>7. ASSUME NEW i \in RingId, NEW m \in Node PROVE Backed(i, m)'
  <2>1. CASE i = id /\ m = r.accused
    <3>1. /\ demerits'[id][r.accused].since <= now
          /\ demerits'[id][r.accused].points
                <= Points(Against(ledger', id, r.accused, demerits'[id][r.accused].since))
      BY SubmitBacked, Zenon
    <3> QED
      BY <1>1, <2>1, <3>1, Zenon DEF Backed
  <2>2. CASE ~ (i = id /\ m = r.accused)
    <3>1. demerits'[i][m] = demerits[i][m]
      <4> DEFINE d == demerits'[id][r.accused]
      <4> HIDE DEF d
      <4>1. demerits' = [demerits EXCEPT ![id][r.accused] = d]
        BY <1>2, Zenon DEF d
      <4> QED
        BY <2>2, <4>1, Zenon DEF DemeritInv
    <3>2. Against(ledger', i, m, demerits[i][m].since)
             = Against(ledger, i, m, demerits[i][m].since)
      BY <1>2, <1>3, <2>2, Zenon DEF Against
    <3>3. Backed(i, m)
      BY Zenon DEF DemeritInv
    <3> QED
      BY <1>1, <3>1, <3>2, <3>3, Zenon DEF Backed
  <2> QED
    BY <2>1, <2>2, Zenon
<1> QED
  BY <1>4, <1>5, <1>6, <1>7, Zenon DEF DemeritInv

(* A new session is on record from now on for ReportTTL seconds.           *)
LEMMA SubmitKeepsPairs ==
    ASSUME RingInv, PairInv, NEW r, SubmitReport(r), UNCHANGED blockVars
    PROVE  PairInv'
<1> DEFINE pair == [expires |-> now + ReportTTL, report |-> r, session |-> SessionId(r)]
<1>1. SessionId(r) \notin acceptedSessions
  BY SubmitLedger, Zenon DEF ValidReport, AlreadyAccepted
<1>2. SetAcceptedReportPair(r, now + ReportTTL)
  BY Zenon DEF SubmitReport
<1>3. /\ acceptedSessions' = acceptedSessions \cup {SessionId(r)}
      /\ acceptedExpiry' = acceptedExpiry \cup {pair}
  BY <1>2, Zenon DEF SetAcceptedReportPair
<1>4. now' = now /\ now \in Nat /\ now + ReportTTL \in Nat /\ now + ReportTTL > now
  BY ReportAssumption DEF blockVars, RingInv, TypeOK
<1>5. /\ pair.session = SessionId(r) /\ pair.expires = now + ReportTTL
      /\ ledger' = ledger \cup {LedgerEntry(r)} /\ LedgerEntry(r).report = r
  BY SubmitLedger, Zenon DEF LedgerEntry
<1> HIDE DEF pair
<1>6. /\ acceptedSessions' = {p.session : p \in acceptedExpiry'}
      /\ \A p, q \in acceptedExpiry' : p.session = q.session => p = q
      /\ \A p \in acceptedExpiry' : p.expires \in Nat
  BY <1>1, <1>3, <1>4, <1>5 DEF PairInv
<1>7. ASSUME NEW x \in ledger', x.at = now'
      PROVE  \E p \in acceptedExpiry' : p.session = SessionId(x.report) /\ p.expires > now'
  BY <1>3, <1>4, <1>5, <1>7, Zenon DEF PairInv
<1>8. \A x \in ledger' : x.at = now' =>
         \E p \in acceptedExpiry' : p.session = SessionId(x.report) /\ p.expires > now'
  BY <1>7, Zenon
<1> QED
  BY <1>6, <1>8, Zenon DEF PairInv, SessionId

(* EndBlock sweeps no pair of this second, and time never runs backwards.  *)
LEMMA EndBlockKeepsDemerits ==
    ASSUME RingInv, PairInv, DemeritInv, EndBlock
    PROVE  PairInv' /\ DemeritInv'
<1>1. /\ acceptedExpiry' = acceptedExpiry \ Expired
      /\ acceptedSessions' = acceptedSessions \ {p.session : p \in Expired}
      /\ demerits' = demerits /\ ledger' = ledger
  BY Zenon DEF EndBlock
<1>2. now \in Nat /\ now' \in Nat /\ now' >= now
  BY RingAssumption DEF EndBlock, NextBlock, RingInv, TypeOK
<1>3. PairInv'
  <2>1. acceptedSessions' = {p.session : p \in acceptedExpiry'}
    BY <1>1, Zenon DEF PairInv, Expired
  <2>2. ASSUME NEW x \in ledger, x.at = now'
        PROVE  \E p \in acceptedExpiry' : p.session = SessionId(x.report) /\ p.expires > now'
    <3>1. x.at <= now /\ x.at \in Nat
      BY Zenon DEF DemeritInv
    <3>2. x.at = now /\ now' = now
      BY <1>2, <2>2, <3>1
    <3>3. PICK p \in acceptedExpiry : p.session = SessionId(x.report) /\ p.expires > now
      BY <3>2, Zenon DEF PairInv
    <3>4. p.expires \in Nat
      BY Zenon DEF PairInv
    <3>5. p \notin Expired
      BY <1>2, <3>3, <3>4 DEF Expired
    <3> QED
      BY <1>1, <3>2, <3>3, <3>5, Zenon
  <2> QED
    BY <1>1, <2>1, <2>2, Zenon DEF PairInv, SessionId
<1>4. DemeritInv'
  <2>1. \A x \in ledger : x.at \in Nat /\ x.at <= now'
    BY <1>2 DEF DemeritInv
  <2>2. ASSUME NEW id \in RingId, NEW n \in Node PROVE Backed(id, n)'
    <3>1. demerits[id][n].since \in OptNat /\ Backed(id, n)
      BY Zenon DEF DemeritInv
    <3>2. demerits[id][n].since # None => demerits[id][n].since <= now'
      BY <1>2, <3>1 DEF Backed, OptNat
    <3> QED
      BY <1>1, <3>1, <3>2, Zenon DEF Backed
  <2> QED
    BY <1>1, <2>1, <2>2, Zenon DEF DemeritInv
<1> QED
  BY <1>3, <1>4, Zenon

(* The points on every node stay backed by the reports of its window.      *)
LEMMA NextDemerits ==
    RingInv /\ PairInv /\ DemeritInv /\ [ReportNext]_allVars => PairInv' /\ DemeritInv'
<1> SUFFICES ASSUME RingInv, PairInv, DemeritInv, [ReportNext]_allVars
             PROVE  PairInv' /\ DemeritInv'
  BY Zenon
<1>1. CASE UNCHANGED reportVars /\ now' = now
  <2>1. /\ acceptedSessions' = acceptedSessions /\ acceptedExpiry' = acceptedExpiry
        /\ demerits' = demerits /\ ledger' = ledger /\ now' = now
    BY <1>1, Zenon DEF reportVars
  <2>2. PairInv'
    BY <2>1, Zenon DEF PairInv, SessionId
  <2>3. \A id \in RingId, n \in Node : Backed(id, n)'
    BY <2>1, Zenon DEF DemeritInv, Backed
  <2> QED
    BY <2>1, <2>2, <2>3, Zenon DEF DemeritInv
<1>2. CASE UNCHANGED allVars
  BY <1>1, <1>2, Zenon DEF allVars, vars, blockVars
<1>3. CASE RingTransaction /\ UNCHANGED blockVars
  BY <1>1, <1>3, Zenon DEF RingTransaction, blockVars
<1>4. ASSUME NEW id \in RingId, Exists(id), NEW r \in Submittable(id), SubmitReport(r),
             UNCHANGED blockVars
      PROVE  PairInv' /\ DemeritInv'
  BY <1>4, SubmitKeepsPairs, SubmitKeepsBacked, Zenon
<1>5. CASE (\E id \in RingId : SignReshare(id)) /\ UNCHANGED <<blockVars, fresh, reportVars>>
  BY <1>1, <1>5, Zenon DEF blockVars
<1>6. CASE EndBlock
  BY <1>6, EndBlockKeepsDemerits, Zenon
<1> QED
  BY <1>2, <1>3, <1>4, <1>5, <1>6, Zenon DEF ReportNext

(* The facts about demerits hold in every state.                           *)
LEMMA DemeritInvariant == ReportSpec => [](PairInv /\ DemeritInv)
<1>1. ReportInit => PairInv /\ DemeritInv
  <2> SUFFICES ASSUME ReportInit PROVE PairInv /\ DemeritInv
    BY Zenon
  <2>1. /\ acceptedSessions = {} /\ acceptedExpiry = {} /\ ledger = {}
        /\ demerits = [id \in RingId |-> [n \in Node |-> NoDemerits]]
    BY Zenon DEF ReportInit
  <2>2. NoDemerits \in [points : 0 .. Word - 1, since : OptNat] /\ NoDemerits.since = None
    BY ReportAssumption DEF NoDemerits, OptNat
  <2>3. \A id \in RingId, n \in Node : demerits[id][n] = NoDemerits
    BY <2>1, Zenon
  <2>4. \A id \in RingId, n \in Node : Backed(id, n)
    BY <2>2, <2>3, Zenon DEF Backed
  <2> QED
    BY <2>1, <2>2, <2>4, FS_EmptySet, Zenon DEF PairInv, DemeritInv
<1> QED
  BY <1>1, NextDemerits, ReportKeepsRingInv, PTL DEF ReportSpec

(* maybeScheduleAutoReshareForReport kicks a node only for reports accepted*)
(* within the last ResetIntervalSeconds that add up to the kick threshold: *)
(* no point is counted twice, and none that has lapsed is counted.         *)
THEOREM KicksAreEarned == ReportSpec => KickEarned
<1> DEFINE Step ==
       \A x \in ledger' \ ledger : rings' # rings =>
          LET id == x.report.ring
              recent == {y \in ledger' : /\ y.report.ring = id
                                         /\ y.report.accused = x.report.accused
                                         /\ y.at + rings[id].reporting.reset > now}
          IN  Points(recent) >= rings[id].reporting.kick
<1>1. RingInv /\ StoredRingsValid /\ PairInv /\ DemeritInv /\ (PairInv /\ DemeritInv)'
         /\ [ReportNext]_allVars => [Step]_allVars
  <2> SUFFICES ASSUME RingInv, StoredRingsValid, PairInv, DemeritInv, DemeritInv',
                      [ReportNext]_allVars, NEW x \in ledger' \ ledger, rings' # rings
               PROVE  LET id == x.report.ring
                          recent == {y \in ledger' : /\ y.report.ring = id
                                         /\ y.report.accused = x.report.accused
                                         /\ y.at + rings[id].reporting.reset > now}
                      IN  Points(recent) >= rings[id].reporting.kick
    BY Zenon
  <2>1. PICK id \in RingId : Exists(id) /\ \E r \in Submittable(id) :
           SubmitReport(r) /\ UNCHANGED blockVars /\ r.ring = id
              /\ x = LedgerEntry(r) /\ x.report = r
    BY Accepting, Zenon
  <2>2. PICK r \in Submittable(id) : SubmitReport(r) /\ r.ring = id /\ x.report = r
    BY <2>1, Zenon
  <2> DEFINE n == r.accused
             new == demerits'[id][n]
             reset == rings[id].reporting.reset
             kick == rings[id].reporting.kick
             window == Against(ledger', id, n, new.since)
             recent == {y \in ledger' : /\ y.report.ring = id /\ y.report.accused = n
                                        /\ y.at + reset > now}
  <2>3. reset \in Nat /\ reset >= 1 /\ kick \in Nat
    <3>1. rings[id] \in Ring
      BY <2>1, Zenon DEF RingInv, TypeOK, Exists
    <3>2. ValidateReportingConfig(rings[id].reporting)
      BY <2>1, Zenon DEF StoredRingsValid, ValidateRing
    <3> QED
      BY <3>1, <3>2, Zenon DEF Ring, Reporting, ValidateReportingConfig
  <2>4. new.points >= kick
    <3>1. MaybeScheduleAutoReshare(id, n, new.points)
      BY <2>1, <2>2, SubmitDemerits, Zenon
    <3> QED
      BY <3>1, Zenon DEF MaybeScheduleAutoReshare, OtherMessage, ringVars
  <2>5. /\ new.since \in Nat /\ new.since + reset > now
        /\ new.points <= Points(window) /\ new.points \in Nat
    BY <2>1, <2>2, <2>3, SubmitBacked, SubmitDemerits
  <2>6. now \in Nat /\ \A y \in ledger' : y.at \in Nat /\ y.amount \in Nat
    BY Zenon DEF RingInv, TypeOK, DemeritInv
  <2> HIDE DEF new, reset, kick
  <2>7. window \subseteq recent
    <3> SUFFICES ASSUME NEW y \in window PROVE y \in recent
      BY Zenon
    <3>1. y \in ledger' /\ y.report.ring = id /\ y.report.accused = n /\ y.at >= new.since
      BY Zenon DEF Against
    <3>2. y.at + reset > now
      BY <2>3, <2>5, <2>6, <3>1
    <3> QED
      BY <3>1, <3>2, Zenon
  <2>8. Points(window) \in Nat /\ Points(recent) \in Nat /\ Points(window) <= Points(recent)
    <3>1. IsFiniteSet(recent) /\ \A y \in recent : y.amount \in Nat
      <4>1. IsFiniteSet(ledger')
        BY Zenon DEF DemeritInv
      <4> QED
        BY <2>6, <4>1, FS_Subset, Zenon
    <3> HIDE DEF recent, window
    <3> QED
      BY <2>7, <3>1, PointsSubset, Zenon
  <2>9. Points(recent) >= kick
    <3> HIDE DEF recent, window
    <3> QED
      BY <2>3, <2>4, <2>5, <2>8
  <2> QED
    BY <2>2, <2>9, Zenon DEF reset, kick
<1> QED
  BY <1>1, ReportKeepsRingInv, ReportImplementsRing, ValidRings, DemeritInvariant, PTL
     DEF ReportSpec, KickEarned

-----------------------------------------------------------------------------
(* Evidence counts once *)

(* A remainder is below the modulus.                                       *)
LEMMA RestInWord == ASSUME NEW k \in Nat, NEW w \in Nat \ {0} PROVE k % w \in 0 .. w - 1
OBVIOUS

(* Accepting a report: neither it nor its session is on record, so the pair*)
(* is new; it expires no sooner than the evidence does.                    *)
LEMMA SubmitKeepsReportInv ==
    ASSUME RingInv, ReportInv, NEW id \in RingId, Exists(id), NEW r \in Submittable(id),
           SubmitReport(r), UNCHANGED blockVars
    PROVE  ReportInv'
<1> DEFINE reporting == rings[id].reporting
           old == demerits[id][r.accused]
           d == Incremented(old, reporting.demerits[r.type], reporting.reset)
           pair == [expires |-> now + ReportTTL, report |-> r, session |-> SessionId(r)]
<1> USE DEF ReportInv
<1>1. /\ r.ring = id /\ r.accused \in Node /\ r.type \in ReportType /\ r.observedAt \in Nat
  <2>1. r.ring = id /\ r.type \in ReportType /\ r.accused \in Accused /\ r.observedAt \in 0 .. MaxTime
    BY Zenon DEF Submittable
  <2> QED
    BY <2>1, RingAssumption, ReportAssumption
<1>2. /\ SessionId(r) \notin acceptedSessions /\ r \notin acceptedReports
      /\ acceptedReports' = acceptedReports \cup {r}
      /\ acceptedSessions' = acceptedSessions \cup {SessionId(r)}
      /\ acceptedExpiry' = acceptedExpiry \cup {pair}
      /\ r.observedAt <= now
  BY Zenon DEF SubmitReport, ValidReport, AlreadyAccepted, EnvelopeValid, SetAcceptedReportPair
<1>3. /\ demerits' = [demerits EXCEPT ![id][r.accused] = d]
      /\ ledger' = ledger \cup {[report |-> r, at |-> now, amount |-> reporting.demerits[r.type]]}
  BY <1>1, Zenon DEF SubmitReport
<1>4. now \in Nat /\ now' = now /\ ReportTTL \in Nat
  BY ReportAssumption, Zenon DEF RingInv, TypeOK, blockVars
<1>5. d \in [points : 0 .. Word - 1, since : OptNat]
  <2>1. rings[id] \in Ring
    BY Zenon DEF RingInv, TypeOK, Exists
  <2>2. reporting.demerits[r.type] \in Nat
    BY <1>1, <2>1, Zenon DEF Ring, Reporting
  <2>3. old \in [points : 0 .. Word - 1, since : OptNat]
    BY <1>1, Zenon DEF ReportTypeOK
  <2> DEFINE base == IF WindowExpired(old, reporting.reset)
                     THEN [points |-> 0, since |-> now] ELSE old
  <2>4. base \in [points : 0 .. Word - 1, since : OptNat]
    <3>1. now \in OptNat /\ 0 \in 0 .. Word - 1
      BY <1>4, ReportAssumption DEF OptNat
    <3>2. [points |-> 0, since |-> now] \in [points : 0 .. Word - 1, since : OptNat]
      BY <3>1, Zenon
    <3> QED
      BY <2>3, <3>2, Zenon
  <2>5. d = [base EXCEPT !.points = (@ + reporting.demerits[r.type]) % Word]
    BY Zenon DEF Incremented
  <2>6. (base.points + reporting.demerits[r.type]) % Word \in 0 .. Word - 1
    <3> HIDE DEF base, reporting
    <3>1. base.points \in Nat
      BY <2>4
    <3>2. Word \in Nat \ {0} /\ base.points + reporting.demerits[r.type] \in Nat
      BY <3>1, <2>2, ReportAssumption
    <3> QED
      BY <3>2, RestInWord, Zenon
  <2> HIDE DEF base, reporting, d
  <2> QED
    BY <2>4, <2>5, <2>6, Zenon
<1> HIDE DEF d
<1>6. ReportTypeOK'
  <2>1. acceptedExpiry' \subseteq Pair'
    <3>1. now + ReportTTL \in Nat
      BY <1>4
    <3>2. pair \in Pair'
      BY <1>2, <3>1, Zenon DEF Pair
    <3>3. ASSUME NEW p \in acceptedExpiry PROVE p \in Pair'
      BY <1>2, Zenon DEF ReportTypeOK, Pair
    <3> QED
      BY <1>2, <3>2, <3>3, Zenon
  <2>2. demerits' \in [RingId -> [Node -> [points : 0 .. Word - 1, since : OptNat]]]
    BY <1>1, <1>3, <1>5, Zenon DEF ReportTypeOK
  <2>3. \A x \in ledger' : x.report.observedAt \in Nat
    BY <1>1, <1>3 DEF ReportTypeOK
  <2> QED
    BY <2>1, <2>2, <2>3, Zenon DEF ReportTypeOK
<1>7. DedupeInv'
  <2>1. /\ acceptedReports' = {p.report : p \in acceptedExpiry'}
        /\ acceptedSessions' = {p.session : p \in acceptedExpiry'}
    <3>1. pair.report = r /\ pair.session = SessionId(r)
      BY Zenon
    <3> HIDE DEF pair
    <3>2. /\ acceptedReports = {p.report : p \in acceptedExpiry}
          /\ acceptedSessions = {p.session : p \in acceptedExpiry}
      BY Zenon DEF DedupeInv
    <3> QED
      BY <1>2, <3>1, <3>2, Zenon
  <2>2. /\ \A p, q \in acceptedExpiry' : p.session = q.session => p = q
        /\ \A p \in acceptedExpiry' : p.session = SessionId(p.report)
    BY <1>2 DEF DedupeInv
  <2>3. ASSUME NEW x \in ledger'
        PROVE  \/ now' > x.report.observedAt + ReportTTL
               \/ \E p \in acceptedExpiry' : /\ p.session = SessionId(x.report)
                                             /\ p.expires >= x.report.observedAt + ReportTTL
    <3>1. CASE x \in ledger
      BY <3>1, <1>2, <1>4, Zenon DEF DedupeInv
    <3>2. CASE x.report = r
      <4>1. pair.expires >= r.observedAt + ReportTTL /\ pair.session = SessionId(r)
        BY <1>1, <1>2, <1>4
      <4> QED
        BY <3>2, <4>1, <1>2, Zenon
    <3> QED
      BY <3>1, <3>2, <1>3
  <2>4. \A x \in ledger' : StatementValid(x.report)
    <3>1. StatementValid(r)
      BY Zenon DEF SubmitReport, ValidReport
    <3> QED
      BY <3>1, <1>3 DEF DedupeInv
  <2> QED
    BY <2>1, <2>2, <2>3, <2>4, Zenon DEF DedupeInv, StatementValid
<1> QED
  BY <1>6, <1>7, Zenon

(* EndBlock drops a pair only when the evidence behind it is at its last   *)
(* admissible second, which the next block is past.                        *)
LEMMA EndBlockKeepsReportInv ==
    ASSUME RingInv, ReportInv, EndBlock, 0 \notin BlockGap
    PROVE  ReportInv'
<1> USE DEF ReportInv
<1>1. /\ acceptedExpiry' = acceptedExpiry \ Expired
      /\ acceptedReports' = acceptedReports \ {p.report : p \in Expired}
      /\ acceptedSessions' = acceptedSessions \ {p.session : p \in Expired}
      /\ UNCHANGED <<demerits, ledger>>
  BY Zenon DEF EndBlock
<1>2. now \in Nat /\ now' \in Nat /\ now' > now /\ ReportTTL \in Nat
  BY RingAssumption, ReportAssumption DEF EndBlock, NextBlock, RingInv, TypeOK
<1>3. /\ acceptedReports' = {p.report : p \in acceptedExpiry'}
      /\ acceptedSessions' = {p.session : p \in acceptedExpiry'}
  <2>1. \A p, q \in acceptedExpiry : p.report = q.report => p = q
    BY DEF DedupeInv
  <2> QED
    BY <1>1, <2>1 DEF DedupeInv, Expired
<1>4. ReportTypeOK'
  BY <1>1, <1>3, Zenon DEF ReportTypeOK, Pair, Expired
<1>5. ASSUME NEW x \in ledger
      PROVE  \/ now' > x.report.observedAt + ReportTTL
             \/ \E p \in acceptedExpiry' : /\ p.session = SessionId(x.report)
                                           /\ p.expires >= x.report.observedAt + ReportTTL
  <2>1. x.report.observedAt \in Nat /\ \A p \in acceptedExpiry : p.expires \in Nat
    BY Zenon DEF ReportTypeOK, Pair
  <2>2. CASE now > x.report.observedAt + ReportTTL
    BY <1>2, <2>1, <2>2
  <2>3. ASSUME NEW p \in acceptedExpiry, p.session = SessionId(x.report),
               p.expires >= x.report.observedAt + ReportTTL
        PROVE  <1>5!2
    <3>1. CASE p \in Expired
      BY <1>2, <2>1, <2>3, <3>1 DEF Expired
    <3>2. CASE p \notin Expired
      BY <1>1, <2>3, <3>2, Zenon
    <3> QED
      BY <3>1, <3>2, Zenon
  <2> QED
    BY <2>2, <2>3, Zenon DEF DedupeInv
<1>6. DedupeInv'
  BY <1>1, <1>3, <1>5, Zenon DEF DedupeInv, StatementValid
<1> QED
  BY <1>4, <1>6, Zenon

(* Every other step leaves the records of accepted reports alone.          *)
LEMMA NextReportInv ==
    ASSUME 0 \notin BlockGap
    PROVE  RingInv /\ ReportInv /\ [ReportNext]_allVars => ReportInv'
<1> SUFFICES ASSUME RingInv, ReportInv, [ReportNext]_allVars PROVE ReportInv'
  BY Zenon
<1>1. CASE UNCHANGED reportVars /\ now' = now
  BY <1>1, Zenon DEF reportVars, ReportInv, ReportTypeOK, Pair, DedupeInv, StatementValid
<1>2. CASE UNCHANGED allVars
  BY <1>1, <1>2, Zenon DEF allVars, vars, blockVars
<1>3. CASE RingTransaction /\ UNCHANGED blockVars
  BY <1>1, <1>3, Zenon DEF RingTransaction, blockVars
<1>4. ASSUME NEW id \in RingId, Exists(id), NEW r \in Submittable(id), SubmitReport(r),
             UNCHANGED blockVars
      PROVE  ReportInv'
  BY <1>4, SubmitKeepsReportInv, Zenon
<1>5. CASE (\E id \in RingId : SignReshare(id)) /\ UNCHANGED <<blockVars, fresh, reportVars>>
  BY <1>1, <1>5, Zenon DEF blockVars
<1>6. CASE EndBlock
  BY <1>6, EndBlockKeepsReportInv, Zenon
<1> QED
  BY <1>2, <1>3, <1>4, <1>5, <1>6, Zenon DEF ReportNext

(* As long as block times differ by whole seconds, the records of accepted *)
(* reports agree and outlive the evidence they are about.                  *)
THEOREM ReportInvariant == 0 \notin BlockGap => (ReportSpec => []ReportInv)
<1> SUFFICES ASSUME 0 \notin BlockGap PROVE ReportSpec => []ReportInv
  BY Zenon
<1>1. ReportInit => ReportInv
  BY ReportAssumption DEF ReportInit, ReportInv, ReportTypeOK, DedupeInv, NoDemerits, Pair, OptNat
<1> QED
  BY <1>1, NextReportInv, ReportKeepsRingInv, PTL DEF ReportSpec

(* As long as block times differ by whole seconds, SubmitReport accepts a  *)
(* signed statement at most once.                                          *)
THEOREM EvidenceCountsOnce == 0 \notin BlockGap => (ReportSpec => []EvidenceOnce)
<1> SUFFICES ASSUME 0 \notin BlockGap PROVE ReportSpec => []EvidenceOnce
  BY Zenon
<1>1. ReportInit => EvidenceOnce
  BY Zenon DEF ReportInit, EvidenceOnce
<1>2. RingInv /\ ReportInv /\ EvidenceOnce /\ [ReportNext]_allVars => EvidenceOnce'
  <2> SUFFICES ASSUME RingInv, ReportInv, EvidenceOnce, [ReportNext]_allVars PROVE EvidenceOnce'
    BY Zenon
  <2>1. CASE ledger' = ledger
    BY <2>1, Zenon DEF EvidenceOnce
  <2>2. ASSUME NEW id \in RingId, NEW r \in Submittable(id), SubmitReport(r) PROVE EvidenceOnce'
    <3> DEFINE new == [report |-> r, at |-> now,
                       amount |-> rings[r.ring].reporting.demerits[r.type]]
    <3>1. new.report = r /\ ledger' = ledger \cup {new}
      BY <2>2, Zenon DEF SubmitReport
    <3> HIDE DEF new
    <3>2. /\ SessionId(r) \notin acceptedSessions
          /\ ~ (now > r.observedAt + ReportTTL)
          /\ r.type \in Pinned => r.observedAt = r.signedAt - Grace
      <4>1. r.observedAt \in Nat /\ now \in Nat /\ ReportTTL \in Nat
        BY RingAssumption, ReportAssumption DEF Submittable, RingInv, TypeOK
      <4>2. ValidReport(r)
        BY <2>2, Zenon DEF SubmitReport
      <4>3. SessionId(r) \notin acceptedSessions /\ EnvelopeValid(r) /\ StatementValid(r)
        BY <4>2, Zenon DEF ValidReport, AlreadyAccepted
      <4>4. ~ (now > r.observedAt + ReportTTL)
        BY <4>1, <4>3 DEF EnvelopeValid
      <4> QED
        BY <4>3, <4>4, Zenon DEF StatementValid
    <3>3. ASSUME NEW x \in ledger, Evidence(x.report) = Evidence(r), r.type \in Pinned
          PROVE  FALSE
      <4>1. SessionId(x.report) = SessionId(r) /\ x.report.signedAt = r.signedAt
        BY <3>3, Zenon DEF Evidence
      <4>2. x.report.type = r.type
        BY <4>1, Zenon DEF SessionId
      <4>3. x.report.observedAt = r.observedAt
        BY <3>2, <3>3, <4>1, <4>2, Zenon DEF ReportInv, DedupeInv, StatementValid
      <4>4. \A p \in acceptedExpiry : p.session # SessionId(r)
        BY <3>2, Zenon DEF ReportInv, DedupeInv
      <4> QED
        BY <3>2, <4>1, <4>3, <4>4, Zenon DEF ReportInv, DedupeInv
    <3>4. ASSUME NEW x, Evidence(x.report) = Evidence(r) PROVE x.report.type = r.type
      BY <3>4, Zenon DEF Evidence, SessionId
    <3> QED
      BY <3>1, <3>3, <3>4, Zenon DEF EvidenceOnce
  <2> QED
    BY <2>1, <2>2, Zenon DEF ReportNext, allVars, reportVars, RingTransaction, EndBlock
<1> QED
  BY <1>1, <1>2, ReportInvariant, ReportKeepsRingInv, PTL DEF ReportSpec

-----------------------------------------------------------------------------
(* Documents within the ring lifecycle *)

(* To the rings, a stored document is a message that changes nothing.      *)
LEMMA DocumentStepIsRingStep == [DocumentNext]_storeVars => [Next]_vars
<1> SUFFICES ASSUME [DocumentNext]_storeVars PROVE [Next]_vars
  BY Zenon
<1>1. CASE UNCHANGED storeVars
  BY <1>1, Zenon DEF storeVars
<1>2. CASE OtherMessage /\ fresh' = FALSE /\ UNCHANGED blockVars
  BY <1>2, Zenon DEF Next, Message
<1> QED
  BY <1>1, <1>2, Zenon DEF DocumentNext

(* With documents, rings still behave as the ring lifecycle says.          *)
THEOREM DocumentImplementsRing == DocumentSpec => Spec
<1>1. DocumentInit => Init
  BY Zenon DEF DocumentInit
<1> QED
  BY <1>1, DocumentStepIsRingStep, PTL DEF DocumentSpec, Spec

-----------------------------------------------------------------------------
(* The PET key of a final ring *)

(* FinalizeRing accepts a PET key exactly for a ring that requires one.    *)
PetMatches(id, ring) == Finalized(ring) => (ring.output.petPk # NoKey <=> Config[id].requiresPet)
PetInv == \A id \in RingId : Exists(id) => PetMatches(id, rings[id])

(* A ring message writes a ring without keys, with the keys it had, or     *)
(* with keys that FinalizeRing has checked.                                *)
LEMMA RingStepPet ==
    ASSUME RingInv, PetInv, NEW id \in RingId, RingStep(id)
    PROVE  \E r : (r = NoRing \/ PetMatches(id, r)) /\ rings' = [rings EXCEPT ![id] = r]
<1> DEFINE Writes(r) == (r = NoRing \/ PetMatches(id, r)) /\ rings' = [rings EXCEPT ![id] = r]
<1> SUFFICES \E r : Writes(r)
  BY Zenon
<1>1. ASSUME NEW a \in Account, NEW r \in ReportingConfig \cup {defaultReporting},
             CreateRing(id, a, r)
      PROVE  Writes(NewRing(id, a, r))
  <2>1. NewRing(id, a, r).output = NoOutput
    BY Zenon DEF NewRing
  <2> QED
    BY <1>1, <2>1, Zenon DEF CreateRing, SetRing, PetMatches, Finalized
<1>2. ASSUME NEW n \in Node, NEW out \in Output, FinalizeRing(id, n, out)
      PROVE  \E r : Writes(r)
  <2> DEFINE ring == rings[id]
             confirmed == [ring EXCEPT !.confirmations[n] = out]
             final == [ring EXCEPT !.output = out,
                                   !.confirmations = [m \in Node |-> NoOutput]]
  <2>1. ~ Finalized(ring) /\ ring \in Ring /\ (out.petPk # NoKey <=> Config[id].requiresPet)
    BY <1>2, Zenon DEF FinalizeRing, Exists, RingInv, TypeOK
  <2>2. confirmed.output = ring.output /\ final.output = out
    BY <2>1, Zenon DEF Ring
  <2>3. PICK r \in {NoRing, confirmed, final} : rings' = [rings EXCEPT ![id] = r]
    BY <1>2, Zenon DEF FinalizeRing, SetRing, DeleteRing
  <2> HIDE DEF confirmed, final, ring
  <2> QED
    BY <2>1, <2>2, <2>3, Zenon DEF PetMatches, Finalized
<1>3. ASSUME NEW s \in Account \cup Node, CancelPendingRing(id, s) PROVE Writes(NoRing)
  BY <1>3, Zenon DEF CancelPendingRing, DeleteRing
<1>4. ASSUME FinalizeRingReshareByThresholdSignature(id) PROVE \E r : Writes(r)
  <2> DEFINE base == ReshareFinalized(rings[id])
             new == [base EXCEPT !.nonce = height]
  <2>1. Exists(id) /\ rings' = [rings EXCEPT ![id] = new]
    BY <1>4, Zenon DEF FinalizeRingReshareByThresholdSignature, UpdateRing, SetRing, NextNonce
  <2>2. rings[id] \in Ring
    BY <2>1, Zenon DEF RingInv, TypeOK, Exists
  <2>3. base \in Ring /\ base.output = rings[id].output
    BY <2>2, ReshareFinalizedType, Zenon
  <2> HIDE DEF base
  <2>4. new.output = base.output
    BY <2>3, Zenon DEF Ring
  <2> HIDE DEF new
  <2> QED
    BY <2>1, <2>3, <2>4, Zenon DEF PetInv, PetMatches, Finalized
<1>5. ASSUME SettingsUpdate(id) PROVE \E r : Writes(r)
  <2>1. Exists(id) /\ \E ring \in Ring : UpdateRing(id, ring) /\ ring.output = rings[id].output
    BY <1>5, Zenon DEF SettingsUpdate
  <2> QED
    BY <2>1, Zenon DEF UpdateRing, SetRing, PetInv, PetMatches, Finalized
<1> QED
  BY <1>1, <1>2, <1>3, <1>4, <1>5, SettingsUpdates, Zenon DEF RingStep, RingMessage

(* Every step of the rings keeps the fact about PET keys.                  *)
LEMMA PetStep == RingInv /\ PetInv /\ [Next]_vars => PetInv'
<1> SUFFICES ASSUME RingInv, PetInv, [Next]_vars PROVE PetInv'
  BY Zenon
<1>0. rings \in [RingId -> Ring \cup {NoRing}]
  BY Zenon DEF RingInv, TypeOK
<1>1. ASSUME NEW id \in RingId, RingStep(id) PROVE PetInv'
  <2>1. PICK r : (r = NoRing \/ PetMatches(id, r)) /\ rings' = [rings EXCEPT ![id] = r]
    BY <1>1, RingStepPet, Zenon
  <2> SUFFICES ASSUME NEW x \in RingId, rings'[x] # NoRing PROVE PetMatches(x, rings'[x])
    BY Zenon DEF PetInv, Exists, PetMatches, Finalized
  <2>2. CASE x = id
    BY <1>0, <2>1, <2>2, Zenon
  <2>3. CASE x # id
    BY <1>0, <2>1, <2>3, Zenon DEF PetInv, Exists
  <2> QED
    BY <2>2, <2>3, Zenon
<1>2. CASE rings' = rings
  BY <1>2, Zenon DEF PetInv, Exists, PetMatches, Finalized
<1>3. rings' = rings \/ \E id \in RingId : RingStep(id)
  BY Zenon DEF Next, Message, NodeStep, OtherMessage, UpdateParams, SignReshare, NextBlock,
     ringVars, vars
<1> QED
  BY <1>1, <1>2, <1>3, Zenon

(* A final ring has a PET key exactly when its configuration requires one. *)
LEMMA PetKeys == Spec => []PetInv
<1>1. Init => PetInv
  BY Zenon DEF Init, PetInv, Exists
<1> QED
  BY <1>1, PetStep, RingInvariant, PTL DEF Spec

-----------------------------------------------------------------------------
(* What is stored stays usable *)

(* An entry is sealed to the keys of a final ring, and tagged as the       *)
(* configuration of the ring demands.                                      *)
Sealed(id, entry) ==
    entry # NoEntry => Exists(id) /\ Finalized(rings[id]) /\ rings[id].output = entry.sealed
DocumentInv ==
    /\ documents \in [DocumentId -> Entry \cup {NoEntry}]
    /\ keyDerivations \in [DerivationId -> Entry \cup {NoEntry}]
    /\ \A d \in DocumentId :
          /\ Sealed(d.ring, documents[d])
          /\ documents[d] # NoEntry => (d.tagged <=> Config[d.ring].requiresPet)
    /\ \A k \in DerivationId : Sealed(k.ring, keyDerivations[k])

(* No step of the rings breaks a seal: the keys of a final ring stay.      *)
LEMMA SealKept ==
    ASSUME RingInv, [Next]_vars, NEW id \in RingId, NEW entry, Sealed(id, entry)
    PROVE  /\ entry # NoEntry => /\ rings'[id] # NoRing /\ rings'[id].output # NoOutput
                                 /\ rings'[id].output = entry.sealed
<1>1. CASE Next
  BY <1>1, NextKeeps, Zenon DEF Sealed, Kept, Exists, Finalized
<1>2. CASE UNCHANGED vars
  BY <1>2, Zenon DEF vars, ringVars, Sealed, Exists, Finalized
<1> QED
  BY <1>1, <1>2, Zenon

(* A new entry is sealed to the keys that its ring has.                    *)
LEMMA NewEntrySealed ==
    ASSUME RingInv, NEW id \in RingId, NEW c \in Creator, Exists(id), Finalized(rings[id])
    PROVE  NewEntry(c, id) \in Entry /\ Sealed(id, NewEntry(c, id))
<1>1. rings[id] \in Ring
  BY Zenon DEF RingInv, TypeOK, Exists
<1>2. rings[id].output \in Output
  BY <1>1, Zenon DEF Ring, Finalized
<1> QED
  BY <1>2, Zenon DEF NewEntry, Entry, Sealed

(* Storing and every step of the rings keep the seals.                     *)
LEMMA DocumentStep == RingInv /\ DocumentInv /\ [DocumentNext]_storeVars => DocumentInv'
<1> SUFFICES ASSUME RingInv, DocumentInv, [DocumentNext]_storeVars PROVE DocumentInv'
  BY Zenon
<1>1. [Next]_vars
  BY DocumentStepIsRingStep, Zenon
<1> DEFINE SealedNext(id, entry) ==
        entry # NoEntry => /\ rings'[id] # NoRing /\ rings'[id].output # NoOutput
                           /\ rings'[id].output = entry.sealed
<1>2. SUFFICES /\ documents' \in [DocumentId -> Entry \cup {NoEntry}]
               /\ keyDerivations' \in [DerivationId -> Entry \cup {NoEntry}]
               /\ \A d \in DocumentId :
                     /\ SealedNext(d.ring, documents'[d])
                     /\ documents'[d] # NoEntry => (d.tagged <=> Config[d.ring].requiresPet)
               /\ \A k \in DerivationId : SealedNext(k.ring, keyDerivations'[k])
  BY Zenon DEF DocumentInv, Sealed, Exists, Finalized
<1>3. /\ \A d \in DocumentId : d.ring \in RingId
      /\ \A k \in DerivationId : k.ring \in RingId
  BY Zenon DEF DocumentId, DerivationId
<1>4. ASSUME NEW id \in RingId, NEW entry, Sealed(id, entry) PROVE SealedNext(id, entry)
  BY <1>1, <1>4, SealKept, Zenon
<1> HIDE DEF SealedNext
<1>5. CASE UNCHANGED documentVars
  BY <1>3, <1>4, <1>5, Zenon DEF DocumentInv, documentVars
<1>6. ASSUME NEW d \in DocumentId, NEW c \in Creator, StoreDocument(d, c) PROVE <1>2!1
  <2>1. /\ Exists(d.ring) /\ Finalized(rings[d.ring])
        /\ d.tagged <=> Config[d.ring].requiresPet
        /\ documents' = [documents EXCEPT ![d] = NewEntry(c, d.ring)]
        /\ keyDerivations' = keyDerivations
    BY <1>6, Zenon DEF StoreDocument
  <2>2. NewEntry(c, d.ring) \in Entry /\ SealedNext(d.ring, NewEntry(c, d.ring))
    BY <1>3, <1>4, <2>1, NewEntrySealed, Zenon
  <2> QED
    BY <1>3, <1>4, <2>1, <2>2, Zenon DEF DocumentInv
<1>7. ASSUME NEW k \in DerivationId, NEW c \in Creator, StoreKeyDerivation(k, c) PROVE <1>2!1
  <2>1. /\ Exists(k.ring) /\ Finalized(rings[k.ring])
        /\ keyDerivations' = [keyDerivations EXCEPT ![k] = NewEntry(c, k.ring)]
        /\ documents' = documents
    BY <1>7, Zenon DEF StoreKeyDerivation
  <2>2. NewEntry(c, k.ring) \in Entry /\ SealedNext(k.ring, NewEntry(c, k.ring))
    BY <1>3, <1>4, <2>1, NewEntrySealed, Zenon
  <2> QED
    BY <1>3, <1>4, <2>1, <2>2, Zenon DEF DocumentInv
<1> QED
  BY <1>5, <1>6, <1>7, Zenon DEF DocumentNext, storeVars, documentVars

(* Whatever is stored can be used for ever: its ring exists and has the    *)
(* keys it was sealed to, and the PET tag of a document can be tested.     *)
THEOREM StoredForGood == DocumentSpec => []StoredUsable
<1>1. DocumentInit => DocumentInv
  BY Zenon DEF DocumentInit, DocumentInv, Sealed
<1>2. DocumentInv /\ PetInv => StoredUsable
  <2> SUFFICES ASSUME DocumentInv, PetInv PROVE StoredUsable
    BY Zenon
  <2>1. ASSUME NEW d \in DocumentId, documents[d] # NoEntry
        PROVE  /\ Exists(d.ring) /\ rings[d.ring].output = documents[d].sealed
               /\ d.tagged <=> rings[d.ring].output.petPk # NoKey
    <3>1. d.ring \in RingId
      BY Zenon DEF DocumentId
    <3> QED
      BY <2>1, <3>1, Zenon DEF DocumentInv, Sealed, PetInv, PetMatches
  <2>2. ASSUME NEW k \in DerivationId, keyDerivations[k] # NoEntry
        PROVE  Exists(k.ring) /\ rings[k.ring].output = keyDerivations[k].sealed
    BY <2>2, Zenon DEF DocumentInv, Sealed
  <2> QED
    BY <2>1, <2>2, Zenon DEF StoredUsable
<1> QED
  BY <1>1, <1>2, DocumentStep, DocumentImplementsRing, RingInvariant, PetKeys, PTL DEF DocumentSpec

(* The first creator of a document or derivation keeps it.                 *)
THEOREM FirstCreator == DocumentSpec => FirstCreatorKeeps
<1> DEFINE Step ==
        /\ \A d \in DocumentId : documents[d] # NoEntry => documents'[d] = documents[d]
        /\ \A k \in DerivationId :
              keyDerivations[k] # NoEntry => keyDerivations'[k] = keyDerivations[k]
<1>1. DocumentInit => DocumentInv
  BY Zenon DEF DocumentInit, DocumentInv, Sealed
<1>2. DocumentInv /\ [DocumentNext]_storeVars => [Step]_storeVars
  BY Zenon DEF DocumentInv, DocumentNext, documentVars, StoreDocument, StoreKeyDerivation
<1> QED
  BY <1>1, <1>2, DocumentStep, DocumentImplementsRing, RingInvariant, PTL
     DEF DocumentSpec, FirstCreatorKeeps
=============================================================================
