----------------------------- MODULE OrbisReport -----------------------------
(***************************************************************************)
(* Misbehaviour reports of x/orbis: SubmitReport with its checks, the      *)
(* records that refuse a report or its evidence a second time, demerits    *)
(* and their window, and the reshare that kicks a node.                    *)
(*                                                                         *)
(* A report identifier is the hash of the report, so the report stands for *)
(* it.  Threshold signing happens off chain: any report may turn up        *)
(* signed.  The signed statements nested in a payload are kept only as     *)
(* what the checks read of them: origin, version, scopes, attempt and time.*)
(***************************************************************************)
EXTENDS OrbisRing, FiniteSetsExt

CONSTANTS
    Pinned,            \* report types whose payload carries a signed statement
    OriginProtocol,    \* protocols a report may stem from
    Session,           \* session identifiers
    Attempt,           \* DKG attempt identifiers
    NoAttempt,         \* the empty attempt identifier
    Reporter, Accused, \* nodes that report and nodes that are reported
    ReportTTL,         \* ReportTTLSeconds
    Grace,             \* reportObservedAtGraceSecs
    Word               \* number of values of a uint64

VARIABLES
    acceptedReports,   \* report identifiers accepted
    acceptedSessions,  \* session dedupe identifiers accepted
    acceptedExpiry,    \* expiry index over both
    demerits,          \* demerit points per ring and node, with the start of their window
    ledger             \* history: every accepted report, when, and for how many points

reportVars == <<acceptedReports, acceptedSessions, acceptedExpiry, demerits, ledger>>
allVars == <<vars, reportVars>>

ASSUME ReportAssumption ==
    /\ Pinned \subseteq ReportType /\ Reporter \subseteq Node /\ Accused \subseteq Node
    /\ ReportTTL \in Nat \ {0} /\ Grace \in Nat /\ Word \in Nat \ {0}

NoDemerits == [points |-> 0, since |-> None]

-----------------------------------------------------------------------------
(* Validation of a submitted report *)

(* reportRingStateCanonicalBytesWithRelayState: what a report says the ring*)
(* looked like; the legacy form leaves the relays out.                     *)
RingState(ring, legacy) ==
    [ringPk |-> ring.output.ringPk, peers |-> ring.peers, threshold |-> ring.threshold,
     newPeers |-> ring.newPeers, newThreshold |-> ring.newThreshold,
     pssInterval |-> ring.pssInterval, nonce |-> ring.nonce,
     relays |-> IF legacy THEN {} ELSE ring.relays, legacy |-> legacy,
     version |-> ring.version, nextVersion |-> ring.nextVersion,
     activation |-> ring.activation, reporting |-> ring.reporting]

RingStateMatches(id, ring, state) ==
    \/ state = RingState(ring, FALSE)
    \/ ~ Config[id].allowRelays /\ ring.relays = {} /\ state = RingState(ring, TRUE)

(* validateReportEnvelopeShape. *)
EnvelopeValid(r) ==
    /\ r.observedAt <= now /\ now <= r.observedAt + ReportTTL
    /\ r.reporter # r.accused

(* validateInvalidCryptoResponseStatement pins the observation to the time *)
(* at which the statement was signed, as validateRelayRequestStatement     *)
(* does; an offline report has no statement.                               *)
StatementValid(r) ==
    /\ r.type \in Pinned => r.signedAt >= Grace /\ r.observedAt = r.signedAt - Grace
    /\ r.type \notin Pinned => r.signedAt = None /\ r.attempt = NoAttempt

(* reportCommitteeForScope; TRUE stands for the pending-new scope.         *)
ScopeValid(ring, pendingNew) == pendingNew => ResharePending(ring)
ScopePeers(ring, pendingNew) == IF pendingNew THEN TargetPeers(ring) ELSE ring.peers
ScopeThreshold(ring, pendingNew) ==
    IF pendingNew THEN TargetThreshold(ring) ELSE ring.threshold

CommitteeAuthorized(r, ring) ==
    LET signing == ScopePeers(ring, r.signingNew)
        threshold == ScopeThreshold(ring, r.signingNew)
    IN  /\ ScopeValid(ring, r.accusedNew) /\ ScopeValid(ring, r.signingNew)
        /\ threshold >= 2
        /\ threshold <= Cardinality(signing \ {r.accused})
        /\ r.reporter \in signing
        /\ r.accused \in ScopePeers(ring, r.accusedNew)
        /\ Registered(r.accused)
        /\ r.peerId = nodeInfo[r.accused].peerId

(* reportSessionDedupeID. *)
SessionId(r) == <<r.ring, r.type, r.origin, r.accused, r.session, r.attempt>>

ReportOnlyDedupe(r) == r \in acceptedReports
AlreadyAccepted(r) == r \in acceptedReports \/ SessionId(r) \in acceptedSessions

ValidReport(r) ==
    /\ EnvelopeValid(r)
    /\ StatementValid(r)
    /\ Exists(r.ring) /\ Finalized(rings[r.ring])
    /\ RingStateMatches(r.ring, rings[r.ring], r.state)
    /\ r.version = EffectiveVersion(rings[r.ring], r.observedAt)
    /\ CommitteeAuthorized(r, rings[r.ring])
    /\ ~ AlreadyAccepted(r)

-----------------------------------------------------------------------------
(* Acceptance *)

SetAcceptedReportPair(r, expires) ==
    /\ acceptedReports' = acceptedReports \cup {r}
    /\ acceptedSessions' = acceptedSessions \cup {SessionId(r)}
    /\ acceptedExpiry' = acceptedExpiry
          \cup {[expires |-> expires, report |-> r, session |-> SessionId(r)]}

NeverExpired(d, reset) == d.since = None

(* nodeDemeritWindowExpired, or no points stored. *)
WindowExpired(d, reset) == d.since = None \/ (now >= d.since /\ now - d.since >= reset)

(* IncrementNodeDemerits. *)
Incremented(d, amount, reset) ==
    LET base == IF WindowExpired(d, reset) THEN [points |-> 0, since |-> now] ELSE d
    IN  [base EXCEPT !.points = (@ + amount) % Word]

KickOutright(id, accused, points) ==
    IF points >= rings[id].reporting.kick /\ ~ ResharePending(rings[id])
    THEN /\ UpdateRing(id, [rings[id] EXCEPT !.newPeers = rings[id].peers \ {accused}])
         /\ UNCHANGED <<used, scheduledAt>>
    ELSE OtherMessage

(* maybeScheduleAutoReshareForReport; points are the accused's effective   *)
(* demerits.                                                               *)
MaybeScheduleAutoReshare(id, accused, points) ==
    IF /\ points >= rings[id].reporting.kick
       /\ ~ ResharePending(rings[id])
       /\ accused \in rings[id].peers
       /\ \E i \in DOMAIN rings[id].reporting.backups : Eligible(id, i)
    THEN ScheduleAutoReshare(id, accused)
    ELSE OtherMessage

SubmitReport(r) ==
    /\ ValidReport(r)
    /\ LET reporting == rings[r.ring].reporting
           amount == reporting.demerits[r.type]
           d == Incremented(demerits[r.ring][r.accused], amount, reporting.reset)
       IN  /\ SetAcceptedReportPair(r, now + ReportTTL)
           /\ demerits' = [demerits EXCEPT ![r.ring][r.accused] = d]
           /\ MaybeScheduleAutoReshare(r.ring, r.accused, d.points)
           /\ ledger' = ledger \cup {[report |-> r, at |-> now, amount |-> amount]}

SweptEarly == {p \in acceptedExpiry : p.expires <= now + 1}
Expired == {p \in acceptedExpiry : p.expires <= now}

(* EndBlock, and the block that follows. *)
EndBlock ==
    /\ acceptedExpiry' = acceptedExpiry \ Expired
    /\ acceptedReports' = acceptedReports \ {p.report : p \in Expired}
    /\ acceptedSessions' = acceptedSessions \ {p.session : p \in Expired}
    /\ NextBlock
    /\ UNCHANGED <<demerits, ledger>>

-----------------------------------------------------------------------------

(* The reports that may be submitted to ring id as it stands.  A report    *)
(* over any other ring state is refused, so none is enumerated.            *)
Submittable(id) ==
    [ring : {id}, type : ReportType, origin : OriginProtocol,
     state : {RingState(rings[id], legacy) : legacy \in {FALSE, ~ Config[id].allowRelays}},
     version : {rings[id].version, rings[id].nextVersion} \ {None},
     reporter : Reporter, accused : Accused, peerId : PeerId,
     observedAt : 0 .. MaxTime, signedAt : Grace .. MaxTime + Grace \cup {None},
     accusedNew : {FALSE, ResharePending(rings[id])},
     signingNew : {FALSE, ResharePending(rings[id])},
     session : Session, attempt : Attempt \cup {NoAttempt}]

ReportInit ==
    /\ Init
    /\ acceptedReports = {} /\ acceptedSessions = {} /\ acceptedExpiry = {}
    /\ demerits = [id \in RingId |-> [n \in Node |-> NoDemerits]]
    /\ ledger = {}

(* A message other than SubmitReport. *)
RingTransaction ==
    /\ \/ NodeStep
       \/ \E c \in ReportingConfig : UpdateParams(c)
       \/ \E id \in RingId : RingMessage(id)
    /\ UNCHANGED reportVars

ReportNext ==
    \/ /\ \/ RingTransaction
          \/ \E id \in RingId : Exists(id) /\ \E r \in Submittable(id) : SubmitReport(r)
       /\ fresh' = FALSE
       /\ UNCHANGED blockVars
    \/ /\ \E id \in RingId : SignReshare(id)
       /\ UNCHANGED <<blockVars, fresh, reportVars>>
    \/ EndBlock

ReportSpec == ReportInit /\ [][ReportNext]_allVars

-----------------------------------------------------------------------------
(* Properties *)

Pair == [expires : Nat, report : acceptedReports, session : acceptedSessions]

ReportTypeOK ==
    /\ acceptedExpiry \subseteq Pair
    /\ demerits \in [RingId -> [Node -> [points : 0 .. Word - 1, since : OptNat]]]
    /\ \A x \in ledger : x.report.observedAt \in Nat

(* The evidence a pinned report presents: the signed statement. *)
Evidence(r) == <<SessionId(r), r.signedAt, r.state>>

(* The three stores of SetAcceptedReportPair describe the same reports,    *)
(* whatever was swept in between, so an export of the index loses nothing; *)
(* and evidence accepted once is either still on record or out of date.    *)
DedupeInv ==
    /\ acceptedReports = {p.report : p \in acceptedExpiry}
    /\ acceptedSessions = {p.session : p \in acceptedExpiry}
    /\ \A p, q \in acceptedExpiry : p.session = q.session => p = q
    /\ \A p \in acceptedExpiry : p.session = SessionId(p.report)
    /\ \A x \in ledger : StatementValid(x.report)
    /\ \A x \in ledger :
          \/ now > x.report.observedAt + ReportTTL
          \/ \E p \in acceptedExpiry : /\ p.session = SessionId(x.report)
                                       /\ p.expires >= x.report.observedAt + ReportTTL

(* The same signed statement is never accepted twice, by whomever and in   *)
(* whatever envelope it is submitted.                                      *)
EvidenceOnce ==
    \A x, y \in ledger :
        /\ x.report.type \in Pinned
        /\ Evidence(x.report) = Evidence(y.report)
        => x = y

ReportInv == ReportTypeOK /\ DedupeInv

(* The demerit points that a set of ledger entries was accepted for. *)
Points(entries) == SumFunctionOnSet([y \in entries |-> y.amount], entries)

(* A report schedules the reshare that kicks the accused node only when    *)
(* the reports accepted against it within the last ResetIntervalSeconds    *)
(* add up to the kick threshold.                                           *)
KickEarned ==
    [][\A x \in ledger' \ ledger : rings' # rings =>
          LET id == x.report.ring
              recent == {y \in ledger' : /\ y.report.ring = id
                                         /\ y.report.accused = x.report.accused
                                         /\ y.at + rings[id].reporting.reset > now}
          IN  Points(recent) >= rings[id].reporting.kick]_allVars

(* A kick trades one member for another: the pending committee is as large *)
(* as the current one, and the accused node is not in it.                  *)
KickKeepsSize ==
    [][\A x \in ledger' \ ledger : rings' # rings =>
          LET ring == rings'[x.report.ring]
          IN  /\ Cardinality(ring.newPeers) = Cardinality(ring.peers)
              /\ x.report.accused \in ring.peers \ ring.newPeers]_allVars

=============================================================================
