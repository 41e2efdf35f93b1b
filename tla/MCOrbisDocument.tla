-------------------------- MODULE MCOrbisDocument --------------------------
(***************************************************************************)
(* A small instance of OrbisDocument: a two-node ring without PET and a    *)
(* three-node ring with it, from their DKG to what is stored for them.     *)
(***************************************************************************)
EXTENDS OrbisDocument, TLC

CONSTANTS n1, n2, n3, r1, r2, p1, c1, a1, peer1, k1, k2, identity, offline, m1, u1, u2

Registry == [n \in Node |-> [peerId |-> peer1, controller |-> c1, policies |-> {}, rings |-> {}]]
PlainAndPet == [id \in RingId |->
    [peers |-> IF id = r1 THEN {n1, n2} ELSE {n1, n2, n3}, threshold |-> IF id = r1 THEN 1 ELSE 2,
     pssInterval |-> 2, policy |-> p1, version |-> 1, allowRelays |-> FALSE, relays |-> {},
     requiresPet |-> id = r2]]
NoBackups == {[demerits |-> [t \in ReportType |-> 1], reset |-> 1, kick |-> 1, backups |-> <<>>]}
=============================================================================
