--------------------------- MODULE MCOrbisReport ---------------------------
(***************************************************************************)
(* Small instances of OrbisReport.                                         *)
(***************************************************************************)
EXTENDS OrbisReport, TLC

CONSTANTS n1, n2, n3, n4, r1, p1, c1, a1, peer1, k1, d1, identity, offline, crypto, sign, s1, t1, no

Registry == [n \in Node |-> [peerId |-> peer1, controller |-> c1,
                             policies |-> {p1}, rings |-> {}]]

(* Three members of which two sign, so that one can be reported. *)
Conf(relayed) ==
    [peers |-> {n1, n2, n3}, threshold |-> 2, pssInterval |-> 2, policy |-> p1, version |-> 1,
     allowRelays |-> relayed, relays |-> {}, requiresPet |-> FALSE]
TwoOfThree == [id \in RingId |-> Conf(FALSE)]
Relayed == [id \in RingId |-> Conf(TRUE)]

Rep(kick, reset, backups) ==
    [demerits |-> [t \in ReportType |-> IF t = offline THEN 1 ELSE 2], reset |-> reset,
     kick |-> kick, backups |-> backups]
NoKick == {Rep(1, 1, <<>>)}
(* The first backup is already a member, so the second is promoted. *)
Kick == {Rep(3, 2, <<>>), Rep(3, 2, <<n2, n4>>)}
Back == {{n1, n2, n3}}
Same == {None}
=============================================================================
