---------------------------- MODULE MCOrbisRing ----------------------------
(***************************************************************************)
(* Small instances of OrbisRing.                                           *)
(***************************************************************************)
EXTENDS OrbisRing, TLC

CONSTANTS n1, n2, n3, r1, p1, c1, c2, a1, peer1, peer2, k1, d1, identity, offline

Info(policies, ids) == [peerId |-> peer1, controller |-> c1,
                        policies |-> policies, rings |-> ids]

AllRegistered == [n \in Node |-> Info({}, {})]
OneUnregistered == [n \in Node |-> IF n = n3 THEN NoInfo ELSE Info({p1}, {})]

Conf(peers, threshold, relays) ==
    [peers |-> peers, threshold |-> threshold, pssInterval |-> 2, policy |-> p1, version |-> 1,
     allowRelays |-> relays, relays |-> {}, requiresPet |-> FALSE]

ReshareConfig == [id \in RingId |-> Conf({n1, n2}, 2, TRUE)]
SoloConfig == [id \in RingId |-> Conf({n1}, 1, FALSE)]

Rep(kick, backups) == [demerits |-> [t \in ReportType |-> 1], reset |-> 1,
                       kick |-> kick, backups |-> backups]
WithBackups == {Rep(1, <<>>), Rep(1, <<n3>>), Rep(0, <<>>)}
WithInvalid == {Rep(1, <<>>), Rep(2, <<>>), Rep(0, <<>>)}

Pairs == {{}, {n1, n2}, {n1, n3}}
OneOrTwo == {None, 1, 2}
=============================================================================
