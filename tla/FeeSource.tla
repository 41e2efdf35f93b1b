------------------------------ MODULE FeeSource ------------------------------
(***************************************************************************)
(* Where a fee is taken from: the DID grant that UseFirstAvailableDIDGrant *)
(* finds, an account grant, and the balance that deductFees charges.       *)
(***************************************************************************)
EXTENDS FeeGrant

VARIABLE
    balance            \* coins of every account

(* UseFirstAvailableDIDGrant: the granters of a DID in the order of their  *)
(* addresses; the first that accepts pays, and expired ones met before it  *)
(* are revoked.                                                            *)
Granters(did) == {g \in Account : didGrants[<<g, did>>] # NoGrant}
Accepting(did, fee, m) == {g \in Granters(did) : Accept(didGrants[<<g, did>>], fee, m, now)}
Stale(did, m) == {g \in Granters(did) : AcceptExpires(didGrants[<<g, did>>], m, now)}

Revoked(pairs) ==
    /\ didGrants' = Without(didGrants, pairs)
    /\ didQueue' = didQueue \ UNION {Entry(didGrants[p].exp, p) : p \in pairs}

UseDIDGrant(g, did, fee, m) ==
    LET p == <<g, did>>
        a == didGrants[p]
        revoked == {<<s, did>> : s \in {s \in Stale(did, m) : s < g}}
        gone == IF UsedUp(a, fee) THEN revoked \cup {p} ELSE revoked
    IN  /\ g \in Accepting(did, fee, m) /\ \A h \in Accepting(did, fee, m) : g <= h
        /\ didGrants' = [Without(didGrants, revoked) EXCEPT ![p] = Remaining(a, fee, now)]
        /\ didQueue' = didQueue \ UNION {Entry(didGrants[q].exp, q) : q \in gone}
        /\ UNCHANGED accountStore

(* No DID, or no grant of the DID that accepts: the expired ones are gone. *)
NoDIDGrant(did, fee, m) ==
    \/ did = None /\ UNCHANGED didStore
    \/ /\ did # None /\ Accepting(did, fee, m) = {}
       /\ Revoked({<<s, did>> : s \in Stale(did, m)})

(* UseGrantedFees; the transaction fails when the grant does not accept. *)
UseGrantedFees(p, fee, m) ==
    LET a == grants[p]
    IN  /\ a # NoGrant /\ Accept(a, fee, m, now)
        /\ grants' = [grants EXCEPT ![p] = Remaining(a, fee, now)]
        /\ queue' = IF UsedUp(a, fee) THEN queue \ RevokedEntry(p, a) ELSE queue

(* deductFees *)
DeductFees(a, fee) ==
    /\ fee <= balance[a]
    /\ balance' = [balance EXCEPT ![a] = @ - fee]
=============================================================================
