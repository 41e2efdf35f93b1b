------------------------------ MODULE FeeGrant ------------------------------
(***************************************************************************)
(* Fee allowances of x/feegrant: the grants from account to account and    *)
(* from account to DID, each store with its queue of expiries, and the     *)
(* messages, sweeps and genesis that change them.                          *)
(*                                                                         *)
(* Addresses and DIDs are natural numbers, ordered like the bytes of the   *)
(* store keys.  A message that fails is rolled back, so an action is a     *)
(* message that succeeds.                                                  *)
(***************************************************************************)
EXTENDS FeeAllowance, FiniteSets

CONSTANTS
    Account,           \* addresses
    Did,               \* DIDs
    Offered,           \* allowances that a message may carry
    DidOffered,        \* allowances that a message may give to a DID
    PruneLimit,        \* grants that one prune message removes at most
    SweepLimit,        \* grants that one block removes at most
    MaxTime            \* bound on block time

VARIABLES
    now,               \* block time
    grants,            \* account grants by <<granter, grantee>>
    queue,             \* their expiry queue: <<expiry, granter, grantee>>
    didGrants,         \* DID grants by <<granter, DID>>
    didQueue           \* their expiry queue: <<expiry, granter, DID>>

accountStore == <<grants, queue>>
didStore == <<didGrants, didQueue>>
grantVars == <<now, grants, queue, didGrants, didQueue>>

Pair == Account \X Account
DidPair == Account \X Did

ASSUME GrantAssumption ==
    /\ Account \subseteq Nat /\ IsFiniteSet(Account)
    /\ Did \subseteq Nat /\ IsFiniteSet(Did)
    /\ Offered \subseteq Allowance /\ DidOffered \subseteq Allowance
    /\ PruneLimit \in Nat \ {0} /\ SweepLimit \in Nat \ {0} /\ MaxTime \in Nat

-----------------------------------------------------------------------------
(* Expiry queues *)

Entry(exp, p) == IF exp = None THEN {} ELSE {<<exp, p[1], p[2]>>}

(* Store keys: expiry first, then grantee or DID, then granter. *)
Before(x, y) ==
    \/ x[1] < y[1]
    \/ x[1] = y[1] /\ x[3] < y[3]
    \/ x[1] = y[1] /\ x[3] = y[3] /\ x[2] < y[2]

Due(q, t) == {e \in q : e[1] < t}

(* The entries that a sweep takes from a queue: the first ones that are    *)
(* due, up to the limit.  The end of the range that the code iterates over *)
(* sorts before the keys that expire at block time, which stay.            *)
Swept(q, t, limit) ==
    {e \in Due(q, t) : Cardinality({d \in Due(q, t) : Before(d, e)}) < limit}
PairsOf(entries) == {<<e[2], e[3]>> : e \in entries}
Without(g, pairs) == [p \in DOMAIN g |-> IF p \in pairs THEN NoGrant ELSE g[p]]

RemoveExpiredAllowances(limit) ==
    LET swept == Swept(queue, now, limit)
    IN  /\ queue' = queue \ swept
        /\ grants' = Without(grants, PairsOf(swept))

RemoveExpiredDIDAllowances(limit) ==
    LET swept == Swept(didQueue, now, limit)
    IN  /\ didQueue' = didQueue \ swept
        /\ didGrants' = Without(didGrants, PairsOf(swept))

-----------------------------------------------------------------------------
(* Messages *)

GrantAllowance(p, a) ==
    /\ p[1] # p[2]
    /\ grants[p] = NoGrant
    /\ ValidateBasic(a) /\ ~ Expired(a, now)
    /\ grants' = [grants EXCEPT ![p] = a]
    /\ queue' = queue \cup Entry(a.exp, p)
    /\ UNCHANGED <<now, didStore>>

(* revokeAllowance deletes the queue entry of the swapped pair. *)
RevokedEntry(p, a) == Entry(a.exp, <<p[2], p[1]>>)
RevokeAllowance(p) ==
    /\ p[1] # p[2]
    /\ grants[p] # NoGrant
    /\ grants' = [grants EXCEPT ![p] = NoGrant]
    /\ queue' = queue \ RevokedEntry(p, grants[p])
    /\ UNCHANGED <<now, didStore>>

PruneAllowances ==
    /\ RemoveExpiredAllowances(PruneLimit)
    /\ UNCHANGED <<now, didStore>>

GrantDIDAllowance(p, a) ==
    /\ didGrants[p] = NoGrant
    /\ ValidateBasic(a) /\ ~ Expired(a, now)
    /\ didGrants' = [didGrants EXCEPT ![p] = a]
    /\ didQueue' = didQueue \cup Entry(a.exp, p)
    /\ UNCHANGED <<now, accountStore>>

(* UpdateDIDAllowance moves the queue entry when the expiry changes. *)
UpdateKeepsEntry(p, a) ==
    /\ didGrants' = [didGrants EXCEPT ![p] = a]
    /\ didQueue' = didQueue \cup Entry(a.exp, p)
UpdateDIDAllowance(p, a) ==
    /\ didGrants' = [didGrants EXCEPT ![p] = a]
    /\ didQueue' = (didQueue \ Entry(didGrants[p].exp, p)) \cup Entry(a.exp, p)

(* ExpireDIDAllowance: a basic allowance expires in this block, a periodic *)
(* one at its PeriodReset; an allowance with a message filter is refused.  *)
ExpireDIDAllowance(p) ==
    LET a == didGrants[p]
    IN  /\ a # NoGrant /\ ~ a.filtered
        /\ UpdateDIDAllowance(p, [a EXCEPT !.exp = IF a.periodic THEN a.reset ELSE now])
        /\ UNCHANGED <<now, accountStore>>

PruneDIDAllowances ==
    /\ RemoveExpiredDIDAllowances(PruneLimit)
    /\ UNCHANGED <<now, accountStore>>

-----------------------------------------------------------------------------
(* Blocks *)

SweepOnlyAccounts ==
    /\ RemoveExpiredAllowances(SweepLimit)
    /\ UNCHANGED didStore
(* EndBlocker sweeps both stores. *)
EndBlocker ==
    /\ RemoveExpiredAllowances(SweepLimit)
    /\ RemoveExpiredDIDAllowances(SweepLimit)

(* Blocks go on at MaxTime, where the clock of the model stops. *)
NextBlock ==
    /\ EndBlocker
    /\ now' = IF now < MaxTime THEN now + 1 ELSE now

(* ExportGenesis, then InitGenesis at block time now: every grant is given *)
(* again, and one that expired without having been swept fails the import. *)
QueueOf(g) == UNION {Entry(g[p].exp, p) : p \in {p \in DOMAIN g : g[p] # NoGrant}}
InitGenesis ==
    /\ \A p \in Pair : grants[p] # NoGrant => ~ Expired(grants[p], now)
    /\ \A p \in DidPair : didGrants[p] # NoGrant => ~ Expired(didGrants[p], now)
    /\ queue' = QueueOf(grants)
    /\ didQueue' = QueueOf(didGrants)
    /\ UNCHANGED <<now, grants, didGrants>>
=============================================================================
