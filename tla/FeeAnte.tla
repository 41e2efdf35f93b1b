------------------------------- MODULE FeeAnte -------------------------------
(***************************************************************************)
(* Payment of transaction fees (CustomDeductFeeDecorator) on top of the    *)
(* grants of x/feegrant: who is charged for a transaction, and what the    *)
(* grants it draws on look like afterwards.                                *)
(*                                                                         *)
(* A transaction names its payer, maybe a fee granter, maybe carries a     *)
(* bearer token with a DID, and may come through a relay, whose granter    *)
(* must then be the trusted one.  A transaction that is refused is rolled  *)
(* back.                                                                   *)
(***************************************************************************)
EXTENDS FeeSource

CONSTANTS
    Payer,             \* accounts that sign transactions
    Fee,               \* fees that a transaction may offer
    Endowment              \* balance of every account in the first block

VARIABLE
    drawn              \* history: fees drawn in this block from each DID grant

feeVars == <<grantVars, balance, drawn>>

ASSUME AnteAssumption ==
    Payer \subseteq Account /\ Fee \subseteq Nat /\ Endowment \in Nat

-----------------------------------------------------------------------------
(* Payment *)

(* handleFeegrant, one action for each way a fee is paid. *)
PayByRelay(payer, granter, fee, m) ==
    /\ granter # payer
    /\ UseGrantedFees(<<granter, payer>>, fee, m)
    /\ DeductFees(granter, fee)
    /\ UNCHANGED <<now, didStore, drawn>>

PayByDID(did, fee, m) ==
    \E g \in Account :
        /\ UseDIDGrant(g, did, fee, m)
        /\ DeductFees(g, fee)
        /\ drawn' = [drawn EXCEPT ![<<g, did>>] = @ + fee]
        /\ UNCHANGED now

PayByGranter(payer, granter, did, fee, m) ==
    /\ NoDIDGrant(did, fee, m)
    /\ IF granter = payer THEN UNCHANGED accountStore
       ELSE UseGrantedFees(<<granter, payer>>, fee, m)
    /\ DeductFees(granter, fee)
    /\ UNCHANGED <<now, drawn>>

PayByPayer(payer, did, fee, m) ==
    /\ NoDIDGrant(did, fee, m)
    /\ DeductFees(payer, fee)
    /\ UNCHANGED <<now, accountStore, drawn>>

-----------------------------------------------------------------------------
FeeInit ==
    /\ now = 0
    /\ grants = [p \in Pair |-> NoGrant] /\ queue = {}
    /\ didGrants = [p \in DidPair |-> NoGrant] /\ didQueue = {}
    /\ balance = [a \in Account |-> Endowment]
    /\ drawn = [p \in DidPair |-> 0]

Nothing == [p \in DidPair |-> 0]

FeeBlock ==
    /\ NextBlock
    /\ drawn' = Nothing
    /\ UNCHANGED balance

FeeRestart ==
    /\ InitGenesis
    /\ UNCHANGED <<balance, drawn>>

AccountMessage ==
    /\ \/ \E p \in Pair, a \in Offered : GrantAllowance(p, a)
       \/ \E p \in Pair : RevokeAllowance(p)
       \/ PruneAllowances
    /\ UNCHANGED <<balance, drawn>>

DidMessage ==
    \/ \E p \in DidPair, a \in DidOffered :
            GrantDIDAllowance(p, a) /\ drawn' = [drawn EXCEPT ![p] = 0] /\ UNCHANGED balance
    \/ \E p \in DidPair : ExpireDIDAllowance(p) /\ UNCHANGED <<balance, drawn>>
    \/ PruneDIDAllowances /\ UNCHANGED <<balance, drawn>>

Pay ==
    \E payer \in Payer, fee \in Fee, m \in Msg :
        \/ \E g \in Account : PayByRelay(payer, g, fee, m)
        \/ \E did \in Did : PayByDID(did, fee, m)
        \/ \E did \in Did \cup {None}, g \in Account : PayByGranter(payer, g, did, fee, m)
        \/ \E did \in Did \cup {None} : PayByPayer(payer, did, fee, m)

FeeNext == FeeBlock \/ FeeRestart \/ AccountMessage \/ DidMessage \/ Pay

FeeSpec == FeeInit /\ [][FeeNext]_feeVars

(* Consensus produces blocks, and every block runs EndBlocker. *)
FeeFairness == WF_feeVars(FeeBlock)
FeeFairSpec == FeeSpec /\ FeeFairness

-----------------------------------------------------------------------------
(* Properties *)

Promise == INSTANCE GrantPromise WITH Holder <- DidPair, held <- didGrants

(* The DID grants, with their queue and its sweeps, keep the promise of a  *)
(* store of grants: no live grant is lost, no expired one is drawn on, and *)
(* a fee is taken from one grant only and within its limits.               *)
DidGrantsKept == Promise!Spec

(* The expiry queue of DID grants holds exactly one entry for each grant   *)
(* that expires, so that the sweep removes each of them and no other,      *)
(* however grants are given, charged, expired, revoked and swept.          *)
DidQueueExact == didQueue = QueueOf(didGrants)

(* The fees drawn from a periodic DID grant in one block stay within twice *)
(* the budget of a period: a period that ended exactly one period ago is   *)
(* reset twice at the same block time.                                     *)
DrawnTwiceAtMost ==
    \A p \in DidPair :
        didGrants[p] # NoGrant /\ didGrants[p].periodic /\ didGrants[p].period > 0
            => drawn[p] <= 2 * didGrants[p].periodLimit

(* An account that signs no transaction is charged only under a grant of   *)
(* its own that has not expired and has room for the fee.                  *)
ChargedUnderGrant ==
    [][\A a \in Account \ Payer :
          balance'[a] < balance[a] =>
            LET paid == balance[a] - balance'[a]
                covers(g) == /\ g # NoGrant /\ ~ Expired(g, now)
                             /\ g.limit # None => paid <= g.limit
            IN  \/ \E b \in Payer : covers(grants[<<a, b>>])
                \/ \E d \in Did : covers(didGrants[<<a, d>>])]_feeVars

(* A DID grant that has expired is removed, even when more of them expire  *)
(* at once than one sweep takes, unless grants are cut again and again to  *)
(* an end that is past already, which puts them ahead of it in the queue.  *)
CutToThePast == \E p \in DidPair : ExpireDIDAllowance(p) /\ didGrants'[p].exp < now
ExpiredRemoved ==
    \/ []<><<CutToThePast>>_feeVars
    \/ \A p \in DidPair :
          (didGrants[p] # NoGrant /\ Expired(didGrants[p], now))
              ~> (didGrants[p] = NoGrant \/ ~ Expired(didGrants[p], now))
=============================================================================
