-------------------------- MODULE TierSubscription --------------------------
(***************************************************************************)
(* Developers and their subscribers in x/tier, on top of the lockups: a    *)
(* developer promises credits to DIDs, which may pay fees with them        *)
(* through the DID grants of x/feegrant, and locks more stake when its     *)
(* credits do not cover what it promised.                                  *)
(*                                                                         *)
(* The fees of a DID are paid from the developer's credits by the fee      *)
(* handler (FeeSource); account grants are left out here.                  *)
(***************************************************************************)
EXTENDS Tier

CONSTANTS
    Developer,         \* delegators that may register as developers
    Did,               \* DIDs of users
    Subscribed,        \* credit amounts of a subscription
    Period,            \* periods of a subscription; 0 for the epoch duration
    Fee,               \* fees that a DID may pay
    Msg, NoGrant, SweepLimit,
    NoSub,             \* no subscription
    MaxMessages        \* bound on the number of messages

VARIABLES
    auto,              \* auto-lock setting of every developer, or NoDeveloper
    subs,              \* subscriptions by <<developer, DID>>, or NoSub
    granted,           \* TotalDevGranted
    todo,              \* developers that checkDeveloperCredits has yet to see
    didGrants, didQueue,
    sent               \* number of messages so far

devs == <<auto, subs, granted, todo, didGrants, didQueue>>
vars == <<tierVars, devs, sent>>

NoDeveloper == "none"
Subscription == Del \X Did

Ante == INSTANCE FeeSource WITH
    Account <- Del, Offered <- {}, DidOffered <- {}, PruneLimit <- 1, balance <- credit,
    grants <- [p \in Del \X Del |-> NoGrant], queue <- {}

ASSUME SubscriptionAssumption ==
    /\ Developer \subseteq Del /\ IsFiniteSet(Did) /\ Did \subseteq Nat
    /\ Subscribed \subseteq Nat /\ Period \subseteq Nat /\ Fee \subseteq Nat
    /\ NoSub \notin [amount : Nat, period : Nat]

Init ==
    /\ TierInit
    /\ auto = [d \in Del |-> NoDeveloper]
    /\ subs = [p \in Subscription |-> NoSub]
    /\ granted = [d \in Del |-> 0] /\ todo = {} /\ sent = 0
    /\ didGrants = [p \in Subscription |-> NoGrant] /\ didQueue = {}

SubsOf(d) == {p \in {d} \X Did : subs[p] # NoSub}
GrantedFor(ps) == SumFunctionOnSet([p \in ps |-> subs[p].amount], ps)

-----------------------------------------------------------------------------
(* Developers *)

CreateDeveloper(d, on) ==
    /\ Delivering /\ auto[d] = NoDeveloper
    /\ auto' = [auto EXCEPT ![d] = on]
    /\ UNCHANGED <<tierVars, subs, granted, todo, didGrants, didQueue>>

UpdateDeveloper(d, on) ==
    /\ Delivering /\ auto[d] # NoDeveloper
    /\ auto' = [auto EXCEPT ![d] = on]
    /\ UNCHANGED <<tierVars, subs, granted, todo, didGrants, didQueue>>

(* ExpireDIDAllowance for the grants of some subscriptions. *)
ExpireGrants(pairs) ==
    LET Cut(a) == [a EXCEPT !.exp = IF a.periodic THEN a.reset ELSE now]
        live == {p \in pairs : didGrants[p] # NoGrant /\ ~didGrants[p].filtered}
    IN  /\ didGrants' = [p \in Subscription |-> IF p \in live THEN Cut(didGrants[p])
                                                ELSE didGrants[p]]
        /\ didQueue' = (didQueue \ UNION {Ante!Entry(didGrants[p].exp, p) : p \in live})
                          \cup UNION {Ante!Entry(Cut(didGrants[p]).exp, p) : p \in live}

RemoveUserSubscription(p) ==
    /\ Delivering /\ subs[p] # NoSub
    /\ subs[p].amount <= granted[p[1]]
    /\ granted' = [granted EXCEPT ![p[1]] = @ - subs[p].amount]
    /\ subs' = [subs EXCEPT ![p] = NoSub]
    /\ ExpireGrants({p})
    /\ UNCHANGED <<tierVars, auto, todo>>

RemoveOnlyDeveloper(d) ==
    /\ Delivering /\ auto[d] # NoDeveloper
    /\ auto' = [auto EXCEPT ![d] = NoDeveloper]
    /\ UNCHANGED <<tierVars, subs, granted, todo, didGrants, didQueue>>
(* RemoveDeveloper: RemoveUserSubscription for each subscription in turn,  *)
(* passing over those that fail: a subscription is removed when what the   *)
(* ones removed before it have left of TotalDevGranted covers it.          *)
RemovedInTurn(d, removed) ==
    \A p \in SubsOf(d) :
        p \in removed <=> subs[p].amount <= granted[d] - GrantedFor({q \in removed : q[2] < p[2]})
RemoveDeveloper(d) ==
    /\ Delivering /\ auto[d] # NoDeveloper
    /\ auto' = [auto EXCEPT ![d] = NoDeveloper]
    /\ \E removed \in SUBSET SubsOf(d) :
          /\ RemovedInTurn(d, removed)
          /\ granted' = [granted EXCEPT ![d] = @ - GrantedFor(removed)]
          /\ subs' = [p \in Subscription |-> IF p \in removed THEN NoSub ELSE subs[p]]
          /\ ExpireGrants(removed)
    /\ UNCHANGED <<tierVars, todo>>

-----------------------------------------------------------------------------
(* Subscriptions *)

(* grantPeriodicDIDAllowance: the amount of a period is also the limit of  *)
(* the whole allowance.  An existing grant is replaced.                    *)
PeriodicAllowance(amount, period) ==
    LET length == IF period = 0 THEN EpochDuration ELSE period
    IN  [periodic |-> TRUE, filtered |-> FALSE, allowed |-> {}, limit |-> amount,
         exp |-> Ante!None, period |-> length, periodLimit |-> amount,
         canSpend |-> amount, reset |-> now + length]
GrantPeriodicDIDAllowance(p, amount, period) ==
    LET a == PeriodicAllowance(amount, period)
    IN  IF didGrants[p] # NoGrant THEN Ante!UpdateDIDAllowance(p, a)
        ELSE Ante!GrantDIDAllowance(p, a)

(* The validator for a lock on behalf of a developer: that of its largest  *)
(* lockup, or else the first one.                                          *)
LargestLockup(d) ==
    LET own == {v \in Val : lockups[<<d, v>>] # 0}
    IN  IF own = {} THEN Min(Val)
        ELSE CHOOSE v \in own : \A w \in own :
                lockups[<<d, w>>] < lockups[<<d, v>>] \/ (lockups[<<d, w>>] = lockups[<<d, v>>] /\ v <= w)

Available(d) == credit[d] - granted[d]

(* AddUserSubscription: the stake thought to earn the amount, at the rate  *)
(* of the first tier that the amount reaches.                              *)
StakeFor(amount) ==
    LET reached == {i \in 1..Len(Rates) : Rates[i].amount <= amount}
        rate == Rates[IF reached = {} THEN Len(Rates) ELSE Min(reached)].rate
    IN  (amount * 100 + rate - 1) \div rate

(* addLockupForRegistration *)
AddLockupForRegistration(d, required) ==
    LET more == required - Available(d)
    IN  IF more <= 0 THEN UNCHANGED <<records, credits, coins, staking>>
        ELSE Lock(d, LargestLockup(d), more)

AddUserSubscription(p, amount, period) ==
    LET d == p[1]
    IN  /\ Delivering /\ subs[p] = NoSub /\ auto[d] # NoDeveloper
        /\ IF Available(d) >= amount THEN UNCHANGED <<records, credits, coins, staking>>
           ELSE auto[d] = "on" /\ AddLockupForRegistration(d, StakeFor(amount))
        /\ subs' = [subs EXCEPT ![p] = [amount |-> amount, period |-> period]]
        /\ GrantPeriodicDIDAllowance(p, amount, period)
        /\ granted' = [granted EXCEPT ![d] = @ + amount]
        /\ UNCHANGED <<clock, auto, todo>>

Regranted(p, amount) == granted[p[1]] + amount - subs[p].amount
UpdateUserSubscription(p, amount, period) ==
    /\ Delivering /\ subs[p] # NoSub
    /\ Regranted(p, amount) >= 0
    /\ granted' = [granted EXCEPT ![p[1]] = Regranted(p, amount)]
    /\ subs' = [subs EXCEPT ![p] = [amount |-> amount, period |-> period]]
    /\ GrantPeriodicDIDAllowance(p, amount, period)
    /\ UNCHANGED <<tierVars, auto, todo>>

(* A DID pays a fee from a grant of a developer (external to x/tier). *)
PayFee(did, fee) ==
    /\ Delivering
    /\ \E g \in Del, m \in Msg : Ante!UseDIDGrant(g, did, fee, m) /\ Ante!DeductFees(g, fee)
    /\ UNCHANGED <<clock, records, totalCredit, coins, staking, auto, subs, granted, todo>>

-----------------------------------------------------------------------------
(* Epoch start: checkDeveloperCredits after the credits have been reset. *)

StartEpoch == ResetCredits /\ todo' = {d \in Del : SubsOf(d) # {}}
                           /\ UNCHANGED <<auto, subs, granted, didGrants, didQueue>>

(* What a developer with subscriptions lacks, if it is to be locked. *)
Missing(d) == granted[d] - credit[d]
AutoLocks(d) == Missing(d) > 0 /\ auto[d] = "on" /\ Missing(d) <= wallet[d]

(* autoLockDeveloperCredits.  The error of a lock that earns no credit is  *)
(* only reported, and the coins that it has staked already stay so.        *)
AutoLock(d) ==
    LET v == LargestLockup(d)
    IN  \/ Lock(d, v, Missing(d))
        \/ /\ ProratedCredit(d, Missing(d)) <= 0
           /\ wallet' = [wallet EXCEPT ![d] = @ - Missing(d)]
           /\ stake' = [stake EXCEPT ![v] = @ + Missing(d)]
           /\ UNCHANGED <<records, credits, module, pool, others, ubd, redels, bonded, uneven, unseen, rounding>>

CheckDeveloper ==
    \E d \in todo :
        /\ phase = "check" /\ d = Min(todo)
        /\ todo' = todo \ {d}
        /\ IF AutoLocks(d) THEN AutoLock(d) ELSE UNCHANGED <<records, credits, coins, staking>>
        /\ UNCHANGED <<clock, auto, subs, granted, didGrants, didQueue>>

EpochStarted ==
    /\ phase = "check" /\ todo = {}
    /\ phase' = "slash"
    /\ UNCHANGED <<now, height, epoch, event, slashes, restarts, records, credits, coins, staking, devs>>

(* EndBlocker of staking and of x/feegrant. *)
EndBlock ==
    /\ phase = "deliver" /\ phase' = "begin"
    /\ StakingEndBlocker /\ Ante!RemoveExpiredDIDAllowances(SweepLimit)
    /\ UNCHANGED <<now, height, epoch, event, slashes, restarts, records, credits, wallet, pool>>
    /\ UNCHANGED <<auto, subs, granted, todo>>

(* ExportGenesis and InitGenesis of x/tier, x/epochs and x/feegrant: what  *)
(* a developer has granted is not exported.                                *)
Restart ==
    /\ TierGenesis /\ Ante!InitGenesis
    /\ granted' = [d \in Del |-> 0]
    /\ UNCHANGED <<auto, subs, todo, sent>>

-----------------------------------------------------------------------------
LockMessage ==
    /\ \/ \E d \in Del, a \in Amount :
              \/ MsgLockAuto(d, a)
              \/ \E v \in Val : MsgLock(d, v, a) \/ Unlock(d, v, a)
              \/ \E v, w \in Val : Redelegate(d, v, w, a)
              \/ \E v \in Val, h \in 1..height : CancelUnlocking(d, v, h, a)
       \/ \E v \in Val : Unjail(v)
    /\ UNCHANGED devs

DeveloperMessage ==
    \/ \E d \in Developer :
          \/ \E on \in {"on", "off"} : CreateDeveloper(d, on) \/ UpdateDeveloper(d, on)
          \/ RemoveDeveloper(d)
    \/ \E p \in Subscription :
          \/ RemoveUserSubscription(p)
          \/ \E a \in Subscribed, t \in Period :
                 AddUserSubscription(p, a, t) \/ UpdateUserSubscription(p, a, t)
    \/ \E did \in Did, fee \in Fee : PayFee(did, fee)

Message ==
    /\ sent < MaxMessages /\ sent' = sent + 1
    /\ LockMessage \/ DeveloperMessage

BlockStep ==
    /\ \/ EndBlock \/ StartEpoch \/ CheckDeveloper \/ EpochStarted
       \/ /\ StartBlock \/ NoTick \/ StartCounting \/ EndEpoch \/ ResetFails
             \/ HandleSlashingEvents \/ ProcessRewards
          /\ UNCHANGED devs
    /\ UNCHANGED sent

Next == Message \/ BlockStep \/ Restart

Spec == Init /\ [][Next]_vars

-----------------------------------------------------------------------------
(* Properties *)

GrantedBy(d) == GrantedFor(SubsOf(d))

(* The running totals are the sums they stand for: TotalLockupsAmount of   *)
(* the lockups, however they are added, moved, unlocked, cancelled,        *)
(* slashed and imported, and TotalDevGranted of the subscriptions of the   *)
(* developer, until an import, since it is not exported.                   *)
TotalsAreSums ==
    /\ total = SumFunctionOnSet(lockups, Pair)
    /\ restarts = 0 => \A d \in Del : granted[d] = GrantedBy(d)

(* The coins, lockups and unlocking lockups of a delegator are together    *)
(* never worth more than what it began with: the module account, its       *)
(* unbonding entries and its delegations are shared by all delegators, but *)
(* none gets at what belongs to another.                                   *)
NobodyGains == \A d \in Del : Worth(d) <= Funds

(* What a delegator has shrinks only after a slash, when a second Unlock   *)
(* in the same block replaces the record of the first (SetUnlockingLockup  *)
(* is keyed by height), or when an automatic lock fails after its coins    *)
(* were staked; no payout, cancellation, redelegation, late epoch or       *)
(* import takes anything.                                                  *)
LossesExplained ==
    [][\A d \in Del : Worth(d)' < Worth(d) =>
          \/ slashes > 0
          \/ phase = "deliver" /\ \E u \in unlocking : u.del = d /\ u.height = height
          \/ phase = "check" /\ ProratedCredit(d, Missing(d)) <= 0]_vars

(* What the module owes is backed. While messages are delivered, the       *)
(* lockups with a validator are backed by the delegation of the module, so *)
(* that each of them can be unlocked, as long as handleSlashingEvents has  *)
(* seen what slashes took from it: it misses a slash whose event does not  *)
(* name the operator (LockupsReflectSlash), what a slash takes from a      *)
(* delegation because of a redelegation, and one that leaves no token.     *)
(* A redelegation from a slashed validator may stake one token less than   *)
(* Redelegate records (rounding). Without slashing, what is being unlocked *)
(* is backed by the unbonding entries and the coins of the module account. *)
OwedIsBacked ==
    /\ phase = "deliver" => \A v \in Val \ unseen : LockedWith(v) <= stake[v] + rounding[v]
    /\ slashes = 0 => AmountOf(unlocking) <= module + SumFunctionOnSet([v \in Val |-> UnbondingWith(v)], Val)

(* "existing lockup records are updated to reflect changes after slashing" *)
(* (handleSlashingEvents): once the event of a slash has been handled, no  *)
(* more is locked with the validator than is left of the delegation.       *)
LockupsReflectSlash ==
    phase = "rewards" /\ event.burned > 0 =>
        LockedWith(event.val) <= stake[event.val] + rounding[event.val]

(* Nothing is left behind: RemoveDeveloper removes the subscriptions of    *)
(* the developer with it, until an import, and a grant to a DID that       *)
(* outlives its subscription has an expiry.                                *)
NothingOrphaned ==
    /\ restarts = 0 => \A d \in Del : SubsOf(d) # {} => auto[d] # NoDeveloper
    /\ \A q \in Subscription :
          subs[q] = NoSub /\ didGrants[q] # NoGrant => didGrants[q].exp # Ante!None

(* Without slashing, the end of an epoch pays every record that is due,    *)
(* also the ones of others that share the module account, unless an        *)
(* unbonding entry matures in this very block: the module account gets     *)
(* those coins only at its end.                                            *)
DuePaid ==
    [][epoch'.epoch > epoch.epoch /\ epoch.started =>
          \A u \in unlocking :
              /\ slashes = 0 /\ u.completion <= now /\ u.unlock <= now
              /\ \A v \in Val : Matured(v) = {}
              => u \notin unlocking' /\ wallet'[u.del] > wallet[u.del]]_vars

(* calculateCredit pays for every unit of a lock once, at the rate of its  *)
(* tier, wherever in the tiers the lockups of a delegator have got to.     *)
PaysEachUnitOnce ==
    \A d \in Del, a \in Amount :
        LET held == LockedBy(d) + InsuredBy(d)
        IN  CalculateCredit(Rates, held, a) = CreditByTier(held, held + a)
=============================================================================
