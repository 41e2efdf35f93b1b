-------------------------------- MODULE Tier --------------------------------
(***************************************************************************)
(* Lockups of x/tier: delegators lock stake through the module account,    *)
(* which delegates it to validators, and earn credits for it; unlocking,   *)
(* redelegating and cancelling; the epoch hooks; slashing and rewards.     *)
(*                                                                         *)
(* A block runs in phases.  EndBlocker of staking comes first ("deliver"   *)
(* to "begin"), then the next block starts ("begin" to "epochs"), maybe    *)
(* with a slash; x/epochs calls the hooks ("epochs", "start", "check"),    *)
(* x/tier handles the slash ("slash") and the rewards ("rewards"), and     *)
(* messages are delivered again.  A message that fails is rolled back.     *)
(*                                                                         *)
(* The staking module is external.  Its delegations are counted in tokens; *)
(* shares show only in that a slashed validator may return one token less  *)
(* than was asked for.  Addresses are natural numbers in key order.        *)
(***************************************************************************)
EXTENDS EpochInfo, TierCredit, FiniteSets, FiniteSetsExt

CONSTANTS
    Del,               \* delegators
    Val,               \* validators
    Amount,            \* amounts a message may name
    Funds,             \* coins of every delegator at first
    PoolFunds,         \* coins of the insurance pool at first
    OtherStake,        \* stake of others with every validator at first
    Rates,             \* RewardRates
    EpochDuration, UnlockingEpochs, RewardsInterval,
    DeveloperPoolFee, InsurancePoolFee, InsurancePoolThreshold,
    UnbondingTime,     \* staking: time until an unbonding entry matures
    MaxEntries,        \* staking: unbonding entries of a delegator with a validator
    Rewards,           \* staking rewards that may have accrued with a validator
    Slash,             \* what may be slashed of a stake, as <<numerator, denominator>>
    EventAddress,      \* forms of the address in a slash event: "operator", "consensus"
    MaxFaults,         \* bound on the number of slashes and imports
    DecUnit,           \* one, in the units of the decimals (10^18 in the code)
    Halt,              \* times between two blocks
    LastMessage,       \* bound: no message is delivered after this time
    MaxTime            \* bound on block time

VARIABLES
    now, height, phase,
    epoch,             \* the tier's timer
    event,             \* slash event of this block, or NoEvent
    slashes, restarts, \* numbers of slashes and of imports so far
    wallet,            \* coins of every delegator
    module, pool,      \* coins of the module account and of the insurance pool
    lockups, insurance,\* by <<delegator, validator>>, 0 when there is none
    total,             \* TotalLockupsAmount
    unlocking,         \* unlocking lockups
    credit,            \* credits of every delegator
    totalCredit,       \* TotalCreditAmount
    stake, others,     \* tokens of the module and of others with each validator
    ubd, redels,       \* unbonding entries and redelegations of the module
    bonded,            \* bonded validators
    uneven,            \* validators whose shares are not worth one token
    unseen,            \* history: validators that lost stake to a slash the module missed
    rounding           \* history: tokens of lockups that redelegations lost to rounding

clock == <<now, height, phase, epoch, event, slashes, restarts>>
records == <<lockups, insurance, total, unlocking>>
credits == <<credit, totalCredit>>
coins == <<wallet, module, pool>>
staking == <<stake, others, ubd, redels, bonded, uneven, unseen, rounding>>
tierVars == <<clock, records, credits, coins, staking>>

Pair == Del \X Val
NoEvent == [val |-> 0, burned |-> 0, doubleSign |-> FALSE, address |-> "operator"]

ASSUME TierAssumption ==
    /\ IsFiniteSet(Del) /\ Del \subseteq Nat \ {0}
    /\ IsFiniteSet(Val) /\ Val \subseteq Nat \ {0} /\ Val # {}
    /\ Amount \subseteq Nat \ {0} /\ Funds \in Nat /\ PoolFunds \in Nat /\ OtherStake \in Nat
    /\ Rates \in Seq([amount : Nat, rate : Nat \ {0}]) /\ Rates # <<>>
    /\ EpochDuration \in Nat \ {0} /\ UnlockingEpochs \in Nat \ {0}
    /\ RewardsInterval \in Nat \ {0} /\ UnbondingTime \in Nat \ {0}
    /\ DeveloperPoolFee \in Nat /\ InsurancePoolFee \in Nat
    /\ DeveloperPoolFee + InsurancePoolFee <= 100
    /\ Halt \subseteq Nat \ {0} /\ Rewards \subseteq Nat /\ DecUnit \in Nat \ {0}
    /\ \A part \in Slash :
          part[1] \in Nat /\ part[2] \in Nat \ {0} /\ part[1] <= part[2]

AmountOf(us) == SumFunctionOnSet([u \in us |-> u.amount], us)
BalanceOf(es) == SumFunctionOnSet([e \in es |-> e.balance], es)
Delivering == phase = "deliver" /\ now <= LastMessage

TierInit ==
    /\ now = 0 /\ height = 1 /\ phase = "deliver" /\ event = NoEvent
    /\ slashes = 0 /\ restarts = 0
    /\ epoch = AddEpochInfo(Unset, EpochDuration, 0, 1)
    /\ wallet = [d \in Del |-> Funds] /\ module = 0 /\ pool = PoolFunds
    /\ lockups = [p \in Pair |-> 0] /\ insurance = [p \in Pair |-> 0]
    /\ total = 0 /\ unlocking = {}
    /\ credit = [d \in Del |-> 0] /\ totalCredit = 0
    /\ stake = [v \in Val |-> 0] /\ others = [v \in Val |-> OtherStake]
    /\ ubd = [v \in Val |-> {}] /\ redels = {} /\ bonded = Val /\ uneven = {}
    /\ unseen = {} /\ rounding = [v \in Val |-> 0]

-----------------------------------------------------------------------------
(* Lockup records *)

LockedBy(d) == SumFunctionOnSet(lockups, {d} \X Val)
InsuredBy(d) == SumFunctionOnSet(insurance, {d} \X Val)

AddLockupOnly(p, a) ==
    /\ lockups' = [lockups EXCEPT ![p] = @ + a]
    /\ UNCHANGED total
AddLockup(p, a) ==
    /\ lockups' = [lockups EXCEPT ![p] = @ + a]
    /\ total' = total + a

(* What subtractLockup checks: the insured part stays locked. *)
CanSubtract(p, a) == lockups[p] # 0 /\ a + insurance[p] <= lockups[p]

(* SetUnlockingLockup: one record for each delegator, validator, height. *)
KeyOf(u) == <<u.del, u.val, u.height>>
SetUnlocking(u) == {w \in unlocking : KeyOf(w) # KeyOf(u)} \cup {u}

KeptUnlocking(u, a) == unlocking
(* subtractUnlockingLockup *)
LessUnlocking(u, a) ==
    (unlocking \ {u}) \cup (IF a = u.amount THEN {} ELSE {[u EXCEPT !.amount = @ - a]})

(* proratedCredit: what a lock made now earns for the rest of the epoch.   *)
ProratedCredit(d, a) ==
    LET since == IF epoch.started THEN now - epoch.epochStart ELSE epoch.duration
    IN  CalculateProratedCredit(Rates, LockedBy(d) + InsuredBy(d), a, since, epoch.duration)

-----------------------------------------------------------------------------
(* Staking (external) *)

(* Tokens that come back for an amount of tokens taken from a delegation. *)
Returned(v, a) == IF v \in uneven THEN {a - 1, a} ELSE {a}

(* Undelegate merges what is unbonded in one block. *)
Unbonding(v, a) ==
    LET same == {e \in ubd[v] : e.height = height}
        merged == [height |-> height, completion |-> now + UnbondingTime,
                   balance |-> a + BalanceOf(same)]
    IN  [ubd EXCEPT ![v] = (@ \ same) \cup {merged}]

(* BeginRedelegation; what is redelegated in one block is counted together.*)
Redelegating(src, dst, a) ==
    LET same == {r \in redels : r.src = src /\ r.dst = dst /\ r.height = height}
    IN  (redels \ same) \cup
           {[src |-> src, dst |-> dst, height |-> height, completion |-> now + UnbondingTime,
             amount |-> a + AmountOf(same)]}

(* EndBlocker of staking: what has matured goes to the module account. *)
Matured(v) == {e \in ubd[v] : e.completion <= now}
StakingEndBlocker ==
    /\ ubd' = [v \in Val |-> ubd[v] \ Matured(v)]
    /\ module' = module + SumFunctionOnSet([v \in Val |-> BalanceOf(Matured(v))], Val)
    /\ redels' = {r \in redels : r.completion > now}
    /\ UNCHANGED <<stake, others, bonded, uneven, unseen, rounding>>

-----------------------------------------------------------------------------
(* Messages *)

(* Lock, the part that other operations share: coins are staked, credits   *)
(* minted, and the lockup recorded.  A lock that earns no credit fails.    *)
Lock(d, v, a) ==
    LET earned == ProratedCredit(d, a)
    IN  /\ a <= wallet[d] /\ earned > 0
        /\ wallet' = [wallet EXCEPT ![d] = @ - a]
        /\ stake' = [stake EXCEPT ![v] = @ + a]
        /\ credit' = [credit EXCEPT ![d] = @ + earned]
        /\ totalCredit' = totalCredit + earned
        /\ AddLockup(<<d, v>>, a)
        /\ UNCHANGED <<insurance, unlocking, module, pool, others, ubd, redels, bonded, uneven, unseen, rounding>>

(* LockAuto: the validator of the smallest lockup if it is bonded, else    *)
(* the bonded validator with the smallest delegation of the module.        *)
SmallestOf(f, S) == {v \in S : \A w \in S : f[v] < f[w] \/ (f[v] = f[w] /\ v <= w)}
OwnValidator(d) ==
    SmallestOf([v \in Val |-> lockups[<<d, v>>]], {v \in Val : lockups[<<d, v>>] # 0}) \cap bonded
AutoValidator(d) ==
    IF OwnValidator(d) # {} THEN OwnValidator(d) ELSE SmallestOf(stake, bonded)

MsgLock(d, v, a) == Delivering /\ Lock(d, v, a) /\ UNCHANGED clock
MsgLockAuto(d, a) == Delivering /\ (\E v \in AutoValidator(d) : Lock(d, v, a)) /\ UNCHANGED clock

Unlock(d, v, a) ==
    LET p == <<d, v>>
    IN  /\ Delivering /\ CanSubtract(p, a)
        /\ a <= stake[v] /\ Cardinality(ubd[v]) < MaxEntries
        /\ lockups' = [lockups EXCEPT ![p] = @ - a] /\ total' = total - a
        /\ insurance' = IF a = lockups[p] THEN [insurance EXCEPT ![p] = 0] ELSE insurance
        /\ \E back \in Returned(v, a) :
              /\ unlocking' = SetUnlocking(
                     [del |-> d, val |-> v, height |-> height, amount |-> back,
                      completion |-> now + UnbondingTime,
                      unlock |-> now + EpochDuration * UnlockingEpochs])
              /\ ubd' = Unbonding(v, back)
              /\ others' = [others EXCEPT ![v] = @ + (a - back)]
        /\ stake' = [stake EXCEPT ![v] = @ - a]
        /\ UNCHANGED <<clock, credits, coins, redels, bonded, uneven, unseen, rounding>>

SubtractedOnly(p, q, a) == [lockups EXCEPT ![p] = @ - a]
(* A part of a lockup moves to another one. *)
Moved(p, q, a) == [lockups EXCEPT ![p] = @ - a, ![q] = @ + a]

(* The module may not redelegate from a validator that it is still         *)
(* redelegating to.                                                        *)
Redelegate(d, src, dst, a) ==
    LET p == <<d, src>> q == <<d, dst>>
        whole == a = lockups[p]
    IN  /\ Delivering /\ src # dst /\ CanSubtract(p, a)
        /\ a <= stake[src] /\ \A r \in redels : r.dst # src
        /\ lockups' = Moved(p, q, a)
        /\ insurance' = IF whole THEN [insurance EXCEPT ![p] = 0, ![q] = @ + insurance[p]]
                        ELSE insurance
        /\ \E back \in Returned(src, a) :
              /\ stake' = [stake EXCEPT ![src] = @ - a, ![dst] = @ + back]
              /\ others' = [others EXCEPT ![src] = @ + (a - back)]
              /\ rounding' = [rounding EXCEPT ![dst] = @ + (a - back)]
              /\ redels' = Redelegating(src, dst, back)
        /\ UNCHANGED <<clock, credits, coins, total, unlocking, ubd, bonded, uneven, unseen>>

CancelUnlocking(d, v, h, a) ==
    /\ Delivering
    /\ \E e \in ubd[v], u \in unlocking :
          /\ e.height = h /\ e.completion > now /\ a <= e.balance
          /\ KeyOf(u) = <<d, v, h>> /\ a <= u.amount
          /\ ubd' = [ubd EXCEPT ![v] = (@ \ {e}) \cup
                        (IF a = e.balance THEN {} ELSE {[e EXCEPT !.balance = @ - a]})]
          /\ unlocking' = LessUnlocking(u, a)
    /\ stake' = [stake EXCEPT ![v] = @ + a]
    /\ AddLockup(<<d, v>>, a)
    /\ UNCHANGED <<clock, credits, coins, insurance, others, redels, bonded, uneven, unseen, rounding>>

-----------------------------------------------------------------------------
(* Blocks and epochs *)

(* The slashing and evidence modules (external): a part of the stake with  *)
(* the validator is burned, of what was unbonded since the infraction, and *)
(* of what was redelegated since, which is taken from the delegation with  *)
(* the validator it went to.  One event names v, in some form of address.  *)
SlashValidator(v, part, since, doubleSign, address) ==
    LET tokens == stake[v] + others[v]
        burned == (tokens * part[1]) \div part[2]
        kept == (stake[v] * (tokens - burned)) \div tokens
        Cut(e) == IF e.height < since THEN e
                  ELSE [e EXCEPT !.balance = @ - (@ * part[1]) \div part[2]]
        moved == {r \in redels : r.src = v /\ r.height >= since}
        Share(w) == (AmountOf({r \in moved : r.dst = w}) * part[1]) \div part[2]
        Taken(w) == IF Share(w) \in 0 .. stake[w] THEN Share(w) ELSE stake[w]
        left == [w \in Val |-> IF w = v THEN kept ELSE stake[w] - Taken(w)]
    IN  /\ tokens > 0 /\ slashes + restarts < MaxFaults
        /\ stake' = left
        /\ others' = [others EXCEPT ![v] = tokens - burned - kept]
        /\ ubd' = [ubd EXCEPT ![v] = {Cut(e) : e \in @}]
        /\ bonded' = bonded \ {v}
        /\ uneven' = uneven \cup {w \in Val : w = v \/ \E r \in moved : r.dst = w}
        /\ event' = [val |-> v, burned |-> burned, doubleSign |-> doubleSign, address |-> address]
        /\ slashes' = slashes + 1
        /\ unseen' = unseen \cup
              {w \in Val : left[w] < stake[w] /\ (w # v \/ kept = 0 \/ address # "operator")}
        /\ UNCHANGED <<redels, rounding>>

StartBlock ==
    /\ phase = "begin" /\ phase' = "epochs" /\ height' = height + 1
    /\ \E halt \in Halt : now + halt <= MaxTime /\ now' = now + halt
    /\ \/ event' = NoEvent /\ UNCHANGED <<slashes, staking>>
       \/ \E v \in Val, part \in Slash, since \in {0, height}, doubleSign \in BOOLEAN,
             address \in EventAddress : SlashValidator(v, part, since, doubleSign, address)
    /\ UNCHANGED <<epoch, restarts, records, credits, coins>>

(* A jailed validator is bonded again. *)
Unjail(v) ==
    /\ Delivering /\ v \notin bonded
    /\ bonded' = bonded \cup {v}
    /\ UNCHANGED <<clock, records, credits, coins, stake, others, ubd, redels, uneven, unseen, rounding>>

(* BeginBlocker of x/epochs when the tier's timer does not tick. *)
NoTick ==
    /\ phase = "epochs" /\ ~StartsCounting(epoch, now) /\ ~Ends(epoch, now)
    /\ phase' = "slash"
    /\ UNCHANGED <<now, height, epoch, event, slashes, restarts, records, credits, coins, staking>>

StartCounting ==
    /\ phase = "epochs" /\ StartsCounting(epoch, now)
    /\ epoch' = Counting(epoch, height) /\ phase' = "start"
    /\ UNCHANGED <<now, height, event, slashes, restarts, records, credits, coins, staking>>

(* CompleteUnlocking goes through the records in key order and pays those  *)
(* that are due while the module account can: it pays a record that is due *)
(* when what the records before it have left in the account is enough.     *)
KeyBefore(u, w) ==
    \/ u.del < w.del
    \/ u.del = w.del /\ u.val < w.val
    \/ u.del = w.del /\ u.val = w.val /\ u.height < w.height
Due(u) == u.completion <= now /\ u.unlock <= now
PaidBelow(paid) ==
    \A u \in unlocking :
        u \in paid <=> Due(u) /\ u.amount < module - AmountOf({w \in paid : KeyBefore(w, u)})
PaidInOrder(paid) ==
    \A u \in unlocking :
        u \in paid <=> Due(u) /\ u.amount <= module - AmountOf({w \in paid : KeyBefore(w, u)})
CompleteUnlocking ==
    \E paid \in SUBSET unlocking :
        /\ PaidInOrder(paid)
        /\ module' = module - AmountOf(paid)
        /\ unlocking' = unlocking \ paid
        /\ wallet' = [d \in Del |-> wallet[d] + AmountOf({u \in paid : u.del = d})]

(* BeginBlocker of x/epochs at the end of an epoch: AfterEpochEnd, then    *)
(* the timer ticks.                                                        *)
EndEpoch ==
    /\ phase = "epochs" /\ Ends(epoch, now)
    /\ CompleteUnlocking
    /\ epoch' = Tick(epoch, height) /\ phase' = "start"
    /\ UNCHANGED <<now, height, event, slashes, restarts, lockups, insurance, total, credits, pool, staking>>

(* BeforeEpochStart.  burnAllCredits takes the credits of every delegator  *)
(* that has a lockup, and resetAllCredits mints what its lockups earn; a   *)
(* delegator that earns nothing makes the hook fail, which undoes both.    *)
Holders == {d \in Del : \E v \in Val : lockups[<<d, v>>] # 0}
EarnedBy(d) ==
    LET held == {p \in {d} \X Val : lockups[p] # 0}
    IN  CalculateCredit(Rates, 0, SumFunctionOnSet(lockups, held) + SumFunctionOnSet(insurance, held))

ResetCredits ==
    /\ phase = "start" /\ \A d \in Holders : EarnedBy(d) > 0
    /\ credit' = [d \in Del |-> IF d \in Holders THEN EarnedBy(d) ELSE credit[d]]
    /\ totalCredit' = SumFunctionOnSet([d \in Holders |-> EarnedBy(d)], Holders)
    /\ phase' = "check"
    /\ UNCHANGED <<now, height, epoch, event, slashes, restarts, records, coins, staking>>

ResetFails ==
    /\ phase = "start" /\ \E d \in Holders : EarnedBy(d) <= 0
    /\ phase' = "slash"
    /\ UNCHANGED <<now, height, epoch, event, slashes, restarts, records, credits, coins, staking>>

-----------------------------------------------------------------------------
(* Slashing *)

Magnitude(n) == IF n < 0 THEN -n ELSE n
Signed(n, m) == IF n < 0 THEN -m ELSE m
Trunc(n, d) == Signed(n, Magnitude(n) \div d)

(* Quotient of decimals: to the nearest unit, ties to the even one. *)
Quo(n, d) ==
    LET a == Magnitude(n) * DecUnit  q == a \div d  twice == 2 * (a % d)
    IN  Signed(n, IF twice > d \/ (twice = d /\ q % 2 = 1) THEN q + 1 ELSE q)

AdjustNothing(v, rate, coverage) == UNCHANGED records
(* adjustLockups: what a rate leaves of every lockup with v, and what the  *)
(* insurance covers of it.                                                 *)
AdjustLockups(v, rate, coverage) ==
    LET After(p) == Trunc(lockups[p] * rate, DecUnit)
        Hit(p) == p[2] = v /\ lockups[p] # 0 /\ After(p) # lockups[p]
        Covered(p) == insurance[p] + Trunc(lockups[p] * coverage, DecUnit)
        Insured(p) == IF After(p) = 0 THEN 0
                      ELSE IF coverage > 0 THEN Covered(p) ELSE insurance[p]
        hit == {p \in Pair : Hit(p)}
    IN  /\ lockups' = [p \in Pair |-> IF Hit(p) THEN After(p) ELSE lockups[p]]
        /\ insurance' = [p \in Pair |-> IF Hit(p) THEN Insured(p) ELSE insurance[p]]
        /\ total' = total + SumFunctionOnSet([p \in hit |-> After(p) - lockups[p]], hit)
        /\ UNCHANGED unlocking

(* The share of the module, in decimals, of what was burned; the stake is  *)
(* that after the slash.                                                   *)
ShareSlashed(v, burned) ==
    IF stake[v] = 0 THEN 0 ELSE burned * Quo(stake[v], stake[v] + others[v])

(* The handlers give up on an address that ValAddressFromBech32 does not   *)
(* take for that of an operator, on a slash that burned nothing, and when  *)
(* none of it was the module's.                                            *)
NothingToAdjust ==
    event.address = "operator" /\ event.burned > 0 => ShareSlashed(event.val, event.burned) = 0

HandleDoubleSign ==
    LET v == event.val
        share == ShareSlashed(v, event.burned)
    IN  /\ ~NothingToAdjust /\ event.doubleSign
        /\ AdjustLockups(v, Quo(stake[v] * DecUnit - share, stake[v] * DecUnit), 0)
        /\ UNCHANGED <<pool, others>>

(* The insurance pool delegates what it covers to the same validator. *)
HandleMissingSignature ==
    LET v == event.val
        share == (ShareSlashed(v, event.burned) + DecUnit - 1) \div DecUnit
        covered == IF pool < share THEN pool ELSE share
    IN  /\ ~NothingToAdjust /\ ~event.doubleSign
        /\ pool' = pool - covered
        /\ others' = [others EXCEPT ![v] = @ + covered]
        /\ AdjustLockups(v, Quo(stake[v] - share, stake[v]), Quo(covered, stake[v]))

(* handleSlashingEvents; an error is only logged. *)
HandleSlashingEvents ==
    /\ phase = "slash" /\ phase' = "rewards"
    /\ \/ HandleDoubleSign
       \/ HandleMissingSignature
       \/ NothingToAdjust /\ UNCHANGED <<records, pool, others>>
    /\ UNCHANGED <<now, height, epoch, event, slashes, restarts, credits, wallet, module>>
    /\ UNCHANGED <<stake, ubd, redels, bonded, uneven, unseen, rounding>>

-----------------------------------------------------------------------------
(* processRewards: from the rewards of each validator, in key order, a fee *)
(* goes to the insurance pool when that leaves it within its threshold,    *)
(* another one to the developer pool, and the rest is burned.              *)
Insuring(insured, fee) ==
    \A v \in Val : v \in insured <=>
        /\ stake[v] > 0
        /\ pool + SumFunctionOnSet(fee, {w \in insured : w < v}) + fee[v] <= InsurancePoolThreshold
ProcessRewards ==
    /\ phase = "rewards" /\ phase' = "deliver"
    /\ \E rewards \in [Val -> Rewards], insured \in SUBSET Val :
          LET fee == [v \in Val |-> (rewards[v] * InsurancePoolFee) \div 100]
          IN  /\ Insuring(insured, fee)
              /\ pool' = IF height % RewardsInterval # 0 THEN pool
                         ELSE pool + SumFunctionOnSet(fee, insured)
    /\ UNCHANGED <<now, height, epoch, event, slashes, restarts, records, credits, wallet, module, staking>>

-----------------------------------------------------------------------------
(* Genesis: AddLockup for every exported lockup; the total of the credits  *)
(* is not exported.                                                        *)
TierGenesis ==
    /\ phase = "begin" /\ slashes + restarts < MaxFaults
    /\ restarts' = restarts + 1
    /\ total' = SumFunctionOnSet(lockups, Pair)
    /\ totalCredit' = 0
    /\ epoch' = Imported(epoch, height)
    /\ UNCHANGED <<now, height, phase, event, slashes, lockups, insurance, unlocking, credit, coins, staking>>

-----------------------------------------------------------------------------
(* What a delegator has, and what the module holds with a validator. *)
UnlockingOf(d) == AmountOf({u \in unlocking : u.del = d})
Worth(d) == wallet[d] + LockedBy(d) + UnlockingOf(d)
LockedWith(v) == SumFunctionOnSet(lockups, Del \X {v})
UnbondingWith(v) == BalanceOf(ubd[v])

(* The reference for calculateCredit: each unit of stake belongs to the    *)
(* highest tier that lies below it, and each tier pays its rate for its    *)
(* units.                                                                  *)
TierOf(unit) ==
    LET below == {i \in DOMAIN Rates : Rates[i].amount < unit}
    IN  IF below = {} THEN 0 ELSE Min(below)
UnitsIn(i, from, to) == Cardinality({u \in (from + 1)..to : TierOf(u) = i})
CreditByTier(from, to) ==
    SumFunctionOnSet([i \in DOMAIN Rates |-> (UnitsIn(i, from, to) * Rates[i].rate) \div 100],
                     DOMAIN Rates)
=============================================================================
