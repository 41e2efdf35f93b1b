----------------------------- MODULE TierBooks ------------------------------
(***************************************************************************)
(* Proofs about the books of x/tier: what every delegator is worth, the    *)
(* backing of what the module account owes, and its payouts when due.      *)
(***************************************************************************)
EXTENDS TierProofs, TierSteps

-----------------------------------------------------------------------------
(* What a delegator has *)

(* What holds as long as no validator has been slashed.                    *)
SlashFree == slashes = 0 => Unslashed

(* No two records ever have the same key.                                  *)
LEMMA KeysStep ==
    ASSUME AllTypeOK, UniqueKeys, [Next]_vars
    PROVE  UniqueKeys'
<1>0. TierTypeOK
  BY Zenon DEF AllTypeOK
<1>1. ASSUME unlocking' \subseteq unlocking PROVE UniqueKeys'
  BY <1>1, Zenon DEF UniqueKeys
<1>2. ASSUME \/ QuietStep \/ StartBlock \/ EndBlock \/ Restart \/ HandleSlashingEvents
             \/ \E d \in Del, v \in Val : FailedLock(d, v)
             \/ \E d \in Del, v \in Val, a \in Nat : Lock(d, v, a)
             \/ \E d \in Del, v \in Val, w \in Val, a \in Amount : Redelegate(d, v, w, a)
      PROVE  unlocking' \subseteq unlocking
  <2>1. CASE HandleSlashingEvents
    BY <2>1, Zenon DEF HandleSlashingEvents, HandleDoubleSign, HandleMissingSignature, AdjustLockups, records
  <2>2. CASE QuietStep \/ StartBlock \/ EndBlock \/ Restart
    BY <2>2, Zenon DEF QuietStep, StartBlock, EndBlock, Restart, TierGenesis, records
  <2>3. CASE \E d \in Del, v \in Val : FailedLock(d, v)
    BY <2>3, Zenon DEF FailedLock, StakedOnly, records
  <2>4. CASE \E d \in Del, v \in Val, a \in Nat : Lock(d, v, a)
    BY <2>4, Zenon DEF Lock
  <2>5. CASE \E d \in Del, v \in Val, w \in Val, a \in Amount : Redelegate(d, v, w, a)
    <3>1. UNCHANGED unlocking
      BY <2>5, RedelegateFrame, Zenon
    <3> QED
      BY <3>1, Zenon
  <2> QED
    BY <1>2, <2>1, <2>2, <2>3, <2>4, <2>5, Zenon
<1>3. ASSUME EndEpoch PROVE unlocking' \subseteq unlocking
  <2>1. PICK paid : unlocking' = unlocking \ paid
    BY <1>3, Zenon DEF EndEpoch, CompleteUnlocking
  <2> QED
    BY <2>1, Zenon
<1>4. ASSUME NEW d \in Del, NEW v \in Val, NEW a \in Amount, Unlock(d, v, a) PROVE UniqueKeys'
  <2>1. \E back \in Nat : unlocking' = SetUnlocking(UnlockRecord(d, v, back))
    BY <1>0, <1>4, UnlockEffect, Zenon
  <2> QED
    BY <2>1, UnlockKeys, Zenon
<1>5. ASSUME NEW d \in Del, NEW v \in Val, NEW h, NEW a \in Amount, CancelUnlocking(d, v, h, a)
      PROVE  UniqueKeys'
  <2>1. PICK e \in ubd[v], u \in unlocking : Cancelled(d, v, h, a, e, u)
    BY <1>0, <1>5, CancelEffect, Zenon
  <2>2. a \in Nat \ {0} /\ a <= u.amount /\ u \in Unlocking /\ unlocking' = (unlocking \ {u}) \cup Rest(u, a)
    BY <2>1, TierAssumption, Zenon DEF Cancelled
  <2> QED
    BY <2>2, CancelKeys, Zenon
<1> QED
  BY <1>1, <1>2, <1>3, <1>4, <1>5, StepKinds, Zenon

(* A block starts without a slash, or with one that is counted.            *)
LEMMA SlashCounted ==
    ASSUME StartBlock
    PROVE  \/ event' = NoEvent /\ UNCHANGED <<slashes, staking>>
           \/ slashes' = slashes + 1
<1>1. ASSUME NEW v, NEW part, NEW since, NEW doubleSign, NEW address,
             SlashValidator(v, part, since, doubleSign, address)
      PROVE  slashes' = slashes + 1
  BY <1>1, Zenon DEF SlashValidator
<1> QED
  BY <1>1, Zenon DEF StartBlock

(* Only a slash leaves a validator uneven or an event to handle.           *)
LEMMA SlashFreeStep ==
    ASSUME AllTypeOK, SlashFree, [Next]_vars
    PROVE  SlashFree'
<1>1. ASSUME UNCHANGED <<slashes, uneven, event>> PROVE SlashFree'
  BY <1>1, Zenon DEF SlashFree, Unslashed
<1>2. ASSUME \/ QuietStep \/ EndEpoch \/ EndBlock \/ Restart \/ HandleSlashingEvents
             \/ \E d \in Del, v \in Val : FailedLock(d, v)
             \/ \E d \in Del, v \in Val, a \in Nat : Lock(d, v, a) /\ UNCHANGED clock
      PROVE  UNCHANGED <<slashes, uneven, event>>
  BY <1>2, Zenon DEF QuietStep, EndEpoch, EndBlock, StakingEndBlocker, Restart, TierGenesis, HandleSlashingEvents,
              FailedLock, StakedOnly, Lock, clock, staking
<1>3. ASSUME \/ \E d \in Del, v \in Val, a \in Amount : Unlock(d, v, a)
             \/ \E d \in Del, v \in Val, w \in Val, a \in Amount : Redelegate(d, v, w, a)
             \/ \E d \in Del, v \in Val, h \in 1..height, a \in Amount : CancelUnlocking(d, v, h, a)
      PROVE  UNCHANGED <<slashes, uneven, event>>
  <2>1. Frame
    BY <1>3, UnlockFrame, RedelegateFrame, CancelFrame, Zenon
  <2> QED
    BY <2>1, Zenon DEF Frame
<1>4. ASSUME StartBlock PROVE SlashFree'
  <2>1. slashes \in Nat
    BY Zenon DEF AllTypeOK, TierTypeOK, ClockOK
  <2>2. CASE event' = NoEvent /\ UNCHANGED <<slashes, staking>>
    BY <2>2, Zenon DEF SlashFree, Unslashed, NoEvent, staking
  <2>3. CASE slashes' = slashes + 1
    BY <2>1, <2>3 DEF SlashFree
  <2> QED
    BY <1>4, <2>2, <2>3, SlashCounted, Zenon
<1> QED
  BY <1>1, <1>2, <1>3, <1>4, StepKinds, Zenon

(* An automatic lock that fails makes its developer poorer, and nobody     *)
(* else.                                                                   *)
LEMMA FailedLockWorth ==
    ASSUME AllTypeOK, NEW d \in Del, NEW v \in Val, FailedLock(d, v), NEW c \in Del
    PROVE  Worth(c)' <= Worth(c) /\ (c # d => Worth(c)' = Worth(c))
<1>1. /\ Missing(d) \in Nat /\ wallet' = [wallet EXCEPT ![d] = @ - Missing(d)] /\ UNCHANGED <<lockups, unlocking>>
  BY Zenon DEF FailedLock, StakedOnly, records
<1>2. LockedBy(c)' = LockedBy(c) /\ UnlockingOf(c)' = UnlockingOf(c)
  BY <1>1, Zenon DEF LockedBy, UnlockingOf
<1>3. wallet[c] \in Int /\ LockedBy(c) \in Int /\ UnlockingOf(c) \in Nat
  BY WorthInt, Zenon DEF WorthOK, AllTypeOK
<1>4. wallet'[c] <= wallet[c] /\ wallet'[c] \in Int /\ (c # d => wallet'[c] = wallet[c])
  BY <1>1, <1>3 DEF AllTypeOK, TierTypeOK, CoinsOK
<1> QED
  BY <1>2, <1>3, <1>4, SMTT(20) DEF Worth

(* Every step but the handling of a slash: nobody gains, and what somebody *)
(* loses is explained.                                                     *)
LossExplained(c) ==
    \/ slashes > 0
    \/ phase = "deliver" /\ \E u \in unlocking : u.del = c /\ u.height = height
    \/ phase = "check" /\ ProratedCredit(c, Missing(c)) <= 0

(* No step but the handling of a slash makes anybody richer, and each loss *)
(* is explained.                                                           *)
LEMMA WorthStep ==
    ASSUME AllTypeOK, UniqueKeys, SlashFree, [Next]_vars, ~HandleSlashingEvents, NEW c \in Del
    PROVE  Worth(c)' <= Worth(c) /\ (Worth(c)' < Worth(c) => LossExplained(c))
<1>0. TierTypeOK /\ Worth(c) \in Int /\ slashes \in Nat
  BY WorthInt, Zenon DEF WorthOK, AllTypeOK, TierTypeOK, ClockOK
<1>1. ASSUME Worth(c)' = Worth(c) PROVE Worth(c)' <= Worth(c) /\ ~(Worth(c)' < Worth(c))
  BY <1>0, <1>1
<1>2. ASSUME UNCHANGED <<wallet, lockups, unlocking>> PROVE Worth(c)' = Worth(c)
  BY <1>2, Zenon DEF Worth, LockedBy, UnlockingOf
<1>3. ASSUME QuietStep \/ StartBlock \/ EndBlock \/ Restart PROVE UNCHANGED <<wallet, lockups, unlocking>>
  BY <1>3, Zenon DEF QuietStep, StartBlock, EndBlock, Restart, TierGenesis, records, coins
<1>4. ASSUME EndEpoch PROVE Worth(c)' = Worth(c)
  <2>1. CompleteUnlocking /\ UNCHANGED lockups
    BY <1>4, Zenon DEF EndEpoch
  <2> QED
    BY <1>0, <2>1, EpochWorth, Zenon
<1>5. ASSUME NEW d \in Del, NEW v \in Val, NEW a \in Amount, Unlock(d, v, a)
      PROVE  Worth(c)' <= Worth(c) /\ (Worth(c)' < Worth(c) => LossExplained(c))
  <2>1. /\ Worth(c)' <= Worth(c)
        /\ Worth(c)' < Worth(c) => v \in uneven \/ \E u \in unlocking : u.del = c /\ u.height = height
    BY <1>0, <1>5, UnlockWorth, Zenon
  <2>2. phase = "deliver"
    BY <1>5, UnlockFrame, Zenon DEF Frame
  <2>3. v \in uneven => slashes > 0
    BY <1>0 DEF SlashFree, Unslashed
  <2> QED
    BY <2>1, <2>2, <2>3, Zenon DEF LossExplained
<1>6. ASSUME NEW d \in Del, NEW v \in Val, FailedLock(d, v)
      PROVE  Worth(c)' <= Worth(c) /\ (Worth(c)' < Worth(c) => LossExplained(c))
  <2>1. Worth(c)' <= Worth(c) /\ (c # d => Worth(c)' = Worth(c))
    BY <1>6, FailedLockWorth, Zenon
  <2>2. c = d => LossExplained(c)
    BY <1>6, Zenon DEF FailedLock, LossExplained
  <2> QED
    BY <1>1, <2>1, <2>2, Zenon
<1>7. ASSUME NEW d \in Del, NEW v \in Val, NEW a \in Nat, Lock(d, v, a) PROVE Worth(c)' = Worth(c)
  BY <1>0, <1>7, LockWorth, Zenon
<1>8. ASSUME NEW d \in Del, NEW v \in Val, NEW w \in Val, NEW a \in Amount, Redelegate(d, v, w, a)
      PROVE  Worth(c)' = Worth(c)
  BY <1>0, <1>8, MoveWorth, Zenon
<1>9. ASSUME NEW d \in Del, NEW v \in Val, NEW h, NEW a \in Amount, CancelUnlocking(d, v, h, a)
      PROVE  Worth(c)' = Worth(c)
  BY <1>0, <1>9, CancelWorth, Zenon
<1> QED
  BY <1>1, <1>2, <1>3, <1>4, <1>5, <1>6, <1>7, <1>8, <1>9, StepKinds, Zenon

(* Handling without a slash takes nothing.                                 *)
LEMMA HandleNothing ==
    ASSUME AllTypeOK, SlashFree, slashes = 0, HandleSlashingEvents, NEW c \in Del
    PROVE  Worth(c)' = Worth(c)
<1>1. event.burned = 0 /\ NothingToAdjust
  BY DEF SlashFree, Unslashed, NothingToAdjust
<1>2. UNCHANGED <<wallet, lockups, unlocking>>
  <2>1. UNCHANGED records
    BY <1>1, Zenon DEF HandleSlashingEvents, HandleDoubleSign, HandleMissingSignature
  <2> QED
    BY <2>1, Zenon DEF HandleSlashingEvents, records
<1> QED
  BY <1>2, Zenon DEF Worth, LockedBy, UnlockingOf

(* There are no records and no slashes at genesis.                         *)
LEMMA InitKeys == ASSUME Init PROVE UniqueKeys /\ SlashFree
BY Zenon DEF Init, TierInit, UniqueKeys, SlashFree, Unslashed, NoEvent

(* No payout, cancellation, redelegation, late epoch or import takes       *)
(* anything from a delegator, however the messages of the delegators that  *)
(* share the module account are interleaved: what shrinks is explained by  *)
(* a slash, by a record that a second Unlock in the same block replaced,   *)
(* or by an automatic lock that failed after its coins were staked.        *)
THEOREM LossesHaveReasons == Spec => LossesExplained
<1>1. Init => AllTypeOK /\ UniqueKeys /\ SlashFree
  BY InitTypes, InitKeys, Zenon
<1>2. AllTypeOK /\ UniqueKeys /\ SlashFree /\ [Next]_vars => (AllTypeOK /\ UniqueKeys /\ SlashFree)'
  BY TypesStep, KeysStep, SlashFreeStep, Zenon
<1>3. AllTypeOK /\ UniqueKeys /\ SlashFree /\ [Next]_vars =>
        [\A d \in Del : Worth(d)' < Worth(d) =>
           \/ slashes > 0
           \/ phase = "deliver" /\ \E u \in unlocking : u.del = d /\ u.height = height
           \/ phase = "check" /\ ProratedCredit(d, Missing(d)) <= 0]_vars
  <2> SUFFICES ASSUME AllTypeOK, UniqueKeys, SlashFree, [Next]_vars, NEW d \in Del, Worth(d)' < Worth(d)
               PROVE  LossExplained(d)
    BY Zenon DEF LossExplained
  <2>1. CASE ~HandleSlashingEvents
    BY <2>1, WorthStep, Zenon
  <2>2. CASE HandleSlashingEvents
    <3>1. slashes \in Nat /\ Worth(d) \in Int
      BY WorthInt, Zenon DEF WorthOK, AllTypeOK, TierTypeOK, ClockOK
    <3>2. slashes # 0
      BY <2>2, <3>1, HandleNothing
    <3> QED
      BY <3>1, <3>2 DEF LossExplained
  <2> QED
    BY <2>1, <2>2, Zenon
<1> QED
  BY <1>1, <1>2, <1>3, PTL DEF Spec, LossesExplained

(* Every step keeps lockups and insurance from falling below zero.         *)
LEMMA DebtStep ==
    ASSUME AllTypeOK, NoDebt, ModerateEvent, [Next]_vars
    PROVE  NoDebt'
<1>0. TierTypeOK /\ RecordsOK
  BY Zenon DEF AllTypeOK, TierTypeOK
<1>1. ASSUME UNCHANGED <<lockups, insurance>> PROVE NoDebt'
  BY <1>1, Zenon DEF NoDebt
<1>2. ASSUME \/ QuietStep \/ StartBlock \/ EndEpoch \/ EndBlock \/ Restart
             \/ \E d \in Del, v \in Val : FailedLock(d, v)
      PROVE  UNCHANGED <<lockups, insurance>>
  BY <1>2, Zenon DEF QuietStep, StartBlock, EndEpoch, EndBlock, Restart, TierGenesis, FailedLock, StakedOnly, records
<1>3. ASSUME NEW d \in Del, NEW v \in Val, NEW a \in Nat, Lock(d, v, a) PROVE NoDebt'
  <2>1. Shift(<<d, v>>, a) /\ UNCHANGED insurance
    BY <1>3, LockShift, Zenon DEF Lock
  <2> QED
    BY <1>0, <2>1, DebtShift, Zenon
<1>4. ASSUME NEW d \in Del, NEW v \in Val, NEW h, NEW a \in Amount, CancelUnlocking(d, v, h, a)
      PROVE  NoDebt'
  <2>1. Shift(<<d, v>>, a) /\ a \in Nat
    BY <1>4, CancelShift, TierAssumption, Zenon
  <2>2. UNCHANGED insurance
    BY <1>4, Zenon DEF CancelUnlocking
  <2> QED
    BY <1>0, <2>1, <2>2, DebtShift, Zenon
<1> QED
  BY <1>0, <1>1, <1>2, <1>3, <1>4, DebtUnlock, DebtMove, HandleModerately, StepKinds, Zenon

(* A slash that waits to be handled burned at most half of what is left.   *)
LEMMA ModerateStep ==
    ASSUME ModerateSlashes, AllTypeOK, ModerateEvent, [Next]_vars
    PROVE  ModerateEvent'
<1>0. TierTypeOK
  BY Zenon DEF AllTypeOK
<1>1. ASSUME ~Handling' PROVE ModerateEvent'
  BY <1>1, Zenon DEF ModerateEvent
<1>2. ASSUME Handling' => Handling, UNCHANGED <<event, stake, others>> PROVE ModerateEvent'
  BY <1>2, Zenon DEF ModerateEvent
<1>3. ASSUME NEW v \in Val, NEW a \in Nat, stake' = [stake EXCEPT ![v] = @ + a], UNCHANGED <<clock, others>>
      PROVE  ModerateEvent'
  <2>1. UNCHANGED <<event, phase, others>>
    BY <1>3, Zenon DEF clock
  <2>2. \A w \in Val : stake'[w] \in Nat /\ stake'[w] >= stake[w] /\ others[w] \in Nat /\ stake[w] \in Nat
    BY <1>0, <1>3 DEF TierTypeOK, StakingOK
  <2>3. event.burned > 0 => event.val \in Val
    BY <1>0, Zenon DEF TierTypeOK, ClockOK
  <2>4. event.burned \in Nat
    BY <1>0, Zenon DEF TierTypeOK, ClockOK
  <2> QED
    BY <2>1, <2>2, <2>3, <2>4, SMTT(20) DEF ModerateEvent, Handling
<1>4. ASSUME \/ \E d \in Del, v \in Val : FailedLock(d, v)
             \/ \E d \in Del, v \in Val, a \in Nat : Lock(d, v, a) /\ UNCHANGED clock
      PROVE  ModerateEvent'
  <2>1. \E v \in Val, a \in Nat : stake' = [stake EXCEPT ![v] = @ + a] /\ UNCHANGED <<clock, others>>
    BY <1>4, Zenon DEF FailedLock, StakedOnly, Lock
  <2> QED
    BY <1>3, <2>1, Zenon
<1>5. ASSUME \/ \E d \in Del, v \in Val, a \in Amount : Unlock(d, v, a)
             \/ \E d \in Del, v \in Val, w \in Val, a \in Amount : Redelegate(d, v, w, a)
             \/ \E d \in Del, v \in Val, h \in 1..height, a \in Amount : CancelUnlocking(d, v, h, a)
      PROVE  ~Handling'
  <2>1. Frame
    BY <1>5, UnlockFrame, RedelegateFrame, CancelFrame, Zenon
  <2> QED
    BY <2>1, Zenon DEF Frame, Handling
<1>6. ASSUME HandleSlashingEvents \/ EndBlock PROVE ~Handling'
  BY <1>6, Zenon DEF HandleSlashingEvents, EndBlock, Handling
<1>7. ASSUME QuietStep \/ Restart \/ EndEpoch PROVE (Handling' => Handling) /\ UNCHANGED <<event, stake, others>>
  BY <1>7, Zenon DEF QuietStep, Restart, TierGenesis, EndEpoch, Handling, staking
<1> QED
  BY <1>0, <1>1, <1>2, <1>4, <1>5, <1>6, <1>7, SlashModerately, StepKinds, Zenon

(* No step makes anybody richer than at genesis.                           *)
LEMMA GainStep ==
    ASSUME AllTypeOK, UniqueKeys, SlashFree, NoDebt, ModerateEvent, NobodyGains, [Next]_vars
    PROVE  NobodyGains'
<1> SUFFICES ASSUME NEW d \in Del PROVE Worth(d)' <= Funds
  BY Zenon DEF NobodyGains
<1>1. Worth(d)' <= Worth(d)
  BY WorthStep, HandleModerately, Zenon DEF AllTypeOK
<1>2. Worth(d) \in Int /\ Worth(d)' \in Int /\ Funds \in Nat
  BY WorthInt, WorthIntNext, TypesStep, TierAssumption, Zenon DEF WorthOK, AllTypeOK
<1> QED
  BY <1>1, <1>2 DEF NobodyGains

(* At genesis everybody has the same funds.                                *)
LEMMA InitGain == ASSUME Init PROVE NoDebt /\ ModerateEvent /\ NobodyGains
<1>1. TierInit
  BY Zenon DEF Init
<1>2. NoDebt /\ ModerateEvent
  BY <1>1 DEF TierInit, NoDebt, ModerateEvent, NoEvent
<1>3. ASSUME NEW d \in Del PROVE Worth(d) <= Funds
  <2>1. LockedBy(d) = 0
    <3> DEFINE S == {d} \X Val
    <3>1. S \subseteq Pair
      BY Zenon DEF Pair
    <3>2. IsFiniteSet(S) /\ \A p \in S : lockups[p] = 0
      BY <1>1, <3>1, PairsFinite, FS_Subset, Zenon DEF TierInit
    <3> HIDE DEF S
    <3>3. SumFunctionOnSet(lockups, S) = 0
      BY <3>2, SumZero, Zenon
    <3> QED
      BY <3>3, Zenon DEF LockedBy, S
  <2>2. UnlockingOf(d) = 0
    <3>1. {u \in unlocking : u.del = d} = {}
      BY <1>1, Zenon DEF TierInit
    <3> QED
      BY <3>1, SumEmpty, Zenon DEF UnlockingOf, AmountOf
  <2>3. wallet[d] = Funds /\ Funds \in Nat
    BY <1>1, TierAssumption, Zenon DEF TierInit
  <2> QED
    BY <2>1, <2>2, <2>3 DEF Worth
<1> QED
  BY <1>2, <1>3, Zenon DEF NobodyGains

(* Nobody ever has more than they began with, where the fractions that a   *)
(* slash may take are at most a third: the unbonding entries, delegations  *)
(* and coins that x/tier keeps for all delegators together never pay one   *)
(* what belongs to another, through any mix of locks, unlocks,             *)
(* cancellations, redelegations, slashes with and without insurance,       *)
(* payouts and imports.                                                    *)
THEOREM NobodyEverGains == ModerateSlashes => (Spec => []NobodyGains)
<1> DEFINE Inv == AllTypeOK /\ UniqueKeys /\ SlashFree /\ NoDebt /\ ModerateEvent /\ NobodyGains
<1> SUFFICES ASSUME ModerateSlashes PROVE Spec => []NobodyGains
  BY Zenon
<1>1. Init => Inv
  BY InitTypes, InitKeys, InitGain, Zenon
<1>2. Inv /\ [Next]_vars => Inv'
  BY TypesStep, KeysStep, SlashFreeStep, DebtStep, ModerateStep, GainStep, Zenon
<1> QED
  BY <1>1, <1>2, PTL DEF Spec

-----------------------------------------------------------------------------
(* Payouts and new blocks keep what is being unlocked covered *)

(* What is due is open, and paying it takes it from both sides.            *)
LEMMA DueIsOpen == ASSUME Ledger, NEW u \in unlocking, Due(u) PROVE u \in Open
BY Zenon DEF Ledger, RecordsTimed, Due, Open

(* The payouts at the end of an epoch keep the ledger: each takes its      *)
(* amount from the open records and from the module account.               *)
LEMMA EpochLedger ==
    ASSUME TierTypeOK, Ledger, CompleteUnlocking, UNCHANGED <<now, height, ubd>>
    PROVE  Ledger'
<1>1. PICK paid \in SUBSET unlocking :
        PaidInOrder(paid) /\ module' = module - AmountOf(paid) /\ unlocking' = unlocking \ paid
  BY Zenon DEF CompleteUnlocking
<1>2. Recs(unlocking) /\ Recs(paid) /\ AmountOf(paid) \in Nat /\ module \in Int /\ Maturing \in Nat
  BY <1>1, RecsPart, AmountIsSum, MaturingNat, Zenon DEF TierTypeOK, RecordsOK, CoinsOK, Recs
<1>3. EntriesCover'
  <2> SUFFICES ASSUME NEW v \in Val, NEW e \in ubd[v] PROVE AmountOf(RecordsOf(v, e.height)') <= e.balance
    BY Zenon DEF EntriesCover
  <2>1. RecordsOf(v, e.height)' \in SUBSET RecordsOf(v, e.height) /\ Recs(RecordsOf(v, e.height))
    BY <1>1, <1>2, RecsPart, Zenon DEF RecordsOf
  <2>2. /\ AmountOf(RecordsOf(v, e.height)') <= AmountOf(RecordsOf(v, e.height))
        /\ AmountOf(RecordsOf(v, e.height)') \in Nat /\ AmountOf(RecordsOf(v, e.height)) \in Nat
    BY <2>1, AmountPart, RecsPart, AmountIsSum, Zenon
  <2>3. e.balance \in Nat /\ AmountOf(RecordsOf(v, e.height)) <= e.balance
    BY DEF Ledger, EntriesCover, TierTypeOK, StakingOK, Entry
  <2> QED
    BY <2>2, <2>3
<1>4. UniqueEntries' /\ EntriesTimed' /\ RecordsTimed'
  BY <1>1, Zenon DEF Ledger, UniqueEntries, EntriesTimed, RecordsTimed
<1>5. OpenCovered'
  <2>1. paid \subseteq Open /\ Open' = Open \ paid
    BY <1>1, DueIsOpen, Zenon DEF PaidInOrder, Open
  <2>2. Open = Open' \cup paid /\ Open' \cap paid = {} /\ Recs(Open')
    BY <1>2, <2>1, RecsPart, Zenon DEF Open
  <2>3. AmountOf(Open) = AmountOf(Open') + AmountOf(paid) /\ AmountOf(Open') \in Nat
    BY <1>2, <2>2, AmountParts, AmountIsSum, Zenon
  <2>4. Maturing' = Maturing
    BY Zenon DEF Maturing, Matured
  <2>5. AmountOf(Open') <= module' + Maturing'
    BY <1>1, <1>2, <2>3, <2>4 DEF Ledger, OpenCovered
  <2> QED
    BY <2>5, Zenon DEF OpenCovered
<1> QED
  BY <1>3, <1>4, <1>5, Zenon DEF Ledger

(* The end of a block moves what matured to the module account.            *)
LEMMA EndBlockLedger ==
    ASSUME TierTypeOK, Ledger, StakingEndBlocker, UNCHANGED <<now, height, unlocking>>
    PROVE  Ledger'
<1>1. ubd' = [v \in Val |-> ubd[v] \ Matured(v)] /\ module' = module + Maturing
  BY Zenon DEF StakingEndBlocker, Maturing
<1>2. \A v \in Val : ubd'[v] = ubd[v] \ Matured(v)
  BY <1>1, Zenon
<1>3. \A u \in unlocking : u.val \in Val
  BY Zenon DEF TierTypeOK, RecordsOK, Unlocking
<1>4. now \in Nat /\ UnbondingTime \in Nat \ {0}
  BY TierAssumption, Zenon DEF TierTypeOK, ClockOK
<1>5. \A v, h : RecordsOf(v, h)' = RecordsOf(v, h)
  BY Zenon DEF RecordsOf
<1>6. UniqueEntries' /\ EntriesTimed'
  BY <1>2, Zenon DEF Ledger, UniqueEntries, EntriesTimed
<1>7. EntriesCover'
  <2> SUFFICES ASSUME NEW v \in Val, NEW e \in ubd'[v] PROVE AmountOf(RecordsOf(v, e.height)') <= e.balance
    BY Zenon DEF EntriesCover
  <2> QED
    BY <1>2, <1>5, Zenon DEF Ledger, EntriesCover
<1>8. RecordsTimed'
  <2>1. \A v \in Val : \A e \in ubd[v] : e.height = height => e \in ubd'[v]
    BY <1>2, <1>4 DEF Ledger, EntriesTimed, Matured
  <2> QED
    BY <1>2, <1>3, <2>1, SMTT(20) DEF Ledger, RecordsTimed
<1>9. OpenCovered'
  <2>1. Open' = Open
    BY <1>2, <1>3, Zenon DEF Open, Matured
  <2>2. ASSUME NEW v \in Val PROVE Matured(v)' = {}
    BY <1>2, Zenon DEF Matured
  <2>3. Maturing' = 0
    <3>1. BalanceOf({}) = 0
      BY SumEmpty, Zenon DEF BalanceOf
    <3> DEFINE f == [v \in Val |-> BalanceOf(Matured(v)')]
    <3>2. \A v \in Val : f[v] = 0
      BY <2>2, <3>1, Zenon
    <3>3. Maturing' = SumFunctionOnSet(f, Val)
      BY Zenon DEF Maturing
    <3> HIDE DEF f
    <3> QED
      BY <3>2, <3>3, ValFinite, SumZero, Zenon
  <2>4. module \in Int /\ Maturing \in Nat
    BY MaturingNat, Zenon DEF TierTypeOK, CoinsOK
  <2>5. AmountOf(Open') <= module' + Maturing'
    BY <1>1, <2>1, <2>3, <2>4 DEF Ledger, OpenCovered
  <2> QED
    BY <2>5, Zenon DEF OpenCovered
<1> QED
  BY <1>6, <1>7, <1>8, <1>9, Zenon DEF Ledger

(* The entries C are the matured ones and those of E.                      *)
MaturedAnd(E, C) ==
    \A v \in Val : /\ C[v] \in SUBSET ubd[v] /\ C[v] = Matured(v) \cup E[v]
                   /\ Matured(v) \cap E[v] = {}

(* The records of S are open or made with an entry of E.                   *)
OpenOrWith(S, E) ==
    /\ S \in SUBSET unlocking
    /\ \A u \in S : u \in Open \/ \E e \in E[u.val] : e.height = u.height

(* The open records and those of further entries are covered by the module *)
(* account, what has matured and the further entries.                      *)
LEMMA OpenWith ==
    ASSUME TierTypeOK, Ledger, NEW E, NEW C, MaturedAnd(E, C), NEW S, OpenOrWith(S, E)
    PROVE  AmountOf(S) <= module + SumFunctionOnSet([v \in Val |-> BalanceOf(C[v])], Val)
<1>a. \A v \in Val : /\ C[v] \in SUBSET ubd[v] /\ C[v] = Matured(v) \cup E[v]
                     /\ Matured(v) \cap E[v] = {}
  BY Zenon DEF MaturedAnd
<1>b. S \in SUBSET unlocking /\ \A u \in S : u \in Open \/ \E e \in E[u.val] : e.height = u.height
  BY Zenon DEF OpenOrWith
<1> DEFINE T == {u \in unlocking : \E e \in E[u.val] : e.height = u.height}
           late == SumFunctionOnSet([v \in Val |-> BalanceOf(E[v])], Val)
           both == SumFunctionOnSet([v \in Val |-> BalanceOf(C[v])], Val)
<1>1. Recs(unlocking)
  BY Zenon DEF TierTypeOK, RecordsOK, Recs
<1>2. Recs(S) /\ Recs(T) /\ Recs(Open) /\ S \in SUBSET (Open \cup T)
  BY <1>1, <1>b, RecsPart, Zenon DEF Open
<1>3. \A v \in Val : E[v] \in SUBSET ubd[v]
  BY <1>a, Zenon
<1>4. AmountOf(T) <= late
  BY <1>3, RecordsCovered, Zenon DEF Ledger, EntriesCover
<1>5. both = Maturing + late
  <2> DEFINE A == [v \in Val |-> Matured(v)]
  <2>1. PartedInto(C, A, E)
    BY <1>a, EntsOf, EntsPart, Zenon DEF PartedInto
  <2>2. SumFunctionOnSet([v \in Val |-> BalanceOf(A[v])], Val) = Maturing
    BY Zenon DEF Maturing
  <2> HIDE DEF A, both, late
  <2>3. both = SumFunctionOnSet([v \in Val |-> BalanceOf(A[v])], Val) + late
    BY <2>1, BalanceParts, Zenon DEF both, late
  <2> QED
    BY <2>2, <2>3, Zenon
<1>6. late \in Nat
  <2> DEFINE f == [v \in Val |-> BalanceOf(E[v])]
  <2>1. \A v \in Val : f[v] \in Nat
    BY <1>3, EntsOf, EntsPart, BalanceIsSum, Zenon
  <2> HIDE DEF f
  <2>2. SumFunctionOnSet(f, Val) \in Nat
    BY <2>1, ValFinite, SumNat, Zenon
  <2> QED
    BY <2>2, Zenon DEF f
<1> HIDE DEF T, late, both
<1>7. AmountOf(S) <= AmountOf(Open \cup T)
  BY <1>2, RecsCup, AmountPart, Zenon
<1>8. AmountOf(Open \cup T) <= AmountOf(Open) + AmountOf(T)
  BY <1>2, AmountCup, Zenon
<1>9. AmountOf(S) \in Nat /\ AmountOf(Open) \in Nat /\ AmountOf(T) \in Nat /\ AmountOf(Open \cup T) \in Nat
  BY <1>2, RecsCup, AmountIsSum, Zenon
<1>10. module \in Int /\ Maturing \in Nat /\ AmountOf(Open) <= module + Maturing
  BY MaturingNat, Zenon DEF TierTypeOK, CoinsOK, Ledger, OpenCovered
<1>11. AmountOf(S) <= module + both
  BY <1>4, <1>5, <1>6, <1>7, <1>8, <1>9, <1>10
<1> QED
  BY <1>11, Zenon DEF both

(* A new block without a slash: what matures with it was covered before.   *)
LEMMA StartBlockLedger ==
    ASSUME TierTypeOK, Ledger, NEW halt \in Nat, now' = now + halt, height' = height + 1,
           UNCHANGED <<unlocking, ubd, module>>
    PROVE  Ledger'
<1>0. now \in Nat /\ height \in Nat
  BY Zenon DEF TierTypeOK, ClockOK
<1>1. UniqueEntries' /\ EntriesCover'
  BY Zenon DEF Ledger, UniqueEntries, EntriesCover, RecordsOf
<1>2. EntriesTimed'
  <2>1. \A v \in Val : \A e \in ubd[v] : e.height \in Nat
    BY DEF TierTypeOK, StakingOK, Entry
  <2> QED
    BY <1>0, <2>1 DEF Ledger, EntriesTimed
<1>3. RecordsTimed'
  <2>1. \A u \in unlocking : u.height \in Nat
    BY Zenon DEF TierTypeOK, RecordsOK, Unlocking
  <2> QED
    BY <1>0, <2>1 DEF Ledger, RecordsTimed
<1>4. OpenCovered'
  <2> DEFINE C == [v \in Val |-> {e \in ubd[v] : e.completion <= now'}]
             E == [v \in Val |-> {e \in ubd[v] : e.completion <= now' /\ ~(e.completion <= now)}]
  <2>1. \A v \in Val : /\ C[v] \in SUBSET ubd[v] /\ C[v] = Matured(v) \cup E[v]
                       /\ Matured(v) \cap E[v] = {}
    <3>1. \A v \in Val : \A e \in ubd[v] : e.completion \in Nat
      BY DEF TierTypeOK, StakingOK, Entry
    <3>2. \A c \in Nat : c <= now => c <= now'
      BY <1>0
    <3> QED
      BY <3>1, <3>2, Zenon DEF Matured
  <2>2. \A u \in Open' : u \in Open \/ \E e \in E[u.val] : e.height = u.height
    <3>1. \A u \in unlocking : u.val \in Val
      BY Zenon DEF TierTypeOK, RecordsOK, Unlocking
    <3> QED
      BY <3>1, Zenon DEF Open
  <2>3. Open' \in SUBSET unlocking
    BY Zenon DEF Open
  <2>4. Maturing' = SumFunctionOnSet([v \in Val |-> BalanceOf(C[v])], Val)
    BY Zenon DEF Maturing, Matured
  <2> DEFINE S == Open'
  <2>5. AmountOf(S) <= module + SumFunctionOnSet([v \in Val |-> BalanceOf(C[v])], Val)
    <3>1. MaturedAnd(E, C)
      BY ONLY <2>1, Zenon DEF MaturedAnd
    <3> HIDE DEF C, E
    <3>2. OpenOrWith(S, E)
      BY <2>2, <2>3, Zenon DEF OpenOrWith
    <3> HIDE DEF S
    <3> QED
      BY <3>1, <3>2, OpenWith, Zenon
  <2>6. AmountOf(Open') <= module' + Maturing'
    BY <2>4, <2>5, Zenon
  <2> QED
    BY <2>6, Zenon DEF OpenCovered
<1> QED
  BY <1>1, <1>2, <1>3, <1>4, Zenon DEF Ledger

(* All that is being unlocked is covered.                                  *)
LEMMA AllCovered ==
    ASSUME TierTypeOK, Ledger
    PROVE  AmountOf(unlocking) <= module + SumFunctionOnSet([v \in Val |-> UnbondingWith(v)], Val)
<1> DEFINE E == [v \in Val |-> ubd[v] \ Matured(v)]
<1>1. \A v \in Val : /\ ubd[v] \in SUBSET ubd[v] /\ ubd[v] = Matured(v) \cup E[v]
                     /\ Matured(v) \cap E[v] = {}
  BY Zenon DEF Matured
<1>2. \A u \in unlocking : u \in Open \/ \E e \in E[u.val] : e.height = u.height
  <2>1. \A u \in unlocking : u.val \in Val
    BY Zenon DEF TierTypeOK, RecordsOK, Unlocking
  <2> QED
    BY <2>1, Zenon DEF Open, Matured
<1> HIDE DEF E
<1>3. MaturedAnd(E, ubd) /\ OpenOrWith(unlocking, E)
  BY <1>1, <1>2, Zenon DEF MaturedAnd, OpenOrWith
<1>4. AmountOf(unlocking) <= module + SumFunctionOnSet([v \in Val |-> BalanceOf(ubd[v])], Val)
  BY <1>3, OpenWith, Zenon
<1> QED
  BY <1>4, Zenon DEF UnbondingWith

(* When nothing matures in this block, what is due is paid.                *)
LEMMA PaysDue ==
    ASSUME TierTypeOK, Ledger, CompleteUnlocking, \A v \in Val : Matured(v) = {},
           NEW u \in unlocking, Due(u)
    PROVE  u \notin unlocking' /\ wallet'[u.del] > wallet[u.del]
<1>1. PICK paid \in SUBSET unlocking :
        /\ PaidInOrder(paid) /\ unlocking' = unlocking \ paid
        /\ wallet' = [d \in Del |-> wallet[d] + AmountOf({w \in paid : w.del = d})]
  BY Zenon DEF CompleteUnlocking
<1>2. Recs(unlocking) /\ Recs(paid) /\ Recs(Open) /\ u \in Unlocking /\ u.amount \in Nat /\ u.amount > 0
  BY <1>1, RecsPart, Zenon DEF TierTypeOK, RecordsOK, Recs, Open, Unlocking, Ledger, RecordsTimed
<1>3. u \in paid
  <2> DEFINE before == {w \in paid : KeyBefore(w, u)}
  <2>1. u \notin before
    <3>1. u.del \in Nat /\ u.val \in Nat /\ u.height \in Nat
      BY <1>2, TierAssumption, Zenon DEF Unlocking
    <3> QED
      BY <3>1 DEF KeyBefore
  <2>2. before \cup {u} \in SUBSET Open
    BY <1>1, DueIsOpen, Zenon DEF PaidInOrder
  <2>3. Recs(before) /\ Recs({u}) /\ AmountOf({u}) = u.amount
    BY <1>2, RecsPart, AmountOne, Zenon
  <2>4. u \in paid <=> Due(u) /\ u.amount <= module - AmountOf(before)
    BY <1>1, Zenon DEF PaidInOrder
  <2>5. Maturing = 0
    <3> DEFINE f == [v \in Val |-> BalanceOf(Matured(v))]
    <3>1. \A v \in Val : f[v] = 0
      BY SumEmpty, Zenon DEF BalanceOf
    <3> HIDE DEF f
    <3>2. SumFunctionOnSet(f, Val) = 0
      BY <3>1, ValFinite, SumZero, Zenon
    <3> QED
      BY <3>2, Zenon DEF Maturing, f
  <2> HIDE DEF before
  <2>6. AmountOf(before \cup {u}) = AmountOf(before) + u.amount
    BY <2>1, <2>3, AmountParts
  <2>7. AmountOf(before \cup {u}) <= AmountOf(Open) /\ AmountOf(Open) <= module
    <3>1. AmountOf(before \cup {u}) <= AmountOf(Open)
      BY <1>2, <2>2, AmountPart, Zenon
    <3>2. module + 0 = module
      BY DEF TierTypeOK, CoinsOK
    <3> QED
      BY <2>5, <3>1, <3>2, Zenon DEF Ledger, OpenCovered
  <2>8. AmountOf(before) \in Nat /\ AmountOf(Open) \in Nat /\ module \in Int
    BY <1>2, <2>3, AmountIsSum, Zenon DEF TierTypeOK, CoinsOK
  <2>9. u.amount <= module - AmountOf(before)
    BY <1>2, <2>6, <2>7, <2>8
  <2> QED
    BY <2>4, <2>9, Zenon
<1>4. wallet'[u.del] > wallet[u.del]
  <2> DEFINE own == {w \in paid : w.del = u.del}
  <2>1. wallet'[u.del] = wallet[u.del] + AmountOf(own) /\ wallet[u.del] \in Int
    BY <1>1, <1>2, Zenon DEF TierTypeOK, CoinsOK, Unlocking
  <2>2. u \in own /\ Recs(own)
    BY <1>2, <1>3, RecsPart, Zenon
  <2> HIDE DEF own
  <2>3. AmountOf(own) = AmountOf(own \ {u}) + u.amount /\ AmountOf(own \ {u}) \in Nat
    BY <2>2, AmountLess, AmountIsSum, Zenon
  <2> QED
    BY <1>2, <2>1, <2>3
<1> QED
  BY <1>1, <1>3, <1>4, Zenon

-----------------------------------------------------------------------------
(* What the module owes *)

(* As long as no validator has been slashed, the books balance.            *)
Books == slashes = 0 => LockedIsStaked /\ Ledger

(* Nothing that the books are about changes.                               *)
LEMMA BooksKept ==
    ASSUME LockedIsStaked, Ledger, UNCHANGED <<now, height, lockups, unlocking, ubd, module, stake>>
    PROVE  LockedIsStaked' /\ Ledger'
<1>1. LockedIsStaked'
  BY Zenon DEF LockedIsStaked, LockedWith
<1>2. Ledger'
  <2>1. UniqueEntries' /\ EntriesCover' /\ EntriesTimed' /\ RecordsTimed'
    BY Zenon DEF Ledger, UniqueEntries, EntriesCover, EntriesTimed, RecordsTimed, RecordsOf
  <2>2. OpenCovered'
    BY Zenon DEF Ledger, OpenCovered, Open, Maturing, Matured
  <2> QED
    BY <2>1, <2>2, Zenon DEF Ledger
<1> QED
  BY <1>1, <1>2, Zenon

(* A lock, or the part of it before it fails, adds to the stake at least   *)
(* what it adds to the lockups.                                            *)
LEMMA BooksLock ==
    ASSUME TierTypeOK, LockedIsStaked, Ledger, NEW d \in Del, NEW v \in Val,
           \/ \E a \in Nat : Lock(d, v, a) /\ UNCHANGED clock
           \/ FailedLock(d, v)
    PROVE  LockedIsStaked' /\ Ledger'
<1>1. UNCHANGED <<now, height, unlocking, ubd, module>>
  BY Zenon DEF Lock, FailedLock, StakedOnly, clock, records
<1>2. Ledger'
  <2>1. UniqueEntries' /\ EntriesCover' /\ EntriesTimed' /\ RecordsTimed'
    BY <1>1, Zenon DEF Ledger, UniqueEntries, EntriesCover, EntriesTimed, RecordsTimed, RecordsOf
  <2>2. OpenCovered'
    BY <1>1, Zenon DEF Ledger, OpenCovered, Open, Maturing, Matured
  <2> QED
    BY <2>1, <2>2, Zenon DEF Ledger
<1>3. ASSUME NEW a \in Nat, Lock(d, v, a) PROVE LockedIsStaked'
  <2>1. Shift(<<d, v>>, a) /\ a \in Int
    BY <1>3, LockShift
  <2>2. stake' = [stake EXCEPT ![v] = @ + a]
    BY <1>3, Zenon DEF Lock
  <2> QED
    BY <2>1, <2>2, StakedShift, Zenon
<1>4. ASSUME FailedLock(d, v) PROVE LockedIsStaked'
  <2>1. PICK a \in Nat : stake' = [stake EXCEPT ![v] = @ + a] /\ UNCHANGED lockups
    BY <1>4, Zenon DEF FailedLock, StakedOnly, records
  <2>2. \A w \in Val : stake'[w] >= stake[w] /\ stake[w] \in Nat /\ stake'[w] \in Nat
    BY <2>1 DEF TierTypeOK, StakingOK
  <2>3. \A w \in Val : LockedWith(w)' = LockedWith(w) /\ LockedWith(w) \in Int
    BY <2>1, LockedInt, Zenon DEF LockedWith, TierTypeOK
  <2> SUFFICES ASSUME NEW w \in Val PROVE LockedWith(w)' <= stake'[w]
    BY Zenon DEF LockedIsStaked
  <2>4. LockedWith(w) <= stake[w]
    BY Zenon DEF LockedIsStaked
  <2>5. LockedWith(w) \in Int /\ LockedWith(w) <= stake'[w]
    <3>1. stake'[w] >= stake[w] /\ stake[w] \in Nat /\ stake'[w] \in Nat /\ LockedWith(w) \in Int
      BY <2>2, <2>3, Zenon
    <3> QED
      BY <2>4, <3>1
  <2> QED
    BY <2>3, <2>5, Zenon
<1> QED
  BY <1>2, <1>3, <1>4, Zenon

(* The messages that change the unbonding entries or the delegations.      *)
LEMMA BooksMessage ==
    ASSUME TierTypeOK, UniqueKeys, uneven = {}, LockedIsStaked, Ledger, NEW d \in Del, NEW v \in Val, NEW a \in Amount,
           \/ Unlock(d, v, a)
           \/ \E w \in Val : Redelegate(d, v, w, a)
           \/ \E h \in 1..height : CancelUnlocking(d, v, h, a)
    PROVE  LockedIsStaked' /\ Ledger'
<1>1. ASSUME NEW w \in Val, Redelegate(d, v, w, a) PROVE LockedIsStaked' /\ Ledger'
  <2>1. UNCHANGED <<now, height, unlocking, ubd, module>>
    BY <1>1, RedelegateFrame, Zenon DEF Frame
  <2>2. UniqueEntries' /\ EntriesCover' /\ EntriesTimed' /\ RecordsTimed'
    BY <2>1, Zenon DEF Ledger, UniqueEntries, EntriesCover, EntriesTimed, RecordsTimed, RecordsOf
  <2>3. OpenCovered'
    BY <2>1, Zenon DEF Ledger, OpenCovered, Open, Maturing, Matured
  <2> QED
    BY <1>1, <2>2, <2>3, StakedMove, Zenon DEF Ledger
<1>2. ASSUME NEW h, CancelUnlocking(d, v, h, a) PROVE LockedIsStaked' /\ Ledger'
  <2>1. Shift(<<d, v>>, a) /\ a \in Int
    BY <1>2, CancelShift, TierAssumption
  <2>2. stake' = [stake EXCEPT ![v] = @ + a]
    BY <1>2, Zenon DEF CancelUnlocking
  <2> QED
    BY <1>2, <2>1, <2>2, StakedShift, CancelLedger, Zenon
<1>3. ASSUME Unlock(d, v, a) PROVE LockedIsStaked' /\ Ledger'
  BY <1>3, StakedUnlock, UnlockLedger, Zenon
<1> QED
  BY <1>1, <1>2, <1>3, Zenon

(* The steps of a block.                                                   *)
LEMMA BooksBlock ==
    ASSUME TierTypeOK, LockedIsStaked, Ledger,
           EndEpoch \/ EndBlock \/ StartBlock, slashes = 0, slashes' = 0
    PROVE  LockedIsStaked' /\ Ledger'
<1>0. ASSUME UNCHANGED <<lockups, stake>> PROVE LockedIsStaked'
  BY <1>0, Zenon DEF LockedIsStaked, LockedWith
<1>1. ASSUME EndEpoch PROVE LockedIsStaked' /\ Ledger'
  <2>1. CompleteUnlocking /\ UNCHANGED <<now, height, ubd, lockups, stake>>
    BY <1>1, Zenon DEF EndEpoch, staking
  <2> QED
    BY <1>0, <2>1, EpochLedger, Zenon
<1>2. ASSUME EndBlock PROVE LockedIsStaked' /\ Ledger'
  <2>1. StakingEndBlocker /\ UNCHANGED <<now, height, unlocking, lockups>>
    BY <1>2, Zenon DEF EndBlock, records
  <2>2. UNCHANGED stake
    BY <2>1, Zenon DEF StakingEndBlocker
  <2> QED
    BY <1>0, <2>1, <2>2, EndBlockLedger, Zenon
<1>3. ASSUME StartBlock PROVE LockedIsStaked' /\ Ledger'
  <2>1. UNCHANGED <<unlocking, lockups, module>> /\ height' = height + 1
    BY <1>3, Zenon DEF StartBlock, records, coins
  <2>2. \E halt \in Nat : now' = now + halt
    BY <1>3, TierAssumption, Zenon DEF StartBlock
  <2>3. UNCHANGED staking
    BY <1>3 DEF StartBlock, SlashValidator
  <2>4. UNCHANGED <<ubd, stake>>
    BY <2>3, Zenon DEF staking
  <2> QED
    BY <1>0, <2>1, <2>2, <2>4, StartBlockLedger, Zenon
<1> QED
  BY <1>1, <1>2, <1>3, Zenon

(* Every step keeps the books.                                             *)
LEMMA BooksStep ==
    ASSUME AllTypeOK, UniqueKeys, SlashFree, Books, [Next]_vars
    PROVE  Books'
<1> SUFFICES ASSUME slashes' = 0 PROVE LockedIsStaked' /\ Ledger'
  BY Zenon DEF Books
<1>0. TierTypeOK
  BY Zenon DEF AllTypeOK
<1>1. slashes = 0
  <2>1. slashes \in Nat
    BY <1>0, Zenon DEF TierTypeOK, ClockOK
  <2>2. UNCHANGED slashes \/ slashes' = slashes + 1
    <3>1. ASSUME \/ QuietStep \/ EndEpoch \/ EndBlock \/ Restart \/ HandleSlashingEvents
                 \/ \E d \in Del, v \in Val : FailedLock(d, v)
                 \/ \E d \in Del, v \in Val, a \in Nat : Lock(d, v, a) /\ UNCHANGED clock
          PROVE  UNCHANGED slashes
      BY <3>1, Zenon DEF QuietStep, EndEpoch, EndBlock, Restart, TierGenesis, HandleSlashingEvents, FailedLock, clock
    <3>2. ASSUME \/ \E d \in Del, v \in Val, a \in Amount : Unlock(d, v, a)
                 \/ \E d \in Del, v \in Val, w \in Val, a \in Amount : Redelegate(d, v, w, a)
                 \/ \E d \in Del, v \in Val, h \in 1..height, a \in Amount : CancelUnlocking(d, v, h, a)
          PROVE  UNCHANGED slashes
      <4>1. Frame
        BY <3>2, UnlockFrame, RedelegateFrame, CancelFrame, Zenon
      <4> QED
        BY <4>1, Zenon DEF Frame
    <3>3. ASSUME StartBlock PROVE UNCHANGED slashes \/ slashes' = slashes + 1
      BY <3>3, SlashCounted, Zenon
    <3> QED
      BY <3>1, <3>2, <3>3, StepKinds, Zenon
  <2> QED
    BY <2>1, <2>2
<1>2. LockedIsStaked /\ Ledger /\ uneven = {} /\ event.burned = 0
  BY <1>1, Zenon DEF Books, SlashFree, Unslashed
<1>3. ASSUME QuietStep \/ Restart \/ HandleSlashingEvents
      PROVE  UNCHANGED <<now, height, lockups, unlocking, ubd, module, stake>>
  <2>1. CASE HandleSlashingEvents
    <3>1. NothingToAdjust
      BY <1>2 DEF NothingToAdjust
    <3>2. UNCHANGED records
      BY <2>1, <3>1, Zenon DEF HandleSlashingEvents, HandleDoubleSign, HandleMissingSignature
    <3> QED
      BY <2>1, <3>2, Zenon DEF HandleSlashingEvents, records
  <2>2. CASE QuietStep \/ Restart
    BY <2>2, Zenon DEF QuietStep, Restart, TierGenesis, records, coins, staking
  <2> QED
    BY <1>3, <2>1, <2>2, Zenon
<1> QED
  BY <1>0, <1>1, <1>2, <1>3, BooksKept, BooksLock, BooksMessage, BooksBlock, StepKinds, Zenon

(* Before the first block there is nothing to cover.                       *)
LEMMA InitBooks == ASSUME Init PROVE Books
<1>1. TierInit
  BY Zenon DEF Init
<1>2. TierTypeOK
  BY InitTypes, Zenon DEF AllTypeOK
<1>3. unlocking = {} /\ \A v \in Val : ubd[v] = {} /\ \A p \in Pair : lockups[p] = 0
  BY <1>1, Zenon DEF TierInit
<1>4. UniqueEntries /\ EntriesCover /\ EntriesTimed /\ RecordsTimed
  BY <1>3, Zenon DEF UniqueEntries, EntriesCover, EntriesTimed, RecordsTimed
<1>5. OpenCovered
  <2>1. Open = {} /\ AmountOf({}) = 0
    BY <1>3, SumEmpty, Zenon DEF Open, AmountOf
  <2>2. Maturing \in Nat /\ module = 0
    BY <1>1, <1>2, MaturingNat, Zenon DEF TierInit
  <2> QED
    BY <2>1, <2>2 DEF OpenCovered
<1>6. LockedIsStaked
  <2> SUFFICES ASSUME NEW v \in Val PROVE LockedWith(v) <= stake[v]
    BY Zenon DEF LockedIsStaked
  <2> DEFINE S == Del \X {v}
  <2>1. S \subseteq Pair
    BY Zenon DEF Pair
  <2>2. IsFiniteSet(S) /\ \A p \in S : lockups[p] = 0
    BY <1>3, <2>1, PairsFinite, FS_Subset, Zenon
  <2> HIDE DEF S
  <2>3. SumFunctionOnSet(lockups, S) = 0
    BY <2>2, SumZero, Zenon
  <2>4. LockedWith(v) = 0 /\ stake[v] \in Nat
    BY <1>2, <2>3, Zenon DEF LockedWith, S, TierTypeOK, StakingOK
  <2> QED
    BY <2>4
<1> QED
  BY <1>4, <1>5, <1>6, Zenon DEF Books, Ledger

(* The invariant of the books.                                             *)
LEMMA BooksInvariant == Spec => [](AllTypeOK /\ UniqueKeys /\ SlashFree /\ Books)
<1> DEFINE Inv == AllTypeOK /\ UniqueKeys /\ SlashFree /\ Books
<1>1. Init => Inv
  BY InitTypes, InitKeys, InitBooks, Zenon
<1>2. Inv /\ [Next]_vars => Inv'
  BY TypesStep, KeysStep, SlashFreeStep, BooksStep, Zenon
<1> QED
  BY <1>1, <1>2, PTL DEF Spec

(* As long as no validator has been slashed, the delegations of the module *)
(* cover the lockups of all delegators with each validator, and the module *)
(* account with the unbonding entries covers every record of unlocking,    *)
(* although the staking module merges the entries of one block, pays them  *)
(* to the one account, and takes cancellations back from entries that      *)
(* several records share.                                                  *)
THEOREM OwedStaysBacked == Spec => [](slashes = 0 => OwedIsBacked)
<1>1. ASSUME AllTypeOK, Books, slashes = 0 PROVE OwedIsBacked
  <2>1. TierTypeOK /\ LockedIsStaked /\ Ledger
    BY <1>1, Zenon DEF AllTypeOK, Books
  <2>2. ASSUME NEW v \in Val PROVE LockedWith(v) <= stake[v] + rounding[v]
    <3>1. LockedWith(v) \in Int /\ stake[v] \in Nat /\ rounding[v] \in Nat /\ LockedWith(v) <= stake[v]
      BY <2>1, LockedInt, Zenon DEF TierTypeOK, StakingOK, LockedIsStaked
    <3> QED
      BY <3>1
  <2> QED
    BY <2>1, <2>2, AllCovered, Zenon DEF OwedIsBacked
<1>2. AllTypeOK /\ Books => (slashes = 0 => OwedIsBacked)
  BY <1>1, Zenon
<1> QED
  BY <1>2, BooksInvariant, PTL

(* Without slashing, the end of an epoch pays every record that is due:    *)
(* no delegator's payout is taken by the records that come before it in    *)
(* the order of the keys, unless an entry matures in this very block.      *)
THEOREM DueIsPaid == Spec => DuePaid
<1>1. ASSUME AllTypeOK, Books, [Next]_vars, epoch'.epoch > epoch.epoch, epoch.started
      PROVE  EndEpoch
  <2>1. epoch.epoch \in Nat
    BY <1>1, Zenon DEF AllTypeOK, TierTypeOK, ClockOK, Timer
  <2>2. epoch'.epoch # epoch.epoch
    BY <1>1, <2>1
  <2>3. ASSUME QuietStep \/ StartBlock \/ HandleSlashingEvents \/ EndBlock PROVE UNCHANGED epoch
    BY <1>1, <2>3, Zenon DEF QuietStep, StartBlock, HandleSlashingEvents, EndBlock
  <2>4. ASSUME \/ \E d \in Del, v \in Val : FailedLock(d, v)
               \/ \E d \in Del, v \in Val, a \in Nat : Lock(d, v, a) /\ UNCHANGED clock
        PROVE  UNCHANGED epoch
    BY <2>4, Zenon DEF FailedLock, clock
  <2>5. ASSUME \/ \E d \in Del, v \in Val, a \in Amount : Unlock(d, v, a)
               \/ \E d \in Del, v \in Val, w \in Val, a \in Amount : Redelegate(d, v, w, a)
               \/ \E d \in Del, v \in Val, h \in 1..height, a \in Amount : CancelUnlocking(d, v, h, a)
        PROVE  UNCHANGED epoch
    <3>1. Frame
      BY <2>5, UnlockFrame, RedelegateFrame, CancelFrame, Zenon
    <3> QED
      BY <3>1, Zenon DEF Frame
  <2>6. ASSUME Restart PROVE epoch'.epoch = epoch.epoch
    BY <1>1, <2>6, Zenon DEF Restart, TierGenesis, Imported, AllTypeOK, TierTypeOK, ClockOK, Timer
  <2> QED
    BY <1>1, <2>2, <2>3, <2>4, <2>5, <2>6, StepKinds, Zenon
<1>2. ASSUME AllTypeOK, Books, EndEpoch, NEW u \in unlocking, slashes = 0,
             u.completion <= now, u.unlock <= now, \A v \in Val : Matured(v) = {}
      PROVE  u \notin unlocking' /\ wallet'[u.del] > wallet[u.del]
  <2>1. TierTypeOK /\ Ledger /\ CompleteUnlocking /\ Due(u)
    BY <1>2, Zenon DEF AllTypeOK, Books, EndEpoch, Due
  <2> QED
    BY <1>2, <2>1, PaysDue, Zenon
<1>3. AllTypeOK /\ Books /\ [Next]_vars =>
        [epoch'.epoch > epoch.epoch /\ epoch.started =>
            \A u \in unlocking :
                /\ slashes = 0 /\ u.completion <= now /\ u.unlock <= now
                /\ \A v \in Val : Matured(v) = {}
                => u \notin unlocking' /\ wallet'[u.del] > wallet[u.del]]_vars
  BY <1>1, <1>2, Zenon
<1> QED
  BY <1>3, BooksInvariant, PTL DEF Spec, DuePaid
=============================================================================
