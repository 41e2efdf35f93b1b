----------------------------- MODULE TierSteps ------------------------------
(***************************************************************************)
(* What the operations of x/tier do, one by one: what they add to the sums *)
(* over lockups, and leave every delegator with; and, as long as no        *)
(* validator is slashed, that the delegations cover the lockups            *)
(* (LockedIsStaked), and the unbonding entries and the module account the  *)
(* records of unlocking (Ledger).                                          *)
(***************************************************************************)
EXTENDS TierTypes

-----------------------------------------------------------------------------
(* The inductive invariants *)

(* A delegator has one record for a validator and a block, and the module  *)
(* one unbonding entry.                                                    *)
UniqueKeys == \A u, w \in unlocking : KeyOf(u) = KeyOf(w) => u = w
UniqueEntries == \A v \in Val : \A e, f \in ubd[v] : e.height = f.height => e = f

(* Until the tier has handled a slash, the burned tokens are at most half  *)
(* of those that are left.                                                 *)
ModerateEvent ==
    Handling /\ event.burned > 0 => 2 * event.burned <= stake[event.val] + others[event.val]
NoDebt == \A p \in Pair : lockups[p] >= 0 /\ insurance[p] >= 0

(* What there is as long as no validator has been slashed.                 *)
Unslashed == uneven = {} /\ event.burned = 0
LockedIsStaked == \A v \in Val : LockedWith(v) <= stake[v]

(* The records of one unbonding entry, and the records whose coins have    *)
(* come back or are about to.                                              *)
RecordsOf(v, h) == {u \in unlocking : u.val = v /\ u.height = h}
Open == {u \in unlocking : \A e \in ubd[u.val] : e.height = u.height => e.completion <= now}
Maturing == SumFunctionOnSet([v \in Val |-> BalanceOf(Matured(v))], Val)

(* Every entry covers its records, and every record that is waiting for    *)
(* one matures with it; the records whose coins are back or about to be    *)
(* are covered by the module account.                                      *)
EntriesCover == \A v \in Val : \A e \in ubd[v] : AmountOf(RecordsOf(v, e.height)) <= e.balance
EntriesTimed ==
    \A v \in Val : \A e \in ubd[v] :
        e.height <= height /\ (e.height = height => e.completion = now + UnbondingTime)
RecordsTimed ==
    \A u \in unlocking :
        /\ u.amount > 0 /\ u.height <= height
        /\ u.height = height => \E e \in ubd[u.val] : e.height = height
        /\ \A e \in ubd[u.val] : e.height = u.height => e.completion = u.completion
OpenCovered == AmountOf(Open) <= module + Maturing
Ledger == UniqueEntries /\ EntriesCover /\ EntriesTimed /\ RecordsTimed /\ OpenCovered

-----------------------------------------------------------------------------
(* What the messages leave alone *)

Frame ==
    /\ phase = "deliver"
    /\ UNCHANGED <<now, height, phase, epoch, event, slashes, restarts, wallet, module, pool, uneven>>

(* What Unlock leaves alone.                                               *)
LEMMA UnlockFrame == ASSUME NEW d, NEW v, NEW a, Unlock(d, v, a) PROVE Frame
BY Zenon DEF Unlock, Delivering, Frame, clock, coins

(* What Redelegate leaves alone.                                           *)
LEMMA RedelegateFrame ==
    ASSUME NEW d, NEW v, NEW w, NEW a, Redelegate(d, v, w, a) PROVE Frame /\ UNCHANGED <<unlocking, ubd>>
<1>1. Delivering /\ UNCHANGED <<clock, credits, coins, total, unlocking, ubd, bonded, uneven>>
  BY Zenon DEF Redelegate
<1> QED
  BY <1>1, Zenon DEF Delivering, Frame, clock, coins

(* What CancelUnlocking leaves alone.                                      *)
LEMMA CancelFrame == ASSUME NEW d, NEW v, NEW h, NEW a, CancelUnlocking(d, v, h, a) PROVE Frame
<1>1. Delivering /\ UNCHANGED <<clock, credits, coins, insurance, others, redels, bonded, uneven, unseen, rounding>>
  BY Zenon DEF CancelUnlocking
<1> QED
  BY <1>1, Zenon DEF Delivering, Frame, clock, coins

-----------------------------------------------------------------------------
(* Sums over the unlocking lockups *)

(* Finitely many records, and their amounts as a function.                 *)
Recs(S) == S \subseteq Unlocking /\ IsFiniteSet(S)
AmountIn == [u \in Unlocking |-> u.amount]

(* A part of such a set of records is one.                                 *)
LEMMA RecsPart == ASSUME NEW S, Recs(S), NEW T \in SUBSET S PROVE Recs(T)
BY FS_Subset, Zenon DEF Recs

(* Two such sets of records together are one.                              *)
LEMMA RecsCup == ASSUME NEW S, Recs(S), NEW T, Recs(T) PROVE Recs(S \cup T)
<1>1. IsFiniteSet(S \cup T)
  BY FS_Union, Zenon DEF Recs
<1> QED
  BY <1>1, Zenon DEF Recs

(* The amount of a set of records as the sum of one function.              *)
LEMMA AmountIsSum ==
    ASSUME NEW S, Recs(S)
    PROVE  /\ AmountOf(S) = SumFunctionOnSet(AmountIn, S) /\ AmountOf(S) \in Nat
           /\ IsFiniteSet(S) /\ \A u \in S : AmountIn[u] \in Nat
<1>1. IsFiniteSet(S) /\ \A u \in S : AmountIn[u] \in Nat /\ [w \in S |-> w.amount][u] = AmountIn[u]
  BY Zenon DEF Recs, AmountIn, Unlocking
<1>2. AmountOf(S) = SumFunctionOnSet(AmountIn, S)
  BY <1>1, SumAgree, Zenon DEF AmountOf
<1> QED
  BY <1>1, <1>2, SumNat, Zenon

(* The amounts of disjoint sets of records add up.                         *)
LEMMA AmountParts ==
    ASSUME NEW S, Recs(S), NEW T, Recs(T), S \cap T = {}
    PROVE  AmountOf(S \cup T) = AmountOf(S) + AmountOf(T)
BY AmountIsSum, RecsCup, SumUnion

(* Two sets of records together amount to no more than each by itself.     *)
LEMMA AmountCup ==
    ASSUME NEW S, Recs(S), NEW T, Recs(T)
    PROVE  AmountOf(S \cup T) <= AmountOf(S) + AmountOf(T)
BY AmountIsSum, RecsCup, SumCup, Zenon

(* A part of a set of records amounts to no more.                          *)
LEMMA AmountPart ==
    ASSUME NEW S, Recs(S), NEW T \in SUBSET S
    PROVE  AmountOf(T) <= AmountOf(S)
BY AmountIsSum, RecsPart, SumSubset, Zenon

(* The amount of a single record.                                          *)
LEMMA AmountOne == ASSUME NEW u \in Unlocking PROVE Recs({u}) /\ AmountOf({u}) = u.amount
<1>1. Recs({u})
  BY FS_Singleton, Zenon DEF Recs
<1>2. Recs({}) /\ u \notin {} /\ {} \cup {u} = {u}
  BY FS_EmptySet, Zenon DEF Recs
<1>3. AmountIn[u] = u.amount /\ u.amount \in Nat
  BY Zenon DEF AmountIn, Unlocking
<1>4. SumFunctionOnSet(AmountIn, {} \cup {u}) = AmountIn[u] + SumFunctionOnSet(AmountIn, {})
  BY <1>2, <1>3, FS_EmptySet, SumAdd
<1>5. AmountOf({u}) = SumFunctionOnSet(AmountIn, {u})
  BY <1>1, AmountIsSum, Zenon
<1> QED
  BY <1>1, <1>2, <1>3, <1>4, <1>5, SumEmpty

(* The amount of a set of records, with one of them taken out.             *)
LEMMA AmountLess ==
    ASSUME NEW S, Recs(S), NEW u \in S
    PROVE  Recs(S \ {u}) /\ AmountOf(S) = AmountOf(S \ {u}) + u.amount /\ u.amount \in Nat
<1>1. Recs(S \ {u}) /\ u \in Unlocking /\ u.amount \in Nat
  BY RecsPart, Zenon DEF Recs, Unlocking
<1>2. S = (S \ {u}) \cup {u} /\ (S \ {u}) \cap {u} = {}
  BY Zenon
<1> QED
  BY <1>1, <1>2, AmountOne, AmountParts, Zenon

-----------------------------------------------------------------------------
(* What a delegator is worth *)

Of(S, d) == {u \in S : u.del = d}

WorthOK ==
    \A d \in Del : wallet[d] \in Int /\ LockedBy(d) \in Int /\ UnlockingOf(d) \in Nat /\ Worth(d) \in Int

(* What a delegator has is a number, in this state and the next.           *)
LEMMA WorthInt == TierTypeOK => WorthOK
<1> SUFFICES ASSUME TierTypeOK, NEW d \in Del
             PROVE  wallet[d] \in Int /\ LockedBy(d) \in Int /\ UnlockingOf(d) \in Nat
  BY DEF Worth, WorthOK
<1>1. Recs(unlocking)
  BY Zenon DEF TierTypeOK, RecordsOK, Recs
<1>2. AmountOf(Of(unlocking, d)) \in Nat
  BY <1>1, RecsPart, AmountIsSum, Zenon DEF Of
<1> QED
  BY <1>2, SumsInt, Zenon DEF TierTypeOK, CoinsOK, UnlockingOf, Of

(* The same in the next state.                                             *)
LEMMA WorthIntNext == TierTypeOK' => WorthOK'
BY WorthInt, PTL

(* The record of an Unlock.                                                *)
UnlockRecord(d, v, back) ==
    [del |-> d, val |-> v, height |-> height, amount |-> back, completion |-> now + UnbondingTime,
     unlock |-> now + EpochDuration * UnlockingEpochs]

(* What Unlock does: the record, the entry and the coins.                  *)
LEMMA UnlockEffect ==
    ASSUME TierTypeOK, NEW d \in Del, NEW v \in Val, NEW a \in Amount, Unlock(d, v, a)
    PROVE  \E back \in Nat :
              /\ back <= a /\ (v \notin uneven => back = a)
              /\ unlocking' = SetUnlocking(UnlockRecord(d, v, back))
              /\ ubd' = Unbonding(v, back)
              /\ UnlockRecord(d, v, back) \in Unlocking
  (* The record that Unlock writes is one.                                   *)
<1>a. ASSUME TierTypeOK, NEW d1 \in Del, NEW v1 \in Val, NEW back \in Nat
      PROVE  UnlockRecord(d1, v1, back) \in Unlocking
  <2> USE <1>a
  <2>1. EpochDuration * UnlockingEpochs \in Nat /\ UnbondingTime \in Nat
    BY TierAssumption
  <2>2. now \in Nat /\ height \in Nat
    BY Zenon DEF TierTypeOK, ClockOK
  <2>3. now + EpochDuration * UnlockingEpochs \in Nat /\ now + UnbondingTime \in Nat
    BY <2>1, <2>2
  <2> QED
    BY <2>2, <2>3, Zenon DEF UnlockRecord, Unlocking
<1>1. PICK back \in Returned(v, a) :
        unlocking' = SetUnlocking(UnlockRecord(d, v, back)) /\ ubd' = Unbonding(v, back)
  BY Zenon DEF Unlock, UnlockRecord
<1>2. a \in Nat \ {0}
  BY TierAssumption, Zenon
<1>3. back \in Nat /\ back <= a /\ (v \notin uneven => back = a)
  BY <1>2 DEF Returned
<1> QED
  BY <1>1, <1>3, <1>a, Zenon

(* An unlock makes nobody richer, and poorer only its delegator: for what  *)
(* the slashed validator does not give back, or for a record of the same   *)
(* block that it replaces.                                                 *)
LEMMA UnlockWorth ==
    ASSUME TierTypeOK, NEW d \in Del, NEW v \in Val, NEW a \in Amount, Unlock(d, v, a), NEW c \in Del
    PROVE  /\ Worth(c)' <= Worth(c)
           /\ Worth(c)' < Worth(c) => v \in uneven \/ \E u \in unlocking : u.del = c /\ u.height = height
  (* The records after an Unlock: for one delegator the new one is added to  *)
  (* those of other validators and heights.                                  *)
<1>a. ASSUME RecordsOK, NEW r \in Unlocking, NEW c1
      PROVE  /\ c1 # r.del => Of(SetUnlocking(r), c1) = Of(unlocking, c1)
             /\ AmountOf(Of(SetUnlocking(r), r.del)) <= AmountOf(Of(unlocking, r.del)) + r.amount
             /\ (\A u \in Of(unlocking, r.del) : u.height # r.height)
                  => AmountOf(Of(SetUnlocking(r), r.del)) = AmountOf(Of(unlocking, r.del)) + r.amount
  <2> USE <1>a
  <2> DEFINE P == Of(unlocking, r.del)
             K == {w \in P : KeyOf(w) # KeyOf(r)}
  <2>1. Recs(P) /\ Recs(K) /\ Recs({r}) /\ K \in SUBSET P /\ AmountOf({r}) = r.amount /\ K \cap {r} = {}
    <3>1. Recs(unlocking)
      BY Zenon DEF RecordsOK, Recs
    <3>2. Recs(P)
      BY <3>1, RecsPart, Zenon DEF Of
    <3>3. Recs(K)
      BY <3>2, RecsPart, Zenon
    <3> QED
      BY <3>2, <3>3, AmountOne, Zenon
  <2>2. Of(SetUnlocking(r), r.del) = K \cup {r}
    BY Zenon DEF Of, SetUnlocking
  <2>3. c1 # r.del => Of(SetUnlocking(r), c1) = Of(unlocking, c1)
    BY Zenon DEF Of, SetUnlocking, KeyOf
  <2>4. (\A u \in P : u.height # r.height) => K = P
    BY Zenon DEF KeyOf
  <2> HIDE DEF K, P
  <2>5. AmountOf(K \cup {r}) = AmountOf(K) + r.amount
    BY <2>1, AmountParts, Zenon
  <2>6. AmountOf(K) <= AmountOf(P) /\ AmountOf(K) \in Nat /\ AmountOf(P) \in Nat /\ r.amount \in Nat
    BY <2>1, AmountPart, AmountIsSum, Zenon DEF Unlocking
  <2> QED
    BY <2>2, <2>3, <2>4, <2>5, <2>6 DEF P
<1>1. PICK back \in Nat :
        /\ back <= a /\ (v \notin uneven => back = a)
        /\ unlocking' = SetUnlocking(UnlockRecord(d, v, back))
        /\ UnlockRecord(d, v, back) \in Unlocking
  BY UnlockEffect, Zenon
<1>2. /\ UnlockRecord(d, v, back).del = d /\ UnlockRecord(d, v, back).height = height
      /\ UnlockRecord(d, v, back).amount = back
  BY Zenon DEF UnlockRecord
<1>3. a \in Nat /\ LockedBy(c)' = LockedBy(c) + (IF c = d THEN -a ELSE 0) /\ UNCHANGED wallet
  <2>1. UNCHANGED wallet
    BY Zenon DEF Unlock, coins
  <2>2. Shift(<<d, v>>, -a) /\ a \in Nat \ {0} /\ RecordsOK
    BY UnlockShift, Zenon DEF TierTypeOK
  <2>3. -a \in Int
    BY <2>2
  <2>4. LockedBy(c)' = LockedBy(c) + (IF c = d THEN -a ELSE 0)
    BY <2>2, <2>3, ShiftSums, Zenon
  <2> QED
    BY <2>1, <2>2, <2>4, Zenon
<1>4. wallet[c] \in Int /\ LockedBy(c) \in Int /\ UnlockingOf(c) \in Nat
  BY WorthInt, Zenon DEF WorthOK
<1>5. CASE c # d
  <2>1. UnlockingOf(c)' = UnlockingOf(c)
    BY <1>1, <1>2, <1>5, <1>a, Zenon DEF TierTypeOK, UnlockingOf, Of
  <2>2. LockedBy(c)' = LockedBy(c) /\ wallet'[c] = wallet[c]
    BY <1>3, <1>4, <1>5
  <2>3. Worth(c)' = Worth(c) /\ Worth(c) \in Int
    BY <1>4, <2>1, <2>2 DEF Worth
  <2> QED
    BY <2>3
<1>6. CASE c = d
  <2>1. /\ UnlockingOf(c)' <= UnlockingOf(c) + back
        /\ (\A u \in unlocking : u.del = c => u.height # height) => UnlockingOf(c)' = UnlockingOf(c) + back
    BY <1>1, <1>2, <1>6, <1>a DEF TierTypeOK, UnlockingOf, Of
  <2>2. UnlockingOf(c)' \in Nat
    <3>1. Recs(unlocking')
      BY UnlockTypes, Zenon DEF TierTypeOK, RecordsOK, Recs
    <3> QED
      BY <3>1, RecsPart, AmountIsSum, Zenon DEF UnlockingOf
  <2>3. LockedBy(c)' = LockedBy(c) - a /\ wallet'[c] = wallet[c]
    BY <1>3, <1>4, <1>6, Zenon
  <2>4. Worth(c)' <= Worth(c) + back - a /\ Worth(c) \in Int /\ Worth(c)' \in Int
    BY <1>3, <1>4, <2>1, <2>2, <2>3 DEF Worth
  <2>5. ASSUME back = a, \A u \in unlocking : u.del = c => u.height # height PROVE Worth(c)' = Worth(c)
    BY <1>3, <1>4, <2>1, <2>2, <2>3, <2>5 DEF Worth
  <2> QED
    BY <1>1, <1>3, <2>4, <2>5
<1> QED
  BY <1>5, <1>6, Zenon

(* What is left of a record of which a part is cancelled.                  *)
Rest(u, a) == IF a = u.amount THEN {} ELSE {[u EXCEPT !.amount = @ - a]}

(* What a cancellation leaves of a record has its key and times, and the   *)
(* rest of its amount.                                                     *)
LEMMA RestOf ==
    ASSUME NEW u \in Unlocking, NEW a \in Nat \ {0}, a <= u.amount
    PROVE  /\ Recs(Rest(u, a)) /\ AmountOf(Rest(u, a)) = u.amount - a
           /\ \A r \in Rest(u, a) : /\ r.del = u.del /\ r.val = u.val /\ r.height = u.height /\ r # u
                                    /\ r.completion = u.completion /\ r.unlock = u.unlock /\ r.amount > 0
<1>0. u.amount \in Nat
  BY Zenon DEF Unlocking
<1>1. CASE a = u.amount
  <2>1. Rest(u, a) = {} /\ Recs({})
    BY <1>1, FS_EmptySet, Zenon DEF Rest, Recs
  <2> QED
    BY <1>0, <1>1, <2>1, SumEmpty DEF AmountOf
<1>2. CASE a # u.amount
  <2> DEFINE r == [u EXCEPT !.amount = @ - a]
  <2>1. u.amount - a \in Nat /\ u.amount - a > 0
    BY <1>0, <1>2
  <2>2. /\ r.amount = u.amount - a /\ r.del = u.del /\ r.val = u.val /\ r.height = u.height
        /\ r.completion = u.completion /\ r.unlock = u.unlock
    BY Zenon DEF Unlocking
  <2>3. r \in Unlocking
    BY <2>1, Zenon DEF Unlocking
  <2>4. Rest(u, a) = {r}
    BY <1>2, Zenon DEF Rest
  <2> HIDE DEF r
  <2>5. r # u
    BY <1>0, <2>1, <2>2
  <2> QED
    BY <2>1, <2>2, <2>3, <2>4, <2>5, AmountOne, Zenon
<1> QED
  BY <1>1, <1>2, Zenon

(* A sum of records of which one is cancelled in part.                     *)
LEMMA LessAmount ==
    ASSUME NEW T, Recs(T), NEW u \in T, NEW a \in Nat \ {0}, a <= u.amount, Rest(u, a) \cap T = {}
    PROVE  Recs((T \ {u}) \cup Rest(u, a)) /\ AmountOf((T \ {u}) \cup Rest(u, a)) = AmountOf(T) - a
<1>1. u \in Unlocking
  BY Zenon DEF Recs
<1>2. Recs(T \ {u}) /\ AmountOf(T) = AmountOf(T \ {u}) + u.amount /\ u.amount \in Nat
  BY AmountLess, Zenon
<1>3. Recs(Rest(u, a)) /\ AmountOf(Rest(u, a)) = u.amount - a
  BY <1>1, RestOf, Zenon
<1>4. (T \ {u}) \cap Rest(u, a) = {}
  BY Zenon
<1>5. AmountOf((T \ {u}) \cup Rest(u, a)) = AmountOf(T \ {u}) + AmountOf(Rest(u, a))
  BY <1>2, <1>3, <1>4, AmountParts, Zenon
<1>6. AmountOf(T \ {u}) \in Nat
  BY <1>2, AmountIsSum, Zenon
<1> QED
  BY <1>2, <1>3, <1>5, <1>6, RecsCup

(* What CancelUnlocking does to an entry and a record.                     *)
Cancelled(d, v, h, a, e, u) ==
    /\ e.height = h /\ e.completion > now /\ a <= e.balance
    /\ u.del = d /\ u.val = v /\ u.height = h /\ a <= u.amount
    /\ ubd' = [ubd EXCEPT ![v] = (@ \ {e}) \cup
                  (IF a = e.balance THEN {} ELSE {[e EXCEPT !.balance = @ - a]})]
    /\ unlocking' = (unlocking \ {u}) \cup Rest(u, a)
    /\ Rest(u, a) \cap unlocking = {} /\ u \in Unlocking

(* What CancelUnlocking does to the one entry and the one record.          *)
LEMMA CancelEffect ==
    ASSUME TierTypeOK, UniqueKeys, NEW d \in Del, NEW v \in Val, NEW h, NEW a \in Amount,
           CancelUnlocking(d, v, h, a)
    PROVE  /\ a \in Nat \ {0} /\ Shift(<<d, v>>, a) /\ RecordsOK
           /\ \E e \in ubd[v], u \in unlocking : Cancelled(d, v, h, a, e, u)
<1>1. a \in Nat \ {0} /\ Shift(<<d, v>>, a) /\ RecordsOK
  BY TierAssumption, CancelShift, Zenon DEF TierTypeOK
<1>2. PICK e \in ubd[v], u \in unlocking :
        /\ e.height = h /\ e.completion > now /\ a <= e.balance
        /\ KeyOf(u) = <<d, v, h>> /\ a <= u.amount
        /\ ubd' = [ubd EXCEPT ![v] = (@ \ {e}) \cup
                      (IF a = e.balance THEN {} ELSE {[e EXCEPT !.balance = @ - a]})]
        /\ unlocking' = LessUnlocking(u, a)
  BY Zenon DEF CancelUnlocking
<1>3. u.del = d /\ u.val = v /\ u.height = h
  BY <1>2, Zenon DEF KeyOf
<1>4. u \in Unlocking
  BY <1>1, Zenon DEF RecordsOK
<1>5. Rest(u, a) \cap unlocking = {}
  <2>1. \A r \in Rest(u, a) : r.del = u.del /\ r.val = u.val /\ r.height = u.height /\ r # u
    BY <1>1, <1>2, <1>4, RestOf, Zenon
  <2>2. \A r \in Rest(u, a) : KeyOf(r) = KeyOf(u) /\ r # u
    BY <2>1, Zenon DEF KeyOf
  <2> QED
    BY <2>2, Zenon DEF UniqueKeys
<1>6. unlocking' = (unlocking \ {u}) \cup Rest(u, a)
  BY <1>2, Zenon DEF LessUnlocking, Rest
<1>7. Cancelled(d, v, h, a, e, u)
  BY <1>2, <1>3, <1>4, <1>5, <1>6, Zenon DEF Cancelled
<1> QED
  BY <1>1, <1>7, Zenon

(* A cancellation moves coins from a record to a lockup.                   *)
LEMMA CancelWorth ==
    ASSUME TierTypeOK, UniqueKeys, NEW d \in Del, NEW v \in Val, NEW h, NEW a \in Amount,
           CancelUnlocking(d, v, h, a), NEW c \in Del
    PROVE  Worth(c)' = Worth(c)
<1>0. PICK e \in ubd[v], u \in unlocking : Cancelled(d, v, h, a, e, u)
  BY CancelEffect, Zenon
<1>1. /\ u.del = d /\ a <= u.amount /\ unlocking' = (unlocking \ {u}) \cup Rest(u, a)
      /\ Rest(u, a) \cap unlocking = {} /\ u \in Unlocking
  BY <1>0, Zenon DEF Cancelled
<1>2. a \in Nat \ {0} /\ LockedBy(c)' = LockedBy(c) + (IF c = d THEN a ELSE 0) /\ UNCHANGED wallet
  <2>1. a \in Nat \ {0} /\ Shift(<<d, v>>, a) /\ RecordsOK
    BY CancelEffect, Zenon
  <2>2. UNCHANGED wallet
    BY Zenon DEF CancelUnlocking, coins
  <2>3. a \in Int
    BY <2>1
  <2>4. LockedBy(c)' = LockedBy(c) + (IF c = d THEN a ELSE 0)
    BY <2>1, <2>3, ShiftSums, Zenon
  <2> QED
    BY <2>1, <2>2, <2>4, Zenon
<1>3. wallet[c] \in Int /\ LockedBy(c) \in Int /\ UnlockingOf(c) \in Nat
  BY WorthInt, Zenon DEF WorthOK
<1>4. \A r \in Rest(u, a) : r.del = d
  BY <1>1, <1>2, RestOf, Zenon
<1>5. UnlockingOf(c)' = UnlockingOf(c) - (IF c = d THEN a ELSE 0)
  <2> DEFINE T == Of(unlocking, c)
  <2>1. Recs(T)
    BY RecsPart, Zenon DEF TierTypeOK, RecordsOK, Recs, Of
  <2>2. CASE c = d
    <3>1. u \in T /\ Rest(u, a) \cap T = {}
      BY <1>1, <2>2, Zenon DEF Of
    <3>2. Of(unlocking', c) = (T \ {u}) \cup Rest(u, a)
      BY <1>1, <1>4, <2>2, Zenon DEF Of
    <3> HIDE DEF T
    <3>3. AmountOf((T \ {u}) \cup Rest(u, a)) = AmountOf(T) - a
      BY <1>1, <1>2, <2>1, <3>1, LessAmount, Zenon
    <3> QED
      BY <2>2, <3>2, <3>3, Zenon DEF UnlockingOf, Of, T
  <2>3. CASE c # d
    <3>1. Of(unlocking', c) = T
      BY <1>1, <1>4, <2>3, Zenon DEF Of
    <3>2. UnlockingOf(c)' = UnlockingOf(c) /\ UnlockingOf(c) \in Nat
      BY <1>3, <3>1, Zenon DEF UnlockingOf, Of
    <3> HIDE DEF T
    <3> QED
      BY <2>3, <3>2
  <2> QED
    BY <2>2, <2>3, Zenon
<1> DEFINE k == IF c = d THEN a ELSE 0
<1>6. k \in Int /\ LockedBy(c)' = LockedBy(c) + k /\ UnlockingOf(c)' = UnlockingOf(c) - k
  BY <1>2, <1>5
<1> HIDE DEF k
<1> QED
  BY <1>2, <1>3, <1>6 DEF Worth

(* A payout moves coins from records to wallets.                           *)
LEMMA EpochWorth ==
    ASSUME TierTypeOK, CompleteUnlocking, UNCHANGED lockups, NEW c \in Del
    PROVE  Worth(c)' = Worth(c)
<1>1. PICK paid \in SUBSET unlocking :
        /\ unlocking' = unlocking \ paid
        /\ wallet' = [d \in Del |-> wallet[d] + AmountOf({u \in paid : u.del = d})]
  BY Zenon DEF CompleteUnlocking
<1>2. Of(unlocking, c) = Of(unlocking', c) \cup Of(paid, c) /\ Of(unlocking', c) \cap Of(paid, c) = {}
  BY <1>1, Zenon DEF Of
<1>3. Recs(Of(unlocking', c)) /\ Recs(Of(paid, c))
  <2>1. Recs(unlocking)
    BY Zenon DEF TierTypeOK, RecordsOK, Recs
  <2> QED
    BY <1>1, <2>1, RecsPart, Zenon DEF Of
<1>4. AmountOf(Of(unlocking, c)) = AmountOf(Of(unlocking', c)) + AmountOf(Of(paid, c))
  BY <1>2, <1>3, AmountParts, Zenon
<1>5. AmountOf(Of(unlocking', c)) \in Nat /\ AmountOf(Of(paid, c)) \in Nat
  BY <1>3, AmountIsSum, Zenon
<1>6. wallet'[c] = wallet[c] + AmountOf(Of(paid, c)) /\ LockedBy(c)' = LockedBy(c)
  BY <1>1, Zenon DEF Of, LockedBy
<1>7. wallet[c] \in Int /\ LockedBy(c) \in Int
  BY WorthInt, Zenon DEF WorthOK
<1> QED
  BY <1>4, <1>5, <1>6, <1>7 DEF Worth, UnlockingOf, Of

(* A redelegation moves coins between two lockups of one delegator.        *)
LEMMA MoveWorth ==
    ASSUME TierTypeOK, NEW d \in Del, NEW v \in Val, NEW w \in Val, NEW a \in Amount,
           Redelegate(d, v, w, a), NEW c \in Del
    PROVE  Worth(c)' = Worth(c)
<1>1. v # w /\ lockups' = Moved(<<d, v>>, <<d, w>>, a) /\ UNCHANGED <<wallet, unlocking>>
  <2>1. v # w /\ lockups' = Moved(<<d, v>>, <<d, w>>, a) /\ UNCHANGED coins /\ UNCHANGED unlocking
    BY Zenon DEF Redelegate
  <2> QED
    BY <2>1, Zenon DEF coins
<1>2. LockedBy(c)' = LockedBy(c)
  <2>1. a \in Int /\ RecordsOK
    BY TierAssumption DEF TierTypeOK
  <2> QED
    BY <1>1, <2>1, MoveSums, Zenon
<1> QED
  BY <1>1, <1>2, Zenon DEF Worth, UnlockingOf

(* A lock moves coins from a wallet to a lockup.                           *)
LEMMA LockWorth ==
    ASSUME TierTypeOK, NEW d \in Del, NEW v \in Val, NEW a \in Nat, Lock(d, v, a), NEW c \in Del
    PROVE  Worth(c)' = Worth(c)
<1>1. wallet' = [wallet EXCEPT ![d] = @ - a] /\ UNCHANGED unlocking
  BY Zenon DEF Lock
<1>2. LockedBy(c)' = LockedBy(c) + (IF c = d THEN a ELSE 0)
  <2>1. Shift(<<d, v>>, a) /\ RecordsOK /\ a \in Int
    BY LockShift DEF TierTypeOK
  <2> QED
    BY <2>1, ShiftSums, Zenon
<1>3. UnlockingOf(c)' = UnlockingOf(c)
  BY <1>1, Zenon DEF UnlockingOf
<1>4. wallet[c] \in Int /\ LockedBy(c) \in Int /\ UnlockingOf(c) \in Nat
  BY WorthInt, Zenon DEF WorthOK
<1>5. wallet'[c] = wallet[c] - (IF c = d THEN a ELSE 0)
  BY <1>1, <1>4 DEF TierTypeOK, CoinsOK
<1> QED
  BY <1>2, <1>3, <1>4, <1>5 DEF Worth

-----------------------------------------------------------------------------
(* What a slash leaves *)

(* A quotient of decimals is at most twice the exact one, and at most one  *)
(* when the exact one is.                                                  *)
LEMMA QuoBounds ==
    ASSUME NEW n \in Nat, NEW d \in Nat \ {0}
    PROVE  /\ Quo(n, d) \in Nat /\ d * Quo(n, d) <= 2 * (n * DecUnit)
           /\ n <= d => Quo(n, d) <= DecUnit
<1> DEFINE a == n * DecUnit
           q == a \div d
           r == a % d
           up == 2 * r > d \/ (2 * r = d /\ q % 2 = 1)
<1>0. DecUnit \in Nat \ {0}
  BY TierAssumption, Zenon
<1>1. a \in Nat
  BY <1>0
<1>2. n <= d => a <= d * DecUnit
  BY <1>0
<1>3. Quo(n, d) = IF up THEN q + 1 ELSE q
  BY DEF Quo, Magnitude, Signed
<1> HIDE DEF a
<1>4. q \in Nat /\ r \in Nat /\ r < d /\ a = d * q + r
  BY <1>1
<1> HIDE DEF q, r
<1>5. CASE ~up
  <2>1. d * q <= a
    BY <1>4
  <2>2. n <= d => q <= DecUnit
    <3>1. n <= d => d * q <= d * DecUnit
      BY <1>0, <1>1, <1>2, <1>4
    <3> QED
      BY <1>0, <1>4, <3>1
  <2> QED
    BY <1>1, <1>3, <1>4, <1>5, <2>1, <2>2 DEF a
<1>6. CASE up
  <2>1. 2 * r >= d
    BY <1>4, <1>6
  <2>2. d * (q + 1) <= 2 * a
    BY <1>4, <2>1
  <2>3. n <= d => q + 1 <= DecUnit
    <3>1. n <= d => d * q < d * DecUnit
      BY <1>0, <1>1, <1>2, <1>4, <2>1
    <3>2. d * q < d * DecUnit => q < DecUnit
      BY <1>0, <1>4
    <3> QED
      BY <1>0, <1>4, <3>1, <3>2
  <2> QED
    BY <1>3, <1>4, <1>6, <2>2, <2>3 DEF a
<1> QED
  BY <1>5, <1>6, Zenon

(* A rate of at most one takes from a lockup but leaves no debt.           *)
LEMMA TruncBounds ==
    ASSUME NEW n \in Nat, NEW m \in Nat
    PROVE  Trunc(n * m, DecUnit) \in Nat /\ (m <= DecUnit => Trunc(n * m, DecUnit) <= n)
<1> DEFINE x == n * m
           q == x \div DecUnit
<1>0. DecUnit \in Nat \ {0}
  BY TierAssumption, Zenon
<1>1. x \in Nat /\ (m <= DecUnit => x <= n * DecUnit)
  BY <1>0
<1>2. Trunc(x, DecUnit) = q
  BY <1>1 DEF Trunc, Magnitude, Signed
<1> HIDE DEF x
<1>3. q \in Nat /\ DecUnit * q <= x
  BY <1>0, <1>1
<1> HIDE DEF q
<1>4. m <= DecUnit => DecUnit * q <= DecUnit * n
  BY <1>0, <1>1, <1>3
<1>5. DecUnit * q <= DecUnit * n => q <= n
  BY <1>0, <1>3
<1> QED
  BY <1>2, <1>3, <1>4, <1>5, Zenon DEF x

(* Handling a slash takes from the lockups, moderately.                    *)
LEMMA HandleModerately ==
    ASSUME TierTypeOK, NoDebt, ModerateEvent, HandleSlashingEvents
    PROVE  NoDebt' /\ \A c \in Del : Worth(c)' <= Worth(c)
  (* The rates after a moderate slash are between nothing and one.           *)
<1>a. ASSUME TierTypeOK, ~NothingToAdjust, NEW v, v = event.val, NEW burned, burned = event.burned,
             2 * burned <= stake[v] + others[v]
      PROVE  /\ SignedTwice(v, burned) \in 0 .. DecUnit /\ MissedRate(v, burned) \in 0 .. DecUnit
             /\ CoverageRate(v, burned) \in Nat
  <2> USE <1>a
  <2> DEFINE s == stake[v]
             t == stake[v] + others[v]
             k == Quo(s, t)
             share == ShareSlashed(v, burned)
             tokens == TokensSlashed(v, burned)
  <2>0. event.val \in Val /\ event.burned \in Nat /\ stake[event.val] \in Nat \ {0} /\ others[event.val] \in Nat
    BY SlashToHandle, Zenon
  <2>1. v \in Val /\ burned \in Nat /\ s \in Nat \ {0} /\ t \in Nat \ {0} /\ DecUnit \in Nat \ {0} /\ 2 * burned <= t
    BY <2>0, TierAssumption
  <2>2. share = burned * k /\ k \in Nat /\ t * k <= 2 * (s * DecUnit)
    BY <2>1, QuoBounds, Zenon DEF ShareSlashed
  <2>3. tokens = (share + DecUnit - 1) \div DecUnit /\ tokens \in Nat /\ CoveredBy(v, burned) \in Nat
    BY HandlerTypes DEF TokensSlashed
  <2>4. share \in Nat
    BY <2>1, ShareNat, Zenon DEF TierTypeOK
  <2>5. /\ SignedTwice(v, burned) = Quo(s * DecUnit - share, s * DecUnit)
        /\ MissedRate(v, burned) = Quo(s - tokens, s)
        /\ CoverageRate(v, burned) = Quo(CoveredBy(v, burned), s)
    BY Zenon DEF SignedTwice, MissedRate, CoverageRate
  <2> HIDE DEF s, t, k, share, tokens
  <2>6. share <= s * DecUnit
    <3>1. (2 * burned) * k <= t * k
      BY <2>1, <2>2
    <3>2. (2 * burned) * k = 2 * (burned * k)
      BY <2>1, <2>2
    <3> DEFINE x == t * k
               y == s * DecUnit
               z == burned * k
    <3>3. x \in Nat /\ y \in Nat /\ z \in Nat /\ 2 * z <= x /\ x <= 2 * y /\ share = z
      BY <2>1, <2>2, <3>1, <3>2
    <3> HIDE DEF x, y, z
    <3>4. share <= y
      BY <3>3
    <3> QED
      BY <3>4, Zenon DEF y
  <2>7. SignedTwice(v, burned) \in 0 .. DecUnit
    <3> DEFINE y == s * DecUnit
    <3>1. y \in Nat \ {0}
      BY <2>1
    <3> HIDE DEF y
    <3>2. y - share \in Nat /\ y - share <= y
      BY <2>4, <2>6, <3>1 DEF y
    <3>3. Quo(y - share, y) \in Nat /\ Quo(y - share, y) <= DecUnit
      BY <3>1, <3>2, QuoBounds, Zenon
    <3> QED
      BY <2>1, <2>5, <3>3 DEF y
  <2>8. tokens <= s
    <3> DEFINE y == share + DecUnit - 1
               q == y \div DecUnit
    <3>1. y \in Nat /\ y < (s + 1) * DecUnit
      BY <2>1, <2>4, <2>6
    <3>2. q = tokens
      BY <2>3, Zenon
    <3> HIDE DEF y
    <3>3. q \in Nat /\ q * DecUnit <= y
      BY <2>1, <3>1
    <3> HIDE DEF q
    <3>4. q * DecUnit < (s + 1) * DecUnit
      <4> DEFINE m == (s + 1) * DecUnit
                 l == q * DecUnit
      <4>1. m \in Nat /\ l \in Nat /\ l <= y /\ y < m
        BY <2>1, <3>1, <3>3
      <4> HIDE DEF m, l
      <4>2. l < m
        BY <3>1, <4>1
      <4> QED
        BY <4>2, Zenon DEF m, l
    <3>5. q < s + 1
      BY <2>1, <3>3, <3>4
    <3> QED
      BY <2>1, <3>2, <3>3, <3>5
  <2>9. MissedRate(v, burned) \in 0 .. DecUnit
    <3>1. s - tokens \in Nat /\ s - tokens <= s
      BY <2>1, <2>3, <2>8
    <3>2. Quo(s - tokens, s) \in Nat /\ Quo(s - tokens, s) <= DecUnit
      BY <2>1, <3>1, QuoBounds, Zenon
    <3> QED
      BY <2>1, <2>5, <3>2
  <2>10. CoverageRate(v, burned) \in Nat
    BY <2>1, <2>3, <2>5, QuoBounds, Zenon
  <2> QED
    BY <2>7, <2>9, <2>10, Zenon
  (* Adjusting the lockups at such a rate.                                   *)
<1>b. ASSUME TierTypeOK, NoDebt, NEW v, NEW rate \in 0 .. DecUnit, NEW coverage \in Nat,
             AdjustLockups(v, rate, coverage)
      PROVE  /\ NoDebt' /\ UNCHANGED unlocking /\ \A c \in Del : LockedBy(c)' <= LockedBy(c)
  <2> USE <1>b
  <2>0. rate \in Nat /\ rate <= DecUnit
    BY TierAssumption
  <2>1. ASSUME NEW p \in Pair
        PROVE  /\ After(p, rate) \in Nat /\ After(p, rate) <= lockups[p]
               /\ Insured(p, rate, coverage) \in Nat /\ lockups[p] \in Nat /\ insurance[p] \in Nat
    <3>1. lockups[p] \in Nat /\ insurance[p] \in Nat
      BY DEF NoDebt, TierTypeOK, RecordsOK
    <3>2. After(p, rate) \in Nat /\ After(p, rate) <= lockups[p]
      BY <2>0, <3>1, TruncBounds, Zenon DEF After
    <3>3. Trunc(lockups[p] * coverage, DecUnit) \in Nat
      BY <3>1, TruncBounds, Zenon
    <3>4. Insured(p, rate, coverage) \in Nat
      BY <3>1, <3>3 DEF Insured
    <3> QED
      BY <3>1, <3>2, <3>4, Zenon
  <2>2. /\ lockups' = [p \in Pair |-> IF Hit(p, v, rate) THEN After(p, rate) ELSE lockups[p]]
        /\ insurance' = [p \in Pair |-> IF Hit(p, v, rate) THEN Insured(p, rate, coverage) ELSE insurance[p]]
        /\ UNCHANGED unlocking
    BY Zenon DEF AdjustLockups, After, Hit, Insured
  <2>3. \A p \in Pair : lockups'[p] \in Nat /\ lockups'[p] <= lockups[p] /\ lockups[p] \in Nat
    BY <2>1, <2>2
  <2>4. NoDebt'
    <3>1. \A p \in Pair : insurance'[p] \in Nat
      BY <2>1, <2>2, Zenon
    <3> QED
      BY <2>3, <3>1 DEF NoDebt
  <2>5. ASSUME NEW c \in Del PROVE LockedBy(c)' <= LockedBy(c)
    <3> DEFINE S == {c} \X Val
    <3>1. S \subseteq Pair
      BY Zenon DEF Pair
    <3>2. IsFiniteSet(S) /\ \A p \in S : lockups[p] \in Int /\ lockups'[p] \in Int /\ lockups'[p] <= lockups[p]
      BY <2>3, <3>1, PairsFinite, FS_Subset
    <3> HIDE DEF S
    <3>3. SumFunctionOnSet(lockups', S) <= SumFunctionOnSet(lockups, S)
      BY <3>2, SumMonotone, Zenon
    <3> QED
      BY <3>3, Zenon DEF LockedBy, S
  <2> QED
    BY <2>2, <2>4, <2>5, Zenon
<1>1. UNCHANGED <<wallet, unlocking>> /\ phase = "slash"
  <2>1. UNCHANGED wallet /\ phase = "slash"
    BY Zenon DEF HandleSlashingEvents
  <2>2. UNCHANGED unlocking
    BY Zenon DEF HandleSlashingEvents, HandleDoubleSign, HandleMissingSignature, AdjustLockups, records
  <2> QED
    BY <2>1, <2>2, Zenon
<1>2. ASSUME ~NothingToAdjust
      PROVE  /\ SignedTwice(event.val, event.burned) \in 0 .. DecUnit
             /\ MissedRate(event.val, event.burned) \in 0 .. DecUnit
             /\ CoverageRate(event.val, event.burned) \in Nat
  <2>1. 2 * event.burned <= stake[event.val] + others[event.val]
    BY <1>1, <1>2, SlashToHandle DEF ModerateEvent, Handling
  <2> QED
    BY <1>2, <2>1, <1>a, Zenon
<1>3. NoDebt' /\ \A c \in Del : LockedBy(c)' <= LockedBy(c)
  <2>1. CASE HandleDoubleSign
    <3>1. ~NothingToAdjust /\ AdjustLockups(event.val, SignedTwice(event.val, event.burned), 0)
      BY <2>1, Zenon DEF HandleDoubleSign, SignedTwice
    <3> QED
      BY <1>2, <3>1, <1>b, Zenon
  <2>2. CASE HandleMissingSignature
    <3>1. /\ ~NothingToAdjust
          /\ AdjustLockups(event.val, MissedRate(event.val, event.burned), CoverageRate(event.val, event.burned))
      BY <2>2, Zenon DEF HandleMissingSignature, MissedRate, CoverageRate, TokensSlashed, CoveredBy
    <3> QED
      BY <1>2, <3>1, <1>b, Zenon
  <2>3. CASE UNCHANGED records
    <3>1. UNCHANGED <<lockups, insurance>> /\ \A c \in Del : LockedBy(c) \in Int
      BY <2>3, WorthInt, Zenon DEF records, WorthOK
    <3> QED
      BY <3>1 DEF NoDebt, LockedBy
  <2> QED
    BY <2>1, <2>2, <2>3, Zenon DEF HandleSlashingEvents
<1>4. ASSUME NEW c \in Del PROVE Worth(c)' <= Worth(c)
  <2>1. UnlockingOf(c)' = UnlockingOf(c) /\ wallet'[c] = wallet[c]
    BY <1>1, Zenon DEF UnlockingOf
  <2>2. LockedBy(c)' \in Int
    <3>1. WorthOK'
      BY WorthIntNext, HandleTypes, Zenon
    <3> QED
      BY <3>1, Zenon DEF WorthOK
  <2> QED
    BY <1>3, <2>1, <2>2, WorthInt DEF Worth, WorthOK
<1> QED
  BY <1>3, <1>4, Zenon

(* SetUnlockingLockup replaces the record of its key.                      *)
LEMMA UnlockKeys ==
    ASSUME UniqueKeys, NEW r, unlocking' = SetUnlocking(r)
    PROVE  UniqueKeys'
BY Zenon DEF UniqueKeys, SetUnlocking, KeyOf

(* A cancellation keeps the key of the record that it cuts.                *)
LEMMA CancelKeys ==
    ASSUME UniqueKeys, NEW u \in unlocking, NEW a \in Nat \ {0}, a <= u.amount, u \in Unlocking,
           unlocking' = (unlocking \ {u}) \cup Rest(u, a)
    PROVE  UniqueKeys'
<1>1. \A r \in Rest(u, a) : KeyOf(r) = KeyOf(u)
  BY RestOf, Zenon DEF KeyOf
<1>2. \A r, w \in Rest(u, a) : r = w
  BY Zenon DEF Rest
<1>3. \A r \in unlocking \ {u} : KeyOf(r) # KeyOf(u)
  BY Zenon DEF UniqueKeys
<1> QED
  BY <1>1, <1>2, <1>3, Zenon DEF UniqueKeys

(* The slash fractions of the chain are far below a third: a double sign   *)
(* costs 5%, missed signatures 1%.                                         *)
ModerateSlashes == \A part \in Slash : 3 * part[1] <= part[2]

(* A fraction of at most a third takes at most a third, also rounded.      *)
LEMMA ThirdOf ==
    ASSUME NEW n \in Nat, NEW x \in Nat, NEW y \in Nat \ {0}, 3 * x <= y
    PROVE  (n * x) \div y \in Nat /\ 3 * ((n * x) \div y) <= n
<1> DEFINE m == n * x
           q == m \div y
<1>1. m \in Nat /\ 3 * m <= n * y
  <2>1. n * (3 * x) <= n * y /\ n * (3 * x) = 3 * (n * x)
    OBVIOUS
  <2> QED
    BY <2>1
<1> HIDE DEF m
<1>2. q \in Nat /\ q * y <= m
  BY <1>1
<1> HIDE DEF q
<1>3. (3 * q) * y <= n * y
  <2> DEFINE l == q * y
             w == n * y
  <2>1. l \in Nat /\ w \in Nat /\ l <= m /\ 3 * m <= w /\ (3 * q) * y = 3 * l
    BY <1>1, <1>2
  <2> HIDE DEF l, w
  <2>2. 3 * l <= w
    BY <1>1, <2>1
  <2> QED
    BY <2>1, <2>2, Zenon DEF w
<1>4. 3 * q <= n
  BY <1>2, <1>3
<1> QED
  BY <1>2, <1>4, Zenon DEF q, m

(* A slash burns at most a third of what the validator had, so at most     *)
(* half of what it has left.                                               *)
LEMMA SlashModerately ==
    ASSUME TierTypeOK, ModerateSlashes, StartBlock
    PROVE  ModerateEvent'
<1>1. CASE event' = NoEvent
  BY <1>1 DEF ModerateEvent, NoEvent
<1>2. ASSUME NEW v \in Val, NEW part \in Slash, NEW since, NEW doubleSign,
             NEW address, SlashValidator(v, part, since, doubleSign, address)
      PROVE  ModerateEvent'
  <2> DEFINE tokens == stake[v] + others[v]
             burned == (tokens * part[1]) \div part[2]
             kept == (stake[v] * (tokens - burned)) \div tokens
  <2>1. part[1] \in Nat /\ part[2] \in Nat \ {0} /\ 3 * part[1] <= part[2]
    BY TierAssumption, Zenon DEF ModerateSlashes
  <2>2. tokens \in Nat
    BY DEF TierTypeOK, StakingOK
  <2>3. /\ stake'[v] = kept
        /\ others' = [others EXCEPT ![v] = tokens - burned - kept]
        /\ event' = [val |-> v, burned |-> burned, doubleSign |-> doubleSign, address |-> address]
    BY <1>2, Zenon DEF SlashValidator
  <2>4. StartBlock => TierTypeOK'
    BY StartBlockTypes, Zenon
  <2> HIDE DEF tokens
  <2>5. burned \in Nat /\ 3 * burned <= tokens
    BY <2>1, <2>2, ThirdOf, Zenon
  <2> HIDE DEF burned, kept
  <2>6. /\ stake'[v] = kept /\ others'[v] = tokens - burned - kept /\ kept \in Nat
        /\ event'.val = v /\ event'.burned = burned
    BY <2>3, <2>4, Zenon DEF TierTypeOK, StakingOK
  <2>7. stake'[v] + others'[v] = tokens - burned
    BY <2>2, <2>5, <2>6
  <2> QED
    BY <2>2, <2>5, <2>6, <2>7 DEF ModerateEvent
<1> QED
  BY <1>1, <1>2, Zenon DEF StartBlock

(* No lockup and no insurance is negative after an operation.              *)
LEMMA DebtShift ==
    ASSUME RecordsOK, NoDebt, NEW d \in Del, NEW v \in Val, NEW a \in Nat,
           Shift(<<d, v>>, a), UNCHANGED insurance
    PROVE  NoDebt'
<1>1. <<d, v>> \in Pair
  BY Zenon DEF Pair
<1>2. \A p \in Pair : lockups[p] \in Int /\ lockups'[p] = IF p = <<d, v>> THEN lockups[p] + a ELSE lockups[p]
  BY <1>1, Zenon DEF RecordsOK, Shift, Shifted
<1>3. \A p \in Pair : lockups[p] >= 0 /\ insurance'[p] >= 0
  BY Zenon DEF NoDebt
<1>4. ASSUME NEW p \in Pair PROVE lockups'[p] >= 0
  BY <1>2, <1>3
<1> QED
  BY <1>3, <1>4, Zenon DEF NoDebt

(* Unlock takes no more than a lockup has.                                 *)
LEMMA DebtUnlock ==
    ASSUME RecordsOK, NoDebt, NEW d \in Del, NEW v \in Val, NEW a \in Amount, Unlock(d, v, a)
    PROVE  NoDebt'
<1> DEFINE p == <<d, v>>
<1>1. /\ lockups' = [lockups EXCEPT ![p] = @ - a] /\ a + insurance[p] <= lockups[p]
      /\ insurance' = IF a = lockups[p] THEN [insurance EXCEPT ![p] = 0] ELSE insurance
  BY Zenon DEF Unlock, CanSubtract
<1>2. p \in Pair /\ a \in Nat
  BY TierAssumption, Zenon DEF Pair
<1> HIDE DEF p
<1>3. \A q \in Pair : lockups[q] \in Nat /\ insurance[q] \in Nat
  BY DEF NoDebt, RecordsOK
<1>4. \A q \in Pair : lockups'[q] >= 0
  BY <1>1, <1>2, <1>3 DEF RecordsOK
<1>5. \A q \in Pair : insurance'[q] >= 0
  BY <1>1, <1>2, <1>3 DEF RecordsOK
<1> QED
  BY <1>4, <1>5, Zenon DEF NoDebt

(* Redelegate takes no more than a lockup has.                             *)
LEMMA DebtMove ==
    ASSUME RecordsOK, NoDebt, NEW d \in Del, NEW v \in Val, NEW w \in Val, NEW a \in Amount,
           Redelegate(d, v, w, a)
    PROVE  NoDebt'
<1> DEFINE p == <<d, v>>
           q == <<d, w>>
<1>1. /\ lockups' = [lockups EXCEPT ![p] = @ - a, ![q] = @ + a] /\ a + insurance[p] <= lockups[p] /\ v # w
      /\ insurance' = IF a = lockups[p] THEN [insurance EXCEPT ![p] = 0, ![q] = @ + insurance[p]]
                      ELSE insurance
  BY Zenon DEF Redelegate, CanSubtract, Moved
<1>2. p \in Pair /\ q \in Pair /\ p # q /\ a \in Nat
  BY <1>1, TierAssumption, Zenon DEF Pair
<1> HIDE DEF p, q
<1>3. \A r \in Pair : lockups[r] \in Nat /\ insurance[r] \in Nat
  BY DEF NoDebt, RecordsOK
<1>4. ASSUME NEW r \in Pair PROVE lockups'[r] >= 0
  <2>1. lockups'[r] = IF r = p THEN lockups[p] - a ELSE IF r = q THEN lockups[q] + a ELSE lockups[r]
    BY <1>1, <1>2, Zenon DEF RecordsOK
  <2> QED
    BY <1>1, <1>2, <1>3, <2>1
<1>5. ASSUME NEW r \in Pair PROVE insurance'[r] >= 0
  <2>1. \/ insurance'[r] = insurance[r]
        \/ insurance'[r] = IF r = p THEN 0 ELSE IF r = q THEN insurance[q] + insurance[p] ELSE insurance[r]
    BY <1>1, <1>2, Zenon DEF RecordsOK
  <2>2. insurance[r] \in Nat /\ insurance[q] + insurance[p] \in Nat
    BY <1>2, <1>3
  <2> QED
    BY <2>1, <2>2
<1> QED
  BY <1>4, <1>5, Zenon DEF NoDebt

-----------------------------------------------------------------------------
(* Without slashing, the lockups with a validator are staked with it *)

(* What is locked with a validator is an integer.                          *)
LEMMA LockedInt == ASSUME RecordsOK, NEW v \in Val PROVE LockedWith(v) \in Int
<1>1. Del \X {v} \subseteq Pair
  BY Zenon DEF Pair
<1>2. IsFiniteSet(Del \X {v}) /\ \A p \in Del \X {v} : lockups[p] \in Int
  BY <1>1, PairsFinite, FS_Subset, Zenon DEF RecordsOK
<1> QED
  BY <1>2, SumInt, Zenon DEF LockedWith

(* A lockup and the delegation of the module that change by the same       *)
(* amount.                                                                 *)
LEMMA StakedShift ==
    ASSUME TierTypeOK, LockedIsStaked, NEW d \in Del, NEW v \in Val, NEW a \in Int, Shift(<<d, v>>, a),
           stake' = [stake EXCEPT ![v] = @ + a]
    PROVE  LockedIsStaked'
<1> SUFFICES ASSUME NEW w \in Val PROVE LockedWith(w)' <= stake'[w]
  BY Zenon DEF LockedIsStaked
<1>1. LockedWith(w)' = LockedWith(w) + (IF w = v THEN a ELSE 0)
  BY ShiftSums DEF TierTypeOK
<1>2. LockedWith(w) \in Int /\ stake[w] \in Nat /\ LockedWith(w) <= stake[w]
  BY LockedInt, Zenon DEF LockedIsStaked, TierTypeOK, StakingOK
<1>3. stake'[w] = stake[w] + (IF w = v THEN a ELSE 0)
  BY <1>2 DEF TierTypeOK, StakingOK
<1> QED
  BY <1>1, <1>2, <1>3

(* Unlock takes as much from the delegation as from the lockup.            *)
LEMMA StakedUnlock ==
    ASSUME TierTypeOK, LockedIsStaked, NEW d \in Del, NEW v \in Val, NEW a \in Amount, Unlock(d, v, a)
    PROVE  LockedIsStaked'
<1>1. Shift(<<d, v>>, -a) /\ a \in Nat
  BY UnlockShift, Zenon DEF TierTypeOK
<1>2. stake' = [stake EXCEPT ![v] = @ - a]
  BY Zenon DEF Unlock
<1>3. stake[v] \in Nat
  BY Zenon DEF TierTypeOK, StakingOK
<1>4. stake[v] - a = stake[v] + (-a) /\ -a \in Int
  BY <1>1, <1>3
<1>5. stake' = [stake EXCEPT ![v] = @ + (-a)]
  BY <1>2, <1>4, Zenon
<1> QED
  BY <1>1, <1>4, <1>5, StakedShift, Zenon

(* Without slashes, Redelegate delegates to the new validator what the     *)
(* lockup gets there.                                                      *)
LEMMA StakedMove ==
    ASSUME TierTypeOK, LockedIsStaked, uneven = {}, NEW d \in Del, NEW v \in Val, NEW w \in Val,
           NEW a \in Amount, Redelegate(d, v, w, a)
    PROVE  LockedIsStaked'
<1>0. a \in Int
  BY TierAssumption
<1>1. v # w /\ lockups' = Moved(<<d, v>>, <<d, w>>, a)
  BY Zenon DEF Redelegate
<1>2. stake' = [stake EXCEPT ![v] = @ - a, ![w] = @ + a]
  <2>1. PICK back \in Returned(v, a) : stake' = [stake EXCEPT ![v] = @ - a, ![w] = @ + back]
    BY Zenon DEF Redelegate
  <2>2. back = a
    BY Zenon DEF Returned
  <2> QED
    BY <2>1, <2>2, Zenon
<1> SUFFICES ASSUME NEW x \in Val PROVE LockedWith(x)' <= stake'[x]
  BY Zenon DEF LockedIsStaked
<1>3. LockedWith(x)' = LockedWith(x) + (IF x = v THEN -a ELSE IF x = w THEN a ELSE 0)
  BY <1>0, <1>1, MoveSums DEF TierTypeOK
<1>4. LockedWith(x) \in Int /\ stake[x] \in Nat /\ LockedWith(x) <= stake[x] /\ stake[v] \in Nat /\ stake[w] \in Nat
  BY LockedInt, Zenon DEF LockedIsStaked, TierTypeOK, StakingOK
<1>5. stake'[x] = stake[x] + (IF x = v THEN -a ELSE IF x = w THEN a ELSE 0)
  BY <1>0, <1>1, <1>2, <1>4 DEF TierTypeOK, StakingOK
<1> DEFINE k == IF x = v THEN -a ELSE IF x = w THEN a ELSE 0
<1>6. k \in Int /\ LockedWith(x)' = LockedWith(x) + k /\ stake'[x] = stake[x] + k
  BY <1>0, <1>3, <1>5
<1> HIDE DEF k
<1> QED
  BY <1>4, <1>6

-----------------------------------------------------------------------------
(* Sums over the unbonding entries *)

(* Finitely many entries, and their balances as a function.                *)
Ents(S) == S \subseteq Entry /\ IsFiniteSet(S)
BalanceIn == [e \in Entry |-> e.balance]

(* There are finitely many validators.                                     *)
LEMMA ValFinite == IsFiniteSet(Val)
BY TierAssumption, Zenon

(* A part of such a set of entries is one.                                 *)
LEMMA EntsPart == ASSUME NEW S, Ents(S), NEW T \in SUBSET S PROVE Ents(T)
BY FS_Subset, Zenon DEF Ents

(* The unbonding entries with a validator are such a set.                  *)
LEMMA EntsOf == ASSUME TierTypeOK, NEW v \in Val PROVE Ents(ubd[v])
BY Zenon DEF TierTypeOK, StakingOK, Ents

(* The balance of a set of entries as the sum of one function.             *)
LEMMA BalanceIsSum ==
    ASSUME NEW S, Ents(S)
    PROVE  /\ BalanceOf(S) = SumFunctionOnSet(BalanceIn, S) /\ BalanceOf(S) \in Nat
           /\ IsFiniteSet(S) /\ \A e \in S : BalanceIn[e] \in Nat /\ BalanceIn[e] = e.balance
<1>1. /\ IsFiniteSet(S)
      /\ \A e \in S : BalanceIn[e] \in Nat /\ [f \in S |-> f.balance][e] = BalanceIn[e] /\ BalanceIn[e] = e.balance
  BY Zenon DEF Ents, BalanceIn, Entry
<1>2. BalanceOf(S) = SumFunctionOnSet(BalanceIn, S)
  BY <1>1, SumAgree DEF BalanceOf
<1> QED
  BY <1>1, <1>2, SumNat, Zenon

(* The balance of a single entry.                                          *)
LEMMA BalanceOne == ASSUME NEW e \in Entry PROVE BalanceOf({e}) = e.balance
<1>1. Ents({e})
  BY FS_Singleton, Zenon DEF Ents
<1>2. {} \cup {e} = {e} /\ e \notin {} /\ IsFiniteSet({})
  BY FS_EmptySet, Zenon
<1>3. BalanceIn[e] = e.balance /\ e.balance \in Nat
  BY Zenon DEF BalanceIn, Entry
<1>4. SumFunctionOnSet(BalanceIn, {} \cup {e}) = BalanceIn[e] + SumFunctionOnSet(BalanceIn, {})
  BY <1>2, <1>3, SumAdd
<1>5. BalanceOf({e}) = SumFunctionOnSet(BalanceIn, {e})
  BY <1>1, BalanceIsSum, Zenon
<1> QED
  BY <1>2, <1>3, <1>4, <1>5, SumEmpty

(* At every validator, the entries C are those of A and B, which are apart.*)
PartedInto(C, A, B) ==
    \A v \in Val : Ents(C[v]) /\ C[v] = A[v] \cup B[v] /\ A[v] \cap B[v] = {}

(* The balances of two families of entries add up.                         *)
LEMMA BalanceParts ==
    ASSUME NEW A, NEW B, NEW C, PartedInto(C, A, B)
    PROVE  SumFunctionOnSet([v \in Val |-> BalanceOf(C[v])], Val) =
             SumFunctionOnSet([v \in Val |-> BalanceOf(A[v])], Val)
               + SumFunctionOnSet([v \in Val |-> BalanceOf(B[v])], Val)
<1> DEFINE f == [v \in Val |-> BalanceOf(A[v])]
           g == [v \in Val |-> BalanceOf(B[v])]
           h == [v \in Val |-> BalanceOf(C[v])]
<1>1. ASSUME NEW v \in Val PROVE f[v] \in Int /\ g[v] \in Int /\ h[v] = f[v] + g[v]
  <2>1. Ents(A[v]) /\ Ents(B[v]) /\ Ents(C[v])
    BY EntsPart, Zenon DEF PartedInto
  <2>2. BalanceOf(A[v]) \in Nat /\ BalanceOf(B[v]) \in Nat
    BY <2>1, BalanceIsSum, Zenon
  <2>3. SumFunctionOnSet(BalanceIn, A[v] \cup B[v]) = SumFunctionOnSet(BalanceIn, A[v]) + SumFunctionOnSet(BalanceIn, B[v])
    <3>1. IsFiniteSet(A[v]) /\ IsFiniteSet(B[v]) /\ \A e \in A[v] \cup B[v] : BalanceIn[e] \in Int
      BY <2>1, BalanceIsSum
    <3>2. A[v] \cap B[v] = {}
      BY Zenon DEF PartedInto
    <3> QED
      BY <3>1, <3>2, SumUnion, Zenon
  <2>4. BalanceOf(C[v]) = BalanceOf(A[v]) + BalanceOf(B[v])
    <3>1. /\ BalanceOf(A[v]) = SumFunctionOnSet(BalanceIn, A[v])
          /\ BalanceOf(B[v]) = SumFunctionOnSet(BalanceIn, B[v])
          /\ BalanceOf(C[v]) = SumFunctionOnSet(BalanceIn, C[v])
      BY <2>1, BalanceIsSum, Zenon
    <3>2. C[v] = A[v] \cup B[v]
      BY Zenon DEF PartedInto
    <3> QED
      BY <2>3, <3>1, <3>2, Zenon
  <2> QED
    BY <2>2, <2>4
<1> HIDE DEF f, g, h
<1>2. SumFunctionOnSet(h, Val) = SumFunctionOnSet(f, Val) + SumFunctionOnSet(g, Val)
  BY <1>1, SumPlus, ValFinite
<1> QED
  BY <1>2, Zenon DEF f, g, h

(* The records of some entries amount to no more than these.               *)
LEMMA RecordsCovered ==
    ASSUME TierTypeOK, NEW E, \A v \in Val : E[v] \in SUBSET ubd[v],
           \A v \in Val : \A e \in ubd[v] : AmountOf(RecordsOf(v, e.height)) <= e.balance
    PROVE  AmountOf({u \in unlocking : \E e \in E[u.val] : e.height = u.height})
             <= SumFunctionOnSet([v \in Val |-> BalanceOf(E[v])], Val)
<1> DEFINE Class(v) == [e \in E[v] |-> RecordsOf(v, e.height)]
           Covered(v) == InSome(unlocking, E[v], Class(v))
           cov == [v \in Val |-> Covered(v)]
           bal == [v \in Val |-> BalanceOf(E[v])]
<1>1. Recs(unlocking)
  BY Zenon DEF TierTypeOK, RecordsOK, Recs
<1>2. ASSUME NEW v \in Val PROVE SumFunctionOnSet(AmountIn, Covered(v)) <= BalanceOf(E[v]) /\ BalanceOf(E[v]) \in Int
  <2>1. Ents(E[v])
    BY EntsOf, EntsPart, Zenon
  <2>2. \A e \in E[v] : Class(v)[e] = RecordsOf(v, e.height) /\ RecordsOf(v, e.height) \in SUBSET unlocking
    BY Zenon DEF RecordsOf
  <2>3. \A e \in E[v] : SumFunctionOnSet(AmountIn, RecordsOf(v, e.height)) <= e.balance
    BY <1>1, <2>2, RecsPart, AmountIsSum, Zenon
  <2>4. IsFiniteSet(E[v]) /\ BalanceOf(E[v]) = SumFunctionOnSet(BalanceIn, E[v]) /\ BalanceOf(E[v]) \in Nat
        /\ \A e \in E[v] : BalanceIn[e] \in Nat /\ BalanceIn[e] = e.balance
    BY <2>1, BalanceIsSum, Zenon
  <2>5. IsFiniteSet(unlocking) /\ \A u \in unlocking : AmountIn[u] \in Nat
    BY <1>1, AmountIsSum, Zenon
  <2>6. \A e \in E[v] : /\ Class(v)[e] \in SUBSET unlocking /\ BalanceIn[e] \in Int
                        /\ SumFunctionOnSet(AmountIn, Class(v)[e]) <= BalanceIn[e]
    <3> HIDE DEF Class
    <3> SUFFICES ASSUME NEW e \in E[v]
                 PROVE  /\ Class(v)[e] \in SUBSET unlocking /\ BalanceIn[e] \in Int
                        /\ SumFunctionOnSet(AmountIn, Class(v)[e]) <= BalanceIn[e]
      BY Zenon
    <3>1. Class(v)[e] = RecordsOf(v, e.height) /\ RecordsOf(v, e.height) \in SUBSET unlocking
      BY <2>2, Zenon
    <3>2. SumFunctionOnSet(AmountIn, RecordsOf(v, e.height)) <= BalanceIn[e]
      BY <2>3, <2>4, Zenon
    <3>3. BalanceIn[e] \in Int
      BY <2>4
    <3> QED
      BY <3>1, <3>2, <3>3, Zenon
  <2> HIDE DEF Class
  <2>7. SumFunctionOnSet(AmountIn, Covered(v)) <= SumFunctionOnSet(BalanceIn, E[v])
    BY <2>4, <2>5, <2>6, SumCovered, Zenon
  <2> HIDE DEF Covered
  <2> QED
    BY <2>4, <2>7
<1>3. \A v \in Val : cov[v] \in SUBSET unlocking /\ bal[v] \in Int /\ SumFunctionOnSet(AmountIn, cov[v]) <= bal[v]
  <2>1. \A v \in Val : Covered(v) \in SUBSET unlocking
    BY Zenon DEF InSome
  <2> HIDE DEF Class, Covered
  <2> QED
    BY <1>2, <2>1, Zenon
<1> DEFINE all == InSome(unlocking, Val, cov)
<1>4. {u \in unlocking : \E e \in E[u.val] : e.height = u.height} = all
  <2>1. \A u \in unlocking : u.val \in Val
    BY <1>1, Zenon DEF Recs, Unlocking
  <2> QED
    BY <2>1, Zenon DEF RecordsOf, InSome
<1> HIDE DEF Covered, Class, cov, bal
<1>5. IsFiniteSet(unlocking) /\ \A u \in unlocking : AmountIn[u] \in Nat
  BY <1>1, AmountIsSum, Zenon
<1>6. SumFunctionOnSet(AmountIn, all) <= SumFunctionOnSet(bal, Val)
  BY <1>3, <1>5, SumCovered, ValFinite, Zenon
<1>7. Recs(all)
  BY <1>1, RecsPart, Zenon DEF InSome
<1> HIDE DEF all
<1>8. AmountOf(all) <= SumFunctionOnSet(bal, Val)
  BY <1>6, <1>7, AmountIsSum, Zenon
<1> QED
  BY <1>4, <1>8, Zenon DEF bal

-----------------------------------------------------------------------------
(* Without slashing, what is being unlocked is covered *)

(* What matures in this block is a natural number.                         *)
LEMMA MaturingNat == TierTypeOK => Maturing \in Nat
<1> SUFFICES ASSUME TierTypeOK PROVE Maturing \in Nat
  BY Zenon
<1>1. ASSUME NEW v \in Val PROVE BalanceOf(Matured(v)) \in Nat
  BY EntsOf, EntsPart, BalanceIsSum, Zenon DEF Matured
<1> DEFINE f == [v \in Val |-> BalanceOf(Matured(v))]
<1>2. \A v \in Val : f[v] \in Nat
  BY <1>1, Zenon
<1> HIDE DEF f
<1>3. SumFunctionOnSet(f, Val) \in Nat
  BY <1>2, ValFinite, SumNat, Zenon
<1> QED
  BY <1>3, Zenon DEF Maturing, f

(* Fewer open records need no more coins.                                  *)
LEMMA OpenShrinks ==
    ASSUME TierTypeOK, OpenCovered, Open' \subseteq Open, Maturing' = Maturing, UNCHANGED module
    PROVE  OpenCovered'
<1>1. Recs(Open) /\ Open' \in SUBSET Open
  BY RecsPart, Zenon DEF TierTypeOK, RecordsOK, Recs, Open
<1>2. AmountOf(Open') <= AmountOf(Open) /\ AmountOf(Open') \in Nat /\ AmountOf(Open) \in Nat
  BY <1>1, AmountPart, AmountIsSum, RecsPart, Zenon
<1>3. module \in Int /\ Maturing \in Nat
  BY MaturingNat, Zenon DEF TierTypeOK, CoinsOK
<1>4. AmountOf(Open') <= module' + Maturing'
  BY <1>2, <1>3 DEF OpenCovered
<1> QED
  BY <1>4, Zenon DEF OpenCovered

(* The unbonding entry of an Unlock, and what it replaces.                 *)
SameBlock(v) == {e \in ubd[v] : e.height = height}
Merged(v, back, m) ==
    /\ m.height = height /\ m.completion = now + UnbondingTime /\ m.balance = back + BalanceOf(SameBlock(v))
    /\ ubd'[v] = (ubd[v] \ SameBlock(v)) \cup {m}
    /\ \A w \in Val \ {v} : ubd'[w] = ubd[w]

(* Undelegating makes an entry for this block or adds to the one there is. *)
LEMMA UnbondingEntry ==
    ASSUME TierTypeOK, NEW v \in Val, NEW back, ubd' = Unbonding(v, back)
    PROVE  \E m : Merged(v, back, m)
<1> DEFINE m == [height |-> height, completion |-> now + UnbondingTime, balance |-> back + BalanceOf(SameBlock(v))]
<1>1. ubd' = [ubd EXCEPT ![v] = (@ \ SameBlock(v)) \cup {m}]
  BY Zenon DEF Unbonding, SameBlock
<1>2. m.height = height /\ m.completion = now + UnbondingTime /\ m.balance = back + BalanceOf(SameBlock(v))
  BY Zenon
<1> HIDE DEF m
<1>3. Merged(v, back, m)
  BY <1>1, <1>2, Zenon DEF Merged, TierTypeOK, StakingOK
<1> QED
  BY <1>3, Zenon

(* What was unbonded before in this block covers its records.              *)
LEMMA SameCovers ==
    ASSUME TierTypeOK, Ledger, NEW v \in Val
    PROVE  /\ AmountOf(RecordsOf(v, height)) <= BalanceOf(SameBlock(v)) /\ BalanceOf(SameBlock(v)) \in Nat
           /\ Recs(RecordsOf(v, height))
<1>1. Recs(RecordsOf(v, height))
  BY RecsPart, Zenon DEF TierTypeOK, RecordsOK, Recs, RecordsOf
<1>2. BalanceOf(SameBlock(v)) \in Nat
  BY EntsOf, EntsPart, BalanceIsSum, Zenon DEF SameBlock
<1>3. CASE SameBlock(v) = {}
  <2>1. RecordsOf(v, height) = {}
    BY <1>3, Zenon DEF Ledger, RecordsTimed, RecordsOf, SameBlock
  <2>2. AmountOf(RecordsOf(v, height)) = 0
    BY <2>1, SumEmpty, Zenon DEF AmountOf
  <2> QED
    BY <1>1, <1>2, <2>2
<1>4. CASE SameBlock(v) # {}
  <2>1. PICK e \in ubd[v] : e.height = height
    BY <1>4, Zenon DEF SameBlock
  <2>2. SameBlock(v) = {e}
    BY <2>1, Zenon DEF SameBlock, Ledger, UniqueEntries
  <2>3. e \in Entry
    BY Zenon DEF TierTypeOK, StakingOK
  <2>4. BalanceOf({e}) = e.balance
    BY <2>3, BalanceOne, Zenon
  <2>5. AmountOf(RecordsOf(v, e.height)) <= e.balance
    BY Zenon DEF Ledger, EntriesCover
  <2> QED
    BY <1>1, <1>2, <2>1, <2>2, <2>4, <2>5, Zenon
<1> QED
  BY <1>3, <1>4, Zenon

(* Unlock makes the record r, and its coins go to the entry m.             *)
Unlocked(v, a, r, m) ==
    /\ a \in Nat \ {0} /\ v \in Val /\ r \in Unlocking
    /\ r.val = v /\ r.height = height /\ r.amount = a /\ r.completion = now + UnbondingTime
    /\ unlocking' = SetUnlocking(r) /\ Merged(v, a, m)
    /\ UNCHANGED <<now, height, module>> /\ now + UnbondingTime > now

(* Unlock has the effect that Unlocked describes.                          *)
LEMMA UnlockedBy ==
    ASSUME TierTypeOK, uneven = {}, NEW d \in Del, NEW v \in Val, NEW a \in Amount, Unlock(d, v, a)
    PROVE  \E r, m : Unlocked(v, a, r, m)
<1>1. PICK back \in Nat :
        /\ (v \notin uneven => back = a) /\ unlocking' = SetUnlocking(UnlockRecord(d, v, back))
        /\ ubd' = Unbonding(v, back) /\ UnlockRecord(d, v, back) \in Unlocking
  BY UnlockEffect, Zenon
<1>2. back = a
  BY <1>1, Zenon
<1>3. PICK m : Merged(v, a, m)
  BY <1>1, <1>2, UnbondingEntry, Zenon
<1>4. a \in Nat \ {0} /\ now + UnbondingTime > now
  BY TierAssumption DEF TierTypeOK, ClockOK
<1> DEFINE r == UnlockRecord(d, v, a)
<1>5. r.val = v /\ r.height = height /\ r.amount = a /\ r.completion = now + UnbondingTime
  BY Zenon DEF UnlockRecord
<1>6. UNCHANGED <<now, height, module>>
  BY UnlockFrame, Zenon DEF Frame
<1> HIDE DEF r
<1>7. unlocking' = SetUnlocking(r) /\ r \in Unlocking
  BY <1>1, <1>2, Zenon DEF r
<1>8. Unlocked(v, a, r, m)
  BY <1>3, <1>4, <1>5, <1>6, <1>7, Zenon DEF Unlocked
<1> QED
  BY <1>8, Zenon

(* The classes of records after an Unlock.                                 *)
LEMMA UnlockClasses ==
    ASSUME TierTypeOK, NEW v, NEW a, NEW r, NEW m, Unlocked(v, a, r, m)
    PROVE  /\ \A w, h : ~(w = v /\ h = height) => RecordsOf(w, h)' = RecordsOf(w, h)
           /\ Recs(RecordsOf(v, height)) => AmountOf(RecordsOf(v, height)') <= AmountOf(RecordsOf(v, height)) + a
<1> DEFINE R == RecordsOf(v, height)
           K == {w \in R : KeyOf(w) # KeyOf(r)}
<1>1. RecordsOf(v, height)' = K \cup {r}
  BY Zenon DEF Unlocked, RecordsOf, SetUnlocking
<1>2. \A w, h : ~(w = v /\ h = height) => RecordsOf(w, h)' = RecordsOf(w, h)
  BY Zenon DEF Unlocked, RecordsOf, SetUnlocking, KeyOf
<1>3. ASSUME Recs(R) PROVE AmountOf(K \cup {r}) <= AmountOf(R) + a
  <2>1. Recs(K) /\ K \in SUBSET R
    BY <1>3, RecsPart, Zenon
  <2>2. Recs({r}) /\ AmountOf({r}) = a /\ a \in Nat
    BY AmountOne, Zenon DEF Unlocked
  <2> HIDE DEF K, R
  <2>3. AmountOf(K \cup {r}) <= AmountOf(K) + AmountOf({r})
    BY <2>1, <2>2, AmountCup, Zenon
  <2>4. AmountOf(K) <= AmountOf(R)
    BY <1>3, <2>1, AmountPart, Zenon
  <2>5. AmountOf(K) \in Nat /\ AmountOf(R) \in Nat /\ AmountOf(K \cup {r}) \in Nat
    BY <1>3, <2>1, <2>2, AmountIsSum, RecsCup, Zenon
  <2> QED
    BY <2>2, <2>3, <2>4, <2>5
<1> QED
  BY <1>1, <1>2, <1>3, Zenon

(* What two bounds in a row allow.                                         *)
LEMMA AtMostBoth ==
    ASSUME NEW x \in Nat, NEW y \in Nat, NEW z \in Nat, NEW a \in Nat, x <= y + a, y <= z
    PROVE  x <= a + z
OBVIOUS

(* The entry of this block covers the record that Unlock makes with it.    *)
LEMMA UnlockCover ==
    ASSUME TierTypeOK, Ledger, NEW v, NEW a, NEW r, NEW m, Unlocked(v, a, r, m)
    PROVE  EntriesCover'
<1> SUFFICES ASSUME NEW w \in Val, NEW e \in ubd'[w] PROVE AmountOf(RecordsOf(w, e.height)') <= e.balance
  BY Zenon DEF EntriesCover
<1>0. v \in Val /\ a \in Nat /\ Merged(v, a, m)
  BY Zenon DEF Unlocked
<1>1. CASE w = v /\ e = m
  <2>1. e.height = height /\ e.balance = a + BalanceOf(SameBlock(v))
    BY <1>0, <1>1, Zenon DEF Merged
  <2>2. /\ AmountOf(RecordsOf(v, height)) <= BalanceOf(SameBlock(v)) /\ BalanceOf(SameBlock(v)) \in Nat
        /\ Recs(RecordsOf(v, height))
    BY <1>0, SameCovers, Zenon
  <2>3. AmountOf(RecordsOf(v, height)') <= AmountOf(RecordsOf(v, height)) + a
    BY <2>2, UnlockClasses, Zenon
  <2>4. AmountOf(RecordsOf(v, height)) \in Nat
    BY <2>2, AmountIsSum, Zenon
  <2>5. AmountOf(RecordsOf(v, height)') \in Nat
    <3>1. Recs(RecordsOf(v, height)')
      <4>1. unlocking' \subseteq unlocking \cup {r} /\ r \in Unlocking
        BY Zenon DEF Unlocked, SetUnlocking
      <4>2. Recs(unlocking \cup {r})
        BY <4>1, AmountOne, RecsCup, Zenon DEF TierTypeOK, RecordsOK, Recs
      <4> QED
        BY <4>1, <4>2, RecsPart, Zenon DEF RecordsOf
    <3> QED
      BY <3>1, AmountIsSum, Zenon
  <2>6. RecordsOf(w, e.height)' = RecordsOf(v, height)'
    BY <1>1, <2>1, Zenon DEF RecordsOf, Unlocked
  <2>7. AmountOf(RecordsOf(v, height)') <= e.balance
    <3>1. a \in Nat
      BY <1>0, Zenon
    <3>2. AmountOf(RecordsOf(v, height)') <= a + BalanceOf(SameBlock(v))
      BY <2>2, <2>3, <2>4, <2>5, <3>1, AtMostBoth, Zenon
    <3> QED
      BY <2>1, <3>2, Zenon
  <2> QED
    BY <2>6, <2>7, Zenon
<1>2. CASE ~(w = v /\ e = m)
  <2>1. e \in ubd[w] /\ ~(w = v /\ e.height = height)
    BY <1>0, <1>2 DEF Merged, SameBlock
  <2>2. AmountOf(RecordsOf(w, e.height)) <= e.balance
    BY <2>1, Zenon DEF Ledger, EntriesCover
  <2>3. RecordsOf(w, e.height)' = RecordsOf(w, e.height)
    BY <2>1, UnlockClasses, Zenon
  <2> QED
    BY <2>2, <2>3, Zenon
<1> QED
  BY <1>1, <1>2, Zenon

(* The record of Unlock matures with its entry.                            *)
LEMMA UnlockTimes ==
    ASSUME TierTypeOK, Ledger, NEW v, NEW a, NEW r, NEW m, Unlocked(v, a, r, m)
    PROVE  UniqueEntries' /\ EntriesTimed' /\ RecordsTimed'
<1>0. /\ v \in Val /\ a \in Nat \ {0} /\ r.val = v /\ r.height = height /\ r.amount = a
      /\ r.completion = now + UnbondingTime /\ UNCHANGED <<now, height>>
      /\ m.height = height /\ m.completion = now + UnbondingTime
      /\ ubd'[v] = (ubd[v] \ SameBlock(v)) \cup {m} /\ \A w \in Val \ {v} : ubd'[w] = ubd[w]
  BY Zenon DEF Unlocked, Merged
<1>1. ASSUME NEW w \in Val, NEW e \in ubd'[w]
      PROVE  \/ w = v /\ e = m
             \/ e \in ubd[w] /\ ~(w = v /\ e.height = height)
  BY <1>0, Zenon DEF SameBlock
<1>2. UniqueEntries'
  BY <1>0, <1>1 DEF Ledger, UniqueEntries
<1>3. EntriesTimed'
  <2>1. height \in Nat
    BY Zenon DEF TierTypeOK, ClockOK
  <2> QED
    BY <1>0, <1>1, <2>1 DEF Ledger, EntriesTimed
<1>4. ASSUME NEW u \in unlocking'
      PROVE  /\ u.amount > 0 /\ u.height <= height /\ u.val \in Val
             /\ u.height = height => \E e \in ubd'[u.val] : e.height = height
             /\ \A e \in ubd'[u.val] : e.height = u.height => e.completion = u.completion
  <2>1. u = r \/ u \in unlocking
    BY Zenon DEF Unlocked, SetUnlocking
  <2>2. CASE u = r
    <3>1. u.amount > 0 /\ u.height <= height /\ u.val \in Val
      <4>1. height \in Nat
        BY Zenon DEF TierTypeOK, ClockOK
      <4> QED
        BY <1>0, <2>2, <4>1
    <3>2. \E e \in ubd'[u.val] : e.height = height
      BY <1>0, <2>2, Zenon
    <3>3. \A e \in ubd'[u.val] : e.height = u.height => e.completion = u.completion
      BY <1>0, <1>1, <2>2, Zenon
    <3> QED
      BY <3>1, <3>2, <3>3, Zenon
  <2>3. CASE u \in unlocking
    <3>1. /\ u.amount > 0 /\ u.height <= height /\ u.val \in Val
          /\ u.height = height => \E e \in ubd[u.val] : e.height = height
          /\ \A e \in ubd[u.val] : e.height = u.height => e.completion = u.completion
      BY <2>3, Zenon DEF Ledger, RecordsTimed, TierTypeOK, RecordsOK, Unlocking
    <3>2. u.height = height => \E e \in ubd'[u.val] : e.height = height
      BY <1>0, <3>1, Zenon
    <3>3. u.height = height => u.completion = now + UnbondingTime
      BY <3>1, Zenon DEF Ledger, EntriesTimed
    <3>4. \A e \in ubd'[u.val] : e.height = u.height => e.completion = u.completion
      BY <1>0, <1>1, <3>1, <3>3, Zenon
    <3> QED
      BY <3>1, <3>2, <3>4, Zenon
  <2> QED
    BY <2>1, <2>2, <2>3, Zenon
<1>5. RecordsTimed'
  BY <1>0, <1>4, Zenon DEF RecordsTimed
<1> QED
  BY <1>2, <1>3, <1>5, Zenon

(* Unlock opens no record.                                                 *)
LEMMA UnlockOpen ==
    ASSUME TierTypeOK, Ledger, NEW v, NEW a, NEW r, NEW m, Unlocked(v, a, r, m)
    PROVE  OpenCovered'
<1>0. /\ v \in Val /\ r.val = v /\ r.height = height /\ UNCHANGED <<now, height, module>>
      /\ m.height = height /\ m.completion = now + UnbondingTime /\ now + UnbondingTime > now
      /\ ubd'[v] = (ubd[v] \ SameBlock(v)) \cup {m} /\ \A w \in Val \ {v} : ubd'[w] = ubd[w]
  BY Zenon DEF Unlocked, Merged
<1>t. now \in Nat /\ UnbondingTime \in Nat
  BY TierAssumption, Zenon DEF TierTypeOK, ClockOK
<1>1. Open' \subseteq Open
  <2> SUFFICES ASSUME NEW u \in Open' PROVE u \in Open
    BY Zenon
  <2>1. /\ u \in unlocking' /\ \A e \in ubd'[u.val] : e.height = u.height => e.completion <= now
    BY <1>0, Zenon DEF Open
  <2>2. u = r \/ u \in unlocking
    BY <2>1, Zenon DEF Unlocked, SetUnlocking
  <2>3. ~(u.val = v /\ u.height = height)
    BY <1>0, <1>t, <2>1
  <2>4. u \in unlocking /\ u.val \in Val
    BY <1>0, <2>2, <2>3, Zenon DEF TierTypeOK, RecordsOK, Unlocking
  <2>5. \A e \in ubd[u.val] : e.height = u.height => e \in ubd'[u.val]
    BY <1>0, <2>3, <2>4, Zenon DEF SameBlock
  <2> QED
    BY <2>1, <2>4, <2>5, Zenon DEF Open
<1>2. ASSUME NEW w \in Val PROVE Matured(w)' = Matured(w)
  <2>1. CASE w # v
    BY <1>0, <2>1, Zenon DEF Matured
  <2>2. CASE w = v
    <3>1. \A e \in SameBlock(v) : ~(e.completion <= now)
      BY <1>0, <1>t DEF SameBlock, Ledger, EntriesTimed
    <3>2. ~(m.completion <= now)
      BY <1>0, <1>t
    <3> QED
      BY <1>0, <2>2, <3>1, <3>2, Zenon DEF Matured, SameBlock
  <2> QED
    BY <2>1, <2>2, Zenon
<1>3. Maturing' = Maturing
  BY <1>2, Zenon DEF Maturing
<1> QED
  BY <1>0, <1>1, <1>3, OpenShrinks, Zenon DEF Ledger

(* Unlock keeps the ledger.                                                *)
LEMMA UnlockLedger ==
    ASSUME TierTypeOK, uneven = {}, Ledger, NEW d \in Del, NEW v \in Val, NEW a \in Amount, Unlock(d, v, a)
    PROVE  Ledger'
<1>1. PICK r, m : Unlocked(v, a, r, m)
  BY UnlockedBy, Zenon
<1> QED
  BY <1>1, UnlockCover, UnlockTimes, UnlockOpen, Zenon DEF Ledger

(* What is left of an unbonding entry of which a part is cancelled, and    *)
(* what a cancellation does to an entry and a record.                      *)
EntryRest(e, a) == IF a = e.balance THEN {} ELSE {[e EXCEPT !.balance = @ - a]}
Less(v, a, e, u) ==
    /\ a \in Nat \ {0} /\ v \in Val /\ e \in ubd[v] /\ u \in unlocking /\ e \in Entry /\ u \in Unlocking
    /\ u.val = v /\ u.height = e.height /\ a <= u.amount /\ a <= e.balance /\ e.completion > now
    /\ unlocking' = (unlocking \ {u}) \cup Rest(u, a) /\ Rest(u, a) \cap unlocking = {}
    /\ ubd'[v] = (ubd[v] \ {e}) \cup EntryRest(e, a) /\ \A w \in Val \ {v} : ubd'[w] = ubd[w]
    /\ UNCHANGED <<now, height, module>>

(* CancelUnlocking has the effect that Less describes.                     *)
LEMMA LessBy ==
    ASSUME TierTypeOK, UniqueKeys, NEW d \in Del, NEW v \in Val, NEW h, NEW a \in Amount,
           CancelUnlocking(d, v, h, a)
    PROVE  \E e, u : Less(v, a, e, u)
<1>1. PICK e \in ubd[v], u \in unlocking : Cancelled(d, v, h, a, e, u)
  BY CancelEffect, Zenon
<1>2. ubd' = [ubd EXCEPT ![v] = (@ \ {e}) \cup EntryRest(e, a)]
  BY <1>1, Zenon DEF Cancelled, EntryRest
<1>3. ubd'[v] = (ubd[v] \ {e}) \cup EntryRest(e, a) /\ \A w \in Val \ {v} : ubd'[w] = ubd[w]
  BY <1>2, Zenon DEF TierTypeOK, StakingOK
<1>4. UNCHANGED <<now, height, module>>
  BY CancelFrame, Zenon DEF Frame
<1>5. a \in Nat \ {0} /\ e \in Entry
  BY TierAssumption, Zenon DEF TierTypeOK, StakingOK
<1>6. Less(v, a, e, u)
  BY <1>1, <1>3, <1>4, <1>5, Zenon DEF Less, Cancelled
<1> QED
  BY <1>6, Zenon

(* What a cancellation leaves of an entry has its height and time.         *)
LEMMA EntryRestOf ==
    ASSUME NEW e \in Entry, NEW a \in Nat \ {0}
    PROVE  \A f \in EntryRest(e, a) : f.height = e.height /\ f.completion = e.completion /\ f.balance = e.balance - a
BY Zenon DEF EntryRest, Entry

(* The classes of records after a cancellation.                            *)
LEMMA LessClasses ==
    ASSUME TierTypeOK, Ledger, NEW v, NEW a, NEW e, NEW u, Less(v, a, e, u)
    PROVE  /\ \A w, h : ~(w = v /\ h = e.height) => RecordsOf(w, h)' = RecordsOf(w, h)
           /\ AmountOf(RecordsOf(v, e.height)') = AmountOf(RecordsOf(v, e.height)) - a
           /\ Recs(RecordsOf(v, e.height)')
<1> DEFINE R == RecordsOf(v, e.height)
<1>0. /\ a \in Nat \ {0} /\ u \in unlocking /\ u \in Unlocking /\ u.val = v /\ u.height = e.height /\ a <= u.amount
      /\ unlocking' = (unlocking \ {u}) \cup Rest(u, a) /\ Rest(u, a) \cap unlocking = {}
  BY Zenon DEF Less
<1>1. \A r \in Rest(u, a) : r.val = v /\ r.height = e.height
  BY <1>0, RestOf, Zenon
<1>2. \A w, h : ~(w = v /\ h = e.height) => RecordsOf(w, h)' = RecordsOf(w, h)
  BY <1>0, <1>1, Zenon DEF RecordsOf
<1>3. RecordsOf(v, e.height)' = (R \ {u}) \cup Rest(u, a)
  BY <1>0, <1>1, Zenon DEF RecordsOf
<1>4. u \in R /\ Rest(u, a) \cap R = {} /\ Recs(R)
  BY <1>0, RecsPart, Zenon DEF RecordsOf, TierTypeOK, RecordsOK, Recs
<1> HIDE DEF R
<1>5. AmountOf((R \ {u}) \cup Rest(u, a)) = AmountOf(R) - a /\ Recs((R \ {u}) \cup Rest(u, a))
  BY <1>0, <1>4, LessAmount, Zenon
<1> QED
  BY <1>2, <1>3, <1>5, Zenon DEF R

(* When an entry is cancelled whole, no record waits for it.               *)
LEMMA LessWhole ==
    ASSUME TierTypeOK, Ledger, NEW v, NEW a, NEW e, NEW u, Less(v, a, e, u), a = e.balance
    PROVE  RecordsOf(v, e.height)' = {}
<1> DEFINE R == RecordsOf(v, e.height)'
<1>1. a \in Nat \ {0} /\ AmountOf(RecordsOf(v, e.height)) <= a
  BY Zenon DEF Less, Ledger, EntriesCover
<1>2. AmountOf(R) = AmountOf(RecordsOf(v, e.height)) - a /\ Recs(R)
  BY LessClasses, Zenon
<1>3. AmountOf(RecordsOf(v, e.height)) \in Nat
  BY RecsPart, AmountIsSum, Zenon DEF TierTypeOK, RecordsOK, Recs, RecordsOf
<1>4. \A x \in R : x.amount \in Nat /\ x.amount > 0
  <2>1. \A x \in unlocking' : x.amount > 0
    <3>1. \A x \in Rest(u, a) : x.amount > 0
      BY RestOf, Zenon DEF Less
    <3> QED
      BY <3>1, Zenon DEF Less, Ledger, RecordsTimed
  <2> QED
    BY <1>2, <2>1, Zenon DEF RecordsOf, Recs, Unlocking
<1> HIDE DEF R
<1>5. AmountOf(R) \in Nat /\ AmountOf(R) <= 0
  BY <1>1, <1>2, <1>3, AmountIsSum
<1>6. ASSUME NEW x \in R PROVE FALSE
  <2>1. AmountOf(R) = AmountOf(R \ {x}) + x.amount /\ Recs(R \ {x})
    BY <1>2, AmountLess, Zenon
  <2>2. AmountOf(R \ {x}) \in Nat
    BY <2>1, AmountIsSum, Zenon
  <2> QED
    BY <1>4, <1>5, <2>1, <2>2
<1> QED
  BY <1>6, Zenon DEF R

(* An entry and a record that lose the same amount: the entry still covers *)
(* its records.                                                            *)
LEMMA LessCover ==
    ASSUME TierTypeOK, Ledger, NEW v, NEW a, NEW e, NEW u, Less(v, a, e, u)
    PROVE  EntriesCover'
<1> SUFFICES ASSUME NEW w \in Val, NEW f \in ubd'[w] PROVE AmountOf(RecordsOf(w, f.height)') <= f.balance
  BY Zenon DEF EntriesCover
<1>0. /\ v \in Val /\ a \in Nat \ {0} /\ e \in Entry /\ e \in ubd[v]
      /\ ubd'[v] = (ubd[v] \ {e}) \cup EntryRest(e, a) /\ \A x \in Val \ {v} : ubd'[x] = ubd[x]
  BY Zenon DEF Less
<1>1. CASE w = v /\ f \in EntryRest(e, a)
  <2>1. f.height = e.height /\ f.balance = e.balance - a /\ e.balance \in Nat
    BY <1>0, <1>1, EntryRestOf, Zenon DEF Entry
  <2>2. AmountOf(RecordsOf(v, e.height)') = AmountOf(RecordsOf(v, e.height)) - a
    BY LessClasses, Zenon
  <2>3. AmountOf(RecordsOf(v, e.height)) <= e.balance /\ AmountOf(RecordsOf(v, e.height)) \in Nat
    BY <1>0, RecsPart, AmountIsSum, Zenon DEF TierTypeOK, RecordsOK, Recs, RecordsOf, Ledger, EntriesCover
  <2>4. RecordsOf(w, f.height)' = RecordsOf(v, e.height)'
    BY <1>1, <2>1, Zenon DEF RecordsOf
  <2>5. a \in Nat
    BY <1>0, Zenon
  <2>6. AmountOf(RecordsOf(v, e.height)') <= f.balance
    BY <2>1, <2>2, <2>3, <2>5
  <2> QED
    BY <2>4, <2>6, Zenon
<1>2. CASE f \in ubd[w] /\ ~(w = v /\ f = e)
  <2>1. ~(w = v /\ f.height = e.height)
    BY <1>0, <1>2, Zenon DEF Ledger, UniqueEntries
  <2>2. RecordsOf(w, f.height)' = RecordsOf(w, f.height)
    BY <2>1, LessClasses, Zenon
  <2> QED
    BY <1>2, <2>2, Zenon DEF Ledger, EntriesCover
<1> QED
  BY <1>0, <1>1, <1>2, Zenon

(* What a cancellation leaves keeps its times; an entry that it uses up    *)
(* has no record left.                                                     *)
LEMMA LessTimes ==
    ASSUME TierTypeOK, Ledger, NEW v, NEW a, NEW e, NEW u, Less(v, a, e, u)
    PROVE  UniqueEntries' /\ EntriesTimed' /\ RecordsTimed'
<1>0. /\ v \in Val /\ a \in Nat \ {0} /\ e \in Entry /\ e \in ubd[v] /\ u \in unlocking /\ u \in Unlocking
      /\ u.val = v /\ u.height = e.height /\ a <= u.amount /\ UNCHANGED <<now, height>>
      /\ unlocking' = (unlocking \ {u}) \cup Rest(u, a)
      /\ ubd'[v] = (ubd[v] \ {e}) \cup EntryRest(e, a) /\ \A x \in Val \ {v} : ubd'[x] = ubd[x]
  BY Zenon DEF Less
<1>1. ASSUME NEW w \in Val, NEW f \in ubd'[w]
      PROVE  \E g \in ubd[w] : g.height = f.height /\ g.completion = f.completion
  BY <1>0, EntryRestOf
<1>2. UniqueEntries'
  <2>1. \A f \in EntryRest(e, a) : f.height = e.height
    BY <1>0, EntryRestOf, Zenon
  <2>2. \A f, g \in EntryRest(e, a) : f = g
    BY Zenon DEF EntryRest
  <2> QED
    BY <1>0, <2>1, <2>2 DEF Ledger, UniqueEntries
<1>3. EntriesTimed'
  BY <1>0, <1>1 DEF Ledger, EntriesTimed
<1>4. ASSUME NEW x \in unlocking'
      PROVE  /\ x.amount > 0 /\ x.height <= height /\ x.val \in Val
             /\ x.height = height => \E f \in ubd'[x.val] : f.height = height
             /\ \A f \in ubd'[x.val] : f.height = x.height => f.completion = x.completion
  <2>1. PICK y \in unlocking : y.val = x.val /\ y.height = x.height /\ y.completion = x.completion /\ x.amount > 0
    <3>1. CASE x \in Rest(u, a)
      <4>1. x.val = u.val /\ x.height = u.height /\ x.completion = u.completion /\ x.amount > 0
        BY <1>0, <3>1, RestOf
      <4> QED
        BY <1>0, <4>1, Zenon
    <3>2. CASE x \in unlocking
      BY <3>2, Zenon DEF Ledger, RecordsTimed
    <3> QED
      BY <1>0, <3>1, <3>2, Zenon
  <2>2. /\ y.height <= height /\ y.val \in Val
        /\ y.height = height => \E f \in ubd[y.val] : f.height = height
        /\ \A f \in ubd[y.val] : f.height = y.height => f.completion = y.completion
    BY Zenon DEF Ledger, RecordsTimed, TierTypeOK, RecordsOK, Unlocking
  <2>3. ASSUME x.height = height PROVE \E f \in ubd'[x.val] : f.height = height
    <3>1. PICK f \in ubd[x.val] : f.height = height
      BY <2>1, <2>2, <2>3, Zenon
    <3>2. CASE x.val = v /\ f = e
      <4>1. x \in RecordsOf(v, e.height)'
        BY <2>3, <3>1, <3>2, Zenon DEF RecordsOf
      <4>2. a # e.balance
        BY <4>1, LessWhole, Zenon
      <4>3. PICK g : g \in EntryRest(e, a)
        BY <4>2, Zenon DEF EntryRest
      <4>4. g.height = e.height
        BY <1>0, <4>3, EntryRestOf, Zenon
      <4>5. g \in ubd'[v]
        BY <1>0, <4>3, Zenon
      <4> QED
        BY <3>1, <3>2, <4>4, <4>5, Zenon
    <3> QED
      BY <1>0, <2>1, <2>2, <3>1, <3>2, Zenon
  <2>4. \A f \in ubd'[x.val] : f.height = x.height => f.completion = x.completion
    BY <1>1, <2>1, <2>2
  <2> QED
    BY <2>1, <2>2, <2>3, <2>4, Zenon
<1>5. RecordsTimed'
  BY <1>0, <1>4, Zenon DEF RecordsTimed
<1> QED
  BY <1>2, <1>3, <1>5, Zenon

(* A cancellation opens no record.                                         *)
LEMMA LessOpen ==
    ASSUME TierTypeOK, Ledger, NEW v, NEW a, NEW e, NEW u, Less(v, a, e, u)
    PROVE  OpenCovered'
<1>0. /\ v \in Val /\ a \in Nat \ {0} /\ e \in Entry /\ e \in ubd[v] /\ u \in Unlocking
      /\ u.val = v /\ u.height = e.height /\ a <= u.amount /\ e.completion > now /\ UNCHANGED <<now, height, module>>
      /\ unlocking' = (unlocking \ {u}) \cup Rest(u, a)
      /\ ubd'[v] = (ubd[v] \ {e}) \cup EntryRest(e, a) /\ \A x \in Val \ {v} : ubd'[x] = ubd[x]
  BY Zenon DEF Less
<1>t. now \in Nat /\ e.completion \in Nat /\ ~(e.completion <= now)
  <2>1. now \in Nat
    BY Zenon DEF TierTypeOK, ClockOK
  <2>2. e \in Entry /\ e.completion > now
    BY <1>0, Zenon
  <2>3. e.completion \in Nat
    BY <2>2, Zenon DEF Entry
  <2> QED
    BY <2>1, <2>2, <2>3
<1>r. \A f \in EntryRest(e, a) : f.height = e.height /\ f.completion = e.completion
  BY <1>0, EntryRestOf, Zenon
<1>1. ASSUME NEW x \in Open' PROVE x \in Open
  <2>1. x \in unlocking' /\ \A f \in ubd'[x.val] : f.height = x.height => f.completion <= now
    BY <1>0, Zenon DEF Open
  <2>2. ~(x.val = v /\ x.height = e.height)
    <3> SUFFICES ASSUME x.val = v, x.height = e.height PROVE FALSE
      BY Zenon
    <3>1. x \in RecordsOf(v, e.height)'
      BY <2>1, Zenon DEF RecordsOf
    <3>2. a # e.balance
      BY <3>1, LessWhole, Zenon
    <3>3. PICK g : g \in EntryRest(e, a)
      BY <3>2, Zenon DEF EntryRest
    <3> QED
      BY <1>0, <1>r, <1>t, <2>1, <3>3, Zenon
  <2>3. x \in unlocking /\ x.val \in Val
    <3>1. \A r \in Rest(u, a) : r.val = v /\ r.height = e.height
      BY <1>0, RestOf
    <3> QED
      BY <1>0, <2>1, <2>2, <3>1, Zenon DEF TierTypeOK, RecordsOK, Unlocking
  <2>4. \A f \in ubd[x.val] : f.height = x.height => f \in ubd'[x.val]
    BY <1>0, <2>2, <2>3, Zenon
  <2> QED
    BY <2>1, <2>3, <2>4, Zenon DEF Open
<1>2. ASSUME NEW w \in Val PROVE Matured(w)' = Matured(w)
  BY <1>0, <1>r, <1>t, Zenon DEF Matured
<1>3. Maturing' = Maturing
  BY <1>2, Zenon DEF Maturing
<1> QED
  BY <1>0, <1>1, <1>3, OpenShrinks, Zenon DEF Ledger

(* CancelUnlocking keeps the ledger.                                       *)
LEMMA CancelLedger ==
    ASSUME TierTypeOK, UniqueKeys, Ledger, NEW d \in Del, NEW v \in Val, NEW h, NEW a \in Amount,
           CancelUnlocking(d, v, h, a)
    PROVE  Ledger'
<1>1. PICK e, u : Less(v, a, e, u)
  BY LessBy, Zenon
<1> QED
  BY <1>1, LessCover, LessTimes, LessOpen, Zenon DEF Ledger
=============================================================================
