----------------------------- MODULE TierProofs -----------------------------
(***************************************************************************)
(* Proofs about x/tier with its developers: the types, the running totals, *)
(* what becomes of a developer's subscriptions, and what a lock is credited*)
(* with.                                                                   *)
(***************************************************************************)
EXTENDS TierSubscription, TierTypes

-----------------------------------------------------------------------------
(* Types *)

Sub == [amount : Nat, period : Nat]
DidGrant == [periodic : {TRUE}, filtered : {FALSE}, allowed : SUBSET Msg, limit : Int, exp : Int,
             period : Nat, periodLimit : Int, canSpend : Int, reset : Nat]

DevsOK ==
    /\ granted \in [Del -> Int] /\ todo \subseteq Del
    /\ subs \in [Subscription -> Sub \cup {NoSub}]
    /\ didGrants \in [Subscription -> DidGrant \cup {NoGrant}]

(* Every part of the state of developers and lockups keeps its type.       *)
AllTypeOK == TierTypeOK /\ DevsOK

(* A step that leaves developers and grants alone keeps their types.       *)
LEMMA DevsStutter == ASSUME DevsOK, UNCHANGED devs PROVE DevsOK'
BY Zenon DEF DevsOK, devs

(* There are finitely many subscriptions.                                  *)
LEMMA SubsFinite == IsFiniteSet(Subscription) /\ \A d : IsFiniteSet({d} \X Did)
<1>1. IsFiniteSet(Del) /\ IsFiniteSet(Did)
  BY TierAssumption, SubscriptionAssumption, Zenon
<1>2. \A x : IsFiniteSet({x})
  BY FS_Singleton, Zenon
<1>3. ASSUME NEW S, NEW T, IsFiniteSet(S), IsFiniteSet(T) PROVE IsFiniteSet(S \X T)
  BY <1>3, FS_Product, Zenon
<1> QED
  BY <1>1, <1>2, <1>3, Zenon DEF Subscription

(* The validator of a lock on behalf of a developer is one.                *)
LEMMA LargestIn ==
    ASSUME RecordsOK, NEW d \in Del
    PROVE  LargestLockup(d) \in Val
<1> DEFINE own == {v \in Val : lockups[<<d, v>>] # 0}
           Behind(w, v) == lockups[<<d, w>>] < lockups[<<d, v>>]
                             \/ (lockups[<<d, w>>] = lockups[<<d, v>>] /\ v <= w)
           R == {q \in Val \X Val : Behind(q[2], q[1])}
<1>0. Val \subseteq Int /\ IsFiniteSet(Val) /\ Val # {} /\ \A v \in Val : lockups[<<d, v>>] \in Int
  BY TierAssumption DEF RecordsOK, Pair
<1>1. CASE own = {}
  BY <1>0, <1>1, MinIn, Zenon DEF LargestLockup
<1>2. CASE own # {}
  <2>1. IsFiniteSet(own) /\ own \subseteq Val
    BY <1>0, FS_Subset, Zenon
  <2>2. \A x, y \in Val : <<x, y>> \in R <=> Behind(y, x)
    BY Zenon
  <2>3. /\ \A x, y \in Val : Behind(x, y) \/ Behind(y, x)
        /\ \A x, y, z \in Val : Behind(y, x) /\ Behind(z, y) => Behind(z, x)
    BY <1>0
  <2>4. LargestLockup(d) = CHOOSE v \in own : \A w \in own : Behind(w, v)
    BY <1>2, Zenon DEF LargestLockup
  <2> HIDE DEF own, R, Behind
  <2>5. \E x \in own : \A y \in own : <<x, y>> \in R
    <3>1. /\ \A x, y \in own : <<x, y>> \in R \/ <<y, x>> \in R
          /\ \A x, y, z \in own : <<x, y>> \in R /\ <<y, z>> \in R => <<x, z>> \in R
      BY <2>1, <2>2, <2>3, Zenon
    <3> QED
      BY <1>2, <2>1, <3>1, LeastExists, Zenon
  <2>6. \E x \in own : \A y \in own : Behind(y, x)
    BY <2>1, <2>2, <2>5, Zenon
  <2> QED
    BY <2>1, <2>4, <2>6, Zenon
<1> QED
  BY <1>1, <1>2, Zenon

(* The stake for a subscription is a number.                               *)
LEMMA StakeForInt == ASSUME NEW amount \in Nat PROVE StakeFor(amount) \in Int
<1> DEFINE reached == {i \in 1..Len(Rates) : Rates[i].amount <= amount}
           i0 == IF reached = {} THEN Len(Rates) ELSE Min(reached)
           rate == Rates[i0].rate
           n == amount * 100 + rate - 1
<1>1. i0 \in DOMAIN Rates
  <2>1. Len(Rates) \in Nat \ {0} /\ DOMAIN Rates = 1..Len(Rates)
    BY TierAssumption
  <2>2. IsFiniteSet(1..Len(Rates)) /\ 1..Len(Rates) \subseteq Int
    BY <2>1, FS_Interval
  <2>3. reached \subseteq 1..Len(Rates)
    BY Zenon
  <2> HIDE DEF reached
  <2>4. IsFiniteSet(reached) /\ reached \subseteq Int
    BY <2>2, <2>3, FS_Subset, Zenon
  <2>5. reached # {} => Min(reached) \in reached
    BY <2>4, MinIn, Zenon
  <2>6. Len(Rates) \in DOMAIN Rates
    BY <2>1
  <2> QED
    BY <2>1, <2>3, <2>5, <2>6, Zenon
<1>2. rate \in Nat \ {0}
  <2> HIDE DEF i0
  <2>1. Rates[i0] \in [amount : Nat, rate : Nat \ {0}]
    <3> DEFINE E == [amount : Nat, rate : Nat \ {0}]
    <3>1. Rates \in Seq(E)
      BY TierAssumption, Zenon
    <3> HIDE DEF E
    <3>2. Rates[i0] \in E
      BY <1>1, <3>1, RateIn, Zenon
    <3> QED
      BY <3>2, Zenon DEF E
  <2> QED
    BY <2>1, Zenon
<1> HIDE DEF i0
<1>3. StakeFor(amount) = n \div rate
  BY Zenon DEF StakeFor, i0
<1> HIDE DEF rate
<1>4. n \in Int
  BY <1>2
<1> HIDE DEF n
<1>5. n \div rate \in Int
  BY <1>2, <1>4
<1> QED
  BY <1>3, <1>5, Zenon

(* DID grants keep their form when they are charged and cut.               *)
LEMMA GrantForm ==
    ASSUME NEW a \in DidGrant, NEW fee \in Nat, NEW t \in Nat
    PROVE  /\ Ante!Charged(a, fee, t) \in DidGrant /\ Ante!Charged(a, fee, t).exp = a.exp
           /\ [a EXCEPT !.exp = a.reset] \in DidGrant
<1>1. a.periodic = TRUE /\ a.limit \in Int /\ a.canSpend \in Int
  BY Zenon DEF DidGrant
<1> DEFINE budget == Ante!NextBudget(a)
           reset == Ante!NextReset(a, t)
           b == IF t < a.reset THEN a ELSE [a EXCEPT !.canSpend = budget, !.reset = reset]
           left == b.canSpend - fee
           limit == IF b.limit = Ante!None THEN Ante!None ELSE b.limit - fee
           c == [b EXCEPT !.canSpend = left, !.limit = limit]
<1>2. Ante!Charged(a, fee, t) = c
  BY <1>1, Zenon DEF Ante!Charged, Ante!AtTime, Ante!TryResetPeriod
<1>3. budget \in Int /\ reset \in Nat /\ Ante!None \in Int
  BY DEF DidGrant, Ante!NextBudget, Ante!NextReset, Ante!None
<1> HIDE DEF budget, reset
<1>4. b \in DidGrant
  BY <1>3, Zenon DEF DidGrant
<1>5. b.exp = a.exp
  BY Zenon DEF DidGrant
<1> HIDE DEF b
<1>6. left \in Int /\ limit \in Int
  BY <1>3, <1>4 DEF DidGrant
<1> HIDE DEF left, limit
<1>7. c \in DidGrant
  BY <1>4, <1>6, Zenon DEF DidGrant
<1>8. c.exp = b.exp
  BY <1>4, Zenon DEF DidGrant
<1>9. [a EXCEPT !.exp = a.reset] \in DidGrant
  <2>1. a.reset \in Int
    BY DEF DidGrant
  <2> DEFINE r == a.reset
  <2> HIDE DEF r
  <2>2. [a EXCEPT !.exp = r] \in DidGrant
    BY <2>1, Zenon DEF DidGrant, r
  <2> QED
    BY <2>2, Zenon DEF r
<1> HIDE DEF c
<1> QED
  BY <1>2, <1>5, <1>7, <1>8, <1>9, Zenon

GrantsOK == didGrants \in [Subscription -> DidGrant \cup {NoGrant}]

(* Grants that are only charged or removed keep their expiry.              *)
GrantsKeep ==
    \A q \in Subscription :
        didGrants'[q] # NoGrant => didGrants[q] # NoGrant /\ didGrants'[q].exp = didGrants[q].exp

(* ExpireGrants gives the grants an expiry.                                *)
LEMMA ExpireTypes ==
    ASSUME GrantsOK, NEW pairs, ExpireGrants(pairs)
    PROVE  /\ GrantsOK'
           /\ \A q \in Subscription :
                 \/ q \in pairs /\ didGrants[q] # NoGrant /\ didGrants'[q].exp \in Nat
                 \/ (q \notin pairs \/ didGrants[q] = NoGrant) /\ didGrants'[q] = didGrants[q]
<1> DEFINE Cut(a) == [a EXCEPT !.exp = IF a.periodic THEN a.reset ELSE now]
           live == {p \in pairs : didGrants[p] # NoGrant /\ ~didGrants[p].filtered}
<1>1. didGrants' = [p \in Subscription |-> IF p \in live THEN Cut(didGrants[p]) ELSE didGrants[p]]
  BY Zenon DEF ExpireGrants
<1>2. ASSUME NEW a \in DidGrant PROVE Cut(a) \in DidGrant /\ Cut(a).exp \in Nat /\ ~a.filtered
  <2>1. Cut(a) = [a EXCEPT !.exp = a.reset] /\ a.reset \in Nat /\ ~a.filtered
    BY Zenon DEF DidGrant
  <2>2. [a EXCEPT !.exp = a.reset] \in DidGrant
    BY GrantForm, Zenon
  <2>3. [a EXCEPT !.exp = a.reset].exp = a.reset
    BY Zenon DEF DidGrant
  <2> HIDE DEF Cut
  <2> QED
    BY <2>1, <2>2, <2>3, Zenon
<1> HIDE DEF Cut
<1>3. ASSUME NEW q \in Subscription
      PROVE  /\ didGrants'[q] \in DidGrant \cup {NoGrant}
             /\ \/ q \in pairs /\ didGrants[q] # NoGrant /\ didGrants'[q].exp \in Nat
                \/ (q \notin pairs \/ didGrants[q] = NoGrant) /\ didGrants'[q] = didGrants[q]
  <2>1. didGrants[q] # NoGrant => didGrants[q] \in DidGrant
    BY Zenon DEF GrantsOK
  <2>2. CASE q \in pairs /\ didGrants[q] # NoGrant
    <3>1. q \in live
      BY <1>2, <2>1, <2>2, Zenon
    <3> QED
      BY <1>1, <1>2, <2>1, <2>2, <3>1, Zenon
  <2>3. CASE q \notin pairs \/ didGrants[q] = NoGrant
    BY <1>1, <2>1, <2>3, Zenon
  <2> QED
    BY <2>2, <2>3, Zenon
<1> QED
  BY <1>1, <1>3, Zenon DEF GrantsOK

(* A grant for a subscription is as good as new.                           *)
LEMMA GrantTypes ==
    ASSUME ClockOK, GrantsOK, NEW p \in Subscription, NEW amount \in Nat, NEW period \in Nat,
           GrantPeriodicDIDAllowance(p, amount, period)
    PROVE  GrantsOK' /\ \A q \in Subscription \ {p} : didGrants'[q] = didGrants[q]
<1> DEFINE a == PeriodicAllowance(amount, period)
           length == IF period = 0 THEN EpochDuration ELSE period
           reset == now + length
<1>1. didGrants' = [didGrants EXCEPT ![p] = a]
  BY Zenon DEF GrantPeriodicDIDAllowance, Ante!UpdateDIDAllowance, Ante!GrantDIDAllowance
<1>2. length \in Nat /\ reset \in Nat
  BY TierAssumption DEF ClockOK
<1>3. a = [periodic |-> TRUE, filtered |-> FALSE, allowed |-> {}, limit |-> amount,
           exp |-> Ante!None, period |-> length, periodLimit |-> amount,
           canSpend |-> amount, reset |-> reset]
  BY Zenon DEF PeriodicAllowance
<1> HIDE DEF length, reset
<1>4. a \in DidGrant
  <2>1. Ante!None \in Int /\ amount \in Int
    BY DEF Ante!None
  <2> HIDE DEF a
  <2> QED
    BY <1>2, <1>3, <2>1, Zenon DEF DidGrant
<1> HIDE DEF a
<1> QED
  BY <1>1, <1>4, Zenon DEF GrantsOK

(* Using a DID grant keeps the types of the grants, and makes none.        *)
LEMMA UseTypes ==
    ASSUME ClockOK, GrantsOK, NEW g \in Del, NEW did \in Did, NEW fee \in Nat, NEW m,
           Ante!UseDIDGrant(g, did, fee, m)
    PROVE  GrantsOK' /\ GrantsKeep
<1> DEFINE p == <<g, did>>
           revoked == {<<s, did>> : s \in {s \in Ante!Stale(did, m) : s < g}}
           less == Ante!Remaining(didGrants[p], fee, now)
<1>1. /\ g \in Ante!Accepting(did, fee, m)
      /\ didGrants' = [Ante!Without(didGrants, revoked) EXCEPT ![p] = less]
  BY Zenon DEF Ante!UseDIDGrant
<1>2. p \in Subscription /\ didGrants[p] \in DidGrant /\ didGrants[p] # NoGrant
  BY <1>1, Zenon DEF GrantsOK, Subscription, Ante!Accepting, Ante!Granters
<1>3. less = NoGrant \/ (less \in DidGrant /\ less.exp = didGrants[p].exp)
  BY <1>2, GrantForm, Zenon DEF Ante!Remaining, ClockOK
<1> HIDE DEF less, revoked, p
<1>4. didGrants' = [q \in Subscription |-> IF q = p THEN less
                                           ELSE IF q \in revoked THEN NoGrant ELSE didGrants[q]]
  BY <1>1, <1>2, Zenon DEF Ante!Without, GrantsOK
<1> QED
  BY <1>2, <1>3, <1>4, Zenon DEF GrantsOK, GrantsKeep

(* The sweep of expired grants keeps the types of the grants, and makes    *)
(* none.                                                                   *)
LEMMA SweepTypes ==
    ASSUME GrantsOK, Ante!RemoveExpiredDIDAllowances(SweepLimit)
    PROVE  GrantsOK' /\ GrantsKeep
<1> DEFINE gone == Ante!PairsOf(Ante!Swept(didQueue, now, SweepLimit))
<1>1. didGrants' = Ante!Without(didGrants, gone)
  BY Zenon DEF Ante!RemoveExpiredDIDAllowances
<1> HIDE DEF gone
<1>2. didGrants' = [q \in Subscription |-> IF q \in gone THEN NoGrant ELSE didGrants[q]]
  BY <1>1, Zenon DEF Ante!Without, GrantsOK
<1> QED
  BY <1>2, Zenon DEF GrantsOK, GrantsKeep

(* What some subscriptions grant.                                          *)
LEMMA GrantedNat ==
    ASSUME NEW ps, IsFiniteSet(ps), \A p \in ps : subs[p].amount \in Nat
    PROVE  GrantedFor(ps) \in Nat
BY SumNat, Zenon DEF GrantedFor

(* What a developer lacks and lacks for a subscription are numbers.        *)
LEMMA MissingInt ==
    ASSUME AllTypeOK, NEW d \in Del
    PROVE  Missing(d) \in Int /\ Available(d) \in Int
BY DEF AllTypeOK, TierTypeOK, CreditsOK, DevsOK, Missing, Available

(* Locks on behalf of a developer: for a subscription, and at the start of *)
(* an epoch, where the stake may come without a record.                    *)
StakedOnly(d, v, a) ==
    /\ wallet' = [wallet EXCEPT ![d] = @ - a]
    /\ stake' = [stake EXCEPT ![v] = @ + a]
    /\ UNCHANGED <<records, credits, module, pool, others, ubd, redels, bonded, uneven, unseen, rounding>>

(* A subscription locks for its developer or leaves the lockups alone.     *)
LEMMA RegistrationLock ==
    ASSUME AllTypeOK, NEW p \in Subscription, NEW amount \in Subscribed, NEW period,
           AddUserSubscription(p, amount, period)
    PROVE  \/ UNCHANGED <<records, credits, coins, staking>>
           \/ \E v \in Val, a \in Nat : Lock(p[1], v, a)
<1>1. p[1] \in Del /\ amount \in Nat
  BY SubscriptionAssumption, Zenon DEF Subscription
<1>2. CASE AddLockupForRegistration(p[1], StakeFor(amount))
  <2> DEFINE more == StakeFor(amount) - Available(p[1])
  <2>1. more \in Int
    BY <1>1, StakeForInt, MissingInt
  <2>2. LargestLockup(p[1]) \in Val
    BY <1>1, LargestIn, Zenon DEF AllTypeOK, TierTypeOK
  <2>3. \/ more <= 0 /\ UNCHANGED <<records, credits, coins, staking>>
        \/ ~(more <= 0) /\ Lock(p[1], LargestLockup(p[1]), more)
    BY <1>2, Zenon DEF AddLockupForRegistration
  <2> HIDE DEF more
  <2>4. ~(more <= 0) => more \in Nat
    BY <2>1
  <2> QED
    BY <2>2, <2>3, <2>4, Zenon
<1> QED
  BY <1>2, Zenon DEF AddUserSubscription

(* The check of a developer at the start of an epoch locks what is         *)
(* missing, fails after the coins are staked, or leaves the lockups alone. *)
LEMMA DeveloperLock ==
    ASSUME AllTypeOK, CheckDeveloper
    PROVE  \/ UNCHANGED <<records, credits, coins, staking>>
           \/ \E d \in Del, v \in Val :
                 /\ phase = "check" /\ Missing(d) \in Nat
                 /\ \/ Lock(d, v, Missing(d))
                    \/ ProratedCredit(d, Missing(d)) <= 0 /\ StakedOnly(d, v, Missing(d))
<1>1. PICK d \in todo :
        /\ phase = "check"
        /\ IF AutoLocks(d) THEN AutoLock(d) ELSE UNCHANGED <<records, credits, coins, staking>>
  BY Zenon DEF CheckDeveloper
<1>2. d \in Del
  BY Zenon DEF AllTypeOK, TierTypeOK, DevsOK
<1>3. CASE AutoLocks(d) /\ AutoLock(d)
  <2>1. LargestLockup(d) \in Val
    BY <1>2, LargestIn, Zenon DEF AllTypeOK, TierTypeOK
  <2>2. Missing(d) \in Nat
    BY <1>2, <1>3, MissingInt DEF AutoLocks
  <2>3. \/ Lock(d, LargestLockup(d), Missing(d))
        \/ /\ ProratedCredit(d, Missing(d)) <= 0
           /\ StakedOnly(d, LargestLockup(d), Missing(d))
    BY <1>3, Zenon DEF AutoLock, StakedOnly
  <2> QED
    BY <1>1, <1>2, <2>1, <2>2, <2>3, Zenon
<1> QED
  BY <1>1, <1>3, Zenon

(* An automatic lock that fails keeps the types.                           *)
LEMMA StakedOnlyTypes ==
    ASSUME AllTypeOK, NEW d \in Del, NEW v \in Val, NEW a \in Nat, StakedOnly(d, v, a)
    PROVE  RecordsOK' /\ CreditsOK' /\ CoinsOK' /\ StakingOK'
<1>1. RecordsOK' /\ CreditsOK'
  BY RecordsStutter, CreditsStutter, Zenon DEF AllTypeOK, TierTypeOK, StakedOnly
<1>2. CoinsOK'
  BY DEF AllTypeOK, TierTypeOK, StakedOnly, CoinsOK
<1>3. StakingOK'
  BY DEF AllTypeOK, TierTypeOK, StakedOnly, StakingOK
<1> QED
  BY <1>1, <1>2, <1>3, Zenon

(* AddUserSubscription keeps the types.                                    *)
LEMMA AddTypes ==
    ASSUME AllTypeOK, NEW p \in Subscription, NEW amount \in Subscribed, NEW period \in Period,
           AddUserSubscription(p, amount, period)
    PROVE  AllTypeOK'
<1> USE DEF AllTypeOK, TierTypeOK
<1>1. amount \in Nat /\ period \in Nat /\ p[1] \in Del
  BY SubscriptionAssumption, Zenon DEF Subscription
<1>2. RecordsOK' /\ CreditsOK' /\ CoinsOK' /\ StakingOK'
  <2>1. CASE UNCHANGED <<records, credits, coins, staking>>
    BY <2>1, RecordsStutter, CreditsStutter, CoinsStutter, StakingStutter, Zenon
  <2> QED
    BY <1>1, <2>1, RegistrationLock, LockTypes, Zenon
<1>3. /\ subs' = [subs EXCEPT ![p] = [amount |-> amount, period |-> period]]
      /\ GrantPeriodicDIDAllowance(p, amount, period)
      /\ granted' = [granted EXCEPT ![p[1]] = @ + amount]
      /\ UNCHANGED <<clock, auto, todo>>
  BY Zenon DEF AddUserSubscription
<1>4. GrantsOK'
  BY <1>1, <1>3, GrantTypes, Zenon DEF DevsOK, GrantsOK
<1>5. granted' \in [Del -> Int]
  BY <1>1, <1>3 DEF DevsOK
<1>6. [amount |-> amount, period |-> period] \in Sub
  BY <1>1, Zenon DEF Sub
<1>7. subs' \in [Subscription -> Sub \cup {NoSub}]
  BY <1>3, <1>6, Zenon DEF DevsOK
<1>8. DevsOK'
  BY <1>3, <1>4, <1>5, <1>7, Zenon DEF DevsOK, GrantsOK
<1> QED
  BY <1>2, <1>3, <1>8, ClockStutter, Zenon

(* The messages of developers that lock nothing.                           *)
LEMMA DeveloperTypes ==
    ASSUME AllTypeOK,
           \/ \E d \in Developer : \/ \E on \in {"on", "off"} : CreateDeveloper(d, on) \/ UpdateDeveloper(d, on)
                                   \/ RemoveDeveloper(d)
           \/ \E p \in Subscription : \/ RemoveUserSubscription(p)
                                     \/ \E a \in Subscribed, t \in Period : UpdateUserSubscription(p, a, t)
    PROVE  AllTypeOK'
<1> USE DEF AllTypeOK, TierTypeOK
<1>1. ClockOK' /\ RecordsOK' /\ CreditsOK' /\ CoinsOK' /\ StakingOK'
  <2>1. UNCHANGED tierVars
    BY Zenon DEF CreateDeveloper, UpdateDeveloper, RemoveDeveloper, RemoveUserSubscription, UpdateUserSubscription
  <2> QED
    BY <2>1, ClockStutter, RecordsStutter, CreditsStutter, CoinsStutter, StakingStutter, Zenon DEF tierVars
<1>0. GrantsOK /\ Developer \subseteq Del
  BY SubscriptionAssumption, Zenon DEF DevsOK, GrantsOK
<1>2. CASE \E d \in Developer, on \in {"on", "off"} : CreateDeveloper(d, on) \/ UpdateDeveloper(d, on)
  BY <1>1, <1>2, Zenon DEF CreateDeveloper, UpdateDeveloper, DevsOK
<1>3. ASSUME NEW d \in Developer, RemoveDeveloper(d) PROVE DevsOK'
  <2>1. PICK removed \in SUBSET SubsOf(d) :
          /\ granted' = [granted EXCEPT ![d] = @ - GrantedFor(removed)]
          /\ subs' = [p \in Subscription |-> IF p \in removed THEN NoSub ELSE subs[p]]
          /\ ExpireGrants(removed)
    BY <1>3, Zenon DEF RemoveDeveloper
  <2>2. GrantsOK' /\ UNCHANGED todo
    BY <1>0, <1>3, <2>1, ExpireTypes, Zenon DEF RemoveDeveloper
  <2>3. GrantedFor(removed) \in Int
    <3>1. d \in Del
      BY <1>0, Zenon
    <3>2. \A p \in removed : subs[p] \in Sub
      BY <3>1, Zenon DEF DevsOK, SubsOf, Subscription
    <3>3. IsFiniteSet(removed)
      <4>1. IsFiniteSet({d} \X Did)
        BY SubsFinite, Zenon
      <4> QED
        BY <4>1, FS_Subset, Zenon DEF SubsOf
    <3>4. \A p \in removed : subs[p].amount \in Nat
      BY <3>2, Zenon DEF Sub
    <3> QED
      <4>1. GrantedFor(removed) \in Nat
        BY <3>3, <3>4, GrantedNat, Zenon
      <4> QED
        BY <4>1
  <2> QED
    BY <1>0, <2>1, <2>2, <2>3 DEF DevsOK, GrantsOK
<1>4. ASSUME NEW p \in Subscription, RemoveUserSubscription(p) PROVE DevsOK'
  <2>1. /\ granted' = [granted EXCEPT ![p[1]] = @ - subs[p].amount]
        /\ subs' = [subs EXCEPT ![p] = NoSub] /\ subs[p] # NoSub
        /\ ExpireGrants({p}) /\ UNCHANGED todo
    BY <1>4, Zenon DEF RemoveUserSubscription
  <2>2. GrantsOK'
    BY <1>0, <2>1, ExpireTypes, Zenon
  <2>3. subs[p].amount \in Int
    BY <2>1 DEF DevsOK, Sub
  <2>4. granted' \in [Del -> Int]
    BY <2>1, <2>3 DEF DevsOK, Subscription
  <2> QED
    BY <2>1, <2>2, <2>4, Zenon DEF DevsOK, GrantsOK
<1>5. ASSUME NEW p \in Subscription, NEW a \in Subscribed, NEW t \in Period, UpdateUserSubscription(p, a, t)
      PROVE  DevsOK'
  <2>0. a \in Nat /\ t \in Nat
    BY SubscriptionAssumption, Zenon
  <2>1. /\ granted' = [granted EXCEPT ![p[1]] = Regranted(p, a)]
        /\ subs' = [subs EXCEPT ![p] = [amount |-> a, period |-> t]] /\ subs[p] # NoSub
        /\ GrantPeriodicDIDAllowance(p, a, t) /\ UNCHANGED todo
    BY <1>5, Zenon DEF UpdateUserSubscription
  <2>2. GrantsOK'
    BY <1>0, <2>0, <2>1, GrantTypes, Zenon
  <2>3. Regranted(p, a) \in Int
    <3>1. p[1] \in Del /\ subs[p] \in Sub
      BY <2>1, Zenon DEF DevsOK, Subscription
    <3> QED
      BY <2>0, <3>1 DEF DevsOK, Sub, Regranted
  <2> QED
    BY <2>0, <2>1, <2>2, <2>3, Zenon DEF DevsOK, GrantsOK, Sub
<1> QED
  BY <1>1, <1>2, <1>3, <1>4, <1>5, Zenon

(* The kinds of steps: the messages about lockups, those of developers,    *)
(* the steps of a block, and a restart.                                    *)
LockupStep ==
    /\ UNCHANGED devs
    /\ \/ \E d \in Del, a \in Amount : MsgLockAuto(d, a) \/ \E v \in Val : MsgLock(d, v, a)
       \/ \E d \in Del, v \in Val, a \in Amount : Unlock(d, v, a)
       \/ \E d \in Del, v \in Val, w \in Val, a \in Amount : Redelegate(d, v, w, a)
       \/ \E d \in Del, v \in Val, h \in 1..height, a \in Amount : CancelUnlocking(d, v, h, a)
       \/ \E v \in Val : Unjail(v)
PlainStep ==
    /\ UNCHANGED devs
    /\ StartBlock \/ NoTick \/ StartCounting \/ EndEpoch \/ ResetFails \/ HandleSlashingEvents \/ ProcessRewards
DevStep ==
    \/ \E d \in Developer : \/ \E on \in {"on", "off"} : CreateDeveloper(d, on) \/ UpdateDeveloper(d, on)
                            \/ RemoveDeveloper(d)
    \/ \E p \in Subscription : \/ RemoveUserSubscription(p)
                              \/ \E a \in Subscribed, t \in Period : UpdateUserSubscription(p, a, t)

(* The next-state relation by groups of actions.                           *)
LEMMA NextSplit ==
    ASSUME [Next]_vars
    PROVE  \/ UNCHANGED vars
           \/ LockupStep \/ PlainStep \/ DevStep
           \/ \E p \in Subscription, a \in Subscribed, t \in Period : AddUserSubscription(p, a, t)
           \/ \E did \in Did, fee \in Fee : PayFee(did, fee)
           \/ EndBlock \/ StartEpoch \/ CheckDeveloper \/ EpochStarted \/ Restart
<1>1. ASSUME LockMessage PROVE LockupStep
  BY <1>1, Zenon DEF LockMessage, LockupStep
<1>2. ASSUME DeveloperMessage
      PROVE  \/ DevStep
             \/ \E p \in Subscription, a \in Subscribed, t \in Period : AddUserSubscription(p, a, t)
             \/ \E did \in Did, fee \in Fee : PayFee(did, fee)
  BY <1>2, Zenon DEF DeveloperMessage, DevStep
<1>3. ASSUME BlockStep PROVE PlainStep \/ EndBlock \/ StartEpoch \/ CheckDeveloper \/ EpochStarted
  BY <1>3, Zenon DEF BlockStep, PlainStep
<1> QED
  BY <1>1, <1>2, <1>3, Zenon DEF Next, Message

(* Paying a fee from a DID grant keeps the types.                          *)
LEMMA PayTypes ==
    ASSUME AllTypeOK, NEW did \in Did, NEW fee \in Fee, PayFee(did, fee)
    PROVE  AllTypeOK'
<1> USE DEF AllTypeOK, TierTypeOK
<1>0. fee \in Nat
  BY SubscriptionAssumption, Zenon
<1>1. PICK g \in Del, m \in Msg : Ante!UseDIDGrant(g, did, fee, m) /\ Ante!DeductFees(g, fee)
  BY Zenon DEF PayFee
<1>2. UNCHANGED <<clock, records, totalCredit, coins, staking, auto, subs, granted, todo>>
  BY Zenon DEF PayFee
<1>3. GrantsOK'
  BY <1>0, <1>1, UseTypes, Zenon DEF DevsOK, GrantsOK
<1>4. CreditsOK'
  BY <1>0, <1>1 DEF Ante!DeductFees, CreditsOK
<1>5. DevsOK'
  BY <1>2, <1>3, Zenon DEF DevsOK, GrantsOK
<1> QED
  BY <1>2, <1>4, <1>5, ClockStutter, RecordsStutter, CoinsStutter, StakingStutter, Zenon

(* The check of a developer keeps the types.                               *)
LEMMA CheckTypes ==
    ASSUME AllTypeOK, CheckDeveloper
    PROVE  AllTypeOK'
<1> USE DEF AllTypeOK, TierTypeOK
<1>1. RecordsOK' /\ CreditsOK' /\ CoinsOK' /\ StakingOK'
  <2>1. CASE UNCHANGED <<records, credits, coins, staking>>
    BY <2>1, RecordsStutter, CreditsStutter, CoinsStutter, StakingStutter, Zenon
  <2> QED
    BY <2>1, DeveloperLock, LockTypes, StakedOnlyTypes, Zenon
<1>2. todo' \subseteq todo /\ UNCHANGED <<clock, auto, subs, granted, didGrants, didQueue>>
  BY Zenon DEF CheckDeveloper
<1>3. DevsOK'
  BY <1>2, Zenon DEF DevsOK
<1> QED
  BY <1>1, <1>2, <1>3, ClockStutter, Zenon

(* The steps of an epoch, the end of a block and an import keep the types. *)
LEMMA EpochStepTypes ==
    ASSUME AllTypeOK, EndBlock \/ StartEpoch \/ EpochStarted \/ Restart
    PROVE  AllTypeOK'
<1> USE DEF AllTypeOK, TierTypeOK
<1>1. CASE EndBlock
  <2>1. GrantsOK'
    BY <1>1, SweepTypes, Zenon DEF EndBlock, DevsOK, GrantsOK
  <2>2. StakingOK' /\ module' \in Int
    BY <1>1, StakingEndTypes, Zenon DEF EndBlock
  <2>3. /\ UNCHANGED <<now, height, epoch, event, slashes, restarts, records, credits, wallet, pool>>
        /\ UNCHANGED <<auto, subs, granted, todo>>
    BY <1>1, Zenon DEF EndBlock
  <2>4. DevsOK'
    BY <2>1, <2>3, Zenon DEF DevsOK, GrantsOK
  <2>5. ClockOK' /\ CoinsOK'
    BY <2>2, <2>3, Zenon DEF ClockOK, CoinsOK
  <2> QED
    BY <2>2, <2>3, <2>4, <2>5, RecordsStutter, CreditsStutter, Zenon
<1>2. CASE StartEpoch
  <2>1. CreditsOK'
    BY <1>2, ResetTypes, Zenon DEF StartEpoch
  <2>2. /\ UNCHANGED <<now, height, epoch, event, slashes, restarts, records, coins, staking>>
        /\ todo' \subseteq Del /\ UNCHANGED <<auto, subs, granted, didGrants, didQueue>>
    BY <1>2, Zenon DEF StartEpoch, ResetCredits
  <2>3. ClockOK' /\ DevsOK'
    BY <2>2, Zenon DEF ClockOK, DevsOK
  <2> QED
    BY <2>1, <2>2, <2>3, RecordsStutter, CoinsStutter, StakingStutter, Zenon
<1>3. CASE EpochStarted
  <2>1. UNCHANGED <<now, height, epoch, event, slashes, restarts, records, credits, coins, staking, devs>>
    BY <1>3, Zenon DEF EpochStarted
  <2>2. ClockOK'
    BY <2>1, Zenon DEF ClockOK
  <2> QED
    BY <2>1, <2>2, RecordsStutter, CreditsStutter, CoinsStutter, StakingStutter, DevsStutter, Zenon
<1>4. CASE Restart
  <2>1. /\ restarts' = restarts + 1 /\ total' = SumFunctionOnSet(lockups, Pair)
        /\ epoch' = Imported(epoch, height)
        /\ UNCHANGED <<now, height, phase, event, slashes, lockups, insurance, unlocking, credit, coins, staking>>
        /\ didGrants' = didGrants /\ granted' = [d \in Del |-> 0] /\ UNCHANGED <<subs, todo>>
    BY <1>4, Zenon DEF Restart, TierGenesis, Ante!InitGenesis
  <2>2. total' \in Int
    BY <2>1, PairsFinite, SumInt, Zenon DEF RecordsOK
  <2>3. ClockOK'
    BY <2>1, TimerSteps DEF ClockOK
  <2>4. RecordsOK' /\ CreditsOK' /\ DevsOK'
    BY <2>1, <2>2 DEF RecordsOK, CreditsOK, DevsOK
  <2> QED
    BY <2>1, <2>3, <2>4, CoinsStutter, StakingStutter, Zenon
<1> QED
  BY <1>1, <1>2, <1>3, <1>4, Zenon

(* The types hold at genesis.                                              *)
LEMMA InitTypes == ASSUME Init PROVE AllTypeOK
<1> USE TierAssumption, SubscriptionAssumption DEF Init, TierInit
<1>1. ClockOK
  <2>1. epoch \in Timer
    BY DEF Timer, AddEpochInfo, Unset
  <2> QED
    BY <2>1 DEF ClockOK, NoEvent, Address
<1>2. RecordsOK /\ CreditsOK /\ CoinsOK
  BY FS_EmptySet DEF RecordsOK, CreditsOK, CoinsOK
<1>3. StakingOK
  BY FS_EmptySet, Zenon DEF StakingOK
<1>4. DevsOK
  BY DEF DevsOK
<1> QED
  BY <1>1, <1>2, <1>3, <1>4, Zenon DEF AllTypeOK, TierTypeOK

(* The messages of delegators keep the types.                              *)
LEMMA LockupStepTypes == ASSUME AllTypeOK, LockupStep PROVE AllTypeOK'
<1> SUFFICES TierTypeOK'
  BY DevsStutter, Zenon DEF AllTypeOK, LockupStep
<1>0. TierTypeOK
  BY Zenon DEF AllTypeOK
<1>1. CASE \E d \in Del, a \in Amount : MsgLockAuto(d, a) \/ \E v \in Val : MsgLock(d, v, a)
  BY <1>0, <1>1, MsgLockTypes, Zenon
<1>2. CASE \E d \in Del, v \in Val, a \in Amount : Unlock(d, v, a)
  BY <1>0, <1>2, UnlockTypes, Zenon
<1>3. CASE \E d \in Del, v \in Val, w \in Val, a \in Amount : Redelegate(d, v, w, a)
  BY <1>0, <1>3, RedelegateTypes, Zenon
<1>4. CASE \E d \in Del, v \in Val, h \in 1..height, a \in Amount : CancelUnlocking(d, v, h, a)
  BY <1>0, <1>4, CancelTypes, Zenon
<1>5. CASE \E v \in Val : Unjail(v)
  <2>1. /\ bonded' \subseteq Val
        /\ UNCHANGED <<clock, records, credits, coins, stake, others, ubd, redels, uneven, unseen, rounding>>
    BY <1>5, Zenon DEF Unjail, AllTypeOK, TierTypeOK, StakingOK
  <2>2. StakingOK'
    BY <2>1, Zenon DEF StakingOK, AllTypeOK, TierTypeOK
  <2> QED
    BY <1>0, <2>1, <2>2, ClockStutter, RecordsStutter, CreditsStutter, CoinsStutter, Zenon DEF TierTypeOK
<1> QED
  BY <1>1, <1>2, <1>3, <1>4, <1>5, Zenon DEF LockupStep

(* The steps of the block that do not concern developers keep the types.   *)
LEMMA PlainStepTypes == ASSUME AllTypeOK, PlainStep PROVE AllTypeOK'
<1> SUFFICES TierTypeOK'
  BY DevsStutter, Zenon DEF AllTypeOK, PlainStep
<1>0. TierTypeOK
  BY Zenon DEF AllTypeOK
<1>1. CASE NoTick \/ ResetFails \/ StartCounting
  <2>1. /\ epoch' = epoch \/ epoch' = Counting(epoch, height)
        /\ UNCHANGED <<now, height, event, slashes, restarts, records, credits, coins, staking>>
    BY <1>1, Zenon DEF NoTick, ResetFails, StartCounting
  <2>2. ClockOK'
    BY <2>1, TimerSteps, Zenon DEF ClockOK, AllTypeOK, TierTypeOK
  <2> QED
    BY <1>0, <2>1, <2>2, RecordsStutter, CreditsStutter, CoinsStutter, StakingStutter, Zenon DEF TierTypeOK
<1> QED
  BY <1>0, <1>1, StartBlockTypes, EndEpochTypes, HandleTypes, RewardsTypes, Zenon DEF PlainStep

(* Every step keeps the types.                                             *)
LEMMA TypesStep == ASSUME AllTypeOK, [Next]_vars PROVE AllTypeOK'
<1>1. CASE UNCHANGED vars
  <2>1. UNCHANGED <<clock, records, credits, coins, staking, devs>>
    BY <1>1, Zenon DEF vars, tierVars
  <2> QED
    BY <2>1, ClockStutter, RecordsStutter, CreditsStutter, CoinsStutter, StakingStutter, DevsStutter, Zenon DEF AllTypeOK, TierTypeOK

<1>2. CASE DevStep
  BY <1>2, DeveloperTypes, Zenon DEF DevStep
<1> QED
  BY <1>1, <1>2, NextSplit, LockupStepTypes, PlainStepTypes, AddTypes, PayTypes, CheckTypes, EpochStepTypes, Zenon

(* Every part of the state of x/tier keeps its type: no amount, balance,   *)
(* stake or credit becomes anything but a number, and what is recorded for *)
(* an unlocking lockup, an unbonding entry, a subscription or a grant has  *)
(* all of its fields.                                                      *)
THEOREM TypesInvariant == Spec => []AllTypeOK
BY InitTypes, TypesStep, PTL DEF Spec

-----------------------------------------------------------------------------
(* The kinds of steps, by what they do to lockups and coins *)

(* A step that changes neither.                                            *)
QuietStep ==
    /\ UNCHANGED <<now, height, event, slashes, records, wallet, module>>
    /\ UNCHANGED <<stake, others, ubd, uneven, unseen, rounding>>
    /\ Handling' => Handling
    /\ epoch.started => UNCHANGED epoch

(* An automatic lock that fails after it has staked the coins.             *)
FailedLock(d, v) ==
    /\ phase = "check" /\ Missing(d) \in Nat /\ ProratedCredit(d, Missing(d)) <= 0
    /\ StakedOnly(d, v, Missing(d)) /\ UNCHANGED clock

(* Every step is quiet or one of the operations on lockups, records and    *)
(* coins.                                                                  *)
LEMMA StepKinds ==
    ASSUME AllTypeOK, [Next]_vars
    PROVE  \/ QuietStep
           \/ \E d \in Del, v \in Val, a \in Nat : Lock(d, v, a) /\ UNCHANGED clock
           \/ \E d \in Del, v \in Val : FailedLock(d, v)
           \/ \E d \in Del, v \in Val, a \in Amount : Unlock(d, v, a)
           \/ \E d \in Del, v \in Val, w \in Val, a \in Amount : Redelegate(d, v, w, a)
           \/ \E d \in Del, v \in Val, h \in 1..height, a \in Amount : CancelUnlocking(d, v, h, a)
           \/ StartBlock \/ EndEpoch \/ HandleSlashingEvents \/ EndBlock \/ Restart
<1>1. ASSUME UNCHANGED <<clock, records, coins, staking>> PROVE QuietStep
  BY <1>1, Zenon DEF QuietStep, clock, records, coins, staking, Handling
<1>2. CASE UNCHANGED vars
  BY <1>1, <1>2, Zenon DEF vars, tierVars
<1>3. CASE LockupStep
  <2>1. ASSUME NEW d \in Del, NEW a \in Amount, MsgLockAuto(d, a) \/ \E v \in Val : MsgLock(d, v, a)
        PROVE  \E v \in Val, n \in Nat : Lock(d, v, n) /\ UNCHANGED clock
    <3>1. a \in Nat
      BY TierAssumption, Zenon
    <3>2. AutoValidator(d) \subseteq Val
      BY Zenon DEF AllTypeOK, TierTypeOK, StakingOK, AutoValidator, OwnValidator, SmallestOf
    <3> QED
      BY <2>1, <3>1, <3>2, Zenon DEF MsgLockAuto, MsgLock
  <2>2. ASSUME NEW v \in Val, Unjail(v) PROVE QuietStep
    BY <2>2, Zenon DEF Unjail, QuietStep, clock, records, coins, Handling
  <2> QED
    BY <1>3, <2>1, <2>2, Zenon DEF LockupStep
<1>4. CASE PlainStep
  <2>1. ASSUME NoTick \/ StartCounting \/ ResetFails \/ ProcessRewards PROVE QuietStep
    BY <2>1, Zenon DEF NoTick, StartCounting, StartsCounting, ResetFails, ProcessRewards, QuietStep, records, coins, staking, Handling
  <2> QED
    BY <1>4, <2>1, Zenon DEF PlainStep
<1>5. CASE DevStep
  <2>1. UNCHANGED tierVars
    BY <1>5, Zenon DEF DevStep, CreateDeveloper, UpdateDeveloper, RemoveDeveloper, RemoveUserSubscription,
                UpdateUserSubscription
  <2> QED
    BY <1>1, <2>1, Zenon DEF tierVars
<1>6. CASE \E p \in Subscription, a \in Subscribed, t \in Period : AddUserSubscription(p, a, t)
  <2>1. PICK p \in Subscription, a \in Subscribed, t \in Period : AddUserSubscription(p, a, t)
    BY <1>6, Zenon
  <2>2. UNCHANGED clock
    BY <2>1, Zenon DEF AddUserSubscription
  <2>3. p[1] \in Del
    BY Zenon DEF Subscription
  <2> QED
    BY <1>1, <2>1, <2>2, <2>3, RegistrationLock, Zenon
<1>7. CASE \E did \in Did, fee \in Fee : PayFee(did, fee)
  <2>1. UNCHANGED <<clock, records, coins, staking>>
    BY <1>7, Zenon DEF PayFee
  <2> QED
    BY <1>1, <2>1, Zenon
<1>8. CASE CheckDeveloper
  <2>1. UNCHANGED clock
    BY <1>8, Zenon DEF CheckDeveloper
  <2> QED
    BY <1>1, <1>8, <2>1, DeveloperLock, Zenon DEF FailedLock
<1>9. CASE StartEpoch \/ EpochStarted
  BY <1>9, Zenon DEF StartEpoch, ResetCredits, EpochStarted, QuietStep, records, coins, staking, Handling
<1> QED
  BY <1>2, <1>3, <1>4, <1>5, <1>6, <1>7, <1>8, <1>9, NextSplit, Zenon

-----------------------------------------------------------------------------
(* What developers have granted *)

(* What is granted for a subscription, nothing where there is none.        *)
Granting == [p \in Subscription |-> IF subs[p] = NoSub THEN 0 ELSE subs[p].amount]

(* What is granted for each subscription is a natural number.              *)
LEMMA GrantingNat == DevsOK => Granting \in [Subscription -> Nat]
BY Zenon DEF DevsOK, Granting, Sub

(* What each developer has granted, as a sum over one function.            *)
GrantedSums == \A d \in Del : GrantedBy(d) = SumFunctionOnSet(Granting, {d} \X Did)

(* What a developer has granted as the sum over its subscriptions.         *)
LEMMA GrantedIsSum == DevsOK => GrantedSums
<1> SUFFICES ASSUME DevsOK, NEW d \in Del PROVE GrantedBy(d) = SumFunctionOnSet(Granting, {d} \X Did)
  BY Zenon DEF GrantedSums
<1>1. IsFiniteSet({d} \X Did) /\ SubsOf(d) \in SUBSET ({d} \X Did) /\ {d} \X Did \subseteq Subscription
  BY SubsFinite, Zenon DEF SubsOf, Subscription
<1>2. IsFiniteSet(SubsOf(d))
  BY <1>1, FS_Subset, Zenon
<1>3. \A p \in SubsOf(d) : Granting[p] \in Int /\ [q \in SubsOf(d) |-> subs[q].amount][p] = Granting[p]
  <2> SUFFICES ASSUME NEW p \in SubsOf(d) PROVE Granting[p] \in Int /\ subs[p].amount = Granting[p]
    BY Zenon
  <2>1. p \in Subscription /\ subs[p] # NoSub
    BY <1>1, Zenon DEF SubsOf
  <2>2. Granting[p] \in Int
    BY <2>1, GrantingNat
  <2> QED
    BY <2>1, <2>2, Zenon DEF Granting
<1>4. \A p \in ({d} \X Did) \ SubsOf(d) : Granting[p] = 0
  BY <1>1, Zenon DEF SubsOf, Granting
<1>5. SumFunctionOnSet(Granting, {d} \X Did) = SumFunctionOnSet(Granting, SubsOf(d))
  BY <1>1, <1>3, <1>4, SumSupport, Zenon
<1>6. GrantedBy(d) = SumFunctionOnSet(Granting, SubsOf(d))
  BY <1>2, <1>3, SumAgree, Zenon DEF GrantedBy, GrantedFor
<1> QED
  BY <1>5, <1>6, Zenon

(* One subscription changes.                                               *)
LEMMA GrantedChange ==
    ASSUME DevsOK, DevsOK', NEW p \in Subscription, NEW x, subs' = [subs EXCEPT ![p] = x], NEW d \in Del
    PROVE  /\ d = p[1] => GrantedBy(d)' = GrantedBy(d) + (Granting'[p] - Granting[p])
           /\ d # p[1] => GrantedBy(d)' = GrantedBy(d)
<1> DEFINE D == {d} \X Did
<1>1. IsFiniteSet(D) /\ D \subseteq Subscription /\ (p \in D <=> d = p[1])
  <2>1. IsFiniteSet(D)
    BY SubsFinite, Zenon
  <2> QED
    BY <2>1, Zenon DEF Subscription
<1>2. Granting \in [Subscription -> Nat] /\ Granting' \in [Subscription -> Nat]
  <2>1. (DevsOK => Granting \in [Subscription -> Nat])'
    BY GrantingNat, PTL
  <2> QED
    BY <2>1, GrantingNat, Zenon
<1>3. \A y \in D \ {p} : Granting'[y] = Granting[y]
  BY <1>1, Zenon DEF Granting, DevsOK
<1>4. \A y \in D : Granting[y] \in Int /\ Granting'[y] \in Int
  BY <1>1, <1>2
<1>5. GrantedBy(d)' = SumFunctionOnSet(Granting', D)
  <2>1. (DevsOK => GrantedSums)'
    BY GrantedIsSum, PTL
  <2> QED
    BY <2>1, Zenon DEF GrantedSums
<1>6. GrantedBy(d) = SumFunctionOnSet(Granting, D)
  BY GrantedIsSum, Zenon DEF GrantedSums
<1> HIDE DEF D
<1>7. CASE d = p[1]
  <2>1. IsFiniteSet(D) /\ p \in D
    BY <1>1, <1>7, Zenon
  <2>2. SumFunctionOnSet(Granting', D) = SumFunctionOnSet(Granting, D) + (Granting'[p] - Granting[p])
    BY <1>3, <1>4, <2>1, SumUpdate
  <2> QED
    BY <1>5, <1>6, <1>7, <2>2, Zenon
<1>8. CASE d # p[1]
  <2>1. IsFiniteSet(D) /\ \A y \in D : Granting'[y] = Granting[y]
    BY <1>1, <1>3, <1>8, Zenon
  <2>2. SumFunctionOnSet(Granting', D) = SumFunctionOnSet(Granting, D)
    BY <2>1, SumAgree, Zenon
  <2> QED
    BY <1>5, <1>6, <1>8, <2>2, Zenon
<1> QED
  BY <1>7, <1>8, Zenon

(* TotalDevGranted is what the subscriptions grant, and they have a        *)
(* developer, until an import.                                             *)
Developing ==
    restarts = 0 => \A d \in Del : /\ granted[d] = GrantedBy(d)
                                   /\ SubsOf(d) # {} => auto[d] # NoDeveloper

(* A grant that outlives its subscription expires.                         *)
Expiring ==
    \A q \in Subscription : subs[q] = NoSub /\ didGrants[q] # NoGrant => didGrants[q].exp # Ante!None

(* Moving a summand across an inequality.                                  *)
LEMMA FitsIn ==
    ASSUME NEW x \in Nat, NEW y \in Nat, NEW z \in Nat, x + y <= z
    PROVE  x <= z - y
OBVIOUS

(* With what it has granted at hand, RemoveDeveloper passes over none of   *)
(* the subscriptions.                                                      *)
LEMMA AllRemoved ==
    ASSUME DevsOK, NEW d \in Del, granted[d] = GrantedBy(d),
           NEW removed \in SUBSET SubsOf(d), RemovedInTurn(d, removed)
    PROVE  removed = SubsOf(d)
<1> SUFFICES ASSUME NEW p \in SubsOf(d), p \notin removed PROVE FALSE
  BY Zenon
<1> DEFINE below == {q \in removed : q[2] < p[2]}
           f == [q \in SubsOf(d) |-> subs[q].amount]
<1>1. IsFiniteSet(SubsOf(d)) /\ \A q \in SubsOf(d) : f[q] \in Nat /\ f[q] = subs[q].amount
  <2>1. IsFiniteSet({d} \X Did) /\ SubsOf(d) \subseteq {d} \X Did
    BY SubsFinite, Zenon DEF SubsOf
  <2>2. IsFiniteSet(SubsOf(d))
    BY <2>1, FS_Subset, Zenon
  <2> QED
    BY <2>2, Zenon DEF DevsOK, SubsOf, Sub, Subscription
<1>2. below \in SUBSET SubsOf(d) /\ below \cup {p} \in SUBSET SubsOf(d) /\ IsFiniteSet(below) /\ p \notin below
  BY <1>1, FS_Subset, Zenon
<1>3. ~(subs[p].amount <= granted[d] - GrantedFor(below))
  BY Zenon DEF RemovedInTurn
<1> HIDE DEF f, below
<1>4. GrantedFor(below) = SumFunctionOnSet(f, below)
  <2>1. \A q \in below : [r \in below |-> subs[r].amount][q] = f[q]
    BY <1>1, <1>2, Zenon
  <2> QED
    BY <1>2, <2>1, SumAgree, Zenon DEF GrantedFor
<1>5. GrantedBy(d) = SumFunctionOnSet(f, SubsOf(d))
  BY Zenon DEF f, GrantedBy, GrantedFor
<1>6. SumFunctionOnSet(f, below \cup {p}) = f[p] + SumFunctionOnSet(f, below)
  <2>1. \A q \in below \cup {p} : f[q] \in Int
    BY <1>1, <1>2
  <2> QED
    BY <1>2, <2>1, SumAdd, Zenon
<1>7. SumFunctionOnSet(f, below \cup {p}) <= SumFunctionOnSet(f, SubsOf(d))
  BY <1>1, <1>2, SumSubset, Zenon
<1>8. SumFunctionOnSet(f, below) \in Nat /\ SumFunctionOnSet(f, SubsOf(d)) \in Nat
  BY <1>1, <1>2, SumNat, Zenon
<1>9. f[p] = subs[p].amount /\ f[p] \in Nat
  BY <1>1, Zenon
<1>10. f[p] + SumFunctionOnSet(f, below) <= SumFunctionOnSet(f, SubsOf(d))
  BY <1>6, <1>7, Zenon
<1>11. f[p] <= SumFunctionOnSet(f, SubsOf(d)) - SumFunctionOnSet(f, below)
  BY <1>8, <1>9, <1>10, FitsIn, Zenon
<1> QED
  BY <1>3, <1>4, <1>5, <1>9, <1>11, Zenon

(* RemoveDeveloper removes the subscriptions of the developer.             *)
LEMMA RemoveAll ==
    ASSUME DevsOK, DevsOK', Developing, UNCHANGED restarts, NEW d \in Del, RemoveDeveloper(d)
    PROVE  Developing'
<1> SUFFICES ASSUME restarts = 0, NEW c \in Del
             PROVE  granted'[c] = GrantedBy(c)' /\ (SubsOf(c)' # {} => auto'[c] # NoDeveloper)
  BY Zenon DEF Developing
<1>1. PICK removed \in SUBSET SubsOf(d) :
        /\ RemovedInTurn(d, removed)
        /\ granted' = [granted EXCEPT ![d] = @ - GrantedFor(removed)]
        /\ subs' = [p \in Subscription |-> IF p \in removed THEN NoSub ELSE subs[p]]
  BY Zenon DEF RemoveDeveloper
<1>2. removed = SubsOf(d) /\ granted[d] = GrantedBy(d)
  BY <1>1, AllRemoved, Zenon DEF Developing
<1>3. CASE c = d
  <2>1. SubsOf(d)' = {}
    BY <1>1, <1>2, Zenon DEF SubsOf, Subscription
  <2>2. GrantedBy(d)' = 0
    BY <2>1, SumEmpty, Zenon DEF GrantedBy, GrantedFor
  <2>3. granted'[d] = granted[d] - GrantedBy(d) /\ granted[d] \in Int
    BY <1>1, <1>2, Zenon DEF DevsOK, GrantedBy
  <2>4. granted'[d] = 0
    BY <1>2, <2>3
  <2> QED
    BY <1>3, <2>1, <2>2, <2>4, Zenon
<1>4. CASE c # d
  <2>1. \A p \in {c} \X Did : p \notin removed /\ p \in Subscription
    BY <1>4 DEF SubsOf, Subscription
  <2>2. \A p \in {c} \X Did : subs'[p] = subs[p]
    BY <1>1, <2>1, Zenon
  <2>3. SubsOf(c)' = SubsOf(c)
    BY <2>2, Zenon DEF SubsOf
  <2>4. GrantedBy(c)' = GrantedBy(c)
    BY <2>2, <2>3, Zenon DEF GrantedBy, GrantedFor, SubsOf
  <2>5. granted'[c] = granted[c] /\ auto'[c] = auto[c]
    BY <1>1, <1>4 DEF RemoveDeveloper, DevsOK
  <2> QED
    BY <2>3, <2>4, <2>5, Zenon DEF Developing
<1> QED
  BY <1>3, <1>4, Zenon

(* The messages that change one subscription.                              *)
LEMMA ChangeOne ==
    ASSUME DevsOK, DevsOK', Developing, UNCHANGED <<restarts, auto>>, NEW p \in Subscription,
           NEW x, subs' = [subs EXCEPT ![p] = x], restarts = 0 /\ x # NoSub => auto[p[1]] # NoDeveloper,
           granted' = [granted EXCEPT ![p[1]] = @ + (Granting'[p] - Granting[p])]
    PROVE  Developing'
<1> SUFFICES ASSUME restarts = 0, NEW c \in Del
             PROVE  granted'[c] = GrantedBy(c)' /\ (SubsOf(c)' # {} => auto'[c] # NoDeveloper)
  BY Zenon DEF Developing
<1>1. /\ c = p[1] => GrantedBy(c)' = GrantedBy(c) + (Granting'[p] - Granting[p])
      /\ c # p[1] => GrantedBy(c)' = GrantedBy(c)
  BY GrantedChange, Zenon
<1>2. granted[c] = GrantedBy(c)
  BY Zenon DEF Developing
<1>3. /\ c = p[1] => granted'[c] = granted[c] + (Granting'[p] - Granting[p])
      /\ c # p[1] => granted'[c] = granted[c]
  BY Zenon DEF DevsOK
<1>4. SubsOf(c)' # {} => auto'[c] # NoDeveloper
  <2>1. p \in {p[1]} \X Did
    BY Zenon DEF Subscription
  <2>2. ASSUME NEW q \in SubsOf(c)', q # p PROVE q \in SubsOf(c)
    BY <2>2, Zenon DEF SubsOf, DevsOK, Subscription
  <2>3. ASSUME p \in SubsOf(c)' PROVE x # NoSub /\ c = p[1]
    BY <2>1, <2>3, Zenon DEF SubsOf, DevsOK
  <2> QED
    BY <2>2, <2>3, Zenon DEF Developing
<1> QED
  BY <1>1, <1>2, <1>3, <1>4, Zenon

(* The other steps leave subscriptions and developers alone, or import     *)
(* them.                                                                   *)
LEMMA DevsKept ==
    ASSUME AllTypeOK, [Next]_vars
    PROVE  \/ UNCHANGED <<auto, subs, granted, restarts>> /\ (UNCHANGED didGrants \/ GrantsKeep)
           \/ restarts' # 0 /\ UNCHANGED <<auto, subs, didGrants>>
           \/ DevStep \/ \E p \in Subscription, a \in Subscribed, t \in Period : AddUserSubscription(p, a, t)
<1>1. CASE UNCHANGED vars
  BY <1>1, Zenon DEF vars, devs, tierVars, clock
<1>2. CASE LockupStep
  <2>a. \A d, v, a : Unlock(d, v, a) => UNCHANGED clock
    BY Zenon DEF Unlock
  <2>b. \A d, v, w, a : Redelegate(d, v, w, a) => UNCHANGED clock
    <3> SUFFICES ASSUME NEW d, NEW v, NEW w, NEW a, Redelegate(d, v, w, a) PROVE UNCHANGED clock
      BY Zenon
    <3> QED
      BY Zenon DEF Redelegate
  <2>c. \A d, v, h, a : CancelUnlocking(d, v, h, a) \/ MsgLock(d, v, a) \/ MsgLockAuto(d, a) \/ Unjail(v)
                          => UNCHANGED clock
    BY Zenon DEF CancelUnlocking, MsgLock, MsgLockAuto, Unjail
  <2>1. UNCHANGED <<clock, devs>>
    BY <1>2, <2>a, <2>b, <2>c, Zenon DEF LockupStep
  <2> QED
    BY <2>1, Zenon DEF clock, devs
<1>3. CASE PlainStep
  BY <1>3, Zenon DEF PlainStep, devs, StartBlock, NoTick, StartCounting, EndEpoch, ResetFails, HandleSlashingEvents,
              ProcessRewards
<1>4. CASE StartEpoch \/ CheckDeveloper \/ EpochStarted
  BY <1>4, Zenon DEF StartEpoch, ResetCredits, CheckDeveloper, EpochStarted, devs, clock
<1>5. CASE EndBlock
  BY <1>5, SweepTypes, Zenon DEF EndBlock, AllTypeOK, DevsOK, GrantsOK
<1>6. CASE \E did \in Did, fee \in Fee : PayFee(did, fee)
  <2>1. PICK did \in Did, fee \in Fee, g \in Del, m \in Msg :
          /\ Ante!UseDIDGrant(g, did, fee, m)
          /\ UNCHANGED <<clock, auto, subs, granted>>
    BY <1>6, Zenon DEF PayFee
  <2>2. ClockOK /\ GrantsOK /\ fee \in Nat
    BY SubscriptionAssumption, Zenon DEF AllTypeOK, TierTypeOK, DevsOK, GrantsOK
  <2> QED
    BY <2>1, <2>2, UseTypes, Zenon DEF clock
<1>7. CASE Restart
  <2>1. restarts' = restarts + 1 /\ UNCHANGED <<auto, subs, didGrants>>
    BY <1>7, Zenon DEF Restart, TierGenesis, Ante!InitGenesis
  <2>2. restarts \in Nat
    BY Zenon DEF AllTypeOK, TierTypeOK, ClockOK
  <2> QED
    BY <2>1, <2>2
<1> QED
  BY <1>1, <1>2, <1>3, <1>4, <1>5, <1>6, <1>7, NextSplit, Zenon

(* A step that does not touch the subscriptions, or an import.             *)
LEMMA DevelopingKept ==
    ASSUME Developing, \/ UNCHANGED <<auto, subs, granted, restarts>>
                       \/ restarts' # 0
    PROVE  Developing'
<1>1. CASE UNCHANGED <<auto, subs, granted, restarts>>
  <2>1. \A d : SubsOf(d)' = SubsOf(d)
    BY <1>1, Zenon DEF SubsOf
  <2>2. \A d : GrantedBy(d)' = GrantedBy(d)
    BY <1>1, <2>1, Zenon DEF GrantedBy, GrantedFor
  <2> QED
    BY <1>1, <2>1, <2>2, Zenon DEF Developing
<1>2. CASE restarts' # 0
  BY <1>2, Zenon DEF Developing
<1> QED
  BY <1>1, <1>2, Zenon

(* Taking away what a removed subscription grants.                         *)
LEMMA MinusIsPlus == \A x, y \in Int : x - y = x + (0 - y)
OBVIOUS

(* Every step keeps the facts about developers.                            *)
LEMMA DevelopingStep ==
    ASSUME AllTypeOK, AllTypeOK', Developing, [Next]_vars
    PROVE  Developing'
<1>0. DevsOK /\ DevsOK' /\ Developer \subseteq Del
  BY SubscriptionAssumption, Zenon DEF AllTypeOK
<1>1. ASSUME NEW d \in Developer, NEW on \in {"on", "off"}, CreateDeveloper(d, on) \/ UpdateDeveloper(d, on)
      PROVE  Developing'
  <2>1. /\ auto' = [auto EXCEPT ![d] = on] /\ on # NoDeveloper
        /\ UNCHANGED <<subs, granted, restarts>>
    BY <1>1, Zenon DEF CreateDeveloper, UpdateDeveloper, NoDeveloper, tierVars, clock
  <2>2. \A c \in Del : SubsOf(c)' = SubsOf(c) /\ GrantedBy(c)' = GrantedBy(c)
    BY <2>1, Zenon DEF SubsOf, GrantedBy, GrantedFor
  <2>3. \A c \in Del : auto[c] # NoDeveloper => auto'[c] # NoDeveloper
    BY <2>1
  <2> QED
    BY <2>1, <2>2, <2>3, Zenon DEF Developing
<1>2. ASSUME NEW d \in Developer, RemoveDeveloper(d) PROVE Developing'
  <2>1. UNCHANGED restarts
    BY <1>2, Zenon DEF RemoveDeveloper, tierVars, clock
  <2> QED
    BY <1>0, <1>2, <2>1, RemoveAll, Zenon
<1>3. ASSUME NEW p \in Subscription, RemoveUserSubscription(p) PROVE Developing'
  <2>1. /\ granted' = [granted EXCEPT ![p[1]] = @ - subs[p].amount]
        /\ subs' = [subs EXCEPT ![p] = NoSub] /\ subs[p] # NoSub /\ UNCHANGED <<restarts, auto>>
    BY <1>3, Zenon DEF RemoveUserSubscription, tierVars, clock
  <2>2. Granting[p] = subs[p].amount /\ Granting'[p] = 0 /\ subs[p].amount \in Nat /\ granted[p[1]] \in Int
    BY <1>0, <2>1, Zenon DEF Granting, DevsOK, Sub, Subscription
  <2>3. granted' = [granted EXCEPT ![p[1]] = @ + (Granting'[p] - Granting[p])]
    <3>1. granted[p[1]] - subs[p].amount = granted[p[1]] + (Granting'[p] - Granting[p])
      <4>1. subs[p].amount \in Int
        BY <2>2
      <4> QED
        BY <2>2, <4>1, MinusIsPlus, Zenon
    <3> QED
      BY <2>1, <3>1, Zenon
  <2> QED
    BY <1>0, <2>1, <2>3, ChangeOne, Zenon
<1>4. ASSUME NEW p \in Subscription, NEW a \in Subscribed, NEW t \in Period,
             UpdateUserSubscription(p, a, t) \/ AddUserSubscription(p, a, t)
      PROVE  Developing'
  <2>0. a \in Nat /\ t \in Nat /\ [amount |-> a, period |-> t] # NoSub
    BY SubscriptionAssumption
  <2>1. /\ subs' = [subs EXCEPT ![p] = [amount |-> a, period |-> t]] /\ UNCHANGED <<restarts, auto>>
        /\ \/ subs[p] # NoSub /\ granted' = [granted EXCEPT ![p[1]] = granted[p[1]] + a - subs[p].amount]
           \/ /\ subs[p] = NoSub /\ auto[p[1]] # NoDeveloper
              /\ granted' = [granted EXCEPT ![p[1]] = granted[p[1]] + a]
    BY <1>4, Zenon DEF UpdateUserSubscription, AddUserSubscription, Regranted, tierVars, clock
  <2>2. /\ Granting[p] = IF subs[p] = NoSub THEN 0 ELSE subs[p].amount
        /\ Granting'[p] = a /\ granted[p[1]] \in Int /\ (subs[p] # NoSub => subs[p].amount \in Nat)
    BY <1>0, <2>0, <2>1, Zenon DEF Granting, DevsOK, Sub, Subscription
  <2>3. granted' = [granted EXCEPT ![p[1]] = @ + (Granting'[p] - Granting[p])]
    <3>1. CASE subs[p] = NoSub
      <4>1. granted[p[1]] + a = granted[p[1]] + (Granting'[p] - Granting[p])
        BY <2>0, <2>2, <3>1
      <4> QED
        BY <2>1, <3>1, <4>1, Zenon
    <3>2. CASE subs[p] # NoSub
      <4>1. granted[p[1]] + a - subs[p].amount = granted[p[1]] + (Granting'[p] - Granting[p])
        BY <2>0, <2>2, <3>2, Zenon
      <4> QED
        BY <2>1, <3>2, <4>1, Zenon
    <3> QED
      BY <3>1, <3>2, Zenon
  <2>4. restarts = 0 => auto[p[1]] # NoDeveloper
    BY <2>1, Zenon DEF Developing, SubsOf, Subscription
  <2> QED
    BY <1>0, <2>1, <2>3, <2>4, ChangeOne, Zenon
<1>5. ASSUME DevStep PROVE Developing'
  BY <1>1, <1>2, <1>3, <1>4, <1>5, Zenon DEF DevStep
<1> QED
  BY <1>4, <1>5, DevsKept, DevelopingKept, Zenon

(* Every step keeps the expiry of grants without a subscription.           *)
LEMMA ExpiringStep ==
    ASSUME AllTypeOK, Expiring, [Next]_vars
    PROVE  Expiring'
<1> USE DEF Expiring
<1>0. ClockOK /\ GrantsOK /\ \A n \in Nat : n # Ante!None
  BY DEF AllTypeOK, TierTypeOK, DevsOK, GrantsOK, Ante!None
<1>1. ASSUME NEW pairs, ExpireGrants(pairs), \A q \in Subscription \ pairs : subs'[q] = subs[q] PROVE Expiring'
  <2> SUFFICES ASSUME NEW q \in Subscription, subs'[q] = NoSub, didGrants'[q] # NoGrant
               PROVE  didGrants'[q].exp # Ante!None
    BY Zenon
  <2>1. \/ q \in pairs /\ didGrants[q] # NoGrant /\ didGrants'[q].exp \in Nat
        \/ (q \notin pairs \/ didGrants[q] = NoGrant) /\ didGrants'[q] = didGrants[q]
    BY <1>0, <1>1, ExpireTypes, Zenon
  <2> QED
    BY <1>0, <1>1, <2>1, Zenon
<1>2. ASSUME NEW p \in Subscription, NEW a \in Subscribed, NEW t \in Period,
             UpdateUserSubscription(p, a, t) \/ AddUserSubscription(p, a, t)
      PROVE  Expiring'
  <2>1. /\ subs' = [subs EXCEPT ![p] = [amount |-> a, period |-> t]]
        /\ GrantPeriodicDIDAllowance(p, a, t)
    BY <1>2, Zenon DEF UpdateUserSubscription, AddUserSubscription
  <2>2. a \in Nat /\ t \in Nat /\ [amount |-> a, period |-> t] # NoSub
    BY SubscriptionAssumption
  <2>3. \A q \in Subscription \ {p} : didGrants'[q] = didGrants[q]
    BY <1>0, <2>1, <2>2, GrantTypes, Zenon
  <2>4. subs'[p] # NoSub /\ \A q \in Subscription \ {p} : subs'[q] = subs[q]
    BY <2>1, <2>2, Zenon DEF AllTypeOK, DevsOK
  <2> QED
    BY <2>3, <2>4, Zenon
<1>3. ASSUME NEW d \in Developer, RemoveDeveloper(d) PROVE Expiring'
  <2>1. PICK removed \in SUBSET SubsOf(d) :
          /\ subs' = [p \in Subscription |-> IF p \in removed THEN NoSub ELSE subs[p]]
          /\ ExpireGrants(removed)
    BY <1>3, Zenon DEF RemoveDeveloper
  <2>2. \A q \in Subscription \ removed : subs'[q] = subs[q]
    BY <2>1, Zenon
  <2> QED
    BY <1>1, <2>1, <2>2, Zenon
<1>4. ASSUME NEW p \in Subscription, RemoveUserSubscription(p) PROVE Expiring'
  <2>1. subs' = [subs EXCEPT ![p] = NoSub] /\ ExpireGrants({p})
    BY <1>4, Zenon DEF RemoveUserSubscription
  <2>2. \A q \in Subscription \ {p} : subs'[q] = subs[q]
    BY <2>1, Zenon DEF AllTypeOK, DevsOK
  <2> QED
    BY <1>1, <2>1, <2>2, Zenon
<1>5. ASSUME NEW d \in Developer, NEW on \in {"on", "off"}, CreateDeveloper(d, on) \/ UpdateDeveloper(d, on)
      PROVE  Expiring'
  BY <1>5, Zenon DEF CreateDeveloper, UpdateDeveloper
<1>6. ASSUME DevStep PROVE Expiring'
  BY <1>2, <1>3, <1>4, <1>5, <1>6, Zenon DEF DevStep
<1>7. ASSUME UNCHANGED subs, UNCHANGED didGrants \/ GrantsKeep PROVE Expiring'
  BY <1>7, Zenon DEF GrantsKeep
<1> QED
  BY <1>2, <1>6, <1>7, DevsKept, Zenon

(* At genesis there are neither subscriptions nor grants.                  *)
LEMMA DevelopersInit == ASSUME Init PROVE Developing /\ Expiring
<1>1. ASSUME NEW d \in Del PROVE SubsOf(d) = {} /\ GrantedBy(d) = 0 /\ granted[d] = 0
  <2>1. SubsOf(d) = {} /\ granted[d] = 0
    BY Zenon DEF Init, SubsOf, Subscription
  <2> QED
    BY <2>1, SumEmpty, Zenon DEF GrantedBy, GrantedFor
<1>2. Developing
  BY <1>1, Zenon DEF Developing
<1>3. Expiring
  BY Zenon DEF Expiring, Init
<1> QED
  BY <1>2, <1>3, Zenon

(* Nothing is left behind, for any developers, DIDs, amounts and any       *)
(* number of messages: RemoveDeveloper passes over a subscription that     *)
(* fails to be removed, but until an import none does, since               *)
(* TotalDevGranted covers them all, and ExpireDIDAllowance has given an    *)
(* expiry to every grant whose subscription is gone.                       *)
THEOREM NothingIsOrphaned == Spec => []NothingOrphaned
<1>1. Init => AllTypeOK /\ Developing /\ Expiring
  BY InitTypes, DevelopersInit, Zenon
<1>2. AllTypeOK /\ Developing /\ Expiring /\ [Next]_vars => (AllTypeOK /\ Developing /\ Expiring)'
  BY TypesStep, DevelopingStep, ExpiringStep, Zenon
<1>3. Developing /\ Expiring => NothingOrphaned
  BY Zenon DEF Developing, Expiring, NothingOrphaned
<1> QED
  BY <1>1, <1>2, <1>3, PTL DEF Spec

-----------------------------------------------------------------------------
(* TotalLockupsAmount *)

(* Every step keeps the total: the sums of locks, unlocks, slashes and     *)
(* imports.                                                                *)
LEMMA TotalStep ==
    ASSUME AllTypeOK, TotalIsSum, [Next]_vars
    PROVE  TotalIsSum'
<1>0. TierTypeOK /\ RecordsOK
  BY Zenon DEF AllTypeOK, TierTypeOK
<1>1. ASSUME UNCHANGED <<lockups, total>> PROVE TotalIsSum'
  BY <1>1, Zenon DEF TotalIsSum
<1>2. ASSUME NEW d \in Del, NEW v \in Val, NEW a \in Nat, Lock(d, v, a) PROVE TotalIsSum'
  <2>1. Shift(<<d, v>>, a) /\ total' = total + a /\ a \in Int
    BY <1>2, LockShift
  <2> QED
    BY <1>0, <2>1, TotalShift, Zenon
<1>3. ASSUME NEW d \in Del, NEW v \in Val, NEW a \in Amount, Unlock(d, v, a) PROVE TotalIsSum'
  <2>1. Shift(<<d, v>>, -a) /\ total' = total + (-a) /\ a \in Nat
    BY <1>0, <1>3, UnlockShift, Zenon
  <2>2. -a \in Int
    BY <2>1
  <2> QED
    BY <1>0, <2>1, <2>2, TotalShift, Zenon
<1>4. ASSUME NEW d \in Del, NEW v \in Val, NEW h, NEW a \in Amount, CancelUnlocking(d, v, h, a)
      PROVE  TotalIsSum'
  <2>1. Shift(<<d, v>>, a) /\ total' = total + a /\ a \in Int
    BY <1>4, CancelShift, TierAssumption
  <2> QED
    BY <1>0, <2>1, TotalShift, Zenon
<1>5. ASSUME \/ QuietStep \/ StartBlock \/ EndEpoch \/ EndBlock
             \/ \E d \in Del, v \in Val : FailedLock(d, v)
      PROVE  UNCHANGED <<lockups, total>>
  BY <1>5, Zenon DEF QuietStep, StartBlock, EndEpoch, EndBlock, FailedLock, StakedOnly, records
<1>6. ASSUME Restart PROVE TotalIsSum'
  BY <1>6, Zenon DEF Restart, TierGenesis, TotalIsSum
<1> QED
  BY <1>0, <1>1, <1>2, <1>3, <1>4, <1>5, <1>6, TotalMoved, TotalHandled, StepKinds, Zenon

(* The running totals are the sums they stand for, for any delegators,     *)
(* validators, amounts, rates and slashes: TotalLockupsAmount is kept in   *)
(* step with the lockups by every operation that changes one, and          *)
(* TotalDevGranted with the subscriptions until an import.                 *)
THEOREM TotalsAlwaysSums == Spec => []TotalsAreSums
<1>1. Init => AllTypeOK /\ Developing /\ TotalIsSum
  <2>1. ASSUME Init PROVE TotalIsSum
    <3>1. total = 0 /\ \A p \in Pair : lockups[p] = 0
      BY <2>1, Zenon DEF Init, TierInit
    <3> QED
      BY <3>1, PairsFinite, SumZero, Zenon DEF TotalIsSum
  <2> QED
    BY <2>1, InitTypes, DevelopersInit, Zenon
<1>2. AllTypeOK /\ Developing /\ TotalIsSum /\ [Next]_vars => (AllTypeOK /\ Developing /\ TotalIsSum)'
  BY TypesStep, DevelopingStep, TotalStep, Zenon
<1>3. Developing /\ TotalIsSum => TotalsAreSums
  BY Zenon DEF Developing, TotalIsSum, TotalsAreSums
<1> QED
  BY <1>1, <1>2, <1>3, PTL DEF Spec

-----------------------------------------------------------------------------
(* Credits *)

(* calculateCredit pays for every unit of a lock once, at the rate of its  *)
(* tier, whatever the delegator holds already: also after slashes, which   *)
(* leave any amounts.                                                      *)
THEOREM UnitsPaidOnce == DescendingRates => (Spec => []PaysEachUnitOnce)
<1> SUFFICES ASSUME DescendingRates PROVE Spec => []PaysEachUnitOnce
  BY Zenon
<1>1. ASSUME AllTypeOK PROVE PaysEachUnitOnce
  <2> SUFFICES ASSUME NEW d \in Del, NEW a \in Amount
               PROVE  CalculateCredit(Rates, LockedBy(d) + InsuredBy(d), a)
                      = CreditByTier(LockedBy(d) + InsuredBy(d), LockedBy(d) + InsuredBy(d) + a)
    BY Zenon DEF PaysEachUnitOnce
  <2>1. LockedBy(d) \in Int /\ InsuredBy(d) \in Int
    BY <1>1, SumsInt, Zenon DEF AllTypeOK, TierTypeOK
  <2>2. a \in Nat \ {0}
    BY TierAssumption, Zenon
  <2>3. LockedBy(d) + InsuredBy(d) \in Int
    BY <2>1
  <2> QED
    BY <2>2, <2>3, CreditIsByTier, Zenon
<1> QED
  BY <1>1, TypesInvariant, PTL
=============================================================================
