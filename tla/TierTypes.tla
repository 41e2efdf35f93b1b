----------------------------- MODULE TierTypes ------------------------------
(***************************************************************************)
(* The arithmetic and the types of x/tier: what calculateCredit pays for   *)
(* each unit, and that every operation keeps amounts, records and entries  *)
(* within their types.                                                     *)
(***************************************************************************)
EXTENDS Tier, SumTheorems

-----------------------------------------------------------------------------
(* Credits *)

(* Sets of integers, where the provers need not see which.                 *)
Numbers(S) == S \subseteq Int

(* A nonempty part of a finite set of integers has its maximum.            *)
LEMMA MaxOfPart ==
    ASSUME NEW S, Numbers(S), IsFiniteSet(S), NEW s \in SUBSET S, s # {}
    PROVE  Max(s) \in s
<1>1. IsFiniteSet(s) /\ s \subseteq Int
  BY FS_Subset, Zenon DEF Numbers
<1> QED
  BY <1>1, MaxIn, Zenon

(* The round of calculateCredit for the last tier of s, and the rounds for *)
(* all tiers of S.                                                         *)
LastRound(g, rates, locked, s) == RewardFromTier(locked, g[s \ {Max(s)}], rates[Max(s)])
Rewarding(g, rates, locked, start, S) ==
    g = [s \in SUBSET S |-> IF s = {} THEN start ELSE LastRound(g, rates, locked, s)]

(* The value of such a function at a set of tiers is one more round.       *)
LEMMA RewardingAt ==
    ASSUME NEW rates, NEW locked, NEW start, NEW S, NEW g, Rewarding(g, rates, locked, start, S),
           NEW s \in SUBSET S, s # {}
    PROVE  g[s] = LastRound(g, rates, locked, s)
BY Zenon DEF Rewarding

(* Without tiers nothing is added.                                         *)
LEMMA RewardingEmpty ==
    ASSUME NEW rates, NEW locked, NEW start, NEW S, NEW g, Rewarding(g, rates, locked, start, S)
    PROVE  g[{}] = start
<1>1. {} \in SUBSET S
  BY Zenon
<1> QED
  BY <1>1, Zenon DEF Rewarding

(* There is such a function for every finite set of tiers.                 *)
LEMMA RewardingExists ==
    ASSUME NEW rates, NEW locked, NEW start, NEW S, Numbers(S), IsFiniteSet(S)
    PROVE  \E g : Rewarding(g, rates, locked, start, S)
  (* Two of them agree where both are defined.                               *)
<1>a. ASSUME NEW rates1, NEW locked1, NEW start1,
             NEW S1, Numbers(S1), NEW g, Rewarding(g, rates1, locked1, start1, S1), IsFiniteSet(S1),
             NEW T, NEW h, Rewarding(h, rates1, locked1, start1, T), S1 \subseteq T
      PROVE  g[S1] = h[S1]
  <2> USE <1>a
  <2> DEFINE G == {s \in SUBSET S1 : g[s] = h[s]}
  <2>1. ASSUME NEW s \in SUBSET S1, \A u \in SUBSET s : u # s => u \in G
        PROVE  s \in G
    <3>1. CASE s = {}
      BY <3>1, RewardingEmpty, Zenon
    <3>2. CASE s # {}
      <4> DEFINE r == s \ {Max(s)}
      <4>1. Max(s) \in s
        BY <3>2, MaxOfPart, Zenon
      <4>2. g[r] = h[r]
        BY <4>1, <2>1, Zenon
      <4>3. g[s] = LastRound(g, rates1, locked1, s)
        BY <3>2, RewardingAt
      <4>4. h[s] = LastRound(h, rates1, locked1, s)
        <5>1. s \in SUBSET T
          BY Zenon
        <5> QED
          BY <3>2, <5>1, RewardingAt
      <4> QED
        BY <4>2, <4>3, <4>4, Zenon DEF LastRound
    <3> QED
      BY <3>1, <3>2, Zenon
  <2>2. G = SUBSET S1
    <3> HIDE DEF G
    <3> G \in SUBSET (SUBSET S1)
      BY Zenon DEF G
    <3> QED
      BY <2>1, SubsetInduction, Zenon
  <2> QED
    BY <2>2, Zenon
<1> DEFINE Is(g, s) == Rewarding(g, rates, locked, start, s)
           G == {T \in SUBSET S : \E g : Is(g, T)}
<1>1. ASSUME NEW T \in SUBSET S, \A U \in SUBSET T : U # T => U \in G
      PROVE  T \in G
  <2> DEFINE Part(s) == CHOOSE g : Is(g, s)
             Value(s) == IF s = {} THEN start
                         ELSE RewardFromTier(locked, Part(s \ {Max(s)})[s \ {Max(s)}], rates[Max(s)])
             g == [s \in SUBSET T |-> Value(s)]
  <2>1. ASSUME NEW U \in SUBSET T, U # T PROVE Is(Part(U), U)
    BY <2>1, <1>1, Zenon
  <2>2. ASSUME NEW s \in SUBSET T, s # T PROVE g[s] = Part(s)[s]
    <3> HIDE DEF Part
    <3>0. Is(Part(s), s)
      BY <2>1, <2>2, Zenon
    <3>1. CASE s = {}
      <4>1. Part(s)[{}] = start
        BY <3>0, RewardingEmpty, Zenon
      <4> QED
        BY <3>1, <4>1, Zenon
    <3>2. CASE s # {}
      <4> DEFINE r == s \ {Max(s)}
      <4>1. Max(s) \in s
        BY <3>2, MaxOfPart, Zenon
      <4>2. Is(Part(r), r)
        BY <2>1, <4>1, Zenon
      <4>3. IsFiniteSet(r)
        BY FS_Subset, Zenon
      <4>4. Part(r)[r] = Part(s)[r]
        <5> HIDE DEF r
        <5> r \subseteq s /\ Numbers(r)
          BY Zenon DEF r, Numbers
        <5> QED
          BY <3>0, <4>2, <4>3, <1>a
      <4>5. Part(s)[s] = LastRound(Part(s), rates, locked, s)
        BY <3>0, <3>2, RewardingAt
      <4> QED
        BY <4>4, <4>5, <3>2, Zenon DEF LastRound
    <3> QED
      BY <3>1, <3>2, Zenon
  <2>3. Is(g, T)
    <3> DEFINE Body(s) == IF s = {} THEN start ELSE LastRound(g, rates, locked, s)
    <3>1. ASSUME NEW s \in SUBSET T PROVE Value(s) = Body(s)
      <4>1. CASE s = {}
        BY <4>1, Zenon
      <4>2. CASE s # {}
        <5>1. Max(s) \in s
          BY <4>2, MaxOfPart, Zenon
        <5>2. s \ {Max(s)} \in SUBSET T /\ s \ {Max(s)} # T
          BY <5>1, Zenon
        <5> HIDE DEF Part, g
        <5> QED
          BY <4>2, <5>2, <2>2, Zenon DEF LastRound
      <4> QED
        BY <4>1, <4>2, Zenon
    <3>2. g = [s \in SUBSET T |-> Body(s)]
      <4> HIDE DEF Value, Body
      <4> QED
        BY <3>1, Zenon
    <3> HIDE DEF g
    <3> QED
      BY <3>2, Zenon DEF Rewarding
  <2> HIDE DEF g
  <2> QED
    BY <2>3, Zenon
<1>2. G = SUBSET S
  <2> HIDE DEF G
  <2> G \in SUBSET (SUBSET S)
    BY Zenon DEF G
  <2> QED
    BY <1>1, SubsetInduction, Zenon
<1> QED
  BY <1>2, Zenon

(* An entry of the reward rates is a rate.                                 *)
LEMMA RateIn ==
    ASSUME NEW E, NEW rates \in Seq(E), NEW i \in DOMAIN rates PROVE rates[i] \in E
OBVIOUS

(* calculateCredit computes a number.                                      *)
LEMMA CreditInt ==
    ASSUME NEW rates \in Seq([amount : Nat, rate : Nat \ {0}]), NEW locked \in Int, NEW locking \in Int
    PROVE  CalculateCredit(rates, locked, locking) \in Int
  (* What every round keeps, calculateCredit ends with.                      *)
<1>a. ASSUME NEW rates1, NEW locked1, NEW start, NEW S, Numbers(S), IsFiniteSet(S),
             NEW g, Rewarding(g, rates1, locked1, start, S),
             NEW Round, start \in Round,
             \A acc \in Round, i \in S : RewardFromTier(locked1, acc, rates1[i]) \in Round
      PROVE  g[S] \in Round
  <2> USE <1>a
  <2> DEFINE G == {s \in SUBSET S : g[s] \in Round}
  <2>1. ASSUME NEW s \in SUBSET S, \A u \in SUBSET s : u # s => u \in G
        PROVE  s \in G
    <3>1. CASE s = {}
      BY <3>1, RewardingEmpty, Zenon
    <3>2. CASE s # {}
      <4>1. Max(s) \in s
        BY <3>2, MaxOfPart, Zenon
      <4>2. g[s \ {Max(s)}] \in Round
        BY <2>1, <4>1, Zenon
      <4>3. g[s] = LastRound(g, rates1, locked1, s)
        BY <3>2, RewardingAt
      <4> QED
        BY <4>1, <4>2, <4>3, Zenon DEF LastRound
    <3> QED
      BY <3>1, <3>2, Zenon
  <2>2. G = SUBSET S
    <3> HIDE DEF G
    <3> G \in SUBSET (SUBSET S)
      BY Zenon DEF G
    <3> QED
      BY <2>1, SubsetInduction, Zenon
  <2> QED
    BY <2>2, Zenon
  (* A round of calculateCredit stays within the integers.                   *)
<1>b. ASSUME NEW locked1 \in Int, NEW acc \in [credit : Int, staked : Int, locking : Int],
             NEW r \in [amount : Nat, rate : Nat \ {0}]
      PROVE  RewardFromTier(locked1, acc, r) \in [credit : Int, staked : Int, locking : Int]
  <2> USE <1>b
  <2> DEFINE lower == Larger(r.amount, locked1)
             diff == acc.staked - lower
             c == acc.credit + (diff * r.rate) \div 100
  <2>1. lower \in Int
    BY DEF Larger
  <2>2. diff \in Int /\ c \in Int /\ acc.locking - diff \in Int
    <3>1. diff \in Int
      BY <2>1
    <3> HIDE DEF diff
    <3>2. diff * r.rate \in Int
      BY <3>1
    <3> QED
      BY <3>1, <3>2
  <2>3. RewardFromTier(locked1, acc, r) =
           IF acc.locking = 0 \/ acc.staked < r.amount THEN acc
           ELSE [credit |-> c, staked |-> lower, locking |-> acc.locking - diff]
    BY Zenon DEF RewardFromTier
  <2> HIDE DEF c, lower, diff
  <2> QED
    BY <2>1, <2>2, <2>3
<1> DEFINE start == [credit |-> 0, staked |-> locked + locking, locking |-> locking]
           S == DOMAIN rates
           g == CHOOSE h : Rewarding(h, rates, locked, start, S)
           Round == [credit : Int, staked : Int, locking : Int]
<1>1. CalculateCredit(rates, locked, locking) = g[S].credit
  BY Zenon DEF CalculateCredit, MapThenFoldSet, Rewarding, LastRound
<1>2. Numbers(S) /\ IsFiniteSet(S)
  BY FS_Interval DEF Numbers
<1>3. Rewarding(g, rates, locked, start, S)
  BY <1>2, RewardingExists, Zenon
<1>4. start \in Round
  OBVIOUS
<1>5. ASSUME NEW acc \in Round, NEW i \in S
      PROVE  RewardFromTier(locked, acc, rates[i]) \in Round
  <2>1. rates[i] \in [amount : Nat, rate : Nat \ {0}]
    BY RateIn, Zenon
  <2> QED
    BY <2>1, <1>b, Zenon
<1> HIDE DEF start, g, S, Round
<1>6. g[S] \in Round
  BY <1>2, <1>3, <1>4, <1>5, <1>a, Zenon
<1> QED
  BY <1>1, <1>6, Zenon DEF Round

-----------------------------------------------------------------------------
(* Credits, unit by unit *)

(* The rates are listed with the highest amount first, as in               *)
(* DefaultParams; validateRewardRates does not check it.                   *)
DescendingRates == \A i, j \in DOMAIN Rates : i < j => Rates[i].amount >= Rates[j].amount

(* Down to where a lock of a on top of held has been rewarded after the    *)
(* first k tiers.                                                          *)
Floor(held, a, k) ==
    IF k = 0 THEN held + a
    ELSE IF Rates[k].amount <= held THEN held
    ELSE IF Rates[k].amount < held + a THEN Rates[k].amount ELSE held + a

(* The tiers are numbered from 1, and have amounts and rates.              *)
LEMMA RatesTyped ==
    /\ Len(Rates) \in Nat /\ DOMAIN Rates = 1 .. Len(Rates)
    /\ \A k \in DOMAIN Rates : Rates[k].amount \in Nat /\ Rates[k].rate \in Nat
<1>1. Rates \in Seq([amount : Nat, rate : Nat \ {0}])
  BY TierAssumption, Zenon
<1>2. \A k \in DOMAIN Rates : Rates[k] \in [amount : Nat, rate : Nat \ {0}]
  BY <1>1, RateIn, Zenon
<1>3. Len(Rates) \in Nat /\ DOMAIN Rates = 1 .. Len(Rates)
  BY <1>1
<1> QED
  BY <1>2, <1>3, Zenon

(* From tier to tier there is less left to reward.                         *)
LEMMA FloorFalls ==
    ASSUME DescendingRates, NEW held \in Int, NEW a \in Nat \ {0}, NEW k \in DOMAIN Rates
    PROVE  /\ k \in Nat /\ k - 1 \in 0 .. Len(Rates) /\ Floor(held, a, k) \in Int /\ Floor(held, a, k - 1) \in Int
           /\ held <= Floor(held, a, k) /\ Floor(held, a, k) <= Floor(held, a, k - 1)
           /\ Floor(held, a, k - 1) <= held + a
<1>1. Rates[k].amount \in Nat /\ k \in Nat \ {0} /\ k <= Len(Rates) /\ Len(Rates) \in Nat
  BY RatesTyped
<1>2. CASE k = 1
  BY <1>1, <1>2 DEF Floor
<1>3. CASE k # 1
  <2>1. k - 1 \in DOMAIN Rates /\ k - 1 # 0 /\ k - 1 < k
    BY <1>1, <1>3, RatesTyped
  <2>2. Rates[k - 1].amount \in Nat /\ Rates[k - 1].amount >= Rates[k].amount
    BY <2>1, RatesTyped, Zenon DEF DescendingRates
  <2> QED
    BY <1>1, <2>1, <2>2 DEF Floor
<1> QED
  BY <1>2, <1>3, Zenon

(* Every tier pays for its units, and the rounds add it up.                *)
LEMMA CreditIsByTier ==
    ASSUME DescendingRates, NEW held \in Int, NEW a \in Nat \ {0}
    PROVE  CalculateCredit(Rates, held, a) = CreditByTier(held, held + a)
  (* A round of calculateCredit pays from one floor to the next.             *)
<1>a. ASSUME DescendingRates, NEW held1 \in Int, NEW a1 \in Nat \ {0}, NEW k \in DOMAIN Rates, NEW c \in Int
      PROVE  RewardFromTier(held1, [credit |-> c, staked |-> Floor(held1, a1, k - 1),
                                   locking |-> Floor(held1, a1, k - 1) - held1], Rates[k])
             = [credit |-> c + ((Floor(held1, a1, k - 1) - Floor(held1, a1, k)) * Rates[k].rate) \div 100,
                staked |-> Floor(held1, a1, k), locking |-> Floor(held1, a1, k) - held1]
  <2> USE <1>a
  <2> DEFINE m == Rates[k].amount
             r == Rates[k].rate
             above == Floor(held1, a1, k - 1)
             here == Floor(held1, a1, k)
  <2>1. m \in Nat /\ r \in Nat /\ k \in Nat \ {0}
    BY RatesTyped
  <2>2. above \in Int /\ here \in Int /\ held1 <= here /\ here <= above /\ above <= held1 + a1
    BY FloorFalls, Zenon
  <2>3. here = IF m <= held1 THEN held1 ELSE IF m < held1 + a1 THEN m ELSE held1 + a1
    BY <2>1, Zenon DEF Floor
  <2>4. above < m => here = above
    <3>1. CASE k = 1
      BY <2>1, <2>3, <3>1 DEF Floor
    <3>2. CASE k # 1
      <4>1. k - 1 \in DOMAIN Rates /\ k - 1 # 0 /\ k - 1 < k
        BY <2>1, <3>2, RatesTyped
      <4>2. Rates[k - 1].amount \in Nat /\ Rates[k - 1].amount >= m
        BY <4>1, RatesTyped, Zenon DEF DescendingRates
      <4> QED
        BY <2>1, <2>3, <4>1, <4>2 DEF Floor
    <3> QED
      BY <3>1, <3>2, Zenon
  <2> HIDE DEF m, r, above, here
  <2>5. CASE above - held1 = 0 \/ above < m
    <3>1. here = above
      BY <2>2, <2>4, <2>5
    <3>2. ((above - here) * r) \div 100 = 0
      <4>1. above - here = 0 /\ 0 * r = 0 /\ 0 \div 100 = 0
        BY <2>1, <2>2, <3>1
      <4> QED
        BY <4>1, Zenon
    <3>3. RewardFromTier(held1, [credit |-> c, staked |-> above, locking |-> above - held1], Rates[k])
          = [credit |-> c, staked |-> above, locking |-> above - held1]
      BY <2>5, Zenon DEF RewardFromTier, m
    <3> QED
      BY <3>1, <3>2, <3>3 DEF m, r, above, here
  <2>6. CASE ~(above - held1 = 0 \/ above < m)
    <3>1. Larger(m, held1) = here
      BY <2>1, <2>2, <2>3, <2>6 DEF Larger
    <3>2. above - held1 - (above - here) = here - held1
      BY <2>2
    <3> QED
      BY <2>6, <3>1, <3>2, Zenon DEF RewardFromTier, m, r, above, here
  <2> QED
    BY <2>5, <2>6, Zenon
  (* The units of a tier are those between two floors.                       *)
<1>b. ASSUME DescendingRates, NEW held1 \in Int, NEW a1 \in Nat \ {0}, NEW k \in DOMAIN Rates
      PROVE  UnitsIn(k, held1, held1 + a1) = Floor(held1, a1, k - 1) - Floor(held1, a1, k)
  <2> USE <1>b
  <2> DEFINE above == Floor(held1, a1, k - 1)
             here == Floor(held1, a1, k)
             Below(u) == {i \in DOMAIN Rates : Rates[i].amount < u}
  <2>1. Rates[k].amount \in Nat /\ k \in Nat \ {0} /\ DOMAIN Rates \subseteq Int
    BY RatesTyped
  <2>2. above \in Int /\ here \in Int /\ held1 <= here /\ here <= above /\ above <= held1 + a1
    BY FloorFalls, Zenon
  <2>3. ASSUME NEW u \in (held1 + 1) .. (held1 + a1) PROVE TierOf(u) = k <=> u \in (here + 1) .. above
    <3>0. u \in Int /\ held1 < u /\ u <= held1 + a1
      OBVIOUS
    <3>1. IsFiniteSet(Below(u)) /\ Below(u) \subseteq Int
      <4>1. 1 \in Int /\ Len(Rates) \in Int /\ DOMAIN Rates = 1 .. Len(Rates)
        BY RatesTyped
      <4>2. IsFiniteSet(DOMAIN Rates)
        BY <4>1, FS_Interval, Zenon
      <4> QED
        BY <2>1, <4>2, FS_Subset, Zenon
    <3>2. TierOf(u) = k <=> k \in Below(u) /\ \A i \in Below(u) : k <= i
      <4>1. CASE Below(u) = {}
        BY <4>1, <2>1, Zenon DEF TierOf
      <4>2. CASE Below(u) # {}
        <5>1. TierOf(u) = Min(Below(u))
          BY <4>2, Zenon DEF TierOf
        <5>2. Min(Below(u)) \in Below(u) /\ \A i \in Below(u) : Min(Below(u)) <= i
          <6> HIDE DEF Below
          <6> QED
            BY <3>1, <4>2, MinIn, Zenon
        <5> QED
          BY <5>1, <5>2, <2>1
      <4> QED
        BY <4>1, <4>2, Zenon
    <3>3. Rates[k].amount < u <=> here < u
      BY <3>0, <2>1 DEF Floor
    <3>4. (\A i \in Below(u) : k <= i) <=> u <= above
      <4>1. CASE k = 1
        <5>1. \A i \in DOMAIN Rates : 1 <= i
          BY RatesTyped
        <5> QED
          BY <3>0, <4>1, <5>1 DEF Floor
      <4>2. CASE k # 1
        <5>1. k - 1 \in DOMAIN Rates /\ k - 1 \in Nat \ {0} /\ k - 1 < k
          BY <2>1, <4>2, RatesTyped
        <5>2. Rates[k - 1].amount \in Nat
          BY <5>1, RatesTyped, Zenon
        <5>3. u <= above <=> ~(Rates[k - 1].amount < u)
          BY <5>1, <5>2, <3>0 DEF Floor
        <5>4. ASSUME NEW i \in Below(u), ~(k <= i) PROVE Rates[k - 1].amount < u
          <6>1. i \in DOMAIN Rates /\ i \in Int /\ (i = k - 1 \/ i < k - 1) /\ Rates[i].amount < u
            BY <5>4, <2>1
          <6>2. Rates[i].amount \in Nat /\ (i < k - 1 => Rates[i].amount >= Rates[k - 1].amount)
            BY <5>1, <6>1, RatesTyped, Zenon DEF DescendingRates
          <6> QED
            BY <6>1, <6>2, <5>2, <3>0
        <5>5. Rates[k - 1].amount < u => k - 1 \in Below(u) /\ ~(k <= k - 1)
          <6>1. ~(k <= k - 1)
            BY <2>1
          <6> QED
            BY <5>1, <6>1, Zenon
        <5> QED
          BY <5>3, <5>4, <5>5, Zenon
      <4> QED
        BY <4>1, <4>2, Zenon
    <3> QED
      BY <3>0, <3>2, <3>3, <3>4, <2>2
  <2> HIDE DEF above, here
  <2>4. {u \in (held1 + 1) .. (held1 + a1) : TierOf(u) = k} = (here + 1) .. above
    <3>1. (here + 1) .. above \subseteq (held1 + 1) .. (held1 + a1)
      BY <2>2
    <3> QED
      BY <2>3, <3>1, Zenon
  <2>5. Cardinality((here + 1) .. above) = above - here
    <3>1. here + 1 \in Int /\ above \in Int
      BY <2>2
    <3>2. Cardinality((here + 1) .. above) = IF here + 1 > above THEN 0 ELSE above - (here + 1) + 1
      BY <3>1, FS_Interval, Zenon
    <3> QED
      BY <3>2, <2>2
  <2> QED
    BY <2>4, <2>5, Zenon DEF UnitsIn, above, here
<1> DEFINE start == [credit |-> 0, staked |-> held + a, locking |-> a]
           S == DOMAIN Rates
           g == CHOOSE h : Rewarding(h, Rates, held, start, S)
           pay == [i \in S |-> (UnitsIn(i, held, held + a) * Rates[i].rate) \div 100]
           Paid(k) == [credit |-> SumFunctionOnSet(pay, 1 .. k), staked |-> Floor(held, a, k),
                        locking |-> Floor(held, a, k) - held]
           n == Len(Rates)
           G == {s \in SUBSET S : \A k \in 0 .. n : s = 1 .. k => g[s] = Paid(k)}
<1>1. CalculateCredit(Rates, held, a) = g[S].credit
  BY Zenon DEF CalculateCredit, MapThenFoldSet, Rewarding, LastRound
<1>2. S = 1 .. n /\ n \in Nat
  BY RatesTyped, Zenon
<1>3. Numbers(S) /\ IsFiniteSet(S)
  BY <1>2, FS_Interval DEF Numbers
<1>4. Rewarding(g, Rates, held, start, S)
  BY <1>3, RewardingExists, Zenon
<1>5. \A i \in S : pay[i] = ((Floor(held, a, i - 1) - Floor(held, a, i)) * Rates[i].rate) \div 100 /\ pay[i] \in Int
  <2> SUFFICES ASSUME NEW i \in S
               PROVE  pay[i] = ((Floor(held, a, i - 1) - Floor(held, a, i)) * Rates[i].rate) \div 100 /\ pay[i] \in Int
    BY Zenon
  <2>1. pay[i] = ((Floor(held, a, i - 1) - Floor(held, a, i)) * Rates[i].rate) \div 100
    BY <1>b, Zenon
  <2>2. Floor(held, a, i - 1) - Floor(held, a, i) \in Int /\ Rates[i].rate \in Int
    <3>1. Floor(held, a, i) \in Int /\ Floor(held, a, i - 1) \in Int
      BY FloorFalls, Zenon
    <3>2. Rates[i].rate \in Int
      BY RatesTyped
    <3> HIDE DEF Floor
    <3> QED
      BY <3>1, <3>2
  <2>3. (Floor(held, a, i - 1) - Floor(held, a, i)) * Rates[i].rate \in Int
    BY <2>2
  <2> QED
    BY <2>1, <2>3
<1> HIDE DEF g, pay
<1>6. ASSUME NEW s \in SUBSET S, \A u \in SUBSET s : u # s => u \in G
      PROVE  s \in G
  <2>0. s # {} => g[s] = LastRound(g, Rates, held, s)
    BY <1>4, RewardingAt, SMTT(20)
  <2> SUFFICES ASSUME NEW k \in 0 .. n, s = 1 .. k PROVE g[s] = Paid(k)
    BY Zenon
  <2>1. CASE k = 0
    <3>1. s = {} /\ 1 .. k = {}
      BY <2>1
    <3>2. g[s] = start
      BY <3>1, <1>4, RewardingEmpty, Zenon
    <3>3. Floor(held, a, k) = held + a /\ held + a - held = a
      BY <2>1 DEF Floor
    <3>4. SumFunctionOnSet(pay, 1 .. k) = 0
      BY <3>1, SumEmpty, Zenon
    <3> QED
      BY <3>2, <3>3, <3>4
  <2>2. CASE k # 0
    <3>1. k \in Nat /\ k >= 1 /\ k \in s /\ k \in S /\ s # {} /\ k - 1 \in 0 .. n
      <4>1. k \in Nat /\ k >= 1 /\ k \in 1 .. k /\ k - 1 \in 0 .. n
        BY <2>2, <1>2
      <4> QED
        BY <4>1, Zenon
    <3>2. Max(s) = k
      <4>1. Max(s) \in s /\ \A y \in s : Max(s) >= y
        <5>1. IsFiniteSet(s)
          BY <1>3, FS_Subset, Zenon
        <5>2. s \subseteq Int
          BY <1>3, Zenon DEF Numbers
        <5> QED
          BY <5>1, <5>2, <3>1, MaxIn, Zenon
      <4> QED
        BY <4>1, <3>1
    <3>3. s \ {k} = 1 .. (k - 1) /\ s = (1 .. (k - 1)) \cup {k} /\ k \notin 1 .. (k - 1)
      BY <3>1
    <3>4. g[s \ {k}] = Paid(k - 1)
      <4>1. s \ {k} \in G
        BY <1>6, <3>1, Zenon
      <4> QED
        BY <4>1, <3>1, <3>3, Zenon
    <3>5. g[s] = RewardFromTier(held, Paid(k - 1), Rates[k])
      <4>1. g[s] = LastRound(g, Rates, held, s)
        BY <3>1, <2>0, Zenon
      <4> QED
        BY <4>1, <3>2, <3>4, Zenon DEF LastRound
    <3>6. IsFiniteSet(1 .. (k - 1)) /\ \A i \in (1 .. (k - 1)) \cup {k} : pay[i] \in Int
      <4>1. IsFiniteSet(1 .. (k - 1))
        BY <3>1, FS_Interval
      <4> QED
        BY <4>1, <3>3, <1>5, Zenon
    <3>7. SumFunctionOnSet(pay, 1 .. (k - 1)) \in Int
      BY <3>6, SumInt, Zenon
    <3>8. SumFunctionOnSet(pay, 1 .. k) = SumFunctionOnSet(pay, 1 .. (k - 1)) + pay[k]
      <4>1. SumFunctionOnSet(pay, (1 .. (k - 1)) \cup {k}) = pay[k] + SumFunctionOnSet(pay, 1 .. (k - 1))
        BY <3>3, <3>6, SumAdd, Zenon
      <4>2. pay[k] \in Int
        BY <1>5, <3>1, Zenon
      <4>3. 1 .. k = (1 .. (k - 1)) \cup {k}
        BY <3>1
      <4> DEFINE before == SumFunctionOnSet(pay, 1 .. (k - 1))
                 last == pay[k]
      <4>4. SumFunctionOnSet(pay, 1 .. k) = last + before
        BY <4>1, <4>3, Zenon
      <4>5. last + before = before + last
        <5>1. last \in Int /\ before \in Int
          BY <4>2, <3>7, Zenon
        <5> HIDE DEF last, before
        <5> QED
          BY <5>1
      <4> QED
        BY <4>4, <4>5, Zenon
    <3>9. RewardFromTier(held, Paid(k - 1), Rates[k]) = Paid(k)
      BY <3>1, <3>7, <3>8, <1>5, <1>a
    <3> QED
      BY <3>5, <3>9, Zenon
  <2> QED
    BY <2>1, <2>2, Zenon
<1>7. G = SUBSET S
  <2> HIDE DEF G
  <2> G \in SUBSET (SUBSET S)
    BY Zenon DEF G
  <2> QED
    BY <1>6, <1>3, SubsetInduction, Zenon
<1>8. g[S] = Paid(n)
  BY <1>7, <1>2
<1> QED
  BY <1>1, <1>8, <1>2 DEF CreditByTier, pay

-----------------------------------------------------------------------------
(* The types *)

Unlocking == [del : Del, val : Val, height : Nat, amount : Nat, completion : Nat, unlock : Nat]
Entry == [height : Nat, completion : Nat, balance : Nat]
Address == EventAddress \cup {"operator"}
Timer == [startTime : Int, duration : Nat \ {0}, started : BOOLEAN, epoch : Nat,
          epochStart : Int, startHeight : Nat]

ClockOK ==
    /\ now \in Nat /\ height \in Nat \ {0} /\ slashes \in Nat /\ restarts \in Nat
    /\ epoch \in Timer
    /\ event \in [val : Val \cup {0}, burned : Nat, doubleSign : BOOLEAN, address : Address]
    /\ event.burned > 0 => event.val \in Val
RecordsOK ==
    /\ lockups \in [Pair -> Int] /\ insurance \in [Pair -> Int] /\ total \in Int
    /\ unlocking \subseteq Unlocking /\ IsFiniteSet(unlocking)
CreditsOK == credit \in [Del -> Int]
CoinsOK == wallet \in [Del -> Int] /\ module \in Int /\ pool \in Nat
StakingOK ==
    /\ stake \in [Val -> Nat] /\ others \in [Val -> Nat] /\ rounding \in [Val -> Nat]
    /\ ubd \in [Val -> SUBSET Entry] /\ \A v \in Val : IsFiniteSet(ubd[v])
    /\ bonded \subseteq Val /\ uneven \subseteq Val

(* Every part of the state keeps its type.                                 *)
TierTypeOK == ClockOK /\ RecordsOK /\ CreditsOK /\ CoinsOK /\ StakingOK

(* A step that leaves the clock alone keeps its type.                      *)
LEMMA ClockStutter == ASSUME ClockOK, UNCHANGED clock PROVE ClockOK'
BY Zenon DEF ClockOK, clock
(* A step that leaves the lockups and records alone keeps their types.     *)
LEMMA RecordsStutter == ASSUME RecordsOK, UNCHANGED records PROVE RecordsOK'
BY Zenon DEF RecordsOK, records
(* A step that leaves the credits alone keeps their types.                 *)
LEMMA CreditsStutter == ASSUME CreditsOK, UNCHANGED credits PROVE CreditsOK'
BY Zenon DEF CreditsOK, credits
(* A step that leaves the coins alone keeps their types.                   *)
LEMMA CoinsStutter == ASSUME CoinsOK, UNCHANGED coins PROVE CoinsOK'
BY Zenon DEF CoinsOK, coins
(* A step that leaves the staking module alone keeps its types.            *)
LEMMA StakingStutter == ASSUME StakingOK, UNCHANGED staking PROVE StakingOK'
BY Zenon DEF StakingOK, staking

(* The sums that the operations use.                                       *)
LEMMA PairsFinite ==
    /\ IsFiniteSet(Pair)
    /\ \A d : IsFiniteSet({d} \X Val)
    /\ \A v : IsFiniteSet(Del \X {v})
<1>1. IsFiniteSet(Del) /\ IsFiniteSet(Val)
  BY TierAssumption, Zenon
<1>2. \A x : IsFiniteSet({x})
  BY FS_Singleton, Zenon
<1>3. ASSUME NEW S, NEW T, IsFiniteSet(S), IsFiniteSet(T) PROVE IsFiniteSet(S \X T)
  BY <1>3, FS_Product, Zenon
<1> QED
  BY <1>1, <1>2, <1>3, Zenon DEF Pair

(* What a delegator has locked, and what of it is insured, are integers.   *)
LEMMA SumsInt ==
    ASSUME RecordsOK, NEW d \in Del
    PROVE  LockedBy(d) \in Int /\ InsuredBy(d) \in Int
<1>1. \A p \in {d} \X Val : lockups[p] \in Int /\ insurance[p] \in Int
  BY Zenon DEF RecordsOK, Pair
<1>2. IsFiniteSet({d} \X Val)
  BY PairsFinite, Zenon
<1> QED
  BY <1>1, <1>2, SumInt, Zenon DEF LockedBy, InsuredBy

(* The balances of finitely many entries add up to a natural number.       *)
LEMMA BalanceNat ==
    ASSUME NEW es, IsFiniteSet(es), \A e \in es : e.balance \in Nat
    PROVE  BalanceOf(es) \in Nat
BY SumNat, Zenon DEF BalanceOf

(* A finite set stays so when one element replaces some of it.             *)
LEMMA ReplaceFinite ==
    ASSUME NEW S, IsFiniteSet(S), NEW T, NEW x
    PROVE  IsFiniteSet((S \ T) \cup {x}) /\ IsFiniteSet(S \ T)
<1>1. IsFiniteSet(S \ T)
  BY FS_Subset, Zenon
<1>2. IsFiniteSet({x})
  BY FS_Singleton, Zenon
<1> QED
  BY <1>1, <1>2, FS_Union, Zenon

-----------------------------------------------------------------------------
(* Messages about lockups *)

(* Locking a natural amount with a validator.                              *)
LEMMA LockTypes ==
    ASSUME TierTypeOK, NEW d \in Del, NEW v \in Val, NEW a \in Nat, Lock(d, v, a)
    PROVE  RecordsOK' /\ CreditsOK' /\ CoinsOK' /\ StakingOK'
  (* What a lock made now earns is a number.                                 *)
<1>a. ASSUME ClockOK, RecordsOK, NEW d1 \in Del, NEW a1 \in Int
      PROVE  ProratedCredit(d1, a1) \in Int
  <2> USE <1>a
  <2> DEFINE since == IF epoch.started THEN now - epoch.epochStart ELSE epoch.duration
             held == LockedBy(d1) + InsuredBy(d1)
             c == CalculateCredit(Rates, held, a1)
  <2>1. since \in Int /\ epoch.duration \in Nat \ {0}
    BY DEF ClockOK, Timer
  <2>2. held \in Int
    BY SumsInt
  <2> HIDE DEF held
  <2>3. c \in Int
    BY <2>2, TierAssumption, CreditInt, Zenon
  <2>4. ProratedCredit(d1, a1) =
          IF since < epoch.duration THEN (c * since) \div epoch.duration ELSE c
    BY Zenon DEF ProratedCredit, CalculateProratedCredit, held
  <2> HIDE DEF c, since
  <2>5. c * since \in Int
    BY <2>1, <2>3
  <2>6. (c * since) \div epoch.duration \in Int
    <3> DEFINE m == c * since
    <3> HIDE DEF m
    <3> QED
      BY <2>1, <2>5 DEF m
  <2> QED
    BY <2>3, <2>4, <2>6, Zenon
<1> DEFINE earned == ProratedCredit(d, a)
<1>1. earned \in Int
  BY <1>a DEF TierTypeOK
<1>2. /\ wallet' = [wallet EXCEPT ![d] = @ - a]
      /\ stake' = [stake EXCEPT ![v] = @ + a]
      /\ credit' = [credit EXCEPT ![d] = @ + earned]
      /\ lockups' = [lockups EXCEPT ![<<d, v>>] = @ + a] /\ total' = total + a
      /\ UNCHANGED <<insurance, unlocking, module, pool, others, ubd, redels, bonded, uneven, unseen, rounding>>
  BY Zenon DEF Lock, AddLockup
<1> HIDE DEF earned
<1>3. RecordsOK'
  BY <1>2 DEF TierTypeOK, RecordsOK, Pair
<1>4. CreditsOK'
  BY <1>1, <1>2 DEF TierTypeOK, CreditsOK
<1>5. CoinsOK'
  BY <1>2 DEF TierTypeOK, CoinsOK
<1>6. StakingOK'
  BY <1>2 DEF TierTypeOK, StakingOK
<1> QED
  BY <1>3, <1>4, <1>5, <1>6, Zenon

(* Lock and LockAuto keep the types.                                       *)
LEMMA MsgLockTypes ==
    ASSUME TierTypeOK, NEW d \in Del, NEW a \in Amount,
           MsgLockAuto(d, a) \/ \E v \in Val : MsgLock(d, v, a)
    PROVE  TierTypeOK'
<1>1. PICK v \in Val : Lock(d, v, a) /\ UNCHANGED clock
  <2>1. AutoValidator(d) \subseteq Val
    BY Zenon DEF TierTypeOK, StakingOK, AutoValidator, OwnValidator, SmallestOf
  <2> QED
    BY <2>1, Zenon DEF MsgLockAuto, MsgLock
<1>2. a \in Nat
  BY TierAssumption, Zenon
<1> QED
  BY <1>1, <1>2, LockTypes, ClockStutter, Zenon DEF TierTypeOK

(* What comes back of a positive amount is a natural.                      *)
LEMMA ReturnedNat ==
    ASSUME NEW v, NEW a \in Nat \ {0}, NEW back \in Returned(v, a)
    PROVE  back \in Nat /\ a - back \in Nat /\ back <= a
BY DEF Returned

(* Unlock keeps the types, whatever the validator gives back.              *)
LEMMA UnlockTypes ==
    ASSUME TierTypeOK, NEW d \in Del, NEW v \in Val, NEW a \in Amount, Unlock(d, v, a)
    PROVE  TierTypeOK'
  (* A new unbonding entry, with what was unbonded in this block before.     *)
<1>a. ASSUME ClockOK, StakingOK, NEW v1 \in Val, NEW back \in Nat, ubd' = Unbonding(v1, back)
      PROVE  ubd' \in [Val -> SUBSET Entry] /\ \A w \in Val : IsFiniteSet(ubd'[w])
  <2> USE <1>a
  <2> DEFINE same == {e \in ubd[v1] : e.height = height}
             merged == [height |-> height, completion |-> now + UnbondingTime,
                        balance |-> back + BalanceOf(same)]
  <2>1. ubd' = [ubd EXCEPT ![v1] = (@ \ same) \cup {merged}]
    BY Zenon DEF Unbonding
  <2>2. IsFiniteSet(same) /\ same \subseteq Entry
    BY FS_Subset, Zenon DEF StakingOK
  <2> HIDE DEF same
  <2>3. BalanceOf(same) \in Nat
    BY <2>2, BalanceNat, Zenon DEF Entry
  <2>4. merged \in Entry
    BY <2>3, TierAssumption DEF Entry, ClockOK
  <2> HIDE DEF merged
  <2>5. IsFiniteSet((ubd[v1] \ same) \cup {merged})
    <3>1. IsFiniteSet(ubd[v1])
      BY Zenon DEF StakingOK
    <3> QED
      BY <3>1, ReplaceFinite, Zenon
  <2> QED
    BY <2>1, <2>4, <2>5, Zenon DEF StakingOK
<1> USE DEF TierTypeOK
<1>0. a \in Nat \ {0}
  BY TierAssumption, Zenon
<1> DEFINE p == <<d, v>>
           Rec(back) == [del |-> d, val |-> v, height |-> height, amount |-> back,
                         completion |-> now + UnbondingTime,
                         unlock |-> now + EpochDuration * UnlockingEpochs]
<1>1. PICK back \in Returned(v, a) :
          /\ unlocking' = SetUnlocking(Rec(back))
          /\ ubd' = Unbonding(v, back)
          /\ others' = [others EXCEPT ![v] = @ + (a - back)]
  BY Zenon DEF Unlock
<1>2. back \in Nat /\ a - back \in Nat
  BY <1>0, ReturnedNat, Zenon
<1>3. Rec(back) \in Unlocking
  <2>1. EpochDuration * UnlockingEpochs \in Nat
    BY TierAssumption
  <2> QED
    BY <1>2, <2>1, TierAssumption DEF Unlocking, ClockOK
<1>4. unlocking' \subseteq Unlocking /\ IsFiniteSet(unlocking')
  <2> HIDE DEF Rec
  <2>1. IsFiniteSet({w \in unlocking : KeyOf(w) # KeyOf(Rec(back))})
    BY FS_Subset, Zenon DEF RecordsOK
  <2>2. IsFiniteSet({w \in unlocking : KeyOf(w) # KeyOf(Rec(back))} \cup {Rec(back)})
    BY <2>1, FS_AddElement, Zenon
  <2> QED
    BY <1>1, <1>3, <2>2, Zenon DEF SetUnlocking, RecordsOK
<1>5. RecordsOK'
  <2>1. lockups' = [lockups EXCEPT ![p] = @ - a] /\ total' = total - a
    BY Zenon DEF Unlock
  <2>2. insurance' = IF a = lockups[p] THEN [insurance EXCEPT ![p] = 0] ELSE insurance
    BY Zenon DEF Unlock
  <2> QED
    BY <1>0, <1>4, <2>1, <2>2 DEF RecordsOK, Pair
<1>6. StakingOK'
  <2>1. /\ stake' = [stake EXCEPT ![v] = @ - a] /\ a <= stake[v]
        /\ UNCHANGED <<redels, bonded, uneven, unseen, rounding>>
    BY Zenon DEF Unlock
  <2>2. ubd' \in [Val -> SUBSET Entry] /\ \A w \in Val : IsFiniteSet(ubd'[w])
    BY <1>1, <1>2, <1>a, Zenon
  <2>3. stake' \in [Val -> Nat]
    BY <1>0, <2>1 DEF StakingOK
  <2>4. others' \in [Val -> Nat]
    <3>1. others' = [others EXCEPT ![v] = @ + (a - back)]
      BY <1>1, Zenon
    <3> HIDE DEF Rec
    <3> QED
      BY <1>2, <3>1 DEF StakingOK
  <2> QED
    BY <2>1, <2>2, <2>3, <2>4, Zenon DEF StakingOK
<1> QED
  BY <1>5, <1>6, ClockStutter, CreditsStutter, CoinsStutter, Zenon DEF Unlock

(* Redelegate keeps the types.                                             *)
LEMMA RedelegateTypes ==
    ASSUME TierTypeOK, NEW d \in Del, NEW src \in Val, NEW dst \in Val, NEW a \in Amount,
           Redelegate(d, src, dst, a)
    PROVE  TierTypeOK'
<1> USE DEF TierTypeOK
<1>0. a \in Nat \ {0}
  BY TierAssumption, Zenon
<1>1. PICK back \in Returned(src, a) :
          /\ stake' = [stake EXCEPT ![src] = @ - a, ![dst] = @ + back]
          /\ others' = [others EXCEPT ![src] = @ + (a - back)]
          /\ rounding' = [rounding EXCEPT ![dst] = @ + (a - back)]
  BY Zenon DEF Redelegate
<1>2. back \in Nat /\ a - back \in Nat
  BY <1>0, ReturnedNat, Zenon
<1>3. StakingOK'
  <2>1. a <= stake[src] /\ src # dst /\ UNCHANGED <<ubd, bonded, uneven>>
    BY Zenon DEF Redelegate
  <2> QED
    BY <1>0, <1>1, <1>2, <2>1 DEF StakingOK
<1>4. RecordsOK'
  <2> DEFINE p == <<d, src>>
             q == <<d, dst>>
  <2>1. /\ lockups' = [lockups EXCEPT ![p] = @ - a, ![q] = @ + a]
        /\ insurance' = IF a = lockups[p] THEN [insurance EXCEPT ![p] = 0, ![q] = @ + insurance[p]]
                        ELSE insurance
        /\ UNCHANGED <<total, unlocking>>
    BY Zenon DEF Redelegate, Moved
  <2>2. p \in Pair /\ q \in Pair
    BY Zenon DEF Pair
  <2> HIDE DEF p, q
  <2> QED
    BY <1>0, <2>1, <2>2 DEF RecordsOK
<1> QED
  BY <1>3, <1>4, ClockStutter, CreditsStutter, CoinsStutter, Zenon DEF Redelegate

(* CancelUnlocking keeps the types.                                        *)
LEMMA CancelTypes ==
    ASSUME TierTypeOK, NEW d \in Del, NEW v \in Val, NEW h, NEW a \in Amount,
           CancelUnlocking(d, v, h, a)
    PROVE  TierTypeOK'
<1> USE DEF TierTypeOK
<1>0. a \in Nat \ {0}
  BY TierAssumption, Zenon
<1>1. PICK e \in ubd[v], u \in unlocking :
          /\ a <= e.balance /\ a <= u.amount
          /\ ubd' = [ubd EXCEPT ![v] = (@ \ {e}) \cup
                        (IF a = e.balance THEN {} ELSE {[e EXCEPT !.balance = @ - a]})]
          /\ unlocking' = LessUnlocking(u, a)
  BY Zenon DEF CancelUnlocking
<1>2. e \in Entry /\ u \in Unlocking
  BY Zenon DEF StakingOK, RecordsOK
<1>3. [e EXCEPT !.balance = @ - a] \in Entry /\ [u EXCEPT !.amount = @ - a] \in Unlocking
  BY <1>0, <1>1, <1>2 DEF Entry, Unlocking
<1>4. unlocking' \subseteq Unlocking /\ IsFiniteSet(unlocking')
  <2> DEFINE less == [u EXCEPT !.amount = @ - a]
  <2>1. unlocking' = (unlocking \ {u}) \cup (IF a = u.amount THEN {} ELSE {less})
    BY <1>1, Zenon DEF LessUnlocking
  <2> HIDE DEF less
  <2>2. IsFiniteSet(unlocking \ {u}) /\ IsFiniteSet((unlocking \ {u}) \cup {less})
    BY ReplaceFinite, Zenon DEF RecordsOK
  <2> QED
    BY <1>3, <2>1, <2>2, Zenon DEF RecordsOK, less
<1>5. RecordsOK'
  <2>1. /\ lockups' = [lockups EXCEPT ![<<d, v>>] = @ + a] /\ total' = total + a
        /\ UNCHANGED insurance
    BY Zenon DEF CancelUnlocking, AddLockup
  <2> QED
    BY <1>0, <1>4, <2>1 DEF RecordsOK, Pair
<1>6. StakingOK'
  <2> DEFINE less == [e EXCEPT !.balance = @ - a]
             left == IF a = e.balance THEN {} ELSE {less}
  <2>1. left \subseteq Entry
    BY <1>3, Zenon
  <2>2. IsFiniteSet((ubd[v] \ {e}) \cup left)
    <3> HIDE DEF less
    <3>1. IsFiniteSet(ubd[v] \ {e}) /\ IsFiniteSet((ubd[v] \ {e}) \cup {less})
      BY ReplaceFinite, Zenon DEF StakingOK
    <3> QED
      BY <3>1, Zenon
  <2>3. /\ stake' = [stake EXCEPT ![v] = @ + a]
        /\ UNCHANGED <<others, bonded, uneven, unseen, rounding>>
    BY Zenon DEF CancelUnlocking
  <2>4. ubd' = [ubd EXCEPT ![v] = (@ \ {e}) \cup left]
    BY <1>1, Zenon
  <2> HIDE DEF left
  <2> QED
    BY <1>0, <2>1, <2>2, <2>3, <2>4 DEF StakingOK
<1> QED
  BY <1>5, <1>6, ClockStutter, CreditsStutter, CoinsStutter, Zenon DEF CancelUnlocking

-----------------------------------------------------------------------------
(* Blocks and epochs *)

(* A part of a natural is no more than the whole.                          *)
LEMMA PartOf ==
    ASSUME NEW n \in Nat, NEW x \in Nat, NEW y \in Nat \ {0}, x <= y
    PROVE  (n * x) \div y \in Nat /\ (n * x) \div y <= n
<1> DEFINE m == n * x
           q == m \div y
<1>1. m \in Nat /\ m <= n * y
  OBVIOUS
<1> HIDE DEF m
<1>2. q \in Nat /\ q * y <= m
  BY <1>1
<1> HIDE DEF q
<1>3. q * y <= n * y
  BY <1>1, <1>2
<1>4. q <= n
  BY <1>2, <1>3
<1> QED
  BY <1>2, <1>4, Zenon DEF q, m

(* A new block, with or without a slash, keeps the types.                  *)
LEMMA StartBlockTypes ==
    ASSUME TierTypeOK, StartBlock
    PROVE  TierTypeOK'
  (* A slash leaves naturals.                                                *)
<1>a. ASSUME TierTypeOK, NEW v \in Val, NEW part \in Slash, NEW since, NEW doubleSign \in BOOLEAN,
             NEW address \in EventAddress, SlashValidator(v, part, since, doubleSign, address)
      PROVE  /\ StakingOK'
             /\ event' \in [val : Val, burned : Nat, doubleSign : BOOLEAN, address : Address]
             /\ slashes' \in Nat
  <2> USE <1>a
  <2> USE DEF TierTypeOK
  <2> DEFINE tokens == stake[v] + others[v]
             burned == (tokens * part[1]) \div part[2]
             kept == (stake[v] * (tokens - burned)) \div tokens
             Cut(e) == IF e.height < since THEN e
                       ELSE [e EXCEPT !.balance = @ - (@ * part[1]) \div part[2]]
             cut == {Cut(e) : e \in ubd[v]}
             moved == {r \in redels : r.src = v /\ r.height >= since}
             Share(w) == (AmountOf({r \in moved : r.dst = w}) * part[1]) \div part[2]
             Taken(w) == IF Share(w) \in 0 .. stake[w] THEN Share(w) ELSE stake[w]
             Left(w) == IF w = v THEN kept ELSE stake[w] - Taken(w)
  <2>1. part[1] \in Nat /\ part[2] \in Nat \ {0} /\ part[1] <= part[2]
    BY TierAssumption, Zenon
  <2>2. tokens \in Nat \ {0} /\ stake[v] \in Nat /\ stake[v] <= tokens
    BY DEF SlashValidator, StakingOK
  <2>3. /\ stake' = [w \in Val |-> Left(w)]
        /\ others' = [others EXCEPT ![v] = tokens - burned - kept]
        /\ ubd' = [ubd EXCEPT ![v] = cut]
        /\ bonded' = bonded \ {v}
        /\ uneven' = uneven \cup {w \in Val : w = v \/ \E r \in moved : r.dst = w}
        /\ event' = [val |-> v, burned |-> burned, doubleSign |-> doubleSign, address |-> address]
        /\ slashes' = slashes + 1
        /\ UNCHANGED rounding
    BY Zenon DEF SlashValidator
  <2> HIDE DEF moved
  <2> HIDE DEF tokens
  <2>4. burned \in Nat /\ burned <= tokens
    BY <2>1, <2>2, PartOf, Zenon
  <2> HIDE DEF burned
  <2>5. kept \in Nat /\ tokens - burned - kept \in Nat
    <3> DEFINE left == tokens - burned
    <3>1. left \in Nat /\ left <= tokens
      BY <2>2, <2>4
    <3> HIDE DEF left
    <3>2. (left * stake[v]) \div tokens \in Nat /\ (left * stake[v]) \div tokens <= left
      BY <2>2, <3>1, PartOf, Zenon
    <3>3. left * stake[v] = stake[v] * left
      BY <2>2, <3>1
    <3>4. kept \in Nat /\ kept <= left
      BY <3>2, <3>3, Zenon DEF left
    <3> HIDE DEF kept
    <3> QED
      BY <3>1, <3>4 DEF left
  <2> HIDE DEF kept
  <2>6. ASSUME NEW e \in ubd[v] PROVE Cut(e) \in Entry
    <3>1. e \in Entry
      BY Zenon DEF StakingOK
    <3> DEFINE lost == (e.balance * part[1]) \div part[2]
    <3>2. lost \in Nat /\ lost <= e.balance
      BY <2>1, <3>1, PartOf, Zenon DEF Entry
    <3>3. Cut(e) = IF e.height < since THEN e ELSE [e EXCEPT !.balance = @ - lost]
      BY Zenon
    <3> HIDE DEF lost
    <3> QED
      BY <3>1, <3>2, <3>3 DEF Entry
  <2>7. IsFiniteSet(cut)
    <3> DEFINE f == [e \in ubd[v] |-> Cut(e)]
    <3>1. f \in Surjection(ubd[v], cut)
      <4> HIDE DEF Cut
      <4> QED
        BY Zenon DEF Surjection
    <3>2. IsFiniteSet(ubd[v])
      BY Zenon DEF StakingOK
    <3> HIDE DEF f, cut
    <3> QED
      BY <3>1, <3>2, FS_Surjection, Zenon
  <2>8. cut \subseteq Entry
    BY <2>6, Zenon
  <2> HIDE DEF cut
  <2>9. StakingOK'
    <3>1. stake' \in [Val -> Nat]
      <4>1. ASSUME NEW w \in Val PROVE Left(w) \in Nat
        <5>1. stake[w] \in Nat
          BY Zenon DEF StakingOK
        <5> HIDE DEF Share
        <5>2. Taken(w) \in 0 .. stake[w]
          BY <5>1
        <5> HIDE DEF Taken
        <5>3. stake[w] - Taken(w) \in Nat
          BY <5>1, <5>2
        <5> QED
          BY <2>5, <5>3, Zenon
      <4> HIDE DEF Left
      <4> QED
        BY <2>3, <4>1, Zenon
    <3>a. others' \in [Val -> Nat]
      BY <2>2, <2>3, <2>5, Zenon DEF StakingOK
    <3>b. rounding' \in [Val -> Nat]
      BY <2>3, Zenon DEF StakingOK
    <3>2. ubd' \in [Val -> SUBSET Entry] /\ \A w \in Val : IsFiniteSet(ubd'[w])
      BY <2>3, <2>7, <2>8, Zenon DEF StakingOK
    <3> QED
      BY <2>3, <3>1, <3>a, <3>b, <3>2, Zenon DEF StakingOK
  <2> QED
    BY <2>3, <2>4, <2>9 DEF ClockOK, Address
<1> USE DEF TierTypeOK
<1>1. now' \in Nat /\ height' \in Nat \ {0} /\ UNCHANGED <<epoch, restarts, records, credits, coins>>
  <2>1. /\ \E halt \in Halt : now' = now + halt
        /\ height' = height + 1
        /\ UNCHANGED <<epoch, restarts, records, credits, coins>>
    BY Zenon DEF StartBlock
  <2>2. now \in Nat /\ height \in Nat \ {0} /\ Halt \subseteq Nat
    BY TierAssumption, Zenon DEF ClockOK
  <2> QED
    BY <2>1, <2>2
<1>2. /\ StakingOK' /\ slashes' \in Nat
      /\ event' \in [val : Val \cup {0}, burned : Nat, doubleSign : BOOLEAN, address : Address]
      /\ event'.burned > 0 => event'.val \in Val
  <2>1. CASE event' = NoEvent /\ UNCHANGED <<slashes, staking>>
    BY <2>1, StakingStutter DEF NoEvent, ClockOK, Address
  <2>2. CASE \E v \in Val, part \in Slash, since \in {0, height}, doubleSign \in BOOLEAN,
                address \in EventAddress : SlashValidator(v, part, since, doubleSign, address)
    BY <2>2, <1>a, Zenon
  <2> QED
    BY <2>1, <2>2, Zenon DEF StartBlock
<1>3. ClockOK'
  BY <1>1, <1>2, Zenon DEF ClockOK
<1> QED
  BY <1>1, <1>2, <1>3, RecordsStutter, CreditsStutter, CoinsStutter, Zenon

(* The timer keeps its type when it starts, ticks and is imported.         *)
LEMMA TimerSteps ==
    ASSUME NEW e \in Timer, NEW h \in Nat
    PROVE  Counting(e, h) \in Timer /\ Tick(e, h) \in Timer /\ Imported(e, h) \in Timer
<1>1. Imported(e, h) \in Timer
  BY Zenon DEF Timer, Imported
<1>2. Tick(e, h) \in Timer
  <2>1. e.epoch + 1 \in Nat /\ EpochEnd(e) \in Int
    BY DEF Timer, EpochEnd
  <2> QED
    BY <2>1, Zenon DEF Timer, Tick
<1>3. Counting(e, h) \in Timer
  BY Zenon DEF Timer, Counting
<1> QED
  BY <1>1, <1>2, <1>3, Zenon

(* The end of an epoch with its payouts keeps the types.                   *)
LEMMA EndEpochTypes ==
    ASSUME TierTypeOK, EndEpoch
    PROVE  TierTypeOK'
  (* The amounts of finitely many records add up to a natural number.        *)
<1>a. ASSUME NEW us, IsFiniteSet(us), \A u \in us : u.amount \in Nat
      PROVE  AmountOf(us) \in Nat
  BY <1>a, SumNat, Zenon DEF AmountOf
<1> USE DEF TierTypeOK
<1>1. PICK paid \in SUBSET unlocking :
        /\ module' = module - AmountOf(paid)
        /\ unlocking' = unlocking \ paid
        /\ wallet' = [d \in Del |-> wallet[d] + AmountOf({u \in paid : u.del = d})]
  BY Zenon DEF EndEpoch, CompleteUnlocking
<1>2. \A us \in SUBSET paid : AmountOf(us) \in Nat
  <2> SUFFICES ASSUME NEW us \in SUBSET paid PROVE AmountOf(us) \in Nat
    BY Zenon
  <2>1. IsFiniteSet(us) /\ us \subseteq Unlocking
    BY FS_Subset, Zenon DEF RecordsOK
  <2> QED
    BY <2>1, <1>a, Zenon DEF Unlocking
<1>3. /\ epoch' = Tick(epoch, height)
      /\ UNCHANGED <<now, height, event, slashes, restarts, lockups, insurance, total, credits, pool, staking>>
  BY Zenon DEF EndEpoch
<1>4. CoinsOK'
  <2>1. AmountOf(paid) \in Nat /\ \A d \in Del : AmountOf({u \in paid : u.del = d}) \in Nat
    BY <1>2, Zenon
  <2> QED
    BY <1>1, <1>3, <2>1 DEF CoinsOK
<1>5. RecordsOK'
  BY <1>1, <1>3, FS_Subset, Zenon DEF RecordsOK
<1>6. ClockOK'
  <2>1. epoch \in Timer /\ height \in Nat
    BY Zenon DEF ClockOK
  <2>2. epoch' \in Timer
    BY <1>3, <2>1, TimerSteps, Zenon
  <2> QED
    BY <1>3, <2>2, Zenon DEF ClockOK
<1> QED
  BY <1>3, <1>4, <1>5, <1>6, CreditsStutter, StakingStutter, Zenon

(* The end blocker of staking keeps the types.                             *)
LEMMA StakingEndTypes ==
    ASSUME TierTypeOK, StakingEndBlocker
    PROVE  StakingOK' /\ module' \in Int
<1> USE DEF TierTypeOK
<1>1. ASSUME NEW v \in Val PROVE BalanceOf(Matured(v)) \in Nat
  <2>1. IsFiniteSet(Matured(v)) /\ Matured(v) \subseteq Entry
    BY FS_Subset, Zenon DEF StakingOK, Matured
  <2> QED
    BY <2>1, BalanceNat, Zenon DEF Entry
<1> DEFINE f == [v \in Val |-> BalanceOf(Matured(v))]
<1>2. SumFunctionOnSet(f, Val) \in Int
  <2>1. \A v \in Val : f[v] \in Int
    BY <1>1
  <2> HIDE DEF f
  <2> QED
    BY <2>1, TierAssumption, SumInt, Zenon
<1>3. module' \in Int
  BY <1>2 DEF StakingEndBlocker, CoinsOK
<1>4. \A v \in Val : ubd[v] \ Matured(v) \in SUBSET Entry /\ IsFiniteSet(ubd[v] \ Matured(v))
  BY FS_Subset, Zenon DEF StakingOK
<1>5. StakingOK'
  BY <1>4, Zenon DEF StakingOK, StakingEndBlocker
<1> QED
  BY <1>3, <1>5, Zenon

(* The credits of an epoch are numbers.                                    *)
LEMMA ResetTypes ==
    ASSUME TierTypeOK, ResetCredits
    PROVE  CreditsOK'
<1>1. ASSUME NEW d \in Del PROVE EarnedBy(d) \in Int
  <2> DEFINE held == {p \in {d} \X Val : lockups[p] # 0}
             sum == SumFunctionOnSet(lockups, held) + SumFunctionOnSet(insurance, held)
  <2>1. \A p \in held : lockups[p] \in Int /\ insurance[p] \in Int
    BY Zenon DEF TierTypeOK, RecordsOK, Pair
  <2>2. IsFiniteSet(held)
    <3>1. IsFiniteSet({d} \X Val)
      BY PairsFinite, Zenon
    <3> QED
      BY <3>1, FS_Subset, Zenon
  <2> HIDE DEF held
  <2>3. sum \in Int
    BY <2>1, <2>2, SumInt
  <2> HIDE DEF sum
  <2>4. CalculateCredit(Rates, 0, sum) \in Int
    BY <2>3, TierAssumption, CreditInt
  <2> QED
    BY <2>4, Zenon DEF EarnedBy, sum, held
<1> QED
  BY <1>1, Zenon DEF TierTypeOK, CreditsOK, ResetCredits

-----------------------------------------------------------------------------
(* Slashing and rewards *)

(* Quotients and truncated products are numbers, and naturals of naturals. *)
LEMMA QuoInt ==
    ASSUME NEW n \in Int, NEW d \in Nat \ {0}
    PROVE  Quo(n, d) \in Int /\ (n >= 0 => Quo(n, d) >= 0)
<1> DEFINE a == Magnitude(n) * DecUnit
           q == a \div d
           up == 2 * (a % d) > d \/ (2 * (a % d) = d /\ q % 2 = 1)
<1>1. a \in Nat
  BY TierAssumption DEF Magnitude
<1> HIDE DEF a
<1>2. q \in Nat
  BY <1>1
<1>3. Quo(n, d) = Signed(n, IF up THEN q + 1 ELSE q)
  BY Zenon DEF Quo, a
<1> HIDE DEF q, up
<1> QED
  BY <1>2, <1>3 DEF Signed

(* Truncating a product of decimals yields an integer.                     *)
LEMMA TruncInt ==
    ASSUME NEW n \in Int, NEW m \in Int
    PROVE  Trunc(n * m, DecUnit) \in Int
<1> DEFINE x == n * m
<1>1. x \in Int /\ DecUnit \in Nat \ {0}
  BY TierAssumption
<1> HIDE DEF x
<1>2. Magnitude(x) \in Nat
  BY <1>1 DEF Magnitude
<1>3. Magnitude(x) \div DecUnit \in Nat
  BY <1>1, <1>2
<1>4. Trunc(x, DecUnit) \in Int
  BY <1>1, <1>3 DEF Trunc, Signed
<1> QED
  BY <1>4, Zenon DEF x

(* The part of a burn that falls on the module is a natural number.        *)
LEMMA ShareNat ==
    ASSUME StakingOK, NEW v \in Val, NEW burned \in Nat
    PROVE  ShareSlashed(v, burned) \in Nat
<1>1. stake[v] \in Nat /\ others[v] \in Nat
  BY Zenon DEF StakingOK
<1>2. CASE stake[v] = 0
  BY <1>2, Zenon DEF ShareSlashed
<1>3. CASE stake[v] # 0
  <2>1. Quo(stake[v], stake[v] + others[v]) \in Nat
    BY <1>1, <1>3, QuoInt
  <2>2. burned * Quo(stake[v], stake[v] + others[v]) \in Nat
    BY <2>1
  <2> QED
    BY <1>3, <2>2, Zenon DEF ShareSlashed
<1> QED
  BY <1>2, <1>3, Zenon

(* The parts of AdjustLockups.                                             *)
After(p, rate) == Trunc(lockups[p] * rate, DecUnit)
Hit(p, v, rate) == p[2] = v /\ lockups[p] # 0 /\ After(p, rate) # lockups[p]
Insured(p, rate, coverage) ==
    IF After(p, rate) = 0 THEN 0
    ELSE IF coverage > 0 THEN insurance[p] + Trunc(lockups[p] * coverage, DecUnit) ELSE insurance[p]
HitPairs(v, rate) == {p \in Pair : Hit(p, v, rate)}

(* What adjustLockups writes, pair by pair.                                *)
LEMMA Adjusted ==
    ASSUME NEW v, NEW rate, NEW coverage, AdjustLockups(v, rate, coverage)
    PROVE  /\ lockups' = [p \in Pair |-> IF Hit(p, v, rate) THEN After(p, rate) ELSE lockups[p]]
           /\ insurance' = [p \in Pair |-> IF Hit(p, v, rate) THEN Insured(p, rate, coverage)
                                            ELSE insurance[p]]
           /\ total' = total + SumFunctionOnSet([p \in HitPairs(v, rate) |-> After(p, rate) - lockups[p]],
                                                HitPairs(v, rate))
           /\ UNCHANGED unlocking
BY Zenon DEF AdjustLockups, After, Hit, Insured, HitPairs

(* A lockup that is scaled by an integer rate is an integer.               *)
LEMMA AfterInt ==
    ASSUME RecordsOK, NEW rate \in Int, NEW p \in Pair
    PROVE  After(p, rate) \in Int
BY TruncInt, Zenon DEF After, RecordsOK

(* The rates that a double sign and a missed signature come to.            *)
SignedTwice(v, burned) ==
    Quo(stake[v] * DecUnit - ShareSlashed(v, burned), stake[v] * DecUnit)
TokensSlashed(v, burned) == (ShareSlashed(v, burned) + DecUnit - 1) \div DecUnit
CoveredBy(v, burned) ==
    IF pool < TokensSlashed(v, burned) THEN pool ELSE TokensSlashed(v, burned)
MissedRate(v, burned) == Quo(stake[v] - TokensSlashed(v, burned), stake[v])
CoverageRate(v, burned) == Quo(CoveredBy(v, burned), stake[v])

(* What there is to adjust after a slash: the module has a delegation.     *)
LEMMA SlashToHandle ==
    ASSUME TierTypeOK, ~NothingToAdjust
    PROVE  /\ event.val \in Val /\ event.burned \in Nat \ {0} /\ stake[event.val] \in Nat \ {0}
           /\ others[event.val] \in Nat
<1>1. event.burned \in Nat \ {0} /\ event.val \in Val
  BY DEF TierTypeOK, ClockOK, NothingToAdjust
<1>2. stake[event.val] # 0
  BY <1>1, Zenon DEF NothingToAdjust, ShareSlashed
<1> QED
  BY <1>1, <1>2, Zenon DEF TierTypeOK, StakingOK

(* The rates that the slashing handlers compute are integers, and the      *)
(* insurance pool pays no more than it has.                                *)
LEMMA HandlerTypes ==
    ASSUME TierTypeOK, ~NothingToAdjust, NEW v, v = event.val, NEW burned, burned = event.burned
    PROVE  /\ SignedTwice(v, burned) \in Int /\ MissedRate(v, burned) \in Int
           /\ CoverageRate(v, burned) \in Int
           /\ TokensSlashed(v, burned) \in Nat /\ CoveredBy(v, burned) \in 0 .. pool
<1>1. v \in Val /\ burned \in Nat /\ stake[v] \in Nat \ {0} /\ DecUnit \in Nat \ {0} /\ pool \in Nat
  BY SlashToHandle, TierAssumption, Zenon DEF TierTypeOK, CoinsOK
<1>2. ShareSlashed(v, burned) \in Nat
  BY <1>1, ShareNat, Zenon DEF TierTypeOK
<1>3. stake[v] * DecUnit \in Nat \ {0}
  BY <1>1
<1>4. SignedTwice(v, burned) \in Int
  <2> DEFINE n == stake[v] * DecUnit
  <2> HIDE DEF n
  <2>1. n - ShareSlashed(v, burned) \in Int /\ n \in Nat \ {0}
    BY <1>2, <1>3 DEF n
  <2>2. Quo(n - ShareSlashed(v, burned), n) \in Int
    BY <2>1, QuoInt, Zenon
  <2> QED
    BY <2>2, Zenon DEF n, SignedTwice
<1>5. TokensSlashed(v, burned) \in Nat
  <2> DEFINE n == ShareSlashed(v, burned) + DecUnit - 1
  <2>1. n \in Nat
    BY <1>1, <1>2
  <2> HIDE DEF n
  <2>2. n \div DecUnit \in Nat
    BY <1>1, <2>1
  <2> QED
    BY <2>2, Zenon DEF n, TokensSlashed
<1>6. CoveredBy(v, burned) \in 0 .. pool
  BY <1>1, <1>5 DEF CoveredBy
<1>7. MissedRate(v, burned) \in Int /\ CoverageRate(v, burned) \in Int
  BY <1>1, <1>5, <1>6, QuoInt DEF MissedRate, CoverageRate
<1> QED
  BY <1>4, <1>5, <1>6, <1>7, Zenon

(* Handling a slash, with or without insurance, keeps the types.           *)
LEMMA HandleTypes ==
    ASSUME TierTypeOK, HandleSlashingEvents
    PROVE  TierTypeOK'
  (* adjustLockups keeps the types of the lockups.                           *)
<1>a. ASSUME RecordsOK, NEW v, NEW rate \in Int, NEW coverage \in Int, AdjustLockups(v, rate, coverage)
      PROVE  RecordsOK'
  <2> USE <1>a
  <2>1. ASSUME NEW p \in Pair PROVE After(p, rate) \in Int /\ Insured(p, rate, coverage) \in Int
    <3>1. lockups[p] \in Int /\ insurance[p] \in Int
      BY Zenon DEF RecordsOK
    <3>2. Trunc(lockups[p] * coverage, DecUnit) \in Int
      BY <3>1, TruncInt, Zenon
    <3> QED
      BY <3>1, <3>2, AfterInt DEF Insured
  <2> DEFINE hit == HitPairs(v, rate)
             f == [p \in hit |-> After(p, rate) - lockups[p]]
  <2>2. SumFunctionOnSet(f, hit) \in Int
    <3>1. IsFiniteSet(hit)
      BY PairsFinite, FS_Subset, Zenon DEF HitPairs
    <3>2. \A p \in hit : f[p] \in Int
      BY <2>1 DEF RecordsOK, HitPairs
    <3> HIDE DEF f, hit
    <3> QED
      BY <3>1, <3>2, SumInt, Zenon
  <2>3. total' \in Int
    BY <2>2, Adjusted DEF RecordsOK
  <2>4. lockups' \in [Pair -> Int]
    <3>1. lockups' = [p \in Pair |-> IF Hit(p, v, rate) THEN After(p, rate) ELSE lockups[p]]
      BY Adjusted, Zenon
    <3> QED
      BY <2>1, <3>1, Zenon DEF RecordsOK
  <2>5. insurance' \in [Pair -> Int]
    <3>1. insurance' = [p \in Pair |-> IF Hit(p, v, rate) THEN Insured(p, rate, coverage)
                                       ELSE insurance[p]]
      BY Zenon DEF AdjustLockups, After, Hit, Insured
    <3> QED
      BY <2>1, <3>1, Zenon DEF RecordsOK
  <2> QED
    BY <2>3, <2>4, <2>5, Adjusted, Zenon DEF RecordsOK
<1> USE DEF TierTypeOK
<1> DEFINE v == event.val
           burned == event.burned
<1>1. RecordsOK' /\ pool' \in Nat /\ others' \in [Val -> Nat]
  <2>1. CASE HandleDoubleSign
    <3>1. /\ ~NothingToAdjust /\ AdjustLockups(v, SignedTwice(v, burned), 0)
          /\ UNCHANGED <<pool, others>>
      BY <2>1, Zenon DEF HandleDoubleSign, SignedTwice
    <3>2. SignedTwice(v, burned) \in Int
      BY <3>1, HandlerTypes, Zenon
    <3> QED
      BY <3>1, <3>2, <1>a DEF CoinsOK, StakingOK
  <2>2. CASE HandleMissingSignature
    <3>1. /\ ~NothingToAdjust
          /\ AdjustLockups(v, MissedRate(v, burned), CoverageRate(v, burned))
          /\ pool' = pool - CoveredBy(v, burned)
          /\ others' = [others EXCEPT ![v] = @ + CoveredBy(v, burned)]
      BY <2>2, Zenon DEF HandleMissingSignature, MissedRate, CoverageRate, TokensSlashed, CoveredBy
    <3>2. /\ MissedRate(v, burned) \in Int /\ CoverageRate(v, burned) \in Int
          /\ CoveredBy(v, burned) \in 0 .. pool
      BY <3>1, HandlerTypes, Zenon
    <3>3. RecordsOK'
      BY <3>1, <3>2, <1>a, Zenon
    <3>4. v \in Val
      BY <3>1, SlashToHandle, Zenon
    <3> HIDE DEF v, burned
    <3>5. CoveredBy(v, burned) \in Nat /\ pool - CoveredBy(v, burned) \in Nat
      BY <3>2 DEF CoinsOK
    <3> QED
      BY <3>1, <3>3, <3>4, <3>5 DEF StakingOK
  <2>3. CASE UNCHANGED <<records, pool, others>>
    BY <2>3, RecordsStutter, Zenon DEF CoinsOK, StakingOK
  <2> QED
    BY <2>1, <2>2, <2>3, Zenon DEF HandleSlashingEvents
<1>2. /\ UNCHANGED <<now, height, epoch, event, slashes, restarts, credits, wallet, module>>
      /\ UNCHANGED <<stake, ubd, redels, bonded, uneven, unseen, rounding>>
  BY Zenon DEF HandleSlashingEvents
<1>3. ClockOK' /\ CoinsOK' /\ StakingOK'
  <2>1. ClockOK'
    BY <1>2, Zenon DEF ClockOK
  <2>2. CoinsOK'
    BY <1>1, <1>2, Zenon DEF CoinsOK
  <2>3. StakingOK'
    BY <1>1, <1>2, Zenon DEF StakingOK
  <2> QED
    BY <2>1, <2>2, <2>3, Zenon
<1> QED
  BY <1>1, <1>2, <1>3, CreditsStutter, Zenon

(* processRewards keeps the types.                                         *)
LEMMA RewardsTypes ==
    ASSUME TierTypeOK, ProcessRewards
    PROVE  TierTypeOK'
<1> USE DEF TierTypeOK
<1>1. UNCHANGED <<now, height, epoch, event, slashes, restarts, records, credits, wallet, module, staking>>
  BY Zenon DEF ProcessRewards
<1> DEFINE Fees(rewards) == [v \in Val |-> (rewards[v] * InsurancePoolFee) \div 100]
<1>2. PICK rewards \in [Val -> Rewards], insured \in SUBSET Val :
        pool' = IF height % RewardsInterval # 0 THEN pool
                ELSE pool + SumFunctionOnSet(Fees(rewards), insured)
  BY Zenon DEF ProcessRewards
<1>3. SumFunctionOnSet(Fees(rewards), insured) \in Nat
  <2>1. ASSUME NEW v \in insured PROVE Fees(rewards)[v] \in Nat
    <3>1. rewards[v] \in Nat /\ InsurancePoolFee \in Nat
      BY TierAssumption, Zenon
    <3> DEFINE m == rewards[v] * InsurancePoolFee
    <3>2. m \in Nat
      BY <3>1
    <3> HIDE DEF m
    <3>3. m \div 100 \in Nat
      BY <3>2
    <3> QED
      BY <3>3, Zenon DEF m
  <2>2. IsFiniteSet(insured)
    BY FS_Subset, TierAssumption, Zenon
  <2> HIDE DEF Fees
  <2> QED
    BY <2>1, <2>2, SumNat, Zenon
<1>4. CoinsOK'
  <2> HIDE DEF Fees
  <2> QED
    BY <1>1, <1>2, <1>3 DEF CoinsOK
<1>5. ClockOK'
  BY <1>1, Zenon DEF ClockOK
<1> QED
  BY <1>1, <1>4, <1>5, RecordsStutter, CreditsStutter, StakingStutter, Zenon

(* The phases of a block up to the one in which slashes are handled.       *)
Handling == phase \in {"epochs", "start", "check", "slash"}

-----------------------------------------------------------------------------
(* Sums over the lockups *)

(* A sum over some of the lockups when one of them changes.                *)
Shifted(g, f, q, a) == g = [f EXCEPT ![q] = @ + a]

(* Adding to one lockup adds to the sums that it is part of, and to no     *)
(* other.                                                                  *)
LEMMA SumShift ==
    ASSUME NEW f \in [Pair -> Int], NEW q \in Pair, NEW a \in Int, NEW S \in SUBSET Pair,
           NEW g, Shifted(g, f, q, a)
    PROVE  SumFunctionOnSet(g, S) = SumFunctionOnSet(f, S) + (IF q \in S THEN a ELSE 0)
<1>0. IsFiniteSet(S)
  BY PairsFinite, FS_Subset, Zenon
<1>1. \A y \in S : f[y] \in Int /\ g[y] \in Int
  BY DEF Shifted
<1>2. \A y \in S \ {q} : g[y] = f[y]
  BY Zenon DEF Shifted
<1>3. g[q] = f[q] + a /\ f[q] \in Int
  BY Zenon DEF Shifted
<1>4. SumFunctionOnSet(f, S) \in Int
  BY <1>0, SumInt, Zenon
<1>5. CASE q \in S
  <2>1. SumFunctionOnSet(g, S) = SumFunctionOnSet(f, S) + (g[q] - f[q])
    BY <1>0, <1>1, <1>2, <1>5, SumUpdate
  <2> QED
    BY <1>3, <1>4, <1>5, <2>1
<1>6. CASE q \notin S
  <2>1. \A y \in S : g[y] = f[y]
    BY <1>2, <1>6, Zenon
  <2>2. SumFunctionOnSet(g, S) = SumFunctionOnSet(f, S)
    BY <1>0, <2>1, SumAgree, Zenon
  <2> QED
    BY <1>4, <1>6, <2>2
<1> QED
  BY <1>5, <1>6, Zenon

(* One lockup changes.                                                     *)
Shift(p, a) == Shifted(lockups', lockups, p, a)

(* The sums over all lockups, over those of a delegator and over those     *)
(* with a validator follow a lockup that changes.                          *)
LEMMA ShiftSums ==
    ASSUME RecordsOK, NEW d \in Del, NEW v \in Val, NEW a \in Int, Shift(<<d, v>>, a)
    PROVE  /\ SumFunctionOnSet(lockups', Pair) = SumFunctionOnSet(lockups, Pair) + a
           /\ \A c \in Del : LockedBy(c)' = LockedBy(c) + (IF c = d THEN a ELSE 0)
           /\ \A w \in Val : LockedWith(w)' = LockedWith(w) + (IF w = v THEN a ELSE 0)
<1>1. lockups \in [Pair -> Int] /\ <<d, v>> \in Pair
  BY Zenon DEF RecordsOK, Pair
<1>2. \A S \in SUBSET Pair :
        SumFunctionOnSet(lockups', S) = SumFunctionOnSet(lockups, S) + (IF <<d, v>> \in S THEN a ELSE 0)
  BY <1>1, SumShift DEF Shift
<1>3. ASSUME NEW c \in Del PROVE LockedBy(c)' = LockedBy(c) + (IF c = d THEN a ELSE 0)
  <2>1. {c} \X Val \in SUBSET Pair /\ (<<d, v>> \in {c} \X Val <=> c = d)
    BY Zenon DEF Pair
  <2> QED
    BY <1>2, <2>1, Zenon DEF LockedBy
<1>4. ASSUME NEW w \in Val PROVE LockedWith(w)' = LockedWith(w) + (IF w = v THEN a ELSE 0)
  <2>1. Del \X {w} \in SUBSET Pair /\ (<<d, v>> \in Del \X {w} <=> w = v)
    BY Zenon DEF Pair
  <2> QED
    BY <1>2, <2>1, Zenon DEF LockedWith
<1>5. SumFunctionOnSet(lockups', Pair) = SumFunctionOnSet(lockups, Pair) + a
  BY <1>1, <1>2, Zenon
<1> QED
  BY <1>3, <1>4, <1>5, Zenon

(* A part of a lockup moves to another validator.                          *)
LEMMA MoveSums ==
    ASSUME RecordsOK, NEW d \in Del, NEW v \in Val, NEW w \in Val, NEW a \in Int, v # w,
           lockups' = Moved(<<d, v>>, <<d, w>>, a)
    PROVE  /\ SumFunctionOnSet(lockups', Pair) = SumFunctionOnSet(lockups, Pair)
           /\ \A c \in Del : LockedBy(c)' = LockedBy(c)
           /\ \A x \in Val : LockedWith(x)' = LockedWith(x) + (IF x = v THEN -a ELSE IF x = w THEN a ELSE 0)
<1> DEFINE p == <<d, v>>
           q == <<d, w>>
           m == [lockups EXCEPT ![p] = @ + (-a)]
<1>1. lockups \in [Pair -> Int] /\ p \in Pair /\ q \in Pair /\ p # q
  BY Zenon DEF RecordsOK, Pair
<1>2. m \in [Pair -> Int] /\ Shifted(m, lockups, p, -a)
  BY <1>1 DEF Shifted
<1>3. Shifted(lockups', m, q, a)
  BY <1>1, Zenon DEF Shifted, Moved
<1> HIDE DEF p, q, m
<1>4. ASSUME NEW S \in SUBSET Pair
      PROVE  SumFunctionOnSet(lockups', S) = SumFunctionOnSet(lockups, S)
                + ((IF p \in S THEN -a ELSE 0) + (IF q \in S THEN a ELSE 0))
  <2>1. SumFunctionOnSet(m, S) = SumFunctionOnSet(lockups, S) + (IF p \in S THEN -a ELSE 0)
    BY <1>1, <1>2, SumShift
  <2>2. SumFunctionOnSet(lockups', S) = SumFunctionOnSet(m, S) + (IF q \in S THEN a ELSE 0)
    BY <1>1, <1>2, <1>3, SumShift
  <2>3. SumFunctionOnSet(lockups, S) \in Int
    <3>1. IsFiniteSet(S)
      BY PairsFinite, FS_Subset, Zenon
    <3> QED
      BY <1>1, <3>1, SumInt, Zenon
  <2> QED
    BY <2>1, <2>2, <2>3
<1>5. \A S \in SUBSET Pair : SumFunctionOnSet(lockups, S) \in Int
  <2>1. \A S \in SUBSET Pair : IsFiniteSet(S)
    BY PairsFinite, FS_Subset, Zenon
  <2> QED
    BY <1>1, <2>1, SumInt, Zenon
<1>6. SumFunctionOnSet(lockups', Pair) = SumFunctionOnSet(lockups, Pair)
  BY <1>1, <1>4, <1>5
<1>7. ASSUME NEW c \in Del PROVE LockedBy(c)' = LockedBy(c)
  <2>1. {c} \X Val \in SUBSET Pair /\ (p \in {c} \X Val <=> q \in {c} \X Val)
    BY Zenon DEF Pair, p, q
  <2>2. SumFunctionOnSet(lockups', {c} \X Val) = SumFunctionOnSet(lockups, {c} \X Val)
    BY <1>4, <1>5, <2>1
  <2> QED
    BY <2>2, Zenon DEF LockedBy
<1>8. ASSUME NEW x \in Val
      PROVE  LockedWith(x)' = LockedWith(x) + (IF x = v THEN -a ELSE IF x = w THEN a ELSE 0)
  <2>1. /\ Del \X {x} \in SUBSET Pair /\ (p \in Del \X {x} <=> x = v)
        /\ (q \in Del \X {x} <=> x = w)
    BY Zenon DEF Pair, p, q
  <2>2. SumFunctionOnSet(lockups', Del \X {x}) =
          SumFunctionOnSet(lockups, Del \X {x}) + ((IF x = v THEN -a ELSE 0) + (IF x = w THEN a ELSE 0))
    BY <1>4, <2>1, Zenon
  <2>3. SumFunctionOnSet(lockups, Del \X {x}) \in Int
    BY <1>5, <2>1, Zenon
  <2> QED
    BY <2>2, <2>3 DEF LockedWith
<1> QED
  BY <1>6, <1>7, <1>8, Zenon

(* What the operations do to the lockups.                                  *)
LEMMA LockShift ==
    ASSUME NEW d, NEW v, NEW a, Lock(d, v, a)
    PROVE  Shift(<<d, v>>, a) /\ total' = total + a
BY Zenon DEF Lock, AddLockup, Shift, Shifted

(* A cancellation adds to the lockup and to the total what is cancelled.   *)
LEMMA CancelShift ==
    ASSUME NEW d, NEW v, NEW h, NEW a, CancelUnlocking(d, v, h, a)
    PROVE  Shift(<<d, v>>, a) /\ total' = total + a
<1>1. AddLockup(<<d, v>>, a)
  BY Zenon DEF CancelUnlocking
<1> QED
  BY <1>1, Zenon DEF AddLockup, Shift, Shifted

(* Unlock takes from the lockup and from the total what is unlocked, also  *)
(* when it takes the whole lockup.                                         *)
LEMMA UnlockShift ==
    ASSUME RecordsOK, NEW d \in Del, NEW v \in Val, NEW a \in Amount, Unlock(d, v, a)
    PROVE  Shift(<<d, v>>, -a) /\ total' = total + (-a) /\ a \in Nat \ {0}
<1>1. lockups' = [lockups EXCEPT ![<<d, v>>] = @ - a] /\ total' = total - a
  BY Zenon DEF Unlock
<1>2. a \in Nat \ {0} /\ lockups[<<d, v>>] \in Int /\ total \in Int
  BY TierAssumption, Zenon DEF RecordsOK, Pair
<1>3. lockups[<<d, v>>] - a = lockups[<<d, v>>] + (-a) /\ total - a = total + (-a)
  BY <1>2, Zenon
<1>4. Shift(<<d, v>>, -a)
  BY <1>1, <1>3, Zenon DEF Shift, Shifted
<1> QED
  BY <1>1, <1>2, <1>3, <1>4, Zenon

(* TotalLockupsAmount is the sum of the lockups.                           *)
TotalIsSum == total = SumFunctionOnSet(lockups, Pair)

(* A lockup and the running total that change by the same amount agree     *)
(* after it.                                                               *)
LEMMA TotalShift ==
    ASSUME RecordsOK, TotalIsSum, NEW d \in Del, NEW v \in Val, NEW a \in Int,
           Shift(<<d, v>>, a), total' = total + a
    PROVE  TotalIsSum'
BY ShiftSums, Zenon DEF TotalIsSum

(* Adjusting the lockups after a slash adjusts the total by the sum of     *)
(* what each lockup lost.                                                  *)
LEMMA TotalHandled ==
    ASSUME TierTypeOK, TotalIsSum, HandleSlashingEvents
    PROVE  TotalIsSum'
  (* The lockups with a slashed validator are adjusted.                      *)
<1>a. ASSUME RecordsOK, NEW v, NEW rate \in Int, NEW coverage, AdjustLockups(v, rate, coverage),
             total = SumFunctionOnSet(lockups, Pair)
      PROVE  total' = SumFunctionOnSet(lockups', Pair)
  <2> USE <1>a
  <2> DEFINE hit == HitPairs(v, rate)
             rest == Pair \ hit
             cut == [p \in hit |-> After(p, rate) - lockups[p]]
  <2>1. lockups' = [p \in Pair |-> IF Hit(p, v, rate) THEN After(p, rate) ELSE lockups[p]]
    BY Adjusted, Zenon
  <2>2. total' = total + SumFunctionOnSet(cut, hit)
    BY Adjusted, Zenon
  <2>3. hit \subseteq Pair /\ hit \cap rest = {} /\ Pair = hit \cup rest /\ IsFiniteSet(hit) /\ IsFiniteSet(rest)
    BY PairsFinite, FS_Subset, Zenon DEF HitPairs
  <2>4. \A p \in Pair : After(p, rate) \in Int /\ lockups[p] \in Int
    BY AfterInt, Zenon DEF RecordsOK
  <2>5. \A p \in hit : lockups[p] \in Int /\ cut[p] \in Int /\ lockups'[p] = lockups[p] + cut[p]
    BY <2>1, <2>3, <2>4 DEF HitPairs
  <2>6. \A p \in rest : lockups'[p] = lockups[p]
    BY <2>1, Zenon DEF HitPairs
  <2>7. \A p \in Pair : lockups'[p] \in Int
    BY <2>1, <2>4, Zenon
  <2> HIDE DEF hit, rest, cut
  <2>8. SumFunctionOnSet(lockups', hit) = SumFunctionOnSet(lockups, hit) + SumFunctionOnSet(cut, hit)
    BY <2>3, <2>5, SumPlus
  <2>9. SumFunctionOnSet(lockups', rest) = SumFunctionOnSet(lockups, rest)
    BY <2>3, <2>6, SumAgree, Zenon
  <2>10. SumFunctionOnSet(lockups, Pair) = SumFunctionOnSet(lockups, hit) + SumFunctionOnSet(lockups, rest)
    <3>1. SumFunctionOnSet(lockups, hit \cup rest) = SumFunctionOnSet(lockups, hit) + SumFunctionOnSet(lockups, rest)
      BY <2>3, <2>4, SumUnion, Zenon
    <3> QED
      BY <2>3, <3>1, Zenon
  <2>11. SumFunctionOnSet(lockups', Pair) = SumFunctionOnSet(lockups', hit) + SumFunctionOnSet(lockups', rest)
    <3>1. SumFunctionOnSet(lockups', hit \cup rest) = SumFunctionOnSet(lockups', hit) + SumFunctionOnSet(lockups', rest)
      BY <2>3, <2>7, SumUnion, Zenon
    <3> QED
      BY <2>3, <3>1, Zenon
  <2>12. /\ SumFunctionOnSet(lockups, hit) \in Int /\ SumFunctionOnSet(lockups, rest) \in Int
         /\ SumFunctionOnSet(cut, hit) \in Int
    BY <2>3, <2>4, <2>5, SumInt, Zenon
  <2> QED
    BY <2>2, <2>8, <2>9, <2>10, <2>11, <2>12
<1>1. CASE HandleDoubleSign
  <2>1. ~NothingToAdjust /\ AdjustLockups(event.val, SignedTwice(event.val, event.burned), 0)
    BY <1>1, Zenon DEF HandleDoubleSign, SignedTwice
  <2>2. SignedTwice(event.val, event.burned) \in Int
    BY <2>1, HandlerTypes, Zenon
  <2> QED
    BY <2>1, <2>2, <1>a, Zenon DEF TierTypeOK, TotalIsSum
<1>2. CASE HandleMissingSignature
  <2>1. /\ ~NothingToAdjust
        /\ AdjustLockups(event.val, MissedRate(event.val, event.burned), CoverageRate(event.val, event.burned))
    BY <1>2, Zenon DEF HandleMissingSignature, MissedRate, CoverageRate, TokensSlashed, CoveredBy
  <2>2. MissedRate(event.val, event.burned) \in Int
    BY <2>1, HandlerTypes, Zenon
  <2> QED
    BY <2>1, <2>2, <1>a, Zenon DEF TierTypeOK, TotalIsSum
<1>3. CASE UNCHANGED records
  BY <1>3, Zenon DEF TotalIsSum, records
<1> QED
  BY <1>1, <1>2, <1>3, Zenon DEF HandleSlashingEvents

(* A redelegation leaves the total alone, and the sum.                     *)
LEMMA TotalMoved ==
    ASSUME RecordsOK, TotalIsSum, NEW d \in Del, NEW v \in Val, NEW w \in Val, NEW a \in Amount,
           Redelegate(d, v, w, a)
    PROVE  TotalIsSum'
<1>1. v # w /\ lockups' = Moved(<<d, v>>, <<d, w>>, a) /\ UNCHANGED total
  BY Zenon DEF Redelegate
<1>2. a \in Int
  BY TierAssumption
<1> QED
  BY <1>1, <1>2, MoveSums, Zenon DEF TotalIsSum
=============================================================================
