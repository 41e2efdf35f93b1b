---------------------------- MODULE SumTheorems ----------------------------
(***************************************************************************)
(* What the sum of a function over a finite set (SumFunctionOnSet) is:     *)
(* proved by induction over the subsets of the set, since the sum is       *)
(* defined by recursion over an arbitrary order of its elements.  Also the *)
(* least and largest elements of a finite set.                             *)
(***************************************************************************)
EXTENDS FiniteSetsExt, FiniteSetTheorems, WellFoundedInduction, TLAPS

Pick(s) == CHOOSE x \in s : TRUE
Unfolds(g, f, S) == g = [s \in SUBSET S |-> IF s = {} THEN 0 ELSE f[Pick(s)] + g[s \ {Pick(s)}]]

(* Induction over the subsets of a finite set.                             *)
LEMMA SubsetInduction ==
    ASSUME NEW S, IsFiniteSet(S), NEW G \in SUBSET (SUBSET S),
           \A T \in SUBSET S : (\A U \in SUBSET T : U # T => U \in G) => T \in G
    PROVE  G = SUBSET S
<1>1. IsWellFoundedOn(StrictSubsetOrdering(S), FiniteSubsetsOf(S))
  BY FS_StrictSubsetOrderingWellFounded, Zenon
<1>2. FiniteSubsetsOf(S) = SUBSET S
  BY FS_Subset, Zenon DEF FiniteSubsetsOf
<1> DEFINE B == (SUBSET S) \ G
<1>3. SUFFICES ASSUME B # {} PROVE FALSE
  BY Zenon
<1>4. PICK T \in B : \A U \in B : <<U, T>> \notin StrictSubsetOrdering(S)
  <2> HIDE DEF B
  <2> B \subseteq SUBSET S BY Zenon DEF B
  <2> QED BY <1>1, <1>2, <1>3, WFMin
<1>5. \A U \in SUBSET T : U # T => U \in G
  BY <1>4, <1>2, Zenon DEF StrictSubsetOrdering
<1> QED BY <1>4, <1>5, Zenon

(* What is picked from a set is in it.                                     *)
LEMMA PickIn == ASSUME NEW s, s # {} PROVE Pick(s) \in s
BY Zenon DEF Pick

(* One unfolding of the recursion.                                         *)
LEMMA UnfoldsAt ==
    ASSUME NEW f, NEW S, NEW g, Unfolds(g, f, S), NEW s \in SUBSET S
    PROVE  s # {} => g[s] = f[Pick(s)] + g[s \ {Pick(s)}]
<1>1. g[s] = IF s = {} THEN 0 ELSE f[Pick(s)] + g[s \ {Pick(s)}]
  <2> DEFINE Body(t) == IF t = {} THEN 0 ELSE f[Pick(t)] + g[t \ {Pick(t)}]
  <2>1. g = [t \in SUBSET S |-> Body(t)] BY Zenon DEF Unfolds
  <2> HIDE DEF Body
  <2>2. g[s] = Body(s) BY <2>1, Zenon
  <2> QED BY <2>2, Zenon DEF Body
<1> QED BY <1>1, Zenon

(* Its end.                                                                *)
LEMMA UnfoldsEmpty ==
    ASSUME NEW f, NEW S, NEW g, Unfolds(g, f, S)
    PROVE  g[{}] = 0
<1>1. {} \in SUBSET S BY Zenon
<1> QED BY <1>1, Zenon DEF Unfolds

(* Two unfoldings agree where both are defined and their functions agree. *)
LEMMA UnfoldsAgree ==
    ASSUME NEW f, NEW S, NEW g, Unfolds(g, f, S), 
           NEW e, NEW T, NEW h, Unfolds(h, e, T),
           IsFiniteSet(S), S \subseteq T, \A x \in S : f[x] = e[x]
    PROVE  g[S] = h[S]
<1> DEFINE G == {s \in SUBSET S : g[s] = h[s]}
<1>1. ASSUME NEW s \in SUBSET S, \A u \in SUBSET s : u # s => u \in G
      PROVE  s \in G
  <2>0. s \in SUBSET T BY <1>1, Zenon
  <2>1. CASE s = {}
    BY <2>1, UnfoldsEmpty, Zenon
  <2>2. CASE s # {}
    <3>1. Pick(s) \in s BY <2>2, PickIn, Zenon
    <3>2. s \ {Pick(s)} \in G BY <3>1, <1>1, Zenon
    <3>3. g[s] = f[Pick(s)] + g[s \ {Pick(s)}] BY <2>2, UnfoldsAt
    <3>4. h[s] = e[Pick(s)] + h[s \ {Pick(s)}] BY <2>0, <2>2, UnfoldsAt
    <3> QED BY <3>1, <3>2, <3>3, <3>4, Zenon
  <2> QED BY <2>1, <2>2, Zenon
<1>2. G = SUBSET S
  <2> HIDE DEF G
  <2> G \in SUBSET (SUBSET S) BY Zenon DEF G
  <2> QED BY <1>1, SubsetInduction, Zenon
<1> QED BY <1>2, Zenon

(* A function that unfolds the sum exists, so CHOOSE finds one.            *)
LEMMA UnfoldsExists ==
    ASSUME NEW f, NEW S, IsFiniteSet(S)
    PROVE  \E g : Unfolds(g, f, S)
<1> DEFINE G == {T \in SUBSET S : \E g : Unfolds(g, f, T)}
<1>1. ASSUME NEW T \in SUBSET S, \A U \in SUBSET T : U # T => U \in G
      PROVE  T \in G
  <2> DEFINE Part(s) == CHOOSE g : Unfolds(g, f, s)
             Value(s) == IF s = {} THEN 0 ELSE f[Pick(s)] + Part(s \ {Pick(s)})[s \ {Pick(s)}]
             g == [s \in SUBSET T |-> Value(s)]
  <2>1. ASSUME NEW U \in SUBSET T, U # T PROVE Unfolds(Part(U), f, U)
    BY <2>1, <1>1, Zenon
  <2>2. ASSUME NEW s \in SUBSET T, s # T PROVE g[s] = Part(s)[s]
    <3> HIDE DEF Part
    <3>1. CASE s = {}
      <4>1. Unfolds(Part(s), f, s) BY <2>1, <2>2, Zenon
      <4>2. Part(s)[{}] = 0 BY <4>1, UnfoldsEmpty, Zenon
      <4> QED BY <3>1, <4>2, Zenon
    <3>2. CASE s # {}
      <4>1. Pick(s) \in s BY <3>2, PickIn, Zenon
      <4> DEFINE r == s \ {Pick(s)}
      <4>2. Unfolds(Part(s), f, s) /\ Unfolds(Part(r), f, r)
        BY <2>1, <4>1, <2>2, Zenon
      <4>3. IsFiniteSet(r) BY FS_Subset, Zenon
      <4>4. Part(r)[r] = Part(s)[r]
        <5> HIDE DEF r
        <5> r \subseteq s BY Zenon DEF r
        <5> QED BY <4>2, <4>3, UnfoldsAgree
      <4>5. Part(s)[s] = f[Pick(s)] + Part(s)[r]
        BY <4>2, <3>2, UnfoldsAt
      <4> QED BY <4>4, <4>5, <3>2, Zenon
    <3> QED BY <3>1, <3>2, Zenon
  <2>3. Unfolds(g, f, T)
    <3> DEFINE Body(s) == IF s = {} THEN 0 ELSE f[Pick(s)] + g[s \ {Pick(s)}]
    <3>1. ASSUME NEW s \in SUBSET T PROVE Value(s) = Body(s)
      <4>1. CASE s = {} BY <4>1, Zenon
      <4>2. CASE s # {}
        <5>1. Pick(s) \in s BY <4>2, PickIn, Zenon
        <5>2. s \ {Pick(s)} \in SUBSET T /\ s \ {Pick(s)} # T BY <5>1, Zenon
        <5> HIDE DEF Part, g
        <5> QED BY <4>2, <5>2, <2>2, Zenon
      <4> QED BY <4>1, <4>2, Zenon
    <3>2. g = [s \in SUBSET T |-> Body(s)]
      <4> HIDE DEF Value, Body
      <4> QED BY <3>1, Zenon
    <3> HIDE DEF g
    <3> QED BY <3>2, Zenon DEF Unfolds
  <2> HIDE DEF g
  <2> QED BY <2>3, Zenon
<1>2. G = SUBSET S
  <2> HIDE DEF G
  <2> G \in SUBSET (SUBSET S) BY Zenon DEF G
  <2> QED BY <1>1, SubsetInduction, Zenon
<1> QED BY <1>2, Zenon

(* The sum unfolds.                                                        *)
LEMMA SumUnfolds ==
    ASSUME NEW f, NEW S, IsFiniteSet(S)
    PROVE  \E g : Unfolds(g, f, S) /\ g[S] = SumFunctionOnSet(f, S)
  (* The sum is the value at S of the function that unfolds it.              *)
<1>a. ASSUME NEW f1, NEW S1 PROVE SumFunctionOnSet(f1, S1) = (CHOOSE g : Unfolds(g, f1, S1))[S1]
  BY <1>a, Zenon DEF SumFunctionOnSet, FoldFunctionOnSet, MapThenFoldSet, Pick, Unfolds
<1> QED
  BY UnfoldsExists, <1>a, Zenon

(* The empty sum.                                                          *)
LEMMA SumEmpty == ASSUME NEW f PROVE SumFunctionOnSet(f, {}) = 0
BY SumUnfolds, FS_EmptySet, UnfoldsEmpty, Zenon

(* The sum depends on the values in the set only.                          *)
LEMMA SumAgree ==
    ASSUME NEW f, NEW e, NEW S, IsFiniteSet(S), \A x \in S : f[x] = e[x]
    PROVE  SumFunctionOnSet(f, S) = SumFunctionOnSet(e, S)
<1>1. PICK g : Unfolds(g, f, S) /\ g[S] = SumFunctionOnSet(f, S) BY SumUnfolds, Zenon
<1>2. PICK h : Unfolds(h, e, S) /\ h[S] = SumFunctionOnSet(e, S) BY SumUnfolds, Zenon
<1> QED BY <1>1, <1>2, UnfoldsAgree

(* The first element of the recursion.                                     *)
LEMMA SumPick ==
    ASSUME NEW f, NEW S, IsFiniteSet(S), S # {}
    PROVE  SumFunctionOnSet(f, S) = f[Pick(S)] + SumFunctionOnSet(f, S \ {Pick(S)})
<1> DEFINE r == S \ {Pick(S)}
<1>0. IsFiniteSet(r) /\ r \subseteq S BY FS_Subset, Zenon
<1> HIDE DEF r
<1>1. PICK g : Unfolds(g, f, S) /\ g[S] = SumFunctionOnSet(f, S) BY SumUnfolds, Zenon
<1>2. PICK h : Unfolds(h, f, r) /\ h[r] = SumFunctionOnSet(f, r) BY SumUnfolds, <1>0, Zenon
<1>3. h[r] = g[r] BY <1>0, <1>1, <1>2, UnfoldsAgree
<1>4. g[S] = f[Pick(S)] + g[r] BY <1>1, UnfoldsAt DEF r
<1> QED BY <1>1, <1>2, <1>3, <1>4, Zenon DEF r

(* A sum of integers is an integer.                                        *)
LEMMA SumInt ==
    ASSUME NEW f, NEW S, IsFiniteSet(S), \A x \in S : f[x] \in Int
    PROVE  SumFunctionOnSet(f, S) \in Int
<1> DEFINE G == {s \in SUBSET S : SumFunctionOnSet(f, s) \in Int}
<1>1. ASSUME NEW s \in SUBSET S, \A u \in SUBSET s : u # s => u \in G
      PROVE  s \in G
  <2>1. CASE s = {} BY <2>1, SumEmpty
  <2>2. CASE s # {}
    <3>1. Pick(s) \in s BY <2>2, PickIn, Zenon
    <3>2. s \ {Pick(s)} \in G BY <3>1, <1>1, Zenon
    <3>3. IsFiniteSet(s) BY FS_Subset, Zenon
    <3> QED BY <2>2, <3>1, <3>2, <3>3, SumPick
  <2> QED BY <2>1, <2>2, Zenon
<1>2. G = SUBSET S
  <2> HIDE DEF G
  <2> G \in SUBSET (SUBSET S) BY Zenon DEF G
  <2> QED BY <1>1, SubsetInduction, Zenon
<1> QED BY <1>2, Zenon

(* Any element may be split off a sum. *)
LEMMA SumSplit ==
    ASSUME NEW f, NEW S, IsFiniteSet(S), \A x \in S : f[x] \in Int, NEW x \in S
    PROVE  SumFunctionOnSet(f, S) = f[x] + SumFunctionOnSet(f, S \ {x})
<1> DEFINE G == {s \in SUBSET S : \A y \in s : SumFunctionOnSet(f, s) = f[y] + SumFunctionOnSet(f, s \ {y})}
<1>1. ASSUME NEW s \in SUBSET S, \A u \in SUBSET s : u # s => u \in G
      PROVE  s \in G
  <2> SUFFICES ASSUME NEW y \in s PROVE SumFunctionOnSet(f, s) = f[y] + SumFunctionOnSet(f, s \ {y})
    BY Zenon
  <2> DEFINE p == Pick(s)
             r == s \ {p}
             q == s \ {y}
  <2>1. p \in s BY PickIn, Zenon
  <2>2. IsFiniteSet(s) /\ IsFiniteSet(r) /\ IsFiniteSet(q) /\ IsFiniteSet(q \ {p}) BY FS_Subset, Zenon
  <2>3. SumFunctionOnSet(f, s) = f[p] + SumFunctionOnSet(f, r) BY <2>2, SumPick, Zenon
  <2>4. CASE y = p BY <2>3, <2>4, Zenon
  <2>5. CASE y # p
    <3>1. r \in G /\ q \in G BY <1>1, <2>1, Zenon
    <3> DEFINE t == r \ {y}
    <3>2. SumFunctionOnSet(f, r) = f[y] + SumFunctionOnSet(f, t) BY <3>1, <2>5, Zenon
    <3>3. SumFunctionOnSet(f, q) = f[p] + SumFunctionOnSet(f, q \ {p}) BY <3>1, <2>1, <2>5, Zenon
    <3>4. q \ {p} = t BY Zenon
    <3>5. SumFunctionOnSet(f, t) \in Int
      <4> IsFiniteSet(t) BY <2>2, FS_Subset, Zenon
      <4> QED BY SumInt, Zenon
    <3>6. f[p] \in Int /\ f[y] \in Int BY <2>1, Zenon
    <3> HIDE DEF p, q, r, t
    <3>7. SumFunctionOnSet(f, q) = f[p] + SumFunctionOnSet(f, t) BY <3>3, <3>4, Zenon
    <3>8. SumFunctionOnSet(f, s) = f[y] + SumFunctionOnSet(f, q) BY <2>3, <3>2, <3>7, <3>5, <3>6
    <3> QED BY <3>8, Zenon DEF q
  <2> QED BY <2>4, <2>5, Zenon
<1>2. G = SUBSET S
  <2> HIDE DEF G
  <2> G \in SUBSET (SUBSET S) BY Zenon DEF G
  <2> QED BY <1>1, SubsetInduction, Zenon
<1> QED BY <1>2, Zenon

(* Adding an element. *)
LEMMA SumAdd ==
    ASSUME NEW f, NEW S, IsFiniteSet(S), NEW x, x \notin S, \A y \in S \cup {x} : f[y] \in Int
    PROVE  SumFunctionOnSet(f, S \cup {x}) = f[x] + SumFunctionOnSet(f, S)
<1>1. IsFiniteSet(S \cup {x}) BY FS_AddElement, Zenon
<1>2. (S \cup {x}) \ {x} = S BY Zenon
<1> QED BY <1>1, <1>2, SumSplit

(* Changing one value. *)
LEMMA SumUpdate ==
    ASSUME NEW f, NEW e, NEW S, IsFiniteSet(S), NEW x \in S,
           \A y \in S : f[y] \in Int /\ e[y] \in Int,
           \A y \in S \ {x} : e[y] = f[y]
    PROVE  SumFunctionOnSet(e, S) = SumFunctionOnSet(f, S) + (e[x] - f[x])
<1>1. IsFiniteSet(S \ {x}) BY FS_Subset, Zenon
<1>2. SumFunctionOnSet(e, S \ {x}) = SumFunctionOnSet(f, S \ {x}) BY <1>1, SumAgree, Zenon
<1>3. SumFunctionOnSet(f, S) = f[x] + SumFunctionOnSet(f, S \ {x}) BY SumSplit
<1>4. SumFunctionOnSet(e, S) = e[x] + SumFunctionOnSet(e, S \ {x}) BY SumSplit
<1>5. SumFunctionOnSet(f, S \ {x}) \in Int BY <1>1, SumInt, Zenon
<1> QED BY <1>2, <1>3, <1>4, <1>5

(* Sums compare as their terms do. *)
LEMMA SumMonotone ==
    ASSUME NEW f, NEW e, NEW S, IsFiniteSet(S),
           \A y \in S : f[y] \in Int /\ e[y] \in Int /\ e[y] <= f[y]
    PROVE  SumFunctionOnSet(e, S) <= SumFunctionOnSet(f, S)
<1> DEFINE G == {s \in SUBSET S : SumFunctionOnSet(e, s) <= SumFunctionOnSet(f, s)}
<1>1. ASSUME NEW s \in SUBSET S, \A u \in SUBSET s : u # s => u \in G
      PROVE  s \in G
  <2>1. CASE s = {} BY <2>1, SumEmpty
  <2>2. CASE s # {}
    <3> DEFINE r == s \ {Pick(s)}
    <3>1. Pick(s) \in s BY <2>2, PickIn, Zenon
    <3>2. r \in G BY <3>1, <1>1, Zenon
    <3>3. IsFiniteSet(s) /\ IsFiniteSet(r) BY FS_Subset, Zenon
    <3>4. SumFunctionOnSet(e, s) = e[Pick(s)] + SumFunctionOnSet(e, r) /\ SumFunctionOnSet(f, s) = f[Pick(s)] + SumFunctionOnSet(f, r)
      BY <2>2, <3>3, SumPick, Zenon
    <3>5. SumFunctionOnSet(e, r) \in Int /\ SumFunctionOnSet(f, r) \in Int BY <3>3, SumInt, Zenon
    <3> HIDE DEF r
    <3> QED BY <3>1, <3>2, <3>4, <3>5
  <2> QED BY <2>1, <2>2, Zenon
<1>2. G = SUBSET S
  <2> HIDE DEF G
  <2> G \in SUBSET (SUBSET S) BY Zenon DEF G
  <2> QED BY <1>1, SubsetInduction, Zenon
<1> QED BY <1>2, Zenon

(* Two disjoint sets add up. *)
LEMMA SumUnion ==
    ASSUME NEW f, NEW S, IsFiniteSet(S), NEW T, IsFiniteSet(T), S \cap T = {},
           \A x \in S \cup T : f[x] \in Int
    PROVE  SumFunctionOnSet(f, S \cup T) = SumFunctionOnSet(f, S) + SumFunctionOnSet(f, T)
<1> DEFINE G == {s \in SUBSET S : SumFunctionOnSet(f, s \cup T) = SumFunctionOnSet(f, s) + SumFunctionOnSet(f, T)}
<1>0. SumFunctionOnSet(f, T) \in Int BY SumInt, Zenon
<1>1. ASSUME NEW s \in SUBSET S, \A u \in SUBSET s : u # s => u \in G
      PROVE  s \in G
  <2>1. CASE s = {}
    <3>1. s \cup T = T BY <2>1, Zenon
    <3> QED BY <2>1, <3>1, <1>0, SumEmpty
  <2>2. CASE s # {}
    <3> DEFINE p == Pick(s)
               r == s \ {p}
    <3>1. p \in s BY <2>2, PickIn, Zenon
    <3>2. r \in G BY <3>1, <1>1, Zenon
    <3>3. IsFiniteSet(s) /\ IsFiniteSet(r) BY FS_Subset, Zenon
    <3>4. IsFiniteSet(s \cup T) BY <3>3, FS_Union, Zenon
    <3>5. SumFunctionOnSet(f, s) = f[p] + SumFunctionOnSet(f, r) BY <2>2, <3>3, SumPick, Zenon
    <3>6. (s \cup T) \ {p} = r \cup T BY <3>1, Zenon
    <3> HIDE DEF p
    <3>7. SumFunctionOnSet(f, s \cup T) = f[p] + SumFunctionOnSet(f, r \cup T) 
      <4> DEFINE w == s \cup T
      <4>1. IsFiniteSet(w) /\ (\A x \in w : f[x] \in Int) /\ p \in w BY <3>4, <3>1, Zenon
      <4>2. w \ {p} = r \cup T BY <3>6, Zenon
      <4> HIDE DEF w, r
      <4>3. SumFunctionOnSet(f, w) = f[p] + SumFunctionOnSet(f, w \ {p}) BY <4>1, SumSplit
      <4> QED BY <4>2, <4>3, Zenon DEF w
    <3>8. SumFunctionOnSet(f, r) \in Int BY <3>3, SumInt, Zenon
    <3>9. f[p] \in Int BY <3>1, Zenon
    <3> HIDE DEF r
    <3> QED BY <3>2, <3>5, <3>7, <3>8, <3>9, <1>0
  <2> QED BY <2>1, <2>2, Zenon
<1>2. G = SUBSET S
  <2> HIDE DEF G
  <2> G \in SUBSET (SUBSET S) BY Zenon DEF G
  <2> QED BY <1>1, SubsetInduction, Zenon
<1> QED BY <1>2, Zenon

(* A sum of naturals is a natural.                                         *)
LEMMA SumNat ==
    ASSUME NEW f, NEW S, IsFiniteSet(S), \A x \in S : f[x] \in Nat
    PROVE  SumFunctionOnSet(f, S) \in Nat
<1> DEFINE G == {s \in SUBSET S : SumFunctionOnSet(f, s) \in Nat}
<1>1. ASSUME NEW s \in SUBSET S, \A u \in SUBSET s : u # s => u \in G
      PROVE  s \in G
  <2>1. CASE s = {}
    BY <2>1, SumEmpty
  <2>2. CASE s # {}
    <3> DEFINE r == s \ {Pick(s)}
    <3>1. Pick(s) \in s
      BY <2>2, PickIn, Zenon
    <3>2. r \in G
      BY <3>1, <1>1, Zenon
    <3>3. IsFiniteSet(s)
      BY FS_Subset, Zenon
    <3>4. SumFunctionOnSet(f, s) = f[Pick(s)] + SumFunctionOnSet(f, r)
      BY <2>2, <3>3, SumPick, Zenon
    <3> HIDE DEF r
    <3> QED
      BY <3>1, <3>2, <3>4
  <2> QED
    BY <2>1, <2>2, Zenon
<1>2. G = SUBSET S
  <2> HIDE DEF G
  <2> G \in SUBSET (SUBSET S)
    BY Zenon DEF G
  <2> QED
    BY <1>1, SubsetInduction, Zenon
<1> QED
  BY <1>2, Zenon

(* A part of a sum of naturals is no more than the whole.                  *)
LEMMA SumSubset ==
    ASSUME NEW f, NEW S, IsFiniteSet(S), NEW T \in SUBSET S, \A x \in S : f[x] \in Nat
    PROVE  SumFunctionOnSet(f, T) <= SumFunctionOnSet(f, S)
<1> DEFINE R == S \ T
<1>1. IsFiniteSet(T) /\ IsFiniteSet(R) /\ T \cap R = {} /\ S = T \cup R
  BY FS_Subset, Zenon
<1>2. SumFunctionOnSet(f, T) \in Nat /\ SumFunctionOnSet(f, R) \in Nat
  BY <1>1, SumNat, Zenon
<1> HIDE DEF R
<1>3. SumFunctionOnSet(f, T \cup R) = SumFunctionOnSet(f, T) + SumFunctionOnSet(f, R)
  BY <1>1, SumUnion
<1>4. SumFunctionOnSet(f, S) = SumFunctionOnSet(f, T) + SumFunctionOnSet(f, R)
  BY <1>1, <1>3, Zenon
<1> QED
  BY <1>2, <1>4

(* The sum of sums.                                                        *)
LEMMA SumPlus ==
    ASSUME NEW f, NEW e, NEW h, NEW S, IsFiniteSet(S),
           \A x \in S : f[x] \in Int /\ e[x] \in Int /\ h[x] = f[x] + e[x]
    PROVE  SumFunctionOnSet(h, S) = SumFunctionOnSet(f, S) + SumFunctionOnSet(e, S)
<1> DEFINE G == {s \in SUBSET S : SumFunctionOnSet(h, s) = SumFunctionOnSet(f, s) + SumFunctionOnSet(e, s)}
<1>1. ASSUME NEW s \in SUBSET S, \A u \in SUBSET s : u # s => u \in G
      PROVE  s \in G
  <2>1. CASE s = {}
    BY <2>1, SumEmpty
  <2>2. CASE s # {}
    <3> DEFINE r == s \ {Pick(s)}
    <3>1. Pick(s) \in s
      BY <2>2, PickIn, Zenon
    <3>2. r \in G
      BY <3>1, <1>1, Zenon
    <3>3. IsFiniteSet(s) /\ IsFiniteSet(r)
      BY FS_Subset, Zenon
    <3>4. /\ SumFunctionOnSet(e, s) = e[Pick(s)] + SumFunctionOnSet(e, r)
          /\ SumFunctionOnSet(f, s) = f[Pick(s)] + SumFunctionOnSet(f, r)
          /\ SumFunctionOnSet(h, s) = h[Pick(s)] + SumFunctionOnSet(h, r)
      BY <2>2, <3>3, SumPick, Zenon
    <3>5. SumFunctionOnSet(e, r) \in Int /\ SumFunctionOnSet(f, r) \in Int
      BY <3>3, SumInt, Zenon
    <3> HIDE DEF r
    <3> QED
      BY <3>1, <3>2, <3>4, <3>5
  <2> QED
    BY <2>1, <2>2, Zenon
<1>2. G = SUBSET S
  <2> HIDE DEF G
  <2> G \in SUBSET (SUBSET S)
    BY Zenon DEF G
  <2> QED
    BY <1>1, SubsetInduction, Zenon
<1> QED
  BY <1>2, Zenon

(* The sum over a union is no more than the sums over its parts together.  *)
LEMMA SumCup ==
    ASSUME NEW f, NEW S, IsFiniteSet(S), NEW T, IsFiniteSet(T), \A x \in S \cup T : f[x] \in Nat
    PROVE  SumFunctionOnSet(f, S \cup T) <= SumFunctionOnSet(f, S) + SumFunctionOnSet(f, T)
<1> DEFINE R == S \ T
<1>1. IsFiniteSet(R) /\ R \cap T = {} /\ R \cup T = S \cup T /\ R \in SUBSET S
  BY FS_Subset, Zenon
<1> HIDE DEF R
<1>2. SumFunctionOnSet(f, R \cup T) = SumFunctionOnSet(f, R) + SumFunctionOnSet(f, T)
  BY <1>1, SumUnion
<1>3. SumFunctionOnSet(f, R) <= SumFunctionOnSet(f, S)
  BY <1>1, SumSubset, Zenon
<1>4. /\ SumFunctionOnSet(f, R) \in Nat /\ SumFunctionOnSet(f, S) \in Nat
      /\ SumFunctionOnSet(f, T) \in Nat
  BY <1>1, SumNat, Zenon
<1>5. SumFunctionOnSet(f, S \cup T) = SumFunctionOnSet(f, R) + SumFunctionOnSet(f, T)
  BY <1>1, <1>2, Zenon
<1> QED
  BY <1>3, <1>4, <1>5

(* The members of W that are in a class.                                   *)
InSome(W, I, C) == {x \in W : \E i \in I : x \in C[i]}

(* Where the parts C[i] of a set are each worth no more than b[i], what    *)
(* they cover together is worth no more than all of b.                     *)
LEMMA SumCovered ==
    ASSUME NEW f, NEW W, IsFiniteSet(W), \A x \in W : f[x] \in Nat,
           NEW I, IsFiniteSet(I), NEW C, NEW b,
           \A i \in I : C[i] \in SUBSET W /\ b[i] \in Int /\ SumFunctionOnSet(f, C[i]) <= b[i]
    PROVE  SumFunctionOnSet(f, InSome(W, I, C)) <= SumFunctionOnSet(b, I)
<1> DEFINE Cover(J) == {x \in W : \E i \in J : x \in C[i]}
           G == {J \in SUBSET I : SumFunctionOnSet(f, Cover(J)) <= SumFunctionOnSet(b, J)}
<1>1. ASSUME NEW J \in SUBSET I, \A u \in SUBSET J : u # J => u \in G
      PROVE  J \in G
  <2>1. CASE J = {}
    <3>1. Cover(J) = {}
      BY <2>1, Zenon
    <3> QED
      BY <2>1, <3>1, SumEmpty
  <2>2. CASE J # {}
    <3> DEFINE i == Pick(J)
               r == J \ {i}
               D == C[i]
               E == Cover(r)
    <3>1. i \in J
      BY <2>2, PickIn, Zenon
    <3>2. r \in G
      BY <3>1, <1>1, Zenon
    <3>3. IsFiniteSet(J) /\ IsFiniteSet(r)
      BY FS_Subset, Zenon
    <3>4. IsFiniteSet(D) /\ IsFiniteSet(E) /\ D \in SUBSET W /\ E \in SUBSET W
      BY <3>1, FS_Subset, Zenon
    <3>5. Cover(J) = D \cup E
      BY <3>1, <3>4, Zenon
    <3>6. SumFunctionOnSet(f, E) <= SumFunctionOnSet(b, r)
      BY <3>2, Zenon
    <3>7. SumFunctionOnSet(f, D) <= b[i] /\ b[i] \in Int
      BY <3>1, Zenon
    <3>8. SumFunctionOnSet(b, J) = b[i] + SumFunctionOnSet(b, r)
      BY <2>2, <3>3, SumPick, Zenon
    <3> HIDE DEF i, D, E, r
    <3>9. SumFunctionOnSet(f, D \cup E) <= SumFunctionOnSet(f, D) + SumFunctionOnSet(f, E)
      BY <3>4, SumCup, Zenon
    <3>10. SumFunctionOnSet(f, D) \in Nat /\ SumFunctionOnSet(f, E) \in Nat
      BY <3>4, SumNat, Zenon
    <3>11. SumFunctionOnSet(b, r) \in Int
      BY <3>3, SumInt, Zenon DEF r
    <3>12. IsFiniteSet(D \cup E)
      BY <3>4, FS_Union, Zenon
    <3>13. SumFunctionOnSet(f, D \cup E) \in Nat
      BY <3>4, <3>12, SumNat, Zenon
    <3>14. SumFunctionOnSet(f, D \cup E) <= SumFunctionOnSet(b, J)
      BY <3>6, <3>7, <3>8, <3>9, <3>10, <3>11, <3>13
    <3> QED
      BY <3>5, <3>14, Zenon
  <2> QED
    BY <2>1, <2>2, Zenon
<1>2. G = SUBSET I
  <2> HIDE DEF G
  <2> G \in SUBSET (SUBSET I)
    BY Zenon DEF G
  <2> QED
    BY <1>1, SubsetInduction, Zenon
<1>3. SumFunctionOnSet(f, Cover(I)) <= SumFunctionOnSet(b, I)
  BY <1>2, Zenon
<1> QED
  BY <1>3, Zenon DEF InSome

(* Terms that are zero do not count.                                       *)
LEMMA SumSupport ==
    ASSUME NEW f, NEW S, IsFiniteSet(S), NEW T \in SUBSET S,
           \A x \in T : f[x] \in Int, \A x \in S \ T : f[x] = 0
    PROVE  SumFunctionOnSet(f, S) = SumFunctionOnSet(f, T)
<1> DEFINE R == S \ T
<1>1. IsFiniteSet(T) /\ IsFiniteSet(R) /\ T \cap R = {} /\ S = T \cup R
  BY FS_Subset, Zenon
<1>2. \A x \in R : f[x] \in Int /\ f[x] = f[x] + f[x]
  OBVIOUS
<1>3. \A x \in T \cup R : f[x] \in Int
  BY <1>2, Zenon
<1> HIDE DEF R
<1>4. SumFunctionOnSet(f, R) = SumFunctionOnSet(f, R) + SumFunctionOnSet(f, R)
  BY <1>1, <1>2, SumPlus
<1>5. SumFunctionOnSet(f, T \cup R) = SumFunctionOnSet(f, T) + SumFunctionOnSet(f, R)
  BY <1>1, <1>3, SumUnion, Zenon
<1>6. SumFunctionOnSet(f, T) \in Int /\ SumFunctionOnSet(f, R) \in Int
  BY <1>1, <1>2, SumInt, Zenon
<1> DEFINE a == SumFunctionOnSet(f, T)
           b == SumFunctionOnSet(f, R)
           c == SumFunctionOnSet(f, T \cup R)
<1>7. c = a
  <2>1. a \in Int /\ b \in Int /\ b = b + b /\ c = a + b
    BY <1>4, <1>5, <1>6, Zenon
  <2> HIDE DEF a, b, c
  <2> QED
    BY <2>1
<1> QED
  BY <1>1, <1>7, Zenon

(* A sum of zeros.                                                         *)
LEMMA SumZero == ASSUME NEW f, NEW S, IsFiniteSet(S), \A x \in S : f[x] = 0 PROVE SumFunctionOnSet(f, S) = 0
<1>1. {} \in SUBSET S /\ SumFunctionOnSet(f, {}) = 0
  BY SumEmpty, Zenon
<1>2. SumFunctionOnSet(f, S) = SumFunctionOnSet(f, {})
  BY <1>1, SumSupport, Zenon
<1> QED
  BY <1>1, <1>2, Zenon

-----------------------------------------------------------------------------
(* Least elements *)

(* A finite set that is not empty has a least element in a total order R.  *)
LEMMA LeastExists ==
    ASSUME NEW S, IsFiniteSet(S), S # {}, NEW R,
           \A x, y \in S : <<x, y>> \in R \/ <<y, x>> \in R,
           \A x, y, z \in S : <<x, y>> \in R /\ <<y, z>> \in R => <<x, z>> \in R
    PROVE  \E x \in S : \A y \in S : <<x, y>> \in R
<1> DEFINE G == {T \in SUBSET S : T # {} => \E x \in T : \A y \in T : <<x, y>> \in R}
<1>1. ASSUME NEW T \in SUBSET S, \A U \in SUBSET T : U # T => U \in G
      PROVE  T \in G
  <2> SUFFICES ASSUME NEW t \in T PROVE \E x \in T : \A y \in T : <<x, y>> \in R
    BY Zenon
  <2> DEFINE U == T \ {t}
  <2>1. CASE U = {}
    BY <2>1
  <2>2. CASE U # {}
    <3>0. U \in G
      BY <1>1
    <3>1. PICK x \in U : \A y \in U : <<x, y>> \in R
      BY <2>2, <3>0, Zenon
    <3>2. CASE <<x, t>> \in R
      BY <3>1, <3>2, Zenon
    <3>3. CASE <<t, x>> \in R
      BY <3>1, <3>3, Zenon
    <3> QED
      BY <3>2, <3>3, Zenon
  <2> QED
    BY <2>1, <2>2, Zenon
<1>2. G = SUBSET S
  <2> HIDE DEF G
  <2> G \in SUBSET (SUBSET S)
    BY Zenon DEF G
  <2> QED
    BY <1>1, SubsetInduction, Zenon
<1> QED
  BY <1>2

(* A finite nonempty set of integers has its minimum.                      *)
LEMMA MinIn ==
    ASSUME NEW S, S \subseteq Int, IsFiniteSet(S), S # {}
    PROVE  Min(S) \in S /\ \A y \in S : Min(S) <= y
<1> DEFINE R == {q \in Int \X Int : q[1] <= q[2]}
<1>1. \E x \in S : \A y \in S : <<x, y>> \in R
  <2>1. \A x, y \in S : <<x, y>> \in R <=> x <= y
    BY Zenon
  <2> HIDE DEF R
  <2>2. /\ \A x, y \in S : <<x, y>> \in R \/ <<y, x>> \in R
        /\ \A x, y, z \in S : <<x, y>> \in R /\ <<y, z>> \in R => <<x, z>> \in R
    BY <2>1
  <2> QED
    BY <2>2, LeastExists, Zenon
<1>2. \E x \in S : \A y \in S : x <= y
  BY <1>1, Zenon
<1> QED
  BY <1>2, Zenon DEF Min

(* A finite nonempty set of integers has its maximum.                      *)
LEMMA MaxIn ==
    ASSUME NEW S, S \subseteq Int, IsFiniteSet(S), S # {}
    PROVE  Max(S) \in S /\ \A y \in S : Max(S) >= y
<1> DEFINE R == {q \in Int \X Int : q[1] >= q[2]}
<1>1. \E x \in S : \A y \in S : <<x, y>> \in R
  <2>1. \A x, y \in S : <<x, y>> \in R <=> x >= y
    BY Zenon
  <2> HIDE DEF R
  <2>2. /\ \A x, y \in S : <<x, y>> \in R \/ <<y, x>> \in R
        /\ \A x, y, z \in S : <<x, y>> \in R /\ <<y, z>> \in R => <<x, z>> \in R
    BY <2>1
  <2> QED
    BY <2>2, LeastExists, Zenon
<1>2. \E x \in S : \A y \in S : x >= y
  BY <1>1, Zenon
<1> QED
  BY <1>2, Zenon DEF Max
=============================================================================
