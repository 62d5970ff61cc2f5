----------------------------- MODULE SumLemmas -----------------------------
(***************************************************************************)
(* Sums of the balances in a table.  SumFunction is a fold over the domain  *)
(* that picks its elements with CHOOSE; these lemmas say that its value    *)
(* does not depend on the order and what a change of one balance does to it. *)
(***************************************************************************)
EXTENDS Functions, FiniteSetTheorems, TLAPS

\* g sums f over every subset of S.
Sums(g, f, S) ==
    g = [s \in SUBSET S |->
            IF s = {} THEN 0
            ELSE f[CHOOSE x \in s : TRUE] + g[s \ {CHOOSE x \in s : TRUE}]]

LEMMA FoldIsSums ==
    ASSUME NEW f, NEW S
    PROVE  SumFunctionOnSet(f, S) = (CHOOSE g : Sums(g, f, S))[S]
  BY DEF SumFunctionOnSet, FoldFunctionOnSet, MapThenFoldSet, Sums

LEMMA SmallestSubset ==
    ASSUME NEW S, IsFiniteSet(S), NEW T \in SUBSET SUBSET S, T # {}
    PROVE  \E s \in T : \A t \in T : ~(t \subseteq s /\ t # s)
<1>1. T \subseteq FiniteSubsetsOf(S)
  BY FS_FiniteSubsetsOfFinite
<1>2. PICK s \in T : \A t \in T : ~(<<t, s>> \in StrictSubsetOrdering(S))
  BY <1>1, FS_StrictSubsetOrderingWellFounded, WFMin
<1>3. QED
  BY <1>2 DEF StrictSubsetOrdering

LEMMA SumsUnique ==
    ASSUME NEW f, NEW S, IsFiniteSet(S), NEW U \in SUBSET S, NEW V \in SUBSET S,
           NEW g, NEW h, Sums(g, f, U), Sums(h, f, V),
           NEW s \in SUBSET (U \cap V)
    PROVE  g[s] = h[s]
<1> DEFINE T == {t \in SUBSET (U \cap V) : g[t] # h[t]}
<1>1. SUFFICES ASSUME T # {} PROVE FALSE
  OBVIOUS
<1>2. PICK t \in T : \A u \in T : ~(u \subseteq t /\ u # t)
  <2>1. T \in SUBSET SUBSET S
    OBVIOUS
  <2> HIDE DEF T
  <2> QED BY <1>1, <2>1, SmallestSubset
<1> DEFINE c == CHOOSE x \in t : TRUE
<1>3. CASE t = {}
  BY <1>3, <1>2, g[t] = 0, h[t] = 0 DEF Sums
<1>4. CASE t # {}
  <2>1. c \in t
    BY <1>4
  <2>2. g[t \ {c}] = h[t \ {c}]
    BY <2>1, <1>2
  <2>3. g[t] = f[c] + g[t \ {c}]
    BY <1>2, <1>4 DEF Sums
  <2>4. h[t] = f[c] + h[t \ {c}]
    BY <1>2, <1>4 DEF Sums
  <2>5. QED
    BY <1>2, <2>2, <2>3, <2>4
<1>5. QED
  BY <1>3, <1>4

LEMMA SumsExist ==
    ASSUME NEW f, NEW S, IsFiniteSet(S)
    PROVE  \E g : Sums(g, f, S)
<1> DEFINE T == {t \in SUBSET S : ~ \E g : Sums(g, f, t)}
<1>1. SUFFICES ASSUME T # {} PROVE FALSE
  OBVIOUS
<1>2. PICK s \in T : \A u \in T : ~(u \subseteq s /\ u # s)
  <2>1. T \in SUBSET SUBSET S
    OBVIOUS
  <2> HIDE DEF T
  <2> QED BY <1>1, <2>1, SmallestSubset
<1> DEFINE Below(t) == CHOOSE g : Sums(g, f, t)
           c(t) == CHOOSE x \in t : TRUE
           value(t) == IF t = {} THEN 0 ELSE f[c(t)] + Below(t \ {c(t)})[t \ {c(t)}]
           g0 == [t \in SUBSET s |-> value(t)]
<1>3. ASSUME NEW t \in SUBSET s, t # s
      PROVE  Sums(Below(t), f, t)
  BY <1>2, <1>3
<1>4. ASSUME NEW t \in SUBSET s, t # s
      PROVE  Below(t)[t] = value(t)
  <2>1. CASE t = {}
    <3>1. Sums(Below(t), f, t)
      BY <1>3, <1>4
    <3>2. Below(t)[t] = 0
      <4> HIDE DEF Below
      <4> QED BY <2>1, <3>1 DEF Sums
    <3>3. QED
      BY <2>1, <3>2
  <2>2. CASE t # {}
    <3>1. c(t) \in t
      BY <2>2
    <3>2. t \ {c(t)} \in SUBSET s /\ t \ {c(t)} # s
      BY <1>4
    <3>3. Sums(Below(t), f, t) /\ Sums(Below(t \ {c(t)}), f, t \ {c(t)})
      BY <1>3, <1>4, <3>2
    <3>4. Below(t)[t \ {c(t)}] = Below(t \ {c(t)})[t \ {c(t)}]
      <4>1. t \in SUBSET S /\ t \ {c(t)} \in SUBSET S
        OBVIOUS
      <4>2. t \ {c(t)} \in SUBSET (t \cap (t \ {c(t)}))
        OBVIOUS
      <4> HIDE DEF Below, c
      <4> QED BY <3>3, <4>1, <4>2, SumsUnique
    <3>5. Below(t)[t] = f[c(t)] + Below(t)[t \ {c(t)}]
      <4> HIDE DEF Below
      <4> QED BY <2>2, <3>3 DEF Sums
    <3>6. QED
      BY <2>2, <3>4, <3>5
  <2>3. QED
    BY <2>1, <2>2
<1>5. ASSUME NEW t \in SUBSET s, t # {}
      PROVE  g0[t] = f[c(t)] + g0[t \ {c(t)}]
  <2>1. c(t) \in t
    BY <1>5
  <2>2. t \ {c(t)} \in SUBSET s /\ t \ {c(t)} # s
    BY <2>1
  <2>3. Below(t \ {c(t)})[t \ {c(t)}] = value(t \ {c(t)})
    <3> HIDE DEF Below, c, value
    <3> QED BY <2>2, <1>4
  <2>4. g0[t \ {c(t)}] = value(t \ {c(t)})
    <3> HIDE DEF value, c
    <3> QED BY <2>2
  <2>5. g0[t] = value(t)
    <3> HIDE DEF value
    <3> QED OBVIOUS
  <2>6. value(t) = f[c(t)] + Below(t \ {c(t)})[t \ {c(t)}]
    <3> HIDE DEF Below, c
    <3> QED BY <1>5
  <2>7. QED
    <3> HIDE DEF Below, c, value, g0
    <3> QED BY <2>3, <2>4, <2>5, <2>6
<1>6. g0[{}] = 0
  OBVIOUS
<1>7. g0 = [t \in SUBSET s |-> g0[t]]
  <2> HIDE DEF value
  <2> QED OBVIOUS
<1>8. Sums(g0, f, s)
  <2>1. \A t \in SUBSET s : g0[t] = IF t = {} THEN 0 ELSE f[c(t)] + g0[t \ {c(t)}]
    <3> HIDE DEF g0
    <3> QED BY <1>5, <1>6
  <2>2. QED
    <3> HIDE DEF g0
    <3> QED BY <2>1, <1>7 DEF Sums
<1>9. QED
  <2> HIDE DEF g0
  <2> QED BY <1>8, <1>2

\* A fold over a set takes out one element first.
LEMMA SumFirst ==
    ASSUME NEW f, NEW S, IsFiniteSet(S)
    PROVE  /\ SumFunctionOnSet(f, {}) = 0
           /\ S # {} => \E x \in S :
                  SumFunctionOnSet(f, S) = f[x] + SumFunctionOnSet(f, S \ {x})
<1> DEFINE sums(s) == CHOOSE g : Sums(g, f, s)
           c == CHOOSE x \in S : TRUE
<1>1. ASSUME NEW s \in SUBSET S
      PROVE  Sums(sums(s), f, s)
  BY FS_Subset, SumsExist
<1>2. sums({})[{}] = 0
  <2>1. Sums(sums({}), f, {})
    BY <1>1
  <2> HIDE DEF sums
  <2> QED BY <2>1 DEF Sums
<1>3. ASSUME S # {}
      PROVE  sums(S)[S] = f[c] + sums(S \ {c})[S \ {c}]
  <2>1. Sums(sums(S), f, S) /\ Sums(sums(S \ {c}), f, S \ {c})
    BY <1>1
  <2>2. sums(S)[S] = f[c] + sums(S)[S \ {c}]
    <3> HIDE DEF sums
    <3> QED BY <1>3, <2>1 DEF Sums
  <2>3. sums(S)[S \ {c}] = sums(S \ {c})[S \ {c}]
    <3>1. S \ {c} \in SUBSET (S \cap (S \ {c})) /\ S \in SUBSET S
             /\ S \ {c} \in SUBSET S
      OBVIOUS
    <3> HIDE DEF sums, c
    <3> QED BY <2>1, <3>1, SumsUnique
  <2>4. QED
    BY <2>2, <2>3
<1>4. ASSUME NEW s
      PROVE  SumFunctionOnSet(f, s) = sums(s)[s]
  BY FoldIsSums
<1>5. QED
  <2> HIDE DEF sums
  <2> QED BY <1>2, <1>3, <1>4

-----------------------------------------------------------------------------
\* Any element may be taken out first, and the sum is an integer.
LEMMA SumRemove ==
    ASSUME NEW S, IsFiniteSet(S), NEW f \in [S -> Int], NEW s \in SUBSET S
    PROVE  /\ SumFunctionOnSet(f, s) \in Int
           /\ \A x \in s : SumFunctionOnSet(f, s)
                               = f[x] + SumFunctionOnSet(f, s \ {x})
<1> DEFINE Sum(t) == SumFunctionOnSet(f, t)
           Good(t) == /\ Sum(t) \in Int
                      /\ \A x \in t : Sum(t) = f[x] + Sum(t \ {x})
           T == {t \in SUBSET S : ~Good(t)}
<1>1. SUFFICES ASSUME T # {} PROVE FALSE
  OBVIOUS
<1>2. PICK t \in T : \A u \in T : ~(u \subseteq t /\ u # t)
  <2>1. T \in SUBSET SUBSET S
    OBVIOUS
  <2> HIDE DEF T
  <2> QED BY <1>1, <2>1, SmallestSubset
<1>3. Sum({}) = 0
  BY FS_EmptySet, SumFirst
<1>4. t # {} => \E x \in t : Sum(t) = f[x] + Sum(t \ {x})
  <2>1. IsFiniteSet(t)
    BY FS_Subset
  <2> QED BY <2>1, SumFirst
<1>5. ASSUME NEW u \in SUBSET t, u # t
      PROVE  Good(u)
  <2> HIDE DEF Good
  <2> QED BY <1>2, <1>5
<1>6. t # {}
  <2>1. Good({}) /\ ~Good(t)
    BY <1>3
  <2> HIDE DEF Good
  <2> QED BY <2>1
<1> HIDE DEF Sum
<1>7. PICK x \in t : Sum(t) = f[x] + Sum(t \ {x})
  BY <1>4, <1>6
<1>8. Good(t \ {x})
  <2> HIDE DEF Good
  <2> QED BY <1>5
<1>9. Sum(t) \in Int
  BY <1>7, <1>8
<1>10. ASSUME NEW y \in t, y # x
       PROVE  Sum(t) = f[y] + Sum(t \ {y})
  <2>1. Good(t \ {y})
    <3> HIDE DEF Good
    <3> QED BY <1>5
  <2>2. t \ {x, y} = (t \ {x}) \ {y} /\ t \ {x, y} = (t \ {y}) \ {x}
    OBVIOUS
  <2>3. Sum(t \ {x}) = f[y] + Sum(t \ {x, y})
    BY <1>8, <1>10, <2>2
  <2>4. Sum(t \ {y}) = f[x] + Sum(t \ {x, y})
    BY <2>1, <1>10, <2>2
  <2>5. Sum(t \ {x, y}) \in Int
    <3>1. Good(t \ {x, y})
      <4>1. t \ {x, y} \in SUBSET t /\ t \ {x, y} # t
        BY <1>10
      <4> HIDE DEF Good
      <4> QED BY <1>5, <4>1
    <3> QED BY <3>1
  <2>6. f[x] \in Int /\ f[y] \in Int
    BY <1>2
  <2>7. QED
    BY <1>7, <2>3, <2>4, <2>5, <2>6
<1>11. QED
  <2>1. Good(t)
    BY <1>7, <1>9, <1>10
  <2> HIDE DEF Good
  <2> QED BY <2>1

\* Functions that agree on a set have the same sum over it.
LEMMA SumSame ==
    ASSUME NEW S, IsFiniteSet(S), NEW f \in [S -> Int], NEW g \in [S -> Int],
           NEW s \in SUBSET S, \A x \in s : f[x] = g[x]
    PROVE  SumFunctionOnSet(f, s) = SumFunctionOnSet(g, s)
<1> DEFINE F(t) == SumFunctionOnSet(f, t)
           G(t) == SumFunctionOnSet(g, t)
           T == {t \in SUBSET s : F(t) # G(t)}
<1>1. SUFFICES ASSUME T # {} PROVE FALSE
  OBVIOUS
<1>2. PICK t \in T : \A u \in T : ~(u \subseteq t /\ u # t)
  <2>1. T \in SUBSET SUBSET S
    OBVIOUS
  <2> HIDE DEF T
  <2> QED BY <1>1, <2>1, SmallestSubset
<1>3. F({}) = 0 /\ G({}) = 0
  BY FS_EmptySet, SumFirst
<1>4. \A x \in t : F(t) = f[x] + F(t \ {x}) /\ G(t) = g[x] + G(t \ {x})
  <2>1. t \in SUBSET S
    OBVIOUS
  <2> QED BY <2>1, SumRemove
<1> HIDE DEF F, G
<1>5. PICK x \in t : TRUE
  BY <1>2, <1>3
<1>6. F(t \ {x}) = G(t \ {x})
  BY <1>2, <1>5
<1>7. F(t) = G(t)
  BY <1>4, <1>5, <1>6
<1> QED BY <1>2, <1>7

\* The sum over a set of balances none of which is negative: each balance is at
\* most the sum, and the sum of nothing is 0.
LEMMA SumNat ==
    ASSUME NEW S, IsFiniteSet(S), NEW f \in [S -> Nat], NEW s \in SUBSET S
    PROVE  /\ SumFunctionOnSet(f, s) \in Nat
           /\ \A x \in s : f[x] <= SumFunctionOnSet(f, s)
           /\ (\A x \in s : f[x] = 0) => SumFunctionOnSet(f, s) = 0
<1> DEFINE Sum(t) == SumFunctionOnSet(f, t)
           Good(t) == Sum(t) \in Nat /\ ((\A x \in t : f[x] = 0) => Sum(t) = 0)
           T == {t \in SUBSET S : ~Good(t)}
<1>1. f \in [S -> Int]
  OBVIOUS
<1>2. ASSUME NEW t \in SUBSET S
      PROVE  /\ Sum(t) \in Int
             /\ \A x \in t : Sum(t) = f[x] + Sum(t \ {x})
  BY <1>1, SumRemove
<1>3. Sum({}) = 0
  BY FS_EmptySet, SumFirst
<1> HIDE DEF Sum
<1>4. T = {}
  <2>1. SUFFICES ASSUME T # {} PROVE FALSE
    OBVIOUS
  <2>2. PICK t \in T : \A u \in T : ~(u \subseteq t /\ u # t)
    <3>1. T \in SUBSET SUBSET S
      OBVIOUS
    <3> HIDE DEF T
    <3> QED BY <2>1, <3>1, SmallestSubset
  <2>3. PICK x \in t : TRUE
    <3>1. Good({}) /\ ~Good(t)
      BY <1>3, <2>2
    <3> HIDE DEF Good
    <3> QED BY <3>1
  <2>4. Good(t \ {x})
    <3>1. t \ {x} \in SUBSET S /\ t \ {x} \subseteq t /\ t \ {x} # t
      BY <2>2, <2>3
    <3> HIDE DEF Good
    <3> QED BY <2>2, <3>1
  <2>5. Sum(t) = f[x] + Sum(t \ {x}) /\ f[x] \in Nat
    BY <1>2, <2>2, <2>3
  <2>6. QED
    BY <2>2, <2>3, <2>4, <2>5
<1>5. Good(s)
  <2> HIDE DEF Good
  <2> QED BY <1>4
<1>6. ASSUME NEW x \in s
      PROVE  f[x] <= Sum(s)
  <2>1. Good(s \ {x})
    <3> HIDE DEF Good
    <3> QED BY <1>4
  <2>2. Sum(s) = f[x] + Sum(s \ {x}) /\ f[x] \in Nat
    BY <1>2
  <2> QED BY <2>1, <2>2
<1>7. QED
  BY <1>5, <1>6 DEF Sum

\* One balance changes.
LEMMA SumUpdate ==
    ASSUME NEW S, IsFiniteSet(S), NEW f \in [S -> Int], NEW g \in [S -> Int],
           NEW x \in S, \A y \in S \ {x} : g[y] = f[y]
    PROVE  SumFunction(g) = SumFunction(f) - f[x] + g[x]
<1>1. S \in SUBSET S /\ S \ {x} \in SUBSET S
  OBVIOUS
<1>2. SumFunctionOnSet(g, S) = g[x] + SumFunctionOnSet(g, S \ {x})
  BY <1>1, SumRemove
<1>3. SumFunctionOnSet(f, S) = f[x] + SumFunctionOnSet(f, S \ {x})
  BY <1>1, SumRemove
<1>4. SumFunctionOnSet(g, S \ {x}) = SumFunctionOnSet(f, S \ {x})
  BY <1>1, SumSame
<1>5. SumFunctionOnSet(f, S \ {x}) \in Int
  BY <1>1, SumRemove
<1>6. SumFunctionOnSet(g, S) = SumFunctionOnSet(f, S) - f[x] + g[x]
  BY <1>2, <1>3, <1>4, <1>5
<1>7. DOMAIN f = S /\ DOMAIN g = S
  OBVIOUS
<1>8. QED
  BY <1>6, <1>7 DEF SumFunction

\* An amount moves from one balance to another.
LEMMA SumMove ==
    ASSUME NEW S, IsFiniteSet(S), NEW f \in [S -> Int], NEW g \in [S -> Int],
           NEW x \in S, NEW y \in S, x # y,
           NEW d \in Int, g[x] = f[x] - d, g[y] = f[y] + d,
           \A z \in S \ {x, y} : g[z] = f[z]
    PROVE  SumFunction(g) = SumFunction(f)
<1> DEFINE h == [f EXCEPT ![x] = f[x] - d]
<1>1. /\ h \in [S -> Int]
      /\ h[x] = f[x] - d /\ h[y] = f[y]
      /\ \A z \in S \ {x} : h[z] = f[z]
      /\ \A z \in S \ {y} : g[z] = h[z]
  OBVIOUS
<1> HIDE DEF h
<1>2. SumFunction(h) = SumFunction(f) - f[x] + h[x]
  BY <1>1, SumUpdate
<1>3. SumFunction(g) = SumFunction(h) - h[y] + g[y]
  BY <1>1, SumUpdate
<1>4. SumFunction(f) \in Int
  BY SumRemove DEF SumFunction
<1>5. QED
  BY <1>1, <1>2, <1>3, <1>4
=============================================================================
