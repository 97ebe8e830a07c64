-------------------------------- MODULE Sums --------------------------------
(***************************************************************************)
(* Sums over finite sets, as the models and their properties take them:    *)
(* SumFunctionOnSet picks its elements one at a time in an order CHOOSE    *)
(* gives, and what it sums to does not depend on that order.  Each fact    *)
(* fails, if it fails, for a least set, which is what takes the place of   *)
(* an induction here.  LeastIs and GreatestIs name the ends of a set.      *)
(***************************************************************************)
EXTENDS Integers, FiniteSetsExt, FiniteSetTheorems, WellFoundedInduction, TLAPS

-----------------------------------------------------------------------------
(* What the fold computes *)

First(s) == CHOOSE x \in s : TRUE

\* h sums up the subsets of S.
SumsUp(f, S, h) ==
    h = [s \in SUBSET S |-> IF s = {} THEN 0 ELSE f[First(s)] + h[s \ {First(s)}]]

LEMMA SumIs ==
    ASSUME NEW f, NEW S
    PROVE  SumFunctionOnSet(f, S) = (CHOOSE h : SumsUp(f, S, h))[S]
    BY DEF SumFunctionOnSet, FoldFunctionOnSet, MapThenFoldSet, SumsUp, First

LEMMA FirstIn == \A s : s # {} => First(s) \in s
    BY DEF First

LEMMA LeastSet ==
    ASSUME NEW S, IsFiniteSet(S), NEW B, B \subseteq SUBSET S, B # {}
    PROVE  \E T \in B : \A U \in B : U \subseteq T => U = T
<1>1. IsWellFoundedOn(StrictSubsetOrdering(S), SUBSET S)
    BY FS_StrictSubsetOrderingWellFounded, FS_FiniteSubsetsOfFinite
<1>2. PICK T \in B : \A U \in B : ~(<<U, T>> \in StrictSubsetOrdering(S))
    BY <1>1, WFMin
<1>3. \A U \in B : U \subseteq T => U = T
    BY <1>2 DEF StrictSubsetOrdering
<1>4. QED
    BY <1>3

LEMMA SumsUpOnce ==
    ASSUME NEW f, NEW S, IsFiniteSet(S), NEW T, NEW U, S \subseteq T, S \subseteq U,
           NEW h, NEW k, SumsUp(f, T, h), SumsUp(f, U, k)
    PROVE  h[S] = k[S]
<1> DEFINE B == {s \in SUBSET S : h[s] # k[s]}
<1>1. SUFFICES ASSUME B # {} PROVE FALSE
    OBVIOUS
<1>a. B \subseteq SUBSET S
    OBVIOUS
<1> HIDE DEF B
<1>2. PICK s \in B : \A u \in B : u \subseteq s => u = s
    BY <1>1, <1>a, LeastSet
<1> USE DEF B
<1>3. s \in SUBSET T /\ s \in SUBSET U /\ s \in SUBSET S /\ h[s] # k[s]
    BY <1>2
<1>4. /\ h[s] = IF s = {} THEN 0 ELSE f[First(s)] + h[s \ {First(s)}]
      /\ k[s] = IF s = {} THEN 0 ELSE f[First(s)] + k[s \ {First(s)}]
    BY <1>3 DEF SumsUp
<1>5. s # {} /\ First(s) \in s
    BY <1>3, <1>4, FirstIn
<1>6. h[s \ {First(s)}] = k[s \ {First(s)}]
  <2>1. s \ {First(s)} \subseteq s /\ s \ {First(s)} # s /\ s \ {First(s)} \in SUBSET S
    BY <1>3, <1>5
  <2>2. s \ {First(s)} \notin B
    BY <1>2, <2>1
  <2>3. QED
    BY <2>1, <2>2
<1>7. QED
    BY <1>3, <1>4, <1>6

HasSum(f, S) == \E h : SumsUp(f, S, h)

LEMMA SumExists ==
    ASSUME NEW f, NEW S, IsFiniteSet(S)
    PROVE  HasSum(f, S)
<1> DEFINE B == {s \in SUBSET S : ~HasSum(f, s)}
<1>1. SUFFICES ASSUME B # {} PROVE FALSE
    OBVIOUS
<1>a. B \subseteq SUBSET S
    OBVIOUS
<1> HIDE DEF B
<1>2. PICK T \in B : \A U \in B : U \subseteq T => U = T
    BY <1>1, <1>a, LeastSet
<1> USE DEF B
<1>3. T \subseteq S /\ ~HasSum(f, T) /\ \A s \in SUBSET T : s # T => HasSum(f, s)
    BY <1>2
<1> DEFINE h(s) == CHOOSE k : SumsUp(f, s, k)
<1>4. ASSUME NEW s \in SUBSET T, s # T PROVE SumsUp(f, s, h(s))
    BY <1>3, <1>4 DEF HasSum
<1> HIDE DEF h
<1> DEFINE value(s) == IF s = {} THEN 0
                       ELSE f[First(s)] + h(s \ {First(s)})[s \ {First(s)}]
           k == [s \in SUBSET T |-> value(s)]
<1>5. ASSUME NEW s \in SUBSET T, s # T PROVE h(s)[s] = value(s)
  <2>1. SumsUp(f, s, h(s)) /\ s \in SUBSET s
    BY <1>4, <1>5
  <2>2. h(s)[s] = IF s = {} THEN 0 ELSE f[First(s)] + h(s)[s \ {First(s)}]
    BY <2>1 DEF SumsUp
  <2>3. ASSUME s # {} PROVE h(s)[s \ {First(s)}] = h(s \ {First(s)})[s \ {First(s)}]
    <3> DEFINE u == s \ {First(s)}
    <3>1. First(s) \in s
      BY <2>3, FirstIn
    <3>2. u \in SUBSET T /\ u # T /\ u \subseteq s /\ u \subseteq u /\ IsFiniteSet(u)
      BY <1>3, <1>5, <3>1, FS_Subset
    <3>3. SumsUp(f, u, h(u))
      BY <1>4, <3>2
    <3> HIDE DEF u
    <3>4. h(s)[u] = h(u)[u]
      BY <2>1, <3>2, <3>3, SumsUpOnce
    <3>5. QED
      BY <3>4 DEF u
  <2>4. QED
    BY <2>2, <2>3
<1>6. ASSUME NEW s \in SUBSET T, s # {} PROVE value(s) = f[First(s)] + k[s \ {First(s)}]
  <2> DEFINE u == s \ {First(s)}
  <2>1. First(s) \in s
    BY <1>6, FirstIn
  <2>2. u \in SUBSET T /\ u # T
    BY <2>1
  <2>3. k[u] = value(u) /\ h(u)[u] = value(u)
    BY <1>5, <2>2
  <2>4. value(s) = f[First(s)] + h(u)[u]
    BY <1>6
  <2> HIDE DEF value, k, u
  <2>5. value(s) = f[First(s)] + k[u]
    BY <2>3, <2>4
  <2>6. QED
    BY <2>5 DEF u
<1>7. value({}) = 0
    OBVIOUS
<1>8. k = [s \in SUBSET T |-> IF s = {} THEN 0 ELSE f[First(s)] + k[s \ {First(s)}]]
  <2>1. k = [s \in SUBSET T |-> value(s)]
    OBVIOUS
  <2> HIDE DEF value, k
  <2>2. \A s \in SUBSET T : value(s) = IF s = {} THEN 0 ELSE f[First(s)] + k[s \ {First(s)}]
    BY <1>6, <1>7
  <2>3. QED
    BY <2>1, <2>2
<1> HIDE DEF k
<1>9. SumsUp(f, T, k)
    BY <1>8 DEF SumsUp
<1>10. QED
    BY <1>3, <1>9 DEF HasSum

LEMMA SumStep ==
    ASSUME NEW f, NEW S, IsFiniteSet(S)
    PROVE  /\ S = {} => SumFunctionOnSet(f, S) = 0
           /\ S # {} => /\ First(S) \in S
                        /\ SumFunctionOnSet(f, S) = f[First(S)] + SumFunctionOnSet(f, S \ {First(S)})
<1> DEFINE h(s) == CHOOSE k : SumsUp(f, s, k)
<1>1. \A s \in SUBSET S : IsFiniteSet(s) /\ SumsUp(f, s, h(s))
    BY FS_Subset, SumExists DEF HasSum
<1>2. \A s : SumFunctionOnSet(f, s) = h(s)[s]
    BY SumIs
<1> HIDE DEF h
<1>3. h(S)[S] = IF S = {} THEN 0 ELSE f[First(S)] + h(S)[S \ {First(S)}]
  <2>1. SumsUp(f, S, h(S)) /\ S \in SUBSET S
    BY <1>1
  <2>2. QED
    BY <2>1 DEF SumsUp
<1>4. ASSUME S # {} PROVE h(S)[S \ {First(S)}] = h(S \ {First(S)})[S \ {First(S)}]
  <2> DEFINE u == S \ {First(S)}
  <2>1. u \subseteq S /\ u \subseteq u /\ u \in SUBSET S
    OBVIOUS
  <2> HIDE DEF u
  <2>2. SumsUp(f, u, h(u)) /\ SumsUp(f, S, h(S)) /\ IsFiniteSet(u)
    BY <1>1, <2>1
  <2>3. \A a, b : SumsUp(f, S, a) /\ SumsUp(f, u, b) => a[u] = b[u]
    BY <2>1, <2>2, SumsUpOnce
  <2>5. h(S)[u] = h(u)[u]
    BY <2>2, <2>3
  <2>6. QED
    BY <2>5 DEF u
<1>5. QED
    BY <1>2, <1>3, <1>4, FirstIn

LEMMA SumNat ==
    ASSUME NEW f, NEW S, IsFiniteSet(S), \A t \in S : f[t] \in Nat
    PROVE  SumFunctionOnSet(f, S) \in Nat
<1> DEFINE B == {s \in SUBSET S : SumFunctionOnSet(f, s) \notin Nat}
<1>1. SUFFICES ASSUME B # {} PROVE FALSE
    OBVIOUS
<1>a. B \subseteq SUBSET S
    OBVIOUS
<1> HIDE DEF B
<1>2. PICK s \in B : \A u \in B : u \subseteq s => u = s
    BY <1>1, <1>a, LeastSet
<1> USE DEF B
<1>3. s \subseteq S /\ SumFunctionOnSet(f, s) \notin Nat /\ IsFiniteSet(s)
    BY <1>2, FS_Subset
<1>b. s = {} => SumFunctionOnSet(f, s) = 0
    BY <1>3, SumStep
<1>c. s # {}
    BY <1>3, <1>b
<1>4. s # {} /\ First(s) \in s /\ SumFunctionOnSet(f, s) = f[First(s)] + SumFunctionOnSet(f, s \ {First(s)})
    BY <1>3, <1>c, SumStep
<1>5. SumFunctionOnSet(f, s \ {First(s)}) \in Nat
  <2>1. s \ {First(s)} \in SUBSET S /\ s \ {First(s)} \subseteq s /\ s \ {First(s)} # s
    BY <1>3, <1>4
  <2>2. s \ {First(s)} \notin B
    BY <1>2, <2>1
  <2>3. QED
    BY <2>1, <2>2
<1>6. QED
    BY <1>3, <1>4, <1>5

\* Any element may be taken first.
LEMMA SumTake ==
    ASSUME NEW f, NEW S, IsFiniteSet(S), \A t \in S : f[t] \in Nat, NEW x \in S
    PROVE  SumFunctionOnSet(f, S) = f[x] + SumFunctionOnSet(f, S \ {x})
<1> DEFINE Takes(s) == \A y \in s : SumFunctionOnSet(f, s) = f[y] + SumFunctionOnSet(f, s \ {y})
           B == {s \in SUBSET S : ~Takes(s)}
<1>1. SUFFICES ASSUME B # {} PROVE FALSE
    OBVIOUS
<1>a. B \subseteq SUBSET S
    OBVIOUS
<1> HIDE DEF B
<1>2. PICK s \in B : \A u \in B : u \subseteq s => u = s
    BY <1>1, <1>a, LeastSet
<1> USE DEF B
<1>3. s \subseteq S /\ ~Takes(s) /\ IsFiniteSet(s)
    BY <1>2, FS_Subset
<1>4. \A u \in SUBSET s : u # s => Takes(u)
    BY <1>2, <1>3
<1>5. PICK y \in s : SumFunctionOnSet(f, s) # f[y] + SumFunctionOnSet(f, s \ {y})
    BY <1>3
<1> DEFINE c == First(s)
<1>6. c \in s /\ SumFunctionOnSet(f, s) = f[c] + SumFunctionOnSet(f, s \ {c})
    BY <1>3, <1>5, SumStep
<1>7. c # y
    BY <1>5, <1>6
<1>8. SumFunctionOnSet(f, s \ {c}) = f[y] + SumFunctionOnSet(f, (s \ {c}) \ {y})
  <2>1. s \ {c} \in SUBSET s /\ s \ {c} # s /\ y \in s \ {c}
    BY <1>6, <1>7
  <2>2. QED
    BY <1>4, <2>1
<1>9. SumFunctionOnSet(f, s \ {y}) = f[c] + SumFunctionOnSet(f, (s \ {y}) \ {c})
  <2>1. s \ {y} \in SUBSET s /\ s \ {y} # s /\ c \in s \ {y}
    BY <1>5, <1>6, <1>7
  <2>2. QED
    BY <1>4, <2>1
<1>10. (s \ {y}) \ {c} = (s \ {c}) \ {y} /\ IsFiniteSet((s \ {c}) \ {y})
    BY <1>3, FS_Subset
<1>11. SumFunctionOnSet(f, (s \ {c}) \ {y}) \in Nat /\ f[c] \in Nat /\ f[y] \in Nat
    BY <1>3, <1>6, <1>10, SumNat
<1> HIDE DEF c
<1>12. /\ SumFunctionOnSet(f, s) = f[c] + (f[y] + SumFunctionOnSet(f, (s \ {c}) \ {y}))
       /\ f[y] + SumFunctionOnSet(f, s \ {y}) = f[y] + (f[c] + SumFunctionOnSet(f, (s \ {c}) \ {y}))
    BY <1>6, <1>8, <1>9, <1>10
<1>13. QED
    BY <1>5, <1>11, <1>12

\* Only the values at the elements count.
LEMMA SumSame ==
    ASSUME NEW f, NEW g, NEW S, IsFiniteSet(S), \A t \in S : f[t] = g[t]
    PROVE  SumFunctionOnSet(f, S) = SumFunctionOnSet(g, S)
<1> DEFINE B == {s \in SUBSET S : SumFunctionOnSet(f, s) # SumFunctionOnSet(g, s)}
<1>1. SUFFICES ASSUME B # {} PROVE FALSE
    OBVIOUS
<1>a. B \subseteq SUBSET S
    OBVIOUS
<1> HIDE DEF B
<1>2. PICK s \in B : \A u \in B : u \subseteq s => u = s
    BY <1>1, <1>a, LeastSet
<1> USE DEF B
<1>3. s \subseteq S /\ SumFunctionOnSet(f, s) # SumFunctionOnSet(g, s) /\ IsFiniteSet(s)
    BY <1>2, FS_Subset
<1>4. /\ s = {} => SumFunctionOnSet(f, s) = 0 /\ SumFunctionOnSet(g, s) = 0
      /\ s # {} => /\ First(s) \in s
                   /\ SumFunctionOnSet(f, s) = f[First(s)] + SumFunctionOnSet(f, s \ {First(s)})
                   /\ SumFunctionOnSet(g, s) = g[First(s)] + SumFunctionOnSet(g, s \ {First(s)})
    BY <1>3, SumStep
<1>5. s # {} /\ First(s) \in s
    BY <1>3, <1>4
<1>6. SumFunctionOnSet(f, s \ {First(s)}) = SumFunctionOnSet(g, s \ {First(s)})
  <2>1. s \ {First(s)} \in SUBSET S /\ s \ {First(s)} \subseteq s /\ s \ {First(s)} # s
    BY <1>3, <1>5
  <2>2. s \ {First(s)} \notin B
    BY <1>2, <2>1
  <2>3. QED
    BY <2>1, <2>2
<1>7. QED
    BY <1>3, <1>4, <1>5, <1>6

-----------------------------------------------------------------------------
(* Counting by parts *)

\* f counts the parts of `all`, one for each index of f.
CountsParts(f, parts, all) ==
    /\ IsFiniteSet(DOMAIN f)
    /\ \A c \in DOMAIN f : IsFiniteSet(parts[c]) /\ f[c] = Cardinality(parts[c])
    /\ \A c, d \in DOMAIN f : c # d => parts[c] \cap parts[d] = {}
    /\ \A x : x \in all <=> \E c \in DOMAIN f : x \in parts[c]

\* Sets that share no element have together as many as they have one by one.
LEMMA SumOfParts ==
    ASSUME NEW f, NEW parts, NEW all, CountsParts(f, parts, all)
    PROVE  IsFiniteSet(all) /\ SumFunction(f) = Cardinality(all)
<1>p. PICK S : S = DOMAIN f
    OBVIOUS
<1>q. /\ IsFiniteSet(S)
      /\ \A c \in S : IsFiniteSet(parts[c]) /\ f[c] = Cardinality(parts[c])
      /\ \A c, d \in S : c # d => parts[c] \cap parts[d] = {}
      /\ \A x : x \in all <=> \E c \in S : x \in parts[c]
    BY <1>p DEF CountsParts
<1> DEFINE Union(s) == {x \in all : \E c \in s : x \in parts[c]}
           Adds(s) == IsFiniteSet(Union(s)) /\ SumFunctionOnSet(f, s) = Cardinality(Union(s))
           B == {s \in SUBSET S : ~Adds(s)}
<1>1. ASSUME B # {} PROVE FALSE
  <2>1. B \subseteq SUBSET S
    OBVIOUS
  <2> HIDE DEF B
  <2>2. PICK s \in B : \A u \in B : u \subseteq s => u = s
    BY <1>1, <1>q, <2>1, LeastSet
  <2> USE DEF B
  <2>3. s \subseteq S /\ ~Adds(s) /\ IsFiniteSet(s)
    BY <2>2, <1>q, FS_Subset
  <2> HIDE DEF Adds
  <2>4. CASE s = {}
    <3>1. Union(s) = {}
      BY <2>4
    <3>2. SumFunctionOnSet(f, s) = 0
      BY <2>3, <2>4, SumStep
    <3>3. QED
      BY <2>3, <3>1, <3>2, FS_EmptySet DEF Adds
  <2>5. CASE s # {}
    <3> DEFINE c == First(s)
               u == s \ {c}
    <3>1. c \in s /\ SumFunctionOnSet(f, s) = f[c] + SumFunctionOnSet(f, u)
      BY <2>3, <2>5, SumStep
    <3>2. u \in SUBSET S /\ u # s /\ u \subseteq s
      BY <2>3, <3>1
    <3>3. Adds(u)
      BY <2>2, <3>2
    <3>4. Union(s) = parts[c] \cup Union(u) /\ parts[c] \cap Union(u) = {}
      BY <2>3, <3>1, <1>q
    <3>5. f[c] = Cardinality(parts[c]) /\ IsFiniteSet(parts[c])
      BY <2>3, <3>1, <1>q
    <3> HIDE DEF c, u, Union
    <3>6. IsFiniteSet(Union(u)) /\ SumFunctionOnSet(f, u) = Cardinality(Union(u))
      BY <3>3 DEF Adds
    <3>7. /\ IsFiniteSet(Union(s))
          /\ Cardinality(Union(s)) = Cardinality(parts[c]) + Cardinality(Union(u)) - Cardinality({})
      <4>1. /\ IsFiniteSet(parts[c] \cup Union(u))
            /\ Cardinality(parts[c] \cup Union(u))
               = Cardinality(parts[c]) + Cardinality(Union(u)) - Cardinality(parts[c] \cap Union(u))
        BY <3>5, <3>6, FS_Union
      <4>2. QED
        BY <3>4, <4>1
    <3>8. Cardinality(parts[c]) \in Nat /\ Cardinality(Union(u)) \in Nat /\ Cardinality({}) = 0
      BY <3>5, <3>6, FS_CardinalityType, FS_EmptySet
    <3>9. QED
      BY <2>3, <3>1, <3>5, <3>6, <3>7, <3>8 DEF Adds
  <2>6. QED
    BY <2>4, <2>5
<1>2. Adds(S)
  <2>1. S \in SUBSET S /\ S \notin B
    BY <1>1
  <2> HIDE DEF Adds
  <2>2. QED
    BY <2>1
<1>3. Union(S) = all
    BY <1>q
<1>4. QED
    BY <1>p, <1>2, <1>3 DEF SumFunction

-----------------------------------------------------------------------------
(* The ends of a set of numbers *)

LEMMA LeastIs ==
    ASSUME NEW S, S \subseteq Int, NEW x \in S, \A y \in S : x <= y
    PROVE  Min(S) = x
<1>1. Min(S) \in S /\ \A y \in S : Min(S) <= y
    BY DEF Min
<1>2. Min(S) \in Int /\ x \in Int /\ x <= Min(S) /\ Min(S) <= x
    BY <1>1
<1>3. QED
    BY <1>2

LEMMA GreatestIs ==
    ASSUME NEW S, S \subseteq Int, NEW x \in S, \A y \in S : x >= y
    PROVE  Max(S) = x
<1>1. Max(S) \in S /\ \A y \in S : Max(S) >= y
    BY DEF Max
<1>2. Max(S) \in Int /\ x \in Int /\ x >= Max(S) /\ Max(S) >= x
    BY <1>1
<1>3. QED
    BY <1>2
=============================================================================
