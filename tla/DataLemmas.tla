------------------------------ MODULE DataLemmas ------------------------------
(***************************************************************************)
(* Facts about the data of the models that their proofs share: induction   *)
(* over the naturals as a fact about sets, functions that are defined by   *)
(* recursion, and sums.                                                    *)
(*                                                                         *)
(* Induction is proved from the least-element principle, which the library *)
(* states for sets (WFMin).  What is to be shown of n is written as the    *)
(* membership of n in a set.                                               *)
(***************************************************************************)
EXTENDS Integers, Sequences, FiniteSetsExt, Functions, FiniteSetTheorems, WellFoundedInduction, TLAPS

LEMMA LeastElement ==
    ASSUME NEW T, T \subseteq Nat, T # {}
    PROVE  \E x \in T : \A y \in T : x <= y
<1>1. PICK x \in T : \A y \in T : ~ (<<y, x>> \in OpToRel(<, Nat))
  BY WFMin, NatLessThanWellFounded, Zenon
<1>2. \A y \in T : ~(y < x)
  BY <1>1 DEF OpToRel
<1> QED
  BY <1>2

LEMMA GreatestElement ==
    ASSUME NEW T, NEW n \in Int, T \subseteq Int, T # {}, \A x \in T : x <= n
    PROVE  \E x \in T : \A y \in T : y <= x
<1> DEFINE D == {k \in Nat : n - k \in T}
<1>1. D # {}
  <2>1. PICK x \in T : TRUE
    OBVIOUS
  <2>2. n - x \in Nat /\ n - (n - x) = x
    BY <2>1
  <2> QED
    BY <2>1, <2>2
<1>2. PICK k \in D : \A y \in D : k <= y
  <2> HIDE DEF D
  <2>1. D \subseteq Nat
    BY DEF D
  <2> QED
    BY <1>1, <2>1, LeastElement
<1>3. ASSUME NEW y \in T
      PROVE  y <= n - k
  <2>1. n - y \in Nat /\ n - (n - y) = y
    OBVIOUS
  <2>2. k <= n - y
    BY <1>2, <2>1
  <2> QED
    BY <2>2
<1> QED
  BY <1>2, <1>3

(* Min and Max of FiniteSetsExt are what they are called. *)
LEMMA MaxIs ==
    ASSUME NEW T, NEW n \in Int, T \subseteq Int, T # {}, \A x \in T : x <= n
    PROVE  Max(T) \in T /\ \A y \in T : y <= Max(T)
<1>1. \E x \in T : \A y \in T : x >= y
  BY GreatestElement
<1> QED
  BY <1>1 DEF Max

LEMMA MinIs ==
    ASSUME NEW T, T \subseteq Nat, T # {}
    PROVE  Min(T) \in T /\ \A y \in T : Min(T) <= y
BY LeastElement DEF Min

(* Induction. *)
LEMMA SetInduction ==
    ASSUME NEW T, 0 \in T, \A n \in Nat : n \in T => n + 1 \in T
    PROVE  Nat \subseteq T
<1> SUFFICES ASSUME Nat \ T # {}
             PROVE  FALSE
  OBVIOUS
<1>1. PICK x \in Nat \ T : \A y \in Nat \ T : x <= y
  BY LeastElement
<1>2. x # 0 /\ x - 1 \in Nat /\ x - 1 \in T
  BY <1>1
<1> QED
  BY <1>2

LEMMA IntervalInduction ==
    ASSUME NEW N \in Nat, NEW T, 0 \in T, \A n \in 0 .. (N - 1) : n \in T => n + 1 \in T
    PROVE  0 .. N \subseteq T
<1> DEFINE U == {n \in Nat : n <= N => n \in T}
<1>1. 0 \in U /\ \A n \in Nat : n \in U => n + 1 \in U
  OBVIOUS
<1>2. Nat \subseteq U
  <2> HIDE DEF U
  <2> QED
    BY <1>1, SetInduction
<1> QED
  BY <1>2

-----------------------------------------------------------------------------
(* A function on 0 .. N that begins with `base` and gets each value from   *)
(* the one before it.                                                      *)
IsStep(N, V, base, step) == N \in Nat /\ base \in V /\ step \in [V \X (1 .. N) -> V]
FollowsStep(N, V, base, step) ==
    \E g \in [0 .. N -> V] :
        g[0] = base /\ \A i \in 1 .. N : g[i] = step[<<g[i - 1], i>>]

LEMMA PrimitiveRecursion ==
    ASSUME NEW N, NEW V, NEW base, NEW step, IsStep(N, V, base, step)
    PROVE  FollowsStep(N, V, base, step)
<1>0. N \in Nat /\ base \in V /\ step \in [V \X (1 .. N) -> V]
  BY DEF IsStep
<1> USE <1>0
<1> DEFINE Upto(g, n) == /\ g \in [0 .. n -> V] /\ g[0] = base
                         /\ \A i \in 1 .. n : g[i] = step[<<g[i - 1], i>>]
           T == {n \in 0 .. N : \E g : Upto(g, n)}
<1>1. 0 \in T
  <2> DEFINE g == [i \in 0 .. 0 |-> base]
  <2>1. Upto(g, 0)
    OBVIOUS
  <2> HIDE DEF g
  <2> QED
    BY <2>1
<1>2. ASSUME NEW n \in 0 .. (N - 1), n \in T
      PROVE  n + 1 \in T
  <2>1. PICK g : Upto(g, n)
    BY <1>2
  <2> DEFINE h == [i \in 0 .. (n + 1) |-> IF i <= n THEN g[i] ELSE step[<<g[n], n + 1>>]]
  <2>2. g[n] \in V /\ step[<<g[n], n + 1>>] \in V
    <3>1. g[n] \in V /\ n + 1 \in 1 .. N
      BY <2>1
    <3> QED
      BY <3>1
  <2>3. h \in [0 .. (n + 1) -> V] /\ h[0] = base
    BY <2>1, <2>2
  <2>4. \A i \in 1 .. (n + 1) : h[i] = step[<<h[i - 1], i>>]
    <3> TAKE i \in 1 .. (n + 1)
    <3>1. i - 1 \in 0 .. n /\ h[i - 1] = g[i - 1]
      OBVIOUS
    <3>2. CASE i <= n
      BY <2>1, <3>1, <3>2
    <3>3. CASE i = n + 1
      BY <3>1, <3>3
    <3> QED
      BY <3>2, <3>3
  <2>5. Upto(h, n + 1)
    BY <2>3, <2>4
  <2> HIDE DEF h
  <2> QED
    BY <2>5
<1>3. N \in T
  <2> HIDE DEF T
  <2>1. 0 .. N \subseteq T
    BY <1>1, <1>2, IntervalInduction
  <2> QED
    BY <2>1
<1> QED
  BY <1>3 DEF FollowsStep

-----------------------------------------------------------------------------
(* Induction over the subsets of a finite set. *)
LEMMA FiniteInduction ==
    ASSUME NEW S, IsFiniteSet(S), NEW T, {} \in T,
           \A s \in SUBSET S : \A x \in S \ s : s \in T => s \cup {x} \in T
    PROVE  SUBSET S \subseteq T
<1> DEFINE U == {n \in Nat : \A s \in SUBSET S : Cardinality(s) = n => s \in T}
<1>1. \A s \in SUBSET S : IsFiniteSet(s) /\ Cardinality(s) \in Nat
  BY FS_Subset, FS_CardinalityType
<1>2. 0 \in U
  BY <1>1, FS_EmptySet
<1>3. ASSUME NEW n \in Nat, n \in U
      PROVE  n + 1 \in U
  <2> SUFFICES ASSUME NEW s \in SUBSET S, Cardinality(s) = n + 1
               PROVE  s \in T
    OBVIOUS
  <2>1. PICK x \in s : TRUE
    BY <1>1, FS_EmptySet
  <2>2. Cardinality(s \ {x}) = n /\ s \ {x} \in SUBSET S
    <3>1. IsFiniteSet(s)
      BY <1>1
    <3>2. Cardinality(s \ {x}) = Cardinality(s) - 1
      BY <2>1, <3>1, FS_RemoveElement
    <3> QED
      BY <3>2
  <2>3. s \ {x} \in T
    BY <1>3, <2>2
  <2>4. (s \ {x}) \cup {x} \in T /\ (s \ {x}) \cup {x} = s
    BY <2>1, <2>2, <2>3
  <2> QED
    BY <2>4
<1>4. Nat \subseteq U
  <2> HIDE DEF U
  <2> QED
    BY <1>2, <1>3, SetInduction
<1> QED
  BY <1>1, <1>4

(* SumFunctionOnSet is defined by a recursion over subsets. *)
SumsUp(f, S, g) ==
    g = [s \in SUBSET S |->
           IF s = {} THEN 0
           ELSE f[CHOOSE x \in s : TRUE] + g[s \ {CHOOSE x \in s : TRUE}]]

LEMMA SumIsChosen ==
    ASSUME NEW f, NEW S
    PROVE  SumFunctionOnSet(f, S) = (CHOOSE g : SumsUp(f, S, g))[S]
BY DEF SumFunctionOnSet, FoldFunctionOnSet, MapThenFoldSet, SumsUp

LEMMA SumExists ==
    ASSUME NEW S, IsFiniteSet(S), NEW f, \A x \in S : f[x] \in Nat
    PROVE  \E g \in [SUBSET S -> Nat] : SumsUp(f, S, g)
<1> DEFINE c(s) == CHOOSE x \in s : TRUE
           L(n) == {s \in SUBSET S : Cardinality(s) <= n}
           Upto(g, n) == /\ g \in [L(n) -> Nat]
                         /\ \A s \in L(n) :
                               g[s] = IF s = {} THEN 0 ELSE f[c(s)] + g[s \ {c(s)}]
           T == {n \in Nat : \E g : Upto(g, n)}
<1>1. \A s \in SUBSET S : IsFiniteSet(s) /\ Cardinality(s) \in Nat
  BY FS_Subset, FS_CardinalityType
<1>2. ASSUME NEW s \in SUBSET S, s # {}
      PROVE  c(s) \in s /\ Cardinality(s \ {c(s)}) = Cardinality(s) - 1 /\ s \ {c(s)} \in SUBSET S
  <2>1. c(s) \in s
    BY <1>2
  <2>2. IsFiniteSet(s)
    BY <1>1
  <2> HIDE DEF c
  <2>3. Cardinality(s \ {c(s)}) = Cardinality(s) - 1
    BY <2>1, <2>2, FS_RemoveElement
  <2> QED
    BY <2>1, <2>3
<1>3. 0 \in T
  <2> DEFINE g == [s \in L(0) |-> 0]
  <2>1. \A s \in L(0) : s = {}
    BY <1>1, FS_EmptySet
  <2>2. Upto(g, 0)
    BY <2>1
  <2> HIDE DEF g, Upto
  <2> QED
    BY <2>2
<1>4. ASSUME NEW n \in Nat, n \in T
      PROVE  n + 1 \in T
  <2>1. PICK g : Upto(g, n)
    BY <1>4
  <2> DEFINE h == [s \in L(n + 1) |->
                     IF s \in L(n) THEN g[s] ELSE f[c(s)] + g[s \ {c(s)}]]
  <2> HIDE DEF c
  <2>2. ASSUME NEW s \in L(n + 1), s # {}
        PROVE  f[c(s)] \in Nat /\ s \ {c(s)} \in L(n) /\ g[s \ {c(s)}] \in Nat
               /\ s \ {c(s)} \in L(n + 1)
    <3>1. c(s) \in S /\ Cardinality(s \ {c(s)}) <= n /\ s \ {c(s)} \in SUBSET S
      BY <1>1, <1>2, <2>2
    <3>2. Cardinality(s \ {c(s)}) \in Nat
      BY <1>1, <3>1
    <3>3. s \ {c(s)} \in L(n) /\ s \ {c(s)} \in L(n + 1)
      BY <3>1, <3>2
    <3> QED
      BY <2>1, <3>1, <3>3
  <2>3. {} \in L(n) /\ \A s \in L(n) : s \in L(n + 1)
    BY <1>1, FS_EmptySet
  <2>4. h \in [L(n + 1) -> Nat]
    <3> SUFFICES ASSUME NEW s \in L(n + 1)
                 PROVE  h[s] \in Nat
      OBVIOUS
    <3>1. CASE s \in L(n)
      BY <2>1, <3>1
    <3>2. CASE s \notin L(n)
      <4>1. s # {}
        BY <2>3, <3>2
      <4>2. f[c(s)] \in Nat /\ g[s \ {c(s)}] \in Nat
        BY <2>2, <4>1
      <4>3. h[s] = f[c(s)] + g[s \ {c(s)}]
        BY <3>2
      <4> QED
        BY <4>2, <4>3
    <3> QED
      BY <3>1, <3>2
  <2>5. ASSUME NEW s \in L(n + 1)
        PROVE  h[s] = IF s = {} THEN 0 ELSE f[c(s)] + h[s \ {c(s)}]
    <3>1. CASE s = {}
      BY <2>1, <2>3, <3>1
    <3>2. CASE s # {}
      <4>1. h[s \ {c(s)}] = g[s \ {c(s)}]
        BY <2>2, <3>2
      <4> QED
        BY <2>1, <3>2, <4>1
    <3> QED
      BY <3>1, <3>2
  <2>6. Upto(h, n + 1)
    BY <2>4, <2>5
  <2> HIDE DEF h, Upto
  <2> QED
    BY <2>6
<1>5. PICK g : Upto(g, Cardinality(S))
  <2>1. Nat \subseteq T
    <3> HIDE DEF T
    <3> QED
      BY <1>3, <1>4, SetInduction
  <2> QED
    BY <1>1, <2>1
<1>6. L(Cardinality(S)) = SUBSET S
  BY <1>1, FS_Subset
<1>7. SumsUp(f, S, g)
  <2>1. g \in [SUBSET S -> Nat]
    BY <1>5, <1>6
  <2>2. \A s \in SUBSET S : g[s] = IF s = {} THEN 0 ELSE f[c(s)] + g[s \ {c(s)}]
    BY <1>5, <1>6
  <2> QED
    BY <2>1, <2>2 DEF SumsUp
<1> QED
  BY <1>5, <1>6, <1>7

TakesOut(f, S, g) == \A s \in SUBSET S : \A x \in s : g[s] = f[x] + g[s \ {x}]

(* The order in which the elements are taken does not matter, ... *)
LEMMA SumAnyOrder ==
    ASSUME NEW S, IsFiniteSet(S), NEW f, \A x \in S : f[x] \in Nat,
           NEW g \in [SUBSET S -> Nat], SumsUp(f, S, g)
    PROVE  TakesOut(f, S, g)
<1> DEFINE c(s) == CHOOSE x \in s : TRUE
           T == {n \in Nat : \A s \in SUBSET S : Cardinality(s) = n =>
                                \A x \in s : g[s] = f[x] + g[s \ {x}]}
<1>1. \A s \in SUBSET S : IsFiniteSet(s) /\ Cardinality(s) \in Nat
  BY FS_Subset, FS_CardinalityType
<1>2. \A s \in SUBSET S : s # {} => c(s) \in s /\ g[s] = f[c(s)] + g[s \ {c(s)}]
  BY DEF SumsUp
<1> HIDE DEF c
<1>3. 0 \in T
  BY <1>1, FS_EmptySet
<1>4. ASSUME NEW n \in Nat, n \in T
      PROVE  n + 1 \in T
  <2> SUFFICES ASSUME NEW s \in SUBSET S, Cardinality(s) = n + 1, NEW x \in s
               PROVE  g[s] = f[x] + g[s \ {x}]
    OBVIOUS
  <2>1. c(s) \in s /\ g[s] = f[c(s)] + g[s \ {c(s)}]
    BY <1>2
  <2>2. CASE c(s) = x
    BY <2>1, <2>2
  <2>3. CASE c(s) # x
    <3> DEFINE y == c(s)
    <3> HIDE DEF y
    <3>1. y \in s /\ y # x /\ g[s] = f[y] + g[s \ {y}] /\ IsFiniteSet(s)
      BY <1>1, <2>1, <2>3 DEF y
    <3>2. Cardinality(s \ {y}) = n /\ Cardinality(s \ {x}) = n
      <4>1. Cardinality(s \ {y}) = Cardinality(s) - 1 /\ Cardinality(s \ {x}) = Cardinality(s) - 1
        BY <3>1, FS_RemoveElement
      <4> QED
        BY <4>1
    <3>3. g[s \ {y}] = f[x] + g[(s \ {y}) \ {x}]
      BY <1>4, <3>1, <3>2
    <3>4. g[s \ {x}] = f[y] + g[(s \ {x}) \ {y}]
      BY <1>4, <3>1, <3>2
    <3>5. (s \ {x}) \ {y} = (s \ {y}) \ {x} /\ (s \ {x}) \ {y} \in SUBSET S
      OBVIOUS
    <3>6. f[x] \in Nat /\ f[y] \in Nat /\ g[(s \ {x}) \ {y}] \in Nat
      BY <3>1, <3>5
    <3>7. \A a, b, d \in Nat : a + (b + d) = b + (a + d)
      OBVIOUS
    <3>8. f[y] + (f[x] + g[(s \ {x}) \ {y}]) = f[x] + (f[y] + g[(s \ {x}) \ {y}])
      BY <3>6, <3>7, Zenon
    <3>9. g[s] = f[y] + (f[x] + g[(s \ {x}) \ {y}])
      BY <3>1, <3>3, <3>5, Zenon
    <3> QED
      BY <3>4, <3>8, <3>9, Zenon
  <2> QED
    BY <2>2, <2>3
<1>5. Nat \subseteq T
  <2> HIDE DEF T
  <2> QED
    BY <1>3, <1>4, SetInduction
<1> QED
  BY <1>1, <1>5 DEF TakesOut

IsSum(f, S, g) == /\ IsFiniteSet(S) /\ \A x \in S : f[x] \in Nat
                  /\ g \in [SUBSET S -> Nat] /\ SumsUp(f, S, g)

(* ... and the sum depends on the values only. *)
LEMMA SumSame ==
    ASSUME NEW S, NEW f, NEW g, IsSum(f, S, g), NEW Q, NEW k, NEW h, IsSum(k, Q, h),
           Q \subseteq S, \A x \in Q : k[x] = f[x]
    PROVE  h[Q] = g[Q]
<1> USE DEF IsSum
<1> DEFINE T == {s \in SUBSET Q : h[s] = g[s]}
<1>1. IsFiniteSet(Q) /\ \A x \in Q : k[x] \in Nat
  BY FS_Subset
<1>a. TakesOut(k, Q, h) /\ TakesOut(f, S, g)
  BY <1>1, SumAnyOrder
<1>2. {} \in T
  BY DEF SumsUp
<1>3. ASSUME NEW s \in SUBSET Q, NEW x \in Q \ s, s \in T
      PROVE  s \cup {x} \in T
  <2>1. s \cup {x} \in SUBSET Q /\ s \cup {x} \in SUBSET S /\ (s \cup {x}) \ {x} = s
    BY <1>3
  <2>2. h[s \cup {x}] = k[x] + h[(s \cup {x}) \ {x}]
    BY <1>a, <2>1 DEF TakesOut
  <2>3. g[s \cup {x}] = f[x] + g[(s \cup {x}) \ {x}]
    BY <1>a, <2>1 DEF TakesOut
  <2> QED
    BY <1>3, <2>1, <2>2, <2>3
<1>4. SUBSET Q \subseteq T
  <2> HIDE DEF T
  <2> QED
    BY <1>1, <1>2, <1>3, FiniteInduction
<1> QED
  BY <1>4

(* What the definition chooses is such a function. *)
LEMMA SumTyped ==
    ASSUME NEW S, IsFiniteSet(S), NEW f, \A x \in S : f[x] \in Nat,
           NEW g, SumsUp(f, S, g)
    PROVE  g \in [SUBSET S -> Nat]
<1> DEFINE c(s) == CHOOSE x \in s : TRUE
           T == {n \in Nat : \A s \in SUBSET S : Cardinality(s) = n => g[s] \in Nat}
<1>1. \A s \in SUBSET S : IsFiniteSet(s) /\ Cardinality(s) \in Nat
  BY FS_Subset, FS_CardinalityType
<1>2. \A s \in SUBSET S : s # {} => c(s) \in s /\ g[s] = f[c(s)] + g[s \ {c(s)}]
  BY DEF SumsUp
<1>3. g[{}] = 0 /\ g = [s \in SUBSET S |-> g[s]]
  BY DEF SumsUp
<1> HIDE DEF c
<1>4. 0 \in T
  BY <1>1, <1>3, FS_EmptySet
<1>5. ASSUME NEW n \in Nat, n \in T
      PROVE  n + 1 \in T
  <2> SUFFICES ASSUME NEW s \in SUBSET S, Cardinality(s) = n + 1
               PROVE  g[s] \in Nat
    OBVIOUS
  <2>1. s # {}
    BY FS_EmptySet
  <2>2. c(s) \in s /\ g[s] = f[c(s)] + g[s \ {c(s)}]
    BY <1>2, <2>1
  <2>3. Cardinality(s \ {c(s)}) = n
    <3>1. Cardinality(s \ {c(s)}) = Cardinality(s) - 1
      BY <1>1, <2>2, FS_RemoveElement
    <3> QED
      BY <3>1
  <2>4. g[s \ {c(s)}] \in Nat /\ f[c(s)] \in Nat
    BY <1>5, <2>2, <2>3
  <2> QED
    BY <2>2, <2>4
<1>6. Nat \subseteq T
  <2> HIDE DEF T
  <2> QED
    BY <1>4, <1>5, SetInduction
<1>7. \A s \in SUBSET S : g[s] \in Nat
  BY <1>1, <1>6
<1> QED
  BY <1>3, <1>7

LEMMA SumChosen ==
    ASSUME NEW S, IsFiniteSet(S), NEW f, \A x \in S : f[x] \in Nat
    PROVE  \E g \in [SUBSET S -> Nat] : SumsUp(f, S, g) /\ SumFunctionOnSet(f, S) = g[S]
<1> DEFINE h == CHOOSE g : SumsUp(f, S, g)
<1>1. SumsUp(f, S, h)
  BY SumExists
<1> HIDE DEF h
<1>2. h \in [SUBSET S -> Nat]
  BY <1>1, SumTyped
<1>3. SumFunctionOnSet(f, S) = h[S]
  BY SumIsChosen DEF h
<1> QED
  BY <1>1, <1>2, <1>3

(* The sums of the module Functions: of nothing, of numbers, of values     *)
(* that agree, and of one element and the rest.                            *)
LEMMA SumOfNothing ==
    ASSUME NEW f
    PROVE  SumFunctionOnSet(f, {}) = 0
<1>1. PICK g \in [SUBSET {} -> Nat] : SumsUp(f, {}, g) /\ SumFunctionOnSet(f, {}) = g[{}]
  BY SumChosen, FS_EmptySet
<1> QED
  BY <1>1 DEF SumsUp

LEMMA SumIsNat ==
    ASSUME NEW S, IsFiniteSet(S), NEW f, \A x \in S : f[x] \in Nat
    PROVE  SumFunctionOnSet(f, S) \in Nat
<1>1. PICK g \in [SUBSET S -> Nat] : SumFunctionOnSet(f, S) = g[S]
  BY SumChosen
<1> QED
  BY <1>1

LEMMA SumAgrees ==
    ASSUME NEW S, IsFiniteSet(S), NEW f, \A x \in S : f[x] \in Nat,
           NEW k, \A x \in S : k[x] = f[x]
    PROVE  SumFunctionOnSet(k, S) = SumFunctionOnSet(f, S)
<1>1. \A x \in S : k[x] \in Nat
  OBVIOUS
<1>2. PICK g \in [SUBSET S -> Nat] : SumsUp(f, S, g) /\ SumFunctionOnSet(f, S) = g[S]
  BY SumChosen
<1>3. PICK h \in [SUBSET S -> Nat] : SumsUp(k, S, h) /\ SumFunctionOnSet(k, S) = h[S]
  BY <1>1, SumChosen
<1>4. IsSum(f, S, g) /\ IsSum(k, S, h) /\ S \subseteq S
  BY <1>1, <1>2, <1>3 DEF IsSum
<1>5. h[S] = g[S]
  BY <1>4, SumSame
<1> QED
  BY <1>2, <1>3, <1>5

LEMMA SumTakesOut ==
    ASSUME NEW S, IsFiniteSet(S), NEW f, \A y \in S : f[y] \in Nat, NEW x \in S
    PROVE  SumFunctionOnSet(f, S) = f[x] + SumFunctionOnSet(f, S \ {x})
<1>1. PICK g \in [SUBSET S -> Nat] : SumsUp(f, S, g) /\ SumFunctionOnSet(f, S) = g[S]
  BY SumChosen
<1> DEFINE Q == S \ {x}
<1>2. IsFiniteSet(Q) /\ Q \subseteq S /\ \A y \in Q : f[y] \in Nat /\ f[y] = f[y]
  BY FS_Subset
<1> HIDE DEF Q
<1>3. PICK h \in [SUBSET Q -> Nat] : SumsUp(f, Q, h) /\ SumFunctionOnSet(f, Q) = h[Q]
  BY <1>2, SumChosen
<1>4. TakesOut(f, S, g)
  BY <1>1, SumAnyOrder
<1>5. h[Q] = g[Q]
  <2>1. IsSum(f, S, g) /\ IsSum(f, Q, h)
    BY <1>1, <1>2, <1>3 DEF IsSum
  <2> QED
    BY <1>2, <2>1, SumSame
<1>6. g[S] = f[x] + g[Q]
  BY <1>4 DEF TakesOut, Q
<1> QED
  BY <1>1, <1>3, <1>5, <1>6 DEF Q

LEMMA SumAdds ==
    ASSUME NEW S, IsFiniteSet(S), NEW f, \A y \in S : f[y] \in Nat, NEW x, x \notin S,
           f[x] \in Nat
    PROVE  SumFunctionOnSet(f, S \cup {x}) = f[x] + SumFunctionOnSet(f, S)
<1>1. IsFiniteSet(S \cup {x}) /\ x \in S \cup {x} /\ \A y \in S \cup {x} : f[y] \in Nat
  BY FS_AddElement
<1>2. SumFunctionOnSet(f, S \cup {x}) = f[x] + SumFunctionOnSet(f, (S \cup {x}) \ {x})
  BY <1>1, SumTakesOut
<1>3. (S \cup {x}) \ {x} = S
  OBVIOUS
<1> QED
  BY <1>2, <1>3

(* Sums of the same elements add up. *)
LEMMA SumAddsUp ==
    ASSUME NEW S, IsFiniteSet(S), NEW f, NEW g, NEW h,
           \A x \in S : f[x] \in Nat /\ g[x] \in Nat /\ h[x] = f[x] + g[x]
    PROVE  SumFunctionOnSet(h, S) = SumFunctionOnSet(f, S) + SumFunctionOnSet(g, S)
<1> DEFINE Adds(s) == SumFunctionOnSet(h, s) = SumFunctionOnSet(f, s) + SumFunctionOnSet(g, s)
           T == {s \in SUBSET S : Adds(s)}
<1>1. {} \in T
  <2>1. Adds({})
    <3>1. SumFunctionOnSet(h, {}) = 0 /\ SumFunctionOnSet(f, {}) = 0 /\ SumFunctionOnSet(g, {}) = 0
      BY SumOfNothing
    <3> QED
      BY <3>1
  <2> HIDE DEF Adds
  <2> QED
    BY <2>1
<1>2. \A s \in SUBSET S : \A x \in S \ s : s \in T => s \cup {x} \in T
  <2> SUFFICES ASSUME NEW s \in SUBSET S, NEW x \in S \ s, Adds(s)
               PROVE  Adds(s \cup {x})
    OBVIOUS
  <2>1. IsFiniteSet(s)
    BY FS_Subset
  <2>2. \A y \in s : f[y] \in Nat /\ g[y] \in Nat /\ h[y] \in Nat
    OBVIOUS
  <2>3. f[x] \in Nat /\ g[x] \in Nat /\ h[x] = f[x] + g[x] /\ h[x] \in Nat /\ x \notin s
    OBVIOUS
  <2>4. SumFunctionOnSet(f, s \cup {x}) = f[x] + SumFunctionOnSet(f, s)
    BY <2>1, <2>2, <2>3, SumAdds
  <2>5. SumFunctionOnSet(g, s \cup {x}) = g[x] + SumFunctionOnSet(g, s)
    BY <2>1, <2>2, <2>3, SumAdds
  <2>6. SumFunctionOnSet(h, s \cup {x}) = h[x] + SumFunctionOnSet(h, s)
    BY <2>1, <2>2, <2>3, SumAdds
  <2>7. SumFunctionOnSet(f, s) \in Nat /\ SumFunctionOnSet(g, s) \in Nat
    BY <2>1, <2>2, SumIsNat
  <2> QED
    BY <2>3, <2>4, <2>5, <2>6, <2>7
<1>3. SUBSET S \subseteq T
  <2> HIDE DEF T
  <2> QED
    BY <1>1, <1>2, FiniteInduction
<1>4. S \in T
  <2> HIDE DEF T
  <2> QED
    BY <1>3
<1> QED
  BY <1>4

(* No element is more than the sum. *)
LEMMA SumAtLeast ==
    ASSUME NEW S, IsFiniteSet(S), NEW f, \A y \in S : f[y] \in Nat, NEW x \in S
    PROVE  f[x] <= SumFunctionOnSet(f, S)
<1>1. SumFunctionOnSet(f, S) = f[x] + SumFunctionOnSet(f, S \ {x})
  BY SumTakesOut
<1>2. IsFiniteSet(S \ {x}) /\ \A y \in S \ {x} : f[y] \in Nat
  BY FS_Subset
<1>3. SumFunctionOnSet(f, S \ {x}) \in Nat
  BY <1>2, SumIsNat
<1> QED
  BY <1>1, <1>3

(* Sums over intervals, ... *)
LEMMA SumToNext ==
    ASSUME NEW a \in Int, NEW b \in Int, a <= b + 1, NEW f, \A i \in a .. (b + 1) : f[i] \in Nat
    PROVE  SumFunctionOnSet(f, a .. (b + 1)) = f[b + 1] + SumFunctionOnSet(f, a .. b)
<1> DEFINE S == a .. b
           x == b + 1
<1>1. IsFiniteSet(S) /\ x \notin S /\ a .. (b + 1) = S \cup {x} /\ x \in a .. (b + 1)
      /\ \A i \in S : i \in a .. (b + 1)
  BY FS_Interval
<1>2. (\A i \in S : f[i] \in Nat) /\ f[x] \in Nat
  BY <1>1
<1> HIDE DEF S, x
<1>3. SumFunctionOnSet(f, S \cup {x}) = f[x] + SumFunctionOnSet(f, S)
  BY <1>1, <1>2, SumAdds
<1> QED
  BY <1>1, <1>3 DEF S, x

LEMMA SumSplits ==
    ASSUME NEW a \in Int, NEW b \in Int, NEW e \in Int, a <= b + 1, b <= e, NEW f,
           \A i \in a .. e : f[i] \in Nat
    PROVE  SumFunctionOnSet(f, a .. e)
             = SumFunctionOnSet(f, a .. b) + SumFunctionOnSet(f, (b + 1) .. e)
<1> DEFINE n == e - b
<1>0. n \in Nat /\ b + n = e
  OBVIOUS
<1> HIDE DEF n
<1> USE <1>0
<1> DEFINE T == {m \in 0 .. n : SumFunctionOnSet(f, a .. (b + m))
                   = SumFunctionOnSet(f, a .. b) + SumFunctionOnSet(f, (b + 1) .. (b + m))}
<1>1. SumFunctionOnSet(f, a .. b) \in Nat
  <2>1. IsFiniteSet(a .. b) /\ \A i \in a .. b : f[i] \in Nat
    BY FS_Interval
  <2> QED
    BY <2>1, SumIsNat
<1>2. 0 \in T
  <2>1. (b + 1) .. (b + 0) = {} /\ a .. (b + 0) = a .. b
    OBVIOUS
  <2> QED
    BY <1>1, <2>1, SumOfNothing
<1>3. ASSUME NEW m \in 0 .. (n - 1), m \in T
      PROVE  m + 1 \in T
  <2> DEFINE c == b + m
             A == SumFunctionOnSet(f, a .. c)
             B == SumFunctionOnSet(f, (b + 1) .. c)
  <2>1. c \in Int /\ a <= c + 1 /\ b + 1 <= c + 1 /\ b + (m + 1) = c + 1
        /\ (\A i \in a .. (c + 1) : f[i] \in Nat)
        /\ (\A i \in (b + 1) .. (c + 1) : f[i] \in Nat) /\ f[c + 1] \in Nat
    OBVIOUS
  <2>2. A = SumFunctionOnSet(f, a .. b) + B
    BY <1>3
  <2>3. B \in Nat
    <3>1. IsFiniteSet((b + 1) .. c) /\ \A i \in (b + 1) .. c : f[i] \in Nat
      BY <2>1, FS_Interval
    <3> QED
      BY <3>1, SumIsNat
  <2> HIDE DEF c, A, B
  <2>4. SumFunctionOnSet(f, a .. (c + 1)) = f[c + 1] + A
    BY <2>1, SumToNext DEF A
  <2>5. SumFunctionOnSet(f, (b + 1) .. (c + 1)) = f[c + 1] + B
    <3>1. b + 1 \in Int
      OBVIOUS
    <3> QED
      BY <2>1, <3>1, SumToNext DEF B
  <2>6. SumFunctionOnSet(f, a .. (c + 1))
          = SumFunctionOnSet(f, a .. b) + SumFunctionOnSet(f, (b + 1) .. (c + 1))
    <3> DEFINE u == SumFunctionOnSet(f, a .. b)
               v == f[c + 1]
               w == SumFunctionOnSet(f, a .. (c + 1))
               z == SumFunctionOnSet(f, (b + 1) .. (c + 1))
    <3>1. u \in Nat /\ v \in Nat /\ w = v + A /\ z = v + B /\ A = u + B
      BY <1>1, <2>1, <2>2, <2>4, <2>5
    <3> HIDE DEF u, v, w, z
    <3>2. w = u + z
      BY <2>3, <3>1
    <3> QED
      BY <3>2 DEF u, w, z
  <2>7. m + 1 \in 0 .. n
    OBVIOUS
  <2> QED
    BY <2>1, <2>6, <2>7
<1>4. 0 .. n \subseteq T
  <2> HIDE DEF T
  <2> QED
    BY <1>2, <1>3, IntervalInduction
<1>5. n \in T
  BY <1>4
<1> QED
  BY <1>5

LEMMA SumShifts ==
    ASSUME NEW a \in Int, NEW n \in Nat, NEW f, NEW h,
           \A i \in 1 .. n : f[i] \in Nat /\ h[a + i] = f[i]
    PROVE  SumFunctionOnSet(h, (a + 1) .. (a + n)) = SumFunctionOnSet(f, 1 .. n)
<1> DEFINE T == {m \in 0 .. n : SumFunctionOnSet(h, (a + 1) .. (a + m))
                                  = SumFunctionOnSet(f, 1 .. m)}
<1>1. 0 \in T
  <2>1. (a + 1) .. (a + 0) = {} /\ 1 .. 0 = {}
    OBVIOUS
  <2> QED
    BY <2>1, SumOfNothing
<1>2. ASSUME NEW m \in 0 .. (n - 1), m \in T
      PROVE  m + 1 \in T
  <2> DEFINE c == a + m
  <2>1. c \in Int /\ a + 1 \in Int /\ a + 1 <= c + 1 /\ a + (m + 1) = c + 1 /\ 1 \in Int /\ m \in Int
        /\ 1 <= m + 1 /\ m + 1 \in 1 .. n /\ m + 1 \in 0 .. n
    OBVIOUS
  <2>2. \A i \in (a + 1) .. (c + 1) : h[i] \in Nat
    <3> SUFFICES ASSUME NEW i \in (a + 1) .. (c + 1)
                 PROVE  h[i] \in Nat
      OBVIOUS
    <3>1. i - a \in 1 .. n /\ a + (i - a) = i
      OBVIOUS
    <3> QED
      BY <3>1
  <2>3. \A i \in 1 .. (m + 1) : f[i] \in Nat
    BY <2>1
  <2>4. SumFunctionOnSet(f, 1 .. (m + 1)) = f[m + 1] + SumFunctionOnSet(f, 1 .. m)
    BY <2>1, <2>3, SumToNext
  <2>5. h[c + 1] = f[m + 1]
    BY <2>1
  <2>6. SumFunctionOnSet(h, (a + 1) .. c) = SumFunctionOnSet(f, 1 .. m)
    BY <1>2
  <2> HIDE DEF c
  <2>7. SumFunctionOnSet(h, (a + 1) .. (c + 1)) = h[c + 1] + SumFunctionOnSet(h, (a + 1) .. c)
    BY <2>1, <2>2, SumToNext
  <2> QED
    BY <2>1, <2>4, <2>5, <2>6, <2>7
<1>3. 0 .. n \subseteq T
  <2> HIDE DEF T
  <2> QED
    BY <1>1, <1>2, IntervalInduction
<1> QED
  BY <1>3

(* ... and of sequences of numbers. *)
LEMMA SeqSum ==
    ASSUME NEW s \in Seq(Nat)
    PROVE  /\ SumFunction(s) = SumFunctionOnSet(s, 1 .. Len(s))
           /\ SumFunction(s) \in Nat
<1>0. Len(s) \in Int /\ 1 \in Int /\ DOMAIN s = 1 .. Len(s) /\ \A i \in 1 .. Len(s) : s[i] \in Nat
  OBVIOUS
<1>1. IsFiniteSet(1 .. Len(s)) /\ DOMAIN s = 1 .. Len(s) /\ \A i \in 1 .. Len(s) : s[i] \in Nat
  BY <1>0, FS_Interval, Zenon
<1>2. SumFunction(s) = SumFunctionOnSet(s, 1 .. Len(s))
  BY <1>1 DEF SumFunction
<1>3. SumFunctionOnSet(s, 1 .. Len(s)) \in Nat
  BY <1>1, SumIsNat
<1> QED
  BY <1>2, <1>3

LEMMA SeqSumEmpty == SumFunction(<<>>) = 0
<1>1. DOMAIN <<>> = {}
  OBVIOUS
<1> QED
  BY <1>1, SumOfNothing DEF SumFunction

LEMMA SeqSumAppend ==
    ASSUME NEW s \in Seq(Nat), NEW x \in Nat
    PROVE  SumFunction(Append(s, x)) = SumFunction(s) + x
<1> DEFINE t == Append(s, x)
           n == Len(s)
<1>1. t \in Seq(Nat) /\ Len(t) = n + 1 /\ n \in Nat /\ t[n + 1] = x
      /\ (\A i \in 1 .. n : t[i] = s[i] /\ s[i] \in Nat) /\ \A i \in 1 .. (n + 1) : t[i] \in Nat
  OBVIOUS
<1> HIDE DEF t
<1>2. SumFunction(t) = SumFunctionOnSet(t, 1 .. (n + 1))
  BY <1>1, SeqSum
<1>3. SumFunction(s) = SumFunctionOnSet(s, 1 .. n) /\ SumFunction(s) \in Nat
  BY SeqSum
<1> HIDE DEF n
<1>4. SumFunctionOnSet(t, 1 .. (n + 1)) = t[n + 1] + SumFunctionOnSet(t, 1 .. n)
  <2>1. 1 \in Int /\ n \in Int /\ 1 <= n + 1
    BY <1>1
  <2> QED
    BY <1>1, <2>1, SumToNext
<1>5. SumFunctionOnSet(t, 1 .. n) = SumFunctionOnSet(s, 1 .. n)
  <2>0. n \in Int /\ 1 \in Int
    BY <1>1
  <2>1. IsFiniteSet(1 .. n) /\ (\A i \in 1 .. n : s[i] \in Nat) /\ \A i \in 1 .. n : t[i] = s[i]
    BY <1>1, <2>0, FS_Interval, Zenon
  <2> QED
    BY <2>1, SumAgrees
<1>6. SumFunction(t) = x + SumFunction(s)
  BY <1>1, <1>2, <1>3, <1>4, <1>5
<1>7. SumFunction(t) = SumFunction(s) + x
  BY <1>3, <1>6
<1> QED
  BY <1>7 DEF t

(* A piece of a sequence sums up over its place in the sequence. *)
LEMMA SeqSumPiece ==
    ASSUME NEW s \in Seq(Nat), NEW a \in 1 .. (Len(s) + 1), NEW b \in (a - 1) .. Len(s)
    PROVE  /\ SubSeq(s, a, b) \in Seq(Nat)
           /\ SumFunction(SubSeq(s, a, b)) = SumFunctionOnSet(s, a .. b)
<1> DEFINE t == SubSeq(s, a, b)
           n == b - (a - 1)
           d == a - 1
<1>1. t \in Seq(Nat) /\ Len(t) = n /\ n \in Nat /\ d \in Int
      /\ \A i \in 1 .. n : t[i] = s[i + a - 1] /\ t[i] \in Nat
  OBVIOUS
<1>2. (d + 1) .. (d + n) = a .. b /\ \A i \in 1 .. n : d + i = i + a - 1
  OBVIOUS
<1> HIDE DEF t, n, d
<1>3. \A i \in 1 .. n : t[i] \in Nat /\ s[d + i] = t[i]
  BY <1>1, <1>2
<1>4. SumFunctionOnSet(s, (d + 1) .. (d + n)) = SumFunctionOnSet(t, 1 .. n)
  BY <1>1, <1>3, SumShifts
<1>5. SumFunction(t) = SumFunctionOnSet(t, 1 .. n)
  BY <1>1, SeqSum
<1> QED
  BY <1>1, <1>2, <1>4, <1>5 DEF t

LEMMA SeqSumSplits ==
    ASSUME NEW s \in Seq(Nat), NEW k \in 0 .. Len(s)
    PROVE  SumFunction(s) = SumFunction(SubSeq(s, 1, k)) + SumFunction(SubSeq(s, k + 1, Len(s)))
<1>1. 1 \in Int /\ k \in Int /\ Len(s) \in Int /\ 1 <= k + 1 /\ k <= Len(s)
      /\ \A i \in 1 .. Len(s) : s[i] \in Nat
  OBVIOUS
<1>2. SumFunctionOnSet(s, 1 .. Len(s))
        = SumFunctionOnSet(s, 1 .. k) + SumFunctionOnSet(s, (k + 1) .. Len(s))
  BY <1>1, SumSplits
<1>3. SumFunction(SubSeq(s, 1, k)) = SumFunctionOnSet(s, 1 .. k)
  <2>1. 1 \in 1 .. (Len(s) + 1) /\ k \in (1 - 1) .. Len(s)
    OBVIOUS
  <2> QED
    BY <2>1, SeqSumPiece
<1>4. SumFunction(SubSeq(s, k + 1, Len(s))) = SumFunctionOnSet(s, (k + 1) .. Len(s))
  <2>1. k + 1 \in 1 .. (Len(s) + 1) /\ Len(s) \in ((k + 1) - 1) .. Len(s)
    OBVIOUS
  <2> QED
    BY <2>1, SeqSumPiece
<1>5. SumFunction(s) = SumFunctionOnSet(s, 1 .. Len(s))
  BY SeqSum
<1> QED
  BY <1>1, <1>2, <1>3, <1>4, <1>5

(* Prefixes of positive numbers have different sums. *)
LEMMA SeqSumGrows ==
    ASSUME NEW s \in Seq(Nat), \A i \in 1 .. Len(s) : s[i] > 0,
           NEW k \in 0 .. Len(s), NEW j \in 0 .. (k - 1)
    PROVE  SumFunction(SubSeq(s, 1, j)) < SumFunction(SubSeq(s, 1, k))
<1> DEFINE T == {m \in 0 .. (k - (j + 1)) : SumFunctionOnSet(s, 1 .. j)
                                              < SumFunctionOnSet(s, 1 .. (j + 1 + m))}
<1>1. \A m \in 0 .. Len(s) : /\ SumFunction(SubSeq(s, 1, m)) = SumFunctionOnSet(s, 1 .. m)
                             /\ SumFunctionOnSet(s, 1 .. m) \in Nat
  <2> SUFFICES ASSUME NEW m \in 0 .. Len(s)
               PROVE  /\ SumFunction(SubSeq(s, 1, m)) = SumFunctionOnSet(s, 1 .. m)
                      /\ SumFunctionOnSet(s, 1 .. m) \in Nat
    OBVIOUS
  <2>1. 1 \in 1 .. (Len(s) + 1) /\ m \in (1 - 1) .. Len(s)
    OBVIOUS
  <2>2. SubSeq(s, 1, m) \in Seq(Nat)
        /\ SumFunction(SubSeq(s, 1, m)) = SumFunctionOnSet(s, 1 .. m)
    BY <2>1, SeqSumPiece
  <2> QED
    BY <2>2, SeqSum
<1>2. ASSUME NEW m \in 0 .. (Len(s) - 1)
      PROVE  SumFunctionOnSet(s, 1 .. m) < SumFunctionOnSet(s, 1 .. (m + 1))
  <2>1. 1 \in Int /\ m \in Int /\ 1 <= m + 1 /\ (\A i \in 1 .. (m + 1) : s[i] \in Nat)
        /\ s[m + 1] > 0 /\ m \in 0 .. Len(s) /\ s[m + 1] \in Nat
    OBVIOUS
  <2>2. SumFunctionOnSet(s, 1 .. (m + 1)) = s[m + 1] + SumFunctionOnSet(s, 1 .. m)
    BY <2>1, SumToNext
  <2>3. SumFunctionOnSet(s, 1 .. m) \in Nat
    BY <1>1, <2>1
  <2> QED
    BY <2>1, <2>2, <2>3
<1>3. 0 \in T
  <2>1. j \in 0 .. (Len(s) - 1) /\ j + 1 + 0 = j + 1 /\ 0 \in 0 .. (k - (j + 1))
    OBVIOUS
  <2> QED
    BY <1>2, <2>1
<1>4. ASSUME NEW m \in 0 .. (k - (j + 1) - 1), m \in T
      PROVE  m + 1 \in T
  <2> DEFINE c == j + 1 + m
  <2>1. c \in 0 .. (Len(s) - 1) /\ c \in 0 .. Len(s) /\ c + 1 \in 0 .. Len(s) /\ j \in 0 .. Len(s)
        /\ j + 1 + (m + 1) = c + 1 /\ m + 1 \in 0 .. (k - (j + 1))
    OBVIOUS
  <2>2. SumFunctionOnSet(s, 1 .. j) < SumFunctionOnSet(s, 1 .. c)
    BY <1>4
  <2> HIDE DEF c
  <2>3. SumFunctionOnSet(s, 1 .. c) < SumFunctionOnSet(s, 1 .. (c + 1))
    BY <1>2, <2>1
  <2>4. SumFunctionOnSet(s, 1 .. j) < SumFunctionOnSet(s, 1 .. (c + 1))
    BY <1>1, <2>1, <2>2, <2>3
  <2> QED
    BY <2>1, <2>4
<1>5. 0 .. (k - (j + 1)) \subseteq T
  <2>1. k - (j + 1) \in Nat
    OBVIOUS
  <2> HIDE DEF T
  <2> QED
    BY <1>3, <1>4, <2>1, IntervalInduction
<1>6. k - (j + 1) \in 0 .. (k - (j + 1)) /\ j + 1 + (k - (j + 1)) = k /\ j \in 0 .. Len(s) /\ k \in 0 .. Len(s)
  OBVIOUS
<1>7. SumFunctionOnSet(s, 1 .. j) < SumFunctionOnSet(s, 1 .. (j + 1 + (k - (j + 1))))
  BY <1>5, <1>6
<1> QED
  BY <1>1, <1>6, <1>7

(* A sequence without its first k elements. *)
LEMMA SeqRest ==
    ASSUME NEW S, NEW q \in Seq(S), NEW k \in 0 .. Len(q)
    PROVE  /\ SubSeq(q, k + 1, Len(q)) \in Seq(S)
           /\ Len(SubSeq(q, k + 1, Len(q))) = Len(q) - k
           /\ \A i \in 1 .. (Len(q) - k) : i + k \in 1 .. Len(q)
                                           /\ SubSeq(q, k + 1, Len(q))[i] = q[i + k]
<1>1. SubSeq(q, k + 1, Len(q)) \in Seq(S) /\ Len(SubSeq(q, k + 1, Len(q))) = Len(q) - k
  OBVIOUS
<1>2. ASSUME NEW i \in 1 .. (Len(q) - k)
      PROVE  i + k \in 1 .. Len(q) /\ SubSeq(q, k + 1, Len(q))[i] = q[i + k]
  <2>1. i + k \in 1 .. Len(q) /\ i + (k + 1) - 1 = i + k
    OBVIOUS
  <2>2. SubSeq(q, k + 1, Len(q))[i] = q[i + (k + 1) - 1]
    OBVIOUS
  <2> QED
    BY <2>1, <2>2
<1> QED
  BY <1>1, <1>2

(* ... and with another one in the end. *)
ElementsFrom(p, x, q) ==
    \A i \in 1 .. Len(p) : p[i] = x \/ \E m \in 1 .. Len(q) : p[i] = q[m]

LEMMA SeqRestAppend ==
    ASSUME NEW S, NEW q \in Seq(S), NEW k \in 0 .. Len(q), NEW x \in S
    PROVE  ElementsFrom(Append(SubSeq(q, k + 1, Len(q)), x), x, q)
<1>0. PICK z : z = SubSeq(q, k + 1, Len(q))
  OBVIOUS
<1>1. /\ z \in Seq(S) /\ z = SubSeq(q, k + 1, Len(q)) /\ Len(z) = Len(q) - k
      /\ \A i \in 1 .. (Len(q) - k) : i + k \in 1 .. Len(q) /\ z[i] = q[i + k]
  BY <1>0, SeqRest, Zenon
<1> SUFFICES ASSUME NEW i \in 1 .. Len(Append(z, x))
             PROVE  Append(z, x)[i] = x \/ \E m \in 1 .. Len(q) : Append(z, x)[i] = q[m]
  BY <1>1 DEF ElementsFrom
<1>2. \/ Append(z, x)[i] = x
      \/ i \in 1 .. Len(z) /\ Append(z, x)[i] = z[i]
  <2>0. z \in Seq(S)
    BY <1>1
  <2>1. Append(z, x) \in Seq(S) /\ Len(Append(z, x)) = Len(z) + 1 /\ Len(z) \in Nat
    BY <2>0
  <2>2. CASE i = Len(z) + 1
    BY <2>0, <2>2
  <2>3. CASE i # Len(z) + 1
    <3>1. i \in 1 .. Len(z)
      BY <2>1, <2>3
    <3> QED
      BY <2>0, <3>1
  <2> QED
    BY <2>2, <2>3
<1> QED
  BY <1>1, <1>2

LEMMA SeqRestOfRest ==
    ASSUME NEW S, NEW q \in Seq(S), NEW k \in 0 .. Len(q), NEW z, z = SubSeq(q, k + 1, Len(q)),
           NEW i \in 1 .. Len(q), i > k
    PROVE  SubSeq(z, i - k, Len(z)) = SubSeq(q, i, Len(q))
<1>1. /\ z \in Seq(S) /\ Len(z) = Len(q) - k
      /\ \A j \in 1 .. (Len(q) - k) : j + k \in 1 .. Len(q) /\ z[j] = q[j + k]
  BY SeqRest, Zenon
<1>2. i - k \in 1 .. Len(z) /\ Len(z) - (i - k) + 1 = Len(q) - i + 1 /\ Len(z) \in Nat
  BY <1>1
<1>3. SubSeq(q, i, Len(q)) = [j \in 1 .. (Len(q) - i + 1) |-> q[j + i - 1]]
  OBVIOUS
<1>4. SubSeq(z, i - k, Len(z)) = [j \in 1 .. (Len(z) - (i - k) + 1) |-> z[j + (i - k) - 1]]
  BY <1>1, <1>2
<1>5. \A j \in 1 .. (Len(q) - i + 1) : z[j + (i - k) - 1] = q[j + i - 1]
  <2> SUFFICES ASSUME NEW j \in 1 .. (Len(q) - i + 1)
               PROVE  z[j + (i - k) - 1] = q[j + i - 1]
    OBVIOUS
  <2> DEFINE m == j + (i - k) - 1
  <2>1. m \in 1 .. (Len(q) - k) /\ m + k = j + i - 1
    OBVIOUS
  <2> HIDE DEF m
  <2>2. z[m] = q[m + k]
    BY <1>1, <2>1
  <2> QED
    BY <2>1, <2>2 DEF m
<1> QED
  BY <1>2, <1>3, <1>4, <1>5

(* An element that leaves when a shorter rest is kept was in the part that *)
(* was dropped.                                                            *)
Drops(es, k, ls, i, e, j, new) ==
    /\ k \in 0 .. Len(es) /\ ls = SubSeq(es, k + 1, Len(es)) /\ i \in 1 .. Len(es) /\ i > k
    /\ j \in 0 .. Len(ls) /\ new = Append(SubSeq(ls, j + 1, Len(ls)), e)
    /\ \A m \in 1 .. Len(new) : new[m] # es[i]

Dropped(es, k, ls, i, j) ==
    i - k \in 1 .. j /\ SubSeq(ls, i - k, Len(ls)) = SubSeq(es, i, Len(es))

LEMMA SeqRestDrops ==
    ASSUME NEW S, NEW es \in Seq(S), NEW e \in S, NEW k, NEW ls, NEW i, NEW j, NEW new,
           Drops(es, k, ls, i, e, j, new)
    PROVE  Dropped(es, k, ls, i, j)
<1>0. /\ k \in 0 .. Len(es) /\ ls = SubSeq(es, k + 1, Len(es)) /\ i \in 1 .. Len(es) /\ i > k
      /\ j \in 0 .. Len(ls) /\ new = Append(SubSeq(ls, j + 1, Len(ls)), e)
      /\ \A m \in 1 .. Len(new) : new[m] # es[i]
  BY DEF Drops
<1> USE <1>0
<1>1. /\ ls \in Seq(S) /\ Len(ls) = Len(es) - k
      /\ \A m \in 1 .. (Len(es) - k) : m + k \in 1 .. Len(es) /\ ls[m] = es[m + k]
  BY SeqRest, Zenon
<1>2. PICK rest : rest = SubSeq(ls, j + 1, Len(ls))
  OBVIOUS
<1>3. /\ rest \in Seq(S) /\ Len(rest) = Len(ls) - j
      /\ \A m \in 1 .. (Len(ls) - j) : m + j \in 1 .. Len(ls) /\ rest[m] = ls[m + j]
  BY <1>1, <1>2, SeqRest, Zenon
<1>4. i - k <= j
  <2> SUFFICES ASSUME ~(i - k <= j)
               PROVE  FALSE
    OBVIOUS
  <2>1. PICK m \in Int : m = (i - k) - j
    BY <1>1
  <2>2. m \in 1 .. (Len(ls) - j) /\ m + j = i - k /\ i - k \in 1 .. (Len(es) - k) /\ (i - k) + k = i
    BY <1>1, <2>1
  <2>3. rest[m] = es[i]
    <3>1. rest[m] = ls[m + j]
      BY <1>3, <2>2
    <3>2. ls[i - k] = es[(i - k) + k]
      BY <1>1, <2>2
    <3> QED
      BY <2>2, <3>1, <3>2
  <2>4. m \in 1 .. Len(rest) /\ new = Append(rest, e)
    BY <1>2, <1>3, <2>2
  <2>5. m \in 1 .. Len(new) /\ new[m] = rest[m]
    <3>0. rest \in Seq(S) /\ m \in 1 .. Len(rest)
      BY <1>3, <2>4, Zenon
    <3>1. rest \in Seq(S) /\ Len(rest) \in Nat /\ m \in 1 .. Len(rest)
      BY <3>0
    <3>2. Len(Append(rest, e)) = Len(rest) + 1 /\ Append(rest, e)[m] = rest[m]
      BY <3>1
    <3>3. Len(new) = Len(rest) + 1 /\ new[m] = rest[m]
      BY <2>4, <3>2, Zenon
    <3>4. m \in 1 .. (Len(rest) + 1)
      BY <3>1
    <3> QED
      BY <3>3, <3>4, Zenon
  <2> QED
    BY <2>3, <2>5
<1>5. i - k \in 1 .. j
  BY <1>1, <1>4
<1>6. SubSeq(ls, i - k, Len(ls)) = SubSeq(es, i, Len(es))
  BY SeqRestOfRest
<1> QED
  BY <1>5, <1>6 DEF Dropped

-----------------------------------------------------------------------------
(* Short sequences. *)
LEMMA SeqOfOne ==
    ASSUME NEW S, NEW x \in S
    PROVE  <<x>> \in Seq(S) /\ Len(<<x>>) = 1 /\ <<x>>[1] = x
OBVIOUS

LEMMA SeqOfTwo ==
    ASSUME NEW S, NEW x \in S, NEW y \in S
    PROVE  /\ <<x, y>> \in Seq(S) /\ Len(<<x, y>>) = 2 /\ <<x, y>>[1] = x /\ <<x, y>>[2] = y
           /\ Append(<<x>>, y) = <<x, y>>
<1>1. <<x, y>> \in Seq(S) /\ Len(<<x, y>>) = 2 /\ <<x, y>>[1] = x /\ <<x, y>>[2] = y
  OBVIOUS
<1> DEFINE one == <<x>>
           two == <<x, y>>
           z == Append(one, y)
<1>2. one \in Seq(S) /\ Len(one) = 1 /\ one[1] = x
  BY SeqOfOne
<1>3. z \in Seq(S) /\ Len(z) = 2 /\ z[1] = x /\ z[2] = y
  <2> HIDE DEF one
  <2>1. /\ z \in Seq(S) /\ Len(z) = Len(one) + 1 /\ z[Len(one) + 1] = y
        /\ \A i \in 1 .. Len(one) : z[i] = one[i]
    BY <1>2
  <2> HIDE DEF z
  <2>2. 1 \in 1 .. Len(one) /\ Len(one) + 1 = 2
    BY <1>2
  <2> QED
    BY <1>2, <2>1, <2>2
<1>4. z = two
  <2> HIDE DEF z, two
  <2>1. two \in Seq(S) /\ Len(two) = 2 /\ two[1] = x /\ two[2] = y
    BY <1>1 DEF two
  <2>2. \A i \in 1 .. 2 : z[i] = two[i]
    <3>1. 1 .. 2 = {1, 2}
      OBVIOUS
    <3> QED
      BY <1>3, <2>1, <3>1
  <2>3. z = [i \in 1 .. 2 |-> z[i]] /\ two = [i \in 1 .. 2 |-> two[i]]
    BY <1>3, <2>1
  <2>4. [i \in 1 .. 2 |-> z[i]] = [i \in 1 .. 2 |-> two[i]]
    BY <2>2
  <2> QED
    BY <2>3, <2>4
<1> QED
  BY <1>1, <1>4

(* What is left of a sequence without its last element. *)
LEMMA SeqFront ==
    ASSUME NEW S, NEW q \in Seq(S), q # <<>>
    PROVE  /\ Len(q) \in Nat \ {0} /\ q[Len(q)] \in S
           /\ SubSeq(q, 1, Len(q) - 1) \in Seq(S)
           /\ Len(SubSeq(q, 1, Len(q) - 1)) = Len(q) - 1
           /\ \A i \in 1 .. (Len(q) - 1) : SubSeq(q, 1, Len(q) - 1)[i] = q[i]
<1> DEFINE n == Len(q) - 1
           f == SubSeq(q, 1, n)
<1>1. Len(q) \in Nat \ {0} /\ n \in 0 .. Len(q)
  OBVIOUS
<1>2. q[Len(q)] \in S
  BY <1>1
<1>3. f \in Seq(S) /\ Len(f) = n /\ \A i \in 1 .. n : f[i] = q[i]
  <2> HIDE DEF n
  <2> QED
    BY <1>1
<1> HIDE DEF f
<1> QED
  BY <1>1, <1>2, <1>3 DEF f
=============================================================================
