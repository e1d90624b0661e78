------------------------------ MODULE Induction ------------------------------
(***************************************************************************)
(* Induction without an induction rule: a set of natural numbers that is   *)
(* not empty has a least element, because inclusion is well-founded on     *)
(* finite sets.  A property is proved of every number by taking the least  *)
(* one without it.                                                         *)
(***************************************************************************)
EXTENDS Integers, FiniteSetsExt, FiniteSetTheorems, TLAPS

\* A set of natural numbers that is not empty has a least element.
THEOREM LeastNatural ==
  ASSUME NEW S \in SUBSET Nat, S # {}
  PROVE  \E m \in S : \A n \in S : m <= n
<1> DEFINE Below == {1 .. n : n \in S}
           Order == StrictSubsetOrdering(Nat)
<1>1. Below \subseteq FiniteSubsetsOf(Nat) /\ Below # {}
  <2>1. \A n \in S : 1 .. n \in FiniteSubsetsOf(Nat)
    BY FS_Interval DEF FiniteSubsetsOf
  <2> QED BY <2>1
<1>2. IsWellFoundedOn(Order, FiniteSubsetsOf(Nat))
  BY FS_StrictSubsetOrderingWellFounded
<1>3. PICK x \in Below : \A y \in Below : <<y, x>> \notin Order
  <2> HIDE DEF Below, Order
  <2> QED BY <1>1, <1>2, WFMin
<1>4. PICK m \in S : x = 1 .. m
  BY <1>3
<1>5. ASSUME NEW n \in S, n < m PROVE FALSE
  <2>1. 1 .. n \subseteq 1 .. m /\ m \in 1 .. m /\ m \notin 1 .. n
    BY <1>5
  <2>2. <<1 .. n, 1 .. m>> \in Order /\ 1 .. n \in Below
    BY <2>1 DEF StrictSubsetOrdering
  <2> QED BY <1>3, <1>4, <2>2
<1> QED BY <1>5

\* A set of natural numbers with a bound has a greatest element.
THEOREM GreatestNatural ==
  ASSUME NEW S \in SUBSET Nat, S # {}, NEW b \in Nat, \A n \in S : n <= b
  PROVE  \E m \in S : \A n \in S : n <= m
<1> DEFINE T == {b - n : n \in S}
<1>1. T \subseteq Nat /\ T # {}
  <2>1. \A n \in S : n \in Nat /\ b - n \in Nat
    OBVIOUS
  <2> QED BY <2>1
<1>2. PICK k \in T : \A j \in T : k <= j
  <2> HIDE DEF T
  <2> QED BY <1>1, LeastNatural
<1>3. PICK m \in S : k = b - m
  BY <1>2
<1>4. ASSUME NEW n \in S PROVE n <= m
  <2>1. b - n \in T
    OBVIOUS
  <2>2. b - m <= b - n
    BY <1>2, <1>3, <2>1
  <2> QED BY <2>2
<1> QED BY <1>4

\* Multiples of a number.
LEMMA Multiples ==
  ASSUME NEW u \in Nat, NEW v \in Nat, NEW e \in Nat, u <= v
  PROVE  u * e \in Nat /\ v * e \in Nat /\ u * e <= v * e /\ (u + 1) * e = u * e + e
OBVIOUS

\* f is defined by recursion: its value at d is computed from its value at pred[d].
Recursive(f, D, rank, pred, base, step) ==
  \A d \in D : f[d] = IF rank[d] = 0 THEN base ELSE step[d][f[pred[d]]]

\* There is such a function when the rank has a bound.
THEOREM Recursion ==
  ASSUME NEW D, NEW A, NEW base \in A, NEW N \in Nat, NEW rank \in [D -> 0 .. N],
         NEW pred \in [D -> D], NEW step \in [D -> [A -> A]],
         \A d \in D : rank[d] # 0 => rank[pred[d]] < rank[d]
  PROVE  \E f \in [D -> A] : Recursive(f, D, rank, pred, base, step)
<1> DEFINE UpTo(f, m) == \A d \in D : rank[d] <= m =>
                            f[d] = IF rank[d] = 0 THEN base ELSE step[d][f[pred[d]]]
           Undefined == {m \in Nat : \A f \in [D -> A] : ~UpTo(f, m)}
<1>1. 0 \notin Undefined
  <2> DEFINE f == [d \in D |-> base]
  <2>1. f \in [D -> A] /\ UpTo(f, 0)
    OBVIOUS
  <2> QED BY <2>1
<1>2. ASSUME NEW m \in Undefined, \A n \in Undefined : m <= n PROVE FALSE
  <2>1. m - 1 \in Nat /\ m - 1 \notin Undefined
    BY <1>1, <1>2
  <2>2. PICK f \in [D -> A] : UpTo(f, m - 1)
    BY <2>1
  <2> DEFINE g == [d \in D |-> IF rank[d] = 0 THEN base ELSE step[d][f[pred[d]]]]
  <2>3. g \in [D -> A]
    OBVIOUS
  <2>4. ASSUME NEW d \in D, rank[d] <= m, rank[d] # 0 PROVE g[d] = step[d][g[pred[d]]]
    <3>1. pred[d] \in D /\ rank[pred[d]] <= m - 1
      BY <2>1, <2>4
    <3>2. g[pred[d]] = f[pred[d]]
      BY <2>2, <3>1
    <3> QED BY <2>4, <3>2
  <2>5. UpTo(g, m)
    BY <2>4
  <2> HIDE DEF g
  <2> QED BY <2>3, <2>5
<1>3. Undefined = {}
  <2>1. Undefined \in SUBSET Nat
    OBVIOUS
  <2> HIDE DEF Undefined
  <2> QED BY <1>2, <2>1, LeastNatural
<1>4. PICK f \in [D -> A] : UpTo(f, N)
  BY <1>3
<1> QED BY <1>4 DEF Recursive

\* The case of a function on 0 .. N.
Iterates(f, N, base, step) ==
  \A i \in 0 .. N : f[i] = IF i = 0 THEN base ELSE step[i][f[i - 1]]

THEOREM Steps ==
  ASSUME NEW A, NEW base \in A, NEW N \in Nat, NEW step \in [1 .. N -> [A -> A]]
  PROVE  \E f \in [0 .. N -> A] : Iterates(f, N, base, step)
<1> DEFINE D == 0 .. N
           rank == [i \in D |-> i]
           pred == [i \in D |-> IF i = 0 THEN 0 ELSE i - 1]
           step1 == [i \in D |-> IF i = 0 THEN [a \in A |-> base] ELSE step[i]]
<1>1. rank \in [D -> 0 .. N] /\ pred \in [D -> D] /\ \A d \in D : rank[d] # 0 => rank[pred[d]] < rank[d]
  OBVIOUS
<1>2. step1 \in [D -> [A -> A]]
  OBVIOUS
<1>3. PICK f \in [D -> A] : Recursive(f, D, rank, pred, base, step1)
  <2> HIDE DEF D, rank, pred, step1
  <2> QED BY <1>1, <1>2, Recursion
<1>4. ASSUME NEW i \in D PROVE f[i] = IF i = 0 THEN base ELSE step[i][f[i - 1]]
  <2>1. f[i] = IF rank[i] = 0 THEN base ELSE step1[i][f[pred[i]]]
    BY <1>3 DEF Recursive
  <2>2. rank[i] = i /\ (i # 0 => pred[i] = i - 1 /\ step1[i] = step[i])
    OBVIOUS
  <2> HIDE DEF rank, pred, step1
  <2> QED BY <2>1, <2>2
<1> QED BY <1>3, <1>4 DEF Iterates

-----------------------------------------------------------------------------
(* Folds: FoldLeft(op, base, seq) takes the greatest index last. *)

\* The greatest of some numbers up to n.
LEMMA MaxGreatest ==
  ASSUME NEW n \in Nat, NEW d \in SUBSET (1 .. n), d # {}
  PROVE  Max(d) \in d /\ \A i \in d : i <= Max(d)
<1>1. d \in SUBSET Nat /\ \A i \in d : i <= n
  OBVIOUS
<1>2. \E m \in d : \A i \in d : i <= m
  BY <1>1, GreatestNatural
<1>3. \E m \in d : \A i \in d : m >= i
  BY <1>1, <1>2
<1>4. Max(d) \in d /\ \A i \in d : Max(d) >= i
  BY <1>3 DEF Max
<1> QED BY <1>1, <1>4

\* What a fold computes on subsets of 1 .. n.
FoldOf(f, n, base, step) ==
  \A d \in SUBSET (1 .. n) : f[d] = IF d = {} THEN base ELSE step[Max(d)][f[d \ {Max(d)}]]

\* iter computes the same, as far as its values are in A.
FoldsTo(iter, A, n, base, step) ==
  /\ n \in Nat /\ base \in A /\ step \in [1 .. n -> [A -> A]]
  /\ iter[{}] = base
  /\ \A d \in SUBSET (1 .. n) :
       d # {} /\ iter[d \ {Max(d)}] \in A => iter[d] = step[Max(d)][iter[d \ {Max(d)}]]

\* There is a function that holds the value after each index.
HasSteps(iter, A, n, base, step) ==
  \E F \in [0 .. n -> A] : /\ F[0] = base /\ F[n] = iter[1 .. n]
                           /\ \A k \in 1 .. n : F[k] = step[k][F[k - 1]]

\* There is such a function.
THEOREM FoldExists ==
  ASSUME NEW A, NEW base \in A, NEW n \in Nat, NEW step \in [1 .. n -> [A -> A]]
  PROVE  \E f \in [SUBSET (1 .. n) -> A] : FoldOf(f, n, base, step)
<1> DEFINE D == SUBSET (1 .. n)
           rank == [d \in D |-> Cardinality(d)]
           pred == [d \in D |-> d \ {Max(d)}]
           step1 == [d \in D |-> IF d = {} THEN [a \in A |-> base] ELSE step[Max(d)]]
<1>1. \A d \in D : IsFiniteSet(d) /\ Cardinality(d) \in 0 .. n /\ (Cardinality(d) = 0 <=> d = {})
  <2> TAKE d \in D
  <2>1. IsFiniteSet(1 .. n) /\ Cardinality(1 .. n) = n
    BY FS_Interval
  <2>2. IsFiniteSet(d) /\ Cardinality(d) <= n
    <3> DEFINE S == 1 .. n
    <3>1. IsFiniteSet(S) /\ Cardinality(S) = n /\ d \in SUBSET S
      BY <2>1
    <3> HIDE DEF S
    <3> QED BY <3>1, FS_Subset
  <2>3. Cardinality(d) \in Nat /\ (Cardinality(d) = 0 <=> d = {})
    <3> HIDE DEF D
    <3> QED BY <2>2, FS_CardinalityType, FS_EmptySet
  <2> QED BY <2>2, <2>3
<1>2. \A d \in D : d # {} => Max(d) \in 1 .. n /\ Cardinality(d \ {Max(d)}) < Cardinality(d)
  <2> TAKE d \in D
  <2>1. CASE d # {}
    <3> DEFINE x == Max(d)
    <3>1. x \in d /\ IsFiniteSet(d) /\ Cardinality(d) \in Nat
      <4>1. d \in SUBSET (1 .. n)
        OBVIOUS
      <4>2. Max(d) \in d
        BY <2>1, <4>1, MaxGreatest
      <4> HIDE DEF D
      <4>3. IsFiniteSet(d) /\ Cardinality(d) \in 0 .. n
        BY <1>1
      <4>4. \A i \in 0 .. n : i \in Nat
        OBVIOUS
      <4> QED BY <4>2, <4>3, <4>4
    <3> HIDE DEF x
    <3>2. Cardinality(d \ {x}) = Cardinality(d) - 1 /\ x \in 1 .. n
      BY <3>1, FS_RemoveElement
    <3> QED BY <3>1, <3>2 DEF x
  <2> QED BY <2>1
<1>3. rank \in [D -> 0 .. n] /\ pred \in [D -> D]
  BY <1>1
<1>4. step1 \in [D -> [A -> A]]
  BY <1>2
<1>5. \A d \in D : rank[d] # 0 => rank[pred[d]] < rank[d]
  BY <1>1, <1>2
<1>6. PICK f \in [D -> A] : Recursive(f, D, rank, pred, base, step1)
  <2> HIDE DEF D, rank, pred, step1
  <2> QED BY <1>3, <1>4, <1>5, Recursion
<1>7. ASSUME NEW d \in D
      PROVE f[d] = IF d = {} THEN base ELSE step[Max(d)][f[d \ {Max(d)}]]
  <2>1. f[d] = IF rank[d] = 0 THEN base ELSE step1[d][f[pred[d]]]
    BY <1>6 DEF Recursive
  <2>2. rank[d] = 0 <=> d = {}
    BY <1>1
  <2>3. pred[d] = d \ {Max(d)} /\ (d # {} => step1[d] = step[Max(d)])
    OBVIOUS
  <2> HIDE DEF rank, pred, step1
  <2> QED BY <2>1, <2>2, <2>3
<1> QED BY <1>6, <1>7 DEF FoldOf

\* The fold over 1 .. n is computed index by index.
THEOREM FoldSteps ==
  ASSUME NEW iter, NEW A, NEW n, NEW base, NEW step, FoldsTo(iter, A, n, base, step)
  PROVE  HasSteps(iter, A, n, base, step)
<1> USE DEF FoldsTo
<1>0. n \in Nat /\ base \in A /\ step \in [1 .. n -> [A -> A]]
  OBVIOUS
<1> DEFINE F == [k \in 0 .. n |-> iter[1 .. k]]
<1>1. ASSUME NEW k \in 1 .. n, iter[1 .. (k - 1)] \in A
      PROVE iter[1 .. k] = step[k][iter[1 .. (k - 1)]] /\ iter[1 .. k] \in A
  <2> DEFINE d == 1 .. k
             x == Max(d)
  <2>1. d \in SUBSET (1 .. n) /\ d # {} /\ k \in d /\ d \ {k} = 1 .. (k - 1)
    <3>1. d \ {k} = 1 .. (k - 1)
      OBVIOUS
    <3>2. d \in SUBSET (1 .. n) /\ k \in d
      OBVIOUS
    <3> QED BY <3>1, <3>2
  <2>2. x \in d /\ k <= x
    <3> HIDE DEF d
    <3> QED BY <2>1, MaxGreatest
  <2> HIDE DEF x
  <2>3. x = k
    BY <2>2
  <2>4. iter[d] = step[k][iter[d \ {k}]]
    <3> HIDE DEF d
    <3> QED BY <1>1, <2>1, <2>3 DEF x
  <2>5. iter[1 .. k] = step[k][iter[1 .. (k - 1)]]
    <3> HIDE DEF d
    <3> QED BY <2>1, <2>4 DEF d
  <2> QED BY <1>1, <2>5
<1>2. 1 .. 0 = {}
  OBVIOUS
<1>3. \A k \in 0 .. n : iter[1 .. k] \in A
  <2> DEFINE Bad == {k \in 0 .. n : iter[1 .. k] \notin A}
  <2>1. ASSUME NEW k \in Bad, \A j \in Bad : k <= j PROVE FALSE
    <3>1. CASE k = 0
      BY <1>2, <2>1, <3>1
    <3>2. CASE k # 0
      <4>1. k \in 1 .. n /\ k - 1 \in 0 .. n /\ ~(k <= k - 1)
        BY <2>1, <3>2
      <4>2. k - 1 \notin Bad
        <5> HIDE DEF Bad
        <5> QED BY <2>1, <4>1
      <4> QED BY <1>1, <2>1, <4>1, <4>2
    <3> QED BY <3>1, <3>2
  <2>2. Bad \in SUBSET Nat
    OBVIOUS
  <2>3. Bad = {}
    <3> HIDE DEF Bad
    <3> QED BY <2>1, <2>2, LeastNatural
  <2> QED BY <2>3
<1>4. F \in [0 .. n -> A] /\ F[0] = base /\ F[n] = iter[1 .. n]
  BY <1>2, <1>3
<1>5. ASSUME NEW k \in 1 .. n PROVE F[k] = step[k][F[k - 1]]
  <2>1. k \in 0 .. n /\ k - 1 \in 0 .. n
    OBVIOUS
  <2>2. iter[1 .. k] = step[k][iter[1 .. (k - 1)]]
    BY <1>1, <1>3, <2>1
  <2>3. F[k] = iter[1 .. k] /\ F[k - 1] = iter[1 .. (k - 1)]
    BY <2>1
  <2> HIDE DEF F
  <2> QED BY <2>2, <2>3
<1> HIDE DEF F
<1> QED BY <1>4, <1>5 DEF HasSteps
=============================================================================
