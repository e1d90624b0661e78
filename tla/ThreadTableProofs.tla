------------------------- MODULE ThreadTableProofs --------------------------
(***************************************************************************)
(* Proofs about ThreadTable, for every set of threads and every length of  *)
(* the table, as long as one slot stays free: the finding about th_delete  *)
(* is what happens when none does.                                         *)
(*                                                                         *)
(* A thread holds its slot until the slot is given back.  The invariant    *)
(* says which threads do (Holds), that their slots are on the list of      *)
(* threads and differ (Owners), what the requests of other threads know of *)
(* them (Requests), and that the two lists are what th_new and th_delete   *)
(* take them for (Lists).   While a thread is in the middle of a th_delete *)
(* without th_mutex the lists are neither those before it nor those after  *)
(* it; the invariant speaks of those that the statements still to come     *)
(* will leave (View), which none of these statements changes.  All of this *)
(* holds until the table is disturbed; that values keep their types holds  *)
(* always (Base).  What is said of ids that have outlived their slot needs *)
(* the incarnations not to wrap (Incarns).                                 *)
(***************************************************************************)
EXTENDS ThreadTable, Induction, SequenceTheorems

\* The lists are kept apart only while the list of free slots does not become empty.
SpareSlot == MaxInUse < MaxThreads

-----------------------------------------------------------------------------
(* Lists *)

\* vec[p].next holds a slot or nothing.
Linking(vec) == \A p \in Slot : vec[p].next \in Slot \cup {NULL}

\* The list that begins with s holds the slots of l, in order.
Path(vec, s, l) ==
  /\ l \in Seq(Slot)
  /\ s = IF Len(l) = 0 THEN NULL ELSE l[1]
  /\ \A i \in 1 .. Len(l) : vec[l[i]].next = IF i = Len(l) THEN NULL ELSE l[i + 1]

LEMMA Slots == /\ MaxThreads \in Nat \ {0} /\ NULL \notin Slot /\ \A p \in Slot : p \in Nat
               /\ \A p, q \in Slot : p \in Int /\ q \in Int /\ ~(p < NULL)
BY ThreadTableAssumption DEF Slot, NULL

\* ListFrom is defined by recursion on the number of slots still looked at.
Unrolled(L, vec) ==
  \A n \in 0 .. (MaxThreads + 1) :
    /\ L[n] \in [Slot \cup {NULL} -> Seq(Slot)]
    /\ \A p \in Slot \cup {NULL} :
         L[n][p] = IF n = 0 \/ p = NULL THEN <<>> ELSE <<p>> \o L[n - 1][vec[p].next]

LEMMA ListRec ==
  ASSUME NEW vec, Linking(vec), NEW s
  PROVE  \E L : ListFrom(vec, s) = L[MaxThreads + 1][s] /\ Unrolled(L, vec)
<1> DEFINE D == 0 .. (MaxThreads + 1)
           P == Slot \cup {NULL}
           A == [P -> Seq(Slot)]
           base == [p \in P |-> <<>>]
           turn(g) == [p \in P |-> IF p = NULL THEN <<>> ELSE <<p>> \o g[vec[p].next]]
           rank == [n \in D |-> n]
           pred == [n \in D |-> IF n = 0 THEN 0 ELSE n - 1]
           step == [n \in D |-> [g \in A |-> turn(g)]]
           L == CHOOSE L : L = [n \in D |-> [p \in P |->
                  IF n = 0 \/ p = NULL THEN <<>> ELSE <<p>> \o L[n - 1][vec[p].next]]]
<1>1. ListFrom(vec, s) = L[MaxThreads + 1][s]
  BY DEF ListFrom
<1>2. MaxThreads \in Nat /\ NULL \notin Slot
  BY Slots
<1>3. \A g \in A : turn(g) \in A
  <2> SUFFICES ASSUME NEW g \in A, NEW p \in P
               PROVE  (IF p = NULL THEN <<>> ELSE <<p>> \o g[vec[p].next]) \in Seq(Slot)
    OBVIOUS
  <2>1. <<>> \in Seq(Slot)
    OBVIOUS
  <2>2. p # NULL => <<p>> \in Seq(Slot) /\ g[vec[p].next] \in Seq(Slot)
    BY DEF Linking
  <2> QED BY <2>1, <2>2, ConcatProperties
<1>4. base \in A
  OBVIOUS
<1> HIDE DEF turn, base
<1>5. PICK f \in [D -> A] : Recursive(f, D, rank, pred, base, step)
  <2>1. rank \in [D -> 0 .. (MaxThreads + 1)] /\ pred \in [D -> D] /\ MaxThreads + 1 \in Nat
    BY <1>2
  <2>2. step \in [D -> [A -> A]]
    BY <1>3
  <2>3. \A n \in D : rank[n] # 0 => rank[pred[n]] < rank[n]
    BY <1>2
  <2> HIDE DEF D, A, rank, pred, step
  <2> QED BY <1>4, <2>1, <2>2, <2>3, Recursion
<1>6. f = [n \in D |-> [p \in P |->
             IF n = 0 \/ p = NULL THEN <<>> ELSE <<p>> \o f[n - 1][vec[p].next]]]
  <2>1. ASSUME NEW n \in D
        PROVE  f[n] = [p \in P |-> IF n = 0 \/ p = NULL THEN <<>> ELSE <<p>> \o f[n - 1][vec[p].next]]
    <3>1. CASE n = 0
      <4>1. f[n] = base
        <5>1. rank[n] = 0
          BY <3>1
        <5> HIDE DEF D, A, rank, pred, step
        <5> QED BY <1>5, <5>1 DEF Recursive
      <4> QED BY <3>1, <4>1 DEF base
    <3>2. CASE n # 0
      <4>1. n - 1 \in D /\ pred[n] = n - 1 /\ rank[n] # 0
        BY <1>2, <3>2
      <4>2. f[n - 1] \in A
        BY <4>1
      <4>3. f[n] = step[n][f[n - 1]]
        <5> HIDE DEF D, A, rank, pred, step
        <5> QED BY <1>5, <4>1 DEF Recursive
      <4>4. f[n] = turn(f[n - 1])
        BY <4>2, <4>3
      <4> QED BY <3>2, <4>4 DEF turn
    <3> QED BY <3>1, <3>2
  <2> HIDE DEF D, A, P
  <2> QED BY <1>5, <2>1
<1>7. L = [n \in D |-> [p \in P |->
             IF n = 0 \/ p = NULL THEN <<>> ELSE <<p>> \o L[n - 1][vec[p].next]]]
  <2> HIDE DEF D, P
  <2> QED BY <1>6
<1> HIDE DEF L
<1>8. \A n \in D : \A p \in P :
        L[n][p] = IF n = 0 \/ p = NULL THEN <<>> ELSE <<p>> \o L[n - 1][vec[p].next]
  <2> TAKE n \in D
  <2> HIDE DEF D, P
  <2>1. L[n] = [p \in P |-> IF n = 0 \/ p = NULL THEN <<>> ELSE <<p>> \o L[n - 1][vec[p].next]]
    BY <1>7, ZenonT(60)
  <2> QED BY <2>1
<1> HIDE DEF rank, pred, step
<1>9. ASSUME NEW n \in D, L[n] \notin A, \A k \in D : L[k] \notin A => n <= k PROVE FALSE
  <2>1. L[n] = [p \in P |-> IF n = 0 \/ p = NULL THEN <<>> ELSE <<p>> \o L[n - 1][vec[p].next]]
    <3> HIDE DEF D, P, A
    <3> QED BY <1>7, ZenonT(60)
  <2>2. CASE n = 0
    <3>1. L[n] = base
      BY <2>1, <2>2 DEF base
    <3> HIDE DEF A
    <3> QED BY <1>4, <1>9, <3>1
  <2>3. CASE n # 0
    <3>1. n - 1 \in D /\ ~(n <= n - 1)
      BY <1>2, <2>3
    <3>2. L[n - 1] \in A
      <4> HIDE DEF A, D
      <4> QED BY <1>9, <3>1
    <3>3. L[n] = turn(L[n - 1])
      BY <2>1, <2>3 DEF turn
    <3> HIDE DEF A, D
    <3> QED BY <1>3, <1>9, <3>2, <3>3
  <2> QED BY <2>2, <2>3
<1>10. \A n \in D : L[n] \in A
  <2> DEFINE Bad == {n \in D : L[n] \notin A}
  <2>1. Bad \in SUBSET Nat
    OBVIOUS
  <2>2. \A n \in Bad : \E k \in Bad : ~(n <= k)
    <3> SUFFICES ASSUME NEW n \in Bad, \A k \in Bad : n <= k PROVE FALSE
      OBVIOUS
    <3> HIDE DEF A, D
    <3>1. n \in D /\ L[n] \notin A /\ \A k \in D : L[k] \notin A => n <= k
      OBVIOUS
    <3> HIDE DEF Bad
    <3> QED BY <1>9, <3>1
  <2>3. Bad = {}
    <3> HIDE DEF Bad
    <3> QED BY <2>1, <2>2, LeastNatural
  <2> HIDE DEF A, D
  <2> QED BY <2>3
<1> QED BY <1>1, <1>8, <1>10 DEF Unrolled

\* It is a list of slots.
LEMMA ListTyped ==
  ASSUME NEW vec, Linking(vec), NEW s \in Slot \cup {NULL}
  PROVE  ListFrom(vec, s) \in Seq(Slot)
<1>1. PICK L : ListFrom(vec, s) = L[MaxThreads + 1][s] /\ Unrolled(L, vec)
  BY ListRec
<1>2. MaxThreads + 1 \in 0 .. (MaxThreads + 1)
  BY Slots
<1>3. L[MaxThreads + 1] \in [Slot \cup {NULL} -> Seq(Slot)]
  BY <1>1, <1>2 DEF Unrolled
<1> QED BY <1>1, <1>3

\* ListFrom computes that list if it is no longer than the table.
LEMMA ListIs ==
  ASSUME NEW vec, Linking(vec), NEW s, NEW l, Path(vec, s, l), Len(l) <= MaxThreads
  PROVE  ListFrom(vec, s) = l
<1> DEFINE D == 0 .. (MaxThreads + 1)
           P == Slot \cup {NULL}
<1>2. MaxThreads \in Nat /\ NULL \notin Slot
  BY Slots
<1>7. PICK L : ListFrom(vec, s) = L[MaxThreads + 1][s] /\ Unrolled(L, vec)
  BY ListRec
<1>1. ListFrom(vec, s) = L[MaxThreads + 1][s]
  BY <1>7
<1>8. \A n \in D : \A p \in P :
        L[n][p] = IF n = 0 \/ p = NULL THEN <<>> ELSE <<p>> \o L[n - 1][vec[p].next]
  BY <1>7 DEF Unrolled
<1>9. l \in Seq(Slot) /\ Len(l) \in Nat
  BY DEF Path
<1> DEFINE At(i) == IF i = Len(l) + 1 THEN NULL ELSE l[i]
           Left(i) == SubSeq(l, i, Len(l))
           Good(k) == \A n \in D : n >= k => L[n][At(Len(l) + 1 - k)] = Left(Len(l) + 1 - k)
           Bad == {k \in 0 .. Len(l) : ~Good(k)}
<1>10. ASSUME NEW k \in Bad, \A j \in Bad : k <= j PROVE FALSE
  <2>0. k \in 0 .. Len(l) /\ ~Good(k)
    OBVIOUS
  <2>1. CASE k = 0
    <3>1. At(Len(l) + 1 - k) = NULL /\ Left(Len(l) + 1 - k) = <<>>
      BY <1>9, <2>1, SubSeqEmpty
    <3>2. \A n \in D : L[n][NULL] = <<>>
      BY <1>8
    <3> QED BY <2>0, <3>1, <3>2
  <2>2. CASE k # 0
    <3> DEFINE i == Len(l) + 1 - k
    <3>1. /\ i \in 1 .. Len(l) /\ k - 1 \in 0 .. Len(l) /\ Len(l) + 1 - (k - 1) = i + 1
          /\ At(i) = l[i] /\ l[i] \in Slot /\ At(i + 1) = vec[l[i]].next
      BY <1>9, <2>0, <2>2 DEF Path
    <3>2. Good(k - 1)
      <4>1. k - 1 \notin Bad
        <5>1. ~(k <= k - 1)
          BY <2>0
        <5> HIDE DEF Bad
        <5> QED BY <1>10, <5>1
      <4> HIDE DEF Good
      <4> QED BY <3>1, <4>1
    <3>3. ASSUME NEW n \in D, n >= k PROVE L[n][At(i)] = Left(i)
      <4>1. n # 0 /\ n - 1 \in D /\ n - 1 >= k - 1
        BY <1>2, <2>0, <2>2, <3>3
      <4>2. L[n][l[i]] = <<l[i]>> \o L[n - 1][At(i + 1)]
        <5>1. l[i] \in P /\ l[i] # NULL /\ At(i + 1) = vec[l[i]].next
          BY <3>1, Slots
        <5> HIDE DEF D, P, At, i
        <5>2. L[n][l[i]] = IF n = 0 \/ l[i] = NULL THEN <<>> ELSE <<l[i]>> \o L[n - 1][vec[l[i]].next]
          BY <1>8, <3>3, <5>1
        <5> QED BY <4>1, <5>1, <5>2
      <4>3. L[n - 1][At(i + 1)] = Left(i + 1)
        BY <3>1, <3>2, <4>1
      <4>4. Left(i) = <<l[i]>> \o Left(i + 1)
        <5>1. Len(l) \in i .. Len(l)
          BY <1>9, <3>1
        <5> QED BY <1>9, <3>1, <5>1, SubSeqRecursiveFirst
      <4> HIDE DEF At, Left, i
      <4> QED BY <3>1, <4>2, <4>3, <4>4
    <3> QED BY <2>0, <3>3
  <2> QED BY <2>1, <2>2
<1>11. Bad = {}
  <2>1. Bad \in SUBSET Nat
    OBVIOUS
  <2> HIDE DEF Bad
  <2> QED BY <1>10, <2>1, LeastNatural
<1>12. Good(Len(l))
  <2>1. Len(l) \in 0 .. Len(l)
    BY <1>9
  <2> HIDE DEF Good
  <2> QED BY <1>11, <2>1
<1>13. L[MaxThreads + 1][At(1)] = Left(1)
  <2>1. MaxThreads + 1 \in D /\ MaxThreads + 1 >= Len(l) /\ Len(l) + 1 - Len(l) = 1
    BY <1>2, <1>9
  <2> HIDE DEF At, Left, D
  <2> QED BY <1>12, <2>1
<1>14. At(1) = s
  BY <1>9 DEF Path
<1>15. Left(1) = l
  BY <1>9, SubSeqFull
<1> QED BY <1>1, <1>13, <1>14, <1>15

\* used and free are the slots of the two lists: every slot is on one of them, once.
Once(l) == \A i, j \in 1 .. Len(l) : l[i] = l[j] => i = j
Prevs(vec, l) == \A i \in 1 .. Len(l) : vec[l[i]].prev = IF i = 1 THEN NULL ELSE l[i - 1]
Apart(used, free) ==
  /\ Once(used) /\ Once(free)
  /\ \A i \in 1 .. Len(used) : \A j \in 1 .. Len(free) : used[i] # free[j]
  /\ Slot \subseteq On(used) \cup On(free)
  /\ Len(used) + Len(free) = MaxThreads
ListsAre(vec, first, ff, lf, used, free) ==
  /\ Path(vec, first, used) /\ Path(vec, ff, free) /\ Prevs(vec, used)
  /\ Apart(used, free)
  /\ Len(free) > 0 /\ free[Len(free)] = lf

LEMMA OnList == ASSUME NEW S, NEW l \in Seq(S), NEW x
                PROVE  x \in On(l) <=> \E i \in 1 .. Len(l) : l[i] = x
BY DEF On

\* Only next_entry and prev_entry matter.
LEMMA ListsKept ==
  ASSUME NEW vec, NEW first, NEW ff, NEW lf, NEW used, NEW free,
         ListsAre(vec, first, ff, lf, used, free), NEW vec2,
         \A s \in Slot : vec2[s].next = vec[s].next /\ vec2[s].prev = vec[s].prev
  PROVE  ListsAre(vec2, first, ff, lf, used, free)
<1>1. used \in Seq(Slot) /\ free \in Seq(Slot)
  BY DEF ListsAre, Path
<1>2. \A i \in 1 .. Len(used) : used[i] \in Slot
  BY <1>1
<1>3. \A i \in 1 .. Len(free) : free[i] \in Slot
  BY <1>1
<1> QED BY <1>2, <1>3 DEF ListsAre, Path, Prevs

\* The list with slot x inserted after position k.
InsertAt(l, k, x) ==
  [j \in 1 .. Len(l) + 1 |-> IF j <= k THEN l[j] ELSE IF j = k + 1 THEN x ELSE l[j - 1]]

LEMMA InsertAtIs ==
  ASSUME NEW l \in Seq(Slot), NEW k \in 0 .. Len(l), NEW x \in Slot
  PROVE  LET r == InsertAt(l, k, x)
         IN  /\ r \in Seq(Slot) /\ Len(r) = Len(l) + 1
             /\ r[k + 1] = x
             /\ \A j \in 1 .. k : r[j] = l[j]
             /\ \A j \in k + 2 .. Len(l) + 1 : r[j] = l[j - 1]
<1> DEFINE r == InsertAt(l, k, x)
<1>1. Len(l) \in Nat /\ \A j \in 1 .. Len(l) : l[j] \in Slot
  OBVIOUS
<1>2. r \in [1 .. Len(l) + 1 -> Slot]
  BY <1>1 DEF InsertAt
<1>3. r \in Seq(Slot) /\ Len(r) = Len(l) + 1
  <2> HIDE DEF r
  <2> QED BY <1>1, <1>2
<1>4. /\ r[k + 1] = x /\ \A j \in 1 .. k : r[j] = l[j]
      /\ \A j \in k + 2 .. Len(l) + 1 : r[j] = l[j - 1]
  BY <1>1 DEF InsertAt
<1> QED BY <1>3, <1>4

\* th_new moves the first free slot to the list of threads.
Inserted(vec, vec2, first, first2, used, k, ff) ==
  LET p == IF k = 0 THEN NULL ELSE used[k]
      n == IF k = Len(used) THEN NULL ELSE used[k + 1]
  IN  /\ \A s \in Slot :
           /\ vec2[s].next = IF s = ff THEN n ELSE IF s = p THEN ff ELSE vec[s].next
           /\ vec2[s].prev = IF s = ff THEN p ELSE IF s = n THEN ff ELSE vec[s].prev
      /\ first2 = IF k = 0 THEN ff ELSE first

LEMMA ListsNew ==
  ASSUME NEW vec, NEW first, NEW ff, NEW lf, NEW used, NEW free,
         ListsAre(vec, first, ff, lf, used, free), Len(free) > 1,
         NEW k \in 0 .. Len(used), NEW vec2, NEW first2, Inserted(vec, vec2, first, first2, used, k, ff)
  PROVE  \E used2, free2 :
           /\ ListsAre(vec2, first2, vec[ff].next, lf, used2, free2)
           /\ On(used2) = On(used) \cup {ff} /\ On(free2) = On(free) \ {ff}
<1> SUFFICES ASSUME NEW p, p = IF k = 0 THEN NULL ELSE used[k],
                    NEW n, n = IF k = Len(used) THEN NULL ELSE used[k + 1],
                    \A s \in Slot :
                      /\ vec2[s].next = IF s = ff THEN n ELSE IF s = p THEN ff ELSE vec[s].next
                      /\ vec2[s].prev = IF s = ff THEN p ELSE IF s = n THEN ff ELSE vec[s].prev,
                    first2 = IF k = 0 THEN ff ELSE first
             PROVE  \E used2, free2 :
                      /\ ListsAre(vec2, first2, vec[ff].next, lf, used2, free2)
                      /\ On(used2) = On(used) \cup {ff} /\ On(free2) = On(free) \ {ff}
  BY DEF Inserted
<1> DEFINE u2 == InsertAt(used, k, ff)
           f2 == Tail(free)
<1>1. /\ used \in Seq(Slot) /\ free \in Seq(Slot) /\ Len(used) \in Nat /\ Len(free) \in Nat
      /\ ff = free[1] /\ ff \in Slot /\ free # <<>> /\ vec[ff].next = free[2]
  BY DEF ListsAre, Path
<1>2. \A i \in 1 .. Len(used) : used[i] \in Slot /\ used[i] # ff
  BY <1>1 DEF ListsAre, Apart
<1>3. /\ u2 \in Seq(Slot) /\ Len(u2) = Len(used) + 1 /\ u2[k + 1] = ff
      /\ \A j \in 1 .. k : u2[j] = used[j]
      /\ \A j \in k + 2 .. Len(used) + 1 : u2[j] = used[j - 1]
  BY <1>1, InsertAtIs
<1>4. f2 \in Seq(Slot) /\ Len(f2) = Len(free) - 1 /\ \A i \in 1 .. Len(free) - 1 : f2[i] = free[i + 1]
  BY <1>1, HeadTailProperties
<1>5. \A i \in 1 .. Len(free) - 1 : f2[i] \in Slot /\ f2[i] # ff /\ f2[i] # p /\ f2[i] # n
  <2> TAKE i \in 1 .. Len(free) - 1
  <2>1. f2[i] = free[i + 1] /\ i + 1 \in 1 .. Len(free) /\ 1 \in 1 .. Len(free) /\ i + 1 # 1
    BY <1>1, <1>4
  <2>2. f2[i] \in Slot /\ f2[i] # ff
    BY <1>1, <2>1 DEF ListsAre, Apart, Once
  <2>3. p = NULL \/ \E j \in 1 .. Len(used) : p = used[j]
    BY <1>1
  <2>4. n = NULL \/ \E j \in 1 .. Len(used) : n = used[j]
    BY <1>1
  <2>5. \A j \in 1 .. Len(used) : f2[i] # used[j]
    BY <2>1 DEF ListsAre, Apart
  <2> QED BY <2>2, <2>3, <2>4, <2>5, Slots
<1> HIDE DEF u2, f2
<1>6. Path(vec2, vec[ff].next, f2)
  <2>1. ASSUME NEW i \in 1 .. Len(f2)
        PROVE  vec2[f2[i]].next = IF i = Len(f2) THEN NULL ELSE f2[i + 1]
    <3>1. i \in 1 .. Len(free) - 1 /\ i + 1 \in 1 .. Len(free)
      BY <1>1, <1>4, <2>1
    <3>2. vec2[f2[i]].next = vec[free[i + 1]].next
      BY <1>4, <1>5, <3>1
    <3>3. vec[free[i + 1]].next = IF i + 1 = Len(free) THEN NULL ELSE free[i + 1 + 1]
      BY <3>1 DEF ListsAre, Path
    <3>4. i # Len(f2) => f2[i + 1] = free[i + 1 + 1]
      BY <1>1, <1>4, <2>1
    <3>5. i = Len(f2) <=> i + 1 = Len(free)
      BY <1>1, <1>4
    <3> QED BY <3>2, <3>3, <3>4, <3>5
  <2>2. Len(f2) # 0 /\ vec[ff].next = f2[1]
    BY <1>1, <1>4
  <2> QED BY <1>4, <2>1, <2>2 DEF Path
<1>7. Path(vec2, first2, u2)
  <2>1. ASSUME NEW i \in 1 .. Len(u2)
        PROVE  vec2[u2[i]].next = IF i = Len(u2) THEN NULL ELSE u2[i + 1]
    <3>1. CASE i < k
      <4>1. i \in 1 .. Len(used) /\ i + 1 \in 1 .. k /\ i \in 1 .. k /\ i # Len(u2) /\ i # Len(used)
            /\ k \in 1 .. Len(used)
        BY <1>1, <1>3, <3>1
      <4>2. u2[i] = used[i] /\ u2[i + 1] = used[i + 1] /\ u2[i] # p /\ u2[i] # ff /\ u2[i] \in Slot
        BY <1>2, <1>3, <3>1, <4>1 DEF ListsAre, Apart, Once
      <4>3. vec[used[i]].next = used[i + 1]
        BY <4>1 DEF ListsAre, Path
      <4> QED BY <4>1, <4>2, <4>3
    <3>2. CASE i = k
      <4>1. i \in 1 .. Len(used) /\ i \in 1 .. k /\ i # Len(u2) /\ k # 0
        BY <1>1, <1>3, <3>2
      <4>2. u2[i] = used[i] /\ u2[i] = p /\ p \in Slot /\ p # ff /\ u2[i + 1] = ff
        BY <1>2, <1>3, <3>2, <4>1
      <4> QED BY <4>1, <4>2
    <3>3. CASE i = k + 1
      <4>1. u2[i] = ff /\ vec2[u2[i]].next = n
        BY <1>1, <1>3, <3>3
      <4>2. i = Len(u2) <=> k = Len(used)
        BY <1>1, <1>3, <3>3
      <4>3. i # Len(u2) => u2[i + 1] = used[k + 1]
        BY <1>1, <1>3, <3>3
      <4> QED BY <4>1, <4>2, <4>3
    <3>4. CASE i > k + 1
      <4>1. i - 1 \in 1 .. Len(used) /\ i \in k + 2 .. Len(used) + 1 /\ i - 1 # k
        BY <1>1, <1>3, <3>4
      <4>2. u2[i] = used[i - 1] /\ u2[i] # ff /\ u2[i] # p /\ u2[i] \in Slot
        <5>1. u2[i] = used[i - 1] /\ used[i - 1] \in Slot /\ used[i - 1] # ff
          BY <1>2, <1>3, <4>1
        <5>2. p = NULL \/ (p = used[k] /\ k \in 1 .. Len(used))
          BY <1>1
        <5>3. p = used[k] /\ k \in 1 .. Len(used) => used[i - 1] # p
          BY <4>1 DEF ListsAre, Apart, Once
        <5> QED BY <5>1, <5>2, <5>3, Slots
      <4>3. vec[used[i - 1]].next = IF i - 1 = Len(used) THEN NULL ELSE used[i - 1 + 1]
        BY <4>1 DEF ListsAre, Path
      <4>4. i = Len(u2) <=> i - 1 = Len(used)
        BY <1>1, <1>3
      <4>5. i # Len(u2) => u2[i + 1] = used[i - 1 + 1]
        <5>1. i \in Nat /\ k \in Nat /\ Len(u2) = Len(used) + 1 /\ i <= Len(u2) /\ Len(used) \in Nat
          BY <1>1, <1>3, <2>1
        <5>2. i - 1 + 1 = i + 1 - 1
          BY <5>1
        <5>3. i # Len(u2) => i + 1 \in k + 2 .. Len(used) + 1
          BY <3>4, <5>1
        <5>4. i # Len(u2) => u2[i + 1] = used[i + 1 - 1]
          BY <1>3, <5>3
        <5> QED BY <5>2, <5>4
      <4> QED BY <4>2, <4>3, <4>4, <4>5
    <3> QED BY <1>1, <1>3, <3>1, <3>2, <3>3, <3>4
  <2>2. Len(u2) # 0 /\ first2 = u2[1]
    <3>1. CASE k = 0
      BY <1>1, <1>3, <3>1
    <3>2. CASE k # 0
      <4>1. first = used[1] /\ u2[1] = used[1]
        BY <1>1, <1>3, <3>2 DEF ListsAre, Path
      <4> QED BY <1>1, <1>3, <3>2, <4>1
    <3> QED BY <3>1, <3>2
  <2> QED BY <1>3, <2>1, <2>2 DEF Path
<1>8. Prevs(vec2, u2)
  <2> SUFFICES ASSUME NEW i \in 1 .. Len(u2)
               PROVE  vec2[u2[i]].prev = IF i = 1 THEN NULL ELSE u2[i - 1]
    BY DEF Prevs
  <2>1. CASE i <= k
    <3>1. i \in 1 .. Len(used) /\ i \in 1 .. k /\ (i # 1 => i - 1 \in 1 .. k)
      BY <1>1, <1>3, <2>1
    <3>2. u2[i] = used[i] /\ u2[i] # ff /\ u2[i] \in Slot
      BY <1>2, <1>3, <3>1
    <3>3. u2[i] # n
      <4>1. k # Len(used) => k + 1 \in 1 .. Len(used) /\ i # k + 1
        BY <1>1, <2>1
      <4> QED BY <3>1, <3>2, <4>1, Slots DEF ListsAre, Apart, Once
    <3>4. vec[used[i]].prev = IF i = 1 THEN NULL ELSE used[i - 1]
      BY <3>1 DEF ListsAre, Prevs
    <3> QED BY <1>3, <3>1, <3>2, <3>3, <3>4
  <2>2. CASE i = k + 1
    <3>1. vec2[u2[i]].prev = p
      BY <1>1, <1>3, <2>2
    <3>2. i # 1 => k # 0 /\ u2[i - 1] = used[k]
      BY <1>1, <1>3, <2>2
    <3>3. i = 1 => k = 0
      BY <2>2
    <3> QED BY <3>1, <3>2, <3>3
  <2>3. CASE i = k + 2
    <3>1. i \in k + 2 .. Len(used) + 1 /\ k # Len(used) /\ i # 1 /\ i - 1 = k + 1 /\ k + 1 \in 1 .. Len(used)
      BY <1>1, <1>3, <2>3
    <3>2. u2[i] = n /\ n # ff /\ n \in Slot /\ u2[i - 1] = ff
      BY <1>2, <1>3, <3>1
    <3> QED BY <3>1, <3>2
  <2>4. CASE i > k + 2
    <3>1. /\ i - 1 \in 1 .. Len(used) /\ i \in k + 2 .. Len(used) + 1 /\ i - 1 # k + 1 /\ i # 1 /\ i - 1 # 1
          /\ i - 1 \in k + 2 .. Len(used) + 1 /\ k # Len(used) /\ k + 1 \in 1 .. Len(used)
      BY <1>1, <1>3, <2>4
    <3>2. u2[i] = used[i - 1] /\ u2[i] # ff /\ u2[i] # n /\ u2[i] \in Slot /\ u2[i - 1] = used[i - 1 - 1]
      BY <1>2, <1>3, <3>1 DEF ListsAre, Apart, Once
    <3>3. vec[used[i - 1]].prev = used[i - 1 - 1]
      BY <3>1 DEF ListsAre, Prevs
    <3> QED BY <3>1, <3>2, <3>3
  <2> QED BY <1>1, <1>3, <2>1, <2>2, <2>3, <2>4
<1>9. On(u2) = On(used) \cup {ff}
  <2>1. ASSUME NEW i \in 1 .. Len(u2) PROVE u2[i] = ff \/ \E j \in 1 .. Len(used) : u2[i] = used[j]
    <3>1. i \in 1 .. k \/ i = k + 1 \/ (i \in k + 2 .. Len(used) + 1 /\ i - 1 \in 1 .. Len(used))
      BY <1>1, <1>3
    <3>2. \A j \in 1 .. k : j \in 1 .. Len(used)
      BY <1>1
    <3> QED BY <1>3, <3>1, <3>2
  <2>2. ASSUME NEW j \in 1 .. Len(used) PROVE \E i \in 1 .. Len(u2) : u2[i] = used[j]
    <3>1. CASE j <= k
      <4>1. j \in 1 .. k /\ j \in 1 .. Len(u2)
        BY <1>1, <1>3, <3>1
      <4> QED BY <1>3, <4>1
    <3>2. CASE ~(j <= k)
      <4>1. j + 1 \in k + 2 .. Len(used) + 1 /\ j + 1 \in 1 .. Len(u2) /\ j + 1 - 1 = j
        BY <1>1, <1>3, <3>2
      <4>2. u2[j + 1] = used[j]
        BY <1>3, <4>1
      <4> QED BY <4>1, <4>2
    <3> QED BY <3>1, <3>2
  <2>3. k + 1 \in 1 .. Len(u2)
    BY <1>1, <1>3
  <2>4. /\ \A x : x \in On(u2) <=> \E i \in 1 .. Len(u2) : u2[i] = x
        /\ \A x : x \in On(used) <=> \E i \in 1 .. Len(used) : used[i] = x
    BY <1>1, <1>3, OnList
  <2>5. u2[k + 1] = ff
    BY <1>3
  <2>6. \A x : x \in On(u2) => x \in On(used) \cup {ff}
    BY <2>1, <2>4
  <2>7. \A x : x \in On(used) \cup {ff} => x \in On(u2)
    BY <2>2, <2>3, <2>4, <2>5
  <2> QED BY <2>6, <2>7
<1>10. On(f2) = On(free) \ {ff}
  <2>1. ASSUME NEW i \in 1 .. Len(f2) PROVE f2[i] # ff /\ \E j \in 1 .. Len(free) : f2[i] = free[j]
    <3>1. i \in 1 .. Len(free) - 1 /\ i + 1 \in 1 .. Len(free)
      BY <1>1, <1>4
    <3> QED BY <1>4, <1>5, <3>1
  <2>2. ASSUME NEW j \in 1 .. Len(free), free[j] # ff PROVE \E i \in 1 .. Len(f2) : f2[i] = free[j]
    <3>1. j - 1 \in 1 .. Len(free) - 1 /\ j - 1 \in 1 .. Len(f2) /\ j - 1 + 1 = j
      BY <1>1, <1>4, <2>2
    <3>2. f2[j - 1] = free[j]
      BY <1>4, <3>1
    <3> QED BY <3>1, <3>2
  <2>3. /\ \A x : x \in On(f2) <=> \E i \in 1 .. Len(f2) : f2[i] = x
        /\ \A x : x \in On(free) <=> \E i \in 1 .. Len(free) : free[i] = x
    BY <1>1, <1>4, OnList
  <2>4. \A x : x \in On(f2) => x \in On(free) \ {ff}
    BY <2>1, <2>3
  <2>5. \A x : x \in On(free) \ {ff} => x \in On(f2)
    BY <2>2, <2>3
  <2> QED BY <2>4, <2>5
<1>11. Apart(u2, f2)
  <2>1. Once(u2)
    <3> SUFFICES ASSUME NEW i \in 1 .. Len(u2), NEW j \in 1 .. Len(u2), u2[i] = u2[j], i < j
                 PROVE  FALSE
      <4>1. \A i, j \in 1 .. Len(u2) : i < j \/ j < i \/ i = j
        BY <1>1, <1>3
      <4> QED BY <4>1 DEF Once
    <3>1. i \in 1 .. k \/ i = k + 1 \/ (i \in k + 2 .. Len(used) + 1 /\ i - 1 \in 1 .. Len(used))
      BY <1>1, <1>3
    <3>2. j \in 1 .. k \/ j = k + 1 \/ (j \in k + 2 .. Len(used) + 1 /\ j - 1 \in 1 .. Len(used))
      BY <1>1, <1>3
    <3>3. \A m \in 1 .. k : m \in 1 .. Len(used)
      BY <1>1
    <3>4. \A a, b \in 1 .. Len(used) : used[a] = used[b] => a = b
      BY DEF ListsAre, Apart, Once
    <3>5. CASE i \in 1 .. k
      <4>1. u2[i] = used[i] /\ i \in 1 .. Len(used)
        BY <1>3, <3>3, <3>5
      <4>2. CASE j \in 1 .. k
        <5>1. u2[j] = used[j] /\ j \in 1 .. Len(used)
          BY <1>3, <3>3, <4>2
        <5>2. used[i] = used[j]
          BY <4>1, <5>1
        <5>3. i = j
          BY <3>4, <4>1, <5>1, <5>2
        <5> QED BY <5>3
      <4>3. CASE j = k + 1
        BY <1>2, <1>3, <4>1, <4>3
      <4>4. CASE j \in k + 2 .. Len(used) + 1 /\ j - 1 \in 1 .. Len(used)
        <5>1. i = j - 1
          BY <1>3, <3>4, <4>1, <4>4
        <5> QED BY <3>5, <4>4, <5>1
      <4> QED BY <3>2, <4>2, <4>3, <4>4
    <3>6. CASE i = k + 1
      <4>1. j \in k + 2 .. Len(used) + 1 /\ j - 1 \in 1 .. Len(used)
        BY <3>2, <3>6
      <4> QED BY <1>2, <1>3, <3>6, <4>1
    <3>7. CASE i \in k + 2 .. Len(used) + 1 /\ i - 1 \in 1 .. Len(used)
      <4>1. j \in k + 2 .. Len(used) + 1 /\ j - 1 \in 1 .. Len(used)
        BY <3>2, <3>7
      <4>2. i - 1 = j - 1
        BY <1>3, <3>4, <3>7, <4>1
      <4> QED BY <4>1, <3>7, <4>2
    <3> QED BY <3>1, <3>5, <3>6, <3>7
  <2>2. Once(f2)
    <3> SUFFICES ASSUME NEW i \in 1 .. Len(f2), NEW j \in 1 .. Len(f2), f2[i] = f2[j] PROVE i = j
      BY DEF Once
    <3>1. /\ i + 1 \in 1 .. Len(free) /\ j + 1 \in 1 .. Len(free)
          /\ f2[i] = free[i + 1] /\ f2[j] = free[j + 1]
      BY <1>1, <1>4
    <3>2. i + 1 = j + 1
      BY <3>1 DEF ListsAre, Apart, Once
    <3> QED BY <3>2
  <2>3. \A i \in 1 .. Len(u2) : \A j \in 1 .. Len(f2) : u2[i] # f2[j]
    <3> TAKE i \in 1 .. Len(u2)
    <3> TAKE j \in 1 .. Len(f2)
    <3>1. u2[i] \in On(u2) /\ f2[j] \in On(f2)
      BY <1>3, <1>4, OnList
    <3>2. u2[i] \in On(used) => \E a \in 1 .. Len(used) : used[a] = u2[i]
      BY <1>1, OnList
    <3>3. \E b \in 1 .. Len(free) : free[b] = f2[j]
      BY <1>1, <1>10, <3>1, OnList
    <3> QED BY <1>9, <1>10, <3>1, <3>2, <3>3 DEF ListsAre, Apart
  <2>4. Slot \subseteq On(u2) \cup On(f2)
    BY <1>9, <1>10 DEF ListsAre, Apart
  <2>5. Len(u2) + Len(f2) = MaxThreads
    BY <1>1, <1>3, <1>4 DEF ListsAre, Apart
  <2> QED BY <2>1, <2>2, <2>3, <2>4, <2>5 DEF Apart
<1>12. Len(f2) > 0 /\ f2[Len(f2)] = lf
  BY <1>1, <1>4 DEF ListsAre
<1> QED BY <1>6, <1>7, <1>8, <1>9, <1>10, <1>11, <1>12 DEF ListsAre

\* The list without position k.
RemoveAt(l, k) == [j \in 1 .. Len(l) - 1 |-> IF j < k THEN l[j] ELSE l[j + 1]]

LEMMA RemoveAtIs ==
  ASSUME NEW l \in Seq(Slot), NEW k \in 1 .. Len(l)
  PROVE  LET r == RemoveAt(l, k)
         IN  /\ r \in Seq(Slot) /\ Len(r) = Len(l) - 1
             /\ \A j \in 1 .. k - 1 : r[j] = l[j]
             /\ \A j \in k .. Len(l) - 1 : r[j] = l[j + 1]
<1> DEFINE r == RemoveAt(l, k)
<1>1. Len(l) \in Nat /\ Len(l) - 1 \in Nat /\ \A j \in 1 .. Len(l) : l[j] \in Slot
  OBVIOUS
<1>2. r \in [1 .. Len(l) - 1 -> Slot]
  BY <1>1 DEF RemoveAt
<1>3. r \in Seq(Slot) /\ Len(r) = Len(l) - 1
  <2> HIDE DEF r
  <2> QED BY <1>1, <1>2
<1>4. /\ \A j \in 1 .. k - 1 : r[j] = l[j]
      /\ \A j \in k .. Len(l) - 1 : r[j] = l[j + 1]
  BY <1>1 DEF RemoveAt
<1> QED BY <1>3, <1>4

\* th_delete moves slot x from the list of threads to the end of the list of free slots.
LEMMA ListsDelete ==
  ASSUME NEW vec, NEW first, NEW ff, NEW lf, NEW used, NEW free,
         ListsAre(vec, first, ff, lf, used, free),
         NEW x \in On(used), NEW vec2, NEW first2,
         \A s \in Slot :
           /\ vec2[s].next = IF s = x THEN NULL ELSE IF s = lf THEN x
                             ELSE IF s = vec[x].prev THEN vec[x].next ELSE vec[s].next
           /\ vec2[s].prev = IF s = vec[x].next THEN vec[x].prev ELSE vec[s].prev,
         first2 = IF first = x THEN vec[x].next ELSE first
  PROVE  \E used2, free2 :
           /\ ListsAre(vec2, first2, ff, x, used2, free2)
           /\ On(used2) = On(used) \ {x} /\ On(free2) = On(free) \cup {x}
<1>1. /\ used \in Seq(Slot) /\ free \in Seq(Slot) /\ Len(used) \in Nat /\ Len(free) \in Nat
      /\ Len(free) > 0 /\ lf = free[Len(free)]
  BY DEF ListsAre, Path
<1>2. PICK k \in 1 .. Len(used) : used[k] = x
  BY <1>1, OnList
<1> DEFINE u2 == RemoveAt(used, k)
           f2 == Append(free, x)
<1>3. /\ u2 \in Seq(Slot) /\ Len(u2) = Len(used) - 1
      /\ \A j \in 1 .. k - 1 : u2[j] = used[j]
      /\ \A j \in k .. Len(used) - 1 : u2[j] = used[j + 1]
  BY <1>1, RemoveAtIs
<1>4. /\ f2 \in Seq(Slot) /\ Len(f2) = Len(free) + 1 /\ f2[Len(free) + 1] = x
      /\ \A i \in 1 .. Len(free) : f2[i] = free[i]
  BY <1>1, <1>2, AppendProperties
<1> HIDE DEF u2, f2
<1>5. /\ vec[x].next = IF k = Len(used) THEN NULL ELSE used[k + 1]
      /\ vec[x].prev = IF k = 1 THEN NULL ELSE used[k - 1]
  BY <1>2 DEF ListsAre, Path, Prevs
<1>6. \A i, j \in 1 .. Len(used) : used[i] = used[j] => i = j
  BY DEF ListsAre, Apart, Once
<1>7. /\ \A i \in 1 .. Len(used) : used[i] \in Slot /\ used[i] # lf
      /\ x \in Slot /\ x # lf /\ lf \in Slot
  <2>1. Len(free) \in 1 .. Len(free)
    BY <1>1
  <2> QED BY <1>1, <1>2, <2>1 DEF ListsAre, Apart
<1>8. \A i \in 1 .. Len(used) : vec[used[i]].next = IF i = Len(used) THEN NULL ELSE used[i + 1]
  BY DEF ListsAre, Path
<1>9. \A i \in 1 .. Len(used) : vec[used[i]].prev = IF i = 1 THEN NULL ELSE used[i - 1]
  BY DEF ListsAre, Prevs
<1>10. Path(vec2, ff, f2)
  <2>1. ASSUME NEW i \in 1 .. Len(f2)
        PROVE  vec2[f2[i]].next = IF i = Len(f2) THEN NULL ELSE f2[i + 1]
    <3>1. CASE i = Len(f2)
      BY <1>1, <1>4, <1>7, <3>1
    <3>2. CASE i = Len(free)
      <4>1. i \in 1 .. Len(free) /\ f2[i] = lf /\ i # Len(f2) /\ f2[i + 1] = x
        BY <1>1, <1>4, <3>2
      <4> QED BY <1>7, <4>1
    <3>3. CASE i < Len(free)
      <4>1. /\ i \in 1 .. Len(free) /\ i + 1 \in 1 .. Len(free) /\ Len(free) \in 1 .. Len(free)
            /\ i # Len(f2) /\ f2[i] = free[i] /\ f2[i + 1] = free[i + 1] /\ i # Len(free)
        BY <1>1, <1>4, <3>3
      <4>2. free[i] \in Slot /\ free[i] # lf /\ free[i] # x /\ vec[free[i]].next = free[i + 1]
        BY <1>1, <1>2, <4>1 DEF ListsAre, Path, Apart, Once
      <4>3. free[i] # vec[x].prev
        <5>1. k # 1 => k - 1 \in 1 .. Len(used)
          BY <1>1
        <5> QED BY <1>5, <4>1, <4>2, <5>1, Slots DEF ListsAre, Apart
      <4> QED BY <4>1, <4>2, <4>3
    <3> QED BY <1>1, <1>4, <3>1, <3>2, <3>3
  <2>2. Len(f2) # 0 /\ ff = f2[1]
    <3>1. ff = free[1] /\ 1 \in 1 .. Len(free)
      BY <1>1 DEF ListsAre, Path
    <3> QED BY <1>1, <1>4, <3>1
  <2> QED BY <1>4, <2>1, <2>2 DEF Path
<1>11. Path(vec2, first2, u2)
  <2>1. ASSUME NEW i \in 1 .. Len(u2)
        PROVE  vec2[u2[i]].next = IF i = Len(u2) THEN NULL ELSE u2[i + 1]
    <3>1. CASE i < k - 1
      <4>1. i \in 1 .. k - 1 /\ i + 1 \in 1 .. k - 1 /\ i \in 1 .. Len(used) /\ i # Len(u2) /\ i # k
            /\ i # Len(used) /\ k # 1 /\ k - 1 \in 1 .. Len(used) /\ i # k - 1
        BY <1>1, <1>3, <3>1
      <4>2. u2[i] = used[i] /\ u2[i + 1] = used[i + 1]
        BY <1>3, <4>1
      <4>3. used[i] # x /\ used[i] # vec[x].prev
        BY <1>2, <1>5, <1>6, <4>1
      <4>4. vec[used[i]].next = used[i + 1]
        BY <1>8, <4>1
      <4> QED BY <1>7, <4>1, <4>2, <4>3, <4>4
    <3>2. CASE i = k - 1
      <4>1. i \in 1 .. k - 1 /\ i \in 1 .. Len(used) /\ k # 1 /\ i # k
        BY <1>1, <1>3, <3>2
      <4>2. u2[i] = used[i] /\ used[i] = vec[x].prev /\ used[i] # x
        BY <1>2, <1>3, <1>5, <1>6, <3>2, <4>1
      <4>3. vec2[u2[i]].next = vec[x].next
        BY <1>7, <4>1, <4>2
      <4>4. i = Len(u2) <=> k = Len(used)
        BY <1>1, <1>3, <3>2
      <4>5. i # Len(u2) => i + 1 \in k .. Len(used) - 1 /\ i + 1 + 1 = k + 1
        BY <1>1, <1>3, <3>2
      <4>6. i # Len(u2) => u2[i + 1] = used[k + 1]
        BY <1>3, <4>5
      <4> QED BY <1>5, <4>3, <4>4, <4>6
    <3>3. CASE i >= k
      <4>1. i \in k .. Len(used) - 1 /\ i + 1 \in 1 .. Len(used) /\ i + 1 # k
        BY <1>1, <1>3, <3>3
      <4>2. u2[i] = used[i + 1] /\ used[i + 1] # x
        BY <1>2, <1>3, <1>6, <4>1
      <4>3. used[i + 1] # vec[x].prev
        <5>1. k # 1 => k - 1 \in 1 .. Len(used) /\ i + 1 # k - 1
          BY <1>1, <3>3
        <5>2. k # 1 => used[i + 1] # used[k - 1]
          BY <1>6, <4>1, <5>1
        <5> QED BY <1>5, <1>7, <4>1, <5>2, Slots
      <4>4. vec2[u2[i]].next = vec[used[i + 1]].next
        BY <1>7, <4>1, <4>2, <4>3
      <4>5. i = Len(u2) <=> i + 1 = Len(used)
        BY <1>1, <1>3
      <4>6. i # Len(u2) => i + 1 \in k .. Len(used) - 1
        BY <1>1, <1>3, <4>1
      <4> QED BY <1>3, <1>8, <4>1, <4>4, <4>5, <4>6
    <3> QED BY <1>1, <1>3, <3>1, <3>2, <3>3
  <2>2. first2 = IF Len(u2) = 0 THEN NULL ELSE u2[1]
    <3>1. first = used[1] /\ 1 \in 1 .. Len(used)
      BY <1>1, <1>2 DEF ListsAre, Path
    <3>2. CASE k = 1
      <4>1. first2 = IF Len(used) = 1 THEN NULL ELSE used[2]
        BY <1>2, <1>5, <3>1, <3>2
      <4>2. Len(used) # 1 => 1 \in k .. Len(used) - 1 /\ Len(u2) # 0
        BY <1>1, <1>3, <3>1, <3>2
      <4>3. Len(used) # 1 => u2[1] = used[1 + 1]
        BY <1>3, <4>2
      <4> QED BY <1>1, <1>3, <4>1, <4>2, <4>3
    <3>3. CASE k # 1
      <4>1. first # x /\ 1 \in 1 .. k - 1 /\ Len(u2) # 0
        BY <1>1, <1>2, <1>3, <1>6, <3>1, <3>3
      <4> QED BY <1>3, <3>1, <4>1
    <3> QED BY <3>2, <3>3
  <2> QED BY <1>3, <2>1, <2>2 DEF Path
<1>12. Prevs(vec2, u2)
  <2> SUFFICES ASSUME NEW i \in 1 .. Len(u2)
               PROVE  vec2[u2[i]].prev = IF i = 1 THEN NULL ELSE u2[i - 1]
    BY DEF Prevs
  <2>1. CASE i < k
    <3>1. i \in 1 .. k - 1 /\ i \in 1 .. Len(used) /\ (i # 1 => i - 1 \in 1 .. k - 1)
      BY <1>1, <1>3, <2>1
    <3>2. u2[i] = used[i] /\ used[i] \in Slot
      BY <1>3, <1>7, <3>1
    <3>3. used[i] # vec[x].next
      <4>1. k # Len(used) => k + 1 \in 1 .. Len(used) /\ i # k + 1
        BY <1>1, <2>1
      <4> QED BY <1>5, <1>6, <3>1, <3>2, <4>1, Slots
    <3>4. vec2[u2[i]].prev = vec[used[i]].prev
      BY <3>2, <3>3
    <3>5. vec[used[i]].prev = IF i = 1 THEN NULL ELSE used[i - 1]
      BY <1>9, <3>1
    <3>6. i # 1 => u2[i - 1] = used[i - 1]
      BY <1>3, <3>1
    <3> QED BY <3>4, <3>5, <3>6
  <2>2. CASE i = k
    <3>1. i \in k .. Len(used) - 1 /\ k # Len(used) /\ k + 1 \in 1 .. Len(used)
      BY <1>1, <1>3, <2>2
    <3>2. u2[i] = used[k + 1] /\ used[k + 1] = vec[x].next /\ used[k + 1] \in Slot
      BY <1>3, <1>5, <1>7, <2>2, <3>1
    <3>3. vec2[u2[i]].prev = vec[x].prev
      BY <3>2
    <3>4. k # 1 => k - 1 \in 1 .. k - 1
      BY <1>1
    <3>5. k # 1 => u2[k - 1] = used[k - 1]
      BY <1>3, <3>4
    <3> QED BY <1>5, <2>2, <3>3, <3>5
  <2>3. CASE i > k
    <3>1. /\ i \in k .. Len(used) - 1 /\ i - 1 \in k .. Len(used) - 1 /\ i + 1 \in 1 .. Len(used)
          /\ i # 1 /\ i + 1 # 1 /\ i + 1 # k + 1 /\ i - 1 + 1 = i + 1 - 1
      BY <1>1, <1>3, <2>3
    <3>2. u2[i] = used[i + 1] /\ u2[i - 1] = used[i + 1 - 1] /\ used[i + 1] \in Slot
      BY <1>3, <1>7, <3>1
    <3>3. used[i + 1] # vec[x].next
      <4>1. k # Len(used) => k + 1 \in 1 .. Len(used)
        BY <1>1
      <4> QED BY <1>5, <1>6, <3>1, <3>2, <4>1, Slots
    <3>4. vec[used[i + 1]].prev = used[i + 1 - 1]
      BY <1>9, <3>1
    <3> QED BY <3>1, <3>2, <3>3, <3>4
  <2> QED BY <1>1, <1>3, <2>1, <2>2, <2>3
<1>13. On(u2) = On(used) \ {x}
  <2>1. ASSUME NEW i \in 1 .. Len(u2) PROVE u2[i] # x /\ \E j \in 1 .. Len(used) : u2[i] = used[j]
    <3>1. CASE i < k
      <4>1. i \in 1 .. k - 1 /\ i \in 1 .. Len(used) /\ i # k
        BY <1>1, <1>3, <3>1
      <4> QED BY <1>2, <1>3, <1>6, <4>1
    <3>2. CASE ~(i < k)
      <4>1. i \in k .. Len(used) - 1 /\ i + 1 \in 1 .. Len(used) /\ i + 1 # k
        BY <1>1, <1>3, <3>2
      <4> QED BY <1>2, <1>3, <1>6, <4>1
    <3> QED BY <3>1, <3>2
  <2>2. ASSUME NEW j \in 1 .. Len(used), used[j] # x PROVE \E i \in 1 .. Len(u2) : u2[i] = used[j]
    <3>1. CASE j < k
      <4>1. j \in 1 .. k - 1 /\ j \in 1 .. Len(u2)
        BY <1>1, <1>3, <3>1
      <4> QED BY <1>3, <4>1
    <3>2. CASE ~(j < k)
      <4>1. j # k
        BY <1>2, <2>2
      <4>2. j - 1 \in k .. Len(used) - 1 /\ j - 1 \in 1 .. Len(u2) /\ j - 1 + 1 = j
        BY <1>1, <1>3, <3>2, <4>1
      <4>3. u2[j - 1] = used[j]
        BY <1>3, <4>2
      <4> QED BY <4>2, <4>3
    <3> QED BY <3>1, <3>2
  <2>3. /\ \A y : y \in On(u2) <=> \E i \in 1 .. Len(u2) : u2[i] = y
        /\ \A y : y \in On(used) <=> \E i \in 1 .. Len(used) : used[i] = y
    BY <1>1, <1>3, OnList
  <2>4. \A y : y \in On(u2) => y \in On(used) \ {x}
    BY <2>1, <2>3
  <2>5. \A y : y \in On(used) \ {x} => y \in On(u2)
    BY <2>2, <2>3
  <2> QED BY <2>4, <2>5
<1>14. On(f2) = On(free) \cup {x}
  <2>1. /\ \A y : y \in On(f2) <=> \E i \in 1 .. Len(f2) : f2[i] = y
        /\ \A y : y \in On(free) <=> \E i \in 1 .. Len(free) : free[i] = y
    BY <1>1, <1>4, OnList
  <2>2. \A i \in 1 .. Len(f2) : f2[i] = x \/ i \in 1 .. Len(free)
    BY <1>1, <1>4
  <2>3. \A i \in 1 .. Len(free) : i \in 1 .. Len(f2)
    BY <1>1, <1>4
  <2>4. Len(free) + 1 \in 1 .. Len(f2)
    BY <1>1, <1>4
  <2>5. \A y : y \in On(f2) => y \in On(free) \cup {x}
    BY <1>4, <2>1, <2>2
  <2>6. \A y : y \in On(free) \cup {x} => y \in On(f2)
    BY <1>4, <2>1, <2>3, <2>4
  <2> QED BY <2>5, <2>6
<1>15. Apart(u2, f2)
  <2>1. Once(u2)
    <3> SUFFICES ASSUME NEW i \in 1 .. Len(u2), NEW j \in 1 .. Len(u2), u2[i] = u2[j]
                 PROVE  i = j
      BY DEF Once
    <3> DEFINE up(m) == IF m < k THEN m ELSE m + 1
    <3>1. \A m \in 1 .. Len(u2) : up(m) \in 1 .. Len(used) /\ u2[m] = used[up(m)]
      <4> TAKE m \in 1 .. Len(u2)
      <4>1. CASE m < k
        <5>1. m \in 1 .. k - 1 /\ m \in 1 .. Len(used)
          BY <1>1, <1>3, <4>1
        <5> QED BY <1>3, <4>1, <5>1
      <4>2. CASE ~(m < k)
        <5>1. m \in k .. Len(used) - 1 /\ m + 1 \in 1 .. Len(used)
          BY <1>1, <1>3, <4>2
        <5> QED BY <1>3, <4>2, <5>1
      <4> QED BY <4>1, <4>2
    <3>2. up(i) = up(j)
      <4> HIDE DEF up
      <4> QED BY <1>6, <3>1
    <3> QED BY <1>1, <1>3, <3>2
  <2>2. Once(f2)
    <3> SUFFICES ASSUME NEW i \in 1 .. Len(f2), NEW j \in 1 .. Len(f2), f2[i] = f2[j] PROVE i = j
      BY DEF Once
    <3>1. \A m \in 1 .. Len(free) : free[m] # x
      BY <1>2 DEF ListsAre, Apart
    <3>2. \A m, n \in 1 .. Len(free) : free[m] = free[n] => m = n
      BY DEF ListsAre, Apart, Once
    <3>3. (i \in 1 .. Len(free) \/ i = Len(free) + 1) /\ (j \in 1 .. Len(free) \/ j = Len(free) + 1)
      BY <1>1, <1>4
    <3> QED BY <1>4, <3>1, <3>2, <3>3
  <2>3. \A i \in 1 .. Len(u2) : \A j \in 1 .. Len(f2) : u2[i] # f2[j]
    <3> TAKE i \in 1 .. Len(u2)
    <3> TAKE j \in 1 .. Len(f2)
    <3>1. u2[i] \in On(u2) /\ f2[j] \in On(f2)
      BY <1>3, <1>4, OnList
    <3>2. u2[i] # x /\ \E a \in 1 .. Len(used) : used[a] = u2[i]
      BY <1>1, <1>13, <3>1, OnList
    <3>3. f2[j] = x \/ \E b \in 1 .. Len(free) : free[b] = f2[j]
      BY <1>1, <1>14, <3>1, OnList
    <3> QED BY <3>2, <3>3 DEF ListsAre, Apart
  <2>4. Slot \subseteq On(u2) \cup On(f2)
    BY <1>13, <1>14 DEF ListsAre, Apart
  <2>5. Len(u2) + Len(f2) = MaxThreads
    BY <1>1, <1>3, <1>4 DEF ListsAre, Apart
  <2> QED BY <2>1, <2>2, <2>3, <2>4, <2>5 DEF Apart
<1>16. Len(f2) > 0 /\ f2[Len(f2)] = x
  BY <1>1, <1>4
<1> QED BY <1>10, <1>11, <1>12, <1>13, <1>14, <1>15, <1>16 DEF ListsAre

-----------------------------------------------------------------------------
(* The invariant *)

OSStates == {"none", "setup", "started", "running", "exiting", "ended"}
PJStates == {"joinable", "joining", "joined", "detached"}
IdTypes == (Slot \cup {NULL}) \X (0..(Incarnations - 1))
ThrTypes == [os : OSStates, pj : PJStates, id : IdTypes]
VecTypes == [next : Slot \cup {NULL}, prev : Slot \cup {NULL}, incarn : 0..(Incarnations - 1),
             valid : BOOLEAN, detached : BOOLEAN, exited : BOOLEAN,
             tid : Thread \cup {NoThread}, ctxt : Thread \cup {NoThread}]
Waits == {"join", "joinwait", "joined", "detach", "detached"}
Creates == {"create", "created", "failed", "delete"}
CreateTypes == [at : Creates, child : Thread]
DeleteTypes == [at : DeleteStages, slot : Slot]
WaitTypes == [at : Waits, id : Slot \X (0..(Incarnations - 1)), tid : Thread]
ReqTypes == {NoReq} \cup CreateTypes \cup DeleteTypes \cup WaitTypes

Types ==
  /\ thr \in [Thread -> ThrTypes] /\ th_vec \in [Slot -> VecTypes]
  /\ req \in [Thread -> ReqTypes]
  /\ th_first_free \in Slot \cup {NULL} /\ th_last_free \in Slot \cup {NULL}
  /\ th_first_thread \in Slot \cup {NULL}

\* A creator that has no thread for the slot of its child.
Unmade == {"create", "failed", "delete"}
SlotOf(c) == thr[c].id[1]
Creating ==
  /\ \A u \in Thread : req[u].at \in Unmade => thr[req[u].child].os = "setup"
  /\ \A u, v \in Thread : req[u].at \in Unmade /\ req[v].at \in Unmade /\ req[u].child = req[v].child
                          => u = v

\* Thread c has not given back its slot yet.
Live(c) == thr[c].os \in {"setup", "started", "running"}
Slotted == \A c \in Thread : Live(c) => SlotOf(c) \in Slot

\* What holds however the table has been disturbed.
Base == Types /\ Creating /\ Slotted

\* The links of the lists and the places where these begin and end, and what the statements
\* of th_delete(i) after the first one do to them.
Links == [next |-> [s \in Slot |-> th_vec[s].next], prev |-> [s \in Slot |-> th_vec[s].prev],
          first |-> th_first_thread, ff |-> th_first_free, lf |-> th_last_free]
DoBack(i, l) == [l EXCEPT !.prev = [s \in Slot |-> IF s = l.next[i] THEN l.prev[i] ELSE l.prev[s]]]
DoHead(i, l) == [l EXCEPT !.first = IF l.first = i THEN l.next[i] ELSE l.first]
DoAppend(i, l) == [l EXCEPT !.next = [s \in Slot |-> IF s = l.lf THEN i ELSE l.next[s]]]
DoTail(i, l) == [l EXCEPT !.lf = i]
DoOnly(i, l) == DoTail(i, [l EXCEPT !.ff = i])
DoEnd(i, l) == [l EXCEPT !.next = [s \in Slot |-> IF s = l.lf THEN NULL ELSE l.next[s]]]

\* What they leave together, from each of them on.
FromTail(i, l) == DoEnd(i, DoTail(i, l))
FromAppend(i, l) == FromTail(i, DoAppend(i, l))
FromTest(i, l) == IF l.ff = NULL THEN DoOnly(i, l) ELSE FromAppend(i, l)
FromHead(i, l) == FromTest(i, DoHead(i, l))
FromBack(i, l) == FromHead(i, DoBack(i, l))
Rest(at, i, l) ==
  CASE at = "back" -> FromBack(i, l) [] at = "head" -> FromHead(i, l) [] at = "test" -> FromTest(i, l)
    [] at = "only" -> DoOnly(i, l) [] at = "append" -> FromAppend(i, l) [] at = "tail" -> FromTail(i, l)
    [] at = "end" -> DoEnd(i, l) [] OTHER -> l

\* The links as they are when nobody is in the middle of a th_delete any more, and the
\* lists they make.
Deleters == {u \in Thread : req[u].at \in DeleteStages}
Deleter == CHOOSE u \in Deleters : TRUE
View == IF Deleters = {} THEN Links ELSE Rest(req[Deleter].at, req[Deleter].slot, Links)
LinkVec(l) == [s \in Slot |-> [next |-> l.next[s], prev |-> l.prev[s]]]
VThreads == ListFrom(LinkVec(View), View.first)
VFree == ListFrom(LinkVec(View), View.ff)
Lists ==
  /\ ListsAre(LinkVec(View), View.first, View.ff, View.lf, VThreads, VFree)
  /\ \A u, v \in Deleters : u = v
  /\ \A u \in Deleters : req[u].slot \in On(VFree)

\* A request that is about to give back the slot of thread c, or to detach it.
Detached(c) == \E u \in Thread : req[u].at = "detached" /\ req[u].tid = c
Joined(c) == \E u \in Thread : req[u].at = "joined" /\ req[u].tid = c

\* Thread c has not given back its slot, nor will the requests of others.
Holds(c) ==
  \/ Live(c)
  \/ /\ thr[c].os \in {"exiting", "ended"}
     /\ thr[c].pj \in {"joinable", "joining"} \/ Joined(c) \/ Detached(c)

HolderOK(c) ==
  /\ SlotOf(c) \in On(VThreads)
  /\ th_vec[SlotOf(c)].incarn = thr[c].id[2]
  /\ Live(c) => /\ th_vec[SlotOf(c)].ctxt = c /\ ~th_vec[SlotOf(c)].exited
                /\ th_vec[SlotOf(c)].detached <=> thr[c].pj = "detached" /\ ~Detached(c)
  /\ ~Live(c) => th_vec[SlotOf(c)].exited
  /\ thr[c].os # "setup" => th_vec[SlotOf(c)].tid = c
  /\ thr[c].os \notin {"setup", "started"} => th_vec[SlotOf(c)].valid
Owners ==
  /\ \A c \in Thread : Holds(c) => HolderOK(c)
  /\ \A c, d \in Thread : Holds(c) /\ Holds(d) /\ SlotOf(c) = SlotOf(d) => c = d

\* A slot names a thread that was given that slot.
Tids == \A s \in Slot : \A c \in Thread : th_vec[s].tid = c =>
          thr[c].os \notin {"none", "setup"} /\ SlotOf(c) = s

\* What a request knows of its thread.
Started(c) == thr[c].os \notin {"none", "setup"}
Requests ==
  /\ Creating
  /\ \A u \in Thread :
       /\ req[u].at \in Waits => Started(req[u].tid)
       /\ req[u].at \in {"join", "detach"} /\ thr[req[u].tid].pj = "joinable" => req[u].id = thr[req[u].tid].id
       /\ req[u].at \in {"joinwait", "joined", "detached"} => req[u].id = thr[req[u].tid].id
       /\ req[u].at = "joinwait" => thr[req[u].tid].pj = "joining"
       /\ req[u].at = "joined" => thr[req[u].tid].pj = "joined"
       /\ req[u].at = "detached" => thr[req[u].tid].pj = "detached"
       /\ req[u].at = "created" => Started(req[u].child) /\ SlotOf(req[u].child) \in Slot
  /\ \A u, v \in Thread :
       req[u].at \in {"joinwait", "joined", "detached"} /\ req[v].at \in {"joinwait", "joined", "detached"}
       /\ req[u].tid = req[v].tid => u = v

\* A thread that has been joined has ended, and only such a thread has lost its slot number.
Ends == \A c \in Thread : /\ thr[c].pj = "joined" => thr[c].os = "ended"
                          /\ SlotOf(c) \notin Slot => thr[c].os = "none" \/ thr[c].pj = "joined"

\* The main thread stays.
Mains == thr[Main].os = "running" /\ thr[Main].id = <<0, 0>>

IInv == Types /\ Lists /\ Owners /\ Tids /\ Requests /\ Ends /\ Mains

\* No slot has been given to more threads than there are incarnations: the ids of the
\* threads that were given it differ, the last of them is the one it names, and when that
\* one holds it no more it is free.
Created == {c \in Thread : thr[c].os # "none"}
Incarns ==
  /\ \A c \in Thread : SlotOf(c) \in Slot => thr[c].id[2] <= th_vec[SlotOf(c)].incarn
  /\ \A c, d \in Thread : SlotOf(c) \in Slot /\ thr[c].id = thr[d].id => c = d
  /\ \A s \in Slot \ {0} :
       \/ th_vec[s].incarn = Incarnations - 1 /\ \A c \in Thread : SlotOf(c) # s
       \/ th_vec[s].incarn + 2 <= Cardinality(Created)
  /\ \A c \in Thread : SlotOf(c) \in Slot /\ thr[c].id[2] = th_vec[SlotOf(c)].incarn =>
       /\ Started(c) => th_vec[SlotOf(c)].tid = c
       /\ Holds(c) \/ SlotOf(c) \in On(VFree)

-----------------------------------------------------------------------------
(* Fields *)

\* The request of one thread takes another step.
LEMMA ReqField ==
  ASSUME req \in [Thread -> ReqTypes], NEW u \in Thread
  PROVE  /\ \A x \in ReqTypes : req' = [req EXCEPT ![u] = x] =>
              req' \in [Thread -> ReqTypes] /\ \A v \in Thread : req'[v] = IF v = u THEN x ELSE req[v]
         /\ \A x \in Waits : req[u] \in WaitTypes /\ req' = [req EXCEPT ![u].at = x] =>
              /\ req' \in [Thread -> ReqTypes] /\ \A v \in Thread : v # u => req'[v] = req[v]
              /\ req'[u].at = x /\ req'[u].id = req[u].id /\ req'[u].tid = req[u].tid
         /\ \A x \in Creates : req[u] \in CreateTypes /\ req' = [req EXCEPT ![u].at = x] =>
              /\ req' \in [Thread -> ReqTypes] /\ \A v \in Thread : v # u => req'[v] = req[v]
              /\ req'[u].at = x /\ req'[u].child = req[u].child
         /\ \A x \in DeleteStages : req[u] \in DeleteTypes /\ req' = [req EXCEPT ![u].at = x] =>
              /\ req' \in [Thread -> ReqTypes] /\ \A v \in Thread : v # u => req'[v] = req[v]
              /\ req'[u].at = x /\ req'[u].slot = req[u].slot
         /\ req[u].at \in Waits => req[u] \in WaitTypes
         /\ req[u].at \in Creates => req[u] \in CreateTypes
         /\ req[u].at \in DeleteStages => req[u] \in DeleteTypes
<1>1. \A r \in WaitTypes : \A x \in Waits :
        /\ [r EXCEPT !.at = x] \in WaitTypes /\ [r EXCEPT !.at = x].at = x
        /\ [r EXCEPT !.at = x].id = r.id /\ [r EXCEPT !.at = x].tid = r.tid
  BY DEF WaitTypes
<1>2. \A r \in CreateTypes : \A x \in Creates :
        /\ [r EXCEPT !.at = x] \in CreateTypes /\ [r EXCEPT !.at = x].at = x
        /\ [r EXCEPT !.at = x].child = r.child
  BY DEF CreateTypes
<1>3. \A r \in DeleteTypes : \A x \in DeleteStages :
        /\ [r EXCEPT !.at = x] \in DeleteTypes /\ [r EXCEPT !.at = x].at = x
        /\ [r EXCEPT !.at = x].slot = r.slot
  BY DEF DeleteTypes
<1>4. \A r : r \in WaitTypes \/ r \in CreateTypes \/ r \in DeleteTypes => r \in ReqTypes
  BY DEF ReqTypes
<1>5. ASSUME NEW x \in ReqTypes, req' = [req EXCEPT ![u] = x]
      PROVE  req' \in [Thread -> ReqTypes] /\ \A v \in Thread : req'[v] = IF v = u THEN x ELSE req[v]
  BY <1>5
<1>6. ASSUME NEW x, req' = [req EXCEPT ![u].at = x]
      PROVE  req' = [req EXCEPT ![u] = [req[u] EXCEPT !.at = x]]
  BY <1>6
<1>7. ASSUME NEW x \in Waits, req[u] \in WaitTypes, req' = [req EXCEPT ![u].at = x]
      PROVE  /\ req' \in [Thread -> ReqTypes] /\ \A v \in Thread : v # u => req'[v] = req[v]
             /\ req'[u].at = x /\ req'[u].id = req[u].id /\ req'[u].tid = req[u].tid
  <2>1. PICK r : r = [req[u] EXCEPT !.at = x]
    OBVIOUS
  <2>2. r \in ReqTypes /\ r.at = x /\ r.id = req[u].id /\ r.tid = req[u].tid
    BY <1>1, <1>4, <1>7, <2>1
  <2>3. req' = [req EXCEPT ![u] = r]
    BY <1>6, <1>7, <2>1
  <2> QED BY <1>5, <2>2, <2>3
<1>8. ASSUME NEW x \in Creates, req[u] \in CreateTypes, req' = [req EXCEPT ![u].at = x]
      PROVE  /\ req' \in [Thread -> ReqTypes] /\ \A v \in Thread : v # u => req'[v] = req[v]
             /\ req'[u].at = x /\ req'[u].child = req[u].child
  <2>1. PICK r : r = [req[u] EXCEPT !.at = x]
    OBVIOUS
  <2>2. r \in ReqTypes /\ r.at = x /\ r.child = req[u].child
    BY <1>2, <1>4, <1>8, <2>1
  <2>3. req' = [req EXCEPT ![u] = r]
    BY <1>6, <1>8, <2>1
  <2> QED BY <1>5, <2>2, <2>3
<1>9. ASSUME NEW x \in DeleteStages, req[u] \in DeleteTypes, req' = [req EXCEPT ![u].at = x]
      PROVE  /\ req' \in [Thread -> ReqTypes] /\ \A v \in Thread : v # u => req'[v] = req[v]
             /\ req'[u].at = x /\ req'[u].slot = req[u].slot
  <2>1. PICK r : r = [req[u] EXCEPT !.at = x]
    OBVIOUS
  <2>2. r \in ReqTypes /\ r.at = x /\ r.slot = req[u].slot
    BY <1>3, <1>4, <1>9, <2>1
  <2>3. req' = [req EXCEPT ![u] = r]
    BY <1>6, <1>9, <2>1
  <2> QED BY <1>5, <2>2, <2>3
<1>10. /\ req[u].at \in Waits => req[u] \in WaitTypes
       /\ req[u].at \in Creates => req[u] \in CreateTypes
       /\ req[u].at \in DeleteStages => req[u] \in DeleteTypes
  BY DEF ReqTypes, NoReq, CreateTypes, DeleteTypes, WaitTypes, Waits, Creates, DeleteStages
<1> QED BY <1>5, <1>7, <1>8, <1>9, <1>10

\* The fields that are not links.
Same(s, t) == s.next = t.next /\ s.prev = t.prev /\ s.incarn = t.incarn

\* One field of one slot is changed.
TidSet(vec2, vec, i, x) ==
  \A s \in Slot : /\ Same(vec2[s], vec[s])
                  /\ vec2[s].valid = vec[s].valid /\ vec2[s].detached = vec[s].detached
                  /\ vec2[s].exited = vec[s].exited /\ vec2[s].ctxt = vec[s].ctxt
                  /\ vec2[s].tid = IF s = i THEN x ELSE vec[s].tid
ValidSet(vec2, vec, i, x) ==
  \A s \in Slot : /\ Same(vec2[s], vec[s])
                  /\ vec2[s].tid = vec[s].tid /\ vec2[s].detached = vec[s].detached
                  /\ vec2[s].exited = vec[s].exited /\ vec2[s].ctxt = vec[s].ctxt
                  /\ vec2[s].valid = IF s = i THEN x ELSE vec[s].valid
DetachedSet(vec2, vec, i, x) ==
  \A s \in Slot : /\ Same(vec2[s], vec[s])
                  /\ vec2[s].tid = vec[s].tid /\ vec2[s].valid = vec[s].valid
                  /\ vec2[s].exited = vec[s].exited /\ vec2[s].ctxt = vec[s].ctxt
                  /\ vec2[s].detached = IF s = i THEN x ELSE vec[s].detached
ExitedSet(vec2, vec, i, x) ==
  \A s \in Slot : /\ Same(vec2[s], vec[s])
                  /\ vec2[s].tid = vec[s].tid /\ vec2[s].valid = vec[s].valid
                  /\ vec2[s].detached = vec[s].detached /\ vec2[s].ctxt = vec[s].ctxt
                  /\ vec2[s].exited = IF s = i THEN x ELSE vec[s].exited
CtxtSet(vec2, vec, i, x) ==
  \A s \in Slot : /\ Same(vec2[s], vec[s])
                  /\ vec2[s].tid = vec[s].tid /\ vec2[s].valid = vec[s].valid
                  /\ vec2[s].detached = vec[s].detached /\ vec2[s].exited = vec[s].exited
                  /\ vec2[s].ctxt = IF s = i THEN x ELSE vec[s].ctxt

LEMMA TidStep ==
  ASSUME NEW vec \in [Slot -> VecTypes], NEW i \in Slot, NEW x \in Thread \cup {NoThread},
         NEW vec2, vec2 = [vec EXCEPT ![i].tid = x]
  PROVE  vec2 \in [Slot -> VecTypes] /\ TidSet(vec2, vec, i, x)
<1>1. \A r \in VecTypes :
        /\ [r EXCEPT !.tid = x] \in VecTypes /\ Same([r EXCEPT !.tid = x], r)
        /\ [r EXCEPT !.tid = x].valid = r.valid /\ [r EXCEPT !.tid = x].detached = r.detached
        /\ [r EXCEPT !.tid = x].exited = r.exited /\ [r EXCEPT !.tid = x].ctxt = r.ctxt
        /\ [r EXCEPT !.tid = x].tid = x
  BY DEF VecTypes, Same
<1>2. vec2 = [s \in Slot |-> IF s = i THEN [vec[s] EXCEPT !.tid = x] ELSE vec[s]]
  OBVIOUS
<1>3. \A s \in Slot : vec[s] \in VecTypes /\ Same(vec[s], vec[s])
  BY DEF Same
<1> QED BY <1>1, <1>2, <1>3 DEF TidSet

LEMMA ValidStep ==
  ASSUME NEW vec \in [Slot -> VecTypes], NEW i \in Slot, NEW x \in BOOLEAN,
         NEW vec2, vec2 = [vec EXCEPT ![i].valid = x]
  PROVE  vec2 \in [Slot -> VecTypes] /\ ValidSet(vec2, vec, i, x)
<1>1. \A r \in VecTypes :
        /\ [r EXCEPT !.valid = x] \in VecTypes /\ Same([r EXCEPT !.valid = x], r)
        /\ [r EXCEPT !.valid = x].tid = r.tid /\ [r EXCEPT !.valid = x].detached = r.detached
        /\ [r EXCEPT !.valid = x].exited = r.exited /\ [r EXCEPT !.valid = x].ctxt = r.ctxt
        /\ [r EXCEPT !.valid = x].valid = x
  BY DEF VecTypes, Same
<1>2. vec2 = [s \in Slot |-> IF s = i THEN [vec[s] EXCEPT !.valid = x] ELSE vec[s]]
  OBVIOUS
<1>3. \A s \in Slot : vec[s] \in VecTypes /\ Same(vec[s], vec[s])
  BY DEF Same
<1> QED BY <1>1, <1>2, <1>3 DEF ValidSet

LEMMA DetachedStep ==
  ASSUME NEW vec \in [Slot -> VecTypes], NEW i \in Slot, NEW x \in BOOLEAN,
         NEW vec2, vec2 = [vec EXCEPT ![i].detached = x]
  PROVE  vec2 \in [Slot -> VecTypes] /\ DetachedSet(vec2, vec, i, x)
<1>1. \A r \in VecTypes :
        /\ [r EXCEPT !.detached = x] \in VecTypes /\ Same([r EXCEPT !.detached = x], r)
        /\ [r EXCEPT !.detached = x].tid = r.tid /\ [r EXCEPT !.detached = x].valid = r.valid
        /\ [r EXCEPT !.detached = x].exited = r.exited /\ [r EXCEPT !.detached = x].ctxt = r.ctxt
        /\ [r EXCEPT !.detached = x].detached = x
  BY DEF VecTypes, Same
<1>2. vec2 = [s \in Slot |-> IF s = i THEN [vec[s] EXCEPT !.detached = x] ELSE vec[s]]
  OBVIOUS
<1>3. \A s \in Slot : vec[s] \in VecTypes /\ Same(vec[s], vec[s])
  BY DEF Same
<1> QED BY <1>1, <1>2, <1>3 DEF DetachedSet

LEMMA ExitedStep ==
  ASSUME NEW vec \in [Slot -> VecTypes], NEW i \in Slot, NEW x \in BOOLEAN,
         NEW vec2, vec2 = [vec EXCEPT ![i].exited = x]
  PROVE  vec2 \in [Slot -> VecTypes] /\ ExitedSet(vec2, vec, i, x)
<1>1. \A r \in VecTypes :
        /\ [r EXCEPT !.exited = x] \in VecTypes /\ Same([r EXCEPT !.exited = x], r)
        /\ [r EXCEPT !.exited = x].tid = r.tid /\ [r EXCEPT !.exited = x].valid = r.valid
        /\ [r EXCEPT !.exited = x].detached = r.detached /\ [r EXCEPT !.exited = x].ctxt = r.ctxt
        /\ [r EXCEPT !.exited = x].exited = x
  BY DEF VecTypes, Same
<1>2. vec2 = [s \in Slot |-> IF s = i THEN [vec[s] EXCEPT !.exited = x] ELSE vec[s]]
  OBVIOUS
<1>3. \A s \in Slot : vec[s] \in VecTypes /\ Same(vec[s], vec[s])
  BY DEF Same
<1> QED BY <1>1, <1>2, <1>3 DEF ExitedSet

LEMMA CtxtStep ==
  ASSUME NEW vec \in [Slot -> VecTypes], NEW i \in Slot, NEW x \in Thread \cup {NoThread},
         NEW vec2, vec2 = [vec EXCEPT ![i].ctxt = x]
  PROVE  vec2 \in [Slot -> VecTypes] /\ CtxtSet(vec2, vec, i, x)
<1>1. \A r \in VecTypes :
        /\ [r EXCEPT !.ctxt = x] \in VecTypes /\ Same([r EXCEPT !.ctxt = x], r)
        /\ [r EXCEPT !.ctxt = x].tid = r.tid /\ [r EXCEPT !.ctxt = x].valid = r.valid
        /\ [r EXCEPT !.ctxt = x].detached = r.detached /\ [r EXCEPT !.ctxt = x].exited = r.exited
        /\ [r EXCEPT !.ctxt = x].ctxt = x
  BY DEF VecTypes, Same
<1>2. vec2 = [s \in Slot |-> IF s = i THEN [vec[s] EXCEPT !.ctxt = x] ELSE vec[s]]
  OBVIOUS
<1>3. \A s \in Slot : vec[s] \in VecTypes /\ Same(vec[s], vec[s])
  BY DEF Same
<1> QED BY <1>1, <1>2, <1>3 DEF CtxtSet

-----------------------------------------------------------------------------
(* Steps *)

LEMMA Typed ==
  ASSUME NEW vec \in [Slot -> VecTypes]
  PROVE  Linking(vec)
BY DEF VecTypes, Linking

\* The lists are the sequences of slots that ListsAre says.
LEMMA ListsTo ==
  ASSUME NEW vec, Linking(vec), NEW first, NEW ff, NEW lf, NEW used, NEW free,
         ListsAre(vec, first, ff, lf, used, free)
  PROVE  ListFrom(vec, first) = used /\ ListFrom(vec, ff) = free
<1>1. Len(used) <= MaxThreads /\ Len(free) <= MaxThreads
  <2>1. Len(used) \in Nat /\ Len(free) \in Nat /\ Len(used) + Len(free) = MaxThreads
    BY DEF ListsAre, Path, Apart
  <2> QED BY <2>1, Slots
<1> QED BY <1>1, ListIs DEF ListsAre

\* Links that are those of vec make the lists of vec.
Linked(l, vec) == \A s \in Slot : l.next[s] = vec[s].next /\ l.prev[s] = vec[s].prev
LEMMA LinkedLists ==
  ASSUME NEW vec, Linking(vec), NEW l, Linked(l, vec), NEW used, NEW free,
         ListsAre(vec, l.first, l.ff, l.lf, used, free)
  PROVE  /\ ListsAre(LinkVec(l), l.first, l.ff, l.lf, used, free)
         /\ ListFrom(LinkVec(l), l.first) = used /\ ListFrom(LinkVec(l), l.ff) = free
<1>1. \A s \in Slot : LinkVec(l)[s].next = vec[s].next /\ LinkVec(l)[s].prev = vec[s].prev
  BY DEF LinkVec, Linked
<1>2. Linking(LinkVec(l))
  BY <1>1 DEF Linking
<1>3. ListsAre(LinkVec(l), l.first, l.ff, l.lf, used, free)
  BY <1>1, ListsKept
<1> QED BY <1>2, <1>3, ListsTo

\* When nobody is in the middle of a th_delete the view is the table.
LEMMA Between ==
  ASSUME Types, Lists, Deleters = {}
  PROVE  /\ ListsAre(th_vec, th_first_thread, th_first_free, th_last_free, VThreads, VFree)
         /\ Threads = VThreads /\ FreeSlots = VFree
<1>1. PICK used, free : used = VThreads /\ free = VFree
  OBVIOUS
<1>2. View = Links
  BY DEF View
<1>3. ListsAre(LinkVec(Links), th_first_thread, th_first_free, th_last_free, used, free)
  BY <1>1, <1>2 DEF Lists, Links
<1>4. \A s \in Slot : th_vec[s].next = LinkVec(Links)[s].next /\ th_vec[s].prev = LinkVec(Links)[s].prev
  BY DEF LinkVec, Links
<1>5. ListsAre(th_vec, th_first_thread, th_first_free, th_last_free, used, free)
  BY <1>3, <1>4, ListsKept
<1>6. Linking(th_vec)
  BY Typed DEF Types
<1>7. Threads = used /\ FreeSlots = free
  BY <1>5, <1>6, ListsTo DEF Threads, FreeSlots
<1> QED BY <1>1, <1>5, <1>7

LEMMA ListStep ==
  ASSUME th_vec' \in [Slot -> VecTypes], Deleters' = {}, NEW u, NEW f,
         ListsAre(th_vec', th_first_thread', th_first_free', th_last_free', u, f)
  PROVE  Lists' /\ VThreads' = u /\ VFree' = f
<1>1. PICK vec, l : vec = th_vec' /\ l = Links'
  OBVIOUS
<1>2. Linked(l, vec) /\ l.first = th_first_thread' /\ l.ff = th_first_free' /\ l.lf = th_last_free'
  BY <1>1 DEF Linked, Links
<1>3. Linking(vec)
  BY <1>1, Typed
<1>4. ListsAre(vec, l.first, l.ff, l.lf, u, f)
  BY <1>1, <1>2
<1>5. /\ ListsAre(LinkVec(l), l.first, l.ff, l.lf, u, f)
      /\ ListFrom(LinkVec(l), l.first) = u /\ ListFrom(LinkVec(l), l.ff) = f
  BY <1>2, <1>3, <1>4, LinkedLists
<1>6. View' = l
  BY <1>1 DEF View
<1>7. VThreads' = u /\ VFree' = f
  BY <1>5, <1>6 DEF VThreads, VFree
<1> QED BY <1>5, <1>6, <1>7 DEF Lists

\* Whoever is in the middle of a th_delete stays where he is, and nobody else begins one.
DeletersStay ==
  \A u \in Thread : req[u].at \in DeleteStages \/ req'[u].at \in DeleteStages => req'[u] = req[u]

LEMMA NoDeleters ==
  /\ InDelete <=> Deleters # {}
  /\ Deleters = {} /\ DeletersStay => Deleters' = {}
BY DEF InDelete, Deleters, DeletersStay

\* A step that leaves the links alone.
LEMMA KeptLists ==
  ASSUME Lists, \A s \in Slot : Same(th_vec'[s], th_vec[s]),
         UNCHANGED <<th_first_free, th_last_free, th_first_thread>>, DeletersStay
  PROVE  Lists' /\ VThreads' = VThreads /\ VFree' = VFree
<1>1. Links' = Links
  <2>1. [s \in Slot |-> th_vec'[s].next] = [s \in Slot |-> th_vec[s].next]
    BY DEF Same
  <2>2. [s \in Slot |-> th_vec'[s].prev] = [s \in Slot |-> th_vec[s].prev]
    BY DEF Same
  <2> QED BY <2>1, <2>2 DEF Links
<1>2. Deleters' = Deleters /\ \A u \in Deleters : req'[u] = req[u]
  BY DEF Deleters, DeletersStay
<1>3. Deleter' = Deleter /\ (Deleters # {} => Deleter \in Deleters)
  BY <1>2 DEF Deleter
<1>4. View' = View
  BY <1>1, <1>2, <1>3 DEF View
<1>5. VThreads' = VThreads /\ VFree' = VFree
  BY <1>4 DEF VThreads, VFree
<1> QED BY <1>2, <1>4, <1>5 DEF Lists

\* The two lists hold slots, and no slot is on both.
LEMMA ListSlots ==
  ASSUME Lists
  PROVE  /\ On(VThreads) \subseteq Slot /\ On(VFree) \subseteq Slot
         /\ \A s \in On(VThreads) : s \notin On(VFree)
<1>1. VThreads \in Seq(Slot) /\ VFree \in Seq(Slot)
      /\ \A i \in 1 .. Len(VThreads) : \A j \in 1 .. Len(VFree) : VThreads[i] # VFree[j]
  BY DEF Lists, ListsAre, Path, Apart
<1>2. \A s : s \in On(VThreads) => \E i \in 1 .. Len(VThreads) : VThreads[i] = s
  BY <1>1, OnList
<1>3. \A s : s \in On(VFree) => \E i \in 1 .. Len(VFree) : VFree[i] = s
  BY <1>1, OnList
<1>4. \A i \in 1 .. Len(VThreads) : VThreads[i] \in Slot
  BY <1>1
<1>5. \A i \in 1 .. Len(VFree) : VFree[i] \in Slot
  BY <1>1
<1> QED BY <1>1, <1>2, <1>3, <1>4, <1>5

\* A thread that holds a slot.
LEMMA Holder ==
  ASSUME IInv, NEW c \in Thread, Holds(c)
  PROVE  SlotOf(c) \in Slot /\ SlotOf(c) \in On(VThreads) /\ HolderOK(c)
BY ListSlots DEF IInv, Owners, HolderOK

\* What every step but th_new's keeps of the incarnations: see Incarns.
Later ==
  /\ \A s \in Slot : /\ th_vec'[s].incarn = th_vec[s].incarn
                     /\ \/ th_vec'[s].tid = th_vec[s].tid
                        \/ \E c \in Thread : /\ th_vec'[s].tid = c /\ SlotOf(c) = s
                                             /\ th_vec[s].incarn = thr[c].id[2]
  /\ On(VFree) \subseteq On(VFree)'
  /\ \A d \in Thread :
       /\ thr'[d].os = "none" <=> thr[d].os = "none"
       /\ \/ thr'[d].id[1] = NULL
          \/ /\ thr'[d].id = thr[d].id
             /\ Holds(d) => Holds(d)' \/ SlotOf(d) \in On(VFree)'
             /\ Started(d)' => Started(d) \/ th_vec'[SlotOf(d)].tid = d

\* A step that does not touch the table and gives no slot back.
LEMMA Quiet ==
  ASSUME IInv, UNCHANGED table, thr' \in [Thread -> ThrTypes], req' \in [Thread -> ReqTypes],
         \A d \in Thread : /\ thr'[d].id = thr[d].id /\ Started(d)' = Started(d)
                           /\ (Holds(d)' <=> Holds(d))
                           /\ Live(d)' = Live(d)
                           /\ thr'[d].os = "setup" <=> thr[d].os = "setup"
                           /\ thr'[d].os \in {"setup", "started"} <=> thr[d].os \in {"setup", "started"}
                           /\ Live(d) => (thr'[d].pj = "detached" /\ ~Detached(d)' <=>
                                          thr[d].pj = "detached" /\ ~Detached(d)),
         thr'[Main].os = thr[Main].os, DeletersStay,
         Requests', Ends'
  PROVE  IInv' /\ Later
<1>1. Types' /\ Tids' /\ Mains'
  <2>1. Types'
    BY DEF IInv, Types, table, heads
  <2>2. Main \in Thread
    BY ThreadTableAssumption
  <2>3. Mains'
    BY <2>2 DEF IInv, Mains
  <2>4. Tids'
    BY DEF IInv, Tids, Started, SlotOf, table
  <2> QED BY <2>1, <2>3, <2>4
<1>2. VThreads' = VThreads /\ VFree' = VFree /\ Lists'
  <2>1. \A s \in Slot : Same(th_vec'[s], th_vec[s])
    BY DEF Same, table
  <2> QED BY <2>1, KeptLists DEF IInv, table, heads
<1>3. Owners'
  <2>1. ASSUME NEW c \in Thread, Holds(c)' PROVE HolderOK(c)'
    <3>1. HolderOK(c) /\ SlotOf(c)' = SlotOf(c)
      BY <2>1, Holder DEF SlotOf
    <3> QED BY <1>2, <3>1 DEF HolderOK, SlotOf, table
  <2>2. \A c, d \in Thread : Holds(c)' /\ Holds(d)' /\ SlotOf(c)' = SlotOf(d)' => c = d
    BY DEF IInv, Owners, SlotOf
  <2> QED BY <2>1, <2>2 DEF Owners
<1>4. Later
  <2>1. th_vec' = th_vec /\ On(VFree)' = On(VFree)
    BY <1>2 DEF table
  <2>2. \A d \in Thread : thr'[d].os = "none" <=> thr[d].os = "none"
    BY DEF Started
  <2> QED BY <2>1, <2>2 DEF Later
<1> QED BY <1>1, <1>2, <1>3, <1>4 DEF IInv

\* The thread of a request.
LEMMA ReqOf ==
  ASSUME Types, NEW u \in Thread
  PROVE  /\ req[u].at \in Waits => /\ req[u] \in WaitTypes /\ req[u].tid \in Thread
                                   /\ req[u].id \in Slot \X (0..(Incarnations - 1)) /\ req[u].id[1] \in Slot
         /\ req[u].at \in Creates => req[u] \in CreateTypes /\ req[u].child \in Thread
         /\ req[u].at \in DeleteStages => req[u] \in DeleteTypes /\ req[u].slot \in Slot
<1>1. /\ req[u].at \in Waits => req[u] \in WaitTypes
      /\ req[u].at \in Creates => req[u] \in CreateTypes
      /\ req[u].at \in DeleteStages => req[u] \in DeleteTypes
  BY ReqField DEF Types
<1> QED BY <1>1 DEF WaitTypes, CreateTypes, DeleteTypes

\* One field of one thread is changed.
LEMMA OsStep ==
  ASSUME Types, NEW c \in Thread, NEW x \in OSStates, thr' = [thr EXCEPT ![c].os = x]
  PROVE  /\ thr' \in [Thread -> ThrTypes]
         /\ \A d \in Thread : thr'[d].pj = thr[d].pj /\ thr'[d].id = thr[d].id
                              /\ thr'[d].os = IF d = c THEN x ELSE thr[d].os
<1>1. \A r \in ThrTypes : /\ [r EXCEPT !.os = x] \in ThrTypes /\ [r EXCEPT !.os = x].os = x
                          /\ [r EXCEPT !.os = x].pj = r.pj /\ [r EXCEPT !.os = x].id = r.id
  BY DEF ThrTypes
<1>2. thr \in [Thread -> ThrTypes]
  BY DEF Types
<1>3. thr' = [d \in Thread |-> IF d = c THEN [thr[d] EXCEPT !.os = x] ELSE thr[d]]
  BY <1>2
<1> QED BY <1>1, <1>2, <1>3

LEMMA PjStep ==
  ASSUME Types, NEW c \in Thread, NEW x \in PJStates, thr' = [thr EXCEPT ![c].pj = x]
  PROVE  /\ thr' \in [Thread -> ThrTypes]
         /\ \A d \in Thread : thr'[d].os = thr[d].os /\ thr'[d].id = thr[d].id
                              /\ thr'[d].pj = IF d = c THEN x ELSE thr[d].pj
<1>1. \A r \in ThrTypes : /\ [r EXCEPT !.pj = x] \in ThrTypes /\ [r EXCEPT !.pj = x].pj = x
                          /\ [r EXCEPT !.pj = x].os = r.os /\ [r EXCEPT !.pj = x].id = r.id
  BY DEF ThrTypes
<1>2. thr \in [Thread -> ThrTypes]
  BY DEF Types
<1>3. thr' = [d \in Thread |-> IF d = c THEN [thr[d] EXCEPT !.pj = x] ELSE thr[d]]
  BY <1>2
<1> QED BY <1>1, <1>2, <1>3

\* pthread_exit.
LEMMA PthreadExitStep ==
  ASSUME IInv, NEW t \in Thread, PthreadExit(t)
  PROVE  IInv' /\ Later
<1>1. /\ thr[t].os = "exiting" /\ thr' = [thr EXCEPT ![t].os = "ended"]
      /\ UNCHANGED table /\ req' = req /\ "ended" \in OSStates
  BY DEF PthreadExit, OSStates
<1>2. /\ thr' \in [Thread -> ThrTypes]
      /\ \A d \in Thread : thr'[d].pj = thr[d].pj /\ thr'[d].id = thr[d].id
                           /\ thr'[d].os = IF d = t THEN "ended" ELSE thr[d].os
  BY <1>1, OsStep DEF IInv
<1>3. \A d : Joined(d)' = Joined(d) /\ Detached(d)' = Detached(d)
  BY <1>1 DEF Joined, Detached
<1>4. \A d \in Thread : Live(d)' = Live(d) /\ Started(d)' = Started(d) /\ (Holds(d)' <=> Holds(d))
  BY <1>1, <1>2, <1>3 DEF Live, Started, Holds
<1>5. Requests'
  <2>1. \A u \in Thread : /\ req[u].at \in Waits => Started(req[u].tid) /\ req[u].tid \in Thread
                          /\ req[u].at \in Creates => req[u].child \in Thread
                          /\ req[u].at = "created" => Started(req[u].child)
    BY ReqOf DEF IInv, Requests
  <2>2. \A d \in Thread : thr[d].os \notin {"none", "setup"} => thr'[d].os \notin {"none", "setup"}
    BY <1>1, <1>2
  <2> QED BY <1>1, <1>2, <2>1, <2>2 DEF IInv, Requests, Creating, Unmade, Creates, Waits, SlotOf, Started
<1>6. Ends'
  BY <1>1, <1>2 DEF IInv, Ends, SlotOf
<1>7. \A d \in Thread : /\ thr'[d].os = "setup" <=> thr[d].os = "setup"
                        /\ thr'[d].os \in {"setup", "started"} <=> thr[d].os \in {"setup", "started"}
  BY <1>1, <1>2
<1>8. thr'[Main].os = thr[Main].os /\ DeletersStay
  BY <1>1, <1>2, ThreadTableAssumption DEF IInv, Mains, DeletersStay
<1> QED BY <1>1, <1>2, <1>3, <1>4, <1>5, <1>6, <1>7, <1>8, Quiet DEF IInv, Types

\* A step that changes one thread and one slot.
Kept(s) ==
  /\ th_vec'[s].incarn = th_vec[s].incarn /\ th_vec'[s].valid = th_vec[s].valid
  /\ th_vec'[s].detached = th_vec[s].detached /\ th_vec'[s].exited = th_vec[s].exited
  /\ th_vec'[s].tid = th_vec[s].tid /\ th_vec'[s].ctxt = th_vec[s].ctxt

LEMMA OwnersOne ==
  ASSUME IInv, NEW c \in Thread, NEW i,
         \A s \in Slot : s # i => Kept(s) /\ (s \in On(VThreads) => s \in On(VThreads)'),
         \A d \in Thread : d # c => /\ thr'[d] = thr[d] /\ (Joined(d)' => Joined(d))
                                    /\ Detached(d)' = Detached(d),
         \A d \in Thread : d # c /\ Holds(d) => SlotOf(d) # i,
         Holds(c)' => HolderOK(c)' /\ SlotOf(c)' = i
  PROVE  Owners'
<1>1. \A d \in Thread : d # c => /\ Live(d)' = Live(d) /\ SlotOf(d)' = SlotOf(d)
                                 /\ (Holds(d)' => Holds(d))
  BY DEF Live, Holds, SlotOf
<1>2. ASSUME NEW d \in Thread, d # c, Holds(d)' PROVE HolderOK(d)' /\ SlotOf(d)' # i
  <2>1. Holds(d) /\ HolderOK(d) /\ SlotOf(d) \in Slot /\ SlotOf(d) \in On(VThreads) /\ SlotOf(d) # i
    BY <1>1, <1>2, Holder
  <2>2. PICK s \in Slot : s = SlotOf(d)
    BY <2>1
  <2>3. Kept(s) /\ s \in On(VThreads)'
    BY <2>1, <2>2
  <2>4. SlotOf(d)' = s /\ thr'[d] = thr[d] /\ Live(d)' = Live(d) /\ Detached(d)' = Detached(d)
    BY <1>1, <1>2, <2>2
  <2>5. HolderOK(d)'
    BY <2>1, <2>2, <2>3, <2>4 DEF HolderOK, Kept
  <2> QED BY <2>1, <2>2, <2>4, <2>5
<1>3. \A d \in Thread : Holds(d)' => HolderOK(d)'
  BY <1>2
<1>4. ASSUME NEW d \in Thread, NEW e \in Thread, Holds(d)', Holds(e)', SlotOf(d)' = SlotOf(e)' PROVE d = e
  <2>1. CASE d # c /\ e # c
    BY <1>1, <1>4, <2>1 DEF IInv, Owners
  <2>2. CASE d = c /\ e # c
    BY <1>2, <1>4, <2>2
  <2>3. CASE d # c /\ e = c
    BY <1>2, <1>4, <2>3
  <2> QED BY <2>1, <2>2, <2>3
<1> QED BY <1>3, <1>4 DEF Owners

\* The same for the slots' names of threads.
LEMMA TidsOne ==
  ASSUME IInv, NEW c \in Thread,
         \A d \in Thread : d # c => thr'[d] = thr[d],
         \A s \in Slot : th_vec'[s].tid = th_vec[s].tid \/ th_vec'[s].tid = c,
         \A s \in Slot : th_vec'[s].tid = c => Started(c)' /\ SlotOf(c)' = s
  PROVE  Tids'
<1> SUFFICES ASSUME NEW s \in Slot, NEW d \in Thread, th_vec'[s].tid = d
             PROVE  Started(d)' /\ SlotOf(d)' = s
  BY DEF Tids, Started
<1>1. CASE d # c
  BY <1>1 DEF IInv, Tids, Started, SlotOf
<1> QED BY <1>1

\* pthread_join and pthread_detach look up an id.
LEMMA LookupStep ==
  ASSUME IInv, NEW t \in Thread, NEW id \in Ids, NEW op \in {"join", "detach"}, Lookup(t, id, op)
  PROVE  IInv' /\ Later
<1> DEFINE c == th_get(id)
           r == [at |-> op, id |-> id, tid |-> c]
<1>0. IInv /\ Types /\ Lookup(t, id, op)
  BY DEF IInv
<1>1. id \in Slot \X (0..(Incarnations - 1)) /\ id[1] \in Slot
  BY <1>0 DEF Ids, Types, ThrTypes, IdTypes
<1>2. /\ c \in Thread /\ Started(c) /\ SlotOf(c) = id[1] /\ th_vec[id[1]].incarn = id[2]
  <2>1. th_vec[id[1]] \in VecTypes
    BY <1>0, <1>1 DEF Types
  <2>2. c # NoThread /\ c = th_vec[id[1]].tid /\ th_vec[id[1]].incarn = id[2]
    BY <1>0 DEF Lookup, th_get
  <2>3. c \in Thread
    BY <2>1, <2>2 DEF VecTypes
  <2> QED BY <1>1, <2>2, <2>3 DEF IInv, Tids, Started
<1> HIDE DEF c
<1>3. r \in ReqTypes /\ r.at = op /\ r.id = id /\ r.tid = c
  BY <1>1, <1>2 DEF ReqTypes, WaitTypes, Waits
<1>4. req' = [req EXCEPT ![t] = r] /\ UNCHANGED table /\ thr' = thr
  BY <1>0 DEF Lookup, c
<1>5. req' \in [Thread -> ReqTypes] /\ \A v \in Thread : req'[v] = IF v = t THEN r ELSE req[v]
  <2> HIDE DEF r
  <2> QED BY <1>0, <1>3, <1>4, ReqField DEF Types
<1>6. thr[c].pj = "joinable" => id = thr[c].id
  <2>1. Live(c) \/ (thr[c].os \in {"exiting", "ended"} /\ thr[c].pj = "joinable") => Holds(c)
    BY DEF Holds
  <2>2. thr[c].os \in OSStates /\ thr[c].id \in IdTypes
    BY <1>0, <1>2 DEF Types, ThrTypes
  <2>3. thr[c].pj = "joinable" => Holds(c)
    BY <1>2, <2>1, <2>2 DEF Started, Live, OSStates
  <2>4. Holds(c) => th_vec[SlotOf(c)].incarn = thr[c].id[2]
    BY <1>2, Holder DEF HolderOK
  <2> QED BY <1>1, <1>2, <2>2, <2>3, <2>4 DEF SlotOf, IdTypes
<1>7. \A d : Joined(d)' = Joined(d) /\ Detached(d)' = Detached(d)
  <2>1. req[t].at = "idle"
    BY <1>0 DEF Lookup, Idle, NoReq
  <2>2. req'[t].at = op
    BY <1>3, <1>5
  <2> QED BY <1>5, <2>1, <2>2 DEF Joined, Detached
<1>8. Requests'
  <2>1. \A u \in Thread : /\ req[u].at \in Waits => Started(req[u].tid) /\ req[u].tid \in Thread
                          /\ req[u].at \in Creates => req[u].child \in Thread
                          /\ req[u].at = "created" => Started(req[u].child)
    BY <1>0, ReqOf DEF IInv, Requests
  <2> HIDE DEF r
  <2> QED BY <1>2, <1>3, <1>4, <1>5, <1>6, <2>1 DEF IInv, Requests, Creating, Unmade, Creates, Waits, SlotOf, Started
<1>9. /\ thr' \in [Thread -> ThrTypes] /\ Ends'
      /\ \A d \in Thread : Live(d)' = Live(d) /\ Started(d)' = Started(d)
  BY <1>4 DEF IInv, Types, Ends, SlotOf, Live, Started
<1>10. \A d \in Thread : (Holds(d)' <=> Holds(d))
  BY <1>4, <1>7 DEF Holds, Live
<1>11. DeletersStay
  <2>1. req[t].at = "idle" /\ req'[t].at = op
    BY <1>0, <1>3, <1>5 DEF Lookup, Idle, NoReq
  <2> QED BY <1>5, <2>1 DEF DeletersStay, DeleteStages
<1> QED BY <1>4, <1>5, <1>7, <1>8, <1>9, <1>10, <1>11, Quiet

\* A request that looks up or waits goes on.
LEMMA WaitStep ==
  ASSUME Types, NEW t \in Thread, NEW x \in Waits, req[t].at \in Waits, req' = [req EXCEPT ![t].at = x]
  PROVE  /\ req' \in [Thread -> ReqTypes] /\ \A v \in Thread : v # t => req'[v] = req[v]
         /\ req'[t].at = x /\ req'[t].id = req[t].id /\ req'[t].tid = req[t].tid
         /\ DeletersStay
<1>1. req \in [Thread -> ReqTypes] /\ req[t] \in WaitTypes
  BY ReqOf DEF Types
<1>2. /\ req' \in [Thread -> ReqTypes] /\ \A v \in Thread : v # t => req'[v] = req[v]
      /\ req'[t].at = x /\ req'[t].id = req[t].id /\ req'[t].tid = req[t].tid
  BY <1>1, ReqField, ZenonT(60)
<1> QED BY <1>2 DEF DeletersStay, DeleteStages, Waits

\* So does the request of a creator.
LEMMA CreateStep ==
  ASSUME Types, NEW t \in Thread, NEW x \in Creates, req[t].at \in Creates, req' = [req EXCEPT ![t].at = x]
  PROVE  /\ req' \in [Thread -> ReqTypes] /\ \A v \in Thread : v # t => req'[v] = req[v]
         /\ req'[t].at = x /\ req'[t].child = req[t].child
         /\ DeletersStay
<1>1. req \in [Thread -> ReqTypes] /\ req[t] \in CreateTypes
  BY ReqOf DEF Types
<1>2. /\ req' \in [Thread -> ReqTypes] /\ \A v \in Thread : v # t => req'[v] = req[v]
      /\ req'[t].at = x /\ req'[t].child = req[t].child
  BY <1>1, ReqField, ZenonT(60)
<1> QED BY <1>2 DEF DeletersStay, DeleteStages, Creates

\* A request comes to an end, or goes on, that is not in the middle of a th_delete.
LEMMA ReqDone ==
  ASSUME Types, NEW t \in Thread, req' = [req EXCEPT ![t] = NoReq]
  PROVE  /\ req' \in [Thread -> ReqTypes] /\ \A v \in Thread : req'[v] = IF v = t THEN NoReq ELSE req[v]
         /\ req[t].at \notin DeleteStages => DeletersStay
<1>1. req \in [Thread -> ReqTypes] /\ NoReq \in ReqTypes
  BY DEF Types, ReqTypes
<1>2. req' \in [Thread -> ReqTypes] /\ \A v \in Thread : req'[v] = IF v = t THEN NoReq ELSE req[v]
  BY <1>1, ReqField, ZenonT(60)
<1> QED BY <1>2 DEF DeletersStay, DeleteStages, NoReq

\* pthread_join begins.
LEMMA JoinCallStep ==
  ASSUME IInv, ~disturbed', NEW t \in Thread, JoinCall(t)
  PROVE  IInv' /\ Later
<1>0. IInv /\ Types /\ UNCHANGED table /\ req[t].at = "join"
  BY DEF IInv, JoinCall
<1>1. PICK c \in Thread : c = req[t].tid
  BY <1>0, ReqOf DEF Waits
<1>2. \A u \in Thread : /\ req[u].at \in Waits => Started(req[u].tid) /\ req[u].tid \in Thread
                        /\ req[u].at \in Creates => req[u].child \in Thread
                        /\ req[u].at = "created" => Started(req[u].child)
  BY <1>0, ReqOf DEF IInv, Requests
<1>3. CASE /\ thr[c].pj = "joinable"
           /\ thr' = [thr EXCEPT ![c].pj = "joining"] /\ req' = [req EXCEPT ![t].at = "joinwait"]
  <2>1. thr' = [thr EXCEPT ![c].pj = "joining"] /\ req' = [req EXCEPT ![t].at = "joinwait"]
    BY <1>3
  <2>2. /\ thr' \in [Thread -> ThrTypes]
        /\ \A d \in Thread : thr'[d].os = thr[d].os /\ thr'[d].id = thr[d].id
                             /\ thr'[d].pj = IF d = c THEN "joining" ELSE thr[d].pj
    <3>1. "joining" \in PJStates
      BY DEF PJStates
    <3> QED BY <1>0, <2>1, <3>1, PjStep
  <2>3. /\ req' \in [Thread -> ReqTypes] /\ \A v \in Thread : v # t => req'[v] = req[v]
        /\ req'[t].at = "joinwait" /\ req'[t].id = req[t].id /\ req'[t].tid = req[t].tid
        /\ DeletersStay
    <3>1. "joinwait" \in Waits /\ req[t].at \in Waits
      BY <1>0 DEF Waits
    <3> QED BY <1>0, <2>1, <3>1, WaitStep
  <2>4. \A d : Joined(d)' = Joined(d) /\ Detached(d)' = Detached(d)
    BY <1>0, <2>3 DEF Joined, Detached
  <2>5. \A d \in Thread : Live(d)' = Live(d) /\ Started(d)' = Started(d) /\ (Holds(d)' <=> Holds(d))
    BY <1>3, <2>2, <2>4 DEF Live, Started, Holds
  <2>6. Requests'
    BY <1>0, <1>1, <1>2, <1>3, <2>2, <2>3 DEF IInv, Requests, Creating, Unmade, Creates, Waits, SlotOf, Started
  <2>7. Ends'
    BY <1>3, <2>2 DEF IInv, Ends, SlotOf
  <2> QED BY <1>0, <1>3, <2>2, <2>3, <2>4, <2>5, <2>6, <2>7, Quiet, ThreadTableAssumption
<1>4. CASE thr[c].pj # "joinable" /\ thr' = thr /\ req' = [req EXCEPT ![t] = NoReq]
  <2>1. thr' = thr /\ req' = [req EXCEPT ![t] = NoReq]
    BY <1>4
  <2>2. req' \in [Thread -> ReqTypes] /\ \A v \in Thread : req'[v] = IF v = t THEN NoReq ELSE req[v]
    BY <1>0, <2>1, ReqDone
  <2>7. DeletersStay
    BY <1>0, <2>1, ReqDone DEF DeleteStages
  <2>3. \A d : Joined(d)' = Joined(d) /\ Detached(d)' = Detached(d)
    BY <1>0, <2>2 DEF Joined, Detached, NoReq
  <2>4. \A d \in Thread : Live(d)' = Live(d) /\ Started(d)' = Started(d) /\ (Holds(d)' <=> Holds(d))
    BY <2>1, <2>3 DEF Live, Started, Holds
  <2>5. Requests'
    BY <1>0, <1>2, <2>1, <2>2 DEF IInv, Requests, Creating, Unmade, Creates, Waits, SlotOf, Started, NoReq
  <2>6. Ends' /\ thr' \in [Thread -> ThrTypes]
    BY <2>1 DEF IInv, Ends, SlotOf, Types
  <2> QED BY <1>0, <2>1, <2>2, <2>3, <2>4, <2>5, <2>6, <2>7, Quiet
<1> QED BY <1>1, <1>3, <1>4 DEF JoinCall

\* pthread_join returns.
LEMMA JoinReturnsStep ==
  ASSUME IInv, NEW t \in Thread, JoinReturns(t)
  PROVE  IInv' /\ Later
<1>0. IInv /\ Types /\ UNCHANGED table /\ req[t].at = "joinwait"
  BY DEF IInv, JoinReturns
<1>1. PICK c \in Thread : c = req[t].tid
  BY <1>0, ReqOf DEF Waits
<1>2. \A u \in Thread : /\ req[u].at \in Waits => Started(req[u].tid) /\ req[u].tid \in Thread
                        /\ req[u].at \in Creates => req[u].child \in Thread
                        /\ req[u].at = "created" => Started(req[u].child)
  BY <1>0, ReqOf DEF IInv, Requests
<1>3. thr[c].pj = "joining" /\ thr[c].os = "ended"
  BY <1>0, <1>1 DEF IInv, Requests, JoinReturns
<1>4. thr' = [thr EXCEPT ![c].pj = "joined"] /\ req' = [req EXCEPT ![t].at = "joined"]
  BY <1>1 DEF JoinReturns
<1>5. /\ thr' \in [Thread -> ThrTypes]
      /\ \A d \in Thread : thr'[d].os = thr[d].os /\ thr'[d].id = thr[d].id
                           /\ thr'[d].pj = IF d = c THEN "joined" ELSE thr[d].pj
  <2>1. "joined" \in PJStates
    BY DEF PJStates
  <2> QED BY <1>0, <1>4, <2>1, PjStep
<1>6. /\ req' \in [Thread -> ReqTypes] /\ \A v \in Thread : v # t => req'[v] = req[v]
      /\ req'[t].at = "joined" /\ req'[t].id = req[t].id /\ req'[t].tid = req[t].tid
      /\ DeletersStay
  <2>1. "joined" \in Waits /\ req[t].at \in Waits
    BY <1>0 DEF Waits
  <2> QED BY <1>0, <1>4, <2>1, WaitStep
<1>7. (\A d : (d # c => Joined(d)' = Joined(d)) /\ Detached(d)' = Detached(d)) /\ Joined(c)'
  BY <1>0, <1>1, <1>6 DEF Joined, Detached
<1>8. \A d \in Thread : Live(d)' = Live(d) /\ Started(d)' = Started(d) /\ (Holds(d)' <=> Holds(d))
  <2>1. \A d \in Thread : Live(d)' = Live(d) /\ Started(d)' = Started(d)
    BY <1>5 DEF Live, Started
  <2>2. \A d \in Thread : d # c => (Holds(d)' <=> Holds(d))
    BY <1>5, <1>7, <2>1 DEF Holds
  <2>3. Holds(c) /\ Holds(c)'
    BY <1>3, <1>5, <1>7 DEF Holds
  <2> QED BY <2>1, <2>2, <2>3
<1>9. Requests'
  BY <1>0, <1>1, <1>2, <1>3, <1>5, <1>6 DEF IInv, Requests, Creating, Unmade, Creates, Waits, SlotOf, Started
<1>10. Ends'
  BY <1>3, <1>5 DEF IInv, Ends, SlotOf
<1> QED BY <1>0, <1>3, <1>5, <1>6, <1>7, <1>8, <1>9, <1>10, Quiet, ThreadTableAssumption DEF Live

\* pthread_detach.
LEMMA DetachCallStep ==
  ASSUME IInv, ~disturbed', NEW t \in Thread, DetachCall(t)
  PROVE  IInv' /\ Later
<1>0. IInv /\ Types /\ UNCHANGED table /\ req[t].at = "detach"
  BY DEF IInv, DetachCall
<1>1. PICK c \in Thread : c = req[t].tid
  BY <1>0, ReqOf DEF Waits
<1>2. \A u \in Thread : /\ req[u].at \in Waits => Started(req[u].tid) /\ req[u].tid \in Thread
                        /\ req[u].at \in Creates => req[u].child \in Thread
                        /\ req[u].at = "created" => Started(req[u].child)
  BY <1>0, ReqOf DEF IInv, Requests
<1>3. CASE thr[c].pj = "joinable"
  <2>1. thr' = [thr EXCEPT ![c].pj = "detached"] /\ req' = [req EXCEPT ![t].at = "detached"]
    BY <1>1, <1>3 DEF DetachCall
  <2>2. /\ thr' \in [Thread -> ThrTypes]
        /\ \A d \in Thread : thr'[d].os = thr[d].os /\ thr'[d].id = thr[d].id
                             /\ thr'[d].pj = IF d = c THEN "detached" ELSE thr[d].pj
    <3>1. "detached" \in PJStates
      BY DEF PJStates
    <3> QED BY <1>0, <2>1, <3>1, PjStep
  <2>3. /\ req' \in [Thread -> ReqTypes] /\ \A v \in Thread : v # t => req'[v] = req[v]
        /\ req'[t].at = "detached" /\ req'[t].id = req[t].id /\ req'[t].tid = req[t].tid
        /\ DeletersStay
    <3>1. "detached" \in Waits /\ req[t].at \in Waits
      BY <1>0 DEF Waits
    <3> QED BY <1>0, <2>1, <3>1, WaitStep
  <2>4. /\ \A d : Joined(d)' = Joined(d) /\ (d # c => Detached(d)' = Detached(d))
        /\ Detached(c)'
    BY <1>0, <1>1, <2>3 DEF Joined, Detached
  <2>5. \A d \in Thread : Live(d)' = Live(d) /\ Started(d)' = Started(d) /\ (Holds(d)' <=> Holds(d))
    <3>1. \A d \in Thread : Live(d)' = Live(d) /\ Started(d)' = Started(d)
      BY <2>2 DEF Live, Started
    <3>2. \A d \in Thread : d # c => (Holds(d)' <=> Holds(d))
      BY <2>2, <2>4, <3>1 DEF Holds
    <3>3. Holds(c)
      BY <1>0, <1>1, <1>2, <1>3 DEF Holds, Live, Started, IInv, Types, ThrTypes, OSStates, Waits
    <3>4. Holds(c)'
      BY <2>2, <2>4, <3>1, <3>3 DEF Holds, Live
    <3> QED BY <3>1, <3>2, <3>3, <3>4
  <2>6. Requests'
    BY <1>0, <1>1, <1>2, <1>3, <2>2, <2>3 DEF IInv, Requests, Creating, Unmade, Creates, Waits, SlotOf, Started
  <2>7. Ends'
    BY <1>3, <2>2 DEF IInv, Ends, SlotOf
  <2> QED BY <1>0, <1>3, <2>2, <2>3, <2>4, <2>5, <2>6, <2>7, Quiet, ThreadTableAssumption
<1>4. CASE thr[c].pj # "joinable"
  <2>1. thr' = thr /\ req' = [req EXCEPT ![t] = NoReq]
    BY <1>1, <1>4 DEF DetachCall
  <2>2. req' \in [Thread -> ReqTypes] /\ \A v \in Thread : req'[v] = IF v = t THEN NoReq ELSE req[v]
    BY <1>0, <2>1, ReqDone
  <2>7. DeletersStay
    BY <1>0, <2>1, ReqDone DEF DeleteStages
  <2>3. \A d : Joined(d)' = Joined(d) /\ Detached(d)' = Detached(d)
    BY <1>0, <2>2 DEF Joined, Detached, NoReq
  <2>4. \A d \in Thread : Live(d)' = Live(d) /\ Started(d)' = Started(d) /\ (Holds(d)' <=> Holds(d))
    BY <2>1, <2>3 DEF Live, Started, Holds
  <2>5. Requests'
    BY <1>0, <1>2, <2>1, <2>2 DEF IInv, Requests, Creating, Unmade, Creates, Waits, SlotOf, Started, NoReq
  <2>6. Ends' /\ thr' \in [Thread -> ThrTypes]
    BY <2>1 DEF IInv, Ends, SlotOf, Types
  <2> QED BY <1>0, <2>1, <2>2, <2>3, <2>4, <2>5, <2>6, <2>7, Quiet
<1> QED BY <1>3, <1>4

\* pthread_create.
LEMMA PthreadCreateStep ==
  ASSUME IInv, NEW t \in Thread, PthreadCreate(t)
  PROVE  IInv' /\ Later
<1>0. IInv /\ Types /\ req[t].at = "create" /\ UNCHANGED <<th_first_free, th_last_free, th_first_thread>>
  BY DEF IInv, PthreadCreate, heads
<1>1. PICK c \in Thread : c = req[t].child
  BY <1>0, ReqOf DEF Creates
<1>2. thr[c].os = "setup" /\ Live(c) /\ Holds(c)
  BY <1>0, <1>1 DEF IInv, Requests, Creating, Unmade, Live, Holds
<1>3. PICK i \in Slot : i = SlotOf(c)
  BY <1>2, Holder
<1>4. i \in On(VThreads) /\ HolderOK(c)
  BY <1>2, <1>3, Holder
<1>5. /\ thr' = [thr EXCEPT ![c].os = "started"] /\ th_vec' = [th_vec EXCEPT ![i].tid = c]
      /\ req' = [req EXCEPT ![t].at = "created"]
  BY <1>1, <1>3 DEF PthreadCreate, SlotOf
<1>6. /\ thr' \in [Thread -> ThrTypes]
      /\ \A d \in Thread : thr'[d].pj = thr[d].pj /\ thr'[d].id = thr[d].id
                           /\ thr'[d].os = IF d = c THEN "started" ELSE thr[d].os
      /\ \A d \in Thread : d # c => thr'[d] = thr[d]
  <2>1. "started" \in OSStates
    BY DEF OSStates
  <2> QED BY <1>0, <1>5, <2>1, OsStep DEF Types
<1>7. th_vec' \in [Slot -> VecTypes] /\ TidSet(th_vec', th_vec, i, c)
  <2>1. th_vec \in [Slot -> VecTypes] /\ c \in Thread \cup {NoThread}
    BY <1>0 DEF Types
  <2> QED BY <1>5, <2>1, TidStep
<1>8. /\ req' \in [Thread -> ReqTypes] /\ \A v \in Thread : v # t => req'[v] = req[v]
      /\ req'[t].at = "created" /\ req'[t].child = c /\ DeletersStay
  BY <1>0, <1>1, <1>5, CreateStep DEF Creates
<1>9. Lists' /\ VThreads' = VThreads /\ VFree' = VFree
  BY <1>0, <1>7, <1>8, KeptLists DEF IInv, TidSet
<1>10. \A d : Joined(d)' = Joined(d) /\ Detached(d)' = Detached(d)
  BY <1>0, <1>8 DEF Joined, Detached
<1>11. Types'
  BY <1>0, <1>6, <1>7, <1>8 DEF Types
<1>12. Owners'
  <2>1. \A s \in Slot : s # i => Kept(s) /\ (s \in On(VThreads) => s \in On(VThreads)')
    BY <1>7, <1>9 DEF Kept, Same, TidSet
  <2>2. \A d \in Thread : d # c /\ Holds(d) => SlotOf(d) # i
    BY <1>0, <1>2, <1>3 DEF IInv, Owners
  <2>3. SlotOf(c)' = i
    BY <1>3, <1>6 DEF SlotOf
  <2>4. HolderOK(c)'
    <3>1. Live(c)' /\ thr'[c].id = thr[c].id /\ thr'[c].pj = thr[c].pj
      BY <1>6 DEF Live
    <3> QED BY <1>2, <1>3, <1>4, <1>6, <1>7, <1>9, <1>10, <2>3, <3>1 DEF HolderOK, Same, TidSet
  <2> QED BY <1>6, <1>10, <2>1, <2>2, <2>3, <2>4, OwnersOne
<1>13. Tids'
  <2>1. \A s \in Slot : th_vec'[s].tid = th_vec[s].tid \/ th_vec'[s].tid = c
    BY <1>7 DEF TidSet
  <2>2. \A s \in Slot : th_vec'[s].tid = c => s = i
    BY <1>0, <1>2, <1>7 DEF IInv, Tids, TidSet
  <2>3. Started(c)' /\ SlotOf(c)' = i
    BY <1>3, <1>6 DEF Started, SlotOf
  <2> QED BY <1>6, <2>1, <2>2, <2>3, TidsOne
<1>14. Requests'
  <2>1. \A u \in Thread : /\ req[u].at \in Waits => Started(req[u].tid) /\ req[u].tid \in Thread /\ req[u].tid # c
                          /\ req[u].at \in Creates => req[u].child \in Thread
                          /\ req[u].at = "created" => Started(req[u].child) /\ req[u].child # c
                          /\ req[u].at \in Unmade /\ u # t => req[u].child # c
    BY <1>0, <1>1, <1>2, ReqOf DEF IInv, Requests, Creating, Unmade, Started
  <2> QED BY <1>0, <1>1, <1>3, <1>6, <1>8, <2>1 DEF IInv, Requests, Creating, Unmade, Creates, Waits, SlotOf, Started
<1>15. Ends' /\ Mains'
  BY <1>0, <1>2, <1>6, ThreadTableAssumption DEF IInv, Ends, Mains, SlotOf
<1>16. Later
  <2>1. \A s \in Slot : /\ th_vec'[s].incarn = th_vec[s].incarn
                        /\ th_vec'[s].tid = th_vec[s].tid
                           \/ (th_vec'[s].tid = c /\ SlotOf(c) = s /\ th_vec[s].incarn = thr[c].id[2])
    BY <1>3, <1>4, <1>7 DEF TidSet, Same, HolderOK
  <2>2. \A d \in Thread : d # c => Started(d)' = Started(d)
    BY <1>6 DEF Started
  <2>3. \A d \in Thread : (thr'[d].os = "none" <=> thr[d].os = "none") /\ thr'[d].id = thr[d].id
    BY <1>2, <1>6
  <2>4. \A d \in Thread : Holds(d) => Holds(d)'
    <3>1. \A d \in Thread : d # c => (Holds(d)' <=> Holds(d))
      BY <1>6, <1>10 DEF Holds, Live
    <3>2. Holds(c)'
      BY <1>6 DEF Holds, Live
    <3> QED BY <3>1, <3>2
  <2>5. th_vec'[SlotOf(c)].tid = c
    BY <1>3, <1>7 DEF TidSet
  <2> QED BY <1>9, <2>1, <2>2, <2>3, <2>4, <2>5 DEF Later
<1> QED BY <1>9, <1>11, <1>12, <1>13, <1>14, <1>15, <1>16 DEF IInv

\* A step that changes no thread, and of no slot more than its links and whether it is valid.
LEMMA FieldsKept ==
  ASSUME IInv, thr' = thr, Types', Lists', VThreads' = VThreads, VFree' = VFree,
         \A s \in Slot : /\ th_vec'[s].incarn = th_vec[s].incarn /\ th_vec'[s].tid = th_vec[s].tid
                         /\ th_vec'[s].detached = th_vec[s].detached /\ th_vec'[s].exited = th_vec[s].exited
                         /\ th_vec'[s].ctxt = th_vec[s].ctxt
                         /\ s \in On(VThreads) /\ th_vec[s].valid => th_vec'[s].valid,
         \A d : Joined(d)' = Joined(d) /\ Detached(d)' = Detached(d),
         Requests'
  PROVE  IInv' /\ Later
<1>1. \A d \in Thread : /\ Live(d)' = Live(d) /\ (Holds(d)' <=> Holds(d)) /\ SlotOf(d)' = SlotOf(d)
                        /\ Started(d)' = Started(d)
  BY DEF Live, Holds, SlotOf, Started
<1>2. Owners'
  <2>1. ASSUME NEW d \in Thread, Holds(d)' PROVE HolderOK(d)'
    <3>1. /\ HolderOK(d) /\ SlotOf(d) \in Slot /\ SlotOf(d) \in On(VThreads)
          /\ Live(d)' = Live(d) /\ SlotOf(d)' = SlotOf(d)
      BY <1>1, <2>1, Holder
    <3> QED BY <3>1 DEF HolderOK
  <2> QED BY <1>1, <2>1 DEF IInv, Owners
<1>3. Tids' /\ Ends' /\ Mains'
  <2>1. Tids /\ Ends /\ Mains
    BY DEF IInv
  <2> QED BY <2>1 DEF Tids, Ends, Mains, SlotOf
<1>4. Later
  BY <1>1 DEF Later
<1> QED BY <1>2, <1>3, <1>4 DEF IInv

\* The creator's valid = TRUE: the slot may have another holder by now.
LEMMA SetValidStep ==
  ASSUME IInv, NEW t \in Thread, SetValid(t)
  PROVE  IInv' /\ Later
<1>0. /\ IInv /\ Types /\ Lists /\ req[t].at \in {"created", "failed"} /\ req[t].at \in Creates /\ thr' = thr
      /\ UNCHANGED <<th_first_free, th_last_free, th_first_thread>>
  BY DEF IInv, SetValid, heads, Creates
<1>1. PICK c \in Thread : c = req[t].child
  BY <1>0, ReqOf
<1>2. SlotOf(c) \in Slot
  <2>1. req[t].at = "failed" => Holds(c)
    BY <1>0, <1>1 DEF IInv, Requests, Creating, Unmade, Holds, Live
  <2> QED BY <1>0, <1>1, <2>1, Holder DEF Requests, IInv
<1>3. th_vec' \in [Slot -> VecTypes] /\ ValidSet(th_vec', th_vec, SlotOf(c), TRUE)
  <2>1. th_vec \in [Slot -> VecTypes] /\ TRUE \in BOOLEAN
    BY <1>0 DEF Types
  <2>2. th_vec' = [th_vec EXCEPT ![SlotOf(c)].valid = TRUE]
    BY <1>1 DEF SetValid, SlotOf
  <2> QED BY <1>2, <2>1, <2>2, ValidStep
<1>4. /\ req' \in [Thread -> ReqTypes] /\ \A v \in Thread : v # t => req'[v] = req[v]
      /\ DeletersStay
      /\ req'[t] = NoReq \/ (req[t].at = "failed" /\ req'[t].at = "delete" /\ req'[t].child = c)
  <2>1. CASE req[t].at = "created"
    <3>1. req' = [req EXCEPT ![t] = NoReq] /\ req[t].at \notin DeleteStages
      BY <2>1 DEF SetValid, DeleteStages
    <3> QED BY <1>0, <3>1, ReqDone
  <2>2. CASE req[t].at = "failed"
    <3>1. req' = [req EXCEPT ![t].at = "delete"] /\ "delete" \in Creates
      BY <2>2 DEF SetValid, Creates
    <3> QED BY <1>0, <1>1, <2>2, <3>1, CreateStep
  <2> QED BY <1>0, <2>1, <2>2
<1>5. Lists' /\ VThreads' = VThreads /\ VFree' = VFree
  BY <1>0, <1>3, <1>4, KeptLists DEF ValidSet
<1>6. \A d : Joined(d)' = Joined(d) /\ Detached(d)' = Detached(d)
  BY <1>0, <1>4 DEF Joined, Detached, NoReq
<1>7. Types'
  BY <1>0, <1>3, <1>4 DEF Types
<1>8. Requests'
  <2>1. \A u \in Thread : /\ req[u].at \in Waits => Started(req[u].tid) /\ req[u].tid \in Thread
                          /\ req[u].at \in Creates => req[u].child \in Thread
                          /\ req[u].at = "created" => Started(req[u].child)
    BY <1>0, ReqOf DEF IInv, Requests
  <2> QED BY <1>0, <1>1, <1>4, <2>1 DEF IInv, Requests, Creating, Unmade, Creates, Waits, SlotOf, Started, NoReq
<1>9. \A s \in Slot : /\ th_vec'[s].incarn = th_vec[s].incarn /\ th_vec'[s].tid = th_vec[s].tid
                      /\ th_vec'[s].detached = th_vec[s].detached /\ th_vec'[s].exited = th_vec[s].exited
                      /\ th_vec'[s].ctxt = th_vec[s].ctxt
                      /\ s \in On(VThreads) /\ th_vec[s].valid => th_vec'[s].valid
  BY <1>3 DEF ValidSet, Same
<1> QED BY <1>0, <1>5, <1>6, <1>7, <1>8, <1>9, FieldsKept

\* pthread_create fails.
LEMMA PthreadCreateFailsStep ==
  ASSUME IInv, NEW t \in Thread, PthreadCreateFails(t)
  PROVE  IInv' /\ Later
<1>0. /\ IInv /\ Types /\ req[t].at = "create" /\ thr' = thr /\ UNCHANGED table
      /\ req' = [req EXCEPT ![t].at = "failed"]
  BY DEF IInv, PthreadCreateFails
<1>1. /\ req' \in [Thread -> ReqTypes] /\ \A v \in Thread : v # t => req'[v] = req[v]
      /\ req'[t].at = "failed" /\ req'[t].child = req[t].child /\ DeletersStay
  BY <1>0, CreateStep DEF Creates
<1>2. \A d : Joined(d)' = Joined(d) /\ Detached(d)' = Detached(d)
  BY <1>0, <1>1 DEF Joined, Detached
<1>3. Requests'
  <2>1. \A u \in Thread : /\ req[u].at \in Waits => Started(req[u].tid) /\ req[u].tid \in Thread
                          /\ req[u].at \in Creates => req[u].child \in Thread
                          /\ req[u].at = "created" => Started(req[u].child)
    BY <1>0, ReqOf DEF IInv, Requests
  <2> QED BY <1>0, <1>1, <2>1 DEF IInv, Requests, Creating, Unmade, Creates, Waits, SlotOf, Started
<1>4. /\ thr' \in [Thread -> ThrTypes] /\ Ends'
      /\ \A d \in Thread : Live(d)' = Live(d) /\ Started(d)' = Started(d)
  BY <1>0 DEF IInv, Types, Ends, SlotOf, Live, Started
<1>5. \A d \in Thread : (Holds(d)' <=> Holds(d))
  BY <1>0, <1>2 DEF Holds, Live
<1> QED BY <1>0, <1>1, <1>2, <1>3, <1>4, <1>5, Quiet

\* A new thread begins to run.
LEMMA RunStep ==
  ASSUME IInv, NEW c \in Thread, xsb_thread_run(c)
  PROVE  IInv' /\ Later
<1>0. /\ IInv /\ Types /\ req' = req /\ thr[c].os = "started" /\ Live(c) /\ Holds(c) /\ Started(c)
      /\ UNCHANGED <<th_first_free, th_last_free, th_first_thread>>
  BY DEF IInv, xsb_thread_run, Live, Holds, Started, heads
<1>3. PICK i \in Slot : i = SlotOf(c)
  BY <1>0, Holder
<1>4. i \in On(VThreads) /\ HolderOK(c)
  BY <1>0, <1>3, Holder
<1>5. /\ thr' = [thr EXCEPT ![c].os = "running"]
      /\ th_vec' = [th_vec EXCEPT ![i].tid = c, ![i].valid = TRUE]
  BY <1>3 DEF xsb_thread_run, SlotOf
<1>6. /\ thr' \in [Thread -> ThrTypes]
      /\ \A d \in Thread : thr'[d].pj = thr[d].pj /\ thr'[d].id = thr[d].id
                           /\ thr'[d].os = IF d = c THEN "running" ELSE thr[d].os
      /\ \A d \in Thread : d # c => thr'[d] = thr[d]
  <2>1. "running" \in OSStates
    BY DEF OSStates
  <2> QED BY <1>0, <1>5, <2>1, OsStep DEF Types
<1>7. /\ th_vec' \in [Slot -> VecTypes]
      /\ \A s \in Slot : /\ Same(th_vec'[s], th_vec[s]) /\ th_vec'[s].valid = IF s = i THEN TRUE ELSE th_vec[s].valid
                         /\ th_vec'[s].detached = th_vec[s].detached /\ th_vec'[s].exited = th_vec[s].exited
                         /\ th_vec'[s].ctxt = th_vec[s].ctxt
                         /\ th_vec'[s].tid = IF s = i THEN c ELSE th_vec[s].tid
  <2>1. PICK vec : vec = [th_vec EXCEPT ![i].tid = c]
    OBVIOUS
  <2>2. th_vec' = [vec EXCEPT ![i].valid = TRUE]
    BY <1>0, <1>5, <2>1 DEF Types
  <2>3. vec \in [Slot -> VecTypes] /\ TidSet(vec, th_vec, i, c)
    <3>1. th_vec \in [Slot -> VecTypes] /\ c \in Thread \cup {NoThread}
      BY <1>0 DEF Types
    <3> QED BY <2>1, <3>1, TidStep
  <2>4. th_vec' \in [Slot -> VecTypes] /\ ValidSet(th_vec', vec, i, TRUE)
    <3>1. TRUE \in BOOLEAN
      OBVIOUS
    <3> QED BY <2>2, <2>3, <3>1, ValidStep
  <2>5. \A s \in Slot : Same(th_vec'[s], vec[s]) /\ Same(vec[s], th_vec[s]) => Same(th_vec'[s], th_vec[s])
    BY DEF Same
  <2> QED BY <2>3, <2>4, <2>5 DEF TidSet, ValidSet
<1>9. Lists' /\ VThreads' = VThreads /\ VFree' = VFree
  <2>1. DeletersStay
    BY <1>0 DEF DeletersStay
  <2> QED BY <1>0, <1>7, <2>1, KeptLists DEF IInv
<1>10. \A d : Joined(d)' = Joined(d) /\ Detached(d)' = Detached(d)
  BY <1>0 DEF Joined, Detached
<1>11. Types'
  BY <1>0, <1>6, <1>7 DEF Types
<1>12. Owners'
  <2>1. \A s \in Slot : s # i => Kept(s) /\ (s \in On(VThreads) => s \in On(VThreads)')
    BY <1>7, <1>9 DEF Kept, Same
  <2>2. \A d \in Thread : d # c /\ Holds(d) => SlotOf(d) # i
    BY <1>0, <1>3 DEF IInv, Owners
  <2>3. SlotOf(c)' = i
    BY <1>3, <1>6 DEF SlotOf
  <2>4. HolderOK(c)'
    <3>1. Live(c)' /\ thr'[c].id = thr[c].id /\ thr'[c].pj = thr[c].pj
      BY <1>6 DEF Live
    <3> QED BY <1>0, <1>3, <1>4, <1>6, <1>7, <1>9, <1>10, <2>3, <3>1 DEF HolderOK, Same
  <2> QED BY <1>6, <1>10, <2>1, <2>2, <2>3, <2>4, OwnersOne
<1>13. Tids'
  <2>1. \A s \in Slot : th_vec'[s].tid = th_vec[s].tid \/ th_vec'[s].tid = c
    BY <1>7
  <2>2. \A s \in Slot : th_vec'[s].tid = c => s = i
    BY <1>0, <1>3, <1>7 DEF IInv, Tids
  <2>3. Started(c)' /\ SlotOf(c)' = i
    BY <1>3, <1>6 DEF Started, SlotOf
  <2> QED BY <1>6, <2>1, <2>2, <2>3, TidsOne
<1>14. Requests'
  <2>1. \A u \in Thread : /\ req[u].at \in Waits => Started(req[u].tid) /\ req[u].tid \in Thread
                          /\ req[u].at \in Creates => req[u].child \in Thread
                          /\ req[u].at = "created" => Started(req[u].child)
                          /\ req[u].at \in Unmade => req[u].child # c
    BY <1>0, ReqOf DEF IInv, Requests, Creating, Unmade, Started
  <2> QED BY <1>0, <1>3, <1>6, <2>1 DEF IInv, Requests, Creating, Unmade, Creates, Waits, SlotOf, Started
<1>15. Ends' /\ Mains'
  BY <1>0, <1>6, ThreadTableAssumption DEF IInv, Ends, Mains, SlotOf
<1>16. Later
  <2>1. \A s \in Slot : /\ th_vec'[s].incarn = th_vec[s].incarn
                        /\ th_vec'[s].tid = th_vec[s].tid
                           \/ (th_vec'[s].tid = c /\ SlotOf(c) = s /\ th_vec[s].incarn = thr[c].id[2])
    BY <1>3, <1>4, <1>7 DEF Same, HolderOK
  <2>2. \A d \in Thread : d # c => Started(d)' = Started(d)
    BY <1>6 DEF Started
  <2>3. \A d \in Thread : (thr'[d].os = "none" <=> thr[d].os = "none") /\ thr'[d].id = thr[d].id
    BY <1>0, <1>6
  <2>4. \A d \in Thread : Holds(d) => Holds(d)'
    <3>1. \A d \in Thread : d # c => (Holds(d)' <=> Holds(d))
      BY <1>6, <1>10 DEF Holds, Live
    <3>2. Holds(c)'
      BY <1>6 DEF Holds, Live
    <3> QED BY <3>1, <3>2
  <2>5. th_vec'[SlotOf(c)].tid = c
    BY <1>3, <1>7 DEF Same
  <2> QED BY <1>9, <2>1, <2>2, <2>3, <2>4, <2>5 DEF Later
<1> QED BY <1>9, <1>11, <1>12, <1>13, <1>14, <1>15, <1>16 DEF IInv

\* th_delete: slot x goes from the list of threads to the end of the list of free slots.
Freed(x, vec) ==
  /\ th_vec' \in [Slot -> VecTypes] /\ Lists'
  /\ th_first_free' \in Slot \cup {NULL} /\ th_last_free' \in Slot \cup {NULL}
  /\ th_first_thread' \in Slot \cup {NULL}
  /\ On(VThreads)' = On(VThreads) \ {x} /\ On(VFree)' = On(VFree) \cup {x}
  /\ \A s \in Slot : /\ th_vec'[s].incarn = vec[s].incarn /\ th_vec'[s].tid = vec[s].tid
                     /\ th_vec'[s].detached = vec[s].detached /\ th_vec'[s].exited = vec[s].exited
                     /\ th_vec'[s].ctxt = vec[s].ctxt /\ (s # x => th_vec'[s].valid = vec[s].valid)

LEMMA DeleteStep ==
  ASSUME Types, Lists, Deleters = {}, Deleters' = {}, NEW x \in On(VThreads), NEW vec \in [Slot -> VecTypes],
         \A s \in Slot : Same(vec[s], th_vec[s]), th_delete(x, vec)
  PROVE  Freed(x, vec)
<1> DEFINE nx == vec[x].next
           pv == vec[x].prev
           un == Unlinked(x, vec)
<1>1. PICK used, free : used = VThreads /\ free = VFree
  OBVIOUS
<1>2. ListsAre(vec, th_first_thread, th_first_free, th_last_free, used, free)
  <2>1. ListsAre(th_vec, th_first_thread, th_first_free, th_last_free, used, free)
    BY <1>1, Between
  <2>2. \A s \in Slot : vec[s].next = th_vec[s].next /\ vec[s].prev = th_vec[s].prev
    BY DEF Same
  <2> QED BY <2>1, <2>2, ListsKept
<1>3. /\ x \in Slot /\ th_last_free \in Slot /\ th_last_free # x /\ th_first_free \in Slot
      /\ th_first_free # NULL /\ x \in On(used)
  <2>1. used \in Seq(Slot) /\ free \in Seq(Slot) /\ Len(free) \in Nat /\ Len(free) > 0
    BY <1>2 DEF ListsAre, Path
  <2>2. Len(free) \in 1 .. Len(free) /\ 1 \in 1 .. Len(free)
    BY <2>1
  <2>3. th_last_free = free[Len(free)] /\ th_first_free = free[1]
    BY <1>2, <2>1 DEF ListsAre, Path
  <2>4. th_last_free \in On(VFree)
    BY <1>1, <2>1, <2>2, <2>3, OnList
  <2>5. th_last_free \in Slot /\ th_first_free \in Slot
    BY <2>1, <2>2, <2>3
  <2> QED BY <1>1, <2>4, <2>5, ListSlots, Slots
<1>4. /\ th_first_thread' = IF th_first_thread = x THEN nx ELSE th_first_thread
      /\ th_last_free' = x /\ th_first_free' = th_first_free
      /\ th_vec' = [s \in Slot |-> [un[s] EXCEPT !.next = CASE s = x -> NULL
                                                          [] s = th_last_free /\ s # x -> x
                                                          [] OTHER -> @]]
  BY <1>3 DEF th_delete
<1>5. nx \in Slot \cup {NULL} /\ pv \in Slot \cup {NULL}
  BY <1>3 DEF VecTypes
<1>6. ASSUME NEW r \in VecTypes, NEW c \in Slot \cup {NULL}, NEW u, u = [r EXCEPT !.next = c]
       PROVE  /\ u \in VecTypes /\ u.next = c /\ u.prev = r.prev /\ u.valid = r.valid
              /\ u.incarn = r.incarn /\ u.tid = r.tid /\ u.detached = r.detached
              /\ u.exited = r.exited /\ u.ctxt = r.ctxt
  BY <1>6 DEF VecTypes
<1>7. ASSUME NEW s \in Slot
      PROVE  /\ th_vec'[s] \in VecTypes
             /\ th_vec'[s].next = IF s = x THEN NULL ELSE IF s = th_last_free THEN x
                                  ELSE IF s = pv THEN nx ELSE vec[s].next
             /\ th_vec'[s].prev = IF s = nx THEN pv ELSE vec[s].prev
             /\ th_vec'[s].incarn = vec[s].incarn /\ th_vec'[s].tid = vec[s].tid
             /\ th_vec'[s].detached = vec[s].detached /\ th_vec'[s].exited = vec[s].exited
             /\ th_vec'[s].ctxt = vec[s].ctxt /\ (s # x => th_vec'[s].valid = vec[s].valid)
  <2> DEFINE a == IF s = pv THEN nx ELSE vec[s].next
             b == IF s = nx THEN pv ELSE vec[s].prev
             c == IF s = x THEN NULL ELSE IF s = th_last_free THEN x ELSE a
             v == IF s = x THEN FALSE ELSE vec[s].valid
  <2>1. vec[s] \in VecTypes /\ a \in Slot \cup {NULL} /\ b \in Slot \cup {NULL} /\ c \in Slot \cup {NULL} /\ v \in BOOLEAN
    <3>1. vec[s] \in VecTypes
      OBVIOUS
    <3>2. vec[s].next \in Slot \cup {NULL} /\ vec[s].prev \in Slot \cup {NULL} /\ vec[s].valid \in BOOLEAN
      BY <3>1 DEF VecTypes
    <3> HIDE DEF nx, pv
    <3> QED BY <1>3, <1>5, <3>1, <3>2
  <2>2. un[s] = [vec[s] EXCEPT !.next = a, !.prev = b, !.valid = v]
    BY DEF Unlinked
  <2> DEFINE u == un[s]
  <2>3. /\ u \in VecTypes /\ u.next = a /\ u.prev = b /\ u.valid = v
        /\ u.incarn = vec[s].incarn /\ u.tid = vec[s].tid /\ u.detached = vec[s].detached
        /\ u.exited = vec[s].exited /\ u.ctxt = vec[s].ctxt
    <3> HIDE DEF a, b, v, nx, pv, un, u
    <3>1. u = [vec[s] EXCEPT !.next = a, !.prev = b, !.valid = v]
      BY <2>2 DEF u
    <3>2. PICK r1, a1, b1, v1, u1 : r1 = vec[s] /\ a1 = a /\ b1 = b /\ v1 = v /\ u1 = u
      OBVIOUS
    <3>3. /\ r1 \in VecTypes /\ a1 \in Slot \cup {NULL} /\ b1 \in Slot \cup {NULL} /\ v1 \in BOOLEAN
          /\ u1 = [r1 EXCEPT !.next = a1, !.prev = b1, !.valid = v1]
      BY <2>1, <3>1, <3>2
    <3>4. /\ u1 \in VecTypes /\ u1.next = a1 /\ u1.prev = b1 /\ u1.valid = v1
          /\ u1.incarn = r1.incarn /\ u1.tid = r1.tid /\ u1.detached = r1.detached
          /\ u1.exited = r1.exited /\ u1.ctxt = r1.ctxt
      BY <3>3 DEF VecTypes
    <3> QED BY <3>2, <3>4
  <2>4. th_vec'[s] = [un[s] EXCEPT !.next = c]
    <3> HIDE DEF un, a
    <3> QED BY <1>3, <1>4, <2>3
  <2> DEFINE q == th_vec'[s]
  <2>5. /\ q \in VecTypes /\ q.next = c /\ q.prev = u.prev /\ q.valid = u.valid
        /\ q.incarn = u.incarn /\ q.tid = u.tid /\ q.detached = u.detached
        /\ q.exited = u.exited /\ q.ctxt = u.ctxt
    <3> HIDE DEF a, b, c, v, nx, pv, un, u, q
    <3>1. q = [u EXCEPT !.next = c]
      BY <2>4 DEF u, q
    <3> QED BY <1>6, <2>1, <2>3, <3>1
  <2> HIDE DEF u
  <2> QED BY <2>3, <2>5
<1>8. th_vec' \in [Slot -> VecTypes]
  BY <1>4, <1>7
<1>9. PICK used2, free2 :
        /\ ListsAre(th_vec', th_first_thread', th_first_free, x, used2, free2)
        /\ On(used2) = On(used) \ {x} /\ On(free2) = On(free) \cup {x}
  <2>1. \A s \in Slot :
          /\ th_vec'[s].next = IF s = x THEN NULL ELSE IF s = th_last_free THEN x
                               ELSE IF s = vec[x].prev THEN vec[x].next ELSE vec[s].next
          /\ th_vec'[s].prev = IF s = vec[x].next THEN vec[x].prev ELSE vec[s].prev
    BY <1>7
  <2>2. th_first_thread' = IF th_first_thread = x THEN vec[x].next ELSE th_first_thread
    BY <1>4
  <2>3. x \in On(used)
    BY <1>3
  <2> QED BY <1>2, <2>1, <2>2, <2>3, ListsDelete
<1>10. Lists' /\ VThreads' = used2 /\ VFree' = free2
  BY <1>4, <1>8, <1>9, ListStep
<1>11. On(VThreads)' = On(VThreads) \ {x} /\ On(VFree)' = On(VFree) \cup {x}
  BY <1>1, <1>9, <1>10
<1> HIDE DEF un
<1>12. /\ th_first_free' \in Slot \cup {NULL} /\ th_last_free' \in Slot \cup {NULL}
       /\ th_first_thread' \in Slot \cup {NULL}
  BY <1>3, <1>4, <1>5 DEF Types
<1> QED BY <1>7, <1>8, <1>10, <1>11, <1>12 DEF Freed

\* Thread c gives back its slot.
LEMMA GiveBack ==
  ASSUME IInv, NEW c \in Thread, Holds(c), NEW vec, Freed(SlotOf(c), vec),
         \A s \in Slot : /\ Same(vec[s], th_vec[s]) /\ vec[s].tid = th_vec[s].tid
                         /\ vec[s].valid = th_vec[s].valid /\ vec[s].detached = th_vec[s].detached
                         /\ vec[s].exited = th_vec[s].exited
                         /\ (s # SlotOf(c) => vec[s].ctxt = th_vec[s].ctxt),
         thr' \in [Thread -> ThrTypes], req' \in [Thread -> ReqTypes],
         \A d \in Thread : d # c => thr'[d] = thr[d] /\ Joined(d)' = Joined(d) /\ Detached(d)' = Detached(d),
         ~Holds(c)', Started(c) => Started(c)' /\ SlotOf(c)' = SlotOf(c),
         thr'[c].os = "none" <=> thr[c].os = "none",
         thr'[c].id[1] = NULL \/ (thr'[c].id = thr[c].id /\ (Started(c)' => Started(c))),
         Requests', Ends', Mains'
  PROVE  IInv' /\ Later
<1>1. PICK i \in Slot : i = SlotOf(c)
  BY Holder
<1>2. Types' /\ Lists'
  BY DEF Types, Freed
<1>3. Owners'
  <2>1. \A s \in Slot : s # i => Kept(s) /\ (s \in On(VThreads) => s \in On(VThreads)')
    BY <1>1 DEF Kept, Freed, Same
  <2>2. \A d \in Thread : d # c /\ Holds(d) => SlotOf(d) # i
    BY <1>1 DEF IInv, Owners
  <2> QED BY <2>1, <2>2, OwnersOne
<1>4. Tids'
  <2>1. \A s \in Slot : th_vec'[s].tid = th_vec[s].tid
    BY DEF Freed
  <2>2. \A s \in Slot : th_vec'[s].tid = c => Started(c)' /\ SlotOf(c)' = s
    BY <2>1 DEF IInv, Tids, Started
  <2> QED BY <2>1, <2>2, TidsOne
<1>5. Later
  <2>1. \A s \in Slot : th_vec'[s].incarn = th_vec[s].incarn /\ th_vec'[s].tid = th_vec[s].tid
    BY DEF Freed, Same
  <2>2. On(VFree) \subseteq On(VFree)' /\ SlotOf(c) \in On(VFree)'
    BY DEF Freed
  <2>3. \A d \in Thread : d # c => (Holds(d)' <=> Holds(d)) /\ Started(d)' = Started(d)
    BY DEF Holds, Live, Started
  <2> QED BY <2>1, <2>2, <2>3 DEF Later
<1> QED BY <1>2, <1>3, <1>4, <1>5 DEF IInv

\* The statements of th_delete(i) together.
DeletedFrom(f, n, p, first, ff, lf, i) ==
  /\ f.first = (IF first = i THEN n[i] ELSE first) /\ f.ff = ff /\ f.lf = i
  /\ \A s \in Slot :
       /\ f.next[s] = IF s = i THEN NULL ELSE IF s = lf THEN i ELSE n[s]
       /\ f.prev[s] = IF s = n[i] THEN p[i] ELSE p[s]
LEMMA FromBackIs ==
  ASSUME NEW n \in [Slot -> Slot \cup {NULL}], NEW p \in [Slot -> Slot \cup {NULL}], NEW first, NEW ff, NEW lf,
         NEW i \in Slot, NEW l, l = [next |-> n, prev |-> p, first |-> first, ff |-> ff, lf |-> lf],
         ff # NULL, NEW f, f = FromBack(i, l)
  PROVE  DeletedFrom(f, n, p, first, ff, lf, i)
<1>1. PICK l1 : l1 = DoBack(i, l)
  OBVIOUS
<1>2. PICK l2 : l2 = DoHead(i, l1)
  OBVIOUS
<1>3. PICK l3 : l3 = DoAppend(i, l2)
  OBVIOUS
<1>4. PICK l4 : l4 = DoTail(i, l3)
  OBVIOUS
<1>5. PICK p1 : p1 = [s \in Slot |-> IF s = n[i] THEN p[i] ELSE p[s]]
  OBVIOUS
<1>6. PICK a1 : a1 = IF first = i THEN n[i] ELSE first
  OBVIOUS
<1>7. PICK n1 : n1 = [s \in Slot |-> IF s = lf THEN i ELSE n[s]]
  OBVIOUS
<1>8. PICK n2 : n2 = [s \in Slot |-> IF s = i THEN NULL ELSE n1[s]]
  OBVIOUS
<1>9. l1 = [next |-> n, prev |-> p1, first |-> first, ff |-> ff, lf |-> lf]
  BY <1>1, <1>5 DEF DoBack
<1>10. l2 = [next |-> n, prev |-> p1, first |-> a1, ff |-> ff, lf |-> lf]
  BY <1>2, <1>6, <1>9 DEF DoHead
<1>11. l3 = [next |-> n1, prev |-> p1, first |-> a1, ff |-> ff, lf |-> lf]
  BY <1>3, <1>7, <1>10 DEF DoAppend
<1>12. l4 = [next |-> n1, prev |-> p1, first |-> a1, ff |-> ff, lf |-> i]
  BY <1>4, <1>11 DEF DoTail
<1>13. f = DoEnd(i, l4)
  <2>1. l2.ff # NULL
    BY <1>10
  <2> QED BY <1>1, <1>2, <1>3, <1>4, <2>1 DEF FromBack, FromHead, FromTest, FromAppend, FromTail
<1>14. f = [next |-> n2, prev |-> p1, first |-> a1, ff |-> ff, lf |-> i]
  BY <1>8, <1>12, <1>13 DEF DoEnd
<1> QED BY <1>5, <1>6, <1>7, <1>8, <1>14 DEF DeletedFrom

\* A th_delete begins that is not under th_mutex, with all its statements to come but one.
LEMMA BeginStep ==
  ASSUME Types, Lists, Deleters = {}, NEW x \in On(VThreads), NEW t \in Thread,
         th_vec' = [s \in Slot |->
           [th_vec[s] EXCEPT !.next = IF s = th_vec[x].prev THEN th_vec[x].next ELSE @]],
         UNCHANGED <<th_first_free, th_last_free, th_first_thread>>,
         Deleters' = {t}, req'[t].at = "back", req'[t].slot = x
  PROVE  Freed(x, th_vec)
<1> DEFINE nx == th_vec[x].next
           pv == th_vec[x].prev
           n == [s \in Slot |-> IF s = pv THEN nx ELSE th_vec[s].next]
           p == [s \in Slot |-> th_vec[s].prev]
<1>1. PICK used, free : used = VThreads /\ free = VFree
  OBVIOUS
<1>2. ListsAre(th_vec, th_first_thread, th_first_free, th_last_free, used, free)
  BY <1>1, Between
<1>3. /\ x \in Slot /\ th_first_free \in Slot /\ th_first_free # NULL /\ x \in On(used)
      /\ th_first_thread \in Slot \cup {NULL}
  <2>1. free \in Seq(Slot) /\ Len(free) \in Nat /\ Len(free) > 0
    BY <1>2 DEF ListsAre, Path
  <2>2. 1 \in 1 .. Len(free) /\ th_first_free = free[1]
    BY <1>2, <2>1 DEF ListsAre, Path
  <2>3. th_first_free \in Slot
    BY <2>1, <2>2
  <2> QED BY <1>1, <2>3, ListSlots, Slots DEF Types
<1>4. \A s \in Slot : /\ th_vec[s] \in VecTypes /\ th_vec[s].next \in Slot \cup {NULL}
                      /\ th_vec[s].prev \in Slot \cup {NULL}
  BY DEF Types, VecTypes
<1>5. nx \in Slot \cup {NULL} /\ pv \in Slot \cup {NULL}
  BY <1>3, <1>4
<1>6. ASSUME NEW s \in Slot
      PROVE  /\ th_vec'[s] \in VecTypes /\ th_vec'[s].next = n[s] /\ th_vec'[s].prev = p[s]
             /\ th_vec'[s].incarn = th_vec[s].incarn /\ th_vec'[s].tid = th_vec[s].tid
             /\ th_vec'[s].detached = th_vec[s].detached /\ th_vec'[s].exited = th_vec[s].exited
             /\ th_vec'[s].ctxt = th_vec[s].ctxt /\ th_vec'[s].valid = th_vec[s].valid
  <2> DEFINE a == IF s = pv THEN nx ELSE th_vec[s].next
  <2>1. th_vec'[s] = [th_vec[s] EXCEPT !.next = a] /\ a \in Slot \cup {NULL} /\ n[s] = a /\ p[s] = th_vec[s].prev
    BY <1>4, <1>5
  <2>2. PICK r, b, q : r = th_vec[s] /\ b = a /\ q = th_vec'[s]
    OBVIOUS
  <2>3. r \in VecTypes /\ b \in Slot \cup {NULL} /\ q = [r EXCEPT !.next = b]
    BY <1>4, <2>1, <2>2
  <2>4. /\ q \in VecTypes /\ q.next = b /\ q.prev = r.prev /\ q.incarn = r.incarn /\ q.tid = r.tid
        /\ q.detached = r.detached /\ q.exited = r.exited /\ q.ctxt = r.ctxt /\ q.valid = r.valid
    BY <2>3 DEF VecTypes
  <2> HIDE DEF a, n, p
  <2> QED BY <2>1, <2>2, <2>4
<1>7. n \in [Slot -> Slot \cup {NULL}] /\ p \in [Slot -> Slot \cup {NULL}]
      /\ n[x] = nx /\ p[x] = pv
  BY <1>3, <1>4, <1>5
<1>8. \A s \in Slot : n[s] = (IF s = pv THEN nx ELSE th_vec[s].next) /\ p[s] = th_vec[s].prev
  OBVIOUS
<1>9. Links' = [next |-> n, prev |-> p, first |-> th_first_thread, ff |-> th_first_free, lf |-> th_last_free]
  <2>1. [s \in Slot |-> th_vec'[s].next] = n /\ [s \in Slot |-> th_vec'[s].prev] = p
    BY <1>6
  <2> HIDE DEF n, p
  <2> QED BY <2>1 DEF Links
<1> HIDE DEF n, p, nx, pv
<1>10. View' = FromBack(x, Links')
  <2>1. Deleter' = t
    BY DEF Deleter
  <2> QED BY <2>1 DEF View, Rest
<1>11. PICK f : f = View'
  OBVIOUS
<1>12. /\ f.first = (IF th_first_thread = x THEN nx ELSE th_first_thread) /\ f.ff = th_first_free /\ f.lf = x
       /\ \A s \in Slot :
            /\ f.next[s] = IF s = x THEN NULL ELSE IF s = th_last_free THEN x ELSE n[s]
            /\ f.prev[s] = IF s = nx THEN pv ELSE p[s]
  <2>1. PICK l : l = Links'
    OBVIOUS
  <2>2. /\ l = [next |-> n, prev |-> p, first |-> th_first_thread, ff |-> th_first_free, lf |-> th_last_free]
        /\ f = FromBack(x, l)
    BY <1>9, <1>10, <1>11, <2>1
  <2>3. DeletedFrom(f, n, p, th_first_thread, th_first_free, th_last_free, x)
    BY <1>3, <1>7, <2>2, FromBackIs
  <2> QED BY <1>7, <2>3 DEF DeletedFrom
<1>13. PICK vec : vec = LinkVec(f)
  OBVIOUS
<1>14. \A s \in Slot :
         /\ vec[s].next = IF s = x THEN NULL ELSE IF s = th_last_free THEN x
                          ELSE IF s = th_vec[x].prev THEN th_vec[x].next ELSE th_vec[s].next
         /\ vec[s].prev = IF s = th_vec[x].next THEN th_vec[x].prev ELSE th_vec[s].prev
  <2>1. \A s \in Slot : vec[s].next = f.next[s] /\ vec[s].prev = f.prev[s]
    BY <1>13 DEF LinkVec
  <2> QED BY <1>8, <1>12, <2>1 DEF nx, pv
<1>15. PICK used2, free2 :
         /\ ListsAre(vec, f.first, f.ff, f.lf, used2, free2)
         /\ On(used2) = On(used) \ {x} /\ On(free2) = On(free) \cup {x}
  <2>1. f.first = (IF th_first_thread = x THEN th_vec[x].next ELSE th_first_thread) /\ f.ff = th_first_free /\ f.lf = x
    BY <1>12 DEF nx
  <2> QED BY <1>2, <1>3, <1>14, <2>1, ListsDelete
<1>16. Linking(vec)
  <2>1. \A s \in Slot : vec[s].next \in Slot \cup {NULL} /\ vec[s].prev \in Slot \cup {NULL}
    BY <1>3, <1>4, <1>14
  <2> QED BY <2>1 DEF Linking
<1>17. VThreads' = used2 /\ VFree' = free2
  <2>1. ListFrom(vec, f.first) = used2 /\ ListFrom(vec, f.ff) = free2
    BY <1>15, <1>16, ListsTo
  <2> QED BY <1>11, <1>13, <2>1 DEF VThreads, VFree
<1>18. On(VThreads)' = On(VThreads) \ {x} /\ On(VFree)' = On(VFree) \cup {x}
  BY <1>1, <1>15, <1>17
<1>19. Lists'
  <2>1. ListsAre(LinkVec(View'), View'.first, View'.ff, View'.lf, VThreads', VFree')
    BY <1>11, <1>13, <1>15, <1>17
  <2>2. \A u \in Deleters' : req'[u].slot \in On(VFree)'
    BY <1>18
  <2> QED BY <2>1, <2>2 DEF Lists
<1>20. th_vec' \in [Slot -> VecTypes]
  BY <1>6
<1>21. /\ th_first_free' \in Slot \cup {NULL} /\ th_last_free' \in Slot \cup {NULL}
       /\ th_first_thread' \in Slot \cup {NULL}
  BY DEF Types
<1> QED BY <1>6, <1>18, <1>19, <1>20, <1>21 DEF Freed

\* There is no thread: the creator begins to give back the slot, while nobody else does.
LEMMA DeleteBeginsStep ==
  ASSUME IInv, ~disturbed', NEW t \in Thread, DeleteBegins(t)
  PROVE  IInv' /\ Later
<1> DEFINE r == [os |-> "ended", pj |-> "joined", id |-> <<NULL, 0>>]
<1>0. IInv /\ Types /\ Lists /\ req[t].at = "delete" /\ Deleters = {} /\ "delete" \in Creates
  BY NoDeleters DEF IInv, DeleteBegins, Creates
<1>1. PICK c \in Thread : c = req[t].child
  BY <1>0, ReqOf
<1>2. thr[c].os = "setup" /\ Live(c) /\ Holds(c) /\ ~Started(c)
  BY <1>0, <1>1 DEF IInv, Requests, Creating, Unmade, Live, Holds, Started
<1>3. /\ thr' = [thr EXCEPT ![c] = r]
      /\ SlotOf(c) \in Slot /\ SlotOf(c) \in On(VThreads)
  BY <1>0, <1>1, <1>2, Holder DEF DeleteBegins
<1>5. r \in ThrTypes /\ r.os = "ended" /\ r.pj = "joined" /\ r.id = <<NULL, 0>>
  <2>1. 0 \in 0..(Incarnations - 1)
    BY ThreadTableAssumption
  <2> QED BY <2>1 DEF ThrTypes, OSStates, PJStates, IdTypes
<1>6. /\ thr' \in [Thread -> ThrTypes] /\ \A d \in Thread : d # c => thr'[d] = thr[d]
      /\ thr'[c].os = "ended" /\ thr'[c].pj = "joined" /\ thr'[c].id = <<NULL, 0>>
  <2> HIDE DEF r
  <2> QED BY <1>0, <1>3, <1>5 DEF Types
<1>7. /\ req' \in [Thread -> ReqTypes] /\ \A v \in Thread : v # t => req'[v] = req[v]
      /\ req'[t].at = "back" /\ req'[t].slot = SlotOf(c)
  <2>1. PICK q : q = [at |-> "back", slot |-> SlotOf(c)]
    OBVIOUS
  <2>2. q \in ReqTypes /\ q.at = "back" /\ q.slot = SlotOf(c)
    BY <1>3, <2>1 DEF ReqTypes, DeleteTypes, DeleteStages
  <2>3. req' = [req EXCEPT ![t] = q]
    BY <1>1, <2>1 DEF DeleteBegins, SlotOf
  <2> QED BY <1>0, <2>2, <2>3, ReqField DEF Types
<1>4. Freed(SlotOf(c), th_vec)
  <2>1. Deleters' = {t}
    BY <1>0, <1>7 DEF Deleters, DeleteStages
  <2>2. /\ th_vec' = [s \in Slot |-> [th_vec[s] EXCEPT !.next = IF s = th_vec[SlotOf(c)].prev
                                                               THEN th_vec[SlotOf(c)].next ELSE @]]
        /\ UNCHANGED <<th_first_free, th_last_free, th_first_thread>>
    BY <1>1 DEF DeleteBegins, SlotOf, heads
  <2> QED BY <1>0, <1>3, <1>7, <2>1, <2>2, BeginStep
<1>8. \A d : Joined(d)' = Joined(d) /\ Detached(d)' = Detached(d)
  BY <1>0, <1>7 DEF Joined, Detached
<1>9. \A u \in Thread : /\ req[u].at \in Waits => Started(req[u].tid) /\ req[u].tid \in Thread /\ req[u].tid # c
                        /\ req[u].at \in Creates => req[u].child \in Thread
                        /\ req[u].at = "created" => Started(req[u].child) /\ req[u].child # c
                        /\ req[u].at \in Unmade /\ u # t => req[u].child # c
  BY <1>0, <1>1, <1>2, ReqOf DEF IInv, Requests, Creating, Unmade, Started
<1>10. ~Holds(c)'
  <2>1. ~Joined(c) /\ ~Detached(c)
    BY <1>9 DEF Joined, Detached, Waits
  <2> QED BY <1>6, <1>8, <2>1 DEF Holds, Live
<1>11. Requests'
  BY <1>0, <1>1, <1>6, <1>7, <1>9 DEF IInv, Requests, Creating, Unmade, Creates, Waits, SlotOf, Started
<1>12. Ends' /\ Mains'
  BY <1>0, <1>2, <1>6, ThreadTableAssumption DEF IInv, Ends, Mains, SlotOf
<1>13. \A s \in Slot : Same(th_vec[s], th_vec[s])
  BY DEF Same
<1>14. (thr'[c].os = "none" <=> thr[c].os = "none") /\ thr'[c].id[1] = NULL
  BY <1>2, <1>6
<1> QED BY <1>0, <1>2, <1>4, <1>6, <1>7, <1>8, <1>10, <1>11, <1>12, <1>13, <1>14, GiveBack

\* The creator goes on: what its th_delete leaves when it is done stays the same.
LEMMA DeleteGoesOnStep ==
  ASSUME IInv, NEW t \in Thread, DeleteGoesOn(t)
  PROVE  IInv' /\ Later
<1>0. /\ IInv /\ Types /\ Lists /\ req[t].at \in DeleteStages /\ thr' = thr
      /\ req[t] \in DeleteTypes /\ req[t].slot \in Slot
  BY ReqOf DEF IInv, DeleteGoesOn
<1>1. PICK i \in Slot, at \in DeleteStages : i = req[t].slot /\ at = req[t].at
  BY <1>0
<1>2. Deleters = {t} /\ Deleter = t /\ i \in On(VFree)
  <2>1. Deleters = {t}
    BY <1>0 DEF Lists, Deleters
  <2>2. req[t].slot \in On(VFree)
    BY <1>0, <2>1 DEF Lists
  <2> QED BY <1>1, <2>1, <2>2 DEF Deleter
<1>3. PICK l : l = Links
  OBVIOUS
<1>4. View = Rest(at, i, l)
  BY <1>1, <1>2, <1>3 DEF View
<1>5. \A s \in Slot : /\ th_vec[s] \in VecTypes /\ th_vec[s].next \in Slot \cup {NULL}
                      /\ th_vec[s].prev \in Slot \cup {NULL}
  BY <1>0 DEF Types, VecTypes
<1> DEFINE L(n, p, a, b, c) == [next |-> n, prev |-> p, first |-> a, ff |-> b, lf |-> c]
           N == [s \in Slot |-> th_vec[s].next]
           P == [s \in Slot |-> th_vec[s].prev]
           Plain == /\ th_vec' \in [Slot -> VecTypes]
                    /\ \A s \in Slot :
                         /\ th_vec'[s].incarn = th_vec[s].incarn /\ th_vec'[s].tid = th_vec[s].tid
                         /\ th_vec'[s].detached = th_vec[s].detached /\ th_vec'[s].exited = th_vec[s].exited
                         /\ th_vec'[s].ctxt = th_vec[s].ctxt /\ (s # i => th_vec'[s].valid = th_vec[s].valid)
           Heads == /\ th_first_free' \in Slot \cup {NULL} /\ th_last_free' \in Slot \cup {NULL}
                    /\ th_first_thread' \in Slot \cup {NULL}
<1>6. l = L(N, P, th_first_thread, th_first_free, th_last_free)
  BY <1>3 DEF Links
<1>7. Links' = L([s \in Slot |-> th_vec'[s].next], [s \in Slot |-> th_vec'[s].prev],
                 th_first_thread', th_first_free', th_last_free')
  BY DEF Links
<1>9. ASSUME NEW a \in [Slot -> Slot \cup {NULL}], NEW b \in [Slot -> Slot \cup {NULL}],
             th_vec' = [s \in Slot |-> [th_vec[s] EXCEPT !.next = a[s], !.prev = b[s]]]
      PROVE  Plain /\ [s \in Slot |-> th_vec'[s].next] = a /\ [s \in Slot |-> th_vec'[s].prev] = b
  <2>1. \A s \in Slot : th_vec'[s] = [th_vec[s] EXCEPT !.next = a[s], !.prev = b[s]] 
                        /\ a[s] \in Slot \cup {NULL} /\ b[s] \in Slot \cup {NULL}
    BY <1>9
  <2>2. \A s \in Slot : /\ th_vec'[s] \in VecTypes /\ th_vec'[s].next = a[s] /\ th_vec'[s].prev = b[s]
                        /\ th_vec'[s].incarn = th_vec[s].incarn /\ th_vec'[s].tid = th_vec[s].tid
                        /\ th_vec'[s].detached = th_vec[s].detached /\ th_vec'[s].exited = th_vec[s].exited
                        /\ th_vec'[s].ctxt = th_vec[s].ctxt /\ th_vec'[s].valid = th_vec[s].valid
    <3> TAKE s \in Slot
    <3>1. PICK r \in VecTypes, a1 \in Slot \cup {NULL}, b1 \in Slot \cup {NULL} :
            r = th_vec[s] /\ a1 = a[s] /\ b1 = b[s]
      BY <1>5, <2>1
    <3>2. PICK q : q = th_vec'[s]
      OBVIOUS
    <3>3. q = [r EXCEPT !.next = a1, !.prev = b1]
      BY <2>1, <3>1, <3>2
    <3>4. /\ q \in VecTypes /\ q.next = a1 /\ q.prev = b1
          /\ q.incarn = r.incarn /\ q.tid = r.tid /\ q.detached = r.detached
          /\ q.exited = r.exited /\ q.ctxt = r.ctxt /\ q.valid = r.valid
      BY <3>3 DEF VecTypes
    <3> QED BY <3>1, <3>2, <3>4
  <2>3. th_vec' \in [Slot -> VecTypes]
    BY <1>9, <2>2
  <2> QED BY <2>2, <2>3
<1>10. N \in [Slot -> Slot \cup {NULL}] /\ P \in [Slot -> Slot \cup {NULL}]
  BY <1>5
<1>11. th_vec' = th_vec => Plain /\ [s \in Slot |-> th_vec'[s].next] = N /\ [s \in Slot |-> th_vec'[s].prev] = P
  BY <1>0 DEF Types
<1>12. th_first_free \in Slot \cup {NULL} /\ th_last_free \in Slot \cup {NULL} /\ th_first_thread \in Slot \cup {NULL}
  BY <1>0 DEF Types
<1>13. \A s \in Slot : th_vec[s] = [th_vec[s] EXCEPT !.next = N[s], !.prev = P[s]]
  BY <1>5 DEF VecTypes
<1>14. CASE at = "invalid"
  <2>1. /\ th_vec' = [th_vec EXCEPT ![i].valid = FALSE] /\ req' = [req EXCEPT ![t] = NoReq]
        /\ UNCHANGED <<th_first_free, th_last_free, th_first_thread>>
    BY <1>1, <1>14 DEF DeleteGoesOn
  <2>2. th_vec' \in [Slot -> VecTypes] /\ ValidSet(th_vec', th_vec, i, FALSE)
    <3>1. th_vec \in [Slot -> VecTypes] /\ FALSE \in BOOLEAN
      BY <1>0 DEF Types
    <3> QED BY <2>1, <3>1, ValidStep
  <2>3. Links' = l
    <3>1. [s \in Slot |-> th_vec'[s].next] = N /\ [s \in Slot |-> th_vec'[s].prev] = P
      BY <2>2 DEF ValidSet, Same
    <3> QED BY <1>6, <1>7, <2>1, <3>1
  <2>4. req' \in [Thread -> ReqTypes] /\ \A v \in Thread : req'[v] = IF v = t THEN NoReq ELSE req[v]
    BY <1>0, <2>1, ReqDone
  <2>5. Deleters' = {}
    BY <1>2, <2>4 DEF Deleters, NoReq, DeleteStages
  <2>6. View' = View
    BY <1>4, <1>14, <2>3, <2>5 DEF View, Rest
  <2>7. VThreads' = VThreads /\ VFree' = VFree /\ Lists'
    BY <1>0, <2>5, <2>6 DEF VThreads, VFree, Lists
  <2>8. Types'
    BY <1>0, <2>1, <2>2, <2>4 DEF Types
  <2>9. \A d : Joined(d)' = Joined(d) /\ Detached(d)' = Detached(d)
    BY <1>0, <2>4 DEF Joined, Detached, NoReq, DeleteStages
  <2>10. Requests'
    <3>1. \A u \in Thread : /\ req[u].at \in Waits => Started(req[u].tid) /\ req[u].tid \in Thread
                            /\ req[u].at \in Creates => req[u].child \in Thread
                            /\ req[u].at = "created" => Started(req[u].child)
      BY <1>0, ReqOf DEF IInv, Requests
    <3> QED BY <1>0, <2>4, <3>1 DEF IInv, Requests, Creating, Unmade, Creates, Waits, SlotOf, Started, NoReq
  <2>11. i \notin On(VThreads)
    BY <1>0, <1>2, ListSlots
  <2>12. \A s \in Slot : /\ th_vec'[s].incarn = th_vec[s].incarn /\ th_vec'[s].tid = th_vec[s].tid
                         /\ th_vec'[s].detached = th_vec[s].detached /\ th_vec'[s].exited = th_vec[s].exited
                         /\ th_vec'[s].ctxt = th_vec[s].ctxt
                         /\ s \in On(VThreads) /\ th_vec[s].valid => th_vec'[s].valid
    BY <2>2, <2>11 DEF ValidSet, Same
  <2> QED BY <1>0, <2>7, <2>8, <2>9, <2>10, <2>12, FieldsKept
<1>15. CASE at # "invalid"
  <2>1. PICK x \in DeleteStages : req' = [req EXCEPT ![t].at = x] /\ Plain /\ Heads /\ View = Rest(x, i, Links')
    <3>1. CASE at = "back"
      <4> DEFINE pr == [s \in Slot |-> IF s = N[i] THEN P[i] ELSE P[s]]
      <4>1. req' = [req EXCEPT ![t].at = "head"] /\ "head" \in DeleteStages /\ Heads
        BY <1>1, <1>12, <3>1 DEF DeleteGoesOn, DeleteStages
      <4>2. th_vec' = [s \in Slot |->
              [th_vec[s] EXCEPT !.prev = IF s = th_vec[i].next THEN th_vec[i].prev ELSE @]]
            /\ UNCHANGED <<th_first_free, th_last_free, th_first_thread>>
        BY <1>1, <3>1 DEF DeleteGoesOn
      <4>3. pr \in [Slot -> Slot \cup {NULL}]
        BY <1>10
      <4>4. th_vec' = [s \in Slot |-> [th_vec[s] EXCEPT !.next = N[s], !.prev = pr[s]]]
        <5>1. \A s \in Slot : [th_vec[s] EXCEPT !.prev = IF s = th_vec[i].next THEN th_vec[i].prev ELSE @]
                              = [th_vec[s] EXCEPT !.next = N[s], !.prev = pr[s]]
          BY <1>5 DEF VecTypes
        <5> QED BY <4>2, <5>1
      <4>5. Links' = L(N, pr, th_first_thread, th_first_free, th_last_free) /\ Plain
        <5> HIDE DEF N, P, pr, Plain, L
        <5>1. Plain /\ [s \in Slot |-> th_vec'[s].next] = N /\ [s \in Slot |-> th_vec'[s].prev] = pr
          BY <1>9, <1>10, <4>3, <4>4
        <5> QED BY <1>7, <4>2, <5>1
      <4>6. Links' = DoBack(i, l)
        <5>1. l.next = N /\ l.prev = P /\ [l EXCEPT !.prev = pr] = L(N, pr, th_first_thread, th_first_free, th_last_free)
          BY <1>6
        <5> HIDE DEF N, P, L
        <5> QED BY <4>5, <5>1 DEF DoBack
      <4>7. Rest("head", i, Links') = Rest("back", i, l)
        BY <4>6 DEF Rest, FromBack
      <4> QED BY <1>4, <3>1, <4>1, <4>5, <4>7
    <3>2. CASE at = "head"
      <4>1. /\ req' = [req EXCEPT ![t].at = "test"] /\ "test" \in DeleteStages
            /\ th_vec' = th_vec /\ UNCHANGED <<th_first_free, th_last_free>>
            /\ th_first_thread' = IF th_first_thread = i THEN th_vec[i].next ELSE th_first_thread
        BY <1>1, <3>2 DEF DeleteGoesOn, DeleteStages
      <4>2. Heads
        BY <1>5, <1>12, <4>1
      <4>3. Links' = L(N, P, IF l.first = i THEN l.next[i] ELSE l.first, th_first_free, th_last_free)
        <5>1. l.next[i] = th_vec[i].next /\ l.first = th_first_thread
          BY <1>6
        <5> QED BY <1>7, <1>11, <4>1, <5>1
      <4>4. Links' = DoHead(i, l)
        BY <1>6, <4>3 DEF DoHead
      <4>5. Rest("test", i, Links') = Rest("head", i, l)
        BY <4>4 DEF Rest, FromHead
      <4> QED BY <1>4, <1>11, <3>2, <4>1, <4>2, <4>5
    <3>3. CASE at = "test"
      <4>1. PICK x \in {"only", "append"} :
              /\ x = (IF th_first_free = NULL THEN "only" ELSE "append") /\ x \in DeleteStages
              /\ req' = [req EXCEPT ![t].at = x]
              /\ th_vec' = th_vec /\ UNCHANGED <<th_first_free, th_last_free, th_first_thread>>
        BY <1>1, <3>3 DEF DeleteGoesOn, DeleteStages
      <4>2. Links' = l /\ Heads
        BY <1>6, <1>7, <1>11, <1>12, <4>1
      <4>3. l.ff = th_first_free
        BY <1>6
      <4>4. Rest(x, i, l) = Rest("test", i, l)
        BY <4>1, <4>3 DEF Rest, FromTest
      <4> QED BY <1>4, <1>11, <3>3, <4>1, <4>2, <4>4
    <3>4. CASE at = "only"
      <4>1. /\ req' = [req EXCEPT ![t].at = "invalid"] /\ "invalid" \in DeleteStages
            /\ th_vec' = th_vec /\ th_first_free' = i /\ th_last_free' = i /\ UNCHANGED th_first_thread
        BY <1>1, <3>4 DEF DeleteGoesOn, DeleteStages
      <4>2. Links' = L(N, P, th_first_thread, i, i) /\ Heads
        BY <1>7, <1>11, <1>12, <4>1
      <4>3. Links' = DoOnly(i, l)
        <5> HIDE DEF N, P
        <5>1. PICK l1 : l1 = [l EXCEPT !.ff = i]
          OBVIOUS
        <5>2. l1 = L(N, P, th_first_thread, i, th_last_free)
          BY <1>6, <5>1
        <5>3. DoTail(i, l1) = L(N, P, th_first_thread, i, i)
          BY <5>2 DEF DoTail
        <5> QED BY <4>2, <5>1, <5>3 DEF DoOnly
      <4>4. Rest("invalid", i, Links') = Rest("only", i, l)
        BY <4>3 DEF Rest
      <4> QED BY <1>4, <1>11, <3>4, <4>1, <4>2, <4>4
    <3>5. CASE at = "append"
      <4> DEFINE a == [s \in Slot |-> IF s = th_last_free THEN i ELSE N[s]]
      <4>1. /\ req' = [req EXCEPT ![t].at = "tail"] /\ "tail" \in DeleteStages /\ Heads
            /\ th_vec' = [th_vec EXCEPT ![th_last_free].next = i]
            /\ UNCHANGED <<th_first_free, th_last_free, th_first_thread>>
        BY <1>1, <1>12, <3>5 DEF DeleteGoesOn, DeleteStages
      <4>2. a \in [Slot -> Slot \cup {NULL}]
        BY <1>10
      <4>3. th_vec' = [s \in Slot |-> [th_vec[s] EXCEPT !.next = a[s], !.prev = P[s]]]
        <5>1. th_vec' = [s \in Slot |-> IF s = th_last_free THEN [th_vec[s] EXCEPT !.next = i] ELSE th_vec[s]]
          BY <1>0, <4>1 DEF Types
        <5>2. \A s \in Slot : (IF s = th_last_free THEN [th_vec[s] EXCEPT !.next = i] ELSE th_vec[s])
                              = [th_vec[s] EXCEPT !.next = a[s], !.prev = P[s]]
          BY <1>5 DEF VecTypes
        <5> HIDE DEF a
        <5> QED BY <5>1, <5>2
      <4>4. Links' = L(a, P, th_first_thread, th_first_free, th_last_free) /\ Plain
        <5> HIDE DEF N, P, a, Plain
        <5> QED BY <1>7, <1>9, <1>10, <4>1, <4>2, <4>3
      <4>5. Links' = DoAppend(i, l)
        <5>1. l.next = N /\ l.lf = th_last_free
              /\ [l EXCEPT !.next = a] = L(a, P, th_first_thread, th_first_free, th_last_free)
          BY <1>6
        <5> HIDE DEF N, P, L
        <5> QED BY <4>4, <5>1 DEF DoAppend
      <4>6. Rest("tail", i, Links') = Rest("append", i, l)
        BY <4>5 DEF Rest, FromAppend
      <4> QED BY <1>4, <3>5, <4>1, <4>4, <4>6
    <3>6. CASE at = "tail"
      <4>1. /\ req' = [req EXCEPT ![t].at = "end"] /\ "end" \in DeleteStages
            /\ th_vec' = th_vec /\ th_last_free' = i /\ UNCHANGED <<th_first_free, th_first_thread>>
        BY <1>1, <3>6 DEF DeleteGoesOn, DeleteStages
      <4>2. Links' = L(N, P, th_first_thread, th_first_free, i) /\ Heads
        BY <1>7, <1>11, <1>12, <4>1
      <4>3. Links' = DoTail(i, l)
        BY <1>6, <4>2 DEF DoTail
      <4>4. Rest("end", i, Links') = Rest("tail", i, l)
        BY <4>3 DEF Rest, FromTail
      <4> QED BY <1>4, <1>11, <3>6, <4>1, <4>2, <4>4
    <3>7. CASE at = "end"
      <4> DEFINE a == [s \in Slot |-> IF s = th_last_free THEN NULL ELSE N[s]]
      <4>1. /\ req' = [req EXCEPT ![t].at = "invalid"] /\ "invalid" \in DeleteStages /\ Heads
            /\ th_vec' = [th_vec EXCEPT ![th_last_free].next = NULL]
            /\ UNCHANGED <<th_first_free, th_last_free, th_first_thread>>
        BY <1>1, <1>12, <3>7 DEF DeleteGoesOn, DeleteStages
      <4>2. a \in [Slot -> Slot \cup {NULL}]
        BY <1>10
      <4>3. th_vec' = [s \in Slot |-> [th_vec[s] EXCEPT !.next = a[s], !.prev = P[s]]]
        <5>1. th_vec' = [s \in Slot |-> IF s = th_last_free THEN [th_vec[s] EXCEPT !.next = NULL] ELSE th_vec[s]]
          BY <1>0, <4>1 DEF Types
        <5>2. \A s \in Slot : (IF s = th_last_free THEN [th_vec[s] EXCEPT !.next = NULL] ELSE th_vec[s])
                              = [th_vec[s] EXCEPT !.next = a[s], !.prev = P[s]]
          BY <1>5 DEF VecTypes
        <5> HIDE DEF a
        <5> QED BY <5>1, <5>2
      <4>4. Links' = L(a, P, th_first_thread, th_first_free, th_last_free) /\ Plain
        <5> HIDE DEF N, P, a, Plain
        <5> QED BY <1>7, <1>9, <1>10, <4>1, <4>2, <4>3
      <4>5. Links' = DoEnd(i, l)
        <5>1. l.next = N /\ l.lf = th_last_free
              /\ [l EXCEPT !.next = a] = L(a, P, th_first_thread, th_first_free, th_last_free)
          BY <1>6
        <5> HIDE DEF N, P, L
        <5> QED BY <4>4, <5>1 DEF DoEnd
      <4>6. Rest("invalid", i, Links') = Rest("end", i, l)
        BY <4>5 DEF Rest
      <4> QED BY <1>4, <3>7, <4>1, <4>4, <4>6
    <3> QED BY <1>15, <3>1, <3>2, <3>3, <3>4, <3>5, <3>6, <3>7 DEF DeleteStages
  <2>2. /\ req' \in [Thread -> ReqTypes] /\ \A v \in Thread : v # t => req'[v] = req[v]
        /\ req'[t].at = x /\ req'[t].slot = i
    BY <1>0, <1>1, <2>1, ReqField DEF Types
  <2>3. Deleters' = {t}
    BY <1>2, <2>2 DEF Deleters
  <2>4. Deleter' = t
    BY <2>3 DEF Deleter
  <2>5. View' = View
    BY <2>1, <2>2, <2>3, <2>4 DEF View
  <2>6. VThreads' = VThreads /\ VFree' = VFree /\ Lists'
    <3>1. VThreads' = VThreads /\ VFree' = VFree
      BY <2>5 DEF VThreads, VFree
    <3> QED BY <1>0, <1>2, <2>2, <2>3, <2>5, <3>1 DEF Lists
  <2>7. Types'
    BY <1>0, <2>1, <2>2 DEF Types
  <2>8. \A d : Joined(d)' = Joined(d) /\ Detached(d)' = Detached(d)
    BY <1>0, <2>2 DEF Joined, Detached, DeleteStages
  <2>9. Requests'
    <3>1. \A u \in Thread : /\ req[u].at \in Waits => Started(req[u].tid) /\ req[u].tid \in Thread
                            /\ req[u].at \in Creates => req[u].child \in Thread
                            /\ req[u].at = "created" => Started(req[u].child)
      BY <1>0, ReqOf DEF IInv, Requests
    <3> QED BY <1>0, <2>2, <3>1 DEF IInv, Requests, Creating, Unmade, Creates, Waits, SlotOf, Started, DeleteStages
  <2>10. i \notin On(VThreads)
    BY <1>0, <1>2, ListSlots
  <2>11. \A s \in Slot : /\ th_vec'[s].incarn = th_vec[s].incarn /\ th_vec'[s].tid = th_vec[s].tid
                         /\ th_vec'[s].detached = th_vec[s].detached /\ th_vec'[s].exited = th_vec[s].exited
                         /\ th_vec'[s].ctxt = th_vec[s].ctxt
                         /\ s \in On(VThreads) /\ th_vec[s].valid => th_vec'[s].valid
    BY <2>1, <2>10
  <2> QED BY <1>0, <2>6, <2>7, <2>8, <2>9, <2>11, FieldsKept
<1> QED BY <1>14, <1>15

\* A thread that was joined is deleted.
LEMMA JoinDeleteStep ==
  ASSUME IInv, ~disturbed', NEW t \in Thread, JoinDelete(t)
  PROVE  IInv' /\ Later
<1>0. IInv /\ Types /\ Lists /\ req[t].at = "joined" /\ thr' = thr
  BY DEF IInv, JoinDelete
<1>1. PICK c \in Thread : c = req[t].tid
  BY <1>0, ReqOf DEF Waits
<1>2. /\ thr[c].pj = "joined" /\ thr[c].os = "ended" /\ ~Live(c) /\ Holds(c)
      /\ req[t].id[1] = SlotOf(c)
  BY <1>0, <1>1 DEF IInv, Requests, Ends, Live, Holds, Joined, SlotOf
<1>3. th_delete(SlotOf(c), th_vec)
  BY <1>2 DEF JoinDelete
<1>7. /\ req' \in [Thread -> ReqTypes] /\ \A v \in Thread : req'[v] = IF v = t THEN NoReq ELSE req[v]
      /\ DeletersStay
  BY <1>0, ReqDone DEF JoinDelete, DeleteStages
<1>4. Freed(SlotOf(c), th_vec)
  <2>0. Deleters = {} /\ Deleters' = {}
    BY <1>3, <1>7, NoDeleters DEF th_delete
  <2>1. SlotOf(c) \in On(VThreads) /\ th_vec \in [Slot -> VecTypes]
    BY <1>0, <1>2, Holder DEF Types
  <2>2. \A s \in Slot : Same(th_vec[s], th_vec[s])
    BY DEF Same
  <2> QED BY <1>0, <1>3, <2>0, <2>1, <2>2, DeleteStep
<1>8. \A d : (d # c => Joined(d)' = Joined(d)) /\ Detached(d)' = Detached(d)
  BY <1>0, <1>1, <1>7 DEF Joined, Detached, NoReq
<1>9. \A u \in Thread : /\ req[u].at \in Waits => Started(req[u].tid) /\ req[u].tid \in Thread
                        /\ req[u].at \in Creates => req[u].child \in Thread
                        /\ req[u].at = "created" => Started(req[u].child)
                        /\ req[u].at \in {"joined", "detached"} /\ u # t => req[u].tid # c
  BY <1>0, <1>1, ReqOf DEF IInv, Requests, Started
<1>10. ~Holds(c)'
  <2>1. ~Joined(c)' /\ ~Detached(c)'
    BY <1>7, <1>9 DEF Joined, Detached, NoReq
  <2> QED BY <1>0, <1>2, <2>1 DEF Holds, Live
<1>11. Requests'
  BY <1>0, <1>7, <1>9 DEF IInv, Requests, Creating, Unmade, Creates, Waits, SlotOf, Started, NoReq
<1>12. Ends' /\ Mains' /\ thr' \in [Thread -> ThrTypes] /\ Started(c)' = Started(c) /\ SlotOf(c)' = SlotOf(c)
  BY <1>0 DEF IInv, Types, Ends, Mains, SlotOf, Started
<1>13. \A s \in Slot : Same(th_vec[s], th_vec[s])
  BY DEF Same
<1> QED BY <1>0, <1>2, <1>4, <1>7, <1>8, <1>10, <1>11, <1>12, <1>13, GiveBack

\* A thread exits: a detached one gives back its slot.
LEMMA ThreadExitStep ==
  ASSUME IInv, ~disturbed', NEW t \in Thread, ThreadExit(t)
  PROVE  IInv' /\ Later
<1> DEFINE i == SlotOf(t)
           vec == [th_vec EXCEPT ![i].ctxt = NoThread]
<1>0. /\ IInv /\ Types /\ Lists /\ thr[t].os = "running" /\ Live(t) /\ Holds(t) /\ Started(t) /\ t # Main
      /\ req' = req /\ thr' = [thr EXCEPT ![t].os = "exiting"]
  BY DEF IInv, ThreadExit, Idle, Live, Holds, Started
<1>1. i \in Slot /\ i \in On(VThreads) /\ HolderOK(t)
  BY <1>0, Holder
<1> HIDE DEF i
<1>2. vec \in [Slot -> VecTypes] /\ CtxtSet(vec, th_vec, i, NoThread)
  <2>1. th_vec \in [Slot -> VecTypes] /\ NoThread \in Thread \cup {NoThread}
    BY <1>0 DEF Types
  <2> QED BY <1>1, <2>1, CtxtStep
<1>3. /\ thr' \in [Thread -> ThrTypes]
      /\ \A d \in Thread : thr'[d].pj = thr[d].pj /\ thr'[d].id = thr[d].id
                           /\ thr'[d].os = IF d = t THEN "exiting" ELSE thr[d].os
      /\ \A d \in Thread : d # t => thr'[d] = thr[d]
  <2>1. "exiting" \in OSStates
    BY DEF OSStates
  <2> QED BY <1>0, <2>1, OsStep DEF Types
<1>4. \A d : Joined(d)' = Joined(d) /\ Detached(d)' = Detached(d)
  BY <1>0 DEF Joined, Detached
<1>5. Requests'
  <2>1. \A u \in Thread : /\ req[u].at \in Waits => Started(req[u].tid) /\ req[u].tid \in Thread
                          /\ req[u].at \in Creates => req[u].child \in Thread
                          /\ req[u].at = "created" => Started(req[u].child)
                          /\ req[u].at \in Unmade => req[u].child # t
    BY <1>0, ReqOf DEF IInv, Requests, Creating, Unmade, Started
  <2> QED BY <1>0, <1>3, <2>1 DEF IInv, Requests, Creating, Unmade, Creates, Waits, SlotOf, Started
<1>6. Ends' /\ Mains'
  BY <1>0, <1>3, ThreadTableAssumption DEF IInv, Ends, Mains, SlotOf
<1>7. Started(t)' /\ SlotOf(t)' = SlotOf(t) /\ ~Live(t)' /\ thr'[t].os # "none" /\ req' \in [Thread -> ReqTypes]
  BY <1>0, <1>3 DEF Started, SlotOf, Live, Types
<1>8. CASE FreedAtExit(i) /\ th_delete(i, vec)
  <2>1. thr[t].pj = "detached" /\ ~Detached(t) /\ ~Joined(t)
    <3>1. th_vec[i].detached <=> thr[t].pj = "detached" /\ ~Detached(t)
      BY <1>0, <1>1 DEF HolderOK, i
    <3>2. Joined(t) => thr[t].pj = "joined"
      BY <1>0 DEF IInv, Requests, Joined
    <3> QED BY <1>8, <3>1, <3>2 DEF FreedAtExit
  <2>2. ~Holds(t)'
    BY <1>3, <1>4, <1>7, <2>1 DEF Holds
  <2>3. \A s \in Slot : /\ Same(vec[s], th_vec[s]) /\ vec[s].tid = th_vec[s].tid
                        /\ vec[s].valid = th_vec[s].valid /\ vec[s].detached = th_vec[s].detached
                        /\ vec[s].exited = th_vec[s].exited
                        /\ (s # SlotOf(t) => vec[s].ctxt = th_vec[s].ctxt)
    BY <1>2 DEF CtxtSet, i
  <2> HIDE DEF vec
  <2>4. Freed(i, vec)
    <3>1. Deleters = {} /\ Deleters' = {}
      BY <1>0, <1>8, NoDeleters DEF th_delete, DeletersStay
    <3> QED BY <1>0, <1>1, <1>2, <1>8, <2>3, <3>1, DeleteStep
  <2>5. Freed(SlotOf(t), vec)
    BY <2>4 DEF i
  <2> QED BY <1>0, <1>3, <1>4, <1>5, <1>6, <1>7, <2>2, <2>3, <2>5, GiveBack
<1>9. CASE /\ ~FreedAtExit(i) /\ th_vec' = [vec EXCEPT ![i].exited = TRUE]
           /\ UNCHANGED <<th_first_free, th_last_free, th_first_thread>>
  <2>1. th_vec' \in [Slot -> VecTypes] /\ ExitedSet(th_vec', vec, i, TRUE)
    <3>1. TRUE \in BOOLEAN /\ th_vec' = [vec EXCEPT ![i].exited = TRUE]
      BY <1>9
    <3> HIDE DEF vec
    <3> QED BY <1>1, <1>2, <3>1, ExitedStep
  <2> HIDE DEF vec
  <2>2. \A s \in Slot : /\ Same(th_vec'[s], th_vec[s]) /\ th_vec'[s].tid = th_vec[s].tid
                        /\ th_vec'[s].valid = th_vec[s].valid /\ th_vec'[s].detached = th_vec[s].detached
                        /\ th_vec'[s].exited = IF s = i THEN TRUE ELSE th_vec[s].exited
                        /\ (s # i => th_vec'[s].ctxt = th_vec[s].ctxt)
    <3>1. \A s \in Slot : Same(th_vec'[s], vec[s]) /\ Same(vec[s], th_vec[s]) => Same(th_vec'[s], th_vec[s])
      BY DEF Same
    <3> QED BY <1>2, <2>1, <3>1 DEF CtxtSet, ExitedSet
  <2>3. Lists' /\ VThreads' = VThreads /\ VFree' = VFree
    <3>1. DeletersStay
      BY <1>0 DEF DeletersStay
    <3> QED BY <1>0, <1>9, <2>1, <2>2, <3>1, KeptLists
  <2>4. Types'
    BY <1>0, <1>3, <1>9, <2>1 DEF Types
  <2>5. Owners'
    <3>1. \A s \in Slot : s # i => Kept(s) /\ (s \in On(VThreads) => s \in On(VThreads)')
      BY <2>2, <2>3 DEF Kept, Same
    <3>2. \A d \in Thread : d # t /\ Holds(d) => SlotOf(d) # i
      BY <1>0 DEF IInv, Owners, i
    <3>3. SlotOf(t)' = i
      BY <1>7 DEF i
    <3>4. HolderOK(t)'
      <4>1. thr'[t].id = thr[t].id /\ thr[t].os \notin {"setup", "started"} /\ thr[t].os # "setup"
        BY <1>0, <1>3
      <4> QED BY <1>1, <1>3, <1>7, <2>2, <2>3, <3>3, <4>1 DEF HolderOK, Same, i
    <3> QED BY <1>3, <1>4, <3>1, <3>2, <3>3, <3>4, OwnersOne
  <2>6. Tids'
    <3>1. \A s \in Slot : th_vec'[s].tid = th_vec[s].tid
      BY <2>2
    <3>2. \A s \in Slot : th_vec'[s].tid = t => Started(t)' /\ SlotOf(t)' = s
      BY <1>0, <1>7, <3>1 DEF IInv, Tids
    <3> QED BY <1>3, <3>1, <3>2, TidsOne
  <2>7. Later
    <3>1. \A s \in Slot : th_vec'[s].incarn = th_vec[s].incarn /\ th_vec'[s].tid = th_vec[s].tid
      BY <2>2 DEF Same
    <3>2. \A d \in Thread : Started(d)' = Started(d) /\ (thr'[d].os = "none" <=> thr[d].os = "none")
      BY <1>0, <1>3 DEF Started
    <3>3. Holds(t)'
      <4>1. thr[t].pj # "joined"
        BY <1>0 DEF IInv, Ends
      <4>2. thr[t].pj \in PJStates
        BY <1>0 DEF Types, ThrTypes
      <4>3. th_vec[i].detached <=> thr[t].pj = "detached" /\ ~Detached(t)
        BY <1>0, <1>1 DEF HolderOK, i
      <4> QED BY <1>3, <1>4, <1>9, <4>1, <4>2, <4>3 DEF Holds, PJStates, FreedAtExit
    <3>4. \A d \in Thread : Holds(d) => Holds(d)'
      BY <1>3, <1>4, <3>3 DEF Holds, Live
    <3> QED BY <1>3, <2>3, <3>1, <3>2, <3>4 DEF Later
  <2> QED BY <1>5, <1>6, <2>3, <2>4, <2>5, <2>6, <2>7 DEF IInv
<1>10. \/ FreedAtExit(i) /\ th_delete(i, vec)
       \/ /\ ~FreedAtExit(i) /\ th_vec' = [vec EXCEPT ![i].exited = TRUE]
          /\ UNCHANGED <<th_first_free, th_last_free, th_first_thread>>
  BY DEF ThreadExit, SlotOf, i, heads
<1> QED BY <1>8, <1>9, <1>10

\* thread_detach finds whether the thread has exited.
LEMMA DetachFinishStep ==
  ASSUME IInv, ~disturbed', NEW t \in Thread, DetachFinish(t)
  PROVE  IInv' /\ Later
<1>0. IInv /\ Types /\ Lists /\ req[t].at = "detached" /\ thr' = thr
  BY DEF IInv, DetachFinish
<1>1. PICK c \in Thread : c = req[t].tid
  BY <1>0, ReqOf DEF Waits
<1>2. thr[c].pj = "detached" /\ Holds(c) /\ req[t].id[1] = SlotOf(c) /\ Detached(c) /\ ~Joined(c)
  <2>1. thr[c].pj = "detached" /\ req[t].id[1] = SlotOf(c) /\ Detached(c) /\ ~Joined(c) /\ Started(c)
    BY <1>0, <1>1 DEF IInv, Requests, Detached, Joined, SlotOf, Waits
  <2>2. thr[c].os \in OSStates
    BY <1>0 DEF Types, ThrTypes
  <2> QED BY <2>1, <2>2 DEF Holds, Live, Started, OSStates
<1>3. PICK i \in Slot : i = SlotOf(c)
  BY <1>2, Holder
<1>4. i \in On(VThreads) /\ HolderOK(c)
  BY <1>2, <1>3, Holder
<1>7. /\ req' \in [Thread -> ReqTypes] /\ \A v \in Thread : req'[v] = IF v = t THEN NoReq ELSE req[v]
      /\ DeletersStay
  BY <1>0, ReqDone DEF DetachFinish, DeleteStages
<1>8. /\ \A d : Joined(d)' = Joined(d) /\ (d # c => Detached(d)' = Detached(d))
      /\ ~Detached(c)'
  <2>1. \A u \in Thread : req[u].at = "detached" /\ req[u].tid = c => u = t
    BY <1>0, <1>1 DEF IInv, Requests
  <2> QED BY <1>0, <1>1, <1>7, <2>1 DEF Joined, Detached, NoReq
<1>9. \A u \in Thread : /\ req[u].at \in Waits => Started(req[u].tid) /\ req[u].tid \in Thread
                        /\ req[u].at \in Creates => req[u].child \in Thread
                        /\ req[u].at = "created" => Started(req[u].child)
  BY <1>0, <1>1, ReqOf DEF IInv, Requests, Started
<1>10. Requests'
  BY <1>0, <1>7, <1>9 DEF IInv, Requests, Creating, Unmade, Creates, Waits, SlotOf, Started, NoReq
<1>11. /\ Ends' /\ Mains' /\ thr' \in [Thread -> ThrTypes] /\ Started(c)' = Started(c)
       /\ SlotOf(c)' = SlotOf(c) /\ Live(c)' = Live(c)
  <2>1. Ends' /\ Mains'
    BY <1>0 DEF IInv, Ends, Mains, SlotOf
  <2>2. Started(c)' = Started(c) /\ SlotOf(c)' = SlotOf(c) /\ Live(c)' = Live(c)
    BY <1>0 DEF Started, SlotOf, Live
  <2> QED BY <1>0, <2>1, <2>2 DEF Types
<1>12. CASE thread_exited(i) /\ th_delete(i, th_vec)
  <2>1. ~Live(c)
    BY <1>3, <1>4, <1>12 DEF HolderOK, thread_exited
  <2>2. ~Holds(c)'
    BY <1>0, <1>2, <1>8, <1>11, <2>1 DEF Holds
  <2>3. \A s \in Slot : Same(th_vec[s], th_vec[s])
    BY DEF Same
  <2>4. Freed(i, th_vec)
    <3>1. Deleters = {} /\ Deleters' = {}
      BY <1>7, <1>12, NoDeleters DEF th_delete
    <3> QED BY <1>0, <1>4, <1>12, <2>3, <3>1, DeleteStep DEF Types
  <2>5. Freed(SlotOf(c), th_vec)
    BY <1>3, <2>4
  <2> QED BY <1>0, <1>2, <1>7, <1>8, <1>10, <1>11, <2>2, <2>3, <2>5, GiveBack
<1>13. CASE /\ ~thread_exited(i) /\ th_vec' = [th_vec EXCEPT ![i].detached = TRUE]
            /\ UNCHANGED <<th_first_free, th_last_free, th_first_thread>>
  <2>1. th_vec' \in [Slot -> VecTypes] /\ DetachedSet(th_vec', th_vec, i, TRUE)
    <3>1. TRUE \in BOOLEAN /\ th_vec \in [Slot -> VecTypes]
      BY <1>0 DEF Types
    <3> QED BY <1>13, <3>1, DetachedStep
  <2>2. Live(c)
    BY <1>3, <1>4, <1>13 DEF HolderOK, thread_exited
  <2>3. Lists' /\ VThreads' = VThreads /\ VFree' = VFree
    BY <1>0, <1>7, <1>13, <2>1, KeptLists DEF DetachedSet
  <2>4. Types'
    BY <1>0, <1>7, <1>13, <2>1 DEF Types
  <2>5. Owners'
    <3>1. \A s \in Slot : s # i => Kept(s) /\ (s \in On(VThreads) => s \in On(VThreads)')
      BY <2>1, <2>3 DEF Kept, Same, DetachedSet
    <3>2. \A d \in Thread : d # c /\ Holds(d) => SlotOf(d) # i
      BY <1>0, <1>2, <1>3 DEF IInv, Owners
    <3>3. SlotOf(c)' = i
      BY <1>3, <1>11
    <3>4. HolderOK(c)'
      BY <1>0, <1>2, <1>3, <1>4, <1>8, <1>11, <2>1, <2>2, <2>3, <3>3 DEF HolderOK, Same, DetachedSet
    <3> QED BY <1>0, <1>8, <3>1, <3>2, <3>3, <3>4, OwnersOne
  <2>6. Tids'
    <3>1. \A s \in Slot : th_vec'[s].tid = th_vec[s].tid
      BY <2>1 DEF DetachedSet
    <3>2. \A s \in Slot : th_vec'[s].tid = c => Started(c)' /\ SlotOf(c)' = s
      BY <1>0, <1>11, <3>1 DEF IInv, Tids, Started
    <3> QED BY <1>0, <3>1, <3>2, TidsOne
  <2>7. Later
    <3>1. \A s \in Slot : th_vec'[s].incarn = th_vec[s].incarn /\ th_vec'[s].tid = th_vec[s].tid
      BY <2>1 DEF DetachedSet, Same
    <3>2. \A d \in Thread : Holds(d) => Holds(d)'
      BY <1>0, <1>8, <2>2 DEF Holds, Live
    <3>3. \A d \in Thread : Started(d)' = Started(d)
      BY <1>0 DEF Started
    <3> QED BY <1>0, <2>3, <3>1, <3>2, <3>3 DEF Later
  <2> QED BY <1>10, <1>11, <2>3, <2>4, <2>5, <2>6, <2>7 DEF IInv
<1>14. \/ thread_exited(i) /\ th_delete(i, th_vec)
       \/ /\ ~thread_exited(i) /\ th_vec' = [th_vec EXCEPT ![i].detached = TRUE]
          /\ UNCHANGED <<th_first_free, th_last_free, th_first_thread>>
  BY <1>2, <1>3 DEF DetachFinish, heads
<1> QED BY <1>12, <1>13, <1>14

\* th_new: the first free slot goes to the list of threads.
Taken(c, d) ==
  LET pos == th_first_free IN
  /\ pos \in Slot /\ pos \in On(VFree)
  /\ th_vec' \in [Slot -> VecTypes] /\ Lists'
  /\ th_first_free' \in Slot \cup {NULL} /\ th_last_free' \in Slot \cup {NULL}
  /\ th_first_thread' \in Slot \cup {NULL}
  /\ On(VThreads)' = On(VThreads) \cup {pos} /\ On(VFree)' = On(VFree) \ {pos}
  /\ \A s \in Slot : s # pos => Kept(s)
  /\ th_vec'[pos].incarn = NextIncarn(th_vec[pos].incarn) /\ th_vec'[pos].tid = th_vec[pos].tid
  /\ th_vec'[pos].detached = d /\ ~th_vec'[pos].exited /\ th_vec'[pos].ctxt = c

LEMMA NewStep ==
  ASSUME Types, Lists, Deleters = {}, Deleters' = {}, SpareSlot, Len(Threads) < MaxInUse, NEW c \in Thread, NEW d \in BOOLEAN,
         th_new(c, d)
  PROVE  Taken(c, d)
<1> DEFINE pos == th_first_free
           atHead == th_first_thread = NULL \/ th_first_thread > pos
           p == IF atHead THEN NULL ELSE InsertAfter(pos)
           n == IF atHead THEN th_first_thread ELSE th_vec[p].next
           linked == [s \in Slot |-> [th_vec[s] EXCEPT !.next = IF s = p THEN pos ELSE @,
                                                       !.prev = IF s = n THEN pos ELSE @]]
           new == [next |-> n, prev |-> p, incarn |-> NextIncarn(th_vec[pos].incarn),
                   valid |-> FALSE, detached |-> d, exited |-> FALSE,
                   tid |-> th_vec[pos].tid, ctxt |-> c]
<1>1. /\ th_first_free' = th_vec[pos].next /\ th_last_free' = th_last_free
      /\ th_first_thread' = IF atHead THEN pos ELSE th_first_thread
      /\ th_vec' = [linked EXCEPT ![pos] = new]
  BY DEF th_new
<1>2. PICK used, free : used = VThreads /\ free = VFree /\ used = Threads
  BY Between
<1>3. ListsAre(th_vec, th_first_thread, th_first_free, th_last_free, used, free)
  BY <1>2, Between
<1>4. used \in Seq(Slot) /\ free \in Seq(Slot) /\ Len(used) \in Nat /\ Len(free) \in Nat /\ Len(free) > 1
  <2>1. used \in Seq(Slot) /\ free \in Seq(Slot) /\ Len(used) + Len(free) = MaxThreads
    BY <1>3 DEF ListsAre, Path, Apart
  <2>2. MaxInUse \in Int /\ MaxThreads \in Int
    BY ThreadTableAssumption
  <2> QED BY <1>2, <2>1, <2>2 DEF SpareSlot
<1>5. pos \in Slot /\ pos = free[1] /\ pos \in On(VFree)
  <2>1. 1 \in 1 .. Len(free) /\ pos = free[1]
    BY <1>3, <1>4 DEF ListsAre, Path
  <2>2. pos \in On(free)
    BY <1>4, <2>1, OnList
  <2> QED BY <1>2, <1>4, <2>1, <2>2
<1>6. th_first_thread = IF Len(used) = 0 THEN NULL ELSE used[1]
  BY <1>3 DEF ListsAre, Path
<1>7. \A i \in 1 .. Len(used) : used[i] \in Slot /\ th_vec[used[i]].next = IF i = Len(used) THEN NULL ELSE used[i + 1]
  BY <1>3, <1>4 DEF ListsAre, Path
<1>8. PICK k \in 0 .. Len(used) : /\ p = IF k = 0 THEN NULL ELSE used[k]
                                  /\ n = IF k = Len(used) THEN NULL ELSE used[k + 1]
                                  /\ th_first_thread' = IF k = 0 THEN pos ELSE th_first_thread
  <2>1. CASE atHead
    <3>1. 0 \in 0 .. Len(used) /\ p = NULL /\ n = (IF 0 = Len(used) THEN NULL ELSE used[0 + 1])
      BY <1>4, <1>6, <2>1
    <3>2. th_first_thread' = pos
      BY <1>1, <2>1
    <3> QED BY <3>1, <3>2
  <2>2. CASE ~atHead
    <3> DEFINE S == {i \in 1 .. Len(used) : Stops(pos, i)}
    <3>1. Len(used) \in S
      <4>1. Len(used) \in 1 .. Len(used)
        BY <1>4, <1>6, <2>2
      <4>2. th_vec[used[Len(used)]].next = NULL
        BY <1>7, <4>1
      <4> QED BY <1>2, <1>5, <4>1, <4>2, Slots DEF Stops
    <3>2. \E i \in S : \A j \in S : i <= j
      <4>1. S \in SUBSET Nat /\ S # {}
        BY <3>1
      <4> HIDE DEF S
      <4> QED BY <4>1, LeastNatural
    <3>3. \E i \in DOMAIN Threads : Stops(pos, i) /\ \A j \in 1..(i - 1) : ~Stops(pos, j)
      <4>1. DOMAIN Threads = 1 .. Len(used)
        BY <1>2, <1>4
      <4>2. PICK i \in S : \A j \in S : i <= j
        BY <3>2
      <4>3. \A j \in 1..(i - 1) : j \in 1 .. Len(used) /\ ~(i <= j)
        BY <1>4
      <4> QED BY <4>1, <4>2, <4>3
    <3> DEFINE m == CHOOSE i \in DOMAIN Threads : Stops(pos, i) /\ \A j \in 1..(i - 1) : ~Stops(pos, j)
    <3>4. m \in 1 .. Len(used)
      <4>1. DOMAIN Threads = 1 .. Len(used)
        BY <1>2, <1>4
      <4>2. m \in DOMAIN Threads
        BY <3>3
      <4> QED BY <4>1, <4>2
    <3>5. p = used[m]
      <4>1. InsertAfter(pos) = Threads[m]
        BY DEF InsertAfter
      <4> HIDE DEF m
      <4> QED BY <1>2, <2>2, <4>1
    <3> HIDE DEF m
    <3>6. n = IF m = Len(used) THEN NULL ELSE used[m + 1]
      BY <1>7, <2>2, <3>4, <3>5
    <3>7. th_first_thread' = th_first_thread
      BY <1>1, <2>2
    <3> HIDE DEF p, n, atHead
    <3> QED BY <1>4, <3>4, <3>5, <3>6, <3>7
  <2> QED BY <2>1, <2>2
<1> HIDE DEF p, n, atHead
<1>9. p \in Slot \cup {NULL} /\ n \in Slot \cup {NULL}
  <2>1. (k # 0 => k \in 1 .. Len(used)) /\ (k # Len(used) => k + 1 \in 1 .. Len(used))
    BY <1>4
  <2> QED BY <1>7, <1>8, <2>1
<1>10. /\ new \in VecTypes /\ new.next = n /\ new.prev = p /\ new.incarn = NextIncarn(th_vec[pos].incarn)
       /\ new.detached = d /\ ~new.exited /\ new.tid = th_vec[pos].tid /\ new.ctxt = c
  <2>1. th_vec[pos] \in VecTypes
    BY <1>5 DEF Types
  <2>2. th_vec[pos].incarn \in Nat /\ th_vec[pos].tid \in Thread \cup {NoThread}
    BY <2>1 DEF VecTypes
  <2>3. NextIncarn(th_vec[pos].incarn) \in 0..(Incarnations - 1)
    BY <2>2, ThreadTableAssumption DEF NextIncarn
  <2> QED BY <1>9, <2>2, <2>3 DEF VecTypes
<1>11. ASSUME NEW s \in Slot
       PROVE  /\ th_vec'[s] \in VecTypes
              /\ th_vec'[s].next = IF s = pos THEN n ELSE IF s = p THEN pos ELSE th_vec[s].next
              /\ th_vec'[s].prev = IF s = pos THEN p ELSE IF s = n THEN pos ELSE th_vec[s].prev
              /\ s # pos => Kept(s)
  <2>1. CASE s = pos
    <3>1. th_vec'[s] = new
      <4> HIDE DEF new
      <4> QED BY <1>1, <2>1
    <3> HIDE DEF new
    <3> QED BY <1>10, <2>1, <3>1
  <2>2. CASE s # pos
    <3>1. PICK a, b, r : /\ a = (IF s = p THEN pos ELSE th_vec[s].next)
                         /\ b = (IF s = n THEN pos ELSE th_vec[s].prev) /\ r = th_vec[s]
      OBVIOUS
    <3>2. r \in VecTypes /\ a \in Slot \cup {NULL} /\ b \in Slot \cup {NULL}
      <4>1. r \in VecTypes
        BY <3>1 DEF Types
      <4>2. r.next \in Slot \cup {NULL} /\ r.prev \in Slot \cup {NULL}
        BY <4>1 DEF VecTypes
      <4> QED BY <1>5, <3>1, <4>1, <4>2
    <3>3. th_vec'[s] = [r EXCEPT !.next = a, !.prev = b]
      <4>1. th_vec'[s] = linked[s]
        <5> HIDE DEF new
        <5> QED BY <1>1, <2>2
      <4> QED BY <3>1, <4>1
    <3>4. PICK q : q = th_vec'[s]
      OBVIOUS
    <3>5. /\ q \in VecTypes /\ q.next = a /\ q.prev = b /\ q.incarn = r.incarn /\ q.valid = r.valid
          /\ q.detached = r.detached /\ q.exited = r.exited /\ q.tid = r.tid /\ q.ctxt = r.ctxt
      BY <3>2, <3>3, <3>4 DEF VecTypes
    <3> HIDE DEF new
    <3> QED BY <2>2, <3>1, <3>4, <3>5 DEF Kept
  <2> QED BY <2>1, <2>2
<1>12. th_vec' \in [Slot -> VecTypes]
  <2> HIDE DEF new
  <2> QED BY <1>1, <1>11
<1>13. PICK used2, free2 :
         /\ ListsAre(th_vec', th_first_thread', th_vec[pos].next, th_last_free, used2, free2)
         /\ On(used2) = On(used) \cup {pos} /\ On(free2) = On(free) \ {pos}
  <2>1. \A s \in Slot :
          /\ th_vec'[s].next = IF s = pos THEN n ELSE IF s = p THEN pos ELSE th_vec[s].next
          /\ th_vec'[s].prev = IF s = pos THEN p ELSE IF s = n THEN pos ELSE th_vec[s].prev
    BY <1>11
  <2>2. PICK x, v, v2, f, f2, l : /\ x = pos /\ v = th_vec /\ v2 = th_vec' /\ f = th_first_thread
                                  /\ f2 = th_first_thread' /\ l = th_last_free
    OBVIOUS
  <2>3. ListsAre(v, f, x, l, used, free) /\ Len(free) > 1
    BY <1>3, <1>4, <2>2
  <2>4. Inserted(v, v2, f, f2, used, k, x)
    BY <1>8, <2>1, <2>2 DEF Inserted
  <2> HIDE DEF linked, new, pos
  <2>5. \E used2, free2 :
          /\ ListsAre(v2, f2, v[x].next, l, used2, free2)
          /\ On(used2) = On(used) \cup {x} /\ On(free2) = On(free) \ {x}
    BY <2>3, <2>4, ListsNew
  <2> QED BY <2>2, <2>5
<1>14. Lists' /\ VThreads' = used2 /\ VFree' = free2
  <2>1. ListsAre(th_vec', th_first_thread', th_first_free', th_last_free', used2, free2)
    <3> HIDE DEF linked, new
    <3> QED BY <1>1, <1>13
  <2> QED BY <1>12, <2>1, ListStep
<1>15. On(VThreads)' = On(VThreads) \cup {pos} /\ On(VFree)' = On(VFree) \ {pos}
  BY <1>2, <1>13, <1>14
<1>16. /\ th_first_free' \in Slot \cup {NULL} /\ th_last_free' \in Slot \cup {NULL}
       /\ th_first_thread' \in Slot \cup {NULL}
  <2>1. th_vec[pos].next \in Slot \cup {NULL}
    BY <1>5 DEF Types, VecTypes
  <2> QED BY <1>1, <1>5, <1>8, <2>1 DEF Types
<1>17. th_vec'[pos] = new
  <2> HIDE DEF new
  <2> QED BY <1>1, <1>5
<1> HIDE DEF new
<1> QED BY <1>5, <1>10, <1>11, <1>12, <1>14, <1>15, <1>16, <1>17 DEF Taken

\* Thread t creates thread c.
LEMMA SetupStep ==
  ASSUME IInv, SpareSlot, ~disturbed', NEW t \in Thread, NEW c \in Thread, NEW d \in BOOLEAN, xsb_thread_setup(t, c, d)
  PROVE  /\ IInv' /\ Taken(c, d)
         /\ thr[c].os = "none" /\ thr'[c].os = "setup"
         /\ thr'[c].id = <<th_first_free, th_vec'[th_first_free].incarn>>
         /\ \A e \in Thread : e # c => thr'[e] = thr[e] /\ (Holds(e)' <=> Holds(e))
<1> DEFINE pos == th_first_free
           r == [os |-> "setup", pj |-> IF d THEN "detached" ELSE "joinable",
                 id |-> <<pos, th_vec'[pos].incarn>>]
           q == [at |-> "create", child |-> c]
<1>0. /\ IInv /\ Types /\ Lists /\ req[t] = NoReq /\ thr[c].os = "none" /\ ~Started(c) /\ ~Live(c) /\ ~Holds(c)
      /\ thr' = [thr EXCEPT ![c] = r] /\ req' = [req EXCEPT ![t] = q]
  <2>1. thr' = [thr EXCEPT ![c] = r] /\ req' = [req EXCEPT ![t] = q]
    BY DEF xsb_thread_setup
  <2>2. req[t] = NoReq /\ thr[c].os = "none"
    BY DEF xsb_thread_setup, Idle
  <2> QED BY <2>1, <2>2 DEF IInv, Started, Live, Holds
<1>5. req' \in [Thread -> ReqTypes] /\ \A v \in Thread : req'[v] = IF v = t THEN q ELSE req[v]
  <2>1. q \in ReqTypes /\ req \in [Thread -> ReqTypes]
    BY <1>0 DEF Types, ReqTypes, CreateTypes, Creates
  <2> HIDE DEF q, r
  <2> QED BY <1>0, <2>1, ReqField, ZenonT(60)
<1>14. Deleters = {} /\ Deleters' = {}
  <2>1. DeletersStay
    BY <1>0, <1>5 DEF DeletersStay, DeleteStages, NoReq
  <2> QED BY <2>1, NoDeleters DEF xsb_thread_setup, th_new
<1>1. Taken(c, d)
  BY <1>0, <1>14, NewStep DEF xsb_thread_setup
<1>2. pos \in Slot /\ pos \in On(VFree) /\ th_vec'[pos] \in VecTypes /\ th_vec'[pos].incarn \in 0..(Incarnations - 1)
  <2>1. pos \in Slot /\ pos \in On(VFree) /\ th_vec' \in [Slot -> VecTypes]
    BY <1>1 DEF Taken
  <2>2. th_vec'[pos] \in VecTypes
    BY <2>1
  <2> QED BY <2>1, <2>2 DEF VecTypes
<1>3. r \in ThrTypes /\ r.os = "setup" /\ r.pj = (IF d THEN "detached" ELSE "joinable") /\ r.id = <<pos, th_vec'[pos].incarn>>
  <2>1. r.id \in IdTypes
    BY <1>2 DEF IdTypes
  <2> QED BY <2>1 DEF ThrTypes, OSStates, PJStates
<1>4. /\ thr' \in [Thread -> ThrTypes] /\ \A e \in Thread : e # c => thr'[e] = thr[e]
      /\ thr'[c].os = "setup" /\ thr'[c].pj = (IF d THEN "detached" ELSE "joinable")
      /\ thr'[c].id = <<pos, th_vec'[pos].incarn>>
  <2>1. thr' \in [Thread -> ThrTypes] /\ (\A e \in Thread : e # c => thr'[e] = thr[e]) /\ thr'[c] = r
    <3> HIDE DEF r
    <3> QED BY <1>0, <1>3 DEF Types
  <2> HIDE DEF r
  <2> QED BY <1>3, <2>1
<1> HIDE DEF r
<1>6. \A e : Joined(e)' = Joined(e) /\ Detached(e)' = Detached(e)
  BY <1>0, <1>5 DEF Joined, Detached, NoReq
<1>7. \A u \in Thread : /\ req[u].at \in Waits => Started(req[u].tid) /\ req[u].tid \in Thread /\ req[u].tid # c
                        /\ req[u].at \in Creates => req[u].child \in Thread /\ req[u].child # c
                        /\ req[u].at = "created" => Started(req[u].child)
  BY <1>0, ReqOf DEF IInv, Requests, Creating, Unmade, Creates, Started
<1>8. Types' /\ Lists'
  BY <1>1, <1>4, <1>5 DEF Types, Taken
<1>9. Owners'
  <2>1. \A s \in Slot : s # pos => Kept(s) /\ (s \in On(VThreads) => s \in On(VThreads)')
    BY <1>1 DEF Taken
  <2>2. \A e \in Thread : e # c /\ Holds(e) => SlotOf(e) # pos
    BY <1>0, <1>2, Holder, ListSlots
  <2>3. SlotOf(c)' = pos
    BY <1>4 DEF SlotOf
  <2>4. HolderOK(c)'
    <3>1. Live(c)' /\ thr'[c].id[2] = th_vec'[pos].incarn
      BY <1>4 DEF Live
    <3>2. ~Detached(c)'
      BY <1>6, <1>7 DEF Detached, Waits
    <3>3. /\ pos \in On(VThreads)' /\ th_vec'[pos].detached = d /\ ~th_vec'[pos].exited /\ th_vec'[pos].ctxt = c
      BY <1>1 DEF Taken
    <3> HIDE DEF pos
    <3> QED BY <1>4, <2>3, <3>1, <3>2, <3>3 DEF HolderOK
  <2> QED BY <1>4, <1>6, <2>1, <2>2, <2>3, <2>4, OwnersOne
<1>10. Tids'
  <2>1. \A s \in Slot : th_vec'[s].tid = th_vec[s].tid
    BY <1>1 DEF Taken, Kept
  <2>2. \A s \in Slot : th_vec[s].tid # c
    BY <1>0 DEF IInv, Tids
  <2> QED BY <1>4, <2>1, <2>2, TidsOne
<1>11. Requests'
  BY <1>0, <1>4, <1>5, <1>7 DEF IInv, Requests, Creating, Unmade, Creates, Waits, SlotOf, Started, NoReq
<1>12. Ends' /\ Mains'
  BY <1>0, <1>2, <1>4, ThreadTableAssumption DEF IInv, Ends, Mains, SlotOf
<1>13. \A e \in Thread : e # c => (Holds(e)' <=> Holds(e))
  BY <1>4, <1>6 DEF Holds, Live
<1> QED BY <1>0, <1>1, <1>4, <1>8, <1>9, <1>10, <1>11, <1>12, <1>13 DEF IInv

-----------------------------------------------------------------------------
(* However the table is disturbed, values keep their types. *)

LEMMA DeleteTyped ==
  ASSUME Types, NEW i \in Slot, NEW vec \in [Slot -> VecTypes], th_delete(i, vec)
  PROVE  /\ th_vec' \in [Slot -> VecTypes]
         /\ th_first_free' \in Slot \cup {NULL} /\ th_last_free' \in Slot \cup {NULL}
         /\ th_first_thread' \in Slot \cup {NULL}
<1> DEFINE un == Unlinked(i, vec)
<1>1. \A s \in Slot : /\ vec[s] \in VecTypes /\ vec[s].next \in Slot \cup {NULL}
                      /\ vec[s].prev \in Slot \cup {NULL} /\ vec[s].valid \in BOOLEAN
  BY DEF VecTypes
<1>2. un \in [Slot -> VecTypes]
  <2> SUFFICES ASSUME NEW s \in Slot PROVE un[s] \in VecTypes
    BY DEF Unlinked
  <2>1. PICK r, a, b, v, q :
          /\ r = vec[s] /\ a = (IF s = vec[i].prev THEN vec[i].next ELSE vec[s].next)
          /\ b = (IF s = vec[i].next THEN vec[i].prev ELSE vec[s].prev)
          /\ v = (IF s = i THEN FALSE ELSE vec[s].valid) /\ q = un[s]
    OBVIOUS
  <2>2. r \in VecTypes /\ a \in Slot \cup {NULL} /\ b \in Slot \cup {NULL} /\ v \in BOOLEAN
    BY <1>1, <2>1
  <2>3. q = [r EXCEPT !.next = a, !.prev = b, !.valid = v]
    BY <2>1 DEF Unlinked
  <2>4. q \in VecTypes
    BY <2>2, <2>3 DEF VecTypes
  <2> HIDE DEF un
  <2> QED BY <2>1, <2>4
<1>3. th_first_thread' \in Slot \cup {NULL} /\ th_last_free' \in Slot \cup {NULL}
  BY <1>1 DEF th_delete, Types
<1>4. CASE th_first_free = NULL /\ th_first_free' = i /\ th_vec' = un
  <2> HIDE DEF un
  <2> QED BY <1>2, <1>3, <1>4
<1>5. CASE /\ th_first_free' = th_first_free
           /\ th_vec' = [s \in Slot |-> [un[s] EXCEPT !.next = CASE s = i -> NULL
                                                                 [] s = th_last_free /\ s # i -> i
                                                                 [] OTHER -> @]]
  <2>1. ASSUME NEW s \in Slot PROVE th_vec'[s] \in VecTypes
    <3> HIDE DEF un
    <3>1. PICK r, a, q :
            /\ r = un[s] /\ q = th_vec'[s]
            /\ a = (IF s = i THEN NULL ELSE IF s = th_last_free THEN i ELSE un[s].next)
      OBVIOUS
    <3>2. r \in VecTypes /\ r.next \in Slot \cup {NULL}
      BY <1>2, <3>1 DEF VecTypes
    <3>3. a \in Slot \cup {NULL} /\ q = [r EXCEPT !.next = a]
      BY <1>5, <3>1, <3>2
    <3>4. q \in VecTypes
      BY <3>2, <3>3 DEF VecTypes
    <3> QED BY <3>1, <3>4
  <2> HIDE DEF un
  <2>2. th_vec' \in [Slot -> VecTypes]
    BY <1>5, <2>1
  <2> QED BY <1>3, <1>5, <2>2 DEF Types
<1> QED BY <1>4, <1>5 DEF th_delete

LEMMA NewTyped ==
  ASSUME Types, th_first_free # NULL, NEW c \in Thread, NEW d \in BOOLEAN, th_new(c, d)
  PROVE  /\ th_vec' \in [Slot -> VecTypes] /\ th_first_free \in Slot
         /\ th_first_free' \in Slot \cup {NULL} /\ th_last_free' \in Slot \cup {NULL}
         /\ th_first_thread' \in Slot \cup {NULL}
<1> DEFINE pos == th_first_free
           atHead == th_first_thread = NULL \/ th_first_thread > pos
           p == IF atHead THEN NULL ELSE InsertAfter(pos)
           n == IF atHead THEN th_first_thread ELSE th_vec[p].next
           linked == [s \in Slot |-> [th_vec[s] EXCEPT !.next = IF s = p THEN pos ELSE @,
                                                       !.prev = IF s = n THEN pos ELSE @]]
           new == [next |-> n, prev |-> p, incarn |-> NextIncarn(th_vec[pos].incarn),
                   valid |-> FALSE, detached |-> d, exited |-> FALSE,
                   tid |-> th_vec[pos].tid, ctxt |-> c]
<1>1. \A s \in Slot : /\ th_vec[s] \in VecTypes /\ th_vec[s].next \in Slot \cup {NULL}
                      /\ th_vec[s].prev \in Slot \cup {NULL}
  BY DEF Types, VecTypes
<1>2. pos \in Slot
  BY DEF Types
<1>3. InsertAfter(pos) \in Slot \/ atHead
  <2> SUFFICES ASSUME ~atHead PROVE InsertAfter(pos) \in Slot
    OBVIOUS
  <2>1. Linking(th_vec)
    BY Typed DEF Types
  <2>2. Threads \in Seq(Slot)
    BY <2>1, ListTyped DEF Threads, Types
  <2>3. PICK l : l = Threads
    OBVIOUS
  <2>4. l \in Seq(Slot) /\ DOMAIN l = 1 .. Len(l) /\ Len(l) \in Nat
    BY <2>2, <2>3
  <2> DEFINE S == {i \in 1 .. Len(l) : Stops(pos, i)}
  <2>5. S # {}
    BY <2>3, <2>4 DEF th_new
  <2>6. PICK m \in S : \A i \in S : m <= i
    <3>1. S \in SUBSET Nat
      OBVIOUS
    <3> HIDE DEF S
    <3> QED BY <2>5, <3>1, LeastNatural
  <2>7. m \in DOMAIN l /\ Stops(pos, m) /\ \A j \in 1 .. (m - 1) : ~Stops(pos, j)
    <3>1. \A j \in 1 .. (m - 1) : j \in 1 .. Len(l) /\ ~(m <= j)
      BY <2>4
    <3> QED BY <2>4, <2>6, <3>1
  <2> DEFINE k == CHOOSE i \in DOMAIN Threads : Stops(pos, i) /\ \A j \in 1..(i - 1) : ~Stops(pos, j)
  <2>8. k \in DOMAIN l
    BY <2>3, <2>7
  <2>9. InsertAfter(pos) = l[k]
    BY <2>3 DEF InsertAfter
  <2> HIDE DEF k
  <2> QED BY <2>4, <2>8, <2>9
<1>4. p \in Slot \cup {NULL} /\ n \in Slot \cup {NULL}
  BY <1>1, <1>3 DEF Types
<1> HIDE DEF p, n, atHead
<1>5. new \in VecTypes
  <2>1. th_vec[pos].incarn \in Nat /\ th_vec[pos].tid \in Thread \cup {NoThread}
    BY <1>1, <1>2 DEF VecTypes
  <2>2. NextIncarn(th_vec[pos].incarn) \in 0..(Incarnations - 1)
    BY <2>1, ThreadTableAssumption DEF NextIncarn
  <2> QED BY <1>4, <2>1, <2>2 DEF VecTypes
<1>6. linked \in [Slot -> VecTypes]
  <2> SUFFICES ASSUME NEW s \in Slot PROVE linked[s] \in VecTypes
    OBVIOUS
  <2>1. PICK r, a, b, q : /\ r = th_vec[s] /\ a = (IF s = p THEN pos ELSE th_vec[s].next)
                          /\ b = (IF s = n THEN pos ELSE th_vec[s].prev) /\ q = linked[s]
    OBVIOUS
  <2>2. r \in VecTypes /\ a \in Slot \cup {NULL} /\ b \in Slot \cup {NULL}
    BY <1>1, <1>2, <2>1
  <2>3. q = [r EXCEPT !.next = a, !.prev = b]
    BY <2>1
  <2>4. q \in VecTypes
    BY <2>2, <2>3 DEF VecTypes
  <2> HIDE DEF linked
  <2> QED BY <2>1, <2>4
<1>7. th_vec' = [linked EXCEPT ![pos] = new]
  BY DEF th_new, p, n, atHead
<1>8. th_vec' \in [Slot -> VecTypes]
  <2> HIDE DEF linked, new
  <2> QED BY <1>2, <1>5, <1>6, <1>7
<1>9. /\ th_first_free' = th_vec[pos].next /\ th_last_free' = th_last_free
      /\ th_first_thread' = pos \/ th_first_thread' = th_first_thread
  BY DEF th_new
<1> QED BY <1>1, <1>2, <1>8, <1>9 DEF Types

\* A step that makes no thread.
LEMMA BaseStep ==
  ASSUME Base, Types',
         \A c \in Thread : Live(c)' => Live(c) /\ SlotOf(c)' = SlotOf(c),
         \A u \in Thread : req'[u].at \in Unmade =>
            /\ req[u].at \in Unmade /\ req'[u].child = req[u].child
            /\ thr'[req[u].child].os = "setup"
  PROVE  Base'
<1>1. Creating'
  BY DEF Base, Creating
<1>2. Slotted'
  BY DEF Base, Slotted
<1> QED BY <1>1, <1>2 DEF Base

\* A step that changes at most one thread, which is not waiting to be made before or after.
LEMMA BaseOne ==
  ASSUME Base, Types', NEW t \in Thread, NEW c \in Thread,
         \A d \in Thread : d # c => thr'[d] = thr[d],
         thr[c].os # "setup" \/ thr'[c].os = "setup",
         Live(c)' => Live(c) /\ SlotOf(c)' = SlotOf(c),
         \A u \in Thread : u # t => req'[u] = req[u],
         req'[t].at \in Unmade => req[t].at \in Unmade /\ req'[t].child = req[t].child
  PROVE  Base'
<1>1. \A d \in Thread : Live(d)' => Live(d) /\ SlotOf(d)' = SlotOf(d)
  BY DEF Live, SlotOf
<1>2. ASSUME NEW u \in Thread, req'[u].at \in Unmade
      PROVE  /\ req[u].at \in Unmade /\ req'[u].child = req[u].child
             /\ thr'[req[u].child].os = "setup"
  <2>1. req[u].at \in Unmade /\ req'[u].child = req[u].child
    BY <1>2
  <2>2. thr[req[u].child].os = "setup" /\ req[u].child \in Thread
    BY <2>1, ReqOf DEF Base, Creating, Unmade, Creates
  <2> QED BY <2>1, <2>2
<1> QED BY <1>1, <1>2, BaseStep

LEMMA BaseSetup ==
  ASSUME Base, NEW t \in Thread, NEW c \in Thread, NEW d \in BOOLEAN, xsb_thread_setup(t, c, d)
  PROVE  Base'
<1> DEFINE pos == th_first_free
           r == [os |-> "setup", pj |-> IF d THEN "detached" ELSE "joinable",
                 id |-> <<pos, th_vec'[pos].incarn>>]
           q == [at |-> "create", child |-> c]
<1>1. /\ Types /\ thr[c].os = "none" /\ req[t] = NoReq
      /\ thr' = [thr EXCEPT ![c] = r] /\ req' = [req EXCEPT ![t] = q]
  BY DEF Base, xsb_thread_setup, Idle
<1>2. /\ th_vec' \in [Slot -> VecTypes] /\ pos \in Slot
      /\ th_first_free' \in Slot \cup {NULL} /\ th_last_free' \in Slot \cup {NULL}
      /\ th_first_thread' \in Slot \cup {NULL}
  BY <1>1, NewTyped DEF xsb_thread_setup
<1>3. r \in ThrTypes /\ r.os = "setup" /\ r.id[1] = pos
  <2>1. th_vec'[pos].incarn \in 0..(Incarnations - 1)
    <3>1. th_vec'[pos] \in VecTypes
      BY <1>2
    <3> QED BY <3>1 DEF VecTypes
  <2>2. r.id \in IdTypes
    BY <1>2, <2>1 DEF IdTypes
  <2> QED BY <2>2 DEF ThrTypes, OSStates, PJStates
<1>4. /\ thr' \in [Thread -> ThrTypes] /\ \A e \in Thread : e # c => thr'[e] = thr[e]
      /\ thr'[c].os = "setup" /\ SlotOf(c)' = pos
  <2>1. thr' \in [Thread -> ThrTypes] /\ (\A e \in Thread : e # c => thr'[e] = thr[e]) /\ thr'[c] = r
    <3> HIDE DEF r
    <3> QED BY <1>1, <1>3 DEF Types
  <2> HIDE DEF r
  <2> QED BY <1>3, <2>1 DEF SlotOf
<1>5. /\ req' \in [Thread -> ReqTypes] /\ \A v \in Thread : v # t => req'[v] = req[v]
      /\ req'[t].child = c
  <2>1. q \in ReqTypes /\ req \in [Thread -> ReqTypes] /\ q.child = c
    BY <1>1 DEF Types, ReqTypes, CreateTypes, Creates
  <2> HIDE DEF q, r
  <2>2. \A v \in Thread : req'[v] = IF v = t THEN q ELSE req[v]
    BY <1>1, <2>1, ReqField
  <2>3. req' \in [Thread -> ReqTypes]
    BY <1>1, <2>1, ReqField
  <2> QED BY <2>1, <2>2, <2>3
<1> HIDE DEF r, q
<1>6. Types'
  BY <1>2, <1>4, <1>5 DEF Types
<1>7. \A u \in Thread : req[u].at \in Unmade =>
        /\ req[u].child \in Thread /\ req[u].child # c /\ thr[req[u].child].os = "setup"
  BY <1>1, ReqOf DEF Base, Creating, Unmade, Creates
<1>8. Creating'
  <2>1. ASSUME NEW u \in Thread, req'[u].at \in Unmade PROVE thr'[req'[u].child].os = "setup"
    BY <1>4, <1>5, <1>7, <2>1
  <2>2. ASSUME NEW u \in Thread, NEW v \in Thread, req'[u].at \in Unmade, req'[v].at \in Unmade,
               req'[u].child = req'[v].child
        PROVE  u = v
    BY <1>5, <1>7, <2>2 DEF Base, Creating
  <2> QED BY <2>1, <2>2 DEF Creating
<1>9. Slotted'
  <2> SUFFICES ASSUME NEW e \in Thread, Live(e)' PROVE SlotOf(e)' \in Slot
    BY DEF Slotted
  <2>1. CASE e = c
    BY <1>2, <1>4, <2>1
  <2>2. CASE e # c
    BY <1>4, <2>2 DEF Base, Slotted, Live, SlotOf
  <2> QED BY <2>1, <2>2
<1> QED BY <1>6, <1>8, <1>9 DEF Base

\* A creator's requests.
LEMMA BaseCreates ==
  ASSUME Base, NEW t \in Thread,
         PthreadCreate(t) \/ PthreadCreateFails(t) \/ SetValid(t) \/ DeleteBegins(t)
  PROVE  Base'
<1>1. Types /\ th_vec \in [Slot -> VecTypes] /\ req[t].at \in Creates
      /\ req[t].child \in Thread
  <2>1. Types /\ req[t].at \in Creates
    BY DEF Base, PthreadCreate, PthreadCreateFails, SetValid, DeleteBegins, Creates
  <2> QED BY <2>1, ReqOf DEF Types
<1>2. PICK c \in Thread : c = req[t].child
  BY <1>1
<1>3. /\ req[t].at \in Unmade => thr[c].os = "setup" /\ SlotOf(c) \in Slot
      /\ \A u \in Thread : req[t].at \in Unmade /\ req[u].at \in Unmade /\ u # t =>
           /\ req[u].child \in Thread /\ req[u].child # c /\ thr[req[u].child].os = "setup"
  BY <1>1, <1>2, ReqOf DEF Base, Creating, Slotted, Live, Unmade, Creates
<1>4. CASE PthreadCreate(t)
  <2>1. /\ req[t].at = "create" /\ thr' = [thr EXCEPT ![c].os = "started"]
        /\ th_vec' = [th_vec EXCEPT ![SlotOf(c)].tid = c] /\ req' = [req EXCEPT ![t].at = "created"]
        /\ UNCHANGED <<th_first_free, th_last_free, th_first_thread>>
    BY <1>2, <1>4 DEF PthreadCreate, SlotOf, heads
  <2>2. req[t].at \in Unmade /\ SlotOf(c) \in Slot
    BY <1>3, <2>1 DEF Unmade
  <2>3. th_vec' \in [Slot -> VecTypes]
    <3>1. c \in Thread \cup {NoThread}
      OBVIOUS
    <3> QED BY <1>1, <2>1, <2>2, <3>1, TidStep
  <2>4. /\ thr' \in [Thread -> ThrTypes]
        /\ \A d \in Thread : thr'[d].id = thr[d].id /\ thr'[d].os = IF d = c THEN "started" ELSE thr[d].os
    <3>1. "started" \in OSStates
      BY DEF OSStates
    <3> QED BY <1>1, <2>1, <3>1, OsStep
  <2>5. /\ req' \in [Thread -> ReqTypes] /\ \A v \in Thread : v # t => req'[v] = req[v]
        /\ req'[t].at = "created"
    <3>1. "created" \in Creates
      BY DEF Creates
    <3> QED BY <1>1, <2>1, <3>1, CreateStep
  <2>6. Types'
    BY <1>1, <2>1, <2>3, <2>4, <2>5 DEF Types
  <2>7. \A d \in Thread : Live(d)' => Live(d) /\ SlotOf(d)' = SlotOf(d)
    BY <1>3, <2>2, <2>4 DEF Live, SlotOf
  <2>8. ASSUME NEW u \in Thread, req'[u].at \in Unmade
        PROVE  /\ req[u].at \in Unmade /\ req'[u].child = req[u].child
               /\ thr'[req[u].child].os = "setup"
    <3>1. u # t /\ req'[u] = req[u]
      BY <2>5, <2>8 DEF Unmade
    <3> QED BY <1>3, <2>2, <2>4, <2>8, <3>1
  <2> QED BY <2>6, <2>7, <2>8, BaseStep
<1>5. CASE PthreadCreateFails(t)
  <2>1. /\ req[t].at = "create" /\ thr' = thr /\ req' = [req EXCEPT ![t].at = "failed"]
        /\ UNCHANGED <<th_vec, th_first_free, th_last_free, th_first_thread>> /\ "failed" \in Creates
    BY <1>5 DEF PthreadCreateFails, table, heads, Creates
  <2>2. /\ req' \in [Thread -> ReqTypes] /\ \A v \in Thread : v # t => req'[v] = req[v]
        /\ req'[t].at = "failed" /\ req'[t].child = c
    BY <1>1, <1>2, <2>1, CreateStep
  <2>3. Types'
    BY <1>1, <2>1, <2>2 DEF Types
  <2> QED BY <1>2, <2>1, <2>2, <2>3, BaseOne DEF Live, SlotOf, Unmade
<1>6. CASE SetValid(t)
  <2>1. /\ thr' = thr /\ UNCHANGED <<th_first_free, th_last_free, th_first_thread>>
        /\ th_vec' = [th_vec EXCEPT ![SlotOf(c)].valid = TRUE]
    BY <1>2, <1>6 DEF SetValid, heads, SlotOf
  <2>2. th_vec' \in [Slot -> VecTypes]
    <3>1. CASE SlotOf(c) \in Slot
      <4>1. TRUE \in BOOLEAN
        OBVIOUS
      <4> QED BY <1>1, <2>1, <3>1, <4>1, ValidStep
    <3>2. CASE SlotOf(c) \notin Slot
      BY <1>1, <2>1, <3>2
    <3> QED BY <3>1, <3>2
  <2>3. /\ req' \in [Thread -> ReqTypes] /\ \A v \in Thread : v # t => req'[v] = req[v]
        /\ req'[t].at \in Unmade => req[t].at \in Unmade /\ req'[t].child = req[t].child
    <3>1. CASE req[t].at = "created"
      <4>1. req' = [req EXCEPT ![t] = NoReq]
        BY <1>6, <3>1 DEF SetValid
      <4>2. /\ req' \in [Thread -> ReqTypes]
            /\ \A v \in Thread : req'[v] = IF v = t THEN NoReq ELSE req[v]
        BY <1>1, <4>1, ReqDone
      <4> QED BY <4>2 DEF NoReq, Unmade
    <3>2. CASE req[t].at = "failed"
      <4>1. req' = [req EXCEPT ![t].at = "delete"] /\ "delete" \in Creates
        BY <1>6, <3>2 DEF SetValid, Creates
      <4>2. /\ req' \in [Thread -> ReqTypes] /\ \A v \in Thread : v # t => req'[v] = req[v]
            /\ req'[t].child = req[t].child
        BY <1>1, <4>1, CreateStep
      <4> QED BY <3>2, <4>2 DEF Unmade
    <3> QED BY <1>6, <3>1, <3>2 DEF SetValid
  <2>4. Types'
    BY <1>1, <2>1, <2>2, <2>3 DEF Types
  <2> QED BY <2>1, <2>3, <2>4, BaseOne DEF Live, SlotOf
<1>7. CASE DeleteBegins(t)
  <2> DEFINE r == [os |-> "ended", pj |-> "joined", id |-> <<NULL, 0>>]
             q == [at |-> "back", slot |-> SlotOf(c)]
             i == SlotOf(c)
  <2>1. /\ req[t].at = "delete" /\ thr' = [thr EXCEPT ![c] = r] /\ req' = [req EXCEPT ![t] = q]
        /\ th_vec' = [s \in Slot |->
             [th_vec[s] EXCEPT !.next = IF s = th_vec[i].prev THEN th_vec[i].next ELSE @]]
        /\ UNCHANGED <<th_first_free, th_last_free, th_first_thread>>
    BY <1>2, <1>7 DEF DeleteBegins, SlotOf, heads
  <2>2. req[t].at \in Unmade /\ SlotOf(c) \in Slot
    BY <1>3, <2>1 DEF Unmade
  <2>3. r \in ThrTypes /\ r.os = "ended"
    <3>1. 0 \in 0..(Incarnations - 1)
      BY ThreadTableAssumption
    <3> QED BY <3>1 DEF ThrTypes, OSStates, PJStates, IdTypes
  <2>4. q \in ReqTypes /\ q.at = "back"
    BY <2>2 DEF ReqTypes, DeleteTypes, DeleteStages
  <2> HIDE DEF r, q
  <2>5. /\ thr' \in [Thread -> ThrTypes] /\ \A d \in Thread : d # c => thr'[d] = thr[d]
        /\ thr'[c].os = "ended"
    BY <1>1, <2>1, <2>3 DEF Types
  <2>6. /\ req' \in [Thread -> ReqTypes] /\ \A v \in Thread : v # t => req'[v] = req[v]
        /\ req'[t].at = "back"
    BY <1>1, <2>1, <2>4, ReqField DEF Types
  <2>7. th_vec' \in [Slot -> VecTypes]
    <3>1. ASSUME NEW s \in Slot PROVE th_vec'[s] \in VecTypes
      <4>1. \A x \in Slot : th_vec[x] \in VecTypes /\ th_vec[x].next \in Slot \cup {NULL}
        BY <1>1 DEF VecTypes
      <4>2. PICK x, a, y : /\ x = th_vec[s] /\ y = th_vec'[s]
                           /\ a = (IF s = th_vec[i].prev THEN th_vec[i].next ELSE th_vec[s].next)
        OBVIOUS
      <4>3. x \in VecTypes /\ a \in Slot \cup {NULL} /\ y = [x EXCEPT !.next = a]
        BY <2>1, <2>2, <4>1, <4>2
      <4>4. y \in VecTypes
        BY <4>3 DEF VecTypes
      <4> QED BY <4>2, <4>4
    <3> QED BY <2>1, <3>1
  <2>8. Types'
    BY <1>1, <2>1, <2>5, <2>6, <2>7 DEF Types
  <2>9. \A d \in Thread : Live(d)' => Live(d) /\ SlotOf(d)' = SlotOf(d)
    BY <2>5 DEF Live, SlotOf
  <2>10. ASSUME NEW u \in Thread, req'[u].at \in Unmade
         PROVE  /\ req[u].at \in Unmade /\ req'[u].child = req[u].child
                /\ thr'[req[u].child].os = "setup"
    <3>1. u # t /\ req'[u] = req[u]
      BY <2>6, <2>10 DEF Unmade
    <3> QED BY <1>3, <2>2, <2>5, <2>10, <3>1
  <2> QED BY <2>8, <2>9, <2>10, BaseStep
<1> QED BY <1>4, <1>5, <1>6, <1>7

LEMMA BaseGoesOn ==
  ASSUME Base, NEW t \in Thread, DeleteGoesOn(t)
  PROVE  Base'
<1>1. /\ Types /\ th_vec \in [Slot -> VecTypes] /\ req[t].at \in DeleteStages /\ thr' = thr
      /\ req[t].slot \in Slot /\ req[t] \in DeleteTypes
  <2>1. Types /\ req[t].at \in DeleteStages /\ thr' = thr
    BY DEF Base, DeleteGoesOn
  <2> QED BY <2>1, ReqOf DEF Types
<1>2. PICK i \in Slot, at \in DeleteStages : i = req[t].slot /\ at = req[t].at
  BY <1>1
<1>3. /\ th_first_free' \in Slot \cup {NULL} /\ th_last_free' \in Slot \cup {NULL}
      /\ th_first_thread' \in Slot \cup {NULL}
  <2>1. th_vec[i].next \in Slot \cup {NULL}
    BY <1>1 DEF VecTypes
  <2> QED BY <1>1, <1>2, <2>1 DEF DeleteGoesOn, Types
<1>4. ASSUME NEW s, NEW a \in Slot \cup {NULL}, th_vec' = [th_vec EXCEPT ![s].next = a]
      PROVE  th_vec' \in [Slot -> VecTypes]
  <2>1. \A x \in VecTypes : [x EXCEPT !.next = a] \in VecTypes
    BY <1>4 DEF VecTypes
  <2>2. th_vec' = [x \in Slot |-> IF x = s THEN [th_vec[x] EXCEPT !.next = a] ELSE th_vec[x]]
    BY <1>1, <1>4
  <2> QED BY <1>1, <2>1, <2>2
<1>5. th_vec' \in [Slot -> VecTypes]
  <2>1. CASE at = "back"
    <3>1. th_vec' = [s \in Slot |-> [th_vec[s] EXCEPT !.prev = IF s = th_vec[i].next THEN th_vec[i].prev ELSE @]]
      BY <1>2, <2>1 DEF DeleteGoesOn
    <3>2. ASSUME NEW s \in Slot PROVE th_vec'[s] \in VecTypes
      <4>1. \A x \in Slot : th_vec[x] \in VecTypes /\ th_vec[x].prev \in Slot \cup {NULL}
        BY <1>1 DEF VecTypes
      <4>2. PICK x, a, y : /\ x = th_vec[s] /\ y = th_vec'[s]
                           /\ a = (IF s = th_vec[i].next THEN th_vec[i].prev ELSE th_vec[s].prev)
        OBVIOUS
      <4>3. x \in VecTypes /\ a \in Slot \cup {NULL} /\ y = [x EXCEPT !.prev = a]
        BY <3>1, <4>1, <4>2
      <4>4. y \in VecTypes
        BY <4>3 DEF VecTypes
      <4> QED BY <4>2, <4>4
    <3> QED BY <3>1, <3>2
  <2>2. CASE at = "append"
    BY <1>2, <1>4, <2>2 DEF DeleteGoesOn
  <2>3. CASE at = "end"
    BY <1>2, <1>4, <2>3 DEF DeleteGoesOn
  <2>4. CASE at = "invalid"
    <3>1. FALSE \in BOOLEAN /\ th_vec' = [th_vec EXCEPT ![i].valid = FALSE]
      BY <1>2, <2>4 DEF DeleteGoesOn
    <3> QED BY <1>1, <3>1, ValidStep
  <2>5. CASE at \notin {"back", "append", "end", "invalid"}
    BY <1>1, <1>2, <2>5 DEF DeleteGoesOn
  <2> QED BY <2>1, <2>2, <2>3, <2>4, <2>5
<1>6. /\ req' \in [Thread -> ReqTypes] /\ \A v \in Thread : v # t => req'[v] = req[v]
      /\ req'[t].at \notin Unmade
  <2>1. CASE at = "invalid"
    <3>1. req' = [req EXCEPT ![t] = NoReq]
      BY <1>2, <2>1 DEF DeleteGoesOn
    <3>2. req' \in [Thread -> ReqTypes] /\ \A v \in Thread : req'[v] = IF v = t THEN NoReq ELSE req[v]
      BY <1>1, <3>1, ReqDone
    <3> QED BY <3>2 DEF NoReq, Unmade
  <2>2. CASE at # "invalid"
    <3>1. PICK x \in DeleteStages : req' = [req EXCEPT ![t].at = x]
      BY <1>1, <1>2, <2>2 DEF DeleteGoesOn, DeleteStages
    <3>2. /\ req' \in [Thread -> ReqTypes] /\ \A v \in Thread : v # t => req'[v] = req[v]
          /\ req'[t].at = x
      BY <1>1, <3>1, ReqField DEF Types
    <3> QED BY <3>2 DEF Unmade, DeleteStages
  <2> QED BY <2>1, <2>2
<1>7. Types'
  BY <1>1, <1>3, <1>5, <1>6 DEF Types
<1> QED BY <1>1, <1>6, <1>7, BaseOne DEF Live, SlotOf

LEMMA BaseThread ==
  ASSUME Base, NEW t \in Thread, xsb_thread_run(t) \/ ThreadExit(t) \/ PthreadExit(t)
  PROVE  Base'
<1>1. /\ Types /\ th_vec \in [Slot -> VecTypes] /\ req' = req
      /\ thr[t].os \in {"started", "running", "exiting"}
      /\ thr[t].os \in {"started", "running"} => SlotOf(t) \in Slot
  BY DEF Base, Types, xsb_thread_run, ThreadExit, PthreadExit, Idle, Slotted, Live
<1>2. PICK x \in {"running", "exiting", "ended"} : 
        /\ thr' = [thr EXCEPT ![t].os = x]
        /\ x = "running" => thr[t].os = "started"
  BY DEF xsb_thread_run, ThreadExit, PthreadExit
<1>3. /\ thr' \in [Thread -> ThrTypes]
      /\ \A d \in Thread : thr'[d].id = thr[d].id /\ thr'[d].os = IF d = t THEN x ELSE thr[d].os
  <2>1. x \in OSStates
    BY DEF OSStates
  <2> QED BY <1>1, <1>2, <2>1, OsStep
<1>4. /\ th_vec' \in [Slot -> VecTypes]
      /\ th_first_free' \in Slot \cup {NULL} /\ th_last_free' \in Slot \cup {NULL}
      /\ th_first_thread' \in Slot \cup {NULL}
  <2>1. CASE xsb_thread_run(t)
    <3>1. PICK i \in Slot : i = SlotOf(t)
      BY <1>1, <2>1 DEF xsb_thread_run
    <3>2. PICK vec : vec = [th_vec EXCEPT ![i].tid = t]
      OBVIOUS
    <3>3. vec \in [Slot -> VecTypes]
      <4>1. t \in Thread \cup {NoThread}
        OBVIOUS
      <4> QED BY <1>1, <3>2, <4>1, TidStep
    <3>4. th_vec' = [vec EXCEPT ![i].valid = TRUE]
      BY <2>1, <3>1, <3>2 DEF xsb_thread_run, SlotOf
    <3>5. th_vec' \in [Slot -> VecTypes]
      <4>1. TRUE \in BOOLEAN
        OBVIOUS
      <4> QED BY <3>3, <3>4, <4>1, ValidStep
    <3> QED BY <1>1, <2>1, <3>5 DEF xsb_thread_run, heads, Types
  <2>2. CASE ThreadExit(t)
    <3>1. PICK i \in Slot : i = SlotOf(t)
      BY <1>1, <2>2 DEF ThreadExit, Idle
    <3>2. PICK vec : vec = [th_vec EXCEPT ![i].ctxt = NoThread]
      OBVIOUS
    <3>3. vec \in [Slot -> VecTypes]
      <4>1. NoThread \in Thread \cup {NoThread}
        OBVIOUS
      <4> QED BY <1>1, <3>2, <4>1, CtxtStep
    <3>4. CASE th_delete(i, vec)
      BY <1>1, <3>3, <3>4, DeleteTyped
    <3>5. CASE /\ th_vec' = [vec EXCEPT ![i].exited = TRUE]
               /\ UNCHANGED <<th_first_free, th_last_free, th_first_thread>>
      <4>1. TRUE \in BOOLEAN
        OBVIOUS
      <4>2. th_vec' \in [Slot -> VecTypes]
        BY <3>3, <3>5, <4>1, ExitedStep
      <4> QED BY <1>1, <3>5, <4>2 DEF Types
    <3> QED BY <2>2, <3>1, <3>2, <3>4, <3>5 DEF ThreadExit, SlotOf, heads
  <2>3. CASE PthreadExit(t)
    BY <1>1, <2>3 DEF PthreadExit, table, heads, Types
  <2> QED BY <2>1, <2>2, <2>3
<1>5. Types'
  BY <1>1, <1>3, <1>4 DEF Types
<1>6. \A d \in Thread : Live(d)' => Live(d) /\ SlotOf(d)' = SlotOf(d)
  BY <1>1, <1>2, <1>3 DEF Live, SlotOf
<1>7. ASSUME NEW u \in Thread, req'[u].at \in Unmade
      PROVE  /\ req[u].at \in Unmade /\ req'[u].child = req[u].child
             /\ thr'[req[u].child].os = "setup"
  <2>1. req[u].at \in Unmade /\ req'[u] = req[u] /\ req[u].child \in Thread /\ thr[req[u].child].os = "setup"
    BY <1>1, <1>7, ReqOf DEF Base, Creating, Unmade, Creates
  <2>2. req[u].child # t
    BY <1>1, <2>1
  <2> QED BY <1>3, <2>1, <2>2
<1> QED BY <1>5, <1>6, <1>7, BaseStep

LEMMA BaseLookup ==
  ASSUME Base, NEW t \in Thread, NEW id \in Ids, NEW op \in {"join", "detach"}, Lookup(t, id, op)
  PROVE  Base'
<1> DEFINE r == [at |-> op, id |-> id, tid |-> th_get(id)]
<1>1. /\ Types /\ thr' = thr /\ UNCHANGED <<th_vec, th_first_free, th_last_free, th_first_thread>>
      /\ req' = [req EXCEPT ![t] = r] /\ th_get(id) # NoThread
  BY DEF Base, Lookup, table, heads
<1>2. id \in Slot \X (0..(Incarnations - 1)) /\ id[1] \in Slot
  BY <1>1 DEF Ids, Types, ThrTypes, IdTypes
<1>3. th_get(id) \in Thread
  <2>1. th_vec[id[1]] \in VecTypes
    BY <1>1, <1>2 DEF Types
  <2> QED BY <1>1, <2>1 DEF th_get, VecTypes
<1>4. r \in ReqTypes /\ r.at = op
  BY <1>2, <1>3 DEF ReqTypes, WaitTypes, Waits
<1> HIDE DEF r
<1>5. req' \in [Thread -> ReqTypes] /\ \A v \in Thread : req'[v] = IF v = t THEN r ELSE req[v]
  BY <1>1, <1>4, ReqField DEF Types
<1>6. Types'
  BY <1>1, <1>5 DEF Types
<1> QED BY <1>1, <1>4, <1>5, <1>6, BaseOne DEF Live, SlotOf, Unmade

LEMMA BaseWaits ==
  ASSUME Base, NEW t \in Thread,
         JoinCall(t) \/ JoinReturns(t) \/ JoinDelete(t) \/ DetachCall(t) \/ DetachFinish(t)
  PROVE  Base'
<1>1. /\ Types /\ th_vec \in [Slot -> VecTypes] /\ req[t].at \in Waits
      /\ req[t].tid \in Thread /\ req[t].id[1] \in Slot
  <2>1. Types /\ req[t].at \in Waits
    BY DEF Base, JoinCall, JoinReturns, JoinDelete, DetachCall, DetachFinish, Waits
  <2> QED BY <2>1, ReqOf DEF Types
<1>2. PICK c \in Thread, i \in Slot : c = req[t].tid /\ i = req[t].id[1]
  BY <1>1
<1>3. /\ req' \in [Thread -> ReqTypes] /\ \A v \in Thread : v # t => req'[v] = req[v]
      /\ req'[t].at \notin Unmade
  <2>1. CASE req' = [req EXCEPT ![t] = NoReq]
    <3>1. req' \in [Thread -> ReqTypes] /\ \A v \in Thread : req'[v] = IF v = t THEN NoReq ELSE req[v]
      BY <1>1, <2>1, ReqDone
    <3> QED BY <3>1 DEF NoReq, Unmade
  <2>2. CASE \E x \in Waits : req' = [req EXCEPT ![t].at = x]
    <3>1. PICK x \in Waits : req' = [req EXCEPT ![t].at = x]
      BY <2>2
    <3>2. /\ req' \in [Thread -> ReqTypes] /\ \A v \in Thread : v # t => req'[v] = req[v]
          /\ req'[t].at = x
      BY <1>1, <3>1, WaitStep
    <3> QED BY <3>2 DEF Unmade, Waits
  <2>3. \/ req' = [req EXCEPT ![t] = NoReq]
        \/ \E x \in Waits : req' = [req EXCEPT ![t].at = x]
    BY DEF JoinCall, JoinReturns, JoinDelete, DetachCall, DetachFinish, Waits
  <2> QED BY <2>1, <2>2, <2>3
<1>4. /\ thr' \in [Thread -> ThrTypes]
      /\ \A d \in Thread : thr'[d].os = thr[d].os /\ thr'[d].id = thr[d].id
  <2>1. CASE thr' = thr
    BY <1>1, <2>1 DEF Types
  <2>2. CASE \E x \in PJStates : thr' = [thr EXCEPT ![c].pj = x]
    BY <1>1, <2>2, PjStep
  <2>3. thr' = thr \/ \E x \in PJStates : thr' = [thr EXCEPT ![c].pj = x]
    BY <1>2 DEF JoinCall, JoinReturns, JoinDelete, DetachCall, DetachFinish, PJStates
  <2> QED BY <2>1, <2>2, <2>3
<1>5. /\ th_vec' \in [Slot -> VecTypes]
      /\ th_first_free' \in Slot \cup {NULL} /\ th_last_free' \in Slot \cup {NULL}
      /\ th_first_thread' \in Slot \cup {NULL}
  <2>1. CASE th_delete(i, th_vec)
    BY <1>1, <2>1, DeleteTyped
  <2>2. CASE /\ th_vec' = [th_vec EXCEPT ![i].detached = TRUE]
             /\ UNCHANGED <<th_first_free, th_last_free, th_first_thread>>
    <3>1. TRUE \in BOOLEAN
      OBVIOUS
    <3>2. th_vec' \in [Slot -> VecTypes]
      BY <1>1, <2>2, <3>1, DetachedStep
    <3> QED BY <1>1, <2>2, <3>2 DEF Types
  <2>3. CASE UNCHANGED <<th_vec, th_first_free, th_last_free, th_first_thread>>
    BY <1>1, <2>3 DEF Types
  <2>4. \/ th_delete(i, th_vec)
        \/ /\ th_vec' = [th_vec EXCEPT ![i].detached = TRUE]
           /\ UNCHANGED <<th_first_free, th_last_free, th_first_thread>>
        \/ UNCHANGED <<th_vec, th_first_free, th_last_free, th_first_thread>>
    BY <1>2 DEF JoinCall, JoinReturns, JoinDelete, DetachCall, DetachFinish, table, heads
  <2> QED BY <2>1, <2>2, <2>3, <2>4
<1>6. Types'
  BY <1>3, <1>4, <1>5 DEF Types
<1>7. \A d \in Thread : Live(d)' => Live(d) /\ SlotOf(d)' = SlotOf(d)
  BY <1>4 DEF Live, SlotOf
<1>8. ASSUME NEW u \in Thread, req'[u].at \in Unmade
      PROVE  /\ req[u].at \in Unmade /\ req'[u].child = req[u].child
             /\ thr'[req[u].child].os = "setup"
  <2>1. u # t /\ req'[u] = req[u]
    BY <1>3, <1>8
  <2>2. req[u].child \in Thread /\ thr[req[u].child].os = "setup"
    BY <1>1, <1>8, <2>1, ReqOf DEF Base, Creating, Unmade, Creates
  <2> QED BY <1>4, <1>8, <2>1, <2>2
<1> QED BY <1>6, <1>7, <1>8, BaseStep

LEMMA BaseKept ==
  ASSUME Base, [Next]_vars
  PROVE  Base'
<1>1. ASSUME NEW t \in Thread, Step(t) \/ ThreadExit(t) PROVE Base'
  BY <1>1, BaseCreates, BaseGoesOn, BaseThread, BaseWaits DEF Step
<1>2. ASSUME NEW t \in Thread, NEW id \in Ids, JoinLookup(t, id) \/ DetachLookup(t, id) PROVE Base'
  <2>1. PICK op \in {"join", "detach"} : Lookup(t, id, op)
    BY <1>2 DEF JoinLookup, DetachLookup
  <2> QED BY <2>1, BaseLookup
<1>3. CASE UNCHANGED vars
  <2>1. UNCHANGED <<th_vec, th_first_free, th_last_free, th_first_thread, thr, req>>
    BY <1>3 DEF vars, table, heads
  <2> QED BY <2>1 DEF Base, Types, Creating, Slotted, Live, SlotOf
<1> QED BY <1>1, <1>2, <1>3, BaseSetup DEF Next

\* The values at the start of the engine.
LEMMA InitTyped ==
  ASSUME Init
  PROVE  Base
<1> DEFINE N == MaxThreads
<1>1. /\ N \in Nat /\ N > 0 /\ (Past # NoThread => N > 2 /\ Past \in Thread /\ Past # Main)
      /\ Main \in Thread /\ NoThread \notin Thread /\ Incarnations \in Nat /\ Incarnations > 0
  BY ThreadTableAssumption
<1>2. 0 \in Slot /\ (Past # NoThread => 1 \in Slot) /\ \A s : s \in Slot <=> s \in Int /\ 0 <= s /\ s < N
  BY <1>1 DEF Slot
<1>3. \A s \in Slot :
        /\ Past = NoThread => (s \in Used <=> s = 0)
        /\ Past # NoThread => (s \in Used <=> s = 0 \/ s = 1)
  BY DEF Used
<1>5. /\ th_first_thread = 0 /\ th_first_free = (IF N = 1 THEN NULL ELSE IF Past = NoThread THEN 1 ELSE 2)
      /\ th_last_free = (IF Past = NoThread THEN N - 1 ELSE 1)
  <2>1. Cardinality(Used) = IF Past = NoThread THEN 1 ELSE 2
    <3>1. CASE Past = NoThread
      BY <3>1, FS_Singleton DEF Used
    <3>2. CASE Past # NoThread
      <4>1. Used = {0} \cup {1} /\ 1 \notin {0}
        BY <3>2 DEF Used
      <4>2. IsFiniteSet({0}) /\ Cardinality({0}) = 1
        BY FS_Singleton
      <4>3. Cardinality({0} \cup {1}) = 2
        BY <4>1, <4>2, FS_AddElement
      <4> QED BY <3>2, <4>1, <4>3
    <3> QED BY <3>1, <3>2
  <2> QED BY <1>1, <2>1 DEF Init
<1>6. \A t \in Thread :
        /\ thr[t].os = (IF t = Main THEN "running" ELSE IF t = Past THEN "ended" ELSE "none")
        /\ thr[t].pj = (IF t = Past THEN "joined" ELSE "joinable")
        /\ thr[t].id = (IF t = Main THEN <<0, 0>> ELSE IF t = Past THEN <<1, 0>> ELSE <<NULL, 0>>)
        /\ req[t] = NoReq
  BY <1>1 DEF Init, FirstId
<1>7. Types
  <2>1. thr \in [Thread -> ThrTypes]
    <3>1. ASSUME NEW t \in Thread
          PROVE  [os |-> CASE t = Main -> "running" [] t = Past -> "ended" [] OTHER -> "none",
                  pj |-> IF t = Past THEN "joined" ELSE "joinable", id |-> FirstId(t)] \in ThrTypes
      <4>1. FirstId(t) \in IdTypes
        <5>1. 0 \in 0..(Incarnations - 1)
          BY <1>1
        <5>2. FirstId(t) = (IF t = Main THEN <<0, 0>> ELSE IF t = Past THEN <<1, 0>> ELSE <<NULL, 0>>)
          BY <1>1 DEF FirstId
        <5>3. t = Past => 1 \in Slot
          BY <1>1, <1>2
        <5> QED BY <1>2, <5>1, <5>2, <5>3 DEF IdTypes
      <4> QED BY <1>1, <4>1 DEF ThrTypes, OSStates, PJStates
    <3> QED BY <3>1 DEF Init
  <2>2. th_vec \in [Slot -> VecTypes]
    <3>1. ASSUME NEW s \in Slot
          PROVE  [next |-> CASE s \in Used -> NULL
                   [] s = MaxThreads - 1 -> IF Past = NoThread THEN NULL ELSE 1
                   [] OTHER -> s + 1,
                  prev |-> IF s # 0 /\ s \in Used THEN 0 ELSE NULL,
                  incarn |-> IF s \in Used THEN 0 ELSE Incarnations - 1,
                  valid |-> s = 0, detached |-> FALSE, exited |-> s # 0 /\ s \in Used,
                  tid |-> FirstUser(s),
                  ctxt |-> IF s = 0 THEN Main ELSE NoThread] \in VecTypes
      <4> DEFINE nx == CASE s \in Used -> NULL
                         [] s = MaxThreads - 1 -> IF Past = NoThread THEN NULL ELSE 1
                         [] OTHER -> s + 1
                 pv == IF s # 0 /\ s \in Used THEN 0 ELSE NULL
                 in == IF s \in Used THEN 0 ELSE Incarnations - 1
                 ct == IF s = 0 THEN Main ELSE NoThread
      <4>1. nx \in Slot \cup {NULL}
        <5>1. nx = NULL \/ (Past # NoThread /\ nx = 1) \/ (s # N - 1 /\ nx = s + 1)
          BY <1>1, <1>3
        <5> HIDE DEF nx
        <5> QED BY <1>1, <1>2, <5>1
      <4>2. pv \in Slot \cup {NULL} /\ in \in 0..(Incarnations - 1) /\ ct \in Thread \cup {NoThread}
        BY <1>1, <1>2
      <4>3. FirstUser(s) \in Thread \cup {NoThread}
        BY <1>1 DEF FirstUser
      <4>4. (s = 0) \in BOOLEAN /\ (s # 0 /\ s \in Used) \in BOOLEAN
        OBVIOUS
      <4> HIDE DEF nx, pv, in, ct
      <4>5. [next |-> nx, prev |-> pv, incarn |-> in, valid |-> s = 0, detached |-> FALSE,
             exited |-> s # 0 /\ s \in Used, tid |-> FirstUser(s), ctxt |-> ct] \in VecTypes
        BY <4>1, <4>2, <4>3, <4>4 DEF VecTypes
      <4> QED BY <4>5 DEF nx, pv, in, ct
    <3> QED BY <3>1 DEF Init
  <2>3. req \in [Thread -> ReqTypes]
    BY DEF Init, ReqTypes
  <2>4. {th_first_free, th_last_free, th_first_thread} \subseteq Slot \cup {NULL}
    BY <1>1, <1>2, <1>5
  <2> QED BY <2>1, <2>2, <2>3, <2>4 DEF Types
<1>8. Creating
  BY <1>6 DEF Creating, Unmade, NoReq
<1>9. Slotted
  <2>1. \A c \in Thread : Live(c) => c = Main
    BY <1>6 DEF Live
  <2> QED BY <1>1, <1>2, <1>6, <2>1 DEF Slotted, SlotOf
<1> QED BY <1>7, <1>8, <1>9 DEF Base

\* The table after the start of the engine, and after Past has come and gone.
LEMMA InitHolds ==
  ASSUME Init, SpareSlot
  PROVE  IInv /\ Incarns
<1> DEFINE N == MaxThreads
           used == <<0>>
           freeAt(i) == IF Past = NoThread THEN i ELSE IF i = N - 1 THEN 1 ELSE i + 1
           free == [i \in 1 .. N - 1 |-> freeAt(i)]
<1>1. /\ N \in Nat /\ N > 1 /\ (Past # NoThread => N > 2 /\ Past \in Thread /\ Past # Main)
      /\ Main \in Thread /\ NoThread \notin Thread /\ Incarnations \in Nat /\ Incarnations > 0
  BY ThreadTableAssumption DEF SpareSlot
<1>2. 0 \in Slot /\ (Past # NoThread => 1 \in Slot) /\ \A s : s \in Slot <=> s \in Int /\ 0 <= s /\ s < N
  BY <1>1 DEF Slot
<1>3. \A s \in Slot :
        /\ Past = NoThread => (s \in Used <=> s = 0)
        /\ Past # NoThread => (s \in Used <=> s = 0 \/ s = 1)
  BY DEF Used
<1>4. \A s \in Slot :
        /\ th_vec[s].next = IF s \in Used THEN NULL
                            ELSE IF s = N - 1 THEN (IF Past = NoThread THEN NULL ELSE 1) ELSE s + 1
        /\ th_vec[s].prev = IF s # 0 /\ s \in Used THEN 0 ELSE NULL
        /\ th_vec[s].incarn = IF s \in Used THEN 0 ELSE Incarnations - 1
        /\ (th_vec[s].valid <=> s = 0) /\ th_vec[s].detached = FALSE
        /\ th_vec[s].exited = (s # 0 /\ s \in Used)
        /\ th_vec[s].tid = FirstUser(s) /\ th_vec[s].ctxt = IF s = 0 THEN Main ELSE NoThread
  <2> TAKE s \in Slot
  <2>1. s = N - 1 => s \notin Used
    BY <1>1, <1>3
  <2>2. th_vec[s] = [next |-> IF s \in Used THEN NULL
                              ELSE IF s = N - 1 THEN (IF Past = NoThread THEN NULL ELSE 1) ELSE s + 1,
                     prev |-> IF s # 0 /\ s \in Used THEN 0 ELSE NULL,
                     incarn |-> IF s \in Used THEN 0 ELSE Incarnations - 1,
                     valid |-> s = 0, detached |-> FALSE, exited |-> s # 0 /\ s \in Used,
                     tid |-> FirstUser(s),
                     ctxt |-> IF s = 0 THEN Main ELSE NoThread]
    BY <2>1 DEF Init
  <2>3. PICK nx, pv, in, vl, ex, ct :
          /\ nx = (IF s \in Used THEN NULL
                   ELSE IF s = N - 1 THEN (IF Past = NoThread THEN NULL ELSE 1) ELSE s + 1)
          /\ pv = (IF s # 0 /\ s \in Used THEN 0 ELSE NULL) /\ in = (IF s \in Used THEN 0 ELSE Incarnations - 1)
          /\ vl = (s = 0) /\ ex = (s # 0 /\ s \in Used) /\ ct = (IF s = 0 THEN Main ELSE NoThread)
    OBVIOUS
  <2>4. th_vec[s] = [next |-> nx, prev |-> pv, incarn |-> in, valid |-> vl, detached |-> FALSE,
                     exited |-> ex, tid |-> FirstUser(s), ctxt |-> ct]
    BY <2>2, <2>3, ZenonT(60)
  <2>5. /\ th_vec[s].next = nx /\ th_vec[s].prev = pv /\ th_vec[s].incarn = in /\ th_vec[s].valid = vl
        /\ th_vec[s].detached = FALSE /\ th_vec[s].exited = ex /\ th_vec[s].tid = FirstUser(s)
        /\ th_vec[s].ctxt = ct
    BY <2>4
  <2> QED BY <2>3, <2>5, ZenonT(60)
<1>5. /\ th_first_thread = 0 /\ th_first_free = (IF Past = NoThread THEN 1 ELSE 2)
      /\ th_last_free = (IF Past = NoThread THEN N - 1 ELSE 1)
  <2>1. Cardinality(Used) = IF Past = NoThread THEN 1 ELSE 2
    <3>1. CASE Past = NoThread
      BY <3>1, FS_Singleton DEF Used
    <3>2. CASE Past # NoThread
      <4>1. Used = {0} \cup {1} /\ 1 \notin {0}
        BY <3>2 DEF Used
      <4>2. IsFiniteSet({0}) /\ Cardinality({0}) = 1
        BY FS_Singleton
      <4>3. Cardinality({0} \cup {1}) = 2
        BY <4>1, <4>2, FS_AddElement
      <4> QED BY <3>2, <4>1, <4>3
    <3> QED BY <3>1, <3>2
  <2> QED BY <1>1, <2>1 DEF Init
<1>6. \A t \in Thread :
        /\ thr[t].os = (IF t = Main THEN "running" ELSE IF t = Past THEN "ended" ELSE "none")
        /\ thr[t].pj = (IF t = Past THEN "joined" ELSE "joinable")
        /\ thr[t].id = (IF t = Main THEN <<0, 0>> ELSE IF t = Past THEN <<1, 0>> ELSE <<NULL, 0>>)
        /\ req[t] = NoReq
  BY <1>1 DEF Init, FirstId
<1>7. Base /\ Types
  BY InitTyped DEF Base
<1>8. Lists /\ On(VThreads) = {0}
  <2>1. used \in Seq(Slot) /\ Len(used) = 1 /\ used[1] = 0
    BY <1>2
  <2>2. \A i \in 1 .. N - 1 : freeAt(i) \in Slot
    BY <1>1, <1>2
  <2>3. free \in Seq(Slot) /\ Len(free) = N - 1 /\ \A i \in 1 .. N - 1 : free[i] = freeAt(i)
    <3>1. free \in [1 .. N - 1 -> Slot] /\ N - 1 \in Nat
      BY <1>1, <2>2
    <3>2. \A i \in 1 .. N - 1 : free[i] = freeAt(i)
      OBVIOUS
    <3> HIDE DEF free
    <3> QED BY <3>1, <3>2
  <2> HIDE DEF used, free
  <2>4. Path(th_vec, th_first_thread, used)
    <3>1. th_vec[0].next = NULL
      BY <1>2, <1>3, <1>4
    <3> QED BY <1>5, <2>1, <3>1 DEF Path
  <2>5. Path(th_vec, th_first_free, free)
    <3>1. th_first_free = IF Len(free) = 0 THEN NULL ELSE free[1]
      BY <1>1, <1>5, <2>3
    <3>2. ASSUME NEW i \in 1 .. Len(free) PROVE th_vec[free[i]].next = IF i = Len(free) THEN NULL ELSE free[i + 1]
      <4>1. i \in 1 .. N - 1 /\ (i # Len(free) => i + 1 \in 1 .. N - 1)
        BY <1>1, <2>3
      <4>2. i \in Int /\ 1 <= i /\ i <= N - 1 /\ Len(free) = N - 1
        BY <2>3, <4>1
      <4>3. free[i] = freeAt(i) /\ (i # Len(free) => free[i + 1] = freeAt(i + 1)) /\ free[i] \in Slot
        BY <2>2, <2>3, <4>1
      <4>4. CASE Past = NoThread
        <5>1. free[i] = i /\ i \in Slot /\ (i # Len(free) => free[i + 1] = i + 1) /\ i \notin Used
          BY <1>3, <4>2, <4>3, <4>4
        <5> QED BY <1>4, <4>2, <4>4, <5>1
      <4>5. CASE Past # NoThread /\ i = N - 1
        <5>1. free[i] = 1 /\ 1 \in Slot /\ 1 \in Used
          BY <1>2, <1>3, <4>3, <4>5
        <5> QED BY <1>4, <4>2, <4>5, <5>1
      <4>6. CASE Past # NoThread /\ i # N - 1
        <5>1. free[i] = i + 1 /\ i + 1 \in Slot /\ free[i + 1] = IF i + 1 = N - 1 THEN 1 ELSE i + 2
          BY <4>2, <4>3, <4>6
        <5>2. i + 1 \notin Used
          BY <1>3, <4>2, <4>6, <5>1
        <5> QED BY <1>4, <4>2, <4>6, <5>1, <5>2
      <4> QED BY <4>4, <4>5, <4>6
    <3> QED BY <2>3, <3>1, <3>2 DEF Path
  <2>6. Prevs(th_vec, used)
    <3>1. th_vec[0].prev = NULL
      BY <1>2, <1>4
    <3> QED BY <2>1, <3>1 DEF Prevs
  <2>7. Apart(used, free)
    <3>1. Once(used) /\ Len(used) + Len(free) = MaxThreads
      BY <1>1, <2>1, <2>3 DEF Once
    <3>2. Once(free)
      BY <1>1, <2>3 DEF Once
    <3>3. \A i \in 1 .. Len(used) : \A j \in 1 .. Len(free) : used[i] # free[j]
      BY <1>1, <2>1, <2>3
    <3>4. Slot \subseteq On(used) \cup On(free)
      <4> SUFFICES ASSUME NEW s \in Slot PROVE s \in On(used) \cup On(free)
        OBVIOUS
      <4>1. CASE s = 0
        <5>1. 1 \in 1 .. Len(used)
          BY <2>1
        <5> QED BY <2>1, <4>1, <5>1, OnList
      <4>2. CASE s # 0
        <5> DEFINE j == IF Past = NoThread THEN s ELSE IF s = 1 THEN N - 1 ELSE s - 1
        <5>1. j \in 1 .. N - 1 /\ freeAt(j) = s
          BY <1>1, <1>2, <4>2
        <5>2. \E k \in 1 .. Len(free) : free[k] = s
          BY <2>3, <5>1
        <5> QED BY <2>3, <5>2, OnList
      <4> QED BY <4>1, <4>2
    <3> QED BY <3>1, <3>2, <3>3, <3>4 DEF Apart
  <2>8. Len(free) > 0 /\ free[Len(free)] = th_last_free
    <3>1. N - 1 \in 1 .. N - 1
      BY <1>1
    <3> QED BY <1>1, <1>5, <2>3, <3>1
  <2>9. ListsAre(th_vec, th_first_thread, th_first_free, th_last_free, used, free)
    BY <2>4, <2>5, <2>6, <2>7, <2>8 DEF ListsAre
  <2>10. Deleters = {}
    BY <1>6 DEF Deleters, DeleteStages, NoReq
  <2>12. VThreads = used /\ VFree = free
    <3>1. Linking(th_vec)
      BY <1>7, Typed DEF Types
    <3>2. Linked(Links, th_vec)
      BY DEF Linked, Links
    <3>3. ListsAre(th_vec, Links.first, Links.ff, Links.lf, used, free)
      BY <2>9 DEF Links
    <3>4. /\ ListFrom(LinkVec(Links), Links.first) = used /\ ListFrom(LinkVec(Links), Links.ff) = free
      BY <3>1, <3>2, <3>3, LinkedLists
    <3>5. View = Links
      BY <2>10 DEF View
    <3> QED BY <3>4, <3>5 DEF VThreads, VFree
  <2>13. ListsAre(LinkVec(View), View.first, View.ff, View.lf, VThreads, VFree)
    <3>1. \A r \in Slot : th_vec[r].next = LinkVec(View)[r].next /\ th_vec[r].prev = LinkVec(View)[r].prev
      BY <2>10 DEF View, LinkVec, Links
    <3>2. View.first = th_first_thread /\ View.ff = th_first_free /\ View.lf = th_last_free
      BY <2>10 DEF View, Links
    <3> QED BY <2>9, <2>12, <3>1, <3>2, ListsKept
  <2>11. On(used) = {0}
    <3>1. \A x : x \in On(used) <=> \E i \in 1 .. 1 : used[i] = x
      BY <2>1, OnList
    <3>2. \A i \in 1 .. 1 : i = 1
      OBVIOUS
    <3>3. 1 \in 1 .. 1
      OBVIOUS
    <3> QED BY <2>1, <3>1, <3>2, <3>3
  <2> QED BY <2>10, <2>11, <2>12, <2>13 DEF Lists
<1>9. \A d : ~Joined(d) /\ ~Detached(d)
  BY <1>6 DEF Joined, Detached, NoReq
<1>10. Owners
  <2>1. \A c \in Thread : Holds(c) => c = Main
    BY <1>6, <1>9 DEF Holds, Live
  <2>2. HolderOK(Main)
    <3>1. thr[Main].os = "running" /\ thr[Main].pj = "joinable" /\ thr[Main].id = <<0, 0>>
      BY <1>1, <1>6
    <3>2. SlotOf(Main) = 0 /\ thr[Main].id[2] = 0
      BY <3>1 DEF SlotOf
    <3>3. th_vec[0].incarn = 0 /\ th_vec[0].ctxt = Main /\ ~th_vec[0].exited /\ th_vec[0].valid
          /\ th_vec[0].detached = FALSE /\ th_vec[0].tid = Main
      <4>1. 0 \in Used /\ FirstUser(0) = Main
        BY DEF Used, FirstUser
      <4> QED BY <1>2, <1>4, <4>1
    <3> QED BY <1>8, <3>1, <3>2, <3>3 DEF HolderOK, Live
  <2> QED BY <2>1, <2>2 DEF Owners
<1>11. Tids
  <2> SUFFICES ASSUME NEW s \in Slot, NEW c \in Thread, FirstUser(s) = c
               PROVE  thr[c].os \notin {"none", "setup"} /\ SlotOf(c) = s
    BY <1>4 DEF Tids
  <2>1. (s = 0 /\ c = Main) \/ (s = 1 /\ c = Past /\ Past # NoThread)
    BY <1>1 DEF FirstUser
  <2> QED BY <1>1, <1>6, <2>1 DEF SlotOf
<1>12. Requests
  BY <1>6, <1>7 DEF Base, Requests, NoReq, Waits
<1>13. Ends
  BY <1>1, <1>2, <1>6 DEF Ends, SlotOf
<1>14. Mains
  BY <1>1, <1>6 DEF Mains
<1>15. Incarns
  <2>1. \A c \in Thread : SlotOf(c) \in Slot => (c = Main /\ SlotOf(c) = 0) \/ (c = Past /\ SlotOf(c) = 1)
    BY <1>1, <1>2, <1>6, Slots DEF SlotOf
  <2>2. \A c \in Thread : SlotOf(c) \in Slot => thr[c].id[2] = 0
    BY <1>1, <1>6, <2>1
  <2>3. th_vec[0].incarn = 0 /\ th_vec[0].tid = Main
    <3>1. 0 \in Used /\ FirstUser(0) = Main
      BY DEF Used, FirstUser
    <3> QED BY <1>2, <1>4, <3>1
  <2>4. ASSUME Past # NoThread PROVE th_vec[1].incarn = 0 /\ th_vec[1].tid = Past /\ 1 \in On(VFree)
    <3>1. 1 \in Used /\ FirstUser(1) = Past /\ 1 \in Slot
      BY <1>2, <2>4 DEF Used, FirstUser
    <3>2. 1 \in On(VThreads) \cup On(VFree)
      <4>1. PICK l, used2, free2 : l = View /\ used2 = VThreads /\ free2 = VFree
        OBVIOUS
      <4>2. ListsAre(LinkVec(l), l.first, l.ff, l.lf, used2, free2)
        BY <1>8, <4>1 DEF Lists
      <4>3. Apart(used2, free2)
        BY <4>2 DEF ListsAre
      <4> QED BY <3>1, <4>1, <4>3 DEF Apart
    <3> QED BY <1>4, <1>8, <3>1, <3>2
  <2>5. \A c \in Thread : SlotOf(c) \in Slot => thr[c].id[2] <= th_vec[SlotOf(c)].incarn
    BY <1>1, <2>1, <2>2, <2>3, <2>4
  <2>6. \A c, e \in Thread : SlotOf(c) \in Slot /\ thr[c].id = thr[e].id => c = e
    BY <2>1 DEF SlotOf
  <2>7. ASSUME NEW s \in Slot \ {0}
        PROVE  \/ th_vec[s].incarn = Incarnations - 1 /\ \A c \in Thread : SlotOf(c) # s
               \/ th_vec[s].incarn + 2 <= Cardinality(Created)
    <3>1. CASE Past # NoThread /\ s = 1
      <4>1. Created = {Main} \cup {Past} /\ Past \notin {Main}
        BY <1>1, <1>6, <3>1 DEF Created
      <4>2. Cardinality({Main}) = 1 /\ IsFiniteSet({Main})
        BY FS_Singleton
      <4>3. Cardinality({Main} \cup {Past}) = 1 + 1
        BY <4>1, <4>2, FS_AddElement
      <4> QED BY <2>4, <3>1, <4>1, <4>3
    <3>2. CASE ~(Past # NoThread /\ s = 1)
      <4>1. s \notin Used
        BY <1>3, <3>2
      <4>2. \A c \in Thread : SlotOf(c) # s
        BY <1>1, <2>1, <3>2
      <4> QED BY <1>4, <4>1, <4>2
    <3> QED BY <3>1, <3>2
  <2>8. ASSUME NEW c \in Thread, SlotOf(c) \in Slot
        PROVE  /\ Started(c) => th_vec[SlotOf(c)].tid = c
               /\ Holds(c) \/ SlotOf(c) \in On(VFree)
    <3>1. CASE c = Main /\ SlotOf(c) = 0
      BY <1>1, <1>6, <2>3, <3>1 DEF Holds, Live
    <3>2. CASE c = Past /\ SlotOf(c) = 1
      BY <1>1, <2>4, <3>2
    <3> QED BY <2>1, <2>8, <3>1, <3>2
  <2> QED BY <2>5, <2>6, <2>7, <2>8 DEF Incarns
<1> QED BY <1>7, <1>8, <1>10, <1>11, <1>12, <1>13, <1>14, <1>15 DEF IInv

\* A step that changes nothing.
LEMMA StutterStep ==
  ASSUME IInv, UNCHANGED vars
  PROVE  IInv' /\ VFree' = VFree
<1>1. UNCHANGED <<th_vec, th_first_free, th_last_free, th_first_thread>> /\ thr' = thr /\ req' = req
  BY DEF vars, table, heads
<1>2. \A d : (Joined(d)' <=> Joined(d)) /\ (Detached(d)' <=> Detached(d))
  BY <1>1 DEF Joined, Detached
<1>3. Types' /\ Tids' /\ Ends' /\ Mains'
  BY <1>1 DEF IInv, Types, Tids, Ends, Mains, SlotOf
<1>4. Lists' /\ VThreads' = VThreads /\ VFree' = VFree
  <2>1. Lists /\ \A s \in Slot : Same(th_vec'[s], th_vec[s])
    BY <1>1 DEF IInv, Same
  <2>2. DeletersStay
    BY <1>1 DEF DeletersStay
  <2> QED BY <1>1, <2>1, <2>2, KeptLists
<1>5. Owners'
  BY <1>1, <1>2, <1>4 DEF IInv, Owners, Holds, HolderOK, Live, SlotOf
<1>6. Requests'
  BY <1>1 DEF IInv, Requests, Creating, Started, SlotOf
<1> QED BY <1>3, <1>4, <1>5, <1>6 DEF IInv

\* Every other step.
LEMMA OtherSteps ==
  ASSUME IInv, ~disturbed', Next, \A t, c \in Thread : \A d \in BOOLEAN : ~xsb_thread_setup(t, c, d)
  PROVE  IInv' /\ Later
<1>1. ASSUME NEW t \in Thread, Step(t) PROVE IInv' /\ Later
  BY <1>1, PthreadCreateStep, PthreadCreateFailsStep, SetValidStep, RunStep, PthreadExitStep,
     DeleteBeginsStep, DeleteGoesOnStep, JoinCallStep, JoinReturnsStep, JoinDeleteStep, DetachCallStep, DetachFinishStep DEF Step
<1>2. ASSUME NEW t \in Thread, ThreadExit(t) PROVE IInv' /\ Later
  BY <1>2, ThreadExitStep
<1>3. ASSUME NEW t \in Thread, NEW id \in Ids, JoinLookup(t, id) \/ DetachLookup(t, id) PROVE IInv' /\ Later
  <2>1. PICK op \in {"join", "detach"} : Lookup(t, id, op)
    BY <1>3 DEF JoinLookup, DetachLookup
  <2> QED BY <2>1, LookupStep
<1> QED BY <1>1, <1>2, <1>3 DEF Next

\* Once disturbed, the table stays disturbed.
LEMMA StaysDisturbed ==
  ASSUME [Next]_vars, ~disturbed'
  PROVE  ~disturbed
<1>1. ASSUME NEW t \in Thread, NEW c \in Thread, NEW d \in BOOLEAN, xsb_thread_setup(t, c, d)
      PROVE  ~disturbed
  BY <1>1 DEF xsb_thread_setup, th_new
<1>2. ASSUME NEW t \in Thread, Step(t) PROVE ~disturbed
  BY <1>2 DEF Step, PthreadCreate, PthreadCreateFails, SetValid, xsb_thread_run, DeleteBegins, DeleteGoesOn,
     PthreadExit, JoinCall, JoinReturns, JoinDelete, DetachCall, DetachFinish, th_delete
<1>3. ASSUME NEW t \in Thread, ThreadExit(t) PROVE ~disturbed
  BY <1>3 DEF ThreadExit, th_delete
<1>4. ASSUME NEW t \in Thread, NEW id \in Ids, JoinLookup(t, id) \/ DetachLookup(t, id) PROVE ~disturbed
  BY <1>4 DEF JoinLookup, DetachLookup, Lookup
<1>5. CASE UNCHANGED vars
  BY <1>5 DEF vars
<1> QED BY <1>1, <1>2, <1>3, <1>4, <1>5 DEF Next

\* Until the table is disturbed the invariant holds.
Undisturbed == Base /\ (~disturbed => IInv)

LEMMA Invariance ==
  ASSUME SpareSlot
  PROVE  Spec => []Undisturbed
<1>1. Init => Undisturbed
  BY InitHolds, InitTyped DEF Undisturbed
<1>2. Undisturbed /\ [Next]_vars => Undisturbed'
  <2> SUFFICES ASSUME Undisturbed, [Next]_vars PROVE Undisturbed'
    OBVIOUS
  <2>1. Base'
    BY BaseKept DEF Undisturbed
  <2>2. ASSUME ~disturbed' PROVE IInv'
    <3>1. IInv
      BY <2>2, StaysDisturbed DEF Undisturbed
    <3> QED BY <2>2, <3>1, SetupStep, OtherSteps, StutterStep
  <2> QED BY <2>1, <2>2 DEF Undisturbed
<1> QED BY <1>1, <1>2, PTL DEF Spec

-----------------------------------------------------------------------------
(* Incarnations *)

\* No slot can be given to more threads than there are incarnations.
FewThreads == IsFiniteSet(Thread) /\ Cardinality(Thread) <= Incarnations + 1

LEMMA IncarnsLater ==
  ASSUME IInv, Incarns, IInv', Later
  PROVE  Incarns'
<1>0. /\ \A d \in Thread : thr[d].id \in IdTypes /\ thr'[d].id \in IdTypes
      /\ \A s \in Slot : th_vec'[s].incarn = th_vec[s].incarn
  BY DEF IInv, Types, ThrTypes, Later
<1>1. \A d \in Thread : SlotOf(d)' \in Slot =>
        /\ thr'[d].id = thr[d].id /\ SlotOf(d)' = SlotOf(d)
        /\ Holds(d) => Holds(d)' \/ SlotOf(d) \in On(VFree)'
        /\ Started(d)' => Started(d) \/ th_vec'[SlotOf(d)].tid = d
  BY Slots DEF Later, SlotOf
<1>2. Created' = Created
  BY DEF Created, Later
<1>3. \A c \in Thread : SlotOf(c)' \in Slot => thr'[c].id[2] <= th_vec'[SlotOf(c)'].incarn
  BY <1>0, <1>1 DEF Incarns
<1>4. \A c, d \in Thread : SlotOf(c)' \in Slot /\ thr'[c].id = thr'[d].id => c = d
  <2> SUFFICES ASSUME NEW c \in Thread, NEW d \in Thread, SlotOf(c)' \in Slot, thr'[c].id = thr'[d].id
               PROVE  c = d
    OBVIOUS
  <2>1. SlotOf(d)' \in Slot
    BY DEF SlotOf
  <2>2. thr[c].id = thr[d].id /\ SlotOf(c) \in Slot
    BY <1>1, <2>1
  <2> QED BY <2>2 DEF Incarns
<1>5. ASSUME NEW s \in Slot \ {0}
      PROVE  \/ th_vec'[s].incarn = Incarnations - 1 /\ \A c \in Thread : SlotOf(c)' # s
             \/ th_vec'[s].incarn + 2 <= Cardinality(Created')
  <2>1. \A c \in Thread : SlotOf(c)' = s => SlotOf(c) = s
    BY <1>1
  <2>2. \/ th_vec[s].incarn = Incarnations - 1 /\ \A c \in Thread : SlotOf(c) # s
        \/ th_vec[s].incarn + 2 <= Cardinality(Created)
    BY DEF Incarns
  <2> QED BY <1>0, <1>2, <2>1, <2>2
<1>6. ASSUME NEW c \in Thread, SlotOf(c)' \in Slot, thr'[c].id[2] = th_vec'[SlotOf(c)'].incarn
      PROVE  /\ Started(c)' => th_vec'[SlotOf(c)'].tid = c
             /\ Holds(c)' \/ SlotOf(c)' \in On(VFree)'
  <2>1. PICK s \in Slot : s = SlotOf(c)'
    BY <1>6
  <2>2. thr'[c].id = thr[c].id /\ SlotOf(c) = s /\ thr[c].id[2] = th_vec[s].incarn
    BY <1>0, <1>1, <1>6, <2>1
  <2>3. (Started(c) => th_vec[s].tid = c) /\ (Holds(c) \/ s \in On(VFree))
    BY <2>2 DEF Incarns
  <2>4. Holds(c)' \/ s \in On(VFree)'
    BY <1>1, <1>6, <2>2, <2>3 DEF Later
  <2>5. ASSUME Started(c)' PROVE th_vec'[s].tid = c
    <3>1. Started(c) \/ th_vec'[s].tid = c
      BY <1>1, <1>6, <2>2, <2>5
    <3>2. CASE th_vec'[s].tid = th_vec[s].tid
      BY <2>3, <3>1, <3>2
    <3>3. CASE \E d \in Thread : th_vec'[s].tid = d /\ SlotOf(d) = s /\ th_vec[s].incarn = thr[d].id[2]
      <4>1. PICK d \in Thread : th_vec'[s].tid = d /\ SlotOf(d) = s /\ th_vec[s].incarn = thr[d].id[2]
        BY <3>3
      <4>2. thr[d].id = thr[c].id
        BY <1>0, <2>2, <4>1 DEF IdTypes, SlotOf
      <4>3. d = c
        BY <2>2, <4>1, <4>2 DEF Incarns
      <4> QED BY <4>1, <4>3
    <3> QED BY <3>2, <3>3 DEF Later
  <2> QED BY <2>1, <2>4, <2>5
<1> QED BY <1>3, <1>4, <1>5, <1>6 DEF Incarns

LEMMA IncarnsSetup ==
  ASSUME FewThreads, SpareSlot, ~disturbed', IInv, Incarns,
         NEW t \in Thread, NEW c \in Thread, NEW d \in BOOLEAN, xsb_thread_setup(t, c, d)
  PROVE  Incarns'
<1>1. /\ IInv' /\ Taken(c, d) /\ thr[c].os = "none" /\ thr'[c].os = "setup"
      /\ thr'[c].id = <<th_first_free, th_vec'[th_first_free].incarn>>
      /\ \A e \in Thread : e # c => thr'[e] = thr[e] /\ (Holds(e)' <=> Holds(e))
  BY SetupStep
<1>2. PICK pos \in Slot : pos = th_first_free
  BY <1>1 DEF Taken
<1>3. /\ pos \in On(VFree) /\ On(VFree)' = On(VFree) \ {pos}
      /\ \A s \in Slot : s # pos => Kept(s)
      /\ th_vec'[pos].incarn = NextIncarn(th_vec[pos].incarn) /\ th_vec'[pos].tid = th_vec[pos].tid
  BY <1>1, <1>2 DEF Taken
<1>4. thr'[c].id[1] = pos /\ thr'[c].id[2] = th_vec'[pos].incarn /\ SlotOf(c)' = pos
  BY <1>1, <1>2 DEF SlotOf
<1>5. pos # 0 /\ Main \in Thread /\ c # Main
  <2>1. Main \in Thread /\ SlotOf(Main) = 0 /\ thr[Main].os = "running"
    BY ThreadTableAssumption DEF IInv, Mains, SlotOf
  <2>2. 0 \in On(VThreads)
    BY <2>1, Holder DEF Holds, Live
  <2> QED BY <1>1, <1>3, <2>1, <2>2, ListSlots DEF IInv
<1>6. /\ Created' = Created \cup {c} /\ c \notin Created /\ Main \in Created
      /\ IsFiniteSet(Created) /\ Cardinality(Created') = Cardinality(Created) + 1
      /\ Cardinality(Created) \in Nat /\ Cardinality(Created) > 0 /\ Cardinality(Created) <= Incarnations
  <2>1. Created' = Created \cup {c} /\ c \notin Created
    BY <1>1 DEF Created
  <2>2. Main \in Created
    BY <1>5 DEF IInv, Mains, Created
  <2>3. IsFiniteSet(Created) /\ Created \in SUBSET Thread
    <3>1. Created \in SUBSET Thread
      BY DEF Created
    <3> QED BY <3>1, FS_Subset DEF FewThreads
  <2>4. Cardinality(Created \cup {c}) = Cardinality(Created) + 1
    BY <2>1, <2>3, FS_AddElement
  <2>5. Cardinality(Created) \in Nat /\ Cardinality(Created) # 0
    BY <2>2, <2>3, FS_CardinalityType, FS_EmptySet
  <2>6. Created \cup {c} \in SUBSET Thread
    BY <2>3
  <2>7. Cardinality(Created \cup {c}) <= Cardinality(Thread)
    BY <2>6, FS_Subset DEF FewThreads
  <2>8. Cardinality(Thread) \in Nat /\ Cardinality(Thread) <= Incarnations + 1 /\ Incarnations \in Nat
    BY FS_CardinalityType, ThreadTableAssumption DEF FewThreads
  <2> QED BY <2>1, <2>2, <2>3, <2>4, <2>5, <2>7, <2>8
<1>7. /\ \A e \in Thread : e # c /\ SlotOf(e) = pos => thr[e].id[2] < th_vec'[pos].incarn
      /\ th_vec'[pos].incarn + 2 <= Cardinality(Created')
  <2>1. th_vec[pos] \in VecTypes
    BY DEF IInv, Types
  <2>2. th_vec[pos].incarn \in 0..(Incarnations - 1) /\ Incarnations \in Nat /\ Incarnations > 0
    BY <2>1, ThreadTableAssumption DEF VecTypes
  <2>3. CASE th_vec[pos].incarn = Incarnations - 1 /\ \A e \in Thread : SlotOf(e) # pos
    <3>1. th_vec'[pos].incarn = 0
      BY <1>3, <2>2, <2>3 DEF NextIncarn
    <3> QED BY <1>6, <2>3, <3>1
  <2>4. CASE th_vec[pos].incarn + 2 <= Cardinality(Created)
    <3>1. th_vec'[pos].incarn = th_vec[pos].incarn + 1
      BY <1>3, <1>6, <2>2, <2>4 DEF NextIncarn
    <3>2. \A e \in Thread : SlotOf(e) = pos => thr[e].id[2] <= th_vec[pos].incarn
      BY DEF Incarns
    <3>3. \A e \in Thread : thr[e].id[2] \in Int
      BY DEF IInv, Types, ThrTypes, IdTypes
    <3> QED BY <1>6, <2>2, <2>4, <3>1, <3>2, <3>3
  <2> QED BY <1>5, <2>3, <2>4 DEF Incarns
<1>8. \A e \in Thread : e # c => SlotOf(e)' = SlotOf(e) /\ thr'[e].id = thr[e].id /\ Started(e)' = Started(e)
  BY <1>1 DEF SlotOf, Started
<1>9. \A e \in Thread : thr[e].id \in IdTypes /\ thr[e].id[2] \in Int
  BY DEF IInv, Types, ThrTypes, IdTypes
<1>10. th_vec'[pos].incarn \in Int
  <2>1. th_vec'[pos] \in VecTypes
    BY <1>1 DEF IInv, Types
  <2> QED BY <2>1 DEF VecTypes
<1>11. ASSUME NEW e \in Thread, SlotOf(e)' \in Slot PROVE thr'[e].id[2] <= th_vec'[SlotOf(e)'].incarn
  <2>1. PICK s \in Slot : s = SlotOf(e)'
    BY <1>11
  <2>2. CASE e = c
    <3>1. s = pos /\ thr'[e].id[2] = th_vec'[pos].incarn
      BY <1>4, <2>1, <2>2 DEF SlotOf
    <3>2. thr'[e].id[2] <= th_vec'[s].incarn
      <4>1. \A n \in Int : n <= n
        OBVIOUS
      <4> QED BY <1>10, <3>1, <4>1
    <3> QED BY <2>1, <3>2
  <2>3. CASE e # c /\ s = pos
    <3>1. SlotOf(e) = pos /\ thr'[e].id = thr[e].id
      BY <1>8, <2>1, <2>3
    <3>2. thr[e].id[2] < th_vec'[pos].incarn
      BY <1>7, <2>3, <3>1
    <3>3. thr'[e].id[2] <= th_vec'[s].incarn
      BY <1>9, <1>10, <2>3, <3>1, <3>2
    <3> QED BY <2>1, <3>3
  <2>4. CASE e # c /\ s # pos
    <3>1. th_vec'[s].incarn = th_vec[s].incarn
      BY <1>3, <2>4 DEF Kept
    <3>2. SlotOf(e) = s /\ thr'[e].id = thr[e].id
      BY <1>8, <2>1, <2>4
    <3> QED BY <2>1, <3>1, <3>2 DEF Incarns
  <2> QED BY <2>2, <2>3, <2>4
<1>12. ASSUME NEW e \in Thread, NEW f \in Thread, SlotOf(e)' \in Slot, thr'[e].id = thr'[f].id PROVE e = f
  <2>1. \A g \in Thread : g # c => thr'[g].id # thr'[c].id
    <3> SUFFICES ASSUME NEW g \in Thread, g # c, thr'[g].id = thr'[c].id PROVE FALSE
      OBVIOUS
    <3>1. SlotOf(g) = pos /\ thr[g].id[2] = th_vec'[pos].incarn
      BY <1>4, <1>8 DEF SlotOf
    <3> QED BY <1>7, <1>10, <3>1
  <2>2. CASE e # c /\ f # c
    BY <1>8, <1>12, <2>2 DEF Incarns
  <2> QED BY <1>12, <2>1, <2>2
<1>13. ASSUME NEW s \in Slot \ {0}
       PROVE  \/ th_vec'[s].incarn = Incarnations - 1 /\ \A e \in Thread : SlotOf(e)' # s
              \/ th_vec'[s].incarn + 2 <= Cardinality(Created')
  <2>1. CASE s = pos
    BY <1>7, <2>1
  <2>2. CASE s # pos
    <3>1. th_vec'[s].incarn = th_vec[s].incarn /\ th_vec[s].incarn \in Int
      <4>1. th_vec[s] \in VecTypes
        BY DEF IInv, Types
      <4> QED BY <1>3, <2>2, <4>1 DEF Kept, VecTypes
    <3>2. \A e \in Thread : SlotOf(e)' = s => SlotOf(e) = s
      BY <1>4, <1>8, <2>2
    <3>3. \/ th_vec[s].incarn = Incarnations - 1 /\ \A e \in Thread : SlotOf(e) # s
          \/ th_vec[s].incarn + 2 <= Cardinality(Created)
      BY DEF Incarns
    <3> QED BY <1>6, <3>1, <3>2, <3>3
  <2> QED BY <2>1, <2>2
<1>14. ASSUME NEW e \in Thread, SlotOf(e)' \in Slot, thr'[e].id[2] = th_vec'[SlotOf(e)'].incarn
       PROVE  /\ Started(e)' => th_vec'[SlotOf(e)'].tid = e
              /\ Holds(e)' \/ SlotOf(e)' \in On(VFree)'
  <2>1. CASE e = c
    BY <1>1, <2>1 DEF Started, Holds, Live
  <2>2. CASE e # c
    <3>1. PICK s \in Slot : s = SlotOf(e)'
      BY <1>14
    <3>2. SlotOf(e) = s /\ thr'[e].id = thr[e].id
      BY <1>8, <2>2, <3>1
    <3>3. s # pos
      BY <1>7, <1>9, <1>10, <1>14, <2>2, <3>1, <3>2
    <3>4. th_vec'[s].incarn = th_vec[s].incarn /\ th_vec'[s].tid = th_vec[s].tid
      BY <1>3, <3>3 DEF Kept
    <3>5. (Started(e) => th_vec[s].tid = e) /\ (Holds(e) \/ s \in On(VFree))
      BY <1>14, <3>1, <3>2, <3>4 DEF Incarns
    <3> QED BY <1>1, <1>3, <1>8, <2>2, <3>1, <3>3, <3>4, <3>5
  <2> QED BY <2>1, <2>2
<1> QED BY <1>11, <1>12, <1>13, <1>14 DEF Incarns

LEMMA IncarnsStutter ==
  ASSUME IInv, Incarns, UNCHANGED vars
  PROVE  Incarns'
<1>1. UNCHANGED <<th_vec, th_first_free, th_last_free, th_first_thread>> /\ thr' = thr /\ req' = req
  BY DEF vars, table, heads
<1>2. \A d : (Joined(d)' <=> Joined(d)) /\ (Detached(d)' <=> Detached(d))
  BY <1>1 DEF Joined, Detached
<1>3. VFree' = VFree /\ Created' = Created
  BY <1>1, StutterStep DEF Created
<1>4. \A d : (Holds(d)' <=> Holds(d)) /\ (Started(d)' <=> Started(d)) /\ SlotOf(d)' = SlotOf(d)
  BY <1>1, <1>2 DEF Holds, Live, Started, SlotOf
<1> QED BY <1>1, <1>3, <1>4 DEF Incarns

LEMMA IncarnsInvariance ==
  ASSUME SpareSlot, FewThreads
  PROVE  Spec => [](~disturbed => IInv /\ Incarns)
<1>1. Init => IInv /\ Incarns
  BY InitHolds
<1>2. (~disturbed => IInv /\ Incarns) /\ [Next]_vars => (~disturbed' => IInv' /\ Incarns')
  <2> SUFFICES ASSUME ~disturbed => IInv /\ Incarns, [Next]_vars, ~disturbed' PROVE IInv' /\ Incarns'
    OBVIOUS
  <2>0. IInv /\ Incarns
    BY StaysDisturbed
  <2>1. ASSUME NEW t \in Thread, NEW c \in Thread, NEW d \in BOOLEAN, xsb_thread_setup(t, c, d)
        PROVE  IInv' /\ Incarns'
    BY <2>0, <2>1, SetupStep, IncarnsSetup
  <2>2. CASE Next /\ \A t, c \in Thread : \A d \in BOOLEAN : ~xsb_thread_setup(t, c, d)
    BY <2>0, <2>2, OtherSteps, IncarnsLater
  <2>3. CASE UNCHANGED vars
    BY <2>0, <2>3, StutterStep, IncarnsStutter
  <2> QED BY <2>1, <2>2, <2>3
<1> QED BY <1>1, <1>2, PTL DEF Spec

-----------------------------------------------------------------------------
(* The properties *)

\* Whatever happens to the table, slots, ids and links keep their types: the head and the
\* tail of the lists, next_entry and prev_entry are slots or NULL, an incarnation is below
\* Incarnations (th_new), and pthread_t fields are threads or none.
THEOREM TypeCorrect == Spec => []TypeOK
<1>1. Init => Base
  BY InitTyped
<1>2. Base /\ [Next]_vars => Base'
  BY BaseKept
<1>3. Base => TypeOK
  <2> SUFFICES ASSUME Types PROVE TypeOK
    BY DEF Base
  <2>1. \A s \in Slot : th_vec[s] \in VecTypes
    BY DEF Types
  <2>2. \A t \in Thread : thr[t] \in ThrTypes
    BY DEF Types
  <2>3. \A s \in Slot : /\ th_vec[s].next \in Slot \cup {NULL} /\ th_vec[s].prev \in Slot \cup {NULL}
                        /\ th_vec[s].incarn \in 0..(Incarnations - 1)
                        /\ th_vec[s].tid \in Thread \cup {NoThread}
    BY <2>1 DEF VecTypes
  <2>4. \A t \in Thread : thr[t].id \in (Slot \cup {NULL}) \X (0..(Incarnations - 1))
    BY <2>2 DEF ThrTypes, IdTypes
  <2>5. {th_first_free, th_last_free, th_first_thread} \subseteq Slot \cup {NULL}
    BY DEF Types
  <2> QED BY <2>3, <2>4, <2>5 DEF TypeOK
<1> QED BY <1>1, <1>2, <1>3, PTL DEF Spec

\* The list of threads and the list of free slots share next_entry: until the table is
\* disturbed th_new and th_delete, also the one without th_mutex, leave every slot on
\* exactly one of them, once, and prev_entry mirrors next_entry.
THEOREM ListsKeepSlots ==
  ASSUME SpareSlot
  PROVE  Spec => []SlotsOnOneList
<1>1. Undisturbed => SlotsOnOneList
  <2> SUFFICES ASSUME IInv, ~InDelete PROVE SlotsOnOneList
    BY DEF Undisturbed, SlotsOnOneList
  <2>1. PICK used, free : used = VThreads /\ free = VFree
    OBVIOUS
  <2>2. /\ ListsAre(th_vec, th_first_thread, th_first_free, th_last_free, used, free)
        /\ Threads = used /\ FreeSlots = free
    BY <2>1, NoDeleters, Between DEF IInv
  <2>3. used \in Seq(Slot) /\ free \in Seq(Slot) /\ Len(used) + Len(free) = MaxThreads
        /\ free[Len(free)] = th_last_free
    BY <2>2 DEF ListsAre, Path, Apart
  <2>4. On(used) \cup On(free) = Slot
    <3>1. On(used) \subseteq Slot /\ On(free) \subseteq Slot
      BY <2>1, ListSlots DEF IInv
    <3> QED BY <2>2, <3>1 DEF ListsAre, Apart
  <2>5. \A i \in DOMAIN used : th_vec[used[i]].prev = IF i = 1 THEN NULL ELSE used[i - 1]
    BY <2>2, <2>3 DEF ListsAre, Prevs
  <2> QED BY <2>2, <2>3, <2>4, <2>5 DEF SlotsOnOneList
<1> QED BY <1>1, Invariance, PTL

\* Until the table is disturbed nobody is given, and nobody frees, the slot of a thread that
\* has not exited.
THEOREM SlotsKept ==
  ASSUME SpareSlot
  PROVE  Spec => []LiveThreadsKeepSlot
<1>1. Undisturbed => LiveThreadsKeepSlot
  <2> SUFFICES ASSUME IInv, NEW t \in Thread, Live(t)
               PROVE  /\ th_vec[SlotOf(t)].incarn = thr[t].id[2] /\ th_vec[SlotOf(t)].ctxt = t
                      /\ InDelete \/ SlotOf(t) \in On(Threads)
    BY DEF Undisturbed, LiveThreadsKeepSlot, Live, SlotOf
  <2>1. SlotOf(t) \in On(VThreads) /\ HolderOK(t)
    BY Holder DEF Holds
  <2>2. ASSUME ~InDelete PROVE Threads = VThreads
    BY <2>2, NoDeleters, Between DEF IInv
  <2> QED BY <2>1, <2>2 DEF HolderOK
<1> QED BY <1>1, Invariance, PTL

\* Until the table is disturbed a thread that has exited and is neither joined nor detached
\* is found under its id (XSB_THREAD_JOIN).
THEOREM ExitedWait ==
  ASSUME SpareSlot
  PROVE  Spec => []JoinableWaits
<1>1. Undisturbed => JoinableWaits
  <2> SUFFICES ASSUME IInv, NEW t \in Thread, thr[t].os = "ended", thr[t].pj \in {"joinable", "joining"}
               PROVE  th_get(thr[t].id) = t
    BY DEF Undisturbed, JoinableWaits
  <2>1. Holds(t)
    BY DEF Holds
  <2> QED BY <2>1, Holder DEF HolderOK, SlotOf, th_get
<1> QED BY <1>1, Invariance, PTL

\* Until the table is disturbed the slot of a detached thread that has ended is free or has
\* been given to another thread, whichever of exit and detach came second (th_delete in
\* both), as long as incarnations do not repeat.
THEOREM DetachedFreed ==
  ASSUME SpareSlot, FewThreads
  PROVE  Spec => []DetachedReclaimed
<1>1. (~disturbed => IInv /\ Incarns) => DetachedReclaimed
  <2> SUFFICES ASSUME IInv, Incarns, ~InDelete,
                      NEW t \in Thread, thr[t].os = "ended", thr[t].pj = "detached",
                      \A u \in Thread : req[u].at = "detached" => req[u].id # thr[t].id,
                      th_vec[SlotOf(t)].incarn = thr[t].id[2]
               PROVE  SlotOf(t) \in On(FreeSlots)
    BY DEF DetachedReclaimed, SlotOf
  <2>1. SlotOf(t) \in Slot
    BY DEF IInv, Ends
  <2>2. ~Holds(t)
    <3>1. ~Joined(t) /\ ~Detached(t)
      BY DEF IInv, Requests, Joined, Detached
    <3> QED BY <3>1 DEF Holds, Live
  <2>3. FreeSlots = VFree
    BY NoDeleters, Between DEF IInv
  <2> QED BY <2>1, <2>2, <2>3 DEF Incarns
<1> QED BY <1>1, IncarnsInvariance, PTL

\* Until the table is disturbed th_get never takes the id of one thread for another thread,
\* as long as incarnations do not repeat.
THEOREM IdsFind ==
  ASSUME SpareSlot, FewThreads
  PROVE  Spec => []IdsNotConfused
<1>1. (~disturbed => IInv /\ Incarns) => IdsNotConfused
  <2> SUFFICES ASSUME IInv, Incarns, NEW t \in Thread, thr[t].os \notin {"none", "setup"}, SlotOf(t) # NULL,
                      th_vec[SlotOf(t)].incarn = thr[t].id[2]
               PROVE  th_vec[SlotOf(t)].tid = t
    BY DEF IdsNotConfused, SlotOf, th_get
  <2>1. SlotOf(t) \in Slot
    BY DEF IInv, Types, ThrTypes, IdTypes, SlotOf
  <2> QED BY <2>1 DEF Incarns, Started
<1> QED BY <1>1, IncarnsInvariance, PTL
=============================================================================
