--------------------------- MODULE LocalEvalProofs ---------------------------
(***************************************************************************)
(* Proofs about LocalEval, for every program: type correctness, soundness  *)
(* of the tables, of the levels and of the lists of consumers.             *)
(*                                                                         *)
(* The invariant IInv relates the completion stack, the choice points and  *)
(* the subgoal frames: the generators of the frames lie on the choice      *)
(* point stack in the order of the frames (Frames), no leader stands       *)
(* between a consumer and its producer (Levels), backtracking passes no    *)
(* generator that still has clauses or a check_complete to run (Chains),   *)
(* and the lookup fields lead through consumers of one subgoal to an end   *)
(* (ListsOK).                                                              *)
(***************************************************************************)
EXTENDS LocalEval, Induction, SequenceTheorems

-----------------------------------------------------------------------------
(* The program. *)

\* The clauses of a subgoal or of the query, their calls and their answers.
LEMMA ClauseType ==
  ASSUME NEW p \in Programs, NEW s \in Subgoal \cup {Query}
  PROVE  /\ p.clauses[s] \in Seq(DOMAIN Calls) /\ p.clauses[s] # <<>>
         /\ \A c \in Range(p.clauses[s]) : c \in DOMAIN Calls /\ Calls[c] \in Seq(Subgoal)
<1>1. s \in DOMAIN p.clauses
  BY ProgramAssumption
<1>2. p.clauses[s] \in Seq(DOMAIN Calls) /\ p.clauses[s] # <<>>
  BY <1>1, ProgramAssumption
<1>3. Range(p.clauses[s]) \subseteq DOMAIN Calls
  BY <1>2 DEF Range
<1> QED BY <1>2, <1>3, ProgramAssumption

\* The least model is closed under the clauses of the program.
LEMMA LeastModelClosed ==
  ASSUME NEW p \in Programs, NEW s \in Subgoal, NEW c \in Range(p.clauses[s]),
         NEW t \in DOMAIN Derive[c], BodyHolds(c, t, Models[p])
  PROVE  <<s, Derive[c][t]>> \in Models[p]
<1> DEFINE heads == UNION {UNION {{<<r, Derive[d][u]>> : u \in DOMAIN Derive[d]} :
                                    d \in Range(p.clauses[r])} : r \in Subgoal}
           models == {M \in SUBSET heads :
                        \A r \in Subgoal : \A d \in Range(p.clauses[r]) :
                          \A u \in DOMAIN Derive[d] :
                            BodyHolds(d, u, M) => <<r, Derive[d][u]>> \in M}
<1>1. Models[p] = {a \in heads : \A M \in models : a \in M}
  BY DEF Models, LeastModel
<1>2. <<s, Derive[c][t]>> \in heads
  OBVIOUS
<1>3. ASSUME NEW M \in models PROVE <<s, Derive[c][t]>> \in M
  <2>1. BodyHolds(c, t, M)
    BY <1>1 DEF BodyHolds
  <2> QED BY <2>1
<1> QED BY <1>1, <1>2, <1>3

-----------------------------------------------------------------------------
(* The lists of consumers. *)

\* The consumers of a subgoal.
Consumers(s) == {c \in DOMAIN cps : cps[c].pc = "answer_return" /\ cps[c].sg = s}

\* What a lookup field may hold.
Linkable(c) == {0} \cup (IF cps[c].pc = "answer_return" THEN Consumers(cps[c].sg) ELSE {})

\* f holds lookup fields that only lead to choice points of a lower rank.
LookupFields == {f \in [DOMAIN cps -> {0} \cup DOMAIN cps] : \A c \in DOMAIN cps : f[c] \in Linkable(c)}
Ranked(f, rank) == \A c \in DOMAIN cps : f[c] # 0 => rank[f[c]] < rank[c]

\* The lists of consumers hold the right choice points, and have an end.
ListsOK ==
  /\ \A s \in Subgoal : table[s].pos_cons \in {0} \cup Consumers(s)
  /\ Lookups \in LookupFields
  /\ \E N \in Nat : \E rank \in [DOMAIN cps -> 1 .. N] : Ranked(Lookups, rank)

\* l is what is left of the list of a subgoal from c on.
ListFrom(l, c, s, rank) ==
  /\ l \in Seq(Consumers(s))
  /\ IF c = 0 THEN l = <<>> ELSE l # <<>> /\ l[1] = c
  /\ \A j \in 1 .. Len(l) : cps[l[j]].lookup = IF j = Len(l) THEN 0 ELSE l[j + 1]
  /\ \A i, j \in 1 .. Len(l) : i < j => rank[l[j]] < rank[l[i]]

\* One more element in front.
LEMMA ListLonger ==
  ASSUME NEW s, NEW c \in Consumers(s), NEW rank \in [DOMAIN cps -> Nat], Len(cps) \in Nat,
         Ranked(Lookups, rank), NEW l, ListFrom(l, cps[c].lookup, s, rank)
  PROVE  ListFrom(<<c>> \o l, c, s, rank)
<1> DEFINE m == <<c>> \o l
           C == Consumers(s)
<1>1. c \in DOMAIN cps /\ C \subseteq DOMAIN cps
  BY DEF Consumers
<1>2. l \in Seq(C) /\ Len(l) \in Nat
  BY DEF ListFrom
<1>3. /\ m \in Seq(C) /\ Len(m) = Len(l) + 1 /\ m[1] = c
      /\ \A j \in 1 .. Len(l) : m[j + 1] = l[j]
  <2>0. c \in C
    OBVIOUS
  <2> HIDE DEF C
  <2>1. <<c>> \in Seq(C) /\ Len(<<c>>) = 1 /\ <<c>>[1] = c
    BY <2>0
  <2> QED BY <1>2, <2>1, ConcatProperties
<1>4. cps[c].lookup # 0 => rank[cps[c].lookup] < rank[c]
  BY <1>1 DEF Ranked, Lookups
<1> HIDE DEF m, C
<1>5. ASSUME NEW j \in 1 .. Len(m) PROVE cps[m[j]].lookup = IF j = Len(m) THEN 0 ELSE m[j + 1]
  <2>1. CASE j = 1
    <3>1. CASE cps[c].lookup = 0
      <4>1. l = <<>>
        BY <3>1 DEF ListFrom
      <4> QED BY <1>3, <2>1, <3>1, <4>1
    <3>2. CASE cps[c].lookup # 0
      <4>1. l # <<>> /\ l[1] = cps[c].lookup
        BY <3>2 DEF ListFrom
      <4>2. Len(l) >= 1
        BY <1>2, <4>1
      <4> QED BY <1>2, <1>3, <2>1, <4>1, <4>2
    <3> QED BY <3>1, <3>2
  <2>2. CASE j # 1
    <3>1. j - 1 \in 1 .. Len(l) /\ m[j] = l[j - 1]
      BY <1>2, <1>3, <2>2
    <3>2. CASE j = Len(m)
      <4>1. j - 1 = Len(l)
        BY <1>2, <1>3, <3>2
      <4> QED BY <3>1, <3>2, <4>1 DEF ListFrom
    <3>3. CASE j # Len(m)
      <4>1. j \in 1 .. Len(l) /\ j - 1 # Len(l) /\ j - 1 + 1 = j
        BY <1>2, <1>3, <3>3
      <4>2. m[j + 1] = l[j] /\ cps[l[j - 1]].lookup = l[j]
        BY <1>3, <3>1, <4>1 DEF ListFrom
      <4> QED BY <3>1, <3>3, <4>2
    <3> QED BY <3>2, <3>3
  <2> QED BY <2>1, <2>2
<1>6. ASSUME NEW i \in 1 .. Len(m), NEW j \in 1 .. Len(m), i < j PROVE rank[m[j]] < rank[m[i]]
  <2>1. j - 1 \in 1 .. Len(l) /\ m[j] = l[j - 1]
    BY <1>2, <1>3, <1>6
  <2>2. CASE i = 1
    <3>1. l # <<>> /\ Len(l) >= 1
      BY <1>2, <2>1
    <3>2. l[1] = cps[c].lookup /\ cps[c].lookup # 0
      BY <3>1 DEF ListFrom
    <3>3. j - 1 # 1 => rank[l[j - 1]] < rank[l[1]]
      BY <2>1, <3>1 DEF ListFrom
    <3>4. {l[1], l[j - 1], c} \subseteq DOMAIN cps
      BY <1>1, <1>2, <2>1, <3>1
    <3>5. {rank[l[1]], rank[l[j - 1]], rank[c]} \subseteq Nat
      BY <3>4
    <3> QED BY <1>3, <1>4, <2>1, <2>2, <3>2, <3>3, <3>5
  <2>3. CASE i # 1
    <3>1. i - 1 \in 1 .. Len(l) /\ m[i] = l[i - 1] /\ i - 1 < j - 1
      BY <1>2, <1>3, <1>6, <2>3
    <3> QED BY <2>1, <3>1 DEF ListFrom
  <2> QED BY <2>2, <2>3
<1>7. m # <<>>
  BY <1>2, <1>3
<1>8. c # 0
  BY <1>1
<1> QED BY <1>3, <1>5, <1>6, <1>7, <1>8 DEF ListFrom, m, C

\* ConsumerList(s) is the list of s.
LEMMA ConsumerListFrom ==
  ASSUME ListsOK, Len(cps) \in Nat, DOMAIN cps = 1 .. Len(cps), NEW s \in Subgoal,
         NEW N \in Nat, NEW rank \in [DOMAIN cps -> 1 .. N], Ranked(Lookups, rank)
  PROVE  ListFrom(ConsumerList(s), table[s].pos_cons, s, rank)
<1> DEFINE C == Consumers(s)
           D == 0 .. Len(cps)
           next == [c \in D |-> IF c = 0 THEN 0 ELSE cps[c].lookup]
           rank0 == [c \in D |-> IF c = 0 THEN 0 ELSE rank[c]]
           step == [c \in D |-> [l \in Seq(D) |-> <<c>> \o l]]
           L == CHOOSE L : L = [c \in D |-> IF c = 0 THEN <<>> ELSE <<c>> \o L[cps[c].lookup]]
<1>1. ConsumerList(s) = L[table[s].pos_cons]
  BY DEF ConsumerList
<1>2. next \in [D -> D] /\ \A c \in D : c # 0 => next[c] = cps[c].lookup
  <2>1. \A c \in DOMAIN cps : cps[c].lookup \in {0} \cup DOMAIN cps
    BY DEF ListsOK, LookupFields, Lookups
  <2>2. {0} \cup DOMAIN cps = D
    OBVIOUS
  <2> QED BY <2>1, <2>2
<1>3. PICK f \in [D -> Seq(D)] : Recursive(f, D, rank0, next, <<>>, step)
  <2>1. rank0 \in [D -> 0 .. N]
    OBVIOUS
  <2>2. \A c \in D : rank0[c] # 0 => rank0[next[c]] < rank0[c]
    <3> TAKE c \in D
    <3>1. CASE c # 0 /\ next[c] # 0
      <4>1. c \in DOMAIN cps /\ Lookups[c] = next[c]
        BY <1>2, <3>1 DEF Lookups
      <4>2. rank[next[c]] < rank[c]
        BY <3>1, <4>1 DEF Ranked
      <4> HIDE DEF next
      <4> QED BY <1>2, <3>1, <4>2
    <3>2. CASE c # 0 /\ next[c] = 0
      <4>1. rank0[c] \in 1 .. N /\ rank0[next[c]] = 0
        BY <3>2
      <4> HIDE DEF next, rank0
      <4> QED BY <4>1
    <3> QED BY <3>1, <3>2
  <2>3. step \in [D -> [Seq(D) -> Seq(D)]] /\ <<>> \in Seq(D)
    <3>1. \A c \in D : \A l \in Seq(D) : <<c>> \o l \in Seq(D)
      <4> HIDE DEF D
      <4> QED OBVIOUS
    <3> HIDE DEF D
    <3> QED BY <3>1
  <2> HIDE DEF rank0, next, step, D
  <2> QED BY <1>2, <2>1, <2>2, <2>3, Recursion
<1>4. f = [c \in D |-> IF c = 0 THEN <<>> ELSE <<c>> \o f[cps[c].lookup]]
  <2>1. \A c \in D : rank0[c] = 0 <=> c = 0
    OBVIOUS
  <2>2. ASSUME NEW c \in D, c # 0 PROVE f[c] = <<c>> \o f[cps[c].lookup]
    <3>1. next[c] \in D /\ next[c] = cps[c].lookup /\ f[next[c]] \in Seq(D)
      BY <1>2, <2>2
    <3>2. f[c] = step[c][f[next[c]]]
      <4> HIDE DEF step, next, rank0, D
      <4> QED BY <1>3, <2>1, <2>2 DEF Recursive
    <3> HIDE DEF next, D
    <3> QED BY <3>1, <3>2
  <2>3. f[0] = <<>>
    <3>1. 0 \in D /\ rank0[0] = 0
      OBVIOUS
    <3> HIDE DEF step, next, rank0, D
    <3> QED BY <1>3, <3>1 DEF Recursive
  <2> HIDE DEF D
  <2> QED BY <1>3, <2>2, <2>3
<1>5. L = [c \in D |-> IF c = 0 THEN <<>> ELSE <<c>> \o L[cps[c].lookup]]
  <2> HIDE DEF D
  <2> QED BY <1>4
<1>6. \A c \in {0} \cup C : ListFrom(L[c], c, s, rank)
  <2> DEFINE Bad == {c \in {0} \cup C : ~ListFrom(L[c], c, s, rank)}
             Ranks == {rank0[c] : c \in Bad}
  <2>1. C \subseteq DOMAIN cps /\ {0} \cup C \subseteq D
    BY DEF Consumers
  <2>2. ASSUME NEW c \in Bad, \A d \in Bad : rank0[c] <= rank0[d] PROVE FALSE
    <3>1. CASE c = 0
      <4>1. L[0] = <<>>
        <5>1. 0 \in D
          OBVIOUS
        <5> HIDE DEF D, L
        <5> QED BY <1>5, <5>1
      <4>2. <<>> \in Seq(Consumers(s)) /\ 1 .. Len(<<>>) = {}
        OBVIOUS
      <4>3. ListFrom(<<>>, 0, s, rank)
        BY <4>2, Zenon DEF ListFrom
      <4> HIDE DEF L
      <4> QED BY <2>2, <3>1, <4>1, <4>3
    <3>2. CASE c # 0
      <4>1. c \in C /\ c \in D /\ cps[c].lookup \in {0} \cup C
        BY <2>1, <3>2 DEF ListsOK, LookupFields, Linkable, Consumers, Lookups
      <4>2. L[c] = <<c>> \o L[cps[c].lookup]
        <5> HIDE DEF D, L
        <5> QED BY <1>5, <3>2, <4>1
      <4>3. rank0[cps[c].lookup] < rank0[c] /\ rank0[cps[c].lookup] \in Nat /\ rank0[c] \in Nat
        <5>1. Lookups[c] = cps[c].lookup /\ c \in DOMAIN cps
          BY <2>1, <4>1 DEF Lookups
        <5>2. cps[c].lookup # 0 => rank[cps[c].lookup] < rank[c]
          BY <5>1 DEF Ranked
        <5>3. cps[c].lookup \in D /\ rank[c] \in 1 .. N
          BY <2>1, <4>1, <5>1
        <5>4. cps[c].lookup # 0 => rank[cps[c].lookup] \in 1 .. N
          BY <2>1, <4>1
        <5> QED BY <3>2, <4>1, <5>2, <5>3, <5>4
      <4>4. ListFrom(L[cps[c].lookup], cps[c].lookup, s, rank)
        <5> HIDE DEF rank0, L
        <5>1. cps[c].lookup \notin Bad
          <6> HIDE DEF Bad
          <6> QED BY <2>2, <4>3
        <5> QED BY <4>1, <5>1
      <4>5. rank \in [DOMAIN cps -> Nat]
        OBVIOUS
      <4> HIDE DEF L
      <4> QED BY <2>2, <4>1, <4>2, <4>4, <4>5, ListLonger
    <3> QED BY <3>1, <3>2
  <2>3. Ranks \in SUBSET Nat
    <3>1. \A c \in {0} \cup C : rank0[c] \in Nat
      BY <2>1
    <3> HIDE DEF rank0
    <3> QED BY <3>1
  <2>4. Ranks = {}
    <3> HIDE DEF Bad, rank0
    <3>1. ASSUME Ranks # {} PROVE FALSE
      <4>1. PICK r \in Ranks : \A q \in Ranks : r <= q
        <5> HIDE DEF Ranks
        <5> QED BY <2>3, <3>1, LeastNatural
      <4> QED BY <2>2, <4>1
    <3> QED BY <3>1
  <2> HIDE DEF L, C, rank0
  <2> QED BY <2>4
<1> HIDE DEF L, C
<1> QED BY <1>1, <1>6 DEF ListsOK, C

-----------------------------------------------------------------------------
(* sched_answers *)

\* What the loop of sched_answers(s) works on.
Scheduling(s) == [last : {-1, 0} \cup Consumers(s), lookup : LookupFields, chain : Seq(Consumers(s))]

\* One turn keeps the fields on lists of the right subgoals.
LEMMA SchedConsumerType ==
  ASSUME Len(cps) \in Nat, DOMAIN cps = 1 .. Len(cps),
         NEW s \in Subgoal, NEW acc \in Scheduling(s), NEW c \in Consumers(s)
  PROVE  SchedConsumer(acc, c) \in Scheduling(s)
<1> DEFINE C == Consumers(s)
<1>1. C \subseteq DOMAIN cps /\ \A d \in C : Linkable(d) = {0} \cup C
  BY DEF Consumers, Linkable
<1>2. /\ acc.last \in {-1, 0} \cup C /\ acc.chain \in Seq(C) /\ acc.lookup \in LookupFields
      /\ acc = [last |-> acc.last, lookup |-> acc.lookup, chain |-> acc.chain]
  BY DEF Scheduling
<1> DEFINE next == acc.lookup[c]
           skipped == [acc.lookup EXCEPT ![acc.last] = next]
<1>3. next \in {0} \cup C
  BY <1>1, <1>2 DEF LookupFields
<1>4. skipped \in LookupFields
  <2>1. acc.lookup \in [DOMAIN cps -> {0} \cup DOMAIN cps]
    BY <1>2 DEF LookupFields
  <2>2. next \in {0} \cup DOMAIN cps
    BY <1>1, <1>3
  <2> HIDE DEF next
  <2>3. skipped \in [DOMAIN cps -> {0} \cup DOMAIN cps]
    BY <2>1, <2>2
  <2>4. ASSUME NEW d \in DOMAIN cps PROVE skipped[d] \in Linkable(d)
    <3>1. CASE d = acc.last
      <4>1. d \in C
        BY <1>2, <3>1
      <4>2. skipped[d] = next
        BY <2>1, <3>1
      <4> QED BY <1>1, <1>3, <4>1, <4>2
    <3>2. CASE d # acc.last
      <4>1. skipped[d] = acc.lookup[d]
        BY <2>1, <3>2
      <4> QED BY <1>2, <4>1 DEF LookupFields
    <3> QED BY <3>1, <3>2
  <2> QED BY <2>3, <2>4 DEF LookupFields
<1>5. Append(acc.chain, c) \in Seq(C)
  BY <1>2
<1>6. \/ SchedConsumer(acc, c) = acc
      \/ SchedConsumer(acc, c) = [last |-> next, lookup |-> acc.lookup, chain |-> acc.chain]
      \/ SchedConsumer(acc, c) = [last |-> acc.last, lookup |-> skipped, chain |-> acc.chain]
      \/ SchedConsumer(acc, c) = [last |-> next, lookup |-> acc.lookup, chain |-> Append(acc.chain, c)]
  BY <1>2 DEF SchedConsumer
<1> HIDE DEF next, C, skipped
<1> QED BY <1>2, <1>3, <1>4, <1>5, <1>6 DEF Scheduling, C

\* sched_answers takes one consumer after another.
LEMMA SchedAnswersFold ==
  ASSUME Len(cps) \in Nat, DOMAIN cps = 1 .. Len(cps),
         NEW s \in Subgoal, NEW base \in Scheduling(s), NEW list \in Seq(Consumers(s))
  PROVE  \E F \in [0 .. Len(list) -> Scheduling(s)] :
           /\ F[0] = base /\ FoldLeft(SchedConsumer, base, list) = F[Len(list)]
           /\ \A k \in 1 .. Len(list) : F[k] = SchedConsumer(F[k - 1], list[k])
<1> DEFINE A == Scheduling(s)
           n == Len(list)
           D == SUBSET (1 .. n)
           step == [i \in 1 .. n |-> [a \in A |-> SchedConsumer(a, list[i])]]
           iter == CHOOSE iter : iter = [d \in D |->
                                           IF d = {} THEN base
                                           ELSE SchedConsumer(iter[d \ {Max(d)}], list[Max(d)])]
<1>1. n \in Nat /\ DOMAIN list = 1 .. n /\ base \in A
  OBVIOUS
<1>2. FoldLeft(SchedConsumer, base, list) = iter[1 .. n]
  BY <1>1 DEF FoldLeft, MapThenFoldSet
<1>3. step \in [1 .. n -> [A -> A]]
  <2>1. \A i \in 1 .. n : \A a \in A : SchedConsumer(a, list[i]) \in A
    BY SchedConsumerType
  <2> HIDE DEF A
  <2> QED BY <2>1
<1>4. ASSUME NEW d \in D, d # {} PROVE Max(d) \in 1 .. n /\ d \ {Max(d)} \in D
  BY <1>1, <1>4, MaxGreatest
<1> HIDE DEF A, n
<1>5. PICK f \in [SUBSET (1 .. n) -> A] : FoldOf(f, n, base, step)
  <2> HIDE DEF step
  <2> QED BY <1>1, <1>3, FoldExists
<1>6. ASSUME NEW d \in D, d # {}, NEW a \in A PROVE step[Max(d)][a] = SchedConsumer(a, list[Max(d)])
  BY <1>4, <1>6
<1>7. f = [d \in D |-> IF d = {} THEN base ELSE SchedConsumer(f[d \ {Max(d)}], list[Max(d)])]
  <2>1. ASSUME NEW d \in D
        PROVE f[d] = IF d = {} THEN base ELSE SchedConsumer(f[d \ {Max(d)}], list[Max(d)])
    <3> HIDE DEF step
    <3>1. d # {} => f[d \ {Max(d)}] \in A
      BY <1>4, <1>5
    <3> QED BY <1>5, <1>6, <3>1 DEF FoldOf
  <2> HIDE DEF step
  <2> QED BY <1>5, <2>1
<1>8. iter = [d \in D |-> IF d = {} THEN base ELSE SchedConsumer(iter[d \ {Max(d)}], list[Max(d)])]
  <2> HIDE DEF D
  <2> QED BY <1>7
<1>9. HasSteps(iter, A, n, base, step)
  <2> HIDE DEF iter, step
  <2>1. FoldsTo(iter, A, n, base, step)
    BY <1>1, <1>3, <1>6, <1>8 DEF FoldsTo
  <2> HIDE DEF D
  <2> QED BY <2>1, FoldSteps
<1> HIDE DEF iter, step
<1>10. PICK F \in [0 .. n -> A] : /\ F[0] = base /\ F[n] = iter[1 .. n]
                                 /\ \A k \in 1 .. n : F[k] = step[k][F[k - 1]]
  BY <1>9 DEF HasSteps
<1>11. ASSUME NEW k \in 1 .. n PROVE F[k] = SchedConsumer(F[k - 1], list[k])
  <2>1. F[k - 1] \in A /\ F[k] = step[k][F[k - 1]]
    BY <1>1, <1>10
  <2> QED BY <2>1 DEF step
<1> QED BY <1>2, <1>10, <1>11 DEF A, n

\* After k turns the rest of the list is as it was, and the last consumer kept leads to
\* at most the next one.
AfterTurn(acc, k, list, s, f, rank) ==
  /\ \A j \in 1 .. Len(list) : j > k => acc.lookup[list[j]] = cps[list[j]].lookup
  /\ \/ acc.last = -1
     \/ acc.last = 0 /\ k = Len(list)
     \/ \E m \in 1 .. Len(list) : m <= k + 1 /\ acc.last = list[m]
  /\ Ranked(acc.lookup, rank)
  /\ \A c \in DOMAIN cps \ Consumers(s) : acc.lookup[c] = f[c]

\* One more turn.
LEMMA NextTurn ==
  ASSUME Len(cps) \in Nat, DOMAIN cps = 1 .. Len(cps), NEW s \in Subgoal, NEW f,
         NEW rank \in [DOMAIN cps -> Nat], NEW list \in Seq(Consumers(s)), NEW first,
         ListFrom(list, first, s, rank), NEW k \in 1 .. Len(list), NEW acc \in Scheduling(s),
         AfterTurn(acc, k - 1, list, s, f, rank)
  PROVE  AfterTurn(SchedConsumer(acc, list[k]), k, list, s, f, rank)
<1> DEFINE C == Consumers(s)
           n == Len(list)
           c == list[k]
           next == acc.lookup[c]
           skipped == [acc.lookup EXCEPT ![acc.last] = next]
<1>1. /\ C \subseteq DOMAIN cps /\ 0 \notin C /\ -1 \notin C
      /\ n \in Nat /\ \A j \in 1 .. n : list[j] \in C
  BY DEF Consumers
<1>2. acc.lookup \in [DOMAIN cps -> {0} \cup DOMAIN cps] /\ acc.last \in {-1, 0} \cup C
  BY DEF Scheduling, LookupFields
<1>3. next = IF k = n THEN 0 ELSE list[k + 1]
  <2>1. k \in 1 .. n /\ k > k - 1
    OBVIOUS
  <2>2. next = cps[c].lookup
    BY <2>1 DEF AfterTurn
  <2> QED BY <2>1, <2>2 DEF ListFrom
<1>4. \A j \in 1 .. n : j > k => acc.lookup[list[j]] = cps[list[j]].lookup
  BY <1>1 DEF AfterTurn
<1>5. \/ SchedConsumer(acc, c) = acc /\ ~Pending(c)
      \/ SchedConsumer(acc, c) = [last |-> next, lookup |-> acc.lookup, chain |-> acc.chain]
      \/ SchedConsumer(acc, c) = [last |-> acc.last, lookup |-> skipped, chain |-> acc.chain] /\ acc.last # -1
      \/ SchedConsumer(acc, c) = [last |-> next, lookup |-> acc.lookup, chain |-> Append(acc.chain, c)]
  <2>1. acc = [last |-> acc.last, lookup |-> acc.lookup, chain |-> acc.chain]
    BY DEF Scheduling
  <2> QED BY <2>1 DEF SchedConsumer
<1>6. (next = 0 /\ k = n) \/ \E m \in 1 .. n : m <= k + 1 /\ next = list[m]
  <2>1. CASE k = n
    BY <1>3, <2>1
  <2>2. CASE k # n
    <3>1. k + 1 \in 1 .. n /\ k + 1 <= k + 1
      BY <1>1, <2>2
    <3> HIDE DEF next
    <3> QED BY <1>3, <2>2, <3>1
  <2> QED BY <2>1, <2>2
<1>7. ASSUME acc.last # -1
      PROVE \E m \in 1 .. n : m <= k /\ acc.last = list[m]
  <2>1. k - 1 # n /\ k - 1 + 1 = k
    BY <1>1
  <2> QED BY <1>7, <2>1 DEF AfterTurn
<1> HIDE DEF next, C, n
<1>8. ASSUME acc.last # -1
      PROVE /\ \A j \in 1 .. n : j > k => skipped[list[j]] = cps[list[j]].lookup
            /\ Ranked(skipped, rank)
            /\ \A d \in DOMAIN cps \ C : skipped[d] = f[d]
  <2>1. PICK m \in 1 .. n : m <= k /\ acc.last = list[m]
    BY <1>7, <1>8
  <2>2. list[m] \in DOMAIN cps /\ list[m] \in C
    BY <1>1, <2>1
  <2>3. \A d \in DOMAIN cps : skipped[d] = IF d = list[m] THEN next ELSE acc.lookup[d]
    BY <1>2, <2>1, <2>2
  <2> HIDE DEF skipped
  <2>4. ASSUME NEW j \in 1 .. n, j > k PROVE skipped[list[j]] = cps[list[j]].lookup
    <3>1. rank[list[j]] < rank[list[m]]
      BY <1>1, <2>1, <2>4 DEF ListFrom, n
    <3>2. list[j] \in DOMAIN cps /\ rank[list[j]] \in Nat
      BY <1>1
    <3>3. list[j] # list[m]
      BY <3>1, <3>2
    <3> QED BY <1>4, <2>3, <2>4, <3>2, <3>3
  <2>5. ASSUME NEW d \in DOMAIN cps, skipped[d] # 0 PROVE rank[skipped[d]] < rank[d]
    <3>1. CASE d = list[m]
      <4>1. next # 0 /\ skipped[d] = next
        BY <2>3, <2>5, <3>1
      <4>2. k # n /\ next = list[k + 1]
        BY <1>3, <4>1
      <4>3. k + 1 \in 1 .. n /\ m < k + 1
        BY <1>1, <2>1, <4>2 DEF n
      <4>4. rank[list[k + 1]] < rank[list[m]]
        BY <2>1, <4>3 DEF ListFrom, n
      <4> QED BY <3>1, <4>1, <4>2, <4>4
    <3>2. CASE d # list[m]
      BY <2>3, <2>5, <3>2 DEF AfterTurn, Ranked
    <3> QED BY <3>1, <3>2
  <2>6. ASSUME NEW d \in DOMAIN cps \ C PROVE skipped[d] = f[d]
    BY <2>2, <2>3 DEF AfterTurn, C
  <2> QED BY <2>4, <2>5, <2>6 DEF Ranked
<1> HIDE DEF skipped, c
<1>9. \A a : a.lookup = acc.lookup /\ (a.last = next \/ (a.last = acc.last /\ acc.last = -1))
             => AfterTurn(a, k, list, s, f, rank)
  BY <1>4, <1>6 DEF AfterTurn, n
<1>10. ASSUME acc.last # -1
       PROVE \A a : a.last = acc.last /\ a.lookup \in {acc.lookup, skipped} => AfterTurn(a, k, list, s, f, rank)
  <2>1. \E m \in 1 .. n : m <= k + 1 /\ acc.last = list[m]
    <3>1. \A m \in 1 .. n : m <= k => m <= k + 1
      BY <1>1
    <3> QED BY <1>7, <1>10, <3>1
  <2> QED BY <1>4, <1>8, <1>10, <2>1 DEF AfterTurn, n, C
<1>11. c = list[k]
  BY DEF c
<1> DEFINE b == SchedConsumer(acc, c)
<1>12. b.lookup \in {acc.lookup, skipped} /\ (b.lookup = skipped => b.lookup = acc.lookup \/ acc.last # -1)
       /\ ((b.last = next /\ b.lookup = acc.lookup) \/ b.last = acc.last)
  BY <1>5
<1> HIDE DEF b
<1>13. AfterTurn(b, k, list, s, f, rank)
  <2>1. CASE b.last = next /\ b.lookup = acc.lookup
    BY <1>9, <2>1
  <2>2. CASE b.last = acc.last /\ acc.last = -1
    BY <1>9, <1>12, <2>2
  <2>3. CASE b.last = acc.last /\ acc.last # -1
    BY <1>10, <1>12, <2>3
  <2> QED BY <1>12, <2>1, <2>2, <2>3
<1> QED BY <1>11, <1>13 DEF b

\* sched_answers(s) returns consumers of s, and changes fields of the consumers of s only.
LEMMA SchedAnswers ==
  ASSUME ListsOK, Len(cps) \in Nat, DOMAIN cps = 1 .. Len(cps), NEW s \in Subgoal,
         NEW N \in Nat, NEW rank \in [DOMAIN cps -> 1 .. N], Ranked(Lookups, rank),
         NEW f \in LookupFields, Ranked(f, rank), \A c \in Consumers(s) : f[c] = cps[c].lookup
  PROVE  /\ sched_answers(s, f).chain \in Seq(Consumers(s))
         /\ sched_answers(s, f).lookup \in LookupFields /\ Ranked(sched_answers(s, f).lookup, rank)
         /\ \A c \in DOMAIN cps \ Consumers(s) : sched_answers(s, f).lookup[c] = f[c]
<1> DEFINE list == ConsumerList(s)
           n == Len(list)
           base == [last |-> -1, lookup |-> f, chain |-> <<>>]
           r == sched_answers(s, f)
<1>1. ListFrom(list, table[s].pos_cons, s, rank)
  BY ConsumerListFrom
<1>2. list \in Seq(Consumers(s)) /\ n \in Nat
  BY <1>1 DEF ListFrom
<1>3. base \in Scheduling(s)
  BY DEF Scheduling
<1>4. r = FoldLeft(SchedConsumer, base, list)
  BY DEF sched_answers
<1> HIDE DEF list, base, r
<1>5. PICK F \in [0 .. n -> Scheduling(s)] :
         /\ F[0] = base /\ r = F[n]
         /\ \A k \in 1 .. n : F[k] = SchedConsumer(F[k - 1], list[k])
  BY <1>2, <1>3, <1>4, SchedAnswersFold
<1>6. \A k \in 0 .. n : AfterTurn(F[k], k, list, s, f, rank)
  <2> DEFINE Bad == {k \in 0 .. n : ~AfterTurn(F[k], k, list, s, f, rank)}
  <2>1. ASSUME NEW k \in Bad, \A j \in Bad : k <= j PROVE FALSE
    <3>1. CASE k = 0
      <4>1. F[0].last = -1 /\ F[0].lookup = f
        BY <1>5 DEF base
      <4>2. \A j \in 1 .. n : f[list[j]] = cps[list[j]].lookup
        BY <1>2
      <4>3. AfterTurn(F[0], 0, list, s, f, rank)
        BY <4>1, <4>2 DEF AfterTurn
      <4> QED BY <2>1, <3>1, <4>3
    <3>2. CASE k # 0
      <4>1. k \in 1 .. n /\ k - 1 \in 0 .. n
        BY <1>2, <2>1, <3>2
      <4>2. k - 1 \notin Bad
        <5>1. ~(k <= k - 1)
          BY <4>1
        <5> HIDE DEF Bad
        <5> QED BY <2>1, <5>1
      <4>3. AfterTurn(F[k - 1], k - 1, list, s, f, rank) /\ F[k - 1] \in Scheduling(s)
        BY <1>5, <4>1, <4>2
      <4>4. rank \in [DOMAIN cps -> Nat]
        OBVIOUS
      <4>5. AfterTurn(SchedConsumer(F[k - 1], list[k]), k, list, s, f, rank)
        BY <1>1, <1>2, <4>1, <4>3, <4>4, NextTurn DEF n
      <4> QED BY <1>5, <2>1, <4>1, <4>5
    <3> QED BY <3>1, <3>2
  <2>2. Bad \in SUBSET Nat
    BY <1>2
  <2>3. Bad = {}
    <3> HIDE DEF Bad
    <3> QED BY <2>1, <2>2, LeastNatural
  <2> QED BY <2>3
<1>7. r \in Scheduling(s) /\ AfterTurn(r, n, list, s, f, rank)
  BY <1>2, <1>5, <1>6
<1> QED BY <1>7 DEF Scheduling, AfterTurn, r

\* Whatever the fields it starts from, sched_answers(s) returns consumers of s and
\* leaves fields on lists of the right subgoals.
LEMMA SchedAnswersType ==
  ASSUME ListsOK, Len(cps) \in Nat, DOMAIN cps = 1 .. Len(cps), NEW s \in Subgoal, NEW f \in LookupFields
  PROVE  sched_answers(s, f) \in Scheduling(s)
<1> DEFINE list == ConsumerList(s)
           base == [last |-> -1, lookup |-> f, chain |-> <<>>]
<1>1. PICK N \in Nat : \E rank \in [DOMAIN cps -> 1 .. N] : Ranked(Lookups, rank)
  BY DEF ListsOK
<1>2. PICK rank \in [DOMAIN cps -> 1 .. N] : Ranked(Lookups, rank)
  BY <1>1
<1>3. list \in Seq(Consumers(s))
  BY <1>2, ConsumerListFrom DEF ListFrom
<1>4. base \in Scheduling(s)
  BY DEF Scheduling
<1>5. sched_answers(s, f) = FoldLeft(SchedConsumer, base, list) /\ Len(list) \in 0 .. Len(list)
  BY <1>3 DEF sched_answers
<1> HIDE DEF list, base
<1>6. PICK F \in [0 .. Len(list) -> Scheduling(s)] : FoldLeft(SchedConsumer, base, list) = F[Len(list)]
  BY <1>3, <1>4, SchedAnswersFold
<1>7. F[Len(list)] \in Scheduling(s)
  BY <1>5
<1> QED BY <1>5, <1>6, <1>7

\* The consumers of the frames above the i-th.
ConsumersAbove(i) == UNION {Consumers(complstk[j].sg) : j \in (i + 1) .. Len(complstk)}

\* What the loop of find_fixpoint works on.
Fixpoint(i) == [lookup : LookupFields, chain : Seq(ConsumersAbove(i))]

\* find_fixpoint takes one frame after another.
LEMMA FindFixpointFold ==
  ASSUME ListsOK, Len(cps) \in Nat, DOMAIN cps = 1 .. Len(cps), Len(complstk) \in Nat,
         \A j \in 1 .. Len(complstk) : complstk[j].sg \in Subgoal,
         NEW i \in 1 .. Len(complstk), NEW f \in LookupFields
  PROVE  \E F \in [0 .. Len(complstk) - i -> Fixpoint(i)] :
           /\ F[0] = [lookup |-> f, chain |-> <<>>] /\ find_fixpoint(i, f) = F[Len(complstk) - i]
           /\ \A k \in 1 .. Len(complstk) - i : F[k] = SchedFrame(F[k - 1], Len(complstk) + 1 - k)
<1> DEFINE A == Fixpoint(i)
           n == Len(complstk) - i
           D == SUBSET (1 .. n)
           list == FramesAbove(i)
           base == [lookup |-> f, chain |-> <<>>]
           step == [k \in 1 .. n |-> [a \in A |-> SchedFrame(a, list[k])]]
           iter == CHOOSE iter : iter = [d \in D |->
                                           IF d = {} THEN base
                                           ELSE SchedFrame(iter[d \ {Max(d)}], list[Max(d)])]
<1>1. n \in Nat /\ DOMAIN list = 1 .. n /\ \A k \in 1 .. n : list[k] = Len(complstk) + 1 - k
  BY DEF FramesAbove
<1>2. base \in A
  BY DEF Fixpoint
<1>3. find_fixpoint(i, f) = iter[1 .. n]
  <2>1. find_fixpoint(i, f) = FoldLeft(SchedFrame, base, list)
    BY DEF find_fixpoint
  <2>2. FoldLeft(SchedFrame, base, list) = iter[DOMAIN list]
    <3>1. DOMAIN list = 1 .. n
      BY <1>1
    <3> HIDE DEF list, base, n
    <3> QED BY <3>1 DEF FoldLeft, MapThenFoldSet
  <2> QED BY <1>1, <2>1, <2>2
<1>4. step \in [1 .. n -> [A -> A]]
  <2>1. ASSUME NEW k \in 1 .. n, NEW a \in A PROVE SchedFrame(a, list[k]) \in A
    <3> DEFINE j == list[k]
               s == complstk[j].sg
               r == sched_answers(s, a.lookup)
               C == ConsumersAbove(i)
    <3>1. j \in (i + 1) .. Len(complstk) /\ j \in 1 .. Len(complstk)
      BY <1>1
    <3>2. s \in Subgoal /\ Consumers(s) \subseteq C
      BY <3>1 DEF ConsumersAbove
    <3>3. a.lookup \in LookupFields /\ a.chain \in Seq(C)
      BY DEF Fixpoint
    <3>4. r \in Scheduling(s)
      BY <3>2, <3>3, SchedAnswersType
    <3>5. r.lookup \in LookupFields /\ r.chain \in Seq(Consumers(s))
      BY <3>4 DEF Scheduling
    <3>6. SchedFrame(a, j) = [lookup |-> r.lookup, chain |-> a.chain \o r.chain]
      BY DEF SchedFrame
    <3> HIDE DEF j, s, r, C
    <3>7. a.chain \o r.chain \in Seq(C)
      <4>1. r.chain \in Seq(C)
        BY <3>2, <3>5
      <4> QED BY <3>3, <4>1, ConcatProperties
    <3>8. SchedFrame(a, j) \in A
      BY <3>5, <3>6, <3>7 DEF Fixpoint, C
    <3> QED BY <3>8 DEF j
  <2> HIDE DEF A
  <2> QED BY <2>1
<1>5. ASSUME NEW d \in D, d # {} PROVE Max(d) \in 1 .. n /\ d \ {Max(d)} \in D
  BY <1>1, <1>5, MaxGreatest
<1> HIDE DEF A, n, list, base
<1>6. PICK g \in [SUBSET (1 .. n) -> A] : FoldOf(g, n, base, step)
  <2> HIDE DEF step
  <2> QED BY <1>1, <1>2, <1>4, FoldExists
<1>7. ASSUME NEW d \in D, d # {}, NEW a \in A PROVE step[Max(d)][a] = SchedFrame(a, list[Max(d)])
  BY <1>5, <1>7
<1>8. g = [d \in D |-> IF d = {} THEN base ELSE SchedFrame(g[d \ {Max(d)}], list[Max(d)])]
  <2>1. ASSUME NEW d \in D
        PROVE g[d] = IF d = {} THEN base ELSE SchedFrame(g[d \ {Max(d)}], list[Max(d)])
    <3> HIDE DEF step
    <3>1. d # {} => g[d \ {Max(d)}] \in A
      BY <1>5, <1>6
    <3> QED BY <1>6, <1>7, <3>1 DEF FoldOf
  <2> HIDE DEF step
  <2> QED BY <1>6, <2>1
<1>9. iter = [d \in D |-> IF d = {} THEN base ELSE SchedFrame(iter[d \ {Max(d)}], list[Max(d)])]
  <2> HIDE DEF D
  <2> QED BY <1>8
<1>10. HasSteps(iter, A, n, base, step)
  <2> HIDE DEF iter, step
  <2>1. FoldsTo(iter, A, n, base, step)
    BY <1>1, <1>2, <1>4, <1>7, <1>9 DEF FoldsTo
  <2> HIDE DEF D
  <2> QED BY <2>1, FoldSteps
<1> HIDE DEF iter, step
<1>11. PICK F \in [0 .. n -> A] : /\ F[0] = base /\ F[n] = iter[1 .. n]
                                  /\ \A k \in 1 .. n : F[k] = step[k][F[k - 1]]
  BY <1>10 DEF HasSteps
<1>12. ASSUME NEW k \in 1 .. n PROVE F[k] = SchedFrame(F[k - 1], Len(complstk) + 1 - k)
  <2>1. F[k - 1] \in A /\ F[k] = step[k][F[k - 1]]
    BY <1>1, <1>11
  <2>2. F[k] = SchedFrame(F[k - 1], list[k])
    BY <2>1 DEF step
  <2> QED BY <1>1, <2>2
<1> QED BY <1>3, <1>11, <1>12 DEF A, n, base

\* find_fixpoint returns consumers of the frames above the leader's, and keeps the fields
\* on lists that have an end.
LEMMA FindFixpoint ==
  ASSUME ListsOK, Len(cps) \in Nat, DOMAIN cps = 1 .. Len(cps), Len(complstk) \in Nat,
         \A j \in 1 .. Len(complstk) : complstk[j].sg \in Subgoal,
         \A j, k \in 1 .. Len(complstk) : complstk[j].sg = complstk[k].sg => j = k,
         NEW N \in Nat, NEW rank \in [DOMAIN cps -> 1 .. N], Ranked(Lookups, rank),
         NEW i \in 1 .. Len(complstk), NEW f \in LookupFields, Ranked(f, rank),
         \A c \in ConsumersAbove(i) : f[c] = cps[c].lookup
  PROVE  /\ find_fixpoint(i, f).chain \in Seq(ConsumersAbove(i))
         /\ find_fixpoint(i, f).lookup \in LookupFields
         /\ Ranked(find_fixpoint(i, f).lookup, rank)
<1> DEFINE n == Len(complstk) - i
           r == find_fixpoint(i, f)
<1>1. PICK F \in [0 .. n -> Fixpoint(i)] :
        /\ F[0] = [lookup |-> f, chain |-> <<>>] /\ r = F[n]
        /\ \A k \in 1 .. n : F[k] = SchedFrame(F[k - 1], Len(complstk) + 1 - k)
  BY FindFixpointFold
<1> DEFINE Good(k) == /\ Ranked(F[k].lookup, rank)
                      /\ \A j \in (i + 1) .. (Len(complstk) - k) :
                           \A c \in Consumers(complstk[j].sg) : F[k].lookup[c] = cps[c].lookup
<1>2. n \in Nat
  OBVIOUS
<1> HIDE DEF r
<1>3. \A k \in 0 .. n : Good(k)
  <2> DEFINE Bad == {k \in 0 .. n : ~Good(k)}
  <2>1. ASSUME NEW k \in Bad, \A j \in Bad : k <= j PROVE FALSE
    <3>1. CASE k = 0
      <4>1. F[0].lookup = f
        BY <1>1
      <4>2. Good(0)
        BY <4>1 DEF ConsumersAbove
      <4> HIDE DEF Good
      <4> QED BY <2>1, <3>1, <4>2
    <3>2. CASE k # 0
      <4>1. k \in 1 .. n /\ k - 1 \in 0 .. n /\ ~(k <= k - 1)
        BY <2>1, <3>2
      <4>2. Good(k - 1)
        <5>1. k - 1 \notin Bad
          <6> HIDE DEF Bad
          <6> QED BY <2>1, <4>1
        <5> HIDE DEF Good
        <5> QED BY <4>1, <5>1
      <4> DEFINE m == Len(complstk) + 1 - k
                 s == complstk[m].sg
                 acc == F[k - 1]
                 q == sched_answers(s, acc.lookup)
      <4>3. m \in (i + 1) .. (Len(complstk) - (k - 1)) /\ m \in 1 .. Len(complstk) /\ s \in Subgoal
        BY <4>1
      <4>4. /\ acc.lookup \in LookupFields /\ Ranked(acc.lookup, rank)
            /\ \A c \in Consumers(s) : acc.lookup[c] = cps[c].lookup
        <5>1. acc \in Fixpoint(i)
          BY <1>1, <4>1
        <5> QED BY <4>2, <4>3, <5>1 DEF Fixpoint
      <4>5. F[k].lookup = q.lookup
        <5>1. F[k] = SchedFrame(acc, m)
          BY <1>1, <4>1
        <5>2. SchedFrame(acc, m) = [lookup |-> q.lookup, chain |-> acc.chain \o q.chain]
          BY DEF SchedFrame
        <5> HIDE DEF acc, m, q
        <5> QED BY <5>1, <5>2
      <4> DEFINE h == acc.lookup
      <4> HIDE DEF s, acc, q
      <4>6. h \in LookupFields /\ Ranked(h, rank) /\ (\A c \in Consumers(s) : h[c] = cps[c].lookup) /\ s \in Subgoal
        BY <4>3, <4>4
      <4>7. q = sched_answers(s, h)
        BY DEF q
      <4> HIDE DEF h
      <4>8. /\ Ranked(sched_answers(s, h).lookup, rank)
             /\ \A c \in DOMAIN cps \ Consumers(s) : sched_answers(s, h).lookup[c] = h[c]
        BY <4>6, SchedAnswers
      <4>9. Ranked(q.lookup, rank) /\ \A c \in DOMAIN cps \ Consumers(s) : q.lookup[c] = acc.lookup[c]
        BY <4>7, <4>8 DEF h
      <4>10. ASSUME NEW j \in (i + 1) .. (Len(complstk) - k), NEW c \in Consumers(complstk[j].sg)
            PROVE F[k].lookup[c] = cps[c].lookup
        <5>1. j \in 1 .. Len(complstk) /\ j # m /\ j \in (i + 1) .. (Len(complstk) - (k - 1))
          BY <4>1, <4>10
        <5>2. complstk[j].sg # s
          BY <4>3, <5>1 DEF s
        <5>3. c \in DOMAIN cps \ Consumers(s)
          BY <5>2 DEF Consumers
        <5>4. acc.lookup[c] = cps[c].lookup
          BY <4>2, <5>1 DEF acc
        <5> QED BY <4>5, <4>9, <5>3, <5>4
      <4>11. Good(k)
        BY <4>5, <4>9, <4>10
      <4> HIDE DEF Good
      <4> QED BY <2>1, <4>11
    <3> QED BY <3>1, <3>2
  <2>2. Bad \in SUBSET Nat
    BY <1>2
  <2>3. Bad = {}
    <3> HIDE DEF Bad
    <3> QED BY <2>1, <2>2, LeastNatural
  <2> HIDE DEF Good
  <2> QED BY <2>3
<1>4. r \in Fixpoint(i) /\ Good(n)
  <2> HIDE DEF Good
  <2> QED BY <1>1, <1>2, <1>3
<1>5. Ranked(r.lookup, rank) /\ r.lookup \in LookupFields /\ r.chain \in Seq(ConsumersAbove(i))
  BY <1>1, <1>4 DEF Fixpoint
<1> QED BY <1>5 DEF r

-----------------------------------------------------------------------------
(* The inductive invariant. *)

Place == Subgoal \cup {Query}
Value == UNION {{Derive[c][t] : t \in DOMAIN Derive[c]} : c \in DOMAIN Calls}
Continuation == [root : Place, clause : Nat, ans : Seq(Value)]
ChoicePoint ==
  [pc : {"clause", "check_complete", "answer_return", "trie"}, sg : Place, next : Nat,
   cont : Continuation, prev : Nat, ret : Nat, lookup : Nat, todo : SUBSET Value]
SubgoalFrame ==
  [status : {"new", "incomplete", "complete"}, answers : Seq(Value), pos_cons : Nat, cp_ptr : Nat]
CompletionFrame == [sg : Subgoal, level : Nat]

\* The variables hold what their names say.
Types ==
  /\ prog \in Programs /\ mode \in {"run", "fail", "halt"}
  /\ cont \in Continuation /\ cps \in Seq(ChoicePoint) /\ breg \in 0 .. Len(cps)
  /\ complstk \in Seq(CompletionFrame) /\ level_num \in Nat
  /\ table \in [Subgoal -> SubgoalFrame]
  /\ returned \in Seq(Seq(Value))

\* A clause whose first calls were answered, by answers the program gives.
Proved(k) ==
  /\ k.clause \in DOMAIN prog.clauses[k.root]
  /\ k.root = Query => k.clause = 1
  /\ k.root \in Subgoal => table[k.root].status # "new"
  /\ Len(k.ans) <= Len(Calls[Clause(k)])
  /\ BodyHolds(Clause(k), k.ans, Models[prog])

\* A choice point continues a clause after the call it was made for.
Continues(c) ==
  LET x == cps[c] IN
  /\ Proved(x.cont) /\ IsCall(x.cont)
  /\ x.pc # "trie" => x.sg = Callee(x.cont)
  /\ x.pc = "clause" => x.next \in DOMAIN prog.clauses[x.sg]
  /\ \A a \in x.todo : <<Callee(x.cont), a>> \in Models[prog]

\* Tables hold answers the program gives, each once.
AnswersSound ==
  \A s \in Subgoal :
    /\ \A a \in Range(table[s].answers) : <<s, a>> \in Models[prog]
    /\ \A i, j \in DOMAIN table[s].answers : table[s].answers[i] = table[s].answers[j] => i = j

ReturnedSound == Range(returned) \subseteq Solutions

Evaluation ==
  /\ Proved(cont) /\ \A c \in DOMAIN cps : Continues(c)
  /\ AnswersSound /\ ReturnedSound

\* A generator that was not made a consumer.
Unconverted(c) == c \in DOMAIN cps /\ cps[c].pc \in {"clause", "check_complete"}

\* The generator of the i-th frame.
GeneratorOf(i) == table[complstk[i].sg].cp_ptr

\* The generators and the levels of the frames grow together, and every generator and
\* every consumer has a frame below it.
Frames ==
  /\ \A i \in DOMAIN complstk :
       /\ table[complstk[i].sg].status # "new"
       /\ GeneratorOf(i) \in DOMAIN cps
       /\ cps[GeneratorOf(i)].sg = complstk[i].sg /\ cps[GeneratorOf(i)].pc # "trie"
       /\ complstk[i].level <= level_num
  /\ \A i, j \in DOMAIN complstk : i < j =>
       GeneratorOf(i) < GeneratorOf(j) /\ complstk[i].level <= complstk[j].level
  /\ \A s \in Subgoal : table[s].status = "incomplete" => \E i \in DOMAIN complstk : complstk[i].sg = s
  /\ \A c \in DOMAIN cps :
       /\ Unconverted(c) => \E i \in DOMAIN complstk : GeneratorOf(i) = c
       /\ cps[c].pc = "answer_return" =>
            \E i \in DOMAIN complstk : complstk[i].sg = cps[c].sg /\ GeneratorOf(i) <= c

\* A consumer of a frame has no leader between the frame and itself.
Levels ==
  \A c \in DOMAIN cps : \A i, j \in DOMAIN complstk :
    cps[c].pc = "answer_return" /\ complstk[i].sg = cps[c].sg /\ i < j /\ GeneratorOf(j) < c
      => complstk[i].level = complstk[j].level

\* The generator of the subgoal a clause belongs to; the query has none.
RootGenerator(k) == IF k.root = Query THEN 0 ELSE table[k.root].cp_ptr

\* Backtracking passes no generator: a chain of choice points that starts above one
\* leads to it, and clauses that are run for a subgoal lie above its generator.
Chains ==
  /\ \A c \in DOMAIN cps : cps[c].prev \in 0 .. Len(cps) /\ RootGenerator(cps[c].cont) < c
  /\ mode = "run" => RootGenerator(cont) <= Len(cps)
  /\ \A g \in DOMAIN cps : Unconverted(g) =>
       /\ g <= breg
       /\ mode = "run" => g <= RootGenerator(cont)
       /\ \A c \in DOMAIN cps :
            /\ g < c => g <= cps[c].prev /\ g <= RootGenerator(cps[c].cont)
            /\ c <= g => cps[c].prev < g

IInv == Types /\ Evaluation /\ Frames /\ Levels /\ Chains /\ ListsOK

-----------------------------------------------------------------------------
(* Clauses and their continuations. *)

\* The clause of a continuation, and its next call.
LEMMA ClauseOf ==
  ASSUME prog \in Programs, NEW k \in Continuation, Proved(k)
  PROVE  /\ Clause(k) \in Range(prog.clauses[k.root]) /\ Clause(k) \in DOMAIN Calls
         /\ Calls[Clause(k)] \in Seq(Subgoal) /\ Len(k.ans) \in Nat
         /\ IsCall(k) => Callee(k) \in Subgoal
<1>1. k.root \in Subgoal \cup {Query} /\ k.ans \in Seq(Value)
  BY DEF Continuation, Place
<1>2. prog.clauses[k.root] \in Seq(DOMAIN Calls)
  BY <1>1, ClauseType
<1>3. Clause(k) \in Range(prog.clauses[k.root])
  BY DEF Clause, Range, Proved
<1>4. Clause(k) \in DOMAIN Calls /\ Calls[Clause(k)] \in Seq(Subgoal)
  BY <1>1, <1>3, ClauseType
<1>5. ASSUME IsCall(k) PROVE Callee(k) \in Subgoal
  <2>1. Len(k.ans) + 1 \in 1 .. Len(Calls[Clause(k)])
    BY <1>1, <1>4, <1>5 DEF IsCall
  <2> QED BY <1>4, <2>1 DEF Callee
<1> QED BY <1>1, <1>3, <1>4, <1>5

\* An answer for the next call.
LEMMA WithProved ==
  ASSUME prog \in Programs, NEW k \in Continuation, Proved(k), IsCall(k),
         NEW a \in Value, <<Callee(k), a>> \in Models[prog]
  PROVE  With(k, a) \in Continuation /\ Proved(With(k, a)) /\ With(k, a).root = k.root
<1> DEFINE w == With(k, a)
<1>1. k.root \in Place /\ k.clause \in Nat /\ k.ans \in Seq(Value)
  BY DEF Continuation
<1>2. w.root = k.root /\ w.clause = k.clause /\ w.ans = Append(k.ans, a)
      /\ w = [root |-> k.root, clause |-> k.clause, ans |-> Append(k.ans, a)]
  <2>1. k = [root |-> k.root, clause |-> k.clause, ans |-> k.ans]
    BY DEF Continuation
  <2> DEFINE ans == Append(k.ans, a)
  <2> HIDE DEF ans
  <2>2. [k EXCEPT !.ans = ans] = [root |-> k.root, clause |-> k.clause, ans |-> ans]
    BY <2>1
  <2> QED BY <2>2 DEF With, ans
<1>3. Append(k.ans, a) \in Seq(Value) /\ Len(Append(k.ans, a)) = Len(k.ans) + 1
  BY <1>1
<1> HIDE DEF w
<1>4. w \in Continuation
  BY <1>1, <1>2, <1>3 DEF Continuation
<1>5. Clause(w) = Clause(k)
  BY <1>2 DEF Clause
<1>6. Len(w.ans) <= Len(Calls[Clause(w)])
  BY <1>2, <1>3, <1>5, ClauseOf DEF IsCall
<1>7. BodyHolds(Clause(w), w.ans, Models[prog])
  <2>1. ASSUME NEW j \in DOMAIN w.ans PROVE <<Calls[Clause(w)][j], w.ans[j]>> \in Models[prog]
    <3>1. Len(k.ans) \in Nat /\ DOMAIN w.ans = 1 .. (Len(k.ans) + 1) /\ DOMAIN k.ans = 1 .. Len(k.ans)
      BY <1>1, <1>2, <1>3
    <3>2. CASE j \in DOMAIN k.ans
      <4>1. w.ans[j] = k.ans[j]
        BY <1>1, <1>2, <3>1, <3>2
      <4> QED BY <1>5, <3>2, <4>1 DEF Proved, BodyHolds
    <3>3. CASE j \notin DOMAIN k.ans
      <4>1. j = Len(k.ans) + 1
        BY <3>1, <3>3
      <4>2. w.ans[j] = a
        BY <1>1, <1>2, <4>1
      <4> QED BY <1>5, <4>1, <4>2 DEF Callee
    <3> QED BY <3>2, <3>3
  <2> QED BY <2>1 DEF BodyHolds
<1> QED BY <1>2, <1>4, <1>5, <1>6, <1>7 DEF Proved, w

\* A clause at its first call.
LEMMA FirstProved ==
  ASSUME prog \in Programs, NEW s \in Place, NEW i \in DOMAIN prog.clauses[s],
         s = Query => i = 1, s \in Subgoal => table[s].status # "new"
  PROVE  LET k == [root |-> s, clause |-> i, ans |-> <<>>] IN k \in Continuation /\ Proved(k)
<1> DEFINE k == [root |-> s, clause |-> i, ans |-> <<>>]
<1>1. prog.clauses[s] \in Seq(DOMAIN Calls)
  BY ClauseType DEF Place
<1>2. i \in Nat /\ <<>> \in Seq(Value) /\ Len(<<>>) = 0 /\ DOMAIN <<>> = {}
  BY <1>1
<1>3. k \in Continuation
  BY <1>2 DEF Continuation
<1>4. Clause(k) \in DOMAIN Calls
  BY <1>1 DEF Clause
<1>5. Len(Calls[Clause(k)]) \in Nat
  BY <1>4, ProgramAssumption
<1>6. Proved(k)
  <2>1. k.ans = <<>> /\ k.clause = i /\ k.root = s
    OBVIOUS
  <2> HIDE DEF k
  <2> QED BY <1>2, <1>5, <2>1 DEF Proved, BodyHolds
<1> QED BY <1>3, <1>6

\* What is proved stays so.
LEMMA ProvedKept ==
  ASSUME prog' = prog, \A s \in Subgoal : table'[s].status = "new" => table[s].status = "new",
         NEW k, Proved(k)
  PROVE  Proved(k)'
BY DEF Proved, Clause, BodyHolds

LEMMA InitInv == Init => IInv
<1> SUFFICES ASSUME Init PROVE IInv
  OBVIOUS
<1>1. /\ prog \in Programs /\ mode = "run" /\ cont = [root |-> Query, clause |-> 1, ans |-> <<>>]
      /\ breg = 0 /\ cps = <<>> /\ complstk = <<>> /\ level_num = 0 /\ returned = <<>>
      /\ \A s \in Subgoal : table[s] = NoFrame
  BY DEF Init
<1>2. DOMAIN cps = {} /\ Len(cps) = 0 /\ DOMAIN complstk = {}
  BY <1>1
<1>3. NoFrame \in SubgoalFrame
  <2>1. <<>> \in Seq(Value)
    OBVIOUS
  <2> QED BY <2>1 DEF NoFrame, SubgoalFrame
<1>4. Query \notin Subgoal
  BY ProgramAssumption
<1>5. cont \in Continuation /\ Proved(cont)
  <2>1. 1 \in DOMAIN prog.clauses[Query]
    BY <1>1, ClauseType
  <2>2. Query \in Place
    BY DEF Place
  <2> QED BY <1>1, <1>4, <2>1, <2>2, FirstProved
<1>6. Types
  <2>1. table \in [Subgoal -> SubgoalFrame]
    BY <1>3 DEF Init
  <2>2. <<>> \in Seq(ChoicePoint) /\ <<>> \in Seq(CompletionFrame) /\ <<>> \in Seq(Seq(Value))
    OBVIOUS
  <2> QED BY <1>1, <1>2, <1>5, <2>1, <2>2 DEF Types
<1>7. Evaluation
  <2>1. \A s \in Subgoal : Range(table[s].answers) = {} /\ DOMAIN table[s].answers = {}
    BY <1>1 DEF Range, NoFrame
  <2>2. Range(returned) = {}
    BY <1>1 DEF Range
  <2> QED BY <1>2, <1>5, <2>1, <2>2 DEF Evaluation, AnswersSound, ReturnedSound
<1>8. Frames /\ Levels
  BY <1>1, <1>2 DEF Frames, Levels, NoFrame
<1>9. Chains
  BY <1>1, <1>2 DEF Chains, RootGenerator, Unconverted
<1>10. ListsOK
  <2>1. Lookups \in [DOMAIN cps -> {0} \cup DOMAIN cps] /\ Lookups \in [DOMAIN cps -> 1 .. 1]
    BY <1>2 DEF Lookups
  <2>2. Ranked(Lookups, Lookups)
    BY <1>2 DEF Ranked
  <2>3. \E N \in Nat : \E rank \in [DOMAIN cps -> 1 .. N] : Ranked(Lookups, rank)
    BY <2>1, <2>2
  <2>4. Lookups \in LookupFields
    BY <1>2, <2>1 DEF LookupFields
  <2>5. \A s \in Subgoal : table[s].pos_cons = 0
    BY <1>1 DEF NoFrame
  <2> QED BY <2>3, <2>4, <2>5 DEF ListsOK
<1> QED BY <1>6, <1>7, <1>8, <1>9, <1>10 DEF IInv

-----------------------------------------------------------------------------
(* Steps that leave the frames, the lists and the chains alone. *)

SameFrames ==
  /\ complstk' = complstk /\ level_num' = level_num
  /\ Len(cps') = Len(cps) /\ DOMAIN cps' = DOMAIN cps
  /\ \A c \in DOMAIN cps :
       /\ cps'[c].sg = cps[c].sg
       /\ cps'[c].pc = "answer_return" <=> cps[c].pc = "answer_return"
       /\ cps'[c].pc = "trie" <=> cps[c].pc = "trie"
       /\ Unconverted(c)' <=> Unconverted(c)
  /\ \A s \in Subgoal :
       /\ table'[s].cp_ptr = table[s].cp_ptr
       /\ table'[s].status = "new" => table[s].status = "new"
       /\ table'[s].status = "incomplete" => table[s].status = "incomplete"

SameShape ==
  /\ SameFrames
  /\ \A c \in DOMAIN cps :
       cps'[c].cont = cps[c].cont /\ cps'[c].prev = cps[c].prev /\ cps'[c].lookup = cps[c].lookup
  /\ \A s \in Subgoal : table'[s].pos_cons = table[s].pos_cons

\* The types of the two stacks.
LEMMA StackTypes ==
  ASSUME Types
  PROVE  /\ Len(cps) \in Nat /\ DOMAIN cps = 1 .. Len(cps)
         /\ \A c \in DOMAIN cps : cps[c] \in ChoicePoint
         /\ Len(complstk) \in Nat /\ DOMAIN complstk = 1 .. Len(complstk)
         /\ \A i \in DOMAIN complstk : complstk[i].sg \in Subgoal /\ complstk[i].level \in Nat
         /\ \A s \in Subgoal : table[s] \in SubgoalFrame
<1>1. cps \in Seq(ChoicePoint) /\ complstk \in Seq(CompletionFrame)
  BY DEF Types
<1>2. Len(cps) \in Nat /\ DOMAIN cps = 1 .. Len(cps) /\ \A c \in DOMAIN cps : cps[c] \in ChoicePoint
  BY <1>1
<1>3. /\ Len(complstk) \in Nat /\ DOMAIN complstk = 1 .. Len(complstk)
      /\ \A i \in DOMAIN complstk : complstk[i] \in CompletionFrame
  BY <1>1
<1> QED BY <1>2, <1>3 DEF Types, CompletionFrame

LEMMA FramesSame ==
  ASSUME Types, Frames, SameFrames
  PROVE  Frames'
<1>1. \A i \in DOMAIN complstk : complstk[i].sg \in Subgoal /\ GeneratorOf(i)' = GeneratorOf(i)
  BY StackTypes DEF SameFrames, GeneratorOf
<1>2. complstk' = complstk /\ level_num' = level_num /\ DOMAIN cps' = DOMAIN cps
  BY DEF SameFrames
<1>3. ASSUME NEW i \in DOMAIN complstk'
      PROVE /\ table'[complstk'[i].sg].status # "new"
            /\ GeneratorOf(i)' \in DOMAIN cps'
            /\ cps'[GeneratorOf(i)'].sg = complstk'[i].sg /\ cps'[GeneratorOf(i)'].pc # "trie"
            /\ complstk'[i].level <= level_num'
  <2>1. i \in DOMAIN complstk /\ GeneratorOf(i)' = GeneratorOf(i) /\ GeneratorOf(i) \in DOMAIN cps
    BY <1>1, <1>2, <1>3 DEF Frames
  <2> HIDE DEF GeneratorOf
  <2> QED BY <1>1, <1>2, <2>1 DEF Frames, SameFrames
<1>4. ASSUME NEW i \in DOMAIN complstk', NEW j \in DOMAIN complstk', i < j
      PROVE GeneratorOf(i)' < GeneratorOf(j)' /\ complstk'[i].level <= complstk'[j].level
  BY <1>1, <1>2, <1>4 DEF Frames
<1>5. ASSUME NEW s \in Subgoal, table'[s].status = "incomplete"
      PROVE \E i \in DOMAIN complstk' : complstk'[i].sg = s
  BY <1>2, <1>5 DEF Frames, SameFrames
<1>6. ASSUME NEW c \in DOMAIN cps', Unconverted(c)'
      PROVE \E i \in DOMAIN complstk' : GeneratorOf(i)' = c
  <2>1. Unconverted(c)
    BY <1>2, <1>6 DEF SameFrames
  <2> QED BY <1>1, <1>2, <2>1 DEF Frames
<1>7. ASSUME NEW c \in DOMAIN cps', cps'[c].pc = "answer_return"
      PROVE \E i \in DOMAIN complstk' : complstk'[i].sg = cps'[c].sg /\ GeneratorOf(i)' <= c
  <2>1. cps[c].pc = "answer_return" /\ cps'[c].sg = cps[c].sg
    BY <1>2, <1>7 DEF SameFrames
  <2> QED BY <1>1, <1>2, <2>1 DEF Frames
<1> QED BY <1>3, <1>4, <1>5, <1>6, <1>7 DEF Frames

LEMMA LevelsSame ==
  ASSUME Types, Levels, SameFrames
  PROVE  Levels'
<1>1. \A i \in DOMAIN complstk : GeneratorOf(i)' = GeneratorOf(i)
  BY StackTypes DEF SameFrames, GeneratorOf
<1> QED BY <1>1 DEF Levels, SameFrames

LEMMA ListsSame ==
  ASSUME ListsOK, SameShape
  PROVE  ListsOK'
<1>1. DOMAIN cps' = DOMAIN cps /\ Lookups' = Lookups
  BY DEF SameShape, SameFrames, Lookups
<1>2. \A s : Consumers(s)' = Consumers(s)
  BY DEF SameShape, SameFrames, Consumers
<1>3. \A c \in DOMAIN cps : Linkable(c)' = Linkable(c)
  BY <1>2 DEF SameShape, SameFrames, Linkable
<1>4. LookupFields' = LookupFields
  BY <1>1, <1>3 DEF LookupFields
<1>5. \A rank : Ranked(Lookups, rank)' <=> Ranked(Lookups, rank)
  BY <1>1 DEF Ranked
<1>6. \A s \in Subgoal : table'[s].pos_cons = table[s].pos_cons
  BY DEF SameShape, SameFrames
<1> QED BY <1>1, <1>2, <1>4, <1>5, <1>6 DEF ListsOK

\* What is to be shown of the registers.
ChainsFrom(b, m, k) ==
  /\ m = "run" => RootGenerator(k) <= Len(cps)
  /\ \A g \in DOMAIN cps : Unconverted(g) => g <= b /\ (m = "run" => g <= RootGenerator(k))

LEMMA ChainsSame ==
  ASSUME Types, Chains, SameShape, cont' \in Continuation, ChainsFrom(breg', mode', cont')
  PROVE  Chains'
<1>1. DOMAIN cps' = DOMAIN cps /\ Len(cps') = Len(cps)
  BY DEF SameShape, SameFrames
<1>2. ASSUME NEW c \in DOMAIN cps
      PROVE /\ cps'[c].prev = cps[c].prev /\ (Unconverted(c)' <=> Unconverted(c))
            /\ RootGenerator(cps[c].cont)' = RootGenerator(cps[c].cont)
  <2>1. cps'[c].cont = cps[c].cont /\ cps[c].cont.root \in Subgoal \cup {Query}
    BY StackTypes DEF SameShape, SameFrames, ChoicePoint, Continuation, Place
  <2> QED BY <2>1 DEF SameShape, SameFrames, RootGenerator
<1>3. RootGenerator(cont)' = RootGenerator(cont')
  <2>1. cont'.root \in Subgoal \cup {Query}
    BY DEF Continuation, Place
  <2> QED BY <2>1 DEF SameShape, SameFrames, RootGenerator
<1>4. ChainsFrom(breg', mode', cont')
  OBVIOUS
<1>5. /\ mode' = "run" => RootGenerator(cont)' <= Len(cps)
      /\ \A g \in DOMAIN cps : Unconverted(g) => g <= breg' /\ (mode' = "run" => g <= RootGenerator(cont)')
  BY <1>3, <1>4 DEF ChainsFrom
<1> HIDE DEF RootGenerator, Unconverted
<1> QED BY <1>1, <1>2, <1>5 DEF Chains

-----------------------------------------------------------------------------
(* The instructions, one by one: first those that leave the shape alone. *)

\* What the invariant says of the choice point to backtrack to.
LEMMA Top ==
  ASSUME IInv, breg # 0
  PROVE  /\ breg \in DOMAIN cps /\ cps[breg] \in ChoicePoint /\ Continues(breg)
         /\ Callee(cps[breg].cont) \in Subgoal
         /\ ~Unconverted(breg) => ChainsFrom(breg, "run", cps[breg].cont) /\ ChainsFrom(cps[breg].prev, "run", cps[breg].cont)
         /\ cps[breg].prev \in 0 .. Len(cps)
<1>1. breg \in DOMAIN cps /\ cps[breg] \in ChoicePoint /\ breg <= Len(cps) /\ Len(cps) \in Nat
  BY StackTypes DEF IInv, Types
<1>2. Continues(breg)
  BY <1>1 DEF IInv, Evaluation
<1>3. cps[breg].cont \in Continuation
  BY <1>1 DEF ChoicePoint
<1>4. Callee(cps[breg].cont) \in Subgoal
  BY <1>2, <1>3, ClauseOf DEF Continues, IInv, Types
<1>5. ASSUME NEW g \in DOMAIN cps, Unconverted(g)
      PROVE /\ g <= breg /\ g \in Nat
            /\ g < breg => g <= cps[breg].prev /\ g <= RootGenerator(cps[breg].cont)
  BY <1>1, <1>5, StackTypes DEF IInv, Chains
<1>6. RootGenerator(cps[breg].cont) < breg /\ breg \in Nat
  BY <1>1, StackTypes DEF IInv, Chains
<1>7. RootGenerator(cps[breg].cont) \in Nat
  BY <1>3, StackTypes DEF RootGenerator, Continuation, Place, SubgoalFrame, IInv
<1>8. ASSUME ~Unconverted(breg), NEW g \in DOMAIN cps, Unconverted(g) PROVE g < breg
  <2>1. g # breg
    BY <1>8
  <2> QED BY <1>5, <1>6, <1>8, <2>1
<1>9. cps[breg].prev \in 0 .. Len(cps)
  BY <1>1 DEF IInv, Chains
<1> HIDE DEF RootGenerator, Unconverted
<1> QED BY <1>1, <1>2, <1>4, <1>5, <1>6, <1>7, <1>8, <1>9 DEF ChainsFrom

\* An unchanged choice point still continues a clause.
LEMMA ContinuesKept ==
  ASSUME prog' = prog, \A s \in Subgoal : table'[s].status = "new" => table[s].status = "new",
         NEW c, cps'[c] = cps[c], Continues(c)
  PROVE  Continues(c)'
BY DEF Continues, Proved, Clause, BodyHolds, IsCall, Callee

\* Nothing but the mode and the answers of the query changes.
LEMMA FailStep ==
  ASSUME IInv, UNCHANGED <<prog, cont, breg, cps, complstk, level_num, table>>,
         mode' \in {"fail", "halt"} \/ mode' = mode,
         returned' \in Seq(Seq(Value)), ReturnedSound'
  PROVE  IInv'
<1>1. Types'
  BY DEF IInv, Types
<1>2. Evaluation'
  <2>1. Proved(cont)' /\ \A c \in DOMAIN cps : Continues(c)'
    BY DEF IInv, Evaluation, Continues, Proved, Clause, BodyHolds, IsCall, Callee
  <2> QED BY <2>1 DEF IInv, Evaluation, AnswersSound
<1>3. SameShape
  BY DEF SameShape, SameFrames, Unconverted
<1>4. ChainsFrom(breg', mode', cont')
  BY DEF IInv, Chains, ChainsFrom
<1>5. Chains'
  BY <1>3, <1>4, ChainsSame DEF IInv, Types
<1> QED BY <1>1, <1>2, <1>3, <1>5, FramesSame, LevelsSame, ListsSame DEF IInv, SameShape

LEMMA QuerySolutionStep == IInv /\ QuerySolution => IInv'
<1> SUFFICES ASSUME IInv, QuerySolution PROVE IInv'
  OBVIOUS
<1>1. /\ cont.root = Query /\ Derives(cont) /\ returned' = Append(returned, cont.ans) /\ mode' = "fail"
      /\ UNCHANGED <<prog, cont, breg, cps, complstk, level_num, table>>
  BY DEF QuerySolution
<1>2. cont.ans \in Seq(Value) /\ returned \in Seq(Seq(Value)) /\ Proved(cont)
  BY DEF IInv, Types, Continuation, Evaluation
<1>3. returned' \in Seq(Seq(Value)) /\ Range(returned') \subseteq Range(returned) \cup {cont.ans}
  <2> DEFINE S == Seq(Value)
             a == cont.ans
  <2>1. a \in S /\ returned \in Seq(S) /\ returned' = Append(returned, a)
    BY <1>1, <1>2
  <2> HIDE DEF S, a
  <2>2. returned' \in Seq(S) /\ Range(returned') \subseteq Range(returned) \cup {a}
    BY <2>1 DEF Range
  <2> QED BY <2>2 DEF S, a
<1>4. cont.ans \in Solutions
  BY <1>1, <1>2 DEF Solutions, Proved, Derives, Clause
<1>5. Solutions' = Solutions
  BY <1>1 DEF Solutions
<1>6. ReturnedSound'
  BY <1>3, <1>4, <1>5 DEF IInv, Evaluation, ReturnedSound
<1> QED BY <1>1, <1>3, <1>6, FailStep

LEMMA ClauseFailsStep == IInv /\ (ClauseFails \/ Halt \/ UNCHANGED vars) => IInv'
<1> SUFFICES ASSUME IInv, ClauseFails \/ Halt \/ UNCHANGED vars PROVE IInv'
  OBVIOUS
<1>1. UNCHANGED <<prog, cont, breg, cps, complstk, level_num, table>> /\ returned' = returned
      /\ (mode' \in {"fail", "halt"} \/ mode' = mode)
  BY DEF ClauseFails, Halt, vars
<1>2. returned' \in Seq(Seq(Value)) /\ ReturnedSound'
  BY <1>1 DEF IInv, Types, Evaluation, ReturnedSound, Solutions
<1> QED BY <1>1, <1>2, FailStep

\* Backtracking changes the choice point at breg at most, and runs a continuation.
LEMMA ResumeStep ==
  ASSUME IInv, UNCHANGED <<prog, complstk, level_num, table, returned>>, breg # 0,
         mode' \in {"run", "fail"}, cont' \in Continuation, Proved(cont)',
         NEW x \in ChoicePoint, cps' = [cps EXCEPT ![breg] = x],
         x.sg = cps[breg].sg, x.cont = cps[breg].cont, x.prev = cps[breg].prev,
         x.lookup = cps[breg].lookup, x.pc = cps[breg].pc \/ {x.pc, cps[breg].pc} \subseteq {"clause", "check_complete"},
         x.pc = "clause" => x.next \in DOMAIN prog.clauses[x.sg],
         x.todo \subseteq cps[breg].todo,
         breg' \in 0 .. Len(cps), ChainsFrom(breg', mode', cont')
  PROVE  IInv'
<1>1. cps \in Seq(ChoicePoint) /\ breg \in DOMAIN cps
  BY Top DEF IInv, Types
<1>2. /\ cps' \in Seq(ChoicePoint) /\ Len(cps') = Len(cps) /\ DOMAIN cps' = DOMAIN cps
      /\ cps'[breg] = x /\ \A c \in DOMAIN cps : c # breg => cps'[c] = cps[c]
  BY <1>1, ExceptSeq
<1>3. Types'
  BY <1>2 DEF IInv, Types
<1>4. \A s \in Subgoal : table'[s].status = "new" => table[s].status = "new"
  OBVIOUS
<1>5. ASSUME NEW c \in DOMAIN cps PROVE Continues(c)'
  <2>1. Continues(c)
    BY <1>5 DEF IInv, Evaluation
  <2>2. CASE c # breg
    BY <1>2, <1>4, <2>1, <2>2, ContinuesKept
  <2>3. CASE c = breg
    <3>1. Proved(x.cont)'
      BY <2>1, <2>3 DEF Continues, Proved, Clause, BodyHolds
    <3>2. /\ IsCall(x.cont)' <=> IsCall(cps[breg].cont)
          /\ Callee(x.cont)' = Callee(cps[breg].cont)
      BY DEF IsCall, Callee, Clause
    <3>3. cps'[c] = x
      BY <1>2, <2>3
    <3> QED BY <2>1, <2>3, <3>1, <3>2, <3>3 DEF Continues
  <2> QED BY <2>2, <2>3
<1>6. Evaluation'
  BY <1>2, <1>5 DEF IInv, Evaluation, AnswersSound, ReturnedSound, Solutions
<1>7. SameShape
  <2>1. ASSUME NEW c \in DOMAIN cps
        PROVE /\ cps'[c].sg = cps[c].sg /\ cps'[c].cont = cps[c].cont
              /\ cps'[c].prev = cps[c].prev /\ cps'[c].lookup = cps[c].lookup
              /\ cps'[c].pc = "answer_return" <=> cps[c].pc = "answer_return"
              /\ cps'[c].pc = "trie" <=> cps[c].pc = "trie"
              /\ Unconverted(c)' <=> Unconverted(c)
    BY <1>2 DEF Unconverted
  <2> QED BY <1>2, <2>1 DEF SameShape, SameFrames
<1>8. Chains'
  BY <1>7, ChainsSame DEF IInv
<1> QED BY <1>3, <1>6, <1>7, <1>8, FramesSame, LevelsSame, ListsSame DEF IInv, SameShape

LEMMA NextClauseStep == IInv /\ NextClause => IInv'
<1> SUFFICES ASSUME IInv, NextClause PROVE IInv'
  OBVIOUS
<1> DEFINE g == cps[breg]
           n == prog.clauses[g.sg]
           x == [g EXCEPT !.pc = AfterClause(g.sg, g.next), !.next = @ + 1]
           k == [root |-> g.sg, clause |-> g.next, ans |-> <<>>]
<1>1. /\ breg # 0 /\ g.pc = "clause" /\ mode' = "run" /\ cont' = k
      /\ cps' = [cps EXCEPT ![breg] = x]
      /\ UNCHANGED <<prog, breg, complstk, level_num, table, returned>>
  BY DEF NextClause, Backtrack
<1>2. breg \in DOMAIN cps /\ g \in ChoicePoint /\ g.sg \in Subgoal /\ g.next \in DOMAIN n /\ breg \in 0 .. Len(cps)
  <2>1. Continues(breg) /\ Callee(g.cont) \in Subgoal /\ breg \in DOMAIN cps /\ g \in ChoicePoint
    BY <1>1, Top
  <2> QED BY <1>1, <2>1 DEF Continues, IInv, Types
<1>3. n \in Seq(DOMAIN Calls)
  BY <1>2, ClauseType DEF IInv, Types
<1>4. g.next \in Nat /\ g.next \in 1 .. Len(n) /\ Len(n) \in Nat
  BY <1>2, <1>3
<1>5. /\ x \in ChoicePoint /\ x.sg = g.sg /\ x.cont = g.cont /\ x.prev = g.prev /\ x.lookup = g.lookup
      /\ x.todo = g.todo /\ x.pc = AfterClause(g.sg, g.next) /\ x.next = g.next + 1
      /\ x.pc \in {"clause", "check_complete"}
  <2> DEFINE pc == AfterClause(g.sg, g.next)
  <2>1. pc \in {"clause", "check_complete"} /\ g.next + 1 \in Nat
    BY <1>4 DEF AfterClause
  <2>2. x = [g EXCEPT !.pc = pc, !.next = g.next + 1]
    OBVIOUS
  <2> HIDE DEF pc, x
  <2>3. /\ x \in ChoicePoint /\ x.sg = g.sg /\ x.cont = g.cont /\ x.prev = g.prev /\ x.lookup = g.lookup
        /\ x.todo = g.todo /\ x.pc = pc /\ x.next = g.next + 1
    BY <1>2, <2>1, <2>2 DEF ChoicePoint
  <2> QED BY <2>1, <2>3 DEF pc
<1>6. x.pc = "clause" => x.next \in DOMAIN n
  <2>1. ASSUME x.pc = "clause" PROVE g.next + 1 \in 1 .. Len(n)
    <3>1. g.next # Len(n)
      BY <1>5, <2>1 DEF AfterClause
    <3> QED BY <1>4, <3>1
  <2> QED BY <1>3, <1>5, <2>1
<1>7. table[g.sg].status # "new" /\ table[g.sg].cp_ptr = breg
  <2>1. Unconverted(breg)
    BY <1>1, <1>2 DEF Unconverted
  <2>2. PICK i \in DOMAIN complstk : GeneratorOf(i) = breg
    BY <1>2, <2>1 DEF IInv, Frames
  <2> QED BY <2>2 DEF IInv, Frames, GeneratorOf
<1>8. cont' \in Continuation /\ Proved(cont')
  <2>1. g.sg \in Place /\ g.sg # Query
    BY <1>2, ProgramAssumption DEF Place
  <2> HIDE DEF g
  <2> QED BY <1>1, <1>2, <1>7, <2>1, FirstProved DEF IInv, Types
<1>9. Proved(cont)'
  BY <1>1, <1>8 DEF Proved, Clause, BodyHolds
<1>10. ChainsFrom(breg', mode', cont')
  <2>1. RootGenerator(cont') = breg
    BY <1>1, <1>2, <1>7, ProgramAssumption DEF RootGenerator
  <2>2. \A c \in DOMAIN cps : Unconverted(c) => c <= breg
    BY DEF IInv, Chains
  <2> QED BY <1>1, <1>2, <2>1, <2>2 DEF ChainsFrom
<1> HIDE DEF x, k
<1> QED BY <1>1, <1>2, <1>5, <1>6, <1>8, <1>9, <1>10, ResumeStep

\* Answers come with a proof.
LEMMA AnswerSound ==
  ASSUME IInv, NEW s \in Subgoal, NEW i \in 1 .. Len(table[s].answers)
  PROVE  table[s].answers[i] \in Value /\ <<s, table[s].answers[i]>> \in Models[prog]
<1>1. table[s].answers \in Seq(Value)
  BY StackTypes DEF IInv, SubgoalFrame
<1>2. table[s].answers[i] \in Value /\ table[s].answers[i] \in Range(table[s].answers)
  BY <1>1 DEF Range
<1> QED BY <1>2 DEF IInv, Evaluation, AnswersSound

\* What is left of the registers' duties after an answer is returned to the choice point.
LEMMA ReturnTo ==
  ASSUME IInv, breg # 0, ~Unconverted(breg), prog' = prog, table' = table,
         NEW a \in Value, <<Callee(cps[breg].cont), a>> \in Models[prog],
         cont' = With(cps[breg].cont, a)
  PROVE  /\ cont' \in Continuation /\ Proved(cont)'
         /\ \A b \in {breg, cps[breg].prev} : b \in 0 .. Len(cps) /\ ChainsFrom(b, "run", cont')
<1> DEFINE k == cps[breg].cont
<1>1. k \in Continuation /\ Proved(k) /\ IsCall(k) /\ breg \in 0 .. Len(cps) /\ cps[breg].prev \in 0 .. Len(cps)
  BY Top DEF Continues, ChoicePoint, IInv, Types
<1>2. cont' \in Continuation /\ Proved(cont') /\ cont'.root = k.root
  <2> HIDE DEF k
  <2> QED BY <1>1, WithProved DEF IInv, Types, k
<1>3. Proved(cont)'
  BY <1>2 DEF Proved, Clause, BodyHolds
<1>4. RootGenerator(cont') = RootGenerator(k)
  BY <1>2 DEF RootGenerator
<1>5. ChainsFrom(breg, "run", k) /\ ChainsFrom(cps[breg].prev, "run", k)
  BY Top
<1> QED BY <1>1, <1>2, <1>3, <1>4, <1>5 DEF ChainsFrom

LEMMA NextFromTrieStep == IInv /\ NextFromTrie => IInv'
<1> SUFFICES ASSUME IInv, NextFromTrie PROVE IInv'
  OBVIOUS
<1> DEFINE t == cps[breg]
<1>1. PICK a \in t.todo :
        /\ cont' = With(t.cont, a) /\ cps' = [cps EXCEPT ![breg].todo = @ \ {a}]
        /\ breg' = IF t.todo = {a} THEN t.prev ELSE breg
  BY DEF NextFromTrie
<1>2. breg # 0 /\ t.pc = "trie" /\ mode' = "run" /\ UNCHANGED <<prog, complstk, level_num, table, returned>>
  BY DEF NextFromTrie, Backtrack
<1>3. t \in ChoicePoint /\ Continues(breg) /\ breg \in DOMAIN cps
  BY <1>2, Top
<1>4. a \in Value /\ <<Callee(t.cont), a>> \in Models[prog] /\ ~Unconverted(breg)
  BY <1>2, <1>3 DEF Continues, ChoicePoint, Unconverted
<1>5. /\ cont' \in Continuation /\ Proved(cont)'
      /\ breg' \in 0 .. Len(cps) /\ ChainsFrom(breg', mode', cont')
  BY <1>1, <1>2, <1>4, ReturnTo
<1> DEFINE x == [t EXCEPT !.todo = @ \ {a}]
<1>6. cps' = [cps EXCEPT ![breg] = x]
  BY <1>1
<1>7. /\ x \in ChoicePoint /\ x.sg = t.sg /\ x.cont = t.cont /\ x.prev = t.prev /\ x.lookup = t.lookup
      /\ x.pc = t.pc /\ x.todo \subseteq t.todo
  BY <1>3 DEF ChoicePoint
<1> HIDE DEF x
<1> QED BY <1>2, <1>5, <1>6, <1>7, ResumeStep

LEMMA AnswerReturnStep == IInv /\ answer_return => IInv'
<1> SUFFICES ASSUME IInv, answer_return PROVE IInv'
  OBVIOUS
<1> DEFINE c == cps[breg]
           answers == table[c.sg].answers
<1>1. breg # 0 /\ c.pc = "answer_return" /\ mode = "fail" /\ UNCHANGED <<prog, complstk, level_num, table, returned>>
  BY DEF answer_return, Backtrack
<1>2. c \in ChoicePoint /\ Continues(breg) /\ breg \in DOMAIN cps /\ ~Unconverted(breg)
  BY <1>1, Top DEF Unconverted
<1>3. c.sg = Callee(c.cont) /\ c.sg \in Subgoal
  BY <1>1, <1>2, Top DEF Continues
<1>4. CASE /\ c.ret < Len(answers) /\ cont' = With(c.cont, answers[c.ret + 1])
           /\ cps' = [cps EXCEPT ![breg].ret = @ + 1] /\ mode' = "run" /\ breg' = breg
  <2> DEFINE x == [c EXCEPT !.ret = @ + 1]
  <2>1. answers \in Seq(Value) /\ c.ret \in Nat
    BY <1>2, <1>3, StackTypes DEF IInv, SubgoalFrame, ChoicePoint
  <2>2. c.ret + 1 \in 1 .. Len(answers)
    BY <1>4, <2>1
  <2>3. answers[c.ret + 1] \in Value /\ <<Callee(c.cont), answers[c.ret + 1]>> \in Models[prog]
    BY <1>3, <2>2, AnswerSound
  <2>4. /\ cont' \in Continuation /\ Proved(cont)'
        /\ breg' \in 0 .. Len(cps) /\ ChainsFrom(breg', mode', cont')
    BY <1>1, <1>2, <1>4, <2>3, ReturnTo
  <2>5. cps' = [cps EXCEPT ![breg] = x]
    BY <1>4
  <2>6. /\ x \in ChoicePoint /\ x.sg = c.sg /\ x.cont = c.cont /\ x.prev = c.prev /\ x.lookup = c.lookup
        /\ x.pc = c.pc /\ x.todo = c.todo
    BY <1>2, <2>1 DEF ChoicePoint
  <2> HIDE DEF x
  <2> QED BY <1>1, <1>4, <2>4, <2>5, <2>6, ResumeStep
<1>5. CASE c.ret = Len(answers) /\ breg' = c.prev /\ UNCHANGED <<cont, cps, mode>>
  <2>1. cps' = [cps EXCEPT ![breg] = c]
    <3>1. cps \in Seq(ChoicePoint)
      BY DEF IInv, Types
    <3> QED BY <1>2, <1>5, <3>1
  <2>2. cont' \in Continuation /\ Proved(cont)'
    <3>1. Proved(cont)
      BY DEF IInv, Evaluation
    <3> QED BY <1>1, <1>5, <3>1, ProvedKept DEF IInv, Types, Proved, Clause, BodyHolds
  <2>3. breg' \in 0 .. Len(cps) /\ ChainsFrom(breg', mode', cont')
    BY <1>1, <1>2, <1>5, Top DEF ChainsFrom
  <2> HIDE DEF c
  <2> QED BY <1>1, <1>2, <1>3, <1>5, <2>1, <2>2, <2>3, ResumeStep DEF c
<1> QED BY <1>4, <1>5 DEF answer_return

\* One more answer, and the generator may be done with its clauses.
LEMMA NewAnswerStep == IInv /\ NewAnswer => IInv'
<1> SUFFICES ASSUME IInv, NewAnswer PROVE IInv'
  OBVIOUS
<1> DEFINE s == cont.root
           a == Derive[Clause(cont)][cont.ans]
           g == table[s].cp_ptr
           isNewAnswer == ~is_completed(s) /\ a \notin Range(table[s].answers)
           status == IF CompletesEarly(s) THEN "complete" ELSE table[s].status
           answers == Append(table[s].answers, a)
<1>1. /\ mode = "run" /\ s \in Subgoal /\ Derives(cont) /\ mode' = "fail"
      /\ UNCHANGED <<prog, cont, complstk, level_num, returned>>
  BY DEF NewAnswer
<1>2. CASE UNCHANGED <<table, cps, breg>>
  <2>1. returned' \in Seq(Seq(Value)) /\ ReturnedSound'
    BY <1>1 DEF IInv, Types, Evaluation, ReturnedSound, Solutions
  <2> QED BY <1>1, <1>2, <2>1, FailStep
<1>3. CASE /\ isNewAnswer
           /\ table' = [table EXCEPT ![s].answers = Append(@, a),
                                     ![s].status = IF CompletesEarly(s) THEN "complete" ELSE @]
           /\ \/ MarkEarly(g) /\ PruneToGenerator(g)
              \/ UNCHANGED <<cps, breg>>
  <2>1. /\ cont \in Continuation /\ Proved(cont) /\ prog \in Programs
        /\ table \in [Subgoal -> SubgoalFrame] /\ table[s] \in SubgoalFrame
    BY <1>1 DEF IInv, Types, Evaluation
  <2>2. Clause(cont) \in Range(prog.clauses[s]) /\ Clause(cont) \in DOMAIN Calls
    BY <2>1, ClauseOf
  <2>3. a \in Value /\ <<s, a>> \in Models[prog]
    <3>1. cont.ans \in DOMAIN Derive[Clause(cont)] /\ BodyHolds(Clause(cont), cont.ans, Models[prog])
      BY <1>1, <2>1 DEF Derives, Proved
    <3>2. <<s, a>> \in Models[prog]
      BY <1>1, <2>1, <2>2, <3>1, LeastModelClosed
    <3> QED BY <2>2, <3>1, <3>2 DEF Value
  <2>4. /\ table[s].answers \in Seq(Value) /\ table[s].status = "incomplete"
        /\ answers \in Seq(Value) /\ status \in {"incomplete", "complete"}
    BY <1>1, <1>3, <2>1, <2>3 DEF Proved, is_completed, SubgoalFrame
  <2>5. /\ table' \in [Subgoal -> SubgoalFrame]
        /\ \A r \in Subgoal : r # s => table'[r] = table[r]
        /\ table'[s].answers = answers /\ table'[s].status = status
        /\ table'[s].pos_cons = table[s].pos_cons /\ table'[s].cp_ptr = g
    <3>1. table' = [table EXCEPT ![s] = [table[s] EXCEPT !.answers = answers, !.status = status]]
      BY <1>1, <1>3, <2>1
    <3> DEFINE x == [table[s] EXCEPT !.answers = answers, !.status = status]
    <3> HIDE DEF answers, status
    <3>2. /\ x \in SubgoalFrame /\ x.answers = answers /\ x.status = status
          /\ x.pos_cons = table[s].pos_cons /\ x.cp_ptr = g
      BY <2>1, <2>4 DEF SubgoalFrame
    <3>3. table' = [table EXCEPT ![s] = x]
      BY <3>1
    <3> HIDE DEF x
    <3> QED BY <1>1, <2>1, <3>2, <3>3
  <2>6. PICK i \in DOMAIN complstk : complstk[i].sg = s
    BY <1>1, <2>4 DEF IInv, Frames
  <2>7. g \in DOMAIN cps /\ cps[g].pc # "trie"
    BY <2>6 DEF IInv, Frames, GeneratorOf
  <2>8. /\ cps' \in Seq(ChoicePoint) /\ Len(cps') = Len(cps) /\ DOMAIN cps' = DOMAIN cps
        /\ \A c \in DOMAIN cps : c # g => cps'[c] = cps[c]
        /\ \/ cps'[g] = cps[g] /\ breg' = breg
           \/ cps'[g] = cps[g] /\ breg' = g /\ cps[g].pc # "answer_return"
           \/ cps'[g] = [cps[g] EXCEPT !.pc = "check_complete"] /\ breg' = g /\ cps[g].pc # "answer_return"
    <3>1. cps \in Seq(ChoicePoint) /\ cps[g] \in ChoicePoint
      BY <2>7 DEF IInv, Types
    <3>2. CASE cps' = cps
      BY <1>3, <2>7, <3>1, <3>2 DEF PruneToGenerator
    <3>3. CASE cps' # cps
      <4> DEFINE x == [cps[g] EXCEPT !.pc = "check_complete"]
      <4>1. cps' = [cps EXCEPT ![g] = x] /\ breg' = g /\ cps[g].pc # "answer_return"
        BY <1>3, <3>3 DEF MarkEarly, PruneToGenerator
      <4>2. x \in ChoicePoint
        BY <3>1 DEF ChoicePoint
      <4> HIDE DEF x
      <4>3. /\ cps' \in Seq(ChoicePoint) /\ Len(cps') = Len(cps) /\ DOMAIN cps' = DOMAIN cps
            /\ cps'[g] = x /\ \A c \in DOMAIN cps : c # g => cps'[c] = cps[c]
        BY <2>7, <3>1, <4>1, <4>2, ExceptSeq
      <4> QED BY <4>1, <4>3 DEF x
    <3> QED BY <3>2, <3>3
  <2> HIDE DEF s, a, g, answers, status
  <2>9. /\ cps'[g].sg = cps[g].sg /\ cps'[g].cont = cps[g].cont /\ cps'[g].todo = cps[g].todo
        /\ cps'[g].next = cps[g].next /\ cps'[g].prev = cps[g].prev /\ cps'[g].lookup = cps[g].lookup
        /\ cps'[g].pc = cps[g].pc \/ (cps'[g].pc = "check_complete" /\ cps[g].pc # "answer_return")
    <3>1. cps[g] \in ChoicePoint
      BY <2>7, StackTypes DEF IInv
    <3> QED BY <2>8, <3>1 DEF ChoicePoint
  <2>10. SameShape
    <3>1. ASSUME NEW c \in DOMAIN cps
          PROVE /\ cps'[c].sg = cps[c].sg /\ cps'[c].cont = cps[c].cont
                /\ cps'[c].prev = cps[c].prev /\ cps'[c].lookup = cps[c].lookup
                /\ cps'[c].pc = "answer_return" <=> cps[c].pc = "answer_return"
                /\ cps'[c].pc = "trie" <=> cps[c].pc = "trie"
                /\ Unconverted(c)' <=> Unconverted(c)
      <4>1. cps[g].pc \in {"clause", "check_complete", "answer_return"}
        BY <2>7, StackTypes DEF IInv, ChoicePoint
      <4> QED BY <2>7, <2>8, <2>9, <4>1 DEF Unconverted
    <3>2. \A r \in Subgoal :
            /\ table'[r].cp_ptr = table[r].cp_ptr /\ table'[r].pos_cons = table[r].pos_cons
            /\ table'[r].status = "new" => table[r].status = "new"
            /\ table'[r].status = "incomplete" => table[r].status = "incomplete"
      BY <2>4, <2>5 DEF g
    <3> QED BY <1>1, <2>8, <3>1, <3>2 DEF SameShape, SameFrames
  <2>11. Types'
    <3>1. breg' \in 0 .. Len(cps')
      BY <2>7, <2>8, StackTypes DEF IInv, Types
    <3> QED BY <1>1, <2>5, <2>8, <3>1 DEF IInv, Types
  <2>12. Evaluation'
    <3>1. \A r \in Subgoal : table'[r].status = "new" => table[r].status = "new"
      BY <2>10 DEF SameShape, SameFrames
    <3>2. Proved(cont)'
      BY <1>1, <2>1, <3>1 DEF Proved, Clause, BodyHolds
    <3>3. ASSUME NEW c \in DOMAIN cps' PROVE Continues(c)'
      <4>1. c \in DOMAIN cps /\ Continues(c)
        BY <2>8, <3>3 DEF IInv, Evaluation
      <4>2. CASE c # g
        BY <1>1, <2>8, <3>1, <4>1, <4>2, ContinuesKept
      <4>3. CASE c = g
        <5>1. cps'[c].cont = cps[c].cont /\ cps'[c].todo = cps[c].todo /\ cps'[c].sg = cps[c].sg
              /\ cps'[c].next = cps[c].next /\ (cps'[c].pc # "check_complete" => cps'[c].pc = cps[c].pc)
              /\ (cps'[c].pc # "trie" => cps[c].pc # "trie")
          BY <2>7, <2>9, <4>3
        <5>2. Proved(cps[c].cont)'
          BY <1>1, <3>1, <4>1, <5>1 DEF Continues, Proved, Clause, BodyHolds
        <5>3. (IsCall(cps[c].cont)' <=> IsCall(cps[c].cont)) /\ Callee(cps[c].cont)' = Callee(cps[c].cont)
          BY <1>1, <5>1 DEF IsCall, Callee, Clause
        <5> QED BY <1>1, <4>1, <5>1, <5>2, <5>3 DEF Continues
      <4> QED BY <4>2, <4>3
    <3>4. AnswersSound'
      <4>1. ASSUME NEW r \in Subgoal, r = s
            PROVE /\ \A b \in Range(table'[r].answers) : <<r, b>> \in Models[prog]
                  /\ \A m, n \in DOMAIN table'[r].answers : table'[r].answers[m] = table'[r].answers[n] => m = n
        <5> DEFINE old == table[s].answers
        <5>1. /\ old \in Seq(Value) /\ a \notin Range(old) /\ \A b \in Range(old) : <<s, b>> \in Models[prog]
              /\ \A m, n \in DOMAIN old : old[m] = old[n] => m = n
          BY <1>1, <1>3, <2>4 DEF IInv, Evaluation, AnswersSound, s
        <5>2. table'[r].answers = Append(old, a)
          BY <2>5, <4>1 DEF answers
        <5> HIDE DEF old
        <5>3. DOMAIN Append(old, a) = 1 .. (Len(old) + 1) /\ DOMAIN old = 1 .. Len(old) /\ Len(old) \in Nat
          BY <5>1, <2>3
        <5>4. \A m \in DOMAIN Append(old, a) : Append(old, a)[m] = IF m \in DOMAIN old THEN old[m] ELSE a
          BY <5>1, <5>3, <2>3
        <5>5. \A m \in DOMAIN Append(old, a) : m \notin DOMAIN old => m = Len(old) + 1
          BY <5>3
        <5>6. \A m \in DOMAIN old : old[m] # a /\ old[m] \in Range(old)
          BY <5>1 DEF Range
        <5> QED BY <2>3, <4>1, <5>1, <5>2, <5>4, <5>5, <5>6 DEF Range
      <4>2. \A r \in Subgoal : r # s => table'[r] = table[r]
        BY <2>5
      <4> QED BY <1>1, <4>1, <4>2 DEF IInv, Evaluation, AnswersSound
    <3> QED BY <1>1, <3>2, <3>3, <3>4 DEF IInv, Evaluation, ReturnedSound, Solutions
  <2>13. ChainsFrom(breg', mode', cont')
    <3>1. ASSUME NEW c \in DOMAIN cps, Unconverted(c) PROVE c <= breg'
      <4>1. c <= breg /\ c <= RootGenerator(cont)
        BY <1>1, <3>1 DEF IInv, Chains
      <4>2. RootGenerator(cont) = g
        BY <1>1, ProgramAssumption DEF RootGenerator, s, g
      <4> QED BY <2>8, <4>1, <4>2
    <3> QED BY <1>1, <3>1 DEF ChainsFrom
  <2>14. Chains'
    BY <1>1, <2>1, <2>10, <2>13, ChainsSame DEF IInv
  <2> QED BY <2>10, <2>11, <2>12, <2>14, FramesSame, LevelsSame, ListsSame DEF IInv, SameShape
<1> QED BY <1>2, <1>3 DEF NewAnswer

-----------------------------------------------------------------------------
(* Calls: a choice point is put on the stack. *)

Pushed(x) == /\ cps' \in Seq(ChoicePoint) /\ Len(cps') = Len(cps) + 1 /\ DOMAIN cps' = 1 .. (Len(cps) + 1)
             /\ cps'[Len(cps) + 1] = x /\ \A c \in DOMAIN cps : c \in DOMAIN cps' /\ cps'[c] = cps[c]

LEMMA PushIt ==
  ASSUME Types, NEW x \in ChoicePoint, cps' = Append(cps, x)
  PROVE  Pushed(x)
<1>1. cps \in Seq(ChoicePoint) /\ Len(cps) \in Nat /\ DOMAIN cps = 1 .. Len(cps)
  BY StackTypes DEF Types
<1>2. /\ cps' \in Seq(ChoicePoint) /\ Len(cps') = Len(cps) + 1
      /\ cps'[Len(cps) + 1] = x /\ \A c \in DOMAIN cps : cps'[c] = cps[c]
  BY <1>1, AppendProperties
<1> QED BY <1>1, <1>2 DEF Pushed

\* The lists: a consumer may be put at the head of its own.
LEMMA PushLists ==
  ASSUME Types, ListsOK, NEW x \in ChoicePoint, Pushed(x), NEW new, new = Len(cps) + 1,
         x.lookup \in {0} \cup (IF x.pc = "answer_return" THEN Consumers(x.sg) ELSE {}),
         \A s \in Subgoal : table'[s].pos_cons = table[s].pos_cons
                            \/ (x.pc = "answer_return" /\ x.sg = s /\ table'[s].pos_cons = new)
  PROVE  ListsOK'
<1>1. /\ DOMAIN cps = 1 .. Len(cps) /\ DOMAIN cps' = DOMAIN cps \cup {new} /\ new \notin DOMAIN cps
      /\ cps'[new] = x /\ \A c \in DOMAIN cps : cps'[c] = cps[c]
  BY StackTypes DEF Pushed
<1>2. \A s : Consumers(s) \subseteq Consumers(s)' /\ Consumers(s) \subseteq DOMAIN cps
  BY <1>1 DEF Consumers
<1>3. x.pc = "answer_return" => new \in Consumers(x.sg)'
  BY <1>1 DEF Consumers
<1>4. \A s \in Subgoal : table'[s].pos_cons \in {0} \cup Consumers(s)'
  BY <1>2, <1>3 DEF ListsOK
<1>5. \A c \in DOMAIN cps : Lookups'[c] = Lookups[c]
  BY <1>1 DEF Lookups
<1>6. Lookups'[new] = x.lookup /\ Lookups' \in [DOMAIN cps' -> {Lookups'[c] : c \in DOMAIN cps'}]
  BY <1>1 DEF Lookups
<1>7. ASSUME NEW c \in DOMAIN cps' PROVE Lookups'[c] \in {0} \cup DOMAIN cps /\ Lookups'[c] \in Linkable(c)'
  <2>1. CASE c \in DOMAIN cps
    <3>1. Lookups[c] \in {0} \cup DOMAIN cps /\ Lookups[c] \in Linkable(c)
      BY <2>1 DEF ListsOK, LookupFields
    <3>2. Linkable(c) \subseteq Linkable(c)'
      BY <1>1, <1>2, <2>1 DEF Linkable
    <3> QED BY <1>5, <2>1, <3>1, <3>2
  <2>2. CASE c = new
    <3>1. x.lookup \in Linkable(c)'
      BY <1>1, <1>2, <2>2 DEF Linkable
    <3> QED BY <1>2, <1>6, <2>2, <3>1
  <2> QED BY <1>1, <2>1, <2>2
<1>8. Lookups' \in LookupFields'
  BY <1>1, <1>6, <1>7 DEF LookupFields
<1>9. PICK N \in Nat : \E rank \in [DOMAIN cps -> 1 .. N] : Ranked(Lookups, rank)
  BY DEF ListsOK
<1>10. PICK rank \in [DOMAIN cps -> 1 .. N] : Ranked(Lookups, rank)
  BY <1>9
<1>11. PICK rank1 \in [DOMAIN cps' -> 1 .. (N + 1)] :
         \A c \in DOMAIN cps' : rank1[c] = IF c \in DOMAIN cps THEN rank[c] ELSE N + 1
  <2>1. [c \in DOMAIN cps' |-> IF c \in DOMAIN cps THEN rank[c] ELSE N + 1] \in [DOMAIN cps' -> 1 .. (N + 1)]
    OBVIOUS
  <2> QED BY <2>1
<1>12. ASSUME NEW c \in DOMAIN cps', Lookups'[c] # 0 PROVE rank1[Lookups'[c]] < rank1[c]
  <2>1. Lookups'[c] \in DOMAIN cps
    BY <1>7, <1>12
  <2>2. rank1[Lookups'[c]] = rank[Lookups'[c]] /\ rank[Lookups'[c]] \in 1 .. N
    BY <1>1, <1>11, <2>1
  <2>3. CASE c \in DOMAIN cps
    <3>1. rank1[c] = rank[c]
      BY <1>11, <2>3
    <3> QED BY <1>5, <1>10, <1>12, <2>2, <2>3, <3>1 DEF Ranked
  <2>4. CASE c \notin DOMAIN cps
    <3>1. rank1[c] = N + 1
      BY <1>11, <2>4
    <3> QED BY <2>2, <3>1
  <2> QED BY <2>3, <2>4
<1>13. Ranked(Lookups, rank1)'
  BY <1>12 DEF Ranked
<1>14. N + 1 \in Nat
  OBVIOUS
<1> QED BY <1>4, <1>8, <1>11, <1>13, <1>14 DEF ListsOK

\* The chains: the new choice point continues the current clause and leads to breg.
LEMMA PushChains ==
  ASSUME IInv, prog' = prog, mode = "run", NEW x \in ChoicePoint, Pushed(x), x.prev = breg, x.cont = cont,
         NEW new, new = Len(cps) + 1,
         \A s \in Subgoal : table[s].status # "new" => table'[s].cp_ptr = table[s].cp_ptr,
         mode' = "run" => RootGenerator(cont)' <= Len(cps'),
         Unconverted(new)' => breg' = new,
         breg' \in {breg, new},
         mode' = "run" => RootGenerator(cont)' = IF Unconverted(new)' THEN new
                                                 ELSE RootGenerator(cont)
  PROVE  Chains'
<1>1. /\ DOMAIN cps = 1 .. Len(cps) /\ Len(cps) \in Nat /\ DOMAIN cps' = 1 .. new /\ Len(cps') = new
      /\ cps'[new] = x /\ \A c \in DOMAIN cps : cps'[c] = cps[c]
      /\ breg \in 0 .. Len(cps)
  BY StackTypes DEF Pushed, IInv, Types
<1>2. \A k \in Continuation : Proved(k) => k.root = Query \/ (k.root \in Subgoal /\ table[k.root].status # "new")
  BY DEF Continuation, Place, Proved
<1>3. ASSUME NEW c \in DOMAIN cps
      PROVE /\ RootGenerator(cps[c].cont)' = RootGenerator(cps[c].cont) /\ cps'[c].prev = cps[c].prev
            /\ Unconverted(c)' <=> Unconverted(c)
  <2>1. cps[c].cont \in Continuation /\ Proved(cps[c].cont)
    BY StackTypes DEF IInv, Evaluation, Continues, ChoicePoint
  <2>2. cps[c].cont.root = Query \/ (cps[c].cont.root \in Subgoal /\ table[cps[c].cont.root].status # "new")
    BY <1>2, <2>1
  <2> QED BY <1>1, <2>2 DEF RootGenerator, Unconverted
<1>4. RootGenerator(cps[new].cont)' = RootGenerator(cont) /\ cps'[new].prev = breg
  <2>1. cont.root = Query \/ (cont.root \in Subgoal /\ table[cont.root].status # "new")
    BY <1>2 DEF IInv, Types, Evaluation
  <2>2. cps'[new].cont = cont
    BY <1>1
  <2>3. RootGenerator(cps[new].cont)' = IF cont.root = Query THEN 0 ELSE table'[cont.root].cp_ptr
    BY <2>2 DEF RootGenerator
  <2> QED BY <1>1, <2>1, <2>3 DEF RootGenerator
<1>5. RootGenerator(cont) \in Nat
  BY StackTypes DEF RootGenerator, Continuation, Place, SubgoalFrame, IInv, Types
<1>6. /\ RootGenerator(cont) <= Len(cps)
      /\ \A c \in DOMAIN cps : cps[c].prev \in 0 .. Len(cps) /\ RootGenerator(cps[c].cont) < c
      /\ \A g \in DOMAIN cps : Unconverted(g) =>
           /\ g <= breg /\ g <= RootGenerator(cont)
           /\ \A c \in DOMAIN cps :
                /\ g < c => g <= cps[c].prev /\ g <= RootGenerator(cps[c].cont)
                /\ c <= g => cps[c].prev < g
  BY DEF IInv, Chains
<1> HIDE DEF RootGenerator, Unconverted
<1>7. ASSUME NEW c \in DOMAIN cps' PROVE cps'[c].prev \in 0 .. Len(cps') /\ RootGenerator(cps[c].cont)' < c
  <2>1. CASE c = new
    BY <1>1, <1>4, <1>5, <1>6, <2>1
  <2>2. CASE c # new
    <3>1. c \in DOMAIN cps
      BY <1>1, <2>2
    <3> QED BY <1>1, <1>3, <1>6, <3>1
  <2> QED BY <2>1, <2>2
<1>8. ASSUME NEW g \in DOMAIN cps', Unconverted(g)'
      PROVE /\ g <= breg' /\ (mode' = "run" => g <= RootGenerator(cont)')
            /\ \A c \in DOMAIN cps' :
                 /\ g < c => g <= cps'[c].prev /\ g <= RootGenerator(cps[c].cont)'
                 /\ c <= g => cps'[c].prev < g
  <2>1. CASE g = new
    <3>1. breg' = new /\ (mode' = "run" => RootGenerator(cont)' = new)
      BY <1>8, <2>1
    <3>2. ASSUME NEW c \in DOMAIN cps' PROVE ~(new < c) /\ cps'[c].prev < new
      <4>1. CASE c = new
        BY <1>1, <1>4, <4>1
      <4>2. CASE c # new
        <5>1. c \in DOMAIN cps
          BY <1>1, <4>2
        <5> QED BY <1>1, <1>3, <1>6, <5>1
      <4> QED BY <4>1, <4>2
    <3> QED BY <1>1, <2>1, <3>1, <3>2
  <2>2. CASE g # new
    <3>1. g \in DOMAIN cps /\ Unconverted(g)
      BY <1>1, <1>3, <1>8, <2>2
    <3>2. g <= breg /\ g <= RootGenerator(cont) /\ g <= Len(cps)
      BY <1>1, <1>6, <3>1
    <3>3. breg' \in {breg, new} /\ (mode' = "run" => RootGenerator(cont)' \in {new, RootGenerator(cont)})
      OBVIOUS
    <3>4. ASSUME NEW c \in DOMAIN cps'
          PROVE /\ g < c => g <= cps'[c].prev /\ g <= RootGenerator(cps[c].cont)'
                /\ c <= g => cps'[c].prev < g
      <4>1. CASE c = new
        BY <1>1, <1>4, <3>1, <3>2, <4>1
      <4>2. CASE c # new
        <5>1. c \in DOMAIN cps
          BY <1>1, <4>2
        <5> QED BY <1>1, <1>3, <1>6, <3>1, <5>1
      <4> QED BY <4>1, <4>2
    <3> QED BY <1>1, <3>1, <3>2, <3>3, <3>4
  <2> QED BY <2>1, <2>2
<1> QED BY <1>7, <1>8 DEF Chains

\* The clauses: the new choice point continues the current one.
LEMMA PushEvaluation ==
  ASSUME IInv, prog' = prog, returned' = returned, NEW x \in ChoicePoint, Pushed(x),
         x.cont = cont, IsCall(cont), Proved(cont)',
         x.pc # "trie" => x.sg = Callee(cont),
         x.pc = "clause" => x.next \in DOMAIN prog.clauses[x.sg],
         \A a \in x.todo : <<Callee(cont), a>> \in Models[prog],
         \A s \in Subgoal : table'[s].answers = table[s].answers
                            /\ (table'[s].status = "new" => table[s].status = "new")
  PROVE  Evaluation'
<1>1. ASSUME NEW c \in DOMAIN cps' PROVE Continues(c)'
  <2>1. CASE c \in DOMAIN cps
    <3>1. cps'[c] = cps[c] /\ Continues(c)
      BY <2>1 DEF Pushed, IInv, Evaluation
    <3> QED BY <3>1, ContinuesKept
  <2>2. CASE c \notin DOMAIN cps
    <3>1. cps'[c] = x
      BY <1>1, <2>2, StackTypes DEF Pushed, IInv
    <3>2. Proved(cont)
      BY DEF IInv, Evaluation
    <3>3. Proved(x.cont)'
      BY <3>2 DEF Proved, Clause, BodyHolds
    <3>4. (IsCall(x.cont)' <=> IsCall(cont)) /\ Callee(x.cont)' = Callee(cont)
      BY DEF IsCall, Callee, Clause
    <3> QED BY <3>1, <3>3, <3>4 DEF Continues
  <2> QED BY <2>1, <2>2
<1>2. AnswersSound' /\ ReturnedSound'
  BY DEF IInv, Evaluation, AnswersSound, ReturnedSound, Solutions
<1> QED BY <1>1, <1>2 DEF Evaluation

\* The frames: no generator is added.
LEMMA PushFrames ==
  ASSUME IInv, NEW x \in ChoicePoint, Pushed(x), DOMAIN complstk' = DOMAIN complstk,
         \A i \in DOMAIN complstk : complstk'[i].sg = complstk[i].sg /\ complstk'[i].level <= level_num',
         \A i, j \in DOMAIN complstk : i < j => complstk'[i].level <= complstk'[j].level,
         \A s \in Subgoal : table'[s].cp_ptr = table[s].cp_ptr /\ table'[s].status = table[s].status,
         \/ x.pc = "trie"
         \/ x.pc = "answer_return" /\ \E i \in DOMAIN complstk : complstk[i].sg = x.sg
  PROVE  Frames'
<1>1. /\ DOMAIN cps = 1 .. Len(cps) /\ Len(cps) \in Nat
      /\ DOMAIN cps' = DOMAIN cps \cup {Len(cps) + 1} /\ Len(cps) + 1 \notin DOMAIN cps
      /\ cps'[Len(cps) + 1] = x /\ \A c \in DOMAIN cps : cps'[c] = cps[c]
  BY StackTypes DEF Pushed, IInv
<1>2. \A i \in DOMAIN complstk : complstk[i].sg \in Subgoal /\ GeneratorOf(i)' = GeneratorOf(i)
  BY StackTypes DEF IInv, GeneratorOf
<1>3. ASSUME NEW i \in DOMAIN complstk'
      PROVE /\ table'[complstk'[i].sg].status # "new"
            /\ GeneratorOf(i)' \in DOMAIN cps'
            /\ cps'[GeneratorOf(i)'].sg = complstk'[i].sg /\ cps'[GeneratorOf(i)'].pc # "trie"
            /\ complstk'[i].level <= level_num'
  <2>1. i \in DOMAIN complstk /\ GeneratorOf(i) \in DOMAIN cps
    BY <1>3 DEF IInv, Frames
  <2> HIDE DEF GeneratorOf
  <2> QED BY <1>1, <1>2, <2>1 DEF IInv, Frames
<1>4. ASSUME NEW i \in DOMAIN complstk', NEW j \in DOMAIN complstk', i < j
      PROVE GeneratorOf(i)' < GeneratorOf(j)' /\ complstk'[i].level <= complstk'[j].level
  BY <1>2, <1>4 DEF IInv, Frames
<1>5. ASSUME NEW s \in Subgoal, table'[s].status = "incomplete"
      PROVE \E i \in DOMAIN complstk' : complstk'[i].sg = s
  BY <1>5 DEF IInv, Frames
<1>6. ASSUME NEW c \in DOMAIN cps', Unconverted(c)'
      PROVE \E i \in DOMAIN complstk' : GeneratorOf(i)' = c
  <2>1. c \in DOMAIN cps
    BY <1>1, <1>6 DEF Unconverted
  <2>2. Unconverted(c)
    BY <1>1, <1>6, <2>1 DEF Unconverted
  <2> QED BY <1>2, <2>1, <2>2 DEF IInv, Frames
<1>7. ASSUME NEW c \in DOMAIN cps', cps'[c].pc = "answer_return"
      PROVE \E i \in DOMAIN complstk' : complstk'[i].sg = cps'[c].sg /\ GeneratorOf(i)' <= c
  <2>1. CASE c \in DOMAIN cps
    BY <1>1, <1>2, <1>7, <2>1 DEF IInv, Frames
  <2>2. CASE c \notin DOMAIN cps
    <3>1. c = Len(cps) + 1 /\ cps'[c] = x
      BY <1>1, <2>2
    <3>2. PICK i \in DOMAIN complstk : complstk[i].sg = x.sg
      BY <1>7, <3>1
    <3>3. GeneratorOf(i) \in DOMAIN cps
      BY DEF IInv, Frames
    <3>4. GeneratorOf(i) <= c
      BY <1>1, <3>1, <3>3
    <3> QED BY <1>2, <3>1, <3>2, <3>4
  <2> QED BY <2>1, <2>2
<1> QED BY <1>3, <1>4, <1>5, <1>6, <1>7 DEF Frames

\* Calls of completed tables: the trie's choice point changes no frame and no list.
LEMMA CallCompletedStep == IInv /\ CallCompleted => IInv'
<1> SUFFICES ASSUME IInv, CallCompleted PROVE IInv'
  OBVIOUS
<1> DEFINE s == Callee(cont)
           answers == Range(table[s].answers)
<1>1. /\ mode = "run" /\ IsCall(cont)
      /\ UNCHANGED <<prog, complstk, level_num, table, returned>>
  BY DEF CallCompleted
<1>2. cont \in Continuation /\ Proved(cont) /\ prog \in Programs /\ s \in Subgoal
  BY <1>1, ClauseOf DEF IInv, Types, Evaluation
<1>3. \A a \in answers : a \in Value /\ <<s, a>> \in Models[prog]
  <2>1. table[s].answers \in Seq(Value)
    BY <1>2, StackTypes DEF IInv, SubgoalFrame
  <2> QED BY <1>2, <2>1 DEF IInv, Evaluation, AnswersSound, Range
<1>4. CASE mode' = "fail" /\ UNCHANGED <<cont, breg, cps>>
  <2>1. returned' \in Seq(Seq(Value)) /\ ReturnedSound'
    BY <1>1 DEF IInv, Types, Evaluation, ReturnedSound, Solutions
  <2> QED BY <1>1, <1>4, <2>1, FailStep
<1>5. CASE EnterTrie(cps, answers, cont, breg)
  <2> HIDE DEF s, answers
  <2>1. PICK a \in answers :
          /\ mode' = "run" /\ cont' = With(cont, a)
          /\ \/ cps' = cps /\ breg' = breg
             \/ /\ cps' = Append(cps, [TabledCP("trie", cont.root) EXCEPT
                                         !.cont = cont, !.prev = breg, !.todo = RestOfTrie(answers, a)])
                /\ breg' = Len(cps')
    BY <1>5 DEF EnterTrie
  <2>2. cont' \in Continuation /\ Proved(cont') /\ cont'.root = cont.root
    BY <1>1, <1>2, <1>3, <2>1, WithProved DEF s
  <2>3. Proved(cont)'
    BY <1>1, <2>2 DEF Proved, Clause, BodyHolds
  <2>4. RootGenerator(cont)' = RootGenerator(cont) /\ RootGenerator(cont') = RootGenerator(cont)
    BY <1>1, <2>2 DEF RootGenerator
  <2>5. CASE cps' = cps /\ breg' = breg
    <3>1. Types'
      BY <1>1, <2>1, <2>2, <2>5 DEF IInv, Types
    <3>2. Evaluation'
      <4>1. \A r \in Subgoal : table'[r].status = "new" => table[r].status = "new"
        BY <1>1
      <4>2. \A c \in DOMAIN cps' : Continues(c)'
        BY <1>1, <2>5, <4>1, ContinuesKept DEF IInv, Evaluation
      <4> QED BY <1>1, <2>3, <4>2 DEF IInv, Evaluation, AnswersSound, ReturnedSound, Solutions
    <3>3. SameShape
      BY <1>1, <2>5 DEF SameShape, SameFrames, Unconverted
    <3>4. ChainsFrom(breg', mode', cont')
      BY <1>1, <2>1, <2>4, <2>5 DEF IInv, Chains, ChainsFrom
    <3>5. Chains'
      BY <2>2, <3>3, <3>4, ChainsSame DEF IInv
    <3> QED BY <3>1, <3>2, <3>3, <3>5, FramesSame, LevelsSame, ListsSame DEF IInv, SameShape
  <2>6. CASE /\ cps' = Append(cps, [TabledCP("trie", cont.root) EXCEPT
                                      !.cont = cont, !.prev = breg, !.todo = RestOfTrie(answers, a)])
             /\ breg' = Len(cps')
    <3>1. PICK x \in ChoicePoint :
            /\ cps' = Append(cps, x) /\ x.pc = "trie" /\ x.cont = cont /\ x.prev = breg /\ x.lookup = 0
            /\ x.todo \subseteq answers
      <4> DEFINE todo == RestOfTrie(answers, a)
                 y == TabledCP("trie", cont.root)
                 x == [y EXCEPT !.cont = cont, !.prev = breg, !.todo = todo]
      <4>1. todo \subseteq answers /\ todo \in SUBSET Value
        BY <1>3 DEF RestOfTrie
      <4>2. breg \in Nat /\ cont.root \in Place
        BY <1>2, StackTypes DEF IInv, Types, Continuation
      <4>3. y \in ChoicePoint /\ y.pc = "trie" /\ y.lookup = 0
        BY <1>2, <4>2 DEF TabledCP, ChoicePoint
      <4> HIDE DEF todo, y
      <4>4. /\ x \in ChoicePoint /\ x.pc = y.pc /\ x.lookup = y.lookup
            /\ x.cont = cont /\ x.prev = breg /\ x.todo = todo
        BY <1>2, <4>1, <4>2, <4>3 DEF ChoicePoint
      <4>5. cps' = Append(cps, x)
        BY <2>6 DEF todo, y
      <4> HIDE DEF x
      <4> QED BY <4>1, <4>3, <4>4, <4>5
    <3>2. Pushed(x)
      BY <3>1, PushIt DEF IInv
    <3>3. PICK new : new = Len(cps) + 1
      OBVIOUS
    <3>4. new \in Nat /\ breg' = new /\ cps'[new] = x /\ Len(cps') = new /\ new \notin DOMAIN cps
          /\ DOMAIN cps' = DOMAIN cps \cup {new} /\ \A c \in DOMAIN cps : cps'[c] = cps[c]
      BY <2>6, <3>2, <3>3, StackTypes DEF Pushed, IInv
    <3>5. ~Unconverted(new)'
      BY <3>1, <3>4 DEF Unconverted
    <3>6. Types'
      BY <1>1, <2>1, <2>2, <3>2, <3>4 DEF IInv, Types, Pushed
    <3>7. Evaluation'
      BY <1>1, <1>3, <2>3, <3>1, <3>2, PushEvaluation DEF s
    <3>8. Frames'
      BY <1>1, <3>1, <3>2, PushFrames DEF IInv, Frames
    <3>9. Levels'
      <4>1. \A i \in DOMAIN complstk : GeneratorOf(i)' = GeneratorOf(i)
        BY <1>1 DEF GeneratorOf
      <4> QED BY <1>1, <3>1, <3>4, <4>1 DEF IInv, Levels
    <3>10. ListsOK'
      BY <1>1, <3>1, <3>2, <3>3, PushLists DEF IInv
    <3>11. Chains'
      <4>1. RootGenerator(cont) <= Len(cps) /\ Len(cps') = Len(cps) + 1 /\ Len(cps) \in Nat
        BY <1>1, <3>3, <3>4, StackTypes DEF IInv, Chains
      <4>2. RootGenerator(cont) \in Nat
        BY <1>2, StackTypes DEF RootGenerator, Continuation, Place, SubgoalFrame, IInv
      <4>3. RootGenerator(cont)' <= Len(cps')
        BY <2>4, <4>1, <4>2
      <4> HIDE DEF RootGenerator
      <4> QED BY <1>1, <2>1, <2>4, <3>1, <3>2, <3>3, <3>4, <3>5, <4>3, PushChains
    <3> QED BY <3>6, <3>7, <3>8, <3>9, <3>10, <3>11 DEF IInv
  <2> QED BY <2>1, <2>5, <2>6
<1> QED BY <1>4, <1>5 DEF CallCompleted

\* A subgoal has one frame at most.
LEMMA OneFrame ==
  ASSUME IInv, NEW i \in DOMAIN complstk, NEW j \in DOMAIN complstk, complstk[i].sg = complstk[j].sg
  PROVE  i = j
<1>1. i \in Int /\ j \in Int /\ GeneratorOf(i) = GeneratorOf(j) /\ GeneratorOf(i) \in Nat
  BY StackTypes DEF IInv, GeneratorOf, SubgoalFrame
<1>2. i < j => GeneratorOf(i) < GeneratorOf(j)
  BY DEF IInv, Frames
<1>3. j < i => GeneratorOf(j) < GeneratorOf(i)
  BY DEF IInv, Frames
<1> HIDE DEF GeneratorOf
<1> QED BY <1>1, <1>2, <1>3

\* The frame of an incomplete subgoal.
LEMMA FrameOfIncomplete ==
  ASSUME IInv, NEW s \in Subgoal, table[s].status = "incomplete"
  PROVE  FrameOf(s) \in DOMAIN complstk /\ complstk[FrameOf(s)].sg = s
<1>1. \E i \in DOMAIN complstk : complstk[i].sg = s
  BY DEF IInv, Frames
<1> QED BY <1>1 DEF FrameOf

\* adjust_level gives all frames from the i-th one on its level.
LEMMA AdjustLevel ==
  ASSUME IInv, NEW i \in DOMAIN complstk
  PROVE  /\ adjust_level(i) \in Seq(CompletionFrame) /\ DOMAIN adjust_level(i) = DOMAIN complstk
         /\ \A j \in DOMAIN complstk :
              /\ adjust_level(i)[j].sg = complstk[j].sg
              /\ adjust_level(i)[j].level = IF j >= i THEN complstk[i].level ELSE complstk[j].level
<1> DEFINE l == complstk[i].level
           n == Len(complstk)
           new == [j \in DOMAIN complstk |->
                     IF j >= i THEN [complstk[j] EXCEPT !.level = l] ELSE complstk[j]]
<1>1. /\ n \in Nat /\ DOMAIN complstk = 1 .. n /\ complstk \in Seq(CompletionFrame)
      /\ \A j \in DOMAIN complstk : complstk[j] \in CompletionFrame /\ complstk[j].level \in Nat
      /\ \A j, k \in DOMAIN complstk : j < k => complstk[j].level <= complstk[k].level
  BY StackTypes DEF IInv, Frames, Types
<1>2. n \in DOMAIN complstk /\ i \in 1 .. n
  BY <1>1
<1>3. CASE adjust_level(i) = complstk /\ ~(l < complstk[n].level)
  <2>1. ASSUME NEW j \in DOMAIN complstk, j >= i PROVE complstk[j].level = l
    <3>1. j # i => l <= complstk[j].level
      BY <1>1, <2>1
    <3>2. j # n => complstk[j].level <= complstk[n].level
      BY <1>1, <1>2
    <3>3. l \in Nat /\ complstk[j].level \in Nat /\ complstk[n].level \in Nat
      BY <1>1, <1>2
    <3> QED BY <1>3, <3>1, <3>2, <3>3
  <2> QED BY <1>1, <1>3, <2>1
<1>4. CASE adjust_level(i) = new
  <2>1. ASSUME NEW j \in DOMAIN complstk
        PROVE /\ new[j] \in CompletionFrame /\ new[j].sg = complstk[j].sg
              /\ new[j].level = IF j >= i THEN l ELSE complstk[j].level
    <3>1. l \in Nat /\ complstk[j] \in CompletionFrame
      BY <1>1
    <3> QED BY <3>1 DEF CompletionFrame
  <2>2. new \in [1 .. n -> CompletionFrame]
    BY <1>1, <2>1
  <2>3. new \in Seq(CompletionFrame)
    <3> HIDE DEF new
    <3> QED BY <1>1, <2>2
  <2> QED BY <1>4, <2>1, <2>3
<1>5. Last(complstk) = complstk[n]
  BY DEF Last
<1> QED BY <1>3, <1>4, <1>5 DEF adjust_level

\* A call of an incomplete table: its level goes up to the youngest frame, so that no
\* leader is left between the new consumer and its producer.
LEMMA NewConsumerStep == IInv /\ NewConsumer => IInv'
<1> SUFFICES ASSUME IInv, NewConsumer PROVE IInv'
  OBVIOUS
<1> DEFINE s == Callee(cont)
           i == FrameOf(s)
           answers == table[s].answers
<1>1. /\ mode = "run" /\ IsCall(cont) /\ table[s].status = "incomplete"
      /\ complstk' = adjust_level(i)
      /\ UNCHANGED <<prog, level_num, returned>>
  BY DEF NewConsumer
<1>2. cont \in Continuation /\ Proved(cont) /\ prog \in Programs /\ s \in Subgoal
  BY <1>1, ClauseOf DEF IInv, Types, Evaluation
<1>3. i \in DOMAIN complstk /\ complstk[i].sg = s
  BY <1>1, <1>2, FrameOfIncomplete
<1>4. PICK new : new = Len(cps) + 1
  OBVIOUS
<1>5. PICK x \in ChoicePoint :
        /\ x.pc = "answer_return" /\ x.sg = s /\ x.cont = cont /\ x.prev = breg
        /\ x.lookup = table[s].pos_cons /\ x.todo = {}
        /\ cps' = Append(cps, x)
        /\ \/ /\ 1 \in 1 .. Len(answers) /\ breg' = Len(cps') /\ mode' = "run"
              /\ cont' = With(cont, answers[1])
           \/ mode' = "fail" /\ UNCHANGED <<breg, cont>>
  <2> DEFINE c == ConsumerCP(s)
             y == [c EXCEPT !.ret = 1]
  <2>1. breg \in Nat /\ s \in Place /\ table[s].pos_cons \in Nat
    BY <1>2, StackTypes DEF IInv, Types, Place, SubgoalFrame
  <2>2. c \in ChoicePoint /\ c.pc = "answer_return" /\ c.sg = s /\ c.cont = cont /\ c.prev = breg
        /\ c.lookup = table[s].pos_cons /\ c.todo = {}
    <3> DEFINE z == TabledCP("answer_return", s)
               p == table[s].pos_cons
    <3>1. /\ z \in ChoicePoint /\ z.pc = "answer_return" /\ z.sg = s /\ z.cont = cont /\ z.prev = breg
          /\ z.todo = {}
      <4> HIDE DEF s, i, answers
      <4> QED BY <1>2, <2>1 DEF TabledCP, ChoicePoint
    <3>2. p \in Nat /\ c = [z EXCEPT !.lookup = p]
      BY <2>1 DEF ConsumerCP
    <3> HIDE DEF z, p, c, s
    <3>3. /\ c \in ChoicePoint /\ c.pc = z.pc /\ c.sg = z.sg /\ c.cont = z.cont /\ c.prev = z.prev
          /\ c.lookup = p /\ c.todo = z.todo
      BY <3>1, <3>2 DEF ChoicePoint
    <3> QED BY <3>1, <3>3 DEF p
  <2> HIDE DEF c
  <2>3. /\ y \in ChoicePoint /\ y.pc = c.pc /\ y.sg = c.sg /\ y.cont = c.cont /\ y.prev = c.prev
        /\ y.lookup = c.lookup /\ y.todo = c.todo
    BY <2>2 DEF ChoicePoint
  <2>4. answers \in Seq(Value)
    BY <1>2, StackTypes DEF IInv, SubgoalFrame
  <2>5. \/ /\ answers # <<>> /\ cps' = Append(cps, y) /\ breg' = Len(cps') /\ mode' = mode
           /\ cont' = With(cont, answers[1])
        \/ cps' = Append(cps, c) /\ mode' = "fail" /\ UNCHANGED <<breg, cont>>
    BY DEF NewConsumer, c
  <2>6. answers # <<>> => 1 \in 1 .. Len(answers)
    BY <2>4
  <2> HIDE DEF y, s, answers
  <2> QED BY <1>1, <2>2, <2>3, <2>5, <2>6
<1>6. /\ table' = [table EXCEPT ![s].pos_cons = new]
  BY <1>4 DEF NewConsumer
<1>7. Pushed(x)
  BY <1>5, PushIt DEF IInv
<1>8. /\ new \in Nat /\ cps'[new] = x /\ Len(cps') = new /\ new \notin DOMAIN cps
      /\ DOMAIN cps' = DOMAIN cps \cup {new} /\ \A c \in DOMAIN cps : cps'[c] = cps[c]
      /\ DOMAIN cps = 1 .. Len(cps) /\ Len(cps) \in Nat
  BY <1>4, <1>7, StackTypes DEF Pushed, IInv
<1>9. /\ table' \in [Subgoal -> SubgoalFrame]
      /\ \A r \in Subgoal : /\ table'[r].answers = table[r].answers /\ table'[r].status = table[r].status
                            /\ table'[r].cp_ptr = table[r].cp_ptr
                            /\ table'[r].pos_cons = IF r = s THEN new ELSE table[r].pos_cons
  <2> DEFINE y == [table[s] EXCEPT !.pos_cons = new]
  <2>1. table \in [Subgoal -> SubgoalFrame] /\ table[s] \in SubgoalFrame /\ table' = [table EXCEPT ![s] = y]
    BY <1>2, <1>6 DEF IInv, Types
  <2>2. /\ y \in SubgoalFrame /\ y.answers = table[s].answers /\ y.status = table[s].status
        /\ y.cp_ptr = table[s].cp_ptr /\ y.pos_cons = new
    BY <1>8, <2>1 DEF SubgoalFrame
  <2> HIDE DEF y, s
  <2> QED BY <1>2, <2>1, <2>2
<1> HIDE DEF s, i, answers
<1>10. /\ complstk' \in Seq(CompletionFrame) /\ DOMAIN complstk' = DOMAIN complstk
       /\ \A j \in DOMAIN complstk :
            /\ complstk'[j].sg = complstk[j].sg
            /\ complstk'[j].level = IF j >= i THEN complstk[i].level ELSE complstk[j].level
  BY <1>1, <1>3, AdjustLevel
<1>11. cont' \in Continuation /\ Proved(cont') /\ cont'.root = cont.root
  <2>1. CASE cont' = cont
    BY <1>2, <2>1
  <2>2. CASE 1 \in 1 .. Len(answers) /\ cont' = With(cont, answers[1])
    <3>1. answers[1] \in Value /\ <<Callee(cont), answers[1]>> \in Models[prog]
      BY <1>2, <2>2, AnswerSound DEF s, answers
    <3> QED BY <1>1, <1>2, <2>2, <3>1, WithProved
  <2> QED BY <1>5, <2>1, <2>2
<1>12. Proved(cont)'
  BY <1>1, <1>2, <1>9, <1>11 DEF Proved, Clause, BodyHolds
<1>13. Types'
  <2>1. breg' \in 0 .. Len(cps') /\ mode' \in {"run", "fail"}
    BY <1>4, <1>5, <1>8 DEF IInv, Types
  <2> QED BY <1>1, <1>7, <1>9, <1>10, <1>11, <2>1 DEF IInv, Types, Pushed
<1>14. Evaluation'
  BY <1>1, <1>5, <1>7, <1>9, <1>12, PushEvaluation DEF s
<1>15. \A j, k \in DOMAIN complstk : /\ j \in Int /\ k \in Int /\ complstk[j].level \in Nat
                                     /\ j < k => complstk[j].level <= complstk[k].level
  BY StackTypes DEF IInv, Frames
<1>16. Frames'
  <2>1. \A j \in DOMAIN complstk : complstk'[j].sg = complstk[j].sg /\ complstk'[j].level <= level_num'
    BY <1>1, <1>3, <1>10 DEF IInv, Frames
  <2>2. ASSUME NEW j \in DOMAIN complstk, NEW k \in DOMAIN complstk, j < k
        PROVE complstk'[j].level <= complstk'[k].level
    <3>1. complstk[j].level <= complstk[k].level /\ complstk[i].level <= complstk[i].level
      BY <1>3, <1>15, <2>2
    <3>2. ~(j >= i) /\ k >= i => complstk[j].level <= complstk[i].level
      BY <1>3, <1>15
    <3>3. j >= i => k >= i
      BY <1>3, <1>15, <2>2
    <3> QED BY <1>10, <3>1, <3>2, <3>3
  <2> QED BY <1>3, <1>5, <1>7, <1>9, <1>10, <2>1, <2>2, PushFrames
<1>17. Levels'
  <2>1. \A j \in DOMAIN complstk : GeneratorOf(j)' = GeneratorOf(j)
    BY <1>9, <1>10, StackTypes DEF IInv, GeneratorOf
  <2>2. ASSUME NEW c \in DOMAIN cps', NEW k \in DOMAIN complstk, NEW j \in DOMAIN complstk,
               cps'[c].pc = "answer_return", complstk[k].sg = cps'[c].sg, k < j, GeneratorOf(j) < c
        PROVE complstk'[k].level = complstk'[j].level
    <3>1. CASE c \in DOMAIN cps
      <4>1. complstk[k].level = complstk[j].level
        BY <1>8, <2>2, <3>1 DEF IInv, Levels
      <4>2. CASE k >= i
        BY <1>3, <1>10, <1>15, <2>2, <4>2
      <4>3. CASE ~(j >= i)
        BY <1>3, <1>10, <1>15, <2>2, <4>1, <4>3
      <4>4. CASE ~(k >= i) /\ j >= i
        <5>1. complstk[k].level <= complstk[i].level /\ complstk[i].level <= complstk[j].level
          <6>1. k < i /\ (i < j \/ i = j)
            BY <1>3, <1>15, <4>4
          <6>2. i < j => complstk[i].level <= complstk[j].level
            BY <1>3, <1>15
          <6>3. complstk[j].level <= complstk[j].level
            BY <1>15
          <6> QED BY <1>3, <1>15, <6>1, <6>2, <6>3
        <5>2. complstk[i].level = complstk[k].level
          BY <1>3, <1>15, <4>1, <5>1
        <5> QED BY <1>10, <4>4, <5>2
      <4> QED BY <4>2, <4>3, <4>4
    <3>2. CASE c \notin DOMAIN cps
      <4>1. cps'[c].sg = s
        BY <1>5, <1>8, <3>2
      <4>2. k = i
        BY <1>3, <2>2, <4>1, OneFrame
      <4>3. k >= i /\ j >= i
        BY <1>15, <2>2, <4>2
      <4> QED BY <1>10, <4>3
    <3> QED BY <3>1, <3>2
  <2> HIDE DEF GeneratorOf
  <2> QED BY <1>10, <2>1, <2>2 DEF Levels
<1>18. ListsOK'
  <2>1. x.lookup \in {0} \cup Consumers(x.sg)
    BY <1>2, <1>5 DEF IInv, ListsOK
  <2> QED BY <1>4, <1>5, <1>7, <1>9, <2>1, PushLists DEF IInv
<1>19. Chains'
  <2>1. ~Unconverted(new)'
    BY <1>5, <1>8 DEF Unconverted
  <2>2. RootGenerator(cont)' = RootGenerator(cont) /\ RootGenerator(cont) \in Nat
    BY <1>2, <1>9, <1>11, StackTypes DEF RootGenerator, Continuation, Place, SubgoalFrame, IInv
  <2>3. RootGenerator(cont)' <= Len(cps')
    BY <1>1, <1>4, <1>8, <2>2 DEF IInv, Chains
  <2>4. breg' \in {breg, new}
    BY <1>5, <1>8
  <2> HIDE DEF RootGenerator
  <2> QED BY <1>1, <1>4, <1>5, <1>7, <1>9, <2>1, <2>2, <2>3, <2>4, PushChains
<1> QED BY <1>13, <1>14, <1>16, <1>17, <1>18, <1>19 DEF IInv

\* The first call of a subgoal: a generator, with a frame of a level of its own.
LEMMA NewProducerStep == IInv /\ NewProducer => IInv'
<1> SUFFICES ASSUME IInv, NewProducer PROVE IInv'
  OBVIOUS
<1> DEFINE s == Callee(cont)
           clauses == prog.clauses[s]
           x == TabledCP(AfterClause(s, 1), s)
           f == [sg |-> s, level |-> level_num + 1]
<1>1. /\ mode = "run" /\ IsCall(cont) /\ table[s].status = "new" /\ cps' = Append(cps, x)
      /\ breg' = Len(cps') /\ level_num' = level_num + 1 /\ complstk' = Append(complstk, f)
      /\ cont' = [root |-> s, clause |-> 1, ans |-> <<>>]
      /\ UNCHANGED <<prog, mode, returned>>
  BY DEF NewProducer
<1>2. cont \in Continuation /\ Proved(cont) /\ prog \in Programs /\ s \in Subgoal
  BY <1>1, ClauseOf DEF IInv, Types, Evaluation
<1>3. clauses \in Seq(DOMAIN Calls) /\ Len(clauses) \in Nat /\ Len(clauses) >= 1 /\ DOMAIN clauses = 1 .. Len(clauses)
  <2>1. clauses \in Seq(DOMAIN Calls) /\ clauses # <<>>
    BY <1>2, ClauseType
  <2> QED BY <2>1
<1> HIDE DEF s
<1>4. PICK new, n : new = Len(cps) + 1 /\ n = Len(complstk)
  OBVIOUS
<1>5. /\ x \in ChoicePoint /\ x.pc \in {"clause", "check_complete"} /\ x.sg = s /\ x.cont = cont /\ x.prev = breg
      /\ x.lookup = 0 /\ x.todo = {} /\ (x.pc = "clause" => x.next \in DOMAIN clauses)
  <2> DEFINE pc == AfterClause(s, 1)
  <2>1. pc \in {"clause", "check_complete"} /\ (pc = "clause" => Len(clauses) # 1)
    BY DEF AfterClause
  <2>2. breg \in Nat /\ s \in Place
    BY <1>2, StackTypes DEF IInv, Types, Place
  <2> HIDE DEF pc
  <2>3. /\ x \in ChoicePoint /\ x.pc = pc /\ x.sg = s /\ x.cont = cont /\ x.prev = breg
        /\ x.lookup = 0 /\ x.todo = {} /\ x.next = 2
    BY <1>2, <2>1, <2>2 DEF TabledCP, ChoicePoint, pc
  <2> HIDE DEF x, clauses
  <2> QED BY <1>3, <2>1, <2>3
<1> HIDE DEF x
<1>6. Pushed(x)
  BY <1>1, <1>5, PushIt DEF IInv
<1>7. /\ new \in Nat /\ cps'[new] = x /\ Len(cps') = new /\ new \notin DOMAIN cps /\ breg' = new
      /\ DOMAIN cps' = DOMAIN cps \cup {new} /\ \A c \in DOMAIN cps : cps'[c] = cps[c]
      /\ DOMAIN cps = 1 .. Len(cps) /\ Len(cps) \in Nat
  BY <1>1, <1>4, <1>6, StackTypes DEF Pushed, IInv
<1>8. /\ table' \in [Subgoal -> SubgoalFrame]
      /\ \A r \in Subgoal : /\ table'[r].answers = table[r].answers
                            /\ table'[r].pos_cons = table[r].pos_cons
                            /\ table'[r].status = IF r = s THEN "incomplete" ELSE table[r].status
                            /\ table'[r].cp_ptr = IF r = s THEN new ELSE table[r].cp_ptr
  <2> DEFINE y == [table[s] EXCEPT !.status = "incomplete", !.cp_ptr = new]
  <2>1. table \in [Subgoal -> SubgoalFrame] /\ table[s] \in SubgoalFrame
    BY <1>2 DEF IInv, Types
  <2>2. table' = [table EXCEPT ![s] = y]
    BY <1>2, <1>7, <2>1 DEF NewProducer, s
  <2>3. /\ y \in SubgoalFrame /\ y.answers = table[s].answers /\ y.status = "incomplete"
        /\ y.cp_ptr = new /\ y.pos_cons = table[s].pos_cons
    BY <1>7, <2>1 DEF SubgoalFrame
  <2> HIDE DEF y
  <2> QED BY <1>2, <2>1, <2>2, <2>3
<1>9. /\ complstk' \in Seq(CompletionFrame) /\ DOMAIN complstk' = DOMAIN complstk \cup {n + 1}
      /\ n + 1 \notin DOMAIN complstk /\ complstk'[n + 1] = f
      /\ \A i \in DOMAIN complstk : complstk'[i] = complstk[i]
      /\ DOMAIN complstk = 1 .. n /\ n \in Nat
  <2>1. f \in CompletionFrame /\ complstk \in Seq(CompletionFrame)
    BY <1>2 DEF IInv, Types, CompletionFrame
  <2>2. n \in Nat /\ DOMAIN complstk = 1 .. n
    BY <1>4, StackTypes DEF IInv
  <2> HIDE DEF f
  <2>3. /\ complstk' \in Seq(CompletionFrame) /\ Len(complstk') = n + 1
        /\ complstk'[n + 1] = f /\ \A i \in DOMAIN complstk : complstk'[i] = complstk[i]
    BY <1>1, <1>4, <2>1, <2>2, AppendProperties
  <2>4. DOMAIN complstk' = 1 .. (n + 1)
    BY <2>3
  <2> QED BY <2>2, <2>3, <2>4
<1>10. cont' \in Continuation /\ Proved(cont)'
  <2>1. s \in Place /\ s # Query /\ 1 \in DOMAIN clauses
    BY <1>2, <1>3, ProgramAssumption DEF Place
  <2>2. cont' \in Continuation /\ cont'.root = s /\ cont'.clause = 1 /\ cont'.ans = <<>>
    BY <1>1, <2>1 DEF Continuation
  <2>3. Clause(cont)' = clauses[1] /\ Len(Calls[clauses[1]]) \in Nat
    <3>1. clauses[1] \in DOMAIN Calls
      BY <1>3
    <3>2. Len(Calls[clauses[1]]) \in Nat
      BY <3>1, ProgramAssumption
    <3> QED BY <1>1, <2>2, <3>2 DEF Clause
  <2>4. table'[s].status # "new"
    BY <1>2, <1>8
  <2> QED BY <1>1, <2>1, <2>2, <2>3, <2>4 DEF Proved, BodyHolds
<1>11. Types'
  <2>1. level_num' \in Nat /\ breg' \in 0 .. Len(cps')
    BY <1>1, <1>7 DEF IInv, Types
  <2> QED BY <1>1, <1>6, <1>8, <1>9, <1>10, <2>1 DEF IInv, Types, Pushed
<1>12. Evaluation'
  <2>1. \A r \in Subgoal : table'[r].answers = table[r].answers /\ (table'[r].status = "new" => table[r].status = "new")
    BY <1>8
  <2>2. x.pc = "clause" => x.next \in DOMAIN prog.clauses[x.sg]
    BY <1>5
  <2>3. x.pc # "trie" => x.sg = Callee(cont)
    BY <1>5 DEF s
  <2> QED BY <1>1, <1>5, <1>6, <1>10, <2>1, <2>2, <2>3, PushEvaluation
<1>13. \A i \in DOMAIN complstk : /\ complstk[i].sg # s /\ GeneratorOf(i)' = GeneratorOf(i)
                                  /\ GeneratorOf(i) \in DOMAIN cps
  <2> TAKE i \in DOMAIN complstk
  <2>1. complstk[i].sg \in Subgoal /\ table[complstk[i].sg].status # "new" /\ GeneratorOf(i) \in DOMAIN cps
    BY StackTypes DEF IInv, Frames
  <2> QED BY <1>1, <1>8, <1>9, <2>1 DEF GeneratorOf
<1>14. complstk'[n + 1].sg = s /\ complstk'[n + 1].level = level_num + 1 /\ GeneratorOf(n + 1)' = new
  <2>1. complstk'[n + 1].sg = s /\ complstk'[n + 1].level = level_num + 1
    BY <1>9
  <2> QED BY <1>2, <1>8, <2>1 DEF GeneratorOf
<1> HIDE DEF f, clauses
<1>15. Frames'
  <2>1. ASSUME NEW i \in DOMAIN complstk'
        PROVE /\ table'[complstk'[i].sg].status # "new"
              /\ GeneratorOf(i)' \in DOMAIN cps'
              /\ cps'[GeneratorOf(i)'].sg = complstk'[i].sg /\ cps'[GeneratorOf(i)'].pc # "trie"
              /\ complstk'[i].level <= level_num'
    <3>1. CASE i \in DOMAIN complstk
      <4>1. complstk[i].sg \in Subgoal /\ complstk[i].level <= level_num /\ table[complstk[i].sg].status # "new"
            /\ cps[GeneratorOf(i)].sg = complstk[i].sg /\ cps[GeneratorOf(i)].pc # "trie"
        BY <3>1, StackTypes DEF IInv, Frames
      <4>2. complstk[i].level <= level_num'
        BY <1>1, <3>1, <4>1, StackTypes DEF IInv, Types
      <4> HIDE DEF GeneratorOf
      <4> QED BY <1>7, <1>8, <1>9, <1>13, <3>1, <4>1, <4>2
    <3>2. CASE i = n + 1
      <4>1. level_num + 1 <= level_num' /\ s \in Subgoal
        BY <1>1, <1>2 DEF IInv, Types
      <4>2. cps'[new].sg = s /\ cps'[new].pc # "trie" /\ new \in DOMAIN cps'
        BY <1>5, <1>7
      <4> HIDE DEF GeneratorOf
      <4> QED BY <1>8, <1>14, <3>2, <4>1, <4>2
    <3> QED BY <1>9, <3>1, <3>2
  <2>2. ASSUME NEW i \in DOMAIN complstk', NEW j \in DOMAIN complstk', i < j
        PROVE GeneratorOf(i)' < GeneratorOf(j)' /\ complstk'[i].level <= complstk'[j].level
    <3>1. i \in DOMAIN complstk
      BY <1>9, <2>2
    <3>2. CASE j \in DOMAIN complstk
      BY <1>9, <1>13, <2>2, <3>1, <3>2 DEF IInv, Frames
    <3>3. CASE j = n + 1
      <4>1. complstk[i].level <= level_num /\ complstk[i].level \in Nat /\ level_num \in Nat
        BY <3>1, StackTypes DEF IInv, Frames, Types
      <4>2. GeneratorOf(i) < new
        BY <1>4, <1>7, <1>13, <3>1
      <4> HIDE DEF GeneratorOf
      <4> QED BY <1>9, <1>13, <1>14, <3>1, <3>3, <4>1, <4>2
    <3> QED BY <1>9, <3>2, <3>3
  <2>3. ASSUME NEW r \in Subgoal, table'[r].status = "incomplete"
        PROVE \E i \in DOMAIN complstk' : complstk'[i].sg = r
    <3>1. CASE r = s
      BY <1>9, <1>14, <3>1
    <3>2. CASE r # s
      <4>1. \E i \in DOMAIN complstk : complstk[i].sg = r
        BY <1>8, <2>3, <3>2 DEF IInv, Frames
      <4> QED BY <1>9, <4>1
    <3> QED BY <3>1, <3>2
  <2>4. ASSUME NEW c \in DOMAIN cps', Unconverted(c)'
        PROVE \E i \in DOMAIN complstk' : GeneratorOf(i)' = c
    <3>1. CASE c \in DOMAIN cps
      <4>1. Unconverted(c)
        BY <1>7, <2>4, <3>1 DEF Unconverted
      <4>2. PICK i \in DOMAIN complstk : GeneratorOf(i) = c
        BY <3>1, <4>1 DEF IInv, Frames
      <4> QED BY <1>9, <1>13, <4>2
    <3>2. CASE c = new
      BY <1>9, <1>14, <3>2
    <3> QED BY <1>7, <3>1, <3>2
  <2>5. ASSUME NEW c \in DOMAIN cps', cps'[c].pc = "answer_return"
        PROVE \E i \in DOMAIN complstk' : complstk'[i].sg = cps'[c].sg /\ GeneratorOf(i)' <= c
    <3>1. c \in DOMAIN cps
      BY <1>5, <1>7, <2>5
    <3>2. PICK i \in DOMAIN complstk : complstk[i].sg = cps[c].sg /\ GeneratorOf(i) <= c
      BY <1>7, <2>5, <3>1 DEF IInv, Frames
    <3> QED BY <1>7, <1>9, <1>13, <3>1, <3>2
  <2> QED BY <2>1, <2>2, <2>3, <2>4, <2>5 DEF Frames
<1>16. Levels'
  <2>1. ASSUME NEW c \in DOMAIN cps', NEW i \in DOMAIN complstk', NEW j \in DOMAIN complstk',
               cps'[c].pc = "answer_return", complstk'[i].sg = cps'[c].sg, i < j, GeneratorOf(j)' < c
        PROVE complstk'[i].level = complstk'[j].level
    <3>1. c \in DOMAIN cps /\ cps'[c] = cps[c]
      BY <1>5, <1>7, <2>1
    <3>2. j # n + 1
      <4>1. ~(new < c)
        BY <1>4, <1>7, <3>1
      <4> QED BY <1>14, <2>1, <4>1
    <3>3. j \in DOMAIN complstk /\ i \in DOMAIN complstk
      BY <1>9, <2>1, <3>2
    <3> QED BY <1>9, <1>13, <2>1, <3>1, <3>3 DEF IInv, Levels
  <2> QED BY <2>1 DEF Levels
<1>17. ListsOK'
  <2>1. \A r \in Subgoal : table'[r].pos_cons = table[r].pos_cons
    BY <1>8
  <2> QED BY <1>4, <1>5, <1>6, <2>1, PushLists DEF IInv
<1>18. Chains'
  <2>1. Unconverted(new)'
    BY <1>5, <1>7 DEF Unconverted
  <2>2. RootGenerator(cont)' = new
    BY <1>1, <1>2, <1>8, ProgramAssumption DEF RootGenerator
  <2>3. \A r \in Subgoal : table[r].status # "new" => table'[r].cp_ptr = table[r].cp_ptr
    BY <1>1, <1>8
  <2>4. new <= Len(cps')
    BY <1>7
  <2> HIDE DEF RootGenerator
  <2> QED BY <1>1, <1>4, <1>5, <1>6, <1>7, <2>1, <2>2, <2>3, <2>4, PushChains
<1> QED BY <1>11, <1>12, <1>15, <1>16, <1>17, <1>18 DEF IInv

-----------------------------------------------------------------------------
(* check_complete *)

\* The choice point that runs check_complete is the generator of its frame, and the
\* consumers of this frame and of those above it are younger.
LEMMA Checking ==
  ASSUME IInv, Backtrack("check_complete")
  PROVE  /\ breg \in DOMAIN cps /\ cps[breg].sg \in Subgoal /\ Unconverted(breg)
         /\ FrameOf(cps[breg].sg) \in DOMAIN complstk
         /\ complstk[FrameOf(cps[breg].sg)].sg = cps[breg].sg /\ GeneratorOf(FrameOf(cps[breg].sg)) = breg
         /\ \A j \in DOMAIN complstk : j >= FrameOf(cps[breg].sg) =>
              \A c \in Consumers(complstk[j].sg) : c > breg
<1> DEFINE i == FrameOf(cps[breg].sg)
<1>1. breg # 0 /\ cps[breg].pc = "check_complete"
  BY DEF Backtrack
<1>2. breg \in DOMAIN cps /\ Unconverted(breg)
  BY <1>1, Top DEF Unconverted
<1>3. PICK k \in DOMAIN complstk : GeneratorOf(k) = breg /\ cps[breg].sg = complstk[k].sg
  BY <1>2 DEF IInv, Frames
<1>4. i \in DOMAIN complstk /\ complstk[i].sg = cps[breg].sg
  BY <1>3 DEF FrameOf
<1>5. i = k
  BY <1>3, <1>4, OneFrame
<1>6. ASSUME NEW j \in DOMAIN complstk, j >= i, NEW c \in Consumers(complstk[j].sg) PROVE c > breg
  <2>1. c \in DOMAIN cps /\ cps[c].pc = "answer_return" /\ cps[c].sg = complstk[j].sg
    BY DEF Consumers
  <2>2. PICK m \in DOMAIN complstk : complstk[m].sg = cps[c].sg /\ GeneratorOf(m) <= c
    BY <2>1 DEF IInv, Frames
  <2>3. m = j
    BY <2>1, <2>2, OneFrame
  <2>4. i < j => breg < GeneratorOf(j)
    BY <1>3, <1>5 DEF IInv, Frames
  <2>5. i \in Int /\ j \in Int /\ c \in Int /\ breg \in Int /\ GeneratorOf(j) \in Int
    BY <1>2, <1>4, <2>1, StackTypes DEF IInv, Frames
  <2>6. breg # c
    BY <1>1, <2>1
  <2> HIDE DEF i, GeneratorOf
  <2> QED BY <1>3, <1>5, <1>6, <2>2, <2>3, <2>4, <2>5, <2>6
<1>7. complstk[i].sg \in Subgoal
  BY <1>4, StackTypes DEF IInv
<1> QED BY <1>2, <1>3, <1>4, <1>5, <1>6, <1>7

\* What Linked does to a choice point, whatever is linked.
LEMMA LinkedType ==
  ASSUME IInv, NEW C, NEW chain \in Seq(C), NEW f \in LookupFields, NEW retarget,
         NEW c \in DOMAIN cps
  PROVE  LET x == Linked(chain, f, retarget)[c] IN
         /\ DOMAIN Linked(chain, f, retarget) = DOMAIN cps
         /\ x.pc = cps[c].pc /\ x.sg = cps[c].sg /\ x.next = cps[c].next /\ x.cont = cps[c].cont
         /\ x.ret = cps[c].ret /\ x.todo = cps[c].todo /\ x.lookup = f[c]
         /\ x.prev \in {breg} \cup C \/ x.prev = cps[c].prev
         /\ c \notin Range(chain) \cup retarget => x.prev = cps[c].prev
         /\ x.prev \in Nat => x \in ChoicePoint
<1> DEFINE prev == IF c \in Range(chain)
                     THEN LET j == CHOOSE n \in DOMAIN chain : chain[n] = c
                          IN IF j = Len(chain) THEN breg ELSE chain[j + 1]
                     ELSE IF c \in retarget THEN breg ELSE cps[c].prev
           x == [cps[c] EXCEPT !.lookup = f[c], !.prev = prev]
<1>1. DOMAIN Linked(chain, f, retarget) = DOMAIN cps /\ Linked(chain, f, retarget)[c] = x
  BY DEF Linked
<1>2. cps[c] \in ChoicePoint /\ f[c] \in Nat
  BY StackTypes DEF IInv, LookupFields
<1>3. prev \in {breg} \cup C \/ prev = cps[c].prev
  <2>1. CASE c \in Range(chain)
    <3>1. \E n \in DOMAIN chain : chain[n] = c
      BY <2>1 DEF Range
    <3>2. PICK j : j = CHOOSE n \in DOMAIN chain : chain[n] = c
      OBVIOUS
    <3>3. j \in DOMAIN chain
      BY <3>1, <3>2
    <3>4. j # Len(chain) => j + 1 \in DOMAIN chain
      BY <3>3
    <3>5. j # Len(chain) => chain[j + 1] \in C
      BY <3>4
    <3>6. prev = IF j = Len(chain) THEN breg ELSE chain[j + 1]
      BY <2>1, <3>2
    <3> QED BY <3>5, <3>6
  <2>2. CASE c \notin Range(chain)
    BY <2>2
  <2> QED BY <2>1, <2>2
<1>4. c \notin Range(chain) \cup retarget => prev = cps[c].prev
  OBVIOUS
<1> HIDE DEF prev
<1>5. /\ x.pc = cps[c].pc /\ x.sg = cps[c].sg /\ x.next = cps[c].next /\ x.cont = cps[c].cont
      /\ x.ret = cps[c].ret /\ x.todo = cps[c].todo /\ x.lookup = f[c] /\ x.prev = prev
      /\ (prev \in Nat => x \in ChoicePoint)
  BY <1>2 DEF ChoicePoint
<1> HIDE DEF x
<1> QED BY <1>1, <1>3, <1>4, <1>5

\* Scheduling relinks consumers that are younger than breg, the choice point that runs
\* check_complete, so that they lead back to it.
LEMMA Relink ==
  ASSUME IInv, Backtrack("check_complete"),
         NEW C \in SUBSET DOMAIN cps, \A c \in C : c > breg,
         NEW chain \in Seq(C), chain # <<>>, NEW retarget \in SUBSET ({0} \cup C),
         NEW f \in LookupFields,
         \E N \in Nat : \E rank \in [DOMAIN cps -> 1 .. N] : Ranked(f, rank),
         NEW T, table' = DropConsumers(T), breg' = Head(chain), cps' = Linked(chain, f, retarget),
         UNCHANGED <<prog, mode, cont, complstk, level_num, returned>>
  PROVE  IInv'
<1>1. /\ breg \in DOMAIN cps /\ DOMAIN cps = 1 .. Len(cps) /\ Len(cps) \in Nat /\ mode = "fail"
      /\ \A c \in DOMAIN cps : cps[c] \in ChoicePoint /\ cps[c].prev \in 0 .. Len(cps)
  BY Checking, StackTypes DEF IInv, Backtrack, Chains
<1>2. breg' \in C
  OBVIOUS
<1>3. ASSUME NEW c \in DOMAIN cps
      PROVE /\ cps'[c].pc = cps[c].pc /\ cps'[c].sg = cps[c].sg /\ cps'[c].next = cps[c].next
            /\ cps'[c].cont = cps[c].cont /\ cps'[c].todo = cps[c].todo /\ cps'[c].lookup = f[c]
            /\ cps'[c].prev \in {breg} \cup C \/ cps'[c].prev = cps[c].prev
            /\ cps'[c].prev \in 0 .. Len(cps)
            /\ c <= breg => cps'[c].prev = cps[c].prev
            /\ cps'[c] \in ChoicePoint
  <2>1. /\ cps'[c].pc = cps[c].pc /\ cps'[c].sg = cps[c].sg /\ cps'[c].next = cps[c].next
        /\ cps'[c].cont = cps[c].cont /\ cps'[c].todo = cps[c].todo /\ cps'[c].lookup = f[c]
        /\ cps'[c].prev \in {breg} \cup C \/ cps'[c].prev = cps[c].prev
        /\ c \notin Range(chain) \cup retarget => cps'[c].prev = cps[c].prev
        /\ cps'[c].prev \in Nat => cps'[c] \in ChoicePoint
    BY LinkedType
  <2>2. cps'[c].prev \in 0 .. Len(cps)
    BY <1>1, <2>1
  <2>3. Range(chain) \subseteq C
    BY DEF Range
  <2>4. c <= breg => c \notin Range(chain) \cup retarget
    BY <1>1, <2>3
  <2> QED BY <2>1, <2>2, <2>4
<1>4. DOMAIN cps' = DOMAIN cps /\ Len(cps') = Len(cps) /\ cps' \in Seq(ChoicePoint)
  <2>1. PICK n \in Nat : n = Len(cps) /\ DOMAIN cps = 1 .. n
    BY <1>1
  <2> DEFINE e(c) == [cps[c] EXCEPT !.lookup = f[c],
                                    !.prev = IF c \in Range(chain)
                                               THEN LET j == CHOOSE m \in DOMAIN chain : chain[m] = c
                                                    IN IF j = Len(chain) THEN breg ELSE chain[j + 1]
                                               ELSE IF c \in retarget THEN breg ELSE @]
  <2>2. cps' = [c \in 1 .. n |-> cps'[c]]
    <3>1. cps' = [c \in DOMAIN cps |-> e(c)]
      BY DEF Linked
    <3> HIDE DEF e
    <3> QED BY <2>1, <3>1
  <2>3. cps' \in [1 .. n -> ChoicePoint]
    BY <1>3, <2>1, <2>2
  <2>4. cps' \in Seq(ChoicePoint) /\ Len(cps') = n /\ DOMAIN cps' = 1 .. n
    BY <2>3
  <2> QED BY <2>1, <2>4
<1>5. /\ table' \in [Subgoal -> SubgoalFrame]
      /\ \A s \in Subgoal : /\ table'[s].answers = table[s].answers /\ table'[s].status = table[s].status
                            /\ table'[s].cp_ptr = table[s].cp_ptr
                            /\ table'[s].pos_cons \in {0, table[s].pos_cons}
  <2>1. ASSUME NEW s \in Subgoal
        PROVE /\ table'[s] \in SubgoalFrame
              /\ table'[s].answers = table[s].answers /\ table'[s].status = table[s].status
              /\ table'[s].cp_ptr = table[s].cp_ptr /\ table'[s].pos_cons \in {0, table[s].pos_cons}
    <3>1. table[s] \in SubgoalFrame
      BY StackTypes DEF IInv
    <3>2. table'[s] \in {table[s], [table[s] EXCEPT !.pos_cons = 0]}
      BY DEF DropConsumers
    <3> QED BY <3>1, <3>2 DEF SubgoalFrame
  <2>2. table' = [s \in Subgoal |-> table'[s]]
    BY DEF DropConsumers
  <2> QED BY <2>1, <2>2
<1>6. Types'
  BY <1>1, <1>2, <1>4, <1>5 DEF IInv, Types
<1>7. Evaluation'
  <2>1. ASSUME NEW c \in DOMAIN cps' PROVE Continues(c)'
    <3>1. c \in DOMAIN cps /\ Continues(c)
      BY <1>4, <2>1 DEF IInv, Evaluation
    <3>2. /\ cps'[c].pc = cps[c].pc /\ cps'[c].sg = cps[c].sg /\ cps'[c].next = cps[c].next
          /\ cps'[c].cont = cps[c].cont /\ cps'[c].todo = cps[c].todo
      BY <1>3, <3>1
    <3>3. Proved(cps[c].cont)'
      BY <1>5, <3>1, <3>2 DEF Continues, Proved, Clause, BodyHolds
    <3>4. (IsCall(cps[c].cont)' <=> IsCall(cps[c].cont)) /\ Callee(cps[c].cont)' = Callee(cps[c].cont)
      BY <3>2 DEF IsCall, Callee, Clause
    <3> QED BY <3>1, <3>2, <3>3, <3>4 DEF Continues
  <2>2. Proved(cont)'
    BY <1>5 DEF IInv, Evaluation, Proved, Clause, BodyHolds
  <2> QED BY <1>5, <2>1, <2>2 DEF IInv, Evaluation, AnswersSound, ReturnedSound, Solutions
<1>8. SameFrames
  BY <1>3, <1>4, <1>5 DEF SameFrames, Unconverted
<1>9. ListsOK'
  <2>1. \A s : Consumers(s)' = Consumers(s)
    BY <1>3, <1>4 DEF Consumers
  <2>2. \A c \in DOMAIN cps : Linkable(c)' = Linkable(c)
    BY <1>3, <2>1 DEF Linkable
  <2>3. LookupFields' = LookupFields
    BY <1>4, <2>2 DEF LookupFields
  <2>4. Lookups' = f
    <3>1. f = [c \in DOMAIN cps |-> f[c]]
      BY DEF LookupFields
    <3> QED BY <1>3, <1>4, <3>1 DEF Lookups
  <2>5. \A rank : Ranked(f, rank) => Ranked(Lookups, rank)'
    BY <1>4, <2>4 DEF Ranked
  <2> QED BY <1>4, <1>5, <2>1, <2>3, <2>4, <2>5 DEF IInv, ListsOK
<1>10. Chains'
  <2>1. ASSUME NEW c \in DOMAIN cps
        PROVE RootGenerator(cps[c].cont)' = RootGenerator(cps[c].cont) /\ (Unconverted(c)' <=> Unconverted(c))
    <3>1. cps'[c].cont = cps[c].cont /\ cps[c].cont.root \in Subgoal \cup {Query}
      BY <1>1, <1>3 DEF ChoicePoint, Continuation, Place
    <3> QED BY <1>5, <1>8, <3>1 DEF SameFrames, RootGenerator
  <2>2. /\ \A c \in DOMAIN cps : RootGenerator(cps[c].cont) < c
        /\ \A g \in DOMAIN cps : Unconverted(g) =>
             /\ g <= breg
             /\ \A c \in DOMAIN cps :
                  /\ g < c => g <= cps[c].prev /\ g <= RootGenerator(cps[c].cont)
                  /\ c <= g => cps[c].prev < g
    BY DEF IInv, Chains
  <2>3. ASSUME NEW g \in DOMAIN cps, Unconverted(g), NEW c \in DOMAIN cps
        PROVE /\ g <= breg'
              /\ g < c => g <= cps'[c].prev /\ g <= RootGenerator(cps[c].cont)
              /\ c <= g => cps'[c].prev < g
    <3>1. g <= breg /\ breg < breg' /\ g \in Int /\ c \in Int /\ breg \in Int /\ breg' \in Int
      BY <1>1, <1>2, <2>2, <2>3
    <3>2. \A d \in C : d > breg /\ d \in Int
      BY <1>1
    <3>3. cps'[c].prev \in {breg} \cup C \/ cps'[c].prev = cps[c].prev
      BY <1>3
    <3>4. g < c => g <= cps'[c].prev
      <4>1. CASE cps'[c].prev \in {breg} \cup C
        BY <3>1, <3>2, <4>1
      <4>2. CASE cps'[c].prev = cps[c].prev
        BY <2>2, <2>3, <4>2
      <4> QED BY <3>3, <4>1, <4>2
    <3>5. c <= g => cps'[c].prev < g
      <4>1. c <= g => c <= breg
        BY <3>1
      <4> QED BY <1>3, <2>2, <2>3, <4>1
    <3> HIDE DEF RootGenerator
    <3> QED BY <2>2, <2>3, <3>1, <3>4, <3>5
  <2> HIDE DEF RootGenerator, Unconverted
  <2> QED BY <1>1, <1>3, <1>4, <2>1, <2>2, <2>3 DEF Chains
<1> QED BY <1>6, <1>7, <1>8, <1>9, <1>10, FramesSame, LevelsSame DEF IInv

\* What sched_answers returns for the subgoal that runs check_complete.
LEMMA OwnSchedule ==
  ASSUME IInv, NEW s \in Subgoal
  PROVE  /\ sched_answers(s, Lookups).chain \in Seq(Consumers(s))
         /\ sched_answers(s, Lookups).lookup \in LookupFields
         /\ \E N \in Nat : \E rank \in [DOMAIN cps -> 1 .. N] :
              Ranked(Lookups, rank) /\ Ranked(sched_answers(s, Lookups).lookup, rank)
         /\ \A c \in DOMAIN cps \ Consumers(s) : sched_answers(s, Lookups).lookup[c] = cps[c].lookup
<1>1. ListsOK /\ Len(cps) \in Nat /\ DOMAIN cps = 1 .. Len(cps) /\ Lookups \in LookupFields
  BY StackTypes DEF IInv, ListsOK
<1>2. PICK N \in Nat : \E rank \in [DOMAIN cps -> 1 .. N] : Ranked(Lookups, rank)
  BY <1>1 DEF ListsOK
<1>3. PICK rank \in [DOMAIN cps -> 1 .. N] : Ranked(Lookups, rank)
  BY <1>2
<1>4. \A c \in DOMAIN cps : Lookups[c] = cps[c].lookup
  BY DEF Lookups
<1>5. \A c \in Consumers(s) : Lookups[c] = cps[c].lookup
  BY <1>4 DEF Consumers
<1> DEFINE f == Lookups
<1>6. f \in LookupFields /\ Ranked(f, rank) /\ \A c \in Consumers(s) : f[c] = cps[c].lookup
  BY <1>1, <1>3, <1>5
<1> HIDE DEF f
<1>7. /\ sched_answers(s, f).chain \in Seq(Consumers(s))
      /\ sched_answers(s, f).lookup \in LookupFields /\ Ranked(sched_answers(s, f).lookup, rank)
      /\ \A c \in DOMAIN cps \ Consumers(s) : sched_answers(s, f).lookup[c] = f[c]
  BY <1>1, <1>3, <1>6, SchedAnswers
<1> QED BY <1>3, <1>4, <1>7 DEF f

LEMMA ScheduleOwnStep ==
  ASSUME IInv, Backtrack("check_complete"), ScheduleOwn(cps[breg].sg), UNCHANGED <<prog, returned>>
  PROVE  IInv'
<1> DEFINE s == cps[breg].sg
           r == sched_answers(s, Lookups)
           C == Consumers(s)
<1>1. s \in Subgoal /\ \A c \in C : c > breg
  BY Checking, StackTypes DEF IInv
<1>2. C \in SUBSET DOMAIN cps
  BY DEF Consumers
<1>3. /\ r.chain \in Seq(C) /\ r.lookup \in LookupFields
      /\ \E N \in Nat : \E rank \in [DOMAIN cps -> 1 .. N] : Ranked(r.lookup, rank)
  BY <1>1, OwnSchedule
<1>4. /\ r.chain # <<>> /\ breg' = Head(r.chain) /\ cps' = Linked(r.chain, r.lookup, {})
      /\ table' = DropConsumers({s}) /\ UNCHANGED <<mode, cont, complstk, level_num>>
  BY DEF ScheduleOwn
<1>5. {} \in SUBSET ({0} \cup C)
  OBVIOUS
<1> HIDE DEF r, C, s
<1> QED BY <1>1, <1>2, <1>3, <1>4, <1>5, Relink

\* What find_fixpoint returns for a leader that scheduled none of its own consumers.
LEMMA SCCSchedule ==
  ASSUME IInv, NEW i \in DOMAIN complstk
  PROVE  LET r == find_fixpoint(i, sched_answers(complstk[i].sg, Lookups).lookup) IN
         /\ r.chain \in Seq(ConsumersAbove(i)) /\ r.lookup \in LookupFields
         /\ \E N \in Nat : \E rank \in [DOMAIN cps -> 1 .. N] : Ranked(r.lookup, rank)
<1> DEFINE s == complstk[i].sg
           f == sched_answers(s, Lookups).lookup
<1>1. /\ ListsOK /\ Len(cps) \in Nat /\ DOMAIN cps = 1 .. Len(cps)
      /\ Len(complstk) \in Nat /\ DOMAIN complstk = 1 .. Len(complstk) /\ i \in 1 .. Len(complstk)
      /\ \A j \in 1 .. Len(complstk) : complstk[j].sg \in Subgoal
      /\ s \in Subgoal
  BY StackTypes DEF IInv
<1>2. \A j, k \in 1 .. Len(complstk) : complstk[j].sg = complstk[k].sg => j = k
  BY <1>1, OneFrame
<1>3. /\ f \in LookupFields /\ \A c \in DOMAIN cps \ Consumers(s) : f[c] = cps[c].lookup
      /\ \E N \in Nat : \E rank \in [DOMAIN cps -> 1 .. N] : Ranked(Lookups, rank) /\ Ranked(f, rank)
  BY <1>1, OwnSchedule
<1>4. PICK N \in Nat : \E rank \in [DOMAIN cps -> 1 .. N] : Ranked(Lookups, rank) /\ Ranked(f, rank)
  BY <1>3
<1>5. PICK rank \in [DOMAIN cps -> 1 .. N] : Ranked(Lookups, rank) /\ Ranked(f, rank)
  BY <1>4
<1>6. ASSUME NEW c \in ConsumersAbove(i) PROVE f[c] = cps[c].lookup
  <2>1. PICK j \in (i + 1) .. Len(complstk) : c \in Consumers(complstk[j].sg)
    BY DEF ConsumersAbove
  <2>2. j \in 1 .. Len(complstk) /\ j # i
    BY <1>1
  <2>3. complstk[j].sg # s
    BY <1>1, <1>2, <2>2
  <2>4. c \in DOMAIN cps \ Consumers(s)
    BY <2>1, <2>3 DEF Consumers
  <2> QED BY <1>3, <2>4
<1> HIDE DEF f
<1>7. /\ find_fixpoint(i, f).chain \in Seq(ConsumersAbove(i))
      /\ find_fixpoint(i, f).lookup \in LookupFields
      /\ Ranked(find_fixpoint(i, f).lookup, rank)
  BY <1>1, <1>2, <1>3, <1>5, <1>6, FindFixpoint
<1> QED BY <1>7 DEF f

LEMMA ScheduleSCCStep ==
  ASSUME IInv, Backtrack("check_complete"), ScheduleSCC(FrameOf(cps[breg].sg)), UNCHANGED <<prog, returned>>
  PROVE  IInv'
<1> DEFINE i == FrameOf(cps[breg].sg)
           r == find_fixpoint(i, sched_answers(complstk[i].sg, Lookups).lookup)
           C == ConsumersAbove(i)
           retarget == {table[t].pos_cons : t \in Above(i)}
           T == {complstk[i].sg} \cup Above(i)
<1>1. /\ r.chain # <<>> /\ breg' = Head(r.chain) /\ cps' = Linked(r.chain, r.lookup, retarget)
      /\ table' = DropConsumers(T) /\ UNCHANGED <<mode, cont, complstk, level_num>>
  BY DEF ScheduleSCC
<1>2. i \in DOMAIN complstk
  BY Checking
<1>3. /\ r.chain \in Seq(C) /\ r.lookup \in LookupFields
      /\ \E N \in Nat : \E rank \in [DOMAIN cps -> 1 .. N] : Ranked(r.lookup, rank)
  BY <1>2, SCCSchedule
<1>4. \A j \in (i + 1) .. Len(complstk) : j \in DOMAIN complstk /\ j >= i
  BY <1>2, StackTypes DEF IInv
<1>5. C \in SUBSET DOMAIN cps /\ \A c \in C : c > breg
  BY <1>4, Checking DEF ConsumersAbove, Consumers
<1>6. retarget \in SUBSET ({0} \cup C)
  <2>1. ASSUME NEW j \in (i + 1) .. Len(complstk) PROVE table[complstk[j].sg].pos_cons \in {0} \cup C
    <3>1. complstk[j].sg \in Subgoal
      BY <1>4, StackTypes DEF IInv
    <3>2. table[complstk[j].sg].pos_cons \in {0} \cup Consumers(complstk[j].sg)
      BY <3>1 DEF IInv, ListsOK
    <3> QED BY <3>2 DEF ConsumersAbove
  <2> HIDE DEF C, i
  <2> QED BY <2>1 DEF Above
<1> HIDE DEF r, C, i, retarget, T
<1> QED BY <1>1, <1>3, <1>5, <1>6, Relink

\* A leader's SCC goes away with its choice points: consumers above its generator are of
\* subgoals of the SCC, because no leader is between them and their producer.
LEMMA LeaderCut ==
  ASSUME IInv, Backtrack("check_complete"), is_leader(FrameOf(cps[breg].sg)),
         NEW s \in Subgoal, s \notin CompletedBy(FrameOf(cps[breg].sg)), NEW c \in Consumers(s)
  PROVE  /\ c < breg
         /\ \E k \in DOMAIN complstk : complstk[k].sg = s /\ k < FrameOf(cps[breg].sg)
<1> DEFINE i == FrameOf(cps[breg].sg)
<1>1. /\ i \in DOMAIN complstk /\ GeneratorOf(i) = breg /\ breg \in DOMAIN cps
      /\ DOMAIN complstk = 1 .. Len(complstk) /\ Len(complstk) \in Nat
  BY Checking, StackTypes DEF IInv
<1>2. c \in DOMAIN cps /\ cps[c].pc = "answer_return" /\ cps[c].sg = s /\ c # breg
  BY DEF Consumers, Backtrack
<1>3. PICK k \in DOMAIN complstk : complstk[k].sg = s /\ GeneratorOf(k) <= c
  BY <1>2 DEF IInv, Frames
<1>4. k < i
  <2>1. k \notin i .. Len(complstk)
    BY <1>3 DEF CompletedBy
  <2> QED BY <1>1, <2>1
<1>5. ASSUME breg < c PROVE FALSE
  <2>1. complstk[k].level = complstk[i].level
    BY <1>1, <1>2, <1>3, <1>4, <1>5 DEF IInv, Levels
  <2>2. i - 1 \in DOMAIN complstk /\ i > 1 /\ (k = i - 1 \/ k < i - 1)
    BY <1>1, <1>4
  <2>3. complstk[i - 1].level < complstk[i].level
    BY <2>2 DEF is_leader
  <2>4. k < i - 1 => complstk[k].level <= complstk[i - 1].level
    BY <2>2 DEF IInv, Frames
  <2>5. complstk[k].level \in Nat /\ complstk[i].level \in Nat /\ complstk[i - 1].level \in Nat
    BY <1>1, <2>2, StackTypes DEF IInv
  <2> QED BY <2>1, <2>2, <2>3, <2>4, <2>5
<1>6. c < breg
  BY <1>1, <1>2, <1>5, StackTypes DEF IInv
<1> QED BY <1>3, <1>4, <1>6

\* What CompleteSCC leaves of the stacks.
Cut(b, i) ==
  /\ b = breg /\ i = FrameOf(cps[breg].sg)
  /\ cps' \in Seq(ChoicePoint) /\ Len(cps') \in {b - 1, b} /\ DOMAIN cps' = 1 .. Len(cps')
  /\ \A c \in DOMAIN cps' : c < b => cps'[c] = cps[c]
  /\ b \in DOMAIN cps' => /\ cps'[b].pc = "trie" /\ cps'[b].cont = cps[b].cont
                          /\ cps'[b].prev = cps[b].prev /\ cps'[b].lookup = 0
                          /\ cps'[b].todo \subseteq Range(table[cps[b].sg].answers)
  /\ table' \in [Subgoal -> SubgoalFrame]
  /\ \A s \in Subgoal : /\ table'[s].answers = table[s].answers /\ table'[s].cp_ptr = table[s].cp_ptr
                        /\ s \in CompletedBy(i) => table'[s].status = "complete" /\ table'[s].pos_cons = 0
                        /\ s \notin CompletedBy(i) => table'[s] = table[s]
  /\ complstk' \in Seq(CompletionFrame) /\ DOMAIN complstk' = 1 .. (i - 1)
  /\ \A j \in 1 .. (i - 1) : complstk'[j] = complstk[j]
  /\ level_num' = IF i = 1 THEN 0 ELSE level_num
  /\ UNCHANGED <<prog, returned>>
  /\ \/ /\ mode' = "run" /\ cont' \in Continuation /\ cont'.root = cps[b].cont.root /\ Proved(cont')
        /\ breg' = b /\ b \in DOMAIN cps'
     \/ /\ mode' = "run" /\ cont' \in Continuation /\ cont'.root = cps[b].cont.root /\ Proved(cont')
        /\ breg' = cps[b].prev
     \/ UNCHANGED <<mode, cont>> /\ breg' = cps[b].prev

\* What is known of the choice points and frames below the cut.
LEMMA Below ==
  ASSUME IInv, Backtrack("check_complete"), NEW b, NEW i, Cut(b, i)
  PROVE  /\ b \in DOMAIN cps /\ b \in Nat /\ i \in DOMAIN complstk /\ i \in Nat /\ GeneratorOf(i) = b
         /\ DOMAIN cps = 1 .. Len(cps) /\ Len(cps) \in Nat
         /\ DOMAIN complstk = 1 .. Len(complstk) /\ Len(complstk) \in Nat
         /\ \A c \in DOMAIN cps : c < b => c \in DOMAIN cps'
         /\ \A c \in DOMAIN cps' : c \in Nat /\ c \in DOMAIN cps /\ (c < b \/ c = b)
         /\ \A j \in 1 .. (i - 1) : /\ j \in DOMAIN complstk /\ GeneratorOf(j)' = GeneratorOf(j)
                                    /\ GeneratorOf(j) \in DOMAIN cps /\ GeneratorOf(j) < b
         /\ \A k \in DOMAIN complstk : GeneratorOf(k) < b => k \in 1 .. (i - 1)
         /\ cps[b].prev \in 0 .. (b - 1) /\ RootGenerator(cps[b].cont) < b
<1>1. /\ b = breg /\ i = FrameOf(cps[breg].sg)
      /\ b \in DOMAIN cps /\ i \in DOMAIN complstk /\ GeneratorOf(i) = b /\ Unconverted(b)
      /\ DOMAIN cps = 1 .. Len(cps) /\ Len(cps) \in Nat
      /\ DOMAIN complstk = 1 .. Len(complstk) /\ Len(complstk) \in Nat
  BY Checking, StackTypes DEF Cut, IInv
<1>2. b \in Nat /\ i \in Nat /\ i >= 1
  BY <1>1
<1>3. Len(cps') \in {b - 1, b} /\ DOMAIN cps' = 1 .. Len(cps')
  BY DEF Cut
<1>4. (\A c \in DOMAIN cps : c < b => c \in DOMAIN cps') /\ \A c \in DOMAIN cps' : c \in Nat /\ c \in DOMAIN cps /\ (c < b \/ c = b)
  BY <1>1, <1>2, <1>3
<1>5. ASSUME NEW j \in 1 .. (i - 1)
      PROVE j \in DOMAIN complstk /\ GeneratorOf(j)' = GeneratorOf(j)
            /\ GeneratorOf(j) \in DOMAIN cps /\ GeneratorOf(j) < b
  <2>1. j \in DOMAIN complstk /\ j < i
    BY <1>1, <1>2
  <2>2. GeneratorOf(j) \in DOMAIN cps /\ GeneratorOf(j) < GeneratorOf(i)
    BY <1>1, <2>1 DEF IInv, Frames
  <2>3. complstk'[j] = complstk[j] /\ complstk[j].sg \in Subgoal
    BY <2>1, StackTypes DEF Cut, IInv
  <2>4. GeneratorOf(j)' = GeneratorOf(j)
    BY <2>3 DEF Cut, GeneratorOf
  <2> QED BY <1>1, <2>1, <2>2, <2>4
<1>6. ASSUME NEW k \in DOMAIN complstk, GeneratorOf(k) < b PROVE k \in 1 .. (i - 1)
  <2>1. GeneratorOf(k) \in DOMAIN cps /\ k \in Nat
    BY <1>1 DEF IInv, Frames
  <2>2. i < k => b < GeneratorOf(k)
    BY <1>1 DEF IInv, Frames
  <2>3. k # i
    BY <1>1, <1>2, <1>6
  <2> HIDE DEF GeneratorOf
  <2> QED BY <1>1, <1>2, <1>6, <2>1, <2>2, <2>3
<1>7. cps[b].prev \in 0 .. (b - 1) /\ RootGenerator(cps[b].cont) < b
  <2>1. b <= b
    BY <1>2
  <2>2. cps[b].prev \in 0 .. Len(cps) /\ cps[b].prev < b /\ RootGenerator(cps[b].cont) < b
    BY <1>1, <2>1 DEF IInv, Chains
  <2> QED BY <1>1, <1>2, <2>2
<1> QED BY <1>1, <1>2, <1>4, <1>5, <1>6, <1>7

LEMMA CutTypes ==
  ASSUME IInv, Backtrack("check_complete"), NEW b, NEW i, Cut(b, i)
  PROVE  Types'
<1>1. /\ b \in Nat /\ cps[b].prev \in 0 .. (b - 1) /\ Len(cps') \in {b - 1, b} /\ DOMAIN cps' = 1 .. Len(cps')
      /\ b \in 1 .. Len(cps)
  BY Below DEF Cut
<1>2. breg' \in 0 .. Len(cps')
  <2>1. breg' = cps[b].prev \/ (breg' = b /\ b \in DOMAIN cps')
    BY DEF Cut
  <2> QED BY <1>1, <2>1
<1>3. mode' \in {"run", "fail", "halt"} /\ cont' \in Continuation /\ level_num' \in Nat
  BY DEF Cut, IInv, Types
<1> QED BY <1>2, <1>3 DEF Cut, IInv, Types

LEMMA CutEvaluation ==
  ASSUME IInv, Backtrack("check_complete"), NEW b, NEW i, Cut(b, i)
  PROVE  Evaluation'
<1>1. /\ prog' = prog /\ returned' = returned
      /\ \A s \in Subgoal : /\ table'[s].answers = table[s].answers
                            /\ table'[s].status = "new" => table[s].status = "new"
  BY DEF Cut
<1>2. \A c \in DOMAIN cps' : c \in DOMAIN cps /\ (c < b \/ c = b)
  BY Below
<1>3. ASSUME NEW c \in DOMAIN cps' PROVE Continues(c)'
  <2>1. Continues(c)
    BY <1>2 DEF IInv, Evaluation
  <2>2. CASE c < b
    <3>1. cps'[c] = cps[c]
      BY <2>2 DEF Cut
    <3> QED BY <1>1, <2>1, <3>1, ContinuesKept
  <2>3. CASE c = b
    <3>1. /\ cps'[b].pc = "trie" /\ cps'[b].cont = cps[b].cont
          /\ cps'[b].todo \subseteq Range(table[cps[b].sg].answers)
      BY <2>3 DEF Cut
    <3>2. cps[b].pc # "trie" /\ cps[b].sg \in Subgoal
      BY Checking DEF Cut, Unconverted
    <3>3. \A a \in cps'[b].todo : <<Callee(cps[b].cont), a>> \in Models[prog]
      BY <2>1, <2>3, <3>1, <3>2 DEF Continues, IInv, Evaluation, AnswersSound
    <3>4. Proved(cps[b].cont)' /\ (IsCall(cps[b].cont)' <=> IsCall(cps[b].cont))
          /\ Callee(cps[b].cont)' = Callee(cps[b].cont)
      <4>1. Proved(cps'[b].cont)
        BY <2>1, <2>3, <3>1 DEF Continues
      <4> QED BY <1>1, <3>1, <4>1 DEF Proved, IsCall, Callee, Clause, BodyHolds
    <3> QED BY <1>1, <2>1, <2>3, <3>1, <3>3, <3>4 DEF Continues
  <2> QED BY <1>2, <2>2, <2>3
<1>4. Proved(cont)'
  <2>1. Proved(cont) \/ Proved(cont')
    BY DEF IInv, Evaluation
  <2>2. (cont' = cont /\ Proved(cont)) \/ Proved(cont')
    BY <2>1 DEF Cut
  <2> QED BY <1>1, <2>2 DEF Proved, Clause, BodyHolds
<1> QED BY <1>1, <1>3, <1>4 DEF IInv, Evaluation, AnswersSound, ReturnedSound, Solutions

LEMMA CutFrames ==
  ASSUME IInv, Backtrack("check_complete"), NEW b, NEW i, Cut(b, i)
  PROVE  Frames' /\ Levels'
<1>1. /\ b \in DOMAIN cps /\ b \in Nat /\ i \in DOMAIN complstk /\ i \in Nat
      /\ DOMAIN complstk = 1 .. Len(complstk) /\ Len(complstk) \in Nat
      /\ \A c \in DOMAIN cps : c < b => c \in DOMAIN cps'
      /\ \A c \in DOMAIN cps' : c \in Nat /\ c \in DOMAIN cps /\ (c < b \/ c = b)
      /\ \A j \in 1 .. (i - 1) : /\ j \in DOMAIN complstk /\ GeneratorOf(j)' = GeneratorOf(j)
                                 /\ GeneratorOf(j) \in DOMAIN cps /\ GeneratorOf(j) < b
      /\ \A k \in DOMAIN complstk : GeneratorOf(k) < b => k \in 1 .. (i - 1)
  BY Below
<1>2. /\ DOMAIN complstk' = 1 .. (i - 1) /\ \A j \in 1 .. (i - 1) : complstk'[j] = complstk[j]
      /\ \A c \in DOMAIN cps' : c < b => cps'[c] = cps[c]
      /\ b \in DOMAIN cps' => cps'[b].pc = "trie"
      /\ \A s \in Subgoal : /\ s \in CompletedBy(i) => table'[s].status = "complete"
                            /\ s \notin CompletedBy(i) => table'[s] = table[s]
      /\ level_num' = IF i = 1 THEN 0 ELSE level_num
  BY DEF Cut
<1>3. \A j \in DOMAIN complstk : complstk[j].sg \in Subgoal
  BY StackTypes DEF IInv
<1> HIDE DEF GeneratorOf
<1>4. ASSUME NEW j \in DOMAIN complstk'
      PROVE /\ table'[complstk'[j].sg].status # "new"
            /\ GeneratorOf(j)' \in DOMAIN cps'
            /\ cps'[GeneratorOf(j)'].sg = complstk'[j].sg /\ cps'[GeneratorOf(j)'].pc # "trie"
            /\ complstk'[j].level <= level_num'
  <2>1. /\ j \in 1 .. (i - 1) /\ j \in DOMAIN complstk /\ complstk'[j] = complstk[j]
        /\ GeneratorOf(j)' = GeneratorOf(j) /\ GeneratorOf(j) \in DOMAIN cps' /\ i # 1
        /\ cps'[GeneratorOf(j)] = cps[GeneratorOf(j)]
    BY <1>1, <1>2
  <2>2. /\ table[complstk[j].sg].status # "new" /\ complstk[j].level <= level_num
        /\ cps[GeneratorOf(j)].sg = complstk[j].sg /\ cps[GeneratorOf(j)].pc # "trie"
    BY <2>1 DEF IInv, Frames
  <2>3. table'[complstk[j].sg].status # "new"
    BY <1>2, <1>3, <2>1, <2>2
  <2> QED BY <1>2, <2>1, <2>2, <2>3
<1>5. ASSUME NEW j \in DOMAIN complstk', NEW k \in DOMAIN complstk', j < k
      PROVE GeneratorOf(j)' < GeneratorOf(k)' /\ complstk'[j].level <= complstk'[k].level
  <2>1. /\ j \in DOMAIN complstk /\ k \in DOMAIN complstk /\ complstk'[j] = complstk[j] /\ complstk'[k] = complstk[k]
        /\ GeneratorOf(j)' = GeneratorOf(j) /\ GeneratorOf(k)' = GeneratorOf(k)
    BY <1>1, <1>2
  <2>2. GeneratorOf(j) < GeneratorOf(k) /\ complstk[j].level <= complstk[k].level
    BY <1>5, <2>1 DEF IInv, Frames
  <2> QED BY <2>1, <2>2
<1>6. ASSUME NEW s \in Subgoal, table'[s].status = "incomplete"
      PROVE \E j \in DOMAIN complstk' : complstk'[j].sg = s
  <2>1. s \notin CompletedBy(i) /\ table[s].status = "incomplete"
    BY <1>2, <1>6
  <2>2. PICK j \in DOMAIN complstk : complstk[j].sg = s
    BY <2>1 DEF IInv, Frames
  <2>3. j \notin i .. Len(complstk)
    BY <2>1, <2>2 DEF CompletedBy
  <2>4. j \in 1 .. (i - 1)
    BY <1>1, <2>3
  <2> QED BY <1>2, <2>2, <2>4
<1>7. ASSUME NEW c \in DOMAIN cps', Unconverted(c)' PROVE \E j \in DOMAIN complstk' : GeneratorOf(j)' = c
  <2>1. c < b /\ c \in DOMAIN cps /\ Unconverted(c)
    BY <1>1, <1>2, <1>7 DEF Unconverted
  <2>2. PICK j \in DOMAIN complstk : GeneratorOf(j) = c
    BY <2>1 DEF IInv, Frames
  <2>3. j \in 1 .. (i - 1)
    BY <1>1, <2>1, <2>2
  <2> QED BY <1>1, <1>2, <2>2, <2>3
<1>8. ASSUME NEW c \in DOMAIN cps', cps'[c].pc = "answer_return"
      PROVE \E j \in DOMAIN complstk' : complstk'[j].sg = cps'[c].sg /\ GeneratorOf(j)' <= c
  <2>1. c < b /\ c \in DOMAIN cps /\ cps'[c] = cps[c]
    BY <1>1, <1>2, <1>8
  <2>2. PICK j \in DOMAIN complstk : complstk[j].sg = cps[c].sg /\ GeneratorOf(j) <= c
    BY <1>8, <2>1 DEF IInv, Frames
  <2>3. GeneratorOf(j) \in Nat
    <3>1. GeneratorOf(j) \in DOMAIN cps
      BY DEF IInv, Frames
    <3> QED BY <3>1, StackTypes DEF IInv
  <2>4. j \in 1 .. (i - 1)
    BY <1>1, <2>1, <2>2, <2>3
  <2> QED BY <1>1, <1>2, <2>1, <2>2, <2>4
<1>9. Frames'
  BY <1>4, <1>5, <1>6, <1>7, <1>8 DEF Frames
<1>10. ASSUME NEW c \in DOMAIN cps', NEW j \in DOMAIN complstk', NEW k \in DOMAIN complstk',
              cps'[c].pc = "answer_return", complstk'[j].sg = cps'[c].sg, j < k, GeneratorOf(k)' < c
       PROVE complstk'[j].level = complstk'[k].level
  <2>1. c \in DOMAIN cps /\ cps'[c] = cps[c]
    BY <1>1, <1>2, <1>10
  <2>2. /\ j \in DOMAIN complstk /\ k \in DOMAIN complstk /\ complstk'[j] = complstk[j] /\ complstk'[k] = complstk[k]
        /\ GeneratorOf(k)' = GeneratorOf(k)
    BY <1>1, <1>2
  <2> QED BY <1>10, <2>1, <2>2 DEF IInv, Levels
<1> QED BY <1>9, <1>10 DEF Levels

LEMMA CutChains ==
  ASSUME IInv, Backtrack("check_complete"), NEW b, NEW i, Cut(b, i)
  PROVE  Chains'
<1>1. /\ b \in DOMAIN cps /\ b \in Nat /\ \A c \in DOMAIN cps' : c \in Nat /\ c \in DOMAIN cps /\ (c < b \/ c = b)
      /\ cps[b].prev \in 0 .. (b - 1) /\ RootGenerator(cps[b].cont) < b
  BY Below
<1>2. /\ Len(cps') \in {b - 1, b} /\ \A c \in DOMAIN cps' : c < b => cps'[c] = cps[c]
      /\ b \in DOMAIN cps' => cps'[b].pc = "trie" /\ cps'[b].cont = cps[b].cont /\ cps'[b].prev = cps[b].prev
      /\ breg' \in {b, cps[b].prev}
      /\ mode' = "run" => cont'.root = cps[b].cont.root
  BY DEF Cut, Backtrack
<1>3. b = breg /\ Unconverted(b)
  BY Checking DEF Cut
<1>4. ASSUME NEW c \in DOMAIN cps' 
      PROVE /\ RootGenerator(cps[c].cont)' = RootGenerator(cps[c].cont)
            /\ cps'[c].cont = cps[c].cont /\ cps'[c].prev = cps[c].prev
            /\ Unconverted(c)' => Unconverted(c) /\ c < b
  <2>1. cps'[c].cont = cps[c].cont /\ cps'[c].prev = cps[c].prev /\ (Unconverted(c)' => Unconverted(c) /\ c < b)
    BY <1>1, <1>2 DEF Unconverted
  <2>2. cps[c] \in ChoicePoint
    BY <1>1, StackTypes DEF IInv
  <2>3. cps[c].cont.root \in Subgoal \cup {Query}
    BY <2>2 DEF ChoicePoint, Continuation, Place
  <2> QED BY <2>1, <2>3 DEF Cut, RootGenerator
<1>5. mode' = "run" => RootGenerator(cont)' = RootGenerator(cps[b].cont)
  <2>1. cps[b] \in ChoicePoint
    BY <1>1, StackTypes DEF IInv
  <2>2. cps[b].cont.root \in Subgoal \cup {Query}
    BY <2>1 DEF ChoicePoint, Continuation, Place
  <2> QED BY <1>2, <2>2 DEF Cut, RootGenerator
<1>6. RootGenerator(cps[b].cont) \in Nat
  <2>1. cps[b] \in ChoicePoint
    BY <1>1, StackTypes DEF IInv
  <2>2. cps[b].cont.root \in Subgoal \cup {Query}
    BY <2>1 DEF ChoicePoint, Continuation, Place
  <2>3. cps[b].cont.root # Query => table[cps[b].cont.root] \in SubgoalFrame
    BY <2>2, StackTypes DEF IInv
  <2> QED BY <2>3 DEF RootGenerator, SubgoalFrame
<1>7. \A c \in DOMAIN cps : /\ cps[c].prev \in 0 .. Len(cps) /\ RootGenerator(cps[c].cont) < c
                            /\ c <= b => cps[c].prev < b
  BY <1>1, <1>3 DEF IInv, Chains
<1>8. \A g \in DOMAIN cps : Unconverted(g) =>
        \A c \in DOMAIN cps : /\ g < c => g <= cps[c].prev /\ g <= RootGenerator(cps[c].cont)
                              /\ c <= g => cps[c].prev < g
  BY DEF IInv, Chains
<1> HIDE DEF RootGenerator, Unconverted
<1>9. ASSUME NEW c \in DOMAIN cps' PROVE cps'[c].prev \in 0 .. Len(cps') /\ RootGenerator(cps[c].cont)' < c
  <2>1. c \in DOMAIN cps /\ c <= b
    BY <1>1
  <2>2. cps[c].prev \in 0 .. (b - 1)
    BY <1>1, <1>7, <2>1, StackTypes DEF IInv
  <2>3. cps[c].prev \in 0 .. Len(cps')
    BY <1>1, <1>2, <2>2
  <2> QED BY <1>4, <1>7, <2>1, <2>3
<1>10. mode' = "run" => RootGenerator(cont)' <= Len(cps')
  BY <1>1, <1>2, <1>5, <1>6
<1>11. ASSUME NEW g \in DOMAIN cps', Unconverted(g)'
       PROVE /\ g <= breg'
             /\ mode' = "run" => g <= RootGenerator(cont)'
             /\ \A c \in DOMAIN cps' :
                  /\ g < c => g <= cps'[c].prev /\ g <= RootGenerator(cps[c].cont)'
                  /\ c <= g => cps'[c].prev < g
  <2>1. g \in DOMAIN cps /\ Unconverted(g) /\ g < b /\ g \in Nat
    BY <1>1, <1>4, <1>11
  <2>2. g <= cps[b].prev /\ g <= RootGenerator(cps[b].cont)
    BY <1>1, <1>8, <2>1
  <2>3. g <= breg'
    BY <1>1, <1>2, <2>1, <2>2
  <2>4. ASSUME NEW c \in DOMAIN cps'
        PROVE /\ g < c => g <= cps'[c].prev /\ g <= RootGenerator(cps[c].cont)'
              /\ c <= g => cps'[c].prev < g
    BY <1>1, <1>4, <1>8, <2>1
  <2> QED BY <1>5, <2>2, <2>3, <2>4
<1> QED BY <1>4, <1>9, <1>10, <1>11 DEF Chains

LEMMA CutLists ==
  ASSUME IInv, Backtrack("check_complete"), is_leader(FrameOf(cps[breg].sg)), NEW b, NEW i, Cut(b, i)
  PROVE  ListsOK'
<1>1. /\ b = breg /\ i = FrameOf(cps[breg].sg) /\ DOMAIN cps' = 1 .. Len(cps')
      /\ \A c \in DOMAIN cps' : c < b => cps'[c] = cps[c]
      /\ b \in DOMAIN cps' => cps'[b].pc = "trie" /\ cps'[b].lookup = 0
      /\ \A s \in Subgoal : /\ s \in CompletedBy(i) => table'[s].pos_cons = 0
                            /\ s \notin CompletedBy(i) => table'[s] = table[s]
  BY DEF Cut
<1>2. /\ \A c \in DOMAIN cps : c < b => c \in DOMAIN cps'
      /\ \A c \in DOMAIN cps' : c \in Nat /\ c \in DOMAIN cps /\ (c < b \/ c = b)
      /\ DOMAIN complstk = 1 .. Len(complstk) /\ i \in DOMAIN complstk
  BY Below
<1>3. ASSUME NEW s \in Subgoal, s \notin CompletedBy(i) PROVE Consumers(s) \subseteq Consumers(s)'
  <2>1. \A c \in Consumers(s) : c < b /\ c \in DOMAIN cps /\ cps[c].pc = "answer_return" /\ cps[c].sg = s
    BY <1>1, <1>3, LeaderCut DEF Consumers
  <2> QED BY <1>1, <1>2, <2>1 DEF Consumers
<1>4. ASSUME NEW s \in Subgoal PROVE table'[s].pos_cons \in {0} \cup Consumers(s)'
  <2>1. table[s].pos_cons \in {0} \cup Consumers(s)
    BY DEF IInv, ListsOK
  <2> QED BY <1>1, <1>3, <2>1
<1>5. ASSUME NEW c \in DOMAIN cps', c < b, cps[c].pc = "answer_return"
      PROVE cps[c].sg \in Subgoal /\ cps[c].sg \notin CompletedBy(i)
  <2>1. c \in DOMAIN cps
    BY <1>2
  <2>2. c \in Consumers(cps[c].sg)
    BY <1>5, <2>1 DEF Consumers
  <2>3. cps[c].sg \in Subgoal
    <3>1. PICK j \in DOMAIN complstk : complstk[j].sg = cps[c].sg
      BY <1>5, <2>1 DEF IInv, Frames
    <3>2. complstk[j].sg \in Subgoal
      BY StackTypes DEF IInv
    <3> QED BY <3>1, <3>2
  <2>4. ASSUME NEW j \in i .. Len(complstk), cps[c].sg = complstk[j].sg PROVE FALSE
    <3>1. j \in DOMAIN complstk /\ j >= i
      BY <1>2
    <3>2. c > breg
      BY <1>1, <2>2, <2>4, <3>1, Checking
    <3>3. breg \in Int /\ c \in Int
      BY <1>2, Checking, StackTypes DEF IInv
    <3> QED BY <1>1, <1>5, <3>2, <3>3
  <2> QED BY <2>3, <2>4 DEF CompletedBy
<1>6. ASSUME NEW c \in DOMAIN cps'
      PROVE cps'[c].lookup \in Linkable(c)' /\ cps'[c].lookup \in {0, cps[c].lookup}
            /\ cps'[c].lookup \in {0} \cup DOMAIN cps'
  <2>1. CASE c = b
    BY <1>1, <2>1 DEF Linkable
  <2>2. CASE c < b
    <3>1. cps'[c] = cps[c] /\ c \in DOMAIN cps
      BY <1>1, <1>2, <2>2
    <3>2. cps[c].lookup \in Linkable(c)
      <4>1. Lookups[c] \in Linkable(c)
        BY <3>1 DEF IInv, ListsOK, LookupFields
      <4> QED BY <3>1, <4>1 DEF Lookups
    <3>3. cps[c].pc # "answer_return" => cps[c].lookup = 0
      BY <3>2 DEF Linkable
    <3>4. CASE cps[c].pc = "answer_return"
      <4>1. PICK s \in Subgoal : s = cps[c].sg /\ s \notin CompletedBy(i)
        BY <1>5, <2>2, <3>4
      <4>2. Consumers(s) \subseteq Consumers(s)' /\ Consumers(s)' \subseteq DOMAIN cps'
        BY <1>3, <4>1 DEF Consumers
      <4>3. Linkable(c) = {0} \cup Consumers(s) /\ Linkable(c)' = {0} \cup Consumers(s)'
        BY <3>1, <3>4, <4>1 DEF Linkable, Consumers
      <4> QED BY <3>1, <3>2, <4>2, <4>3
    <3> QED BY <3>1, <3>3, <3>4 DEF Linkable
  <2> QED BY <1>2, <2>1, <2>2
<1>7. \A c \in DOMAIN cps' : Lookups'[c] = cps'[c].lookup
  BY DEF Lookups
<1>8. Lookups' \in LookupFields'
  <2>1. Lookups' = [c \in DOMAIN cps' |-> Lookups'[c]]
    BY DEF Lookups
  <2>2. Lookups' \in [DOMAIN cps' -> {0} \cup DOMAIN cps']
    BY <1>6, <1>7, <2>1
  <2> QED BY <1>6, <1>7, <2>2 DEF LookupFields
<1>9. PICK N \in Nat : \E rank \in [DOMAIN cps -> 1 .. N] : Ranked(Lookups, rank)
  BY DEF IInv, ListsOK
<1>10. PICK rank \in [DOMAIN cps -> 1 .. N] : Ranked(Lookups, rank)
  BY <1>9
<1>11. PICK r \in [DOMAIN cps' -> 1 .. N] : \A c \in DOMAIN cps' : r[c] = rank[c]
  <2> DEFINE r == [c \in DOMAIN cps' |-> rank[c]]
  <2>1. r \in [DOMAIN cps' -> 1 .. N] /\ \A c \in DOMAIN cps' : r[c] = rank[c]
    BY <1>2, <1>10
  <2> QED BY <2>1
<1>12. Ranked(Lookups, r)'
  <2>1. ASSUME NEW c \in DOMAIN cps', Lookups'[c] # 0 PROVE r[Lookups'[c]] < r[c]
    <3>1. c \in DOMAIN cps /\ Lookups'[c] = Lookups[c] /\ Lookups[c] # 0 /\ Lookups[c] \in DOMAIN cps'
      BY <1>2, <1>6, <1>7, <2>1 DEF Lookups
    <3>2. rank[Lookups[c]] < rank[c]
      BY <1>10, <3>1 DEF Ranked
    <3> QED BY <1>11, <2>1, <3>1, <3>2
  <2> QED BY <2>1 DEF Ranked
<1> QED BY <1>4, <1>8, <1>11, <1>12 DEF ListsOK

\* A leader completes its SCC.
LEMMA CompleteSCCStep ==
  ASSUME IInv, Backtrack("check_complete"), CompleteSCC(FrameOf(cps[breg].sg)), UNCHANGED <<prog, returned>>
  PROVE  IInv'
<1>1. PICK b, i : b = breg /\ i = FrameOf(cps[breg].sg)
  OBVIOUS
<1>2. /\ b \in DOMAIN cps /\ DOMAIN cps = 1 .. Len(cps) /\ Len(cps) \in Nat /\ Unconverted(b)
      /\ i \in DOMAIN complstk /\ DOMAIN complstk = 1 .. Len(complstk) /\ Len(complstk) \in Nat
      /\ complstk[i].sg = cps[b].sg /\ cps[b].sg \in Subgoal /\ cps[b] \in ChoicePoint
      /\ cps \in Seq(ChoicePoint) /\ complstk \in Seq(CompletionFrame)
  BY <1>1, Checking, StackTypes DEF IInv, Types
<1> DEFINE s == cps[b].sg
           answers == Range(table[s].answers)
           k == cps[b].cont
           stk == SubSeq(cps, 1, b - 1)
<1>3. /\ is_leader(i) /\ complstk' = SubSeq(complstk, 1, i - 1) /\ level_num' = IF i = 1 THEN 0 ELSE level_num
      /\ table' = [t \in Subgoal |-> IF t \in CompletedBy(i)
                                       THEN [table[t] EXCEPT !.status = "complete", !.pos_cons = 0]
                                       ELSE table[t]]
      /\ \/ EnterTrie(stk, answers, k, cps[b].prev)
         \/ answers = {} /\ breg' = cps[b].prev /\ cps' = stk /\ UNCHANGED <<cont, mode>>
  BY <1>1, <1>2 DEF CompleteSCC, ReturnFromLeader
<1>4. /\ stk \in Seq(ChoicePoint) /\ Len(stk) = b - 1 /\ DOMAIN stk = 1 .. (b - 1) /\ b - 1 \in Nat
      /\ \A c \in 1 .. (b - 1) : stk[c] = cps[c]
  BY <1>2
<1>5. /\ complstk' \in Seq(CompletionFrame) /\ DOMAIN complstk' = 1 .. (i - 1)
      /\ \A j \in 1 .. (i - 1) : complstk'[j] = complstk[j]
  <2> DEFINE rest == SubSeq(complstk, 1, i - 1)
  <2>1. rest \in Seq(CompletionFrame) /\ Len(rest) = i - 1 /\ i - 1 \in Nat
        /\ \A j \in 1 .. (i - 1) : rest[j] = complstk[j]
    BY <1>2
  <2>2. DOMAIN rest = 1 .. (i - 1)
    BY <2>1
  <2> HIDE DEF rest
  <2> QED BY <1>3, <2>1, <2>2 DEF rest
<1>6. /\ table' \in [Subgoal -> SubgoalFrame]
      /\ \A t \in Subgoal : /\ table'[t].answers = table[t].answers /\ table'[t].cp_ptr = table[t].cp_ptr
                            /\ t \in CompletedBy(i) => table'[t].status = "complete" /\ table'[t].pos_cons = 0
                            /\ t \notin CompletedBy(i) => table'[t] = table[t]
  <2> DEFINE done(t) == [table[t] EXCEPT !.status = "complete", !.pos_cons = 0]
  <2>1. ASSUME NEW t \in Subgoal
        PROVE /\ table[t] \in SubgoalFrame /\ done(t) \in SubgoalFrame
              /\ done(t).answers = table[t].answers /\ done(t).cp_ptr = table[t].cp_ptr
              /\ done(t).status = "complete" /\ done(t).pos_cons = 0
    <3>1. table[t] \in SubgoalFrame
      BY StackTypes DEF IInv
    <3> QED BY <3>1 DEF SubgoalFrame
  <2>2. table' = [t \in Subgoal |-> IF t \in CompletedBy(i) THEN done(t) ELSE table[t]]
    BY <1>3
  <2> HIDE DEF done
  <2> QED BY <2>1, <2>2
<1>7. k \in Continuation /\ Proved(k) /\ IsCall(k) /\ s = Callee(k) /\ cps[b].prev \in Nat /\ k.root \in Place
  <2>1. Continues(b) /\ cps[b].pc # "trie"
    BY <1>2 DEF IInv, Evaluation, Unconverted
  <2> QED BY <1>2, <2>1 DEF Continues, ChoicePoint, Continuation
<1>8. \A a \in answers : a \in Value /\ <<Callee(k), a>> \in Models[prog]
  <2>1. table[s].answers \in Seq(Value)
    BY <1>2, StackTypes DEF IInv, SubgoalFrame
  <2>2. answers \subseteq Value
    BY <2>1 DEF Range
  <2>3. \A a \in answers : <<s, a>> \in Models[prog]
    BY <1>2 DEF IInv, Evaluation, AnswersSound
  <2> QED BY <1>7, <2>2, <2>3
<1> HIDE DEF s, stk, k
<1>9. Cut(b, i)
  <2>1. CASE answers = {} /\ breg' = cps[b].prev /\ cps' = stk /\ UNCHANGED <<cont, mode>>
    <3>1. b \notin DOMAIN stk /\ \A c \in DOMAIN stk : stk[c] = cps[c]
      BY <1>2, <1>4
    <3> QED BY <1>1, <1>3, <1>4, <1>5, <1>6, <2>1, <3>1 DEF Cut
  <2>2. CASE EnterTrie(stk, answers, k, cps[b].prev)
    <3>1. PICK a \in answers :
            /\ mode' = "run" /\ cont' = With(k, a)
            /\ IF answers = {a}
                 THEN cps' = stk /\ breg' = cps[b].prev
                 ELSE /\ cps' = Append(stk, [TabledCP("trie", k.root) EXCEPT
                                               !.cont = k, !.prev = cps[b].prev, !.todo = RestOfTrie(answers, a)])
                      /\ breg' = Len(cps')
      BY <2>2 DEF EnterTrie
    <3>2. cont' \in Continuation /\ Proved(cont') /\ cont'.root = k.root
      BY <1>7, <1>8, <3>1, WithProved DEF IInv, Types
    <3>3. CASE cps' = stk /\ breg' = cps[b].prev
      <4>1. b \notin DOMAIN stk /\ \A c \in DOMAIN stk : stk[c] = cps[c]
        BY <1>2, <1>4
      <4> QED BY <1>1, <1>3, <1>4, <1>5, <1>6, <3>1, <3>2, <3>3, <4>1 DEF Cut, k
    <3>4. CASE answers # {a}
      <4> DEFINE x == [TabledCP("trie", k.root) EXCEPT
                         !.cont = k, !.prev = cps[b].prev, !.todo = RestOfTrie(answers, a)]
      <4>1. /\ x \in ChoicePoint /\ x.pc = "trie" /\ x.cont = k /\ x.prev = cps[b].prev /\ x.lookup = 0
            /\ x.todo \subseteq answers
        <5>1. RestOfTrie(answers, a) \in SUBSET Value /\ RestOfTrie(answers, a) \subseteq answers
          BY <1>8 DEF RestOfTrie
        <5> HIDE DEF answers
        <5> QED BY <1>7, <5>1 DEF TabledCP, ChoicePoint
      <4> HIDE DEF x
      <4>2. cps' = Append(stk, x) /\ breg' = Len(cps')
        BY <3>1, <3>4 DEF x
      <4>3. /\ cps' \in Seq(ChoicePoint) /\ Len(cps') = b /\ cps'[b] = x
            /\ \A c \in DOMAIN stk : cps'[c] = stk[c]
        <5>1. /\ cps' \in Seq(ChoicePoint) /\ Len(cps') = Len(stk) + 1 /\ cps'[Len(stk) + 1] = x
              /\ \A c \in 1 .. Len(stk) : cps'[c] = stk[c]
          BY <1>4, <4>1, <4>2, AppendProperties
        <5>2. Len(stk) + 1 = b
          BY <1>2, <1>4
        <5> QED BY <1>4, <5>1, <5>2
      <4>4. /\ DOMAIN cps' = 1 .. Len(cps') /\ b \in DOMAIN cps' /\ breg' = b
            /\ \A c \in DOMAIN cps' : c < b => cps'[c] = cps[c]
        <5>1. DOMAIN cps' = 1 .. b
          BY <4>3
        <5>2. \A c \in DOMAIN cps' : c < b => c \in 1 .. (b - 1)
          BY <1>2, <5>1
        <5> QED BY <1>2, <1>4, <4>2, <4>3, <5>1, <5>2
      <4> QED BY <1>1, <1>3, <1>5, <1>6, <3>1, <3>2, <4>1, <4>3, <4>4 DEF Cut, k, s
    <3> QED BY <3>1, <3>3, <3>4
  <2> QED BY <1>3, <2>1, <2>2
<1>10. is_leader(FrameOf(cps[breg].sg))
  BY <1>1, <1>3
<1> QED BY <1>9, <1>10, CutTypes, CutEvaluation, CutFrames, CutChains, CutLists DEF IInv

\* What makeConsumerFromGenerator changes: the generator at b becomes the first consumer of s.
Converted(b, s, p, f) ==
  /\ b = breg /\ s = cps[b].sg /\ b \in DOMAIN cps /\ p \in {0, table[s].pos_cons} /\ f \in LookupFields
  /\ \E N \in Nat : \E rank \in [DOMAIN cps -> 1 .. N] : Ranked(Lookups, rank) /\ Ranked(f, rank)
  /\ cps' \in Seq(ChoicePoint) /\ Len(cps') = Len(cps) /\ DOMAIN cps' = DOMAIN cps
  /\ \A c \in DOMAIN cps :
       /\ cps'[c].sg = cps[c].sg /\ cps'[c].next = cps[c].next /\ cps'[c].cont = cps[c].cont
       /\ cps'[c].prev = cps[c].prev /\ cps'[c].todo = cps[c].todo
       /\ c # b => cps'[c].pc = cps[c].pc /\ cps'[c].lookup = f[c]
  /\ cps'[b].pc = "answer_return" /\ cps'[b].lookup = p
  /\ table' \in [Subgoal -> SubgoalFrame]
  /\ \A t \in Subgoal : /\ table'[t].answers = table[t].answers /\ table'[t].status = table[t].status
                        /\ table'[t].cp_ptr = table[t].cp_ptr
                        /\ table'[t].pos_cons = IF t = s THEN b ELSE table[t].pos_cons
  /\ breg' = cps[b].prev
  /\ UNCHANGED <<prog, mode, cont, complstk, level_num, returned>>

LEMMA ConvertedFrames ==
  ASSUME IInv, Backtrack("check_complete"), NEW b, NEW s, NEW p, NEW f, Converted(b, s, p, f)
  PROVE  Frames' /\ Levels'
<1>1. /\ b = breg /\ s = cps[b].sg /\ b \in DOMAIN cps /\ DOMAIN cps' = DOMAIN cps
      /\ \A c \in DOMAIN cps : cps'[c].sg = cps[c].sg /\ (c # b => cps'[c].pc = cps[c].pc)
      /\ cps'[b].pc = "answer_return" /\ cps[b].pc = "check_complete"
      /\ \A t \in Subgoal : table'[t].status = table[t].status /\ table'[t].cp_ptr = table[t].cp_ptr
      /\ complstk' = complstk /\ level_num' = level_num
  BY DEF Converted, Backtrack
<1>2. PICK i \in DOMAIN complstk : complstk[i].sg = s /\ GeneratorOf(i) = b
  BY <1>1, Checking
<1>3. ASSUME NEW j \in DOMAIN complstk PROVE complstk[j].sg \in Subgoal /\ GeneratorOf(j)' = GeneratorOf(j)
  BY <1>1, StackTypes DEF IInv, GeneratorOf
<1>4. b \in Nat
  BY <1>1, StackTypes DEF IInv
<1> HIDE DEF GeneratorOf
<1>5. ASSUME NEW j \in DOMAIN complstk'
      PROVE /\ table'[complstk'[j].sg].status # "new"
            /\ GeneratorOf(j)' \in DOMAIN cps'
            /\ cps'[GeneratorOf(j)'].sg = complstk'[j].sg /\ cps'[GeneratorOf(j)'].pc # "trie"
            /\ complstk'[j].level <= level_num'
  <2>1. /\ table[complstk[j].sg].status # "new" /\ GeneratorOf(j) \in DOMAIN cps
        /\ cps[GeneratorOf(j)].sg = complstk[j].sg /\ cps[GeneratorOf(j)].pc # "trie"
        /\ complstk[j].level <= level_num
    BY <1>1 DEF IInv, Frames
  <2>2. cps'[GeneratorOf(j)].sg = complstk[j].sg /\ cps'[GeneratorOf(j)].pc # "trie"
    BY <1>1, <2>1
  <2> QED BY <1>1, <1>3, <2>1, <2>2
<1>6. \A j, k \in DOMAIN complstk' : j < k =>
        GeneratorOf(j)' < GeneratorOf(k)' /\ complstk'[j].level <= complstk'[k].level
  BY <1>1, <1>3 DEF IInv, Frames
<1>7. \A t \in Subgoal : table'[t].status = "incomplete" => \E j \in DOMAIN complstk' : complstk'[j].sg = t
  BY <1>1 DEF IInv, Frames
<1>8. ASSUME NEW c \in DOMAIN cps', Unconverted(c)' PROVE \E j \in DOMAIN complstk' : GeneratorOf(j)' = c
  <2>1. c \in DOMAIN cps /\ Unconverted(c)
    BY <1>1, <1>8 DEF Unconverted
  <2> QED BY <1>1, <1>3, <2>1 DEF IInv, Frames
<1>9. ASSUME NEW c \in DOMAIN cps', cps'[c].pc = "answer_return"
      PROVE \E j \in DOMAIN complstk' : complstk'[j].sg = cps'[c].sg /\ GeneratorOf(j)' <= c
  <2>1. CASE c = b
    BY <1>1, <1>2, <1>3, <1>4, <2>1
  <2>2. CASE c # b
    <3>1. PICK j \in DOMAIN complstk : complstk[j].sg = cps[c].sg /\ GeneratorOf(j) <= c
      BY <1>1, <1>9, <2>2 DEF IInv, Frames
    <3> QED BY <1>1, <1>3, <3>1
  <2> QED BY <2>1, <2>2
<1>10. Frames'
  BY <1>5, <1>6, <1>7, <1>8, <1>9 DEF Frames
<1>11. ASSUME NEW c \in DOMAIN cps', NEW j \in DOMAIN complstk', NEW k \in DOMAIN complstk',
              cps'[c].pc = "answer_return", complstk'[j].sg = cps'[c].sg, j < k, GeneratorOf(k)' < c
       PROVE complstk'[j].level = complstk'[k].level
  <2>1. CASE c = b
    <3>1. j = i
      BY <1>1, <1>2, <1>11, <2>1, OneFrame
    <3>2. b < GeneratorOf(k)
      BY <1>1, <1>2, <1>11, <3>1 DEF IInv, Frames
    <3>3. GeneratorOf(k) \in DOMAIN cps
      BY <1>1 DEF IInv, Frames
    <3>4. GeneratorOf(k) \in Nat
      BY <3>3, StackTypes DEF IInv
    <3>5. GeneratorOf(k) < b
      BY <1>1, <1>3, <1>11, <2>1
    <3> QED BY <1>4, <3>2, <3>4, <3>5
  <2>2. CASE c # b
    BY <1>1, <1>3, <1>11, <2>2 DEF IInv, Levels
  <2> QED BY <2>1, <2>2
<1> QED BY <1>10, <1>11 DEF Levels

LEMMA ConvertedLists ==
  ASSUME IInv, Backtrack("check_complete"), NEW b, NEW s, NEW p, NEW f, Converted(b, s, p, f)
  PROVE  ListsOK'
<1>1. /\ b = breg /\ s = cps[b].sg /\ b \in DOMAIN cps /\ DOMAIN cps' = DOMAIN cps /\ f \in LookupFields
      /\ \A c \in DOMAIN cps : cps'[c].sg = cps[c].sg /\ (c # b => cps'[c].pc = cps[c].pc /\ cps'[c].lookup = f[c])
      /\ cps'[b].pc = "answer_return" /\ cps'[b].lookup = p /\ cps[b].pc = "check_complete"
      /\ \A t \in Subgoal : table'[t].pos_cons = IF t = s THEN b ELSE table[t].pos_cons
      /\ p \in {0, table[s].pos_cons}
  BY DEF Converted, Backtrack
<1>2. /\ \A t : Consumers(t)' = Consumers(t) \cup (IF t = s THEN {b} ELSE {})
      /\ \A t : b \notin Consumers(t) /\ Consumers(t) \subseteq DOMAIN cps
  BY <1>1 DEF Consumers
<1>3. \A t \in Subgoal : table'[t].pos_cons \in {0} \cup Consumers(t)'
  BY <1>1, <1>2 DEF IInv, ListsOK
<1>4. p \in {0} \cup Consumers(s)
  BY <1>1, Checking DEF IInv, ListsOK
<1>5. ASSUME NEW c \in DOMAIN cps
      PROVE cps'[c].lookup \in Linkable(c)' /\ cps'[c].lookup \in {0} \cup DOMAIN cps /\ cps'[c].lookup # b
  <2>0. b # 0
    BY DEF Converted, Backtrack
  <2>1. CASE c = b
    <3>1. Linkable(c)' = {0} \cup Consumers(s)'
      BY <1>1, <2>1 DEF Linkable, Consumers
    <3> QED BY <1>1, <1>2, <1>4, <2>0, <2>1, <3>1
  <2>2. CASE c # b
    <3>1. f[c] \in Linkable(c) /\ cps'[c].lookup = f[c]
      BY <1>1, <2>2 DEF LookupFields
    <3>2. PICK t : t = cps[c].sg
      OBVIOUS
    <3>3. Linkable(c) = {0} \cup (IF cps[c].pc = "answer_return" THEN Consumers(t) ELSE {})
      BY <3>2 DEF Linkable
    <3>4. Linkable(c)' = {0} \cup (IF cps[c].pc = "answer_return" THEN Consumers(t)' ELSE {})
      BY <1>1, <2>2, <3>2 DEF Linkable, Consumers
    <3> QED BY <1>2, <2>0, <3>1, <3>3, <3>4
  <2> QED BY <2>1, <2>2
<1>6. \A c \in DOMAIN cps' : Lookups'[c] = cps'[c].lookup
  BY DEF Lookups
<1>7. Lookups' \in LookupFields'
  <2>1. Lookups' = [c \in DOMAIN cps' |-> Lookups'[c]]
    BY DEF Lookups
  <2>2. Lookups' \in [DOMAIN cps' -> {0} \cup DOMAIN cps']
    BY <1>1, <1>5, <1>6, <2>1
  <2> QED BY <1>1, <1>5, <1>6, <2>2 DEF LookupFields
<1>8. PICK N \in Nat : \E rank \in [DOMAIN cps -> 1 .. N] : Ranked(f, rank)
  BY DEF Converted
<1>9. PICK rank \in [DOMAIN cps -> 1 .. N] : Ranked(f, rank)
  BY <1>8
<1>10. PICK r \in [DOMAIN cps -> 1 .. (N + 1)] :
         r[b] = N + 1 /\ \A c \in DOMAIN cps : c # b => r[c] = rank[c]
  <2> DEFINE r == [c \in DOMAIN cps |-> IF c = b THEN N + 1 ELSE rank[c]]
  <2>1. \A c \in DOMAIN cps : rank[c] \in 1 .. (N + 1) /\ N + 1 \in 1 .. (N + 1)
    BY <1>9
  <2>2. r \in [DOMAIN cps -> 1 .. (N + 1)] /\ r[b] = N + 1 /\ \A c \in DOMAIN cps : c # b => r[c] = rank[c]
    BY <1>1, <2>1
  <2> QED BY <2>2
<1>11. Ranked(Lookups, r)'
  <2>1. ASSUME NEW c \in DOMAIN cps, Lookups'[c] # 0 PROVE r[Lookups'[c]] < r[c]
    <3>1. Lookups'[c] = cps'[c].lookup /\ Lookups'[c] \in DOMAIN cps /\ Lookups'[c] # b
      BY <1>1, <1>5, <1>6, <2>1
    <3>2. r[Lookups'[c]] = rank[Lookups'[c]] /\ rank[Lookups'[c]] \in 1 .. N
      BY <1>10, <3>1
    <3>3. CASE c = b
      BY <1>10, <3>2, <3>3
    <3>4. CASE c # b
      <4>1. Lookups'[c] = f[c]
        BY <1>1, <3>1, <3>4
      <4>2. rank[f[c]] < rank[c]
        BY <1>9, <2>1, <4>1 DEF Ranked
      <4> QED BY <1>10, <3>2, <3>4, <4>1, <4>2
    <3> QED BY <3>3, <3>4
  <2> QED BY <1>1, <2>1 DEF Ranked
<1>12. N + 1 \in Nat /\ r \in [DOMAIN cps' -> 1 .. (N + 1)]
  BY <1>1
<1> QED BY <1>3, <1>7, <1>11, <1>12 DEF ListsOK

LEMMA ConvertedChains ==
  ASSUME IInv, Backtrack("check_complete"), NEW b, NEW s, NEW p, NEW f, Converted(b, s, p, f)
  PROVE  Chains'
<1>1. /\ b = breg /\ b \in DOMAIN cps /\ Len(cps') = Len(cps) /\ DOMAIN cps' = DOMAIN cps /\ mode' = "fail"
      /\ \A c \in DOMAIN cps : /\ cps'[c].cont = cps[c].cont /\ cps'[c].prev = cps[c].prev
                               /\ c # b => cps'[c].pc = cps[c].pc
      /\ cps'[b].pc = "answer_return" /\ breg' = cps[b].prev
      /\ \A t \in Subgoal : table'[t].cp_ptr = table[t].cp_ptr
  BY DEF Converted, Backtrack
<1>2. \A c \in DOMAIN cps : c \in Nat
  BY StackTypes DEF IInv
<1>3. ASSUME NEW c \in DOMAIN cps
      PROVE RootGenerator(cps[c].cont)' = RootGenerator(cps[c].cont) /\ (Unconverted(c)' => Unconverted(c) /\ c # b)
  <2>1. cps[c] \in ChoicePoint
    BY StackTypes DEF IInv
  <2>2. cps[c].cont.root \in Subgoal \cup {Query}
    BY <2>1 DEF ChoicePoint, Continuation, Place
  <2>3. RootGenerator(cps[c].cont)' = RootGenerator(cps[c].cont)
    BY <1>1, <2>2 DEF RootGenerator
  <2>4. Unconverted(c)' => Unconverted(c) /\ c # b
    BY <1>1 DEF Unconverted
  <2> QED BY <2>3, <2>4
<1>4. /\ \A c \in DOMAIN cps : cps[c].prev \in 0 .. Len(cps) /\ RootGenerator(cps[c].cont) < c
      /\ \A g \in DOMAIN cps : Unconverted(g) =>
           /\ g <= breg
           /\ \A c \in DOMAIN cps :
                /\ g < c => g <= cps[c].prev /\ g <= RootGenerator(cps[c].cont)
                /\ c <= g => cps[c].prev < g
  BY DEF IInv, Chains
<1> HIDE DEF RootGenerator, Unconverted
<1>5. ASSUME NEW g \in DOMAIN cps, Unconverted(g)' PROVE g <= breg'
  <2>1. g < b
    BY <1>1, <1>2, <1>3, <1>4, <1>5
  <2> QED BY <1>1, <1>3, <1>4, <1>5, <2>1
<1> QED BY <1>1, <1>3, <1>4, <1>5 DEF Chains

\* A generator that is not a leader becomes a consumer.
LEMMA MakeConsumerStep ==
  ASSUME IInv, Backtrack("check_complete"), makeConsumerFromGenerator(FrameOf(cps[breg].sg)),
         UNCHANGED <<prog, returned>>
  PROVE  IInv'
<1>1. PICK b, s, p, f : /\ b = breg /\ s = cps[breg].sg /\ p = DropConsumers({s})[s].pos_cons
                        /\ f = sched_answers(s, Lookups).lookup
  OBVIOUS
<1>2. /\ b \in DOMAIN cps /\ DOMAIN cps = 1 .. Len(cps) /\ Len(cps) \in Nat /\ s \in Subgoal
      /\ cps[b].pc = "check_complete" /\ cps[b].prev \in 0 .. Len(cps)
      /\ complstk[FrameOf(cps[breg].sg)].sg = s
  BY <1>1, Checking, StackTypes DEF IInv, Backtrack, Chains
<1>3. /\ f \in LookupFields
      /\ \E N \in Nat : \E rank \in [DOMAIN cps -> 1 .. N] : Ranked(Lookups, rank) /\ Ranked(f, rank)
  BY <1>1, <1>2, OwnSchedule
<1> DEFINE L == Linked(<<>>, f, {})
           D == DropConsumers({s})
           x == [L[b] EXCEPT !.pc = "answer_return", !.ret = 0, !.lookup = p]
           y == [D[s] EXCEPT !.pos_cons = b]
<1>4. /\ cps' = [L EXCEPT ![b] = x] /\ table' = [D EXCEPT ![s] = y] /\ breg' = cps[b].prev
      /\ UNCHANGED <<mode, cont, complstk, level_num>>
  BY <1>1, <1>2 DEF makeConsumerFromGenerator
<1>5. ASSUME NEW c \in DOMAIN cps
      PROVE /\ L[c] \in ChoicePoint /\ L[c].pc = cps[c].pc /\ L[c].sg = cps[c].sg /\ L[c].next = cps[c].next
            /\ L[c].cont = cps[c].cont /\ L[c].todo = cps[c].todo /\ L[c].lookup = f[c]
            /\ L[c].prev = cps[c].prev
  <2>1. PICK chain \in Seq({}) : chain = <<>>
    <3>1. <<>> \in Seq({})
      OBVIOUS
    <3> QED BY <3>1, Zenon
  <2>2. c \notin Range(chain) \cup {}
    BY <2>1 DEF Range
  <2>3. /\ DOMAIN Linked(chain, f, {}) = DOMAIN cps
        /\ LET z == Linked(chain, f, {})[c] IN
           /\ z.pc = cps[c].pc /\ z.sg = cps[c].sg /\ z.next = cps[c].next /\ z.cont = cps[c].cont
           /\ z.todo = cps[c].todo /\ z.lookup = f[c]
           /\ c \notin Range(chain) \cup {} => z.prev = cps[c].prev
           /\ z.prev \in Nat => z \in ChoicePoint
    BY <1>3, LinkedType
  <2>4. cps[c].prev \in Nat
    BY <1>2 DEF IInv, Chains
  <2>5. L = Linked(chain, f, {})
    BY <2>1
  <2> HIDE DEF L
  <2> QED BY <2>2, <2>3, <2>4, <2>5
<1>6. L = [c \in 1 .. Len(cps) |-> L[c]]
  BY <1>2 DEF Linked
<1>7. /\ D = [t \in Subgoal |-> D[t]]
      /\ \A t \in Subgoal : /\ D[t] \in SubgoalFrame /\ D[t].answers = table[t].answers
                            /\ D[t].status = table[t].status /\ D[t].cp_ptr = table[t].cp_ptr
                            /\ t # s => D[t] = table[t]
                            /\ D[t].pos_cons \in {0, table[t].pos_cons}
  <2>1. ASSUME NEW t \in Subgoal
        PROVE /\ D[t] \in SubgoalFrame /\ D[t].answers = table[t].answers
              /\ D[t].status = table[t].status /\ D[t].cp_ptr = table[t].cp_ptr
              /\ t # s => D[t] = table[t]
              /\ D[t].pos_cons \in {0, table[t].pos_cons}
    <3>1. table[t] \in SubgoalFrame
      BY StackTypes DEF IInv
    <3>2. D[t] \in {table[t], [table[t] EXCEPT !.pos_cons = 0]} /\ (t # s => D[t] = table[t])
      BY DEF DropConsumers
    <3> QED BY <3>1, <3>2 DEF SubgoalFrame
  <2>2. D = [t \in Subgoal |-> D[t]]
    BY DEF DropConsumers
  <2> QED BY <2>1, <2>2
<1> HIDE DEF L, D
<1>8. p \in {0, table[s].pos_cons} /\ p \in Nat
  <2>1. table[s] \in SubgoalFrame
    BY <1>2, StackTypes DEF IInv
  <2> QED BY <1>1, <1>2, <1>7, <2>1 DEF D, SubgoalFrame
<1>9. /\ x \in ChoicePoint /\ x.pc = "answer_return" /\ x.lookup = p
      /\ x.sg = cps[b].sg /\ x.next = cps[b].next /\ x.cont = cps[b].cont /\ x.prev = cps[b].prev
      /\ x.todo = cps[b].todo
  BY <1>2, <1>5, <1>8 DEF ChoicePoint
<1>10. /\ y \in SubgoalFrame /\ y.answers = table[s].answers /\ y.status = table[s].status
       /\ y.cp_ptr = table[s].cp_ptr /\ y.pos_cons = b
  BY <1>2, <1>7 DEF SubgoalFrame
<1> HIDE DEF x, y
<1>11. /\ cps' \in Seq(ChoicePoint) /\ Len(cps') = Len(cps) /\ DOMAIN cps' = DOMAIN cps
       /\ cps'[b] = x /\ \A c \in DOMAIN cps : c # b => cps'[c] = L[c]
  <2>1. L \in [1 .. Len(cps) -> ChoicePoint]
    BY <1>2, <1>5, <1>6
  <2>2. L \in Seq(ChoicePoint) /\ DOMAIN L = DOMAIN cps /\ Len(L) = Len(cps)
    BY <1>2, <2>1
  <2> QED BY <1>2, <1>4, <1>9, <2>2, ExceptSeq
<1>12. /\ table' \in [Subgoal -> SubgoalFrame]
       /\ \A t \in Subgoal : /\ table'[t].answers = table[t].answers /\ table'[t].status = table[t].status
                             /\ table'[t].cp_ptr = table[t].cp_ptr
                             /\ table'[t].pos_cons = IF t = s THEN b ELSE table[t].pos_cons
  <2>1. D \in [Subgoal -> SubgoalFrame]
    BY <1>7
  <2> QED BY <1>2, <1>4, <1>7, <1>10, <2>1
<1>13. Converted(b, s, p, f)
  BY <1>1, <1>2, <1>3, <1>4, <1>5, <1>8, <1>9, <1>11, <1>12 DEF Converted
<1>14. Types'
  BY <1>2, <1>4, <1>11, <1>12 DEF IInv, Types
<1>15. Evaluation'
  <2>1. ASSUME NEW c \in DOMAIN cps' PROVE Continues(c)'
    <3>1. c \in DOMAIN cps /\ Continues(c)
      BY <1>11, <2>1 DEF IInv, Evaluation
    <3>2. /\ cps'[c].sg = cps[c].sg /\ cps'[c].next = cps[c].next
          /\ cps'[c].cont = cps[c].cont /\ cps'[c].todo = cps[c].todo
          /\ cps'[c].pc = cps[c].pc \/ (cps'[c].pc = "answer_return" /\ cps[c].pc = "check_complete")
      BY <1>2, <1>13, <3>1 DEF Converted
    <3>3. Proved(cps[c].cont)'
      BY <1>12, <3>1, <3>2 DEF Continues, Proved, Clause, BodyHolds
    <3>4. (IsCall(cps[c].cont)' <=> IsCall(cps[c].cont)) /\ Callee(cps[c].cont)' = Callee(cps[c].cont)
      BY <3>2 DEF IsCall, Callee, Clause
    <3> QED BY <3>1, <3>2, <3>3, <3>4 DEF Continues
  <2>2. Proved(cont)'
    BY <1>4, <1>12 DEF IInv, Evaluation, Proved, Clause, BodyHolds
  <2> QED BY <1>12, <2>1, <2>2 DEF IInv, Evaluation, AnswersSound, ReturnedSound, Solutions
<1> QED BY <1>13, <1>14, <1>15, ConvertedFrames, ConvertedLists, ConvertedChains DEF IInv

LEMMA CheckCompleteStep == IInv /\ check_complete => IInv'
<1> SUFFICES ASSUME IInv, check_complete PROVE IInv'
  OBVIOUS
<1>1. Backtrack("check_complete") /\ UNCHANGED <<prog, returned>>
  BY DEF check_complete
<1>2. CASE ScheduleOwn(cps[breg].sg)
  BY <1>1, <1>2, ScheduleOwnStep
<1>3. CASE ScheduleSCC(FrameOf(cps[breg].sg))
  BY <1>1, <1>3, ScheduleSCCStep
<1>4. CASE CompleteSCC(FrameOf(cps[breg].sg))
  BY <1>1, <1>4, CompleteSCCStep
<1>5. CASE makeConsumerFromGenerator(FrameOf(cps[breg].sg))
  BY <1>1, <1>5, MakeConsumerStep
<1> QED BY <1>2, <1>3, <1>4, <1>5 DEF check_complete

-----------------------------------------------------------------------------
(* The theorems. *)

LEMMA Invariance == Spec => []IInv
<1>1. IInv /\ [Next]_vars => IInv'
  BY NewProducerStep, CallCompletedStep, NewConsumerStep, NewAnswerStep, QuerySolutionStep, ClauseFailsStep,
     NextClauseStep, NextFromTrieStep, AnswerReturnStep, CheckCompleteStep DEF Next
<1> QED BY <1>1, InitInv, PTL DEF Spec

\* The variables keep their types; a table under evaluation has a frame on the completion
\* stack, and the links between choice points stay within their stack.
THEOREM TypeCorrect == Spec => []TypeOK
<1>1. IInv => TypeOK
  <2> SUFFICES ASSUME IInv PROVE TypeOK
    OBVIOUS
  <2>1. /\ mode \in {"run", "fail", "halt"} /\ cont.root \in Subgoal \cup {Query} /\ breg \in 0 .. Len(cps)
    BY DEF IInv, Types, Continuation, Place
  <2>2. ASSUME NEW c \in DOMAIN cps
        PROVE /\ cps[c].pc \in {"clause", "check_complete", "answer_return", "trie"}
              /\ cps[c].prev \in 0 .. Len(cps) /\ cps[c].lookup \in 0 .. Len(cps)
    <3>1. cps[c] \in ChoicePoint /\ DOMAIN cps = 1 .. Len(cps) /\ Len(cps) \in Nat
      BY StackTypes DEF IInv
    <3>2. Lookups[c] \in {0} \cup DOMAIN cps
      BY DEF IInv, ListsOK, LookupFields
    <3>3. cps[c].lookup \in 0 .. Len(cps)
      BY <3>1, <3>2 DEF Lookups
    <3> QED BY <3>1, <3>3 DEF IInv, Chains, ChoicePoint
  <2>3. ASSUME NEW s \in Subgoal
        PROVE /\ table[s].status \in {"new", "incomplete", "complete"} /\ table[s].pos_cons \in 0 .. Len(cps)
              /\ table[s].status = "incomplete" => \E i \in DOMAIN complstk : complstk[i].sg = s
    <3>1. table[s] \in SubgoalFrame /\ DOMAIN cps = 1 .. Len(cps) /\ Len(cps) \in Nat
      BY StackTypes DEF IInv
    <3>2. table[s].pos_cons \in {0} \cup Consumers(s) /\ Consumers(s) \subseteq DOMAIN cps
      BY DEF IInv, ListsOK, Consumers
    <3>3. table[s].pos_cons \in 0 .. Len(cps)
      BY <3>1, <3>2
    <3> QED BY <3>1, <3>3 DEF IInv, Frames, SubgoalFrame
  <2> QED BY <2>1, <2>2, <2>3, StackTypes DEF TypeOK, IInv
<1> QED BY <1>1, Invariance, PTL

\* Nothing is ever entered in a table, or returned to the query, that does not follow from
\* the program, and no answer is entered twice: with or without early completion, and
\* whatever the order in which consumers are scheduled.
THEOREM Soundness == Spec => [](AnswersSound /\ ReturnedSound)
<1>1. IInv => AnswersSound /\ ReturnedSound
  BY DEF IInv, Evaluation
<1> QED BY <1>1, Invariance, PTL

\* A consumer's producer and the subgoal that made the call are in one SCC when the
\* producer is the older: the producer is not completed while its caller still runs.
THEOREM LevelsSound == Spec => []LevelsCoverCalls
<1>1. IInv => LevelsCoverCalls
  <2> SUFFICES ASSUME IInv, NEW c \in DOMAIN cps, cps[c].pc = "answer_return",
                      NEW i \in DOMAIN complstk, NEW j \in DOMAIN complstk,
                      complstk[i].sg = cps[c].sg, complstk[j].sg = cps[c].cont.root, i < j
               PROVE  complstk[i].level = complstk[j].level
    BY DEF LevelsCoverCalls
  <2>1. complstk[j].sg \in Subgoal
    BY StackTypes DEF IInv
  <2>2. RootGenerator(cps[c].cont) = GeneratorOf(j)
    BY <2>1, ProgramAssumption DEF RootGenerator, GeneratorOf
  <2>3. GeneratorOf(j) < c
    BY <2>2 DEF IInv, Chains
  <2> QED BY <2>3 DEF IInv, Levels
<1> QED BY <1>1, Invariance, PTL

\* The lists of consumers hold the right choice points and have an end, whatever
\* sched_answers unlinked: check_complete finds every consumer on them, and returns.
THEOREM ListsAcyclic == Spec => []ListsOK
<1>1. IInv => ListsOK
  BY DEF IInv
<1> QED BY <1>1, Invariance, PTL
=============================================================================
