-------------------------- MODULE WellFoundedProofs --------------------------
(***************************************************************************)
(* The lists of delay elements agree with the delay lists, for every       *)
(* program, whatever simplification and answer completion remove while     *)
(* they walk these lists; callers keep an unconditional answer, and no     *)
(* literal that is settled is left in a delay list, until answer           *)
(* completion takes an answer trie away.                                   *)
(*                                                                         *)
(* All rest on the order of completion: a subgoal depends on subgoals of   *)
(* its own SCC and of those above it, and otherwise only on subgoals that  *)
(* have left the stack.  Hence answer completion, which forgets tables     *)
(* with conditional answers in them, never meets one that is still being   *)
(* evaluated.                                                              *)
(***************************************************************************)
EXTENDS WellFounded, Induction, SequenceTheorems, FiniteSetTheorems

Continuation == [c : prog.clauses, at : Nat \ {0}, delays : SUBSET Literal,
                 st : {"run", "wait", "resumed"}]
DelayList == [asl : Atom, des : SUBSET Literal]
CallTypes ==
  [op : {"pos_unconditional", "pos_unsupported", "unsupported"}, on : Atom]
    \cup [op : {"neg_succeeds", "early", "neg_fails", "neg_fails_loop", "failed"}, on : Subgoal]
    \cup [op : {"complete"}, on : Seq(Subgoal)]
    \cup [op : {"ac"}, on : [sgs : SUBSET Subgoal, false : SUBSET Atom]]

TableTypes ==
  /\ prog \in Programs
  /\ status \in [Subgoal -> {"new", "incomplete", "complete"}]
  /\ sccs \in Seq(Seq(Subgoal))
  /\ conts \subseteq Continuation
  /\ ans \in [Atom -> {"none", "cond", "marked", "uncond", "deleted"}]
  /\ rootless \subseteq Subgoal
  /\ answers \in [Subgoal -> {"list", "no", "cond", "uncond"}]
  /\ DOMAIN dl \subseteq 1 .. MaxDL /\ dl \in [DOMAIN dl -> DelayList]
  /\ pnde \in [Literal -> Seq(1 .. MaxDL)]
  /\ needsAC \subseteq Subgoal
  /\ deferred \in Seq(Subgoal)
Types == TableTypes /\ calls \in Seq(CallTypes)

\* Delay lists belong to conditional answers, and their elements know of them, once.
Holders(l) == {d \in DOMAIN dl : l \in dl[d].des}
Indexes ==
  /\ \A d \in DOMAIN dl : dl[d].des # {}
  /\ \A a \in Atom : ans[a] = "cond" <=> DLsOf(a) # {}
  /\ \A l \in Literal : \A t \in {pnde[l]} : Range(t) = Holders(l) /\ IsInjective(t)

\* The subgoals on the completion stack, and those that have left it.
OnStack(s) == \E i \in DOMAIN sccs : s \in Range(sccs[i])
Done(s)    == Completed(s) /\ ~OnStack(s)

\* Two subgoals are of one SCC.
Mate(r, s) == \E i \in DOMAIN sccs : r \in Range(sccs[i]) /\ s \in Range(sccs[i])

\* SCCs are added and joined, and nothing is completed.
StackGrows ==
  /\ \A s \in Subgoal : (Done(s)' <=> Done(s)) /\ (Completed(s)' <=> Completed(s))
  /\ \A r, s : Mate(r, s) => Mate(r, s)'

\* The topmost SCC, which is completed, leaves the stack, and nothing is under way.
SccLeaves ==
  /\ calls' = <<>>
  /\ \A s : (OnStack(s)' <=> OnStack(s) /\ ~InTop(s)) /\ (Completed(s)' <=> Completed(s))
  /\ \A s : InTop(s) => s \in Subgoal /\ Completed(s)
  /\ \A r, s : Mate(r, s) => Mate(r, s)' \/ InTop(s)

\* An SCC is being completed.
Completing == calls # <<>> /\ Last(calls).op = "complete"
Settled(s) == Done(s) \/ (Completing /\ InTop(s))

\* s is not older than r, or has left the stack.
NotBelow(r, s) ==
  Done(s) \/ \E i, j \in DOMAIN sccs : i <= j /\ r \in Range(sccs[i]) /\ s \in Range(sccs[j])

Frames ==
  /\ \A i \in DOMAIN sccs : sccs[i] # <<>>
  /\ \A s \in Subgoal : /\ status[s] = "incomplete" => OnStack(s)
                        /\ OnStack(s) => status[s] # "new"
  /\ \A i, j \in DOMAIN sccs : \A s \in Range(sccs[i]) : s \in Range(sccs[j]) => i = j

\* What an environment waits for and has delayed, and what delay lists hold.
EnvironmentFits(k) ==
  /\ OnStack(Root(k))
  /\ \A l \in k.delays : NotBelow(Root(k), l.of[1])
  /\ k.st # "run" /\ ~AtEnd(k) => NotBelow(Root(k), Callee(k))
DelayListFits(e) == \A l \in e.des : NotBelow(e.asl[1], l.of[1])
Environments == \A k \in conts : EnvironmentFits(k)
Dependencies == \A d \in DOMAIN dl : \A e \in {dl[d]} : DelayListFits(e)

\* A subgoal that is still evaluated is completed early only, and nothing else has
\* been done to its table.
Tables ==
  \A s \in Subgoal :
    /\ Completed(s) => Settled(s) \/ (<<s, 0>> \in Atom /\ Unconditional(<<s, 0>>))
    /\ answers[s] # "list" \/ s \in rootless \/ s \in needsAC => Settled(s)

\* The calls under way.  Completion and answer completion call the others.
CallFits(c) ==
  /\ c.op = "pos_unconditional" => Unconditional(c.on)
  /\ c.op = "early" /\ <<c.on, 0>> \in Atom => Unconditional(<<c.on, 0>>)
  /\ c.op \in {"neg_fails", "failed"} => Settled(c.on)
  /\ c.op = "ac" => \A a \in c.on.false : Settled(a[1])
  /\ c.op = "complete" =>
       /\ sccs # <<>> /\ Range(c.on) \subseteq Range(Last(sccs))
       /\ \A s \in Range(Last(sccs)) \ Range(c.on) : Completed(s)
CallsOK ==
  \A i \in DOMAIN calls : \A c \in {calls[i]} :
    CallFits(c) /\ (c.op \in {"complete", "ac"} => i = Len(calls))

IInv == Types /\ Indexes /\ Frames /\ Environments /\ Dependencies /\ Tables /\ CallsOK

-----------------------------------------------------------------------------
(* Sequences *)

\* One more element at the end.
LEMMA Appended ==
  ASSUME NEW S, NEW s \in Seq(S), NEW x \in S
  PROVE  /\ Append(s, x) \in Seq(S) /\ Range(Append(s, x)) = Range(s) \cup {x}
         /\ IsInjective(s) /\ x \notin Range(s) => IsInjective(Append(s, x))
<1> DEFINE t == Append(s, x)
<1>1. /\ t \in Seq(S) /\ Len(t) = Len(s) + 1 /\ t[Len(s) + 1] = x
      /\ \A i \in 1 .. Len(s) : t[i] = s[i]
  OBVIOUS
<1>2. DOMAIN t = 1 .. (Len(s) + 1) /\ DOMAIN s = 1 .. Len(s) /\ Len(s) \in Nat
  BY <1>1
<1> HIDE DEF t
<1>3. Range(t) = Range(s) \cup {x}
  <2>1. \A y \in Range(t) : y \in Range(s) \cup {x}
    BY <1>1, <1>2 DEF Range
  <2>2. \A y \in Range(s) : y \in Range(t)
    BY <1>1, <1>2 DEF Range
  <2>3. x \in Range(t)
    BY <1>1, <1>2 DEF Range
  <2> QED BY <2>1, <2>2, <2>3
<1>4. IsInjective(s) /\ x \notin Range(s) => IsInjective(t)
  BY <1>1, <1>2 DEF Range, IsInjective
<1> QED BY <1>1, <1>3, <1>4 DEF t

\* What Unlinked leaves of a list.
LEMMA FilteredIs ==
  ASSUME NEW S, NEW s \in Seq(S), NEW X
  PROVE  /\ Filtered(s, X) \in Seq(S) /\ Range(Filtered(s, X)) = Range(s) \ X
         /\ IsInjective(s) => IsInjective(Filtered(s, X))
<1> DEFINE D == 0 .. Len(s)
           A == Seq(S)
           step == [i \in 1 .. Len(s) |-> [t \in A |-> IF s[i] \in X THEN t ELSE Append(t, s[i])]]
           f == CHOOSE f : f = [i \in D |->
                  IF i = 0 THEN <<>> ELSE IF s[i] \in X THEN f[i - 1] ELSE Append(f[i - 1], s[i])]
<1>1. Filtered(s, X) = f[Len(s)] /\ Len(s) \in Nat /\ \A i \in 1 .. Len(s) : s[i] \in S
  BY DEF Filtered
<1>2. step \in [1 .. Len(s) -> [A -> A]] /\ <<>> \in A
  BY <1>1
<1>3. PICK g \in [D -> A] : \A i \in D : g[i] = IF i = 0 THEN <<>> ELSE step[i][g[i - 1]]
  <2> DEFINE n == Len(s)
  <2>1. n \in Nat /\ step \in [1 .. n -> [A -> A]] /\ <<>> \in A /\ D = 0 .. n
    BY <1>1, <1>2
  <2> HIDE DEF A, D, step, n
  <2>2. \E g \in [0 .. n -> A] : Iterates(g, n, <<>>, step)
    BY <2>1, Steps
  <2> QED BY <2>1, <2>2 DEF Iterates
<1>4. ASSUME NEW i \in D
      PROVE  g[i] = IF i = 0 THEN <<>> ELSE IF s[i] \in X THEN g[i - 1] ELSE Append(g[i - 1], s[i])
  <2>1. CASE i # 0
    <3>1. i \in 1 .. Len(s) /\ i - 1 \in D
      BY <1>1, <2>1
    <3>2. g[i - 1] \in A /\ g[i] = step[i][g[i - 1]]
      BY <1>3, <2>1, <3>1
    <3> QED BY <2>1, <3>1, <3>2
  <2> QED BY <1>3, <2>1
<1>5. g = [i \in D |-> IF i = 0 THEN <<>> ELSE IF s[i] \in X THEN g[i - 1] ELSE Append(g[i - 1], s[i])]
  BY <1>3, <1>4
<1>6. f = [i \in D |-> IF i = 0 THEN <<>> ELSE IF s[i] \in X THEN f[i - 1] ELSE Append(f[i - 1], s[i])]
  <2> HIDE DEF D
  <2> QED BY <1>5
<1> HIDE DEF f
<1>7. \A i \in D : f[i] = IF i = 0 THEN <<>> ELSE IF s[i] \in X THEN f[i - 1] ELSE Append(f[i - 1], s[i])
  <2> HIDE DEF D
  <2> QED BY <1>6
<1> DEFINE Upto(i) == {s[j] : j \in 1 .. i}
           Good(i) == /\ f[i] \in Seq(S) /\ Range(f[i]) = Upto(i) \ X
                      /\ IsInjective(s) => IsInjective(f[i])
           Bad == {i \in D : ~Good(i)}
<1>8. Good(0)
  <2>1. f[0] = <<>>
    BY <1>1, <1>7
  <2> QED BY <2>1 DEF Range, IsInjective
<1>9. ASSUME NEW i \in 1 .. Len(s), Good(i - 1) PROVE Good(i)
  <2>1. Upto(i) = Upto(i - 1) \cup {s[i]} /\ i \in D /\ i # 0
    <3>1. 1 .. i = (1 .. (i - 1)) \cup {i}
      OBVIOUS
    <3> QED BY <1>1, <3>1
  <2>2. f[i] = IF s[i] \in X THEN f[i - 1] ELSE Append(f[i - 1], s[i])
    BY <1>7, <2>1
  <2>3. CASE s[i] \in X
    BY <1>9, <2>1, <2>2, <2>3
  <2>4. CASE s[i] \notin X
    <3>1. IsInjective(s) => s[i] \notin Upto(i - 1)
      BY <1>1 DEF IsInjective
    <3> HIDE DEF Upto
    <3> DEFINE t == f[i - 1]
    <3>2. t \in Seq(S) /\ Range(t) = Upto(i - 1) \ X /\ (IsInjective(s) => IsInjective(t)) /\ s[i] \in S
      BY <1>1, <1>9
    <3>3. f[i] = Append(t, s[i])
      BY <2>2, <2>4
    <3> HIDE DEF t
    <3>4. /\ Append(t, s[i]) \in Seq(S) /\ Range(Append(t, s[i])) = Range(t) \cup {s[i]}
          /\ IsInjective(t) /\ s[i] \notin Range(t) => IsInjective(Append(t, s[i]))
      BY <3>2, Appended
    <3> QED BY <2>1, <2>4, <3>1, <3>2, <3>3, <3>4
  <2> QED BY <2>3, <2>4
<1>10. ASSUME NEW i \in Bad, \A j \in Bad : i <= j PROVE FALSE
  <2>1. i # 0
    BY <1>8, <1>10
  <2>2. i \in 1 .. Len(s) /\ i - 1 \in D /\ ~(i <= i - 1)
    BY <1>1, <1>10, <2>1
  <2>3. Good(i - 1)
    <3> HIDE DEF Good
    <3> QED BY <1>10, <2>2
  <2> HIDE DEF Good
  <2> QED BY <1>9, <1>10, <2>2, <2>3
<1>11. Bad = {}
  <2>1. Bad \in SUBSET Nat
    BY <1>1
  <2> HIDE DEF Bad
  <2> QED BY <1>10, <2>1, LeastNatural
<1>12. Good(Len(s)) /\ Upto(Len(s)) = Range(s)
  <2>1. Good(Len(s))
    <3> HIDE DEF Good
    <3> QED BY <1>1, <1>11
  <2> QED BY <2>1 DEF Range
<1> QED BY <1>1, <1>12

LEMMA TailOfOne ==
  ASSUME NEW S, NEW s \in Seq(S), Len(s) = 1
  PROVE  Tail(s) = <<>>
<1>1. s # <<>>
  OBVIOUS
<1>2. Tail(s) \in Seq(S) /\ Len(Tail(s)) = 0
  BY <1>1, HeadTailProperties
<1> QED BY <1>2, EmptySeq

LEMMA Joined ==
  ASSUME NEW S, NEW s \in Seq(S), NEW t \in Seq(S)
  PROVE  /\ s \o t \in Seq(S) /\ Len(s \o t) = Len(s) + Len(t) /\ Len(s) \in Nat /\ Len(t) \in Nat
         /\ \A i \in 1 .. Len(s) : (s \o t)[i] = s[i]
         /\ \A i \in 1 .. Len(t) : (s \o t)[Len(s) + i] = t[i]
BY ConcatProperties

LEMMA Concatenated ==
  ASSUME NEW S, NEW s \in Seq(S), NEW t \in Seq(S)
  PROVE  s \o t \in Seq(S) /\ Range(s \o t) = Range(s) \cup Range(t)
<1> DEFINE r == s \o t
<1>1. /\ r \in Seq(S) /\ Len(r) = Len(s) + Len(t) /\ Len(s) \in Nat /\ Len(t) \in Nat
      /\ \A i \in 1 .. Len(s) : r[i] = s[i]
      /\ \A i \in 1 .. Len(t) : r[Len(s) + i] = t[i]
  BY ConcatProperties
<1> HIDE DEF r
<1>2. \A i \in 1 .. Len(r) : i \in 1 .. Len(s) \/ (i - Len(s) \in 1 .. Len(t) /\ i = Len(s) + (i - Len(s)))
  BY <1>1
<1>3. \A i \in 1 .. Len(s) : i \in 1 .. Len(r)
  BY <1>1
<1>4. \A i \in 1 .. Len(t) : Len(s) + i \in 1 .. Len(r)
  BY <1>1
<1>5. DOMAIN r = 1 .. Len(r) /\ DOMAIN s = 1 .. Len(s) /\ DOMAIN t = 1 .. Len(t)
  BY <1>1
<1>6. \A x \in Range(r) : x \in Range(s) \cup Range(t)
  <2> SUFFICES ASSUME NEW i \in 1 .. Len(r) PROVE r[i] \in Range(s) \cup Range(t)
    BY <1>5 DEF Range
  <2>1. CASE i \in 1 .. Len(s)
    BY <1>1, <1>5, <2>1 DEF Range
  <2>2. CASE i - Len(s) \in 1 .. Len(t) /\ i = Len(s) + (i - Len(s))
    <3>1. r[i] = t[i - Len(s)]
      BY <1>1, <2>2
    <3> QED BY <1>5, <2>2, <3>1 DEF Range
  <2> QED BY <1>2, <2>1, <2>2
<1>7. \A x \in Range(s) \cup Range(t) : x \in Range(r)
  BY <1>1, <1>3, <1>4, <1>5 DEF Range
<1> QED BY <1>1, <1>6, <1>7 DEF r

\* What adjust_level makes of some SCCs.
LEMMA FlattenIs ==
  ASSUME NEW S, NEW s \in Seq(Seq(S)), s # <<>>
  PROVE  /\ FlattenSeq(s) \in Seq(S)
         /\ Range(FlattenSeq(s)) = UNION {Range(s[i]) : i \in DOMAIN s}
<1> DEFINE N == Len(s)
           A == Seq(S)
           step == [i \in 1 .. N |-> [t \in A |-> IF i = 1 THEN s[i] ELSE t \o s[i]]]
           f == CHOOSE f : f = [i \in 1 .. N |-> IF i = 1 THEN s[i] ELSE f[i - 1] \o s[i]]
<1>1. FlattenSeq(s) = f[N] /\ N \in Nat \ {0} /\ DOMAIN s = 1 .. N /\ \A i \in 1 .. N : s[i] \in A
  BY DEF FlattenSeq
<1>2. step \in [1 .. N -> [A -> A]] /\ <<>> \in A
  BY <1>1, ConcatProperties
<1>3. PICK h \in [0 .. N -> A] : \A i \in 0 .. N : h[i] = IF i = 0 THEN <<>> ELSE step[i][h[i - 1]]
  <2> HIDE DEF A, step, N
  <2>1. \E g \in [0 .. N -> A] : Iterates(g, N, <<>>, step)
    BY <1>1, <1>2, Steps
  <2> QED BY <2>1 DEF Iterates
<1>4. ASSUME NEW i \in 1 .. N PROVE h[i] = IF i = 1 THEN s[i] ELSE h[i - 1] \o s[i]
  <2>1. i \in 0 .. N /\ i - 1 \in 0 .. N /\ i # 0
    BY <1>1
  <2>2. h[i - 1] \in A /\ h[i] = step[i][h[i - 1]]
    BY <1>3, <2>1
  <2> QED BY <2>2
<1> DEFINE g == [i \in 1 .. N |-> h[i]]
<1>5. g = [i \in 1 .. N |-> IF i = 1 THEN s[i] ELSE g[i - 1] \o s[i]]
  <2>1. \A i \in 1 .. N : i # 1 => i - 1 \in 1 .. N
    BY <1>1
  <2> QED BY <1>4, <2>1
<1>6. f = [i \in 1 .. N |-> IF i = 1 THEN s[i] ELSE f[i - 1] \o s[i]]
  <2> HIDE DEF g, N
  <2> QED BY <1>5
<1> HIDE DEF f
<1>7. \A i \in 1 .. N : f[i] = IF i = 1 THEN s[i] ELSE f[i - 1] \o s[i]
  <2> HIDE DEF N
  <2> QED BY <1>6
<1> DEFINE Upto(i) == UNION {Range(s[j]) : j \in 1 .. i}
           Good(i) == f[i] \in Seq(S) /\ Range(f[i]) = Upto(i)
           Bad == {i \in 1 .. N : ~Good(i)}
<1>8. Good(1)
  <2>1. 1 \in 1 .. N /\ 1 .. 1 = {1}
    BY <1>1
  <2>2. f[1] = s[1] /\ s[1] \in Seq(S) /\ Upto(1) = Range(s[1])
    BY <1>1, <1>7, <2>1
  <2> QED BY <2>2
<1>9. ASSUME NEW i \in 1 .. N, i # 1, Good(i - 1) PROVE Good(i)
  <2>1. Upto(i) = Upto(i - 1) \cup Range(s[i])
    <3>1. 1 .. i = (1 .. (i - 1)) \cup {i}
      BY <1>1
    <3> QED BY <3>1
  <2>2. f[i] = f[i - 1] \o s[i] /\ s[i] \in Seq(S) /\ f[i - 1] \in Seq(S)
    BY <1>1, <1>7, <1>9
  <2>3. f[i] \in Seq(S) /\ Range(f[i]) = Range(f[i - 1]) \cup Range(s[i])
    BY <2>2, Concatenated
  <2> QED BY <1>9, <2>1, <2>3
<1>10. ASSUME NEW i \in Bad, \A j \in Bad : i <= j PROVE FALSE
  <2>1. i # 1
    BY <1>8, <1>10
  <2>2. i \in 1 .. N /\ i - 1 \in 1 .. N /\ ~(i <= i - 1)
    BY <1>1, <1>10, <2>1
  <2>3. Good(i - 1)
    <3> HIDE DEF Good
    <3> QED BY <1>10, <2>2
  <2> HIDE DEF Good
  <2> QED BY <1>9, <1>10, <2>1, <2>2, <2>3
<1>11. Bad = {}
  <2>1. Bad \in SUBSET Nat
    BY <1>1
  <2> HIDE DEF Bad
  <2> QED BY <1>10, <2>1, LeastNatural
<1>12. Good(N)
  <2>1. N \in 1 .. N
    BY <1>1
  <2> HIDE DEF Good, N
  <2> QED BY <1>11, <2>1
<1> QED BY <1>1, <1>12

-----------------------------------------------------------------------------
(* Programs *)

LEMMA Atoms ==
  /\ \A a \in Atom : /\ a[1] \in Subgoal /\ a = <<a[1], a[2]>> /\ a \in Of(a[1]) /\ Is(a) \in Literal
                     /\ <<a[1], 0>> \in Atom => a = <<a[1], 0>>
  /\ \A s : <<s, 0>> \in Atom => s \in Subgoal /\ Not(s) \in Literal
  /\ \A l \in Literal : l.of \in Atom /\ l.neg \in BOOLEAN /\ l.of[1] \in Subgoal
  /\ \A s \in Subgoal : Of(s) \subseteq Atom /\ \A a \in Of(s) : a[1] = s
<1>1. \A a \in Atom : a = <<a[1], a[2]>> /\ (<<a[1], 0>> \in Atom => a[2] = 0)
  BY WellFoundedAssumption
<1>2. \A a \in Atom : a[1] \in Subgoal /\ a \in Of(a[1]) /\ Is(a) \in Literal
  BY DEF Subgoal, Of, Is, Literal
<1>3. \A s : <<s, 0>> \in Atom => s \in Subgoal /\ Not(s) \in Literal
  BY DEF Subgoal, Not, Literal
<1>4. \A l \in Literal : l.of \in Atom /\ l.neg \in BOOLEAN
  BY DEF Literal
<1>5. \A s \in Subgoal : Of(s) \subseteq Atom /\ \A a \in Of(s) : a[1] = s
  BY DEF Of
<1> QED BY <1>1, <1>2, <1>3, <1>4, <1>5

\* What an environment holds.
LEMMA Environment ==
  ASSUME prog \in Programs, NEW k \in Continuation
  PROVE  /\ k.c \in prog.clauses /\ k.delays \subseteq Literal /\ k.at \in Nat \ {0}
         /\ k.c.head \in Atom /\ Root(k) \in Subgoal /\ Root(k) = k.c.head[1]
         /\ ~AtEnd(k) => /\ Lit(k) \in Literal /\ Callee(k) \in Subgoal /\ Callee(k) = Lit(k).of[1]
                         /\ Lit(k).neg => Lit(k).of = <<Callee(k), 0>>
<1>1. k.c \in prog.clauses /\ k.delays \subseteq Literal /\ k.at \in Nat \ {0}
  BY DEF Continuation
<1>2. k.c.head \in Atom /\ k.c.body \in Seq(Literal) /\ \A l \in Range(k.c.body) : l.neg => l.of[2] = 0
  BY <1>1, WellFoundedAssumption
<1>3. Root(k) \in Subgoal /\ Root(k) = k.c.head[1]
  BY <1>2, Atoms DEF Root
<1>4. ASSUME ~AtEnd(k)
      PROVE  /\ Lit(k) \in Literal /\ Callee(k) \in Subgoal /\ Callee(k) = Lit(k).of[1]
             /\ Lit(k).neg => Lit(k).of = <<Callee(k), 0>>
  <2> DEFINE l == Lit(k)
  <2>1. l \in Literal /\ l \in Range(k.c.body)
    <3>1. k.at \in 1 .. Len(k.c.body)
      BY <1>1, <1>2, <1>4 DEF AtEnd
    <3> QED BY <1>2, <3>1 DEF Lit, Range
  <2>2. Callee(k) = l.of[1]
    BY DEF Callee
  <2> HIDE DEF l
  <2>3. l.of \in Atom /\ l.of[1] \in Subgoal /\ l.of = <<l.of[1], l.of[2]>>
    BY <2>1, Atoms
  <2>4. l.neg => l.of[2] = 0
    BY <1>2, <2>1
  <2> QED BY <2>1, <2>2, <2>3, <2>4 DEF l
<1> QED BY <1>1, <1>2, <1>3, <1>4

-----------------------------------------------------------------------------
(* The completion stack *)

\* The top of the stack stays when the stack does, and what has been completed or settled stays.
LEMMA StackSame ==
  ASSUME sccs' = sccs, \A s \in Subgoal : Completed(s) => Completed(s)'
  PROVE  /\ \A s : (OnStack(s)' <=> OnStack(s)) /\ (InTop(s)' <=> InTop(s))
         /\ \A s \in Subgoal : Done(s) => Done(s)'
         /\ \A r : \A s \in Subgoal : NotBelow(r, s) => NotBelow(r, s)'
         /\ (Completing => Completing') => \A s \in Subgoal : Settled(s) => Settled(s)'
<1>1. \A s : (OnStack(s)' <=> OnStack(s)) /\ (InTop(s)' <=> InTop(s))
  BY DEF OnStack, InTop
<1>2. \A s \in Subgoal : Done(s) => Done(s)'
  BY <1>1 DEF Done
<1>3. \A r : \A s \in Subgoal : NotBelow(r, s) => NotBelow(r, s)'
  BY <1>2 DEF NotBelow
<1>4. (Completing => Completing') => \A s \in Subgoal : Settled(s) => Settled(s)'
  BY <1>1, <1>2 DEF Settled
<1> QED BY <1>1, <1>2, <1>3, <1>4

-----------------------------------------------------------------------------
(* Calls *)

\* A call is one of four kinds.
LEMMA CallIs ==
  ASSUME NEW c \in CallTypes
  PROVE  /\ c.op \in {"pos_unconditional", "pos_unsupported", "unsupported"} => c.on \in Atom
         /\ c.op \in {"neg_succeeds", "early", "neg_fails", "neg_fails_loop", "failed"} => c.on \in Subgoal
         /\ c.op = "complete" => c.on \in Seq(Subgoal)
         /\ c.op = "ac" => c.on.false \subseteq Atom /\ c.on.sgs \subseteq Subgoal
BY DEF CallTypes

\* A new call.
NewCallOK(c) ==
  /\ c.op \notin {"complete", "ac"}
  /\ c.op = "pos_unconditional" => Unconditional(c.on)'
  /\ c.op = "early" /\ <<c.on, 0>> \in Atom => Unconditional(<<c.on, 0>>)'
  /\ c.op \in {"neg_fails", "failed"} => Settled(c.on)

\* The rest of the calls when the innermost goes on or returns.
Goes(rest) ==
  rest = calls \/ (calls # <<>> /\ rest = Tail(calls) /\ Top.op \notin {"complete", "ac"})

\* Calls are made in front of the others.
LEMMA CallsStep ==
  ASSUME Types, CallsOK, NEW p \in Seq(CallTypes), NEW rest, Goes(rest), calls' = p \o rest,
         \A i \in DOMAIN p : NewCallOK(p[i]),
         calls = <<>> => ~Completing,
         sccs' = sccs, \A s \in Subgoal : Completed(s) => Completed(s)',
         \A a \in Atom : Unconditional(a) => Unconditional(a)'
  PROVE  CallsOK' /\ (Completing' <=> Completing) /\ calls' \in Seq(CallTypes)
<1>1. /\ rest \in Seq(CallTypes) /\ Len(rest) \in Nat /\ Len(calls) \in Nat /\ Len(p) \in Nat
      /\ rest = calls \/ (/\ Len(rest) = Len(calls) - 1 /\ Len(calls) # 0 /\ calls[1].op \notin {"complete", "ac"}
                          /\ \A i \in 1 .. Len(rest) : rest[i] = calls[i + 1])
  <2>1. calls \in Seq(CallTypes) /\ Len(calls) \in Nat /\ Len(p) \in Nat
    BY DEF Types
  <2>2. CASE rest = calls
    BY <2>1, <2>2
  <2>3. CASE calls # <<>> /\ rest = Tail(calls) /\ Top.op \notin {"complete", "ac"}
    <3>1. Len(calls) # 0 /\ Head(calls) = calls[1]
      BY <2>1, <2>3
    <3>2. /\ Tail(calls) \in Seq(CallTypes) /\ Len(Tail(calls)) = Len(calls) - 1
          /\ \A i \in 1 .. Len(Tail(calls)) : Tail(calls)[i] = calls[i + 1]
      BY <2>1, <2>3, HeadTailProperties
    <3>3. /\ rest \in Seq(CallTypes) /\ Len(rest) = Len(calls) - 1
          /\ \A i \in 1 .. Len(rest) : rest[i] = calls[i + 1]
      BY <2>3, <3>2
    <3>4. calls[1].op \notin {"complete", "ac"} /\ Len(rest) \in Nat
      BY <2>3, <3>1, <3>3 DEF Top
    <3> QED BY <2>1, <3>1, <3>3, <3>4
  <2> QED BY <2>2, <2>3 DEF Goes
<1>2. /\ calls' \in Seq(CallTypes) /\ Len(calls') = Len(p) + Len(rest)
      /\ \A i \in 1 .. Len(p) : calls'[i] = p[i]
      /\ \A i \in 1 .. Len(rest) : calls'[Len(p) + i] = rest[i]
  BY <1>1, ConcatProperties
<1>3. Completing' <=> Completing
  <2>1. CASE Len(rest) # 0
    <3>1. calls'[Len(calls')] = rest[Len(rest)] /\ calls' # <<>> /\ calls # <<>>
      BY <1>1, <1>2, <2>1
    <3>2. rest[Len(rest)] = calls[Len(calls)]
      BY <1>1, <2>1
    <3> QED BY <3>1, <3>2 DEF Completing, Last
  <2>2. CASE Len(rest) = 0
    <3>1. ~Completing
      BY <1>1, <2>2 DEF Completing, Last
    <3>2. ASSUME calls' # <<>> PROVE Last(calls').op # "complete"
      <4>1. Len(calls') = Len(p) /\ Len(p) \in 1 .. Len(p) /\ DOMAIN p = 1 .. Len(p)
        BY <1>1, <1>2, <2>2, <3>2
      <4>2. calls'[Len(calls')] = p[Len(p)]
        BY <1>2, <4>1
      <4>3. NewCallOK(p[Len(p)])
        BY <4>1
      <4> QED BY <4>2, <4>3 DEF NewCallOK, Last
    <3> QED BY <3>1, <3>2 DEF Completing
  <2> QED BY <1>1, <2>1, <2>2
<1>4. \A s \in Subgoal : Settled(s) => Settled(s)'
  BY <1>3, StackSame
<1>5. ASSUME NEW c \in CallTypes, CallFits(c) PROVE CallFits(c)'
  <2>1. c.op = "pos_unconditional" => Unconditional(c.on)'
    BY <1>5, CallIs DEF CallFits
  <2>2. c.op = "early" /\ <<c.on, 0>> \in Atom => Unconditional(<<c.on, 0>>)'
    BY <1>5 DEF CallFits
  <2>3. c.op \in {"neg_fails", "failed"} => Settled(c.on)'
    BY <1>4, <1>5, CallIs DEF CallFits
  <2>4. c.op = "ac" => \A a \in c.on.false : Settled(a[1])'
    BY <1>4, <1>5, CallIs, Atoms DEF CallFits
  <2>5. c.op = "complete" =>
          /\ sccs # <<>> /\ Range(c.on) \subseteq Range(Last(sccs))
          /\ \A s \in Range(Last(sccs)) \ Range(c.on) : Completed(s)'
    <3> SUFFICES ASSUME c.op = "complete", sccs # <<>>, NEW s \in Range(Last(sccs)) \ Range(c.on)
                 PROVE  Completed(s)'
      BY <1>5 DEF CallFits
    <3>1. Last(sccs) \in Seq(Subgoal)
      BY DEF Types, TableTypes, Last
    <3>2. s \in Subgoal
      BY <3>1 DEF Range
    <3> QED BY <1>5, <3>2 DEF CallFits
  <2> QED BY <2>1, <2>2, <2>3, <2>4, <2>5 DEF CallFits
<1>6. ASSUME NEW c \in CallTypes, NewCallOK(c) PROVE CallFits(c)'
  <2>1. c.op \in {"neg_fails", "failed"} => Settled(c.on)'
    BY <1>4, <1>6, CallIs DEF NewCallOK
  <2> QED BY <1>6, <2>1 DEF NewCallOK, CallFits
<1>7. ASSUME NEW i \in 1 .. Len(calls'), NEW c, c = calls'[i]
      PROVE  CallFits(c)' /\ (c.op \in {"complete", "ac"} => i = Len(calls'))
  <2>1. CASE i \in 1 .. Len(p)
    <3>1. c = p[i] /\ p[i] \in CallTypes /\ NewCallOK(p[i])
      BY <1>1, <1>2, <1>7, <2>1
    <3> QED BY <1>6, <3>1 DEF NewCallOK
  <2>2. CASE i \notin 1 .. Len(p)
    <3>1. PICK j \in 1 .. Len(rest) : i = Len(p) + j
      <4>1. i - Len(p) \in 1 .. Len(rest) /\ i = Len(p) + (i - Len(p))
        BY <1>1, <1>2, <2>2
      <4> QED BY <4>1
    <3>2. c = rest[j]
      BY <1>2, <1>7, <3>1
    <3>3. PICK h \in 1 .. Len(calls) : c = calls[h] /\ (h = Len(calls) => j = Len(rest))
      <4>1. CASE rest = calls
        BY <1>1, <3>2, <4>1
      <4>2. CASE rest # calls
        <5>1. j + 1 \in 1 .. Len(calls) /\ rest[j] = calls[j + 1] /\ (j + 1 = Len(calls) => j = Len(rest))
          BY <1>1, <4>2
        <5> QED BY <3>2, <5>1
      <4> QED BY <4>1, <4>2
    <3>4. c \in CallTypes /\ CallFits(c) /\ (c.op \in {"complete", "ac"} => h = Len(calls))
      <4>1. h \in DOMAIN calls /\ c \in {calls[h]} /\ c \in CallTypes
        BY <3>3 DEF Types
      <4> QED BY <4>1 DEF CallsOK
    <3>5. CallFits(c)'
      BY <1>5, <3>4
    <3>6. i = Len(p) + j /\ Len(calls') = Len(p) + Len(rest)
      BY <1>2, <3>1
    <3> QED BY <3>3, <3>4, <3>5, <3>6
  <2> QED BY <2>1, <2>2
<1>8. CallsOK'
  BY <1>2, <1>7 DEF CallsOK
<1> QED BY <1>2, <1>3, <1>8

\* What the other steps keep if the completion stack stays.
LEMMA StackStays ==
  ASSUME IInv, prog' = prog, sccs' = sccs, CallsOK', Completing => Completing', Types', Indexes',
         \A k \in conts' : EnvironmentFits(k),
         \A d \in DOMAIN dl' : \A e \in {dl'[d]} : DelayListFits(e),
         \A a \in Atom : Unconditional(a) => Unconditional(a)',
         \A s \in Subgoal : \/ status'[s] = status[s]
                            \/ /\ status'[s] = "complete"
                               /\ \/ Settled(s)'
                                  \/ <<s, 0>> \in Atom /\ Unconditional(<<s, 0>>)',
         \A s \in Subgoal : answers'[s] # "list" \/ s \in rootless' \/ s \in needsAC' => Settled(s)'
  PROVE  IInv'
<1>1. \A s \in Subgoal : Completed(s) => Completed(s)'
  BY DEF Completed
<1>2. /\ \A s : (OnStack(s)' <=> OnStack(s)) /\ (InTop(s)' <=> InTop(s))
      /\ \A r : \A s \in Subgoal : NotBelow(r, s) => NotBelow(r, s)'
      /\ \A s \in Subgoal : Settled(s) => Settled(s)'
  BY <1>1, StackSame
<1>3. Frames'
  <2>1. \A i \in DOMAIN sccs : sccs[i] # <<>>
    BY DEF IInv, Frames
  <2>2. \A s \in Subgoal : status'[s] = status[s] \/ status'[s] = "complete"
    OBVIOUS
  <2>3. \A s \in Subgoal : /\ status'[s] = "incomplete" => OnStack(s)'
                           /\ OnStack(s)' => status'[s] # "new"
    BY <1>2, <2>2 DEF IInv, Frames
  <2>4. \A i, j \in DOMAIN sccs : \A s \in Range(sccs[i]) : s \in Range(sccs[j]) => i = j
    BY DEF IInv, Frames
  <2> QED BY <2>1, <2>3, <2>4 DEF Frames
<1>4. Environments'
  <2> SUFFICES ASSUME NEW k \in conts' PROVE EnvironmentFits(k)'
    BY DEF Environments
  <2>1. /\ k.delays \subseteq Literal
        /\ ~AtEnd(k) => Callee(k) \in Subgoal
    <3>1. prog \in Programs /\ k \in Continuation
      BY DEF Types, TableTypes, Continuation
    <3> QED BY <3>1, Environment
  <2>2. \A l \in k.delays : l.of[1] \in Subgoal
    BY <2>1, Atoms
  <2>3. EnvironmentFits(k)
    OBVIOUS
  <2> QED BY <1>2, <2>1, <2>2, <2>3 DEF EnvironmentFits
<1>5. Dependencies'
  <2> SUFFICES ASSUME NEW d \in DOMAIN dl', NEW e \in {dl'[d]} PROVE DelayListFits(e)'
    BY DEF Dependencies
  <2>1. e \in DelayList /\ DelayListFits(e)
    BY DEF Types, TableTypes
  <2>2. \A l \in e.des : l.of[1] \in Subgoal
    BY <2>1, Atoms DEF DelayList
  <2> QED BY <1>2, <2>1, <2>2 DEF DelayListFits
<1>6. Tables'
  <2> SUFFICES ASSUME NEW s \in Subgoal, Completed(s)'
               PROVE  Settled(s)' \/ (<<s, 0>> \in Atom /\ Unconditional(<<s, 0>>)')
    BY DEF Tables
  <2>1. CASE status'[s] = status[s]
    <3>1. Settled(s) \/ (<<s, 0>> \in Atom /\ Unconditional(<<s, 0>>))
      BY <2>1 DEF IInv, Tables, Completed
    <3> QED BY <1>2, <3>1
  <2>2. CASE status'[s] # status[s]
    BY <2>2
  <2> QED BY <2>1, <2>2
<1> QED BY <1>3, <1>4, <1>5, <1>6 DEF IInv

\* The steps that leave the stack alone and neither begin nor end completion.
LEMMA Quiet ==
  ASSUME IInv, NEW p \in Seq(CallTypes), NEW rest, Goes(rest), calls' = p \o rest,
         \A i \in DOMAIN p : NewCallOK(p[i]),
         prog' = prog, sccs' = sccs, TableTypes', Indexes',
         \A k \in conts' : EnvironmentFits(k),
         \A d \in DOMAIN dl' : \A e \in {dl'[d]} : DelayListFits(e),
         \A a \in Atom : Unconditional(a) => Unconditional(a)',
         \A s \in Subgoal : status'[s] = status[s] \/ (/\ status'[s] = "complete" /\ <<s, 0>> \in Atom
                                                       /\ Unconditional(<<s, 0>>)),
         \A s \in Subgoal : answers'[s] # "list" \/ s \in rootless' \/ s \in needsAC' => Settled(s)
  PROVE  IInv'
<1>1. \A s \in Subgoal : Completed(s) => Completed(s)'
  BY DEF Completed
<1>2. CallsOK' /\ (Completing' <=> Completing) /\ calls' \in Seq(CallTypes)
  <2>1. calls = <<>> => ~Completing
    BY DEF Completing
  <2> QED BY <1>1, <2>1, CallsStep DEF IInv
<1>3. \A s \in Subgoal : Settled(s) => Settled(s)'
  BY <1>1, <1>2, StackSame
<1>4. Types'
  BY <1>2 DEF Types
<1>5. \A s \in Subgoal : \/ status'[s] = status[s]
                         \/ /\ status'[s] = "complete"
                            /\ \/ Settled(s)'
                               \/ <<s, 0>> \in Atom /\ Unconditional(<<s, 0>>)'
  OBVIOUS
<1>6. \A s \in Subgoal : answers'[s] # "list" \/ s \in rootless' \/ s \in needsAC' => Settled(s)'
  BY <1>3
<1> QED BY <1>2, <1>4, <1>5, <1>6, StackStays

\* The same of what is unchanged.
LEMMA Kept ==
  ASSUME IInv
  PROVE  /\ \A k \in conts : EnvironmentFits(k) /\ k \in Continuation
         /\ \A d \in DOMAIN dl : \A e \in {dl[d]} : DelayListFits(e)
         /\ \A s \in Subgoal : answers[s] # "list" \/ s \in rootless \/ s \in needsAC => Settled(s)
         /\ TableTypes /\ Indexes
BY DEF IInv, Environments, Dependencies, Tables, Types, TableTypes

-----------------------------------------------------------------------------
(* Delay lists *)

\* What is left when delay lists are released.
LEMMA Released ==
  ASSUME Types, Indexes, NEW D, dl' = Without(D), pnde' = Unlinked(D)
  PROVE  /\ DOMAIN dl' = DOMAIN dl \ D /\ \A d \in DOMAIN dl' : dl'[d] = dl[d]
         /\ DOMAIN dl' \subseteq 1 .. MaxDL /\ dl' \in [DOMAIN dl' -> DelayList]
         /\ pnde' \in [Literal -> Seq(1 .. MaxDL)]
         /\ \A a : DLsOf(a)' = DLsOf(a) \ D
         /\ \A d \in DOMAIN dl' : dl'[d].des # {}
         /\ \A l \in Literal : \A t \in {pnde'[l]} : Range(t) = Holders(l)' /\ IsInjective(t)
<1>1. DOMAIN dl' = DOMAIN dl \ D /\ \A d \in DOMAIN dl' : dl'[d] = dl[d]
  BY DEF Without
<1>2. DOMAIN dl' \subseteq 1 .. MaxDL /\ dl' \in [DOMAIN dl' -> DelayList]
  <2>1. DOMAIN dl \subseteq 1 .. MaxDL /\ \A d \in DOMAIN dl : dl[d] \in DelayList
    BY DEF Types, TableTypes
  <2> QED BY <1>1, <2>1 DEF Without
<1>3. \A a : DLsOf(a)' = DLsOf(a) \ D
  BY <1>1 DEF DLsOf
<1>4. \A d \in DOMAIN dl' : dl'[d].des # {}
  BY <1>1 DEF Indexes
<1>5. ASSUME NEW l \in Literal, NEW t \in {pnde'[l]}
      PROVE t \in Seq(1 .. MaxDL) /\ Range(t) = Holders(l)' /\ IsInjective(t)
  <2>1. PICK u : u = pnde[l]
    OBVIOUS
  <2>2. u \in Seq(1 .. MaxDL) /\ Range(u) = Holders(l) /\ IsInjective(u)
    BY <2>1 DEF Indexes, Types, TableTypes
  <2>3. PICK X : X = {d \in D : l \in dl[d].des}
    OBVIOUS
  <2>4. t = Filtered(u, X)
    BY <2>1, <2>3 DEF Unlinked
  <2>5. t \in Seq(1 .. MaxDL) /\ Range(t) = Range(u) \ X /\ IsInjective(t)
    BY <2>2, <2>4, FilteredIs
  <2>6. Holders(l)' = Holders(l) \ X
    BY <1>1, <2>3 DEF Holders
  <2> QED BY <2>2, <2>5, <2>6
<1>6. pnde' \in [Literal -> Seq(1 .. MaxDL)]
  <2>1. \A l \in Literal : pnde'[l] \in Seq(1 .. MaxDL)
    BY <1>5
  <2> QED BY <2>1 DEF Unlinked
<1> QED BY <1>1, <1>2, <1>3, <1>4, <1>5, <1>6

\* All delay lists of an answer are released, and it is conditional no more.
LEMMA Freed ==
  ASSUME Types, Indexes, NEW b \in Atom, NEW v \in {"marked", "deleted"}, NEW D, D = DLsOf(b),
         ans' = [ans EXCEPT ![b] = v], dl' = Without(D), pnde' = Unlinked(D)
  PROVE  Indexes' /\ ans' \in [Atom -> {"none", "cond", "marked", "uncond", "deleted"}]
<1>1. /\ \A a : DLsOf(a)' = DLsOf(a) \ D
      /\ \A d \in DOMAIN dl' : dl'[d].des # {}
      /\ \A l \in Literal : \A t \in {pnde'[l]} : Range(t) = Holders(l)' /\ IsInjective(t)
  BY Released
<1>2. ans \in [Atom -> {"none", "cond", "marked", "uncond", "deleted"}]
  BY DEF Types, TableTypes
<1>3. ASSUME NEW a \in Atom PROVE ans'[a] = "cond" <=> DLsOf(a)' # {}
  <2>1. CASE a = b
    BY <1>1, <1>2, <2>1
  <2>2. CASE a # b
    <3>1. ans'[a] = ans[a]
      BY <1>2, <2>2
    <3>2. DLsOf(a) \ D = DLsOf(a)
      BY <2>2 DEF DLsOf
    <3> QED BY <1>1, <3>1, <3>2 DEF Indexes
  <2> QED BY <2>1, <2>2
<1> QED BY <1>1, <1>2, <1>3 DEF Indexes

\* One delay list is released, and its answer keeps another.
LEMMA FreedOne ==
  ASSUME Types, Indexes, NEW d \in DOMAIN dl, NEW D, D = {d}, DLsOf(dl[d].asl) # D,
         ans' = ans, dl' = Without(D), pnde' = Unlinked(D)
  PROVE  Indexes'
<1>1. /\ \A a : DLsOf(a)' = DLsOf(a) \ D
      /\ \A e \in DOMAIN dl' : dl'[e].des # {}
      /\ \A l \in Literal : \A t \in {pnde'[l]} : Range(t) = Holders(l)' /\ IsInjective(t)
  BY Released
<1>2. ASSUME NEW a \in Atom PROVE DLsOf(a) # {} <=> DLsOf(a) \ D # {}
  <2>1. CASE a = dl[d].asl
    <3>1. d \in DLsOf(a) /\ DLsOf(a) # {d}
      BY <2>1 DEF DLsOf
    <3> QED BY <3>1
  <2>2. CASE a # dl[d].asl
    BY <2>2 DEF DLsOf
  <2> QED BY <2>1, <2>2
<1>3. \A a \in Atom : ans'[a] = "cond" <=> DLsOf(a)' # {}
  BY <1>1, <1>2 DEF Indexes
<1> QED BY <1>1, <1>3 DEF Indexes

\* The first of the lists that hold a literal.
LEMMA FirstHolder ==
  ASSUME Types, Indexes, NEW l \in Literal, pnde[l] # <<>>
  PROVE  \E u \in Seq(1 .. MaxDL) : /\ u = pnde[l] /\ u # <<>> /\ IsInjective(u) /\ Range(u) = Holders(l)
                                    /\ Head(u) \in Holders(l)
<1>1. PICK u : u = pnde[l]
  OBVIOUS
<1>2. u \in Seq(1 .. MaxDL) /\ Range(u) = Holders(l) /\ IsInjective(u) /\ u # <<>>
  BY <1>1 DEF Indexes, Types, TableTypes
<1>3. Head(u) = u[1] /\ 1 \in DOMAIN u
  BY <1>2
<1>4. Head(u) \in Holders(l)
  BY <1>2, <1>3 DEF Range
<1> QED BY <1>1, <1>2, <1>4

\* A delay list loses one of its elements.
LEMMA Shortened ==
  ASSUME Types, Indexes, NEW l \in Literal, pnde[l] # <<>>, NEW d, d = Head(pnde[l]), dl[d].des # {l},
         dl' = [dl EXCEPT ![d].des = @ \ {l}], pnde' = [pnde EXCEPT ![l] = Tail(@)], ans' = ans
  PROVE  /\ Indexes'
         /\ DOMAIN dl' = DOMAIN dl
         /\ \A e \in DOMAIN dl : dl'[e] \in DelayList /\ dl'[e].asl = dl[e].asl /\ dl'[e].des \subseteq dl[e].des
         /\ dl' \in [DOMAIN dl' -> DelayList] /\ pnde' \in [Literal -> Seq(1 .. MaxDL)]
<1>1. PICK u \in Seq(1 .. MaxDL) : /\ u = pnde[l] /\ u # <<>> /\ IsInjective(u) /\ Range(u) = Holders(l)
                                   /\ Head(u) \in Holders(l)
  BY FirstHolder
<1>2. d = Head(u) /\ d \in DOMAIN dl /\ l \in dl[d].des
  BY <1>1 DEF Holders
<1>3. \A e \in DOMAIN dl : dl[e] \in DelayList
  BY DEF Types, TableTypes
<1>4. PICK x : x = dl[d]
  OBVIOUS
<1>5. x \in DelayList /\ x.des \in SUBSET Literal /\ x.asl \in Atom
  BY <1>2, <1>3, <1>4 DEF DelayList
<1>6. dl' = [dl EXCEPT ![d] = [x EXCEPT !.des = @ \ {l}]]
  BY <1>2, <1>4
<1>7. PICK y : y = [x EXCEPT !.des = @ \ {l}]
  OBVIOUS
<1>8. y \in DelayList /\ y.asl = x.asl /\ y.des = x.des \ {l}
  BY <1>5, <1>7 DEF DelayList
<1>9. DOMAIN dl' = DOMAIN dl /\ dl'[d] = y /\ \A e \in DOMAIN dl : e # d => dl'[e] = dl[e]
  BY <1>2, <1>6, <1>7
<1>10. \A e \in DOMAIN dl : dl'[e] \in DelayList /\ dl'[e].asl = dl[e].asl /\ dl'[e].des \subseteq dl[e].des
  BY <1>3, <1>4, <1>8, <1>9
<1>11. dl' \in [DOMAIN dl' -> DelayList]
  <2>1. dl' = [e \in DOMAIN dl' |-> dl'[e]]
    BY <1>6
  <2> QED BY <1>9, <1>10, <2>1
<1>12. PICK v : v = Tail(u)
  OBVIOUS
<1>13. v \in Seq(1 .. MaxDL) /\ IsInjective(v) /\ Range(v) = Range(u) \ {d}
  <2>1. /\ Len(u) \in Nat \ {0} /\ DOMAIN u = 1 .. Len(u) /\ DOMAIN v = 1 .. Len(v) /\ d = u[1]
        /\ v \in Seq(1 .. MaxDL) /\ Len(v) = Len(u) - 1 /\ \A i \in 1 .. Len(v) : v[i] = u[i + 1]
    <3>1. Len(u) \in Nat \ {0} /\ DOMAIN u = 1 .. Len(u) /\ d = u[1]
      BY <1>1, <1>2
    <3>2. /\ Tail(u) \in Seq(1 .. MaxDL) /\ Len(Tail(u)) = Len(u) - 1
          /\ \A i \in 1 .. Len(Tail(u)) : Tail(u)[i] = u[i + 1]
      BY <1>1, HeadTailProperties
    <3>3. v \in Seq(1 .. MaxDL) /\ Len(v) = Len(u) - 1 /\ \A i \in 1 .. Len(v) : v[i] = u[i + 1]
      BY <1>12, <3>2
    <3> QED BY <3>1, <3>3
  <2>2. \A i \in 1 .. Len(v) : i + 1 \in 1 .. Len(u) /\ i + 1 # 1
    BY <2>1
  <2>3. \A i \in 1 .. Len(u) : i # 1 => i - 1 \in 1 .. Len(v) /\ u[i] = v[i - 1]
    BY <2>1
  <2>4. \A i, j \in 1 .. Len(u) : u[i] = u[j] => i = j
    BY <1>1, <2>1 DEF IsInjective
  <2>5. IsInjective(v)
    <3> SUFFICES ASSUME NEW i \in 1 .. Len(v), NEW j \in 1 .. Len(v), v[i] = v[j] PROVE i = j
      BY <2>1 DEF IsInjective
    <3>1. i + 1 = j + 1
      BY <2>1, <2>2, <2>4
    <3> QED BY <3>1
  <2>6. \A i \in 1 .. Len(v) : v[i] \in Range(u) /\ v[i] # d
    BY <2>1, <2>2, <2>4 DEF Range
  <2>7. \A i \in 1 .. Len(u) : u[i] # d => u[i] \in Range(v)
    BY <2>1, <2>3 DEF Range
  <2>8. \A z \in Range(v) : z \in Range(u) \ {d}
    BY <2>1, <2>6 DEF Range
  <2>9. \A z \in Range(u) \ {d} : z \in Range(v)
    BY <2>1, <2>7 DEF Range
  <2> QED BY <2>1, <2>5, <2>8, <2>9
<1>14. pnde \in [Literal -> Seq(1 .. MaxDL)]
  BY DEF Types, TableTypes
<1>15. pnde'[l] = v /\ \A m \in Literal : m # l => pnde'[m] = pnde[m]
  BY <1>1, <1>12, <1>14
<1>16. pnde' \in [Literal -> Seq(1 .. MaxDL)]
  <2>1. \A m \in Literal : pnde'[m] \in Seq(1 .. MaxDL)
    BY <1>13, <1>14, <1>15
  <2>2. pnde' = [m \in Literal |-> pnde'[m]]
    BY <1>14
  <2> QED BY <2>1, <2>2
<1>17. Indexes'
  <2>1. \A e \in DOMAIN dl' : dl'[e].des # {}
    <3>1. y.des # {}
      BY <1>2, <1>4, <1>8
    <3> QED BY <1>9, <3>1 DEF Indexes
  <2>2. \A a : DLsOf(a)' = DLsOf(a)
    BY <1>9, <1>10 DEF DLsOf
  <2>3. \A a \in Atom : ans'[a] = "cond" <=> DLsOf(a)' # {}
    BY <2>2 DEF Indexes
  <2>4. ASSUME NEW m \in Literal, NEW t \in {pnde'[m]} PROVE Range(t) = Holders(m)' /\ IsInjective(t)
    <3>1. CASE m = l
      <4>1. Holders(l)' = Holders(l) \ {d}
        BY <1>4, <1>8, <1>9 DEF Holders
      <4> QED BY <1>1, <1>13, <1>15, <2>4, <3>1, <4>1
    <3>2. CASE m # l
      <4>1. Holders(m)' = Holders(m)
        BY <1>4, <1>8, <1>9, <3>2 DEF Holders
      <4>2. t \in {pnde[m]}
        BY <1>15, <2>4, <3>2
      <4> QED BY <4>1, <4>2 DEF Indexes
    <3> QED BY <3>1, <3>2
  <2> QED BY <2>1, <2>3, <2>4 DEF Indexes
<1> QED BY <1>9, <1>10, <1>11, <1>16, <1>17

\* A delay list is added.
LEMMA Added ==
  ASSUME Types, Indexes, NEW a \in Atom, NEW D \in SUBSET Literal, D # {},
         ~(1 .. MaxDL \subseteq DOMAIN dl), AddDL(a, D), ans' = [ans EXCEPT ![a] = "cond"]
  PROVE  /\ Indexes'
         /\ DOMAIN dl' \subseteq 1 .. MaxDL /\ dl' \in [DOMAIN dl' -> DelayList]
         /\ \A e \in DOMAIN dl' : (e \in DOMAIN dl /\ dl'[e] = dl[e]) \/ dl'[e] = [asl |-> a, des |-> D]
         /\ pnde' \in [Literal -> Seq(1 .. MaxDL)]
         /\ ans' \in [Atom -> {"none", "cond", "marked", "uncond", "deleted"}]
<1> DEFINE free(n) == n \notin DOMAIN dl /\ \A m \in 1 .. n - 1 : m \in DOMAIN dl
           d == CHOOSE n \in 1 .. MaxDL : free(n)
<1>1. d \in 1 .. MaxDL /\ d \notin DOMAIN dl
  <2>1. PICK F : F = (1 .. MaxDL) \ DOMAIN dl
    OBVIOUS
  <2>2. F \in SUBSET Nat /\ F # {} /\ MaxDL \in Nat
    BY <2>1, WellFoundedAssumption
  <2>3. PICK n \in F : \A m \in F : n <= m
    BY <2>2, LeastNatural
  <2>4. \A m \in 1 .. n - 1 : m \notin F /\ m \in 1 .. MaxDL
    BY <2>1, <2>2, <2>3
  <2>5. n \in 1 .. MaxDL /\ free(n)
    BY <2>1, <2>3, <2>4
  <2> QED BY <2>5
<1>2. /\ dl' = [e \in DOMAIN dl \cup {d} |-> IF e = d THEN [asl |-> a, des |-> D] ELSE dl[e]]
      /\ pnde' = [l \in Literal |-> IF l \in D THEN <<d>> \o pnde[l] ELSE pnde[l]]
  BY DEF AddDL
<1> HIDE DEF d
<1>3. /\ DOMAIN dl' = DOMAIN dl \cup {d} /\ dl'[d] = [asl |-> a, des |-> D]
      /\ \A e \in DOMAIN dl : dl'[e] = dl[e]
  BY <1>1, <1>2
<1>4. DOMAIN dl' \subseteq 1 .. MaxDL /\ dl' \in [DOMAIN dl' -> DelayList]
  <2>1. DOMAIN dl \subseteq 1 .. MaxDL /\ \A e \in DOMAIN dl : dl[e] \in DelayList
    BY DEF Types, TableTypes
  <2>2. [asl |-> a, des |-> D] \in DelayList
    BY DEF DelayList
  <2> QED BY <1>1, <1>2, <1>3, <2>1, <2>2
<1>5. ASSUME NEW l \in Literal, NEW t \in {pnde'[l]}
      PROVE t \in Seq(1 .. MaxDL) /\ Range(t) = Holders(l)' /\ IsInjective(t)
  <2>1. PICK u : u = pnde[l]
    OBVIOUS
  <2>2. u \in Seq(1 .. MaxDL) /\ Range(u) = Holders(l) /\ IsInjective(u)
    BY <2>1 DEF Indexes, Types, TableTypes
  <2>3. CASE l \in D
    <3>1. t = <<d>> \o u
      BY <1>2, <2>1, <2>3
    <3>2. Holders(l)' = Holders(l) \cup {d}
      BY <1>3, <2>3 DEF Holders
    <3>3. d \notin Range(u)
      BY <1>1, <2>2 DEF Holders
    <3>4. PICK x : x = <<d>>
      OBVIOUS
    <3>5. x \in Seq(1 .. MaxDL) /\ Range(x) = {d} /\ Len(x) = 1 /\ x[1] = d
      BY <1>1, <3>4 DEF Range
    <3>6. t \in Seq(1 .. MaxDL) /\ Range(t) = {d} \cup Range(u)
      <4>1. t = x \o u
        BY <3>1, <3>4
      <4>2. x \o u \in Seq(1 .. MaxDL) /\ Range(x \o u) = Range(x) \cup Range(u)
        BY <2>2, <3>5, Concatenated
      <4> QED BY <3>5, <4>1, <4>2
    <3>7. IsInjective(t)
      <4>1. Len(t) = 1 + Len(u) /\ t[1] = d /\ \A i \in 1 .. Len(u) : t[1 + i] = u[i]
        BY <2>2, <3>1, <3>4, <3>5, ConcatProperties
      <4>2. Len(u) \in Nat /\ DOMAIN u = 1 .. Len(u) /\ DOMAIN t = 1 .. Len(t)
        BY <2>2, <3>6
      <4>3. \A i \in 1 .. Len(t) : i # 1 => i - 1 \in 1 .. Len(u) /\ t[i] = u[i - 1]
        <5> SUFFICES ASSUME NEW i \in 1 .. Len(t), i # 1 PROVE i - 1 \in 1 .. Len(u) /\ t[i] = u[i - 1]
          OBVIOUS
        <5>1. i - 1 \in 1 .. Len(u) /\ i = 1 + (i - 1)
          BY <4>1, <4>2
        <5> QED BY <4>1, <5>1
      <4>4. \A i \in 1 .. Len(u) : u[i] # d
        BY <3>3, <4>2 DEF Range
      <4>5. \A i, j \in 1 .. Len(u) : u[i] = u[j] => i = j
        BY <2>2, <4>2 DEF IsInjective
      <4> SUFFICES ASSUME NEW i \in 1 .. Len(t), NEW j \in 1 .. Len(t), t[i] = t[j] PROVE i = j
        BY <4>2 DEF IsInjective
      <4>6. CASE i = 1 \/ j = 1
        BY <4>1, <4>3, <4>4, <4>6
      <4>7. CASE i # 1 /\ j # 1
        <5>1. i - 1 = j - 1
          BY <4>3, <4>5, <4>7
        <5> QED BY <4>1, <4>2, <5>1
      <4> QED BY <4>6, <4>7
    <3> QED BY <2>2, <3>2, <3>6, <3>7
  <2>4. CASE l \notin D
    <3>1. t = u
      BY <1>2, <2>1, <2>4
    <3>2. Holders(l)' = Holders(l)
      BY <1>1, <1>3, <2>4 DEF Holders
    <3> QED BY <2>2, <3>1, <3>2
  <2> QED BY <2>3, <2>4
<1>6. pnde' \in [Literal -> Seq(1 .. MaxDL)]
  <2>1. \A l \in Literal : pnde'[l] \in Seq(1 .. MaxDL)
    BY <1>5
  <2>2. pnde' = [l \in Literal |-> pnde'[l]]
    BY <1>2
  <2> QED BY <2>1, <2>2
<1>7. ans \in [Atom -> {"none", "cond", "marked", "uncond", "deleted"}]
  BY DEF Types, TableTypes
<1>8. Indexes'
  <2>1. \A e \in DOMAIN dl' : dl'[e].des # {}
    BY <1>3 DEF Indexes
  <2>2. ASSUME NEW b \in Atom PROVE ans'[b] = "cond" <=> DLsOf(b)' # {}
    <3>1. DLsOf(b)' = IF b = a THEN DLsOf(b) \cup {d} ELSE DLsOf(b)
      BY <1>1, <1>3 DEF DLsOf
    <3>2. ans'[b] = IF b = a THEN "cond" ELSE ans[b]
      BY <1>7
    <3> QED BY <3>1, <3>2 DEF Indexes
  <2> QED BY <1>5, <2>1, <2>2 DEF Indexes
<1> QED BY <1>3, <1>4, <1>6, <1>7, <1>8

\* The same for an answer that was conditional, in the invariant.
LEMMA FreedKeeps ==
  ASSUME IInv, NEW b \in Atom, NEW v \in {"marked", "deleted"}, v = "deleted" => ~Unconditional(b),
         ans' = [ans EXCEPT ![b] = v], dl' = Without(DLsOf(b)), pnde' = Unlinked(DLsOf(b))
  PROVE  /\ Indexes' /\ ans' \in [Atom -> {"none", "cond", "marked", "uncond", "deleted"}]
         /\ DOMAIN dl' \subseteq 1 .. MaxDL /\ dl' \in [DOMAIN dl' -> DelayList]
         /\ pnde' \in [Literal -> Seq(1 .. MaxDL)]
         /\ \A d \in DOMAIN dl' : \A e \in {dl'[d]} : DelayListFits(e)
         /\ \A a \in Atom : Unconditional(a) => Unconditional(a)'
         /\ v = "marked" => Unconditional(b)'
<1>1. PICK D : D = DLsOf(b)
  OBVIOUS
<1>2. Types /\ Indexes /\ dl' = Without(D) /\ pnde' = Unlinked(D)
  BY <1>1 DEF IInv
<1>3. Indexes' /\ ans' \in [Atom -> {"none", "cond", "marked", "uncond", "deleted"}]
  BY <1>1, <1>2, Freed
<1>4. /\ DOMAIN dl' = DOMAIN dl \ D /\ \A d \in DOMAIN dl' : dl'[d] = dl[d]
      /\ DOMAIN dl' \subseteq 1 .. MaxDL /\ dl' \in [DOMAIN dl' -> DelayList]
      /\ pnde' \in [Literal -> Seq(1 .. MaxDL)]
  BY <1>2, Released
<1>5. \A d \in DOMAIN dl' : \A e \in {dl'[d]} : DelayListFits(e)
  BY <1>4, Kept
<1>6. ans \in [Atom -> {"none", "cond", "marked", "uncond", "deleted"}]
  BY <1>2 DEF Types, TableTypes
<1>7. \A a \in Atom : Unconditional(a) => Unconditional(a)'
  BY <1>6 DEF Unconditional
<1>8. v = "marked" => Unconditional(b)'
  BY <1>6 DEF Unconditional
<1> QED BY <1>3, <1>4, <1>5, <1>7, <1>8

\* No call, or only a return.
LEMMA QuietSame ==
  ASSUME IInv, calls' = calls \/ (calls # <<>> /\ calls' = Tail(calls) /\ Top.op \notin {"complete", "ac"}),
         prog' = prog, sccs' = sccs, TableTypes', Indexes',
         \A k \in conts' : EnvironmentFits(k),
         \A d \in DOMAIN dl' : \A e \in {dl'[d]} : DelayListFits(e),
         \A a \in Atom : Unconditional(a) => Unconditional(a)',
         \A s \in Subgoal : status'[s] = status[s] \/ (/\ status'[s] = "complete" /\ <<s, 0>> \in Atom
                                                       /\ Unconditional(<<s, 0>>)),
         \A s \in Subgoal : answers'[s] # "list" \/ s \in rootless' \/ s \in needsAC' => Settled(s)
  PROVE  IInv'
<1>1. PICK rest : rest = calls'
  OBVIOUS
<1>2. Goes(rest)
  BY <1>1 DEF Goes
<1>3. calls \in Seq(CallTypes)
  BY DEF IInv, Types
<1>4. rest \in Seq(CallTypes)
  <2>1. CASE rest = calls
    BY <1>3, <2>1
  <2>2. CASE calls # <<>> /\ rest = Tail(calls)
    BY <1>3, <2>2
  <2> QED BY <1>1, <2>1, <2>2
<1>5. PICK p : p = <<>>
  OBVIOUS
<1>6. p \in Seq(CallTypes) /\ \A i \in DOMAIN p : NewCallOK(p[i])
  BY <1>5
<1>7. p \o rest = rest
  BY <1>4, <1>5
<1>8. calls' = p \o rest
  BY <1>1, <1>7
<1> QED BY <1>2, <1>6, <1>8, Quiet

-----------------------------------------------------------------------------
(* Simplification *)

\* Three calls, made in front of the others.
LEMMA ThreeCalls ==
  ASSUME NEW x \in CallTypes, NEW y \in CallTypes, NEW z \in CallTypes,
         NewCallOK(x), NewCallOK(y), NewCallOK(z)
  PROVE  /\ <<x, y, z>> \in Seq(CallTypes)
         /\ \A i \in DOMAIN <<x, y, z>> : NewCallOK(<<x, y, z>>[i])
<1> DEFINE p == <<x, y, z>>
<1>1. p \in Seq(CallTypes) /\ DOMAIN p = 1 .. 3 /\ p[1] = x /\ p[2] = y /\ p[3] = z
  OBVIOUS
<1> HIDE DEF p
<1>2. \A i \in 1 .. 3 : i = 1 \/ i = 2 \/ i = 3
  OBVIOUS
<1>3. \A i \in DOMAIN p : NewCallOK(p[i])
  BY <1>1, <1>2
<1> QED BY <1>1, <1>3 DEF p

LEMMA RemoveDEKeeps ==
  ASSUME IInv, NEW l \in Literal, RemoveDE(l)
  PROVE  IInv'
<1>1. PICK d, b : d = Head(pnde[l]) /\ b = dl[d].asl
  OBVIOUS
<1>2. /\ UNCHANGED <<prog, wfm, status, sccs, conts, rootless, answers, needsAC, deferred>>
      /\ pnde[l] # <<>>
  BY DEF RemoveDE
<1>3. Types /\ Indexes
  BY DEF IInv
<1>4. d \in DOMAIN dl /\ b \in Atom
  <2>1. \E u \in Seq(1 .. MaxDL) : /\ u = pnde[l] /\ u # <<>> /\ IsInjective(u) /\ Range(u) = Holders(l)
                                   /\ Head(u) \in Holders(l)
    BY <1>2, <1>3, FirstHolder
  <2>2. d \in DOMAIN dl
    BY <1>1, <2>1 DEF Holders
  <2> QED BY <1>1, <1>3, <2>2 DEF Types, TableTypes, DelayList
<1>5. /\ \A k \in conts' : EnvironmentFits(k)
      /\ \A s \in Subgoal : status'[s] = status[s]
      /\ \A s \in Subgoal : answers'[s] # "list" \/ s \in rootless' \/ s \in needsAC' => Settled(s)
  BY <1>2, Kept
<1>6. CASE dl[d].des # {l}
  <2>1. /\ dl' = [dl EXCEPT ![d].des = @ \ {l}] /\ pnde' = [pnde EXCEPT ![l] = Tail(@)]
        /\ ans' = ans /\ calls' = calls
    BY <1>1, <1>6 DEF RemoveDE
  <2>2. /\ Indexes'
        /\ DOMAIN dl' = DOMAIN dl
        /\ \A e \in DOMAIN dl : dl'[e] \in DelayList /\ dl'[e].asl = dl[e].asl /\ dl'[e].des \subseteq dl[e].des
        /\ dl' \in [DOMAIN dl' -> DelayList] /\ pnde' \in [Literal -> Seq(1 .. MaxDL)]
    BY <1>1, <1>2, <1>3, <1>6, <2>1, Shortened
  <2>3. TableTypes'
    BY <1>2, <1>3, <2>1, <2>2 DEF Types, TableTypes, Continuation
  <2>4. ASSUME NEW e \in DOMAIN dl', NEW f \in {dl'[e]} PROVE DelayListFits(f)
    <3>1. PICK g : g = dl[e]
      OBVIOUS
    <3>2. DelayListFits(g) /\ f.asl = g.asl /\ f.des \subseteq g.des
      BY <2>2, <3>1, Kept
    <3> QED BY <3>2 DEF DelayListFits
  <2>5. \A a \in Atom : Unconditional(a) => Unconditional(a)'
    BY <2>1 DEF Unconditional
  <2> QED BY <1>2, <1>5, <2>1, <2>2, <2>3, <2>4, <2>5, QuietSame
<1>7. CASE dl[d].des = {l}
  <2>1. /\ ans' = [ans EXCEPT ![b] = "marked"] /\ dl' = Without(DLsOf(b)) /\ pnde' = Unlinked(DLsOf(b))
        /\ calls' = <<Call("pos_unconditional", b), Call("early", b[1]), Call("neg_succeeds", b[1])>> \o calls
    BY <1>1, <1>7 DEF RemoveDE, Mark
  <2>2. /\ Indexes' /\ ans' \in [Atom -> {"none", "cond", "marked", "uncond", "deleted"}]
        /\ DOMAIN dl' \subseteq 1 .. MaxDL /\ dl' \in [DOMAIN dl' -> DelayList]
        /\ pnde' \in [Literal -> Seq(1 .. MaxDL)]
        /\ \A e \in DOMAIN dl' : \A f \in {dl'[e]} : DelayListFits(f)
        /\ \A a \in Atom : Unconditional(a) => Unconditional(a)'
        /\ Unconditional(b)'
    BY <1>4, <2>1, FreedKeeps
  <2>3. TableTypes'
    BY <1>2, <1>3, <2>1, <2>2 DEF Types, TableTypes, Continuation
  <2>4. PICK x, y, z : x = Call("pos_unconditional", b) /\ y = Call("early", b[1]) /\ z = Call("neg_succeeds", b[1])
    OBVIOUS
  <2>5. b[1] \in Subgoal /\ (<<b[1], 0>> \in Atom => b = <<b[1], 0>>)
    BY <1>4, Atoms
  <2>6. x \in CallTypes /\ y \in CallTypes /\ z \in CallTypes
    BY <1>4, <2>4, <2>5 DEF Call, CallTypes
  <2>7. NewCallOK(x)
    BY <2>2, <2>4 DEF NewCallOK, Call
  <2>8. NewCallOK(y)
    BY <2>2, <2>4, <2>5 DEF NewCallOK, Call
  <2>9. NewCallOK(z)
    BY <2>4 DEF NewCallOK, Call
  <2>10. PICK p : p = <<x, y, z>>
    OBVIOUS
  <2>11. p \in Seq(CallTypes) /\ \A i \in DOMAIN p : NewCallOK(p[i])
    BY <2>6, <2>7, <2>8, <2>9, <2>10, ThreeCalls
  <2>12. PICK rest : rest = calls /\ Goes(rest) /\ calls' = p \o rest
    BY <2>1, <2>4, <2>10 DEF Goes
  <2> QED BY <1>2, <1>5, <2>2, <2>3, <2>11, <2>12, Quiet
<1> QED BY <1>6, <1>7

LEMMA RemoveDLKeeps ==
  ASSUME IInv, NEW l \in Literal, RemoveDL(l)
  PROVE  IInv'
<1>1. PICK d, b : d = Head(pnde[l]) /\ b = dl[d].asl
  OBVIOUS
<1>2. /\ UNCHANGED <<prog, wfm, status, sccs, conts, rootless, answers, needsAC, deferred>>
      /\ pnde[l] # <<>>
  BY DEF RemoveDL
<1>3. Types /\ Indexes
  BY DEF IInv
<1>4. d \in DOMAIN dl /\ b \in Atom
  <2>1. \E u \in Seq(1 .. MaxDL) : /\ u = pnde[l] /\ u # <<>> /\ IsInjective(u) /\ Range(u) = Holders(l)
                                   /\ Head(u) \in Holders(l)
    BY <1>2, <1>3, FirstHolder
  <2>2. d \in DOMAIN dl
    BY <1>1, <2>1 DEF Holders
  <2> QED BY <1>1, <1>3, <2>2 DEF Types, TableTypes, DelayList
<1>5. /\ \A k \in conts' : EnvironmentFits(k)
      /\ \A s \in Subgoal : status'[s] = status[s]
      /\ \A s \in Subgoal : answers'[s] # "list" \/ s \in rootless' \/ s \in needsAC' => Settled(s)
  BY <1>2, Kept
<1>6. dl' = Without({d}) /\ pnde' = Unlinked({d})
  BY <1>1 DEF RemoveDL
<1>7. CASE DLsOf(b) # {d}
  <2>1. ans' = ans /\ calls' = calls
    BY <1>1, <1>7 DEF RemoveDL
  <2>2. PICK D : D = {d}
    OBVIOUS
  <2>3. dl' = Without(D) /\ pnde' = Unlinked(D)
    BY <1>6, <2>2
  <2>4. Indexes'
    BY <1>1, <1>3, <1>4, <1>7, <2>1, <2>2, <2>3, FreedOne
  <2>5. /\ DOMAIN dl' = DOMAIN dl \ D /\ \A e \in DOMAIN dl' : dl'[e] = dl[e]
        /\ DOMAIN dl' \subseteq 1 .. MaxDL /\ dl' \in [DOMAIN dl' -> DelayList]
        /\ pnde' \in [Literal -> Seq(1 .. MaxDL)]
    BY <1>3, <2>3, Released
  <2>6. TableTypes'
    BY <1>2, <1>3, <2>1, <2>5 DEF Types, TableTypes, Continuation
  <2>7. \A e \in DOMAIN dl' : \A f \in {dl'[e]} : DelayListFits(f)
    BY <2>5, Kept
  <2>8. \A a \in Atom : Unconditional(a) => Unconditional(a)'
    BY <2>1 DEF Unconditional
  <2> QED BY <1>2, <1>5, <2>1, <2>4, <2>6, <2>7, <2>8, QuietSame
<1>8. CASE DLsOf(b) = {d}
  <2>1. /\ ans' = [ans EXCEPT ![b] = "deleted"] /\ dl' = Without(DLsOf(b)) /\ pnde' = Unlinked(DLsOf(b))
        /\ calls' = <<Call("pos_unsupported", b), Call("unsupported", b)>> \o calls
    BY <1>1, <1>6, <1>8 DEF RemoveDL
  <2>2. ~Unconditional(b)
    BY <1>3, <1>4, <1>8 DEF Indexes, Unconditional
  <2>3. /\ Indexes' /\ ans' \in [Atom -> {"none", "cond", "marked", "uncond", "deleted"}]
        /\ DOMAIN dl' \subseteq 1 .. MaxDL /\ dl' \in [DOMAIN dl' -> DelayList]
        /\ pnde' \in [Literal -> Seq(1 .. MaxDL)]
        /\ \A e \in DOMAIN dl' : \A f \in {dl'[e]} : DelayListFits(f)
        /\ \A a \in Atom : Unconditional(a) => Unconditional(a)'
    BY <1>4, <2>1, <2>2, FreedKeeps
  <2>4. TableTypes'
    BY <1>2, <1>3, <2>1, <2>3 DEF Types, TableTypes, Continuation
  <2>5. PICK p : p = <<Call("pos_unsupported", b), Call("unsupported", b)>>
    OBVIOUS
  <2>6. Call("pos_unsupported", b) \in CallTypes /\ Call("unsupported", b) \in CallTypes
    BY <1>4 DEF Call, CallTypes
  <2>7. NewCallOK(Call("pos_unsupported", b)) /\ NewCallOK(Call("unsupported", b))
    BY DEF NewCallOK, Call
  <2>8. p \in Seq(CallTypes) /\ \A i \in DOMAIN p : NewCallOK(p[i])
    BY <2>5, <2>6, <2>7
  <2>9. PICK rest : rest = calls /\ Goes(rest) /\ calls' = p \o rest
    BY <2>1, <2>5 DEF Goes
  <2> QED BY <1>2, <1>5, <2>3, <2>4, <2>8, <2>9, Quiet
<1> QED BY <1>7, <1>8

\* The innermost call.
LEMMA TopIs ==
  ASSUME IInv, calls # <<>>
  PROVE  \E c \in CallTypes : c = Top /\ CallFits(c) /\ (c.op \in {"complete", "ac"} => Len(calls) = 1)
<1>1. calls \in Seq(CallTypes)
  BY DEF IInv, Types
<1>2. PICK c : c = calls[1]
  OBVIOUS
<1>3. 1 \in DOMAIN calls /\ c \in CallTypes /\ c = Top
  BY <1>1, <1>2 DEF Top
<1>4. CallFits(c) /\ (c.op \in {"complete", "ac"} => 1 = Len(calls))
  BY <1>2, <1>3 DEF IInv, CallsOK
<1> QED BY <1>3, <1>4

LEMMA ForceFalseKeeps ==
  ASSUME IInv, NEW a \in Atom, ForceFalse(a)
  PROVE  IInv'
<1>1. /\ UNCHANGED <<prog, wfm, status, sccs, conts, rootless, answers, needsAC, deferred>>
      /\ calls # <<>> /\ Top.op = "ac" /\ a \in Top.on.false /\ Has(a) /\ ~Unconditional(a)
      /\ ans' = [ans EXCEPT ![a] = "deleted"] /\ dl' = Without(DLsOf(a)) /\ pnde' = Unlinked(DLsOf(a))
      /\ calls' = <<Call("pos_unsupported", a), Call("failed", a[1]), Call("neg_fails", a[1])>> \o calls
  BY DEF ForceFalse, In
<1>2. /\ Indexes' /\ ans' \in [Atom -> {"none", "cond", "marked", "uncond", "deleted"}]
      /\ DOMAIN dl' \subseteq 1 .. MaxDL /\ dl' \in [DOMAIN dl' -> DelayList]
      /\ pnde' \in [Literal -> Seq(1 .. MaxDL)]
      /\ \A e \in DOMAIN dl' : \A f \in {dl'[e]} : DelayListFits(f)
      /\ \A b \in Atom : Unconditional(b) => Unconditional(b)'
  BY <1>1, FreedKeeps
<1>3. TableTypes'
  BY <1>1, <1>2 DEF IInv, Types, TableTypes, Continuation
<1>4. Settled(a[1])
  <2>1. PICK c \in CallTypes : c = Top /\ CallFits(c) /\ (c.op \in {"complete", "ac"} => Len(calls) = 1)
    BY <1>1, TopIs
  <2> QED BY <1>1, <2>1 DEF CallFits
<1>5. PICK x, y, z : x = Call("pos_unsupported", a) /\ y = Call("failed", a[1]) /\ z = Call("neg_fails", a[1])
  OBVIOUS
<1>6. x \in CallTypes /\ y \in CallTypes /\ z \in CallTypes
  BY <1>5, Atoms DEF Call, CallTypes
<1>7. NewCallOK(x) /\ NewCallOK(y) /\ NewCallOK(z)
  BY <1>4, <1>5 DEF NewCallOK, Call
<1>8. PICK p : p = <<x, y, z>>
  OBVIOUS
<1>9. p \in Seq(CallTypes) /\ \A i \in DOMAIN p : NewCallOK(p[i])
  BY <1>6, <1>7, <1>8, ThreeCalls
<1>10. PICK rest : rest = calls /\ Goes(rest) /\ calls' = p \o rest
  BY <1>1, <1>5, <1>8 DEF Goes
<1>11. /\ \A k \in conts' : EnvironmentFits(k)
       /\ \A s \in Subgoal : status'[s] = status[s]
       /\ \A s \in Subgoal : answers'[s] # "list" \/ s \in rootless' \/ s \in needsAC' => Settled(s)
  BY <1>1, Kept
<1> QED BY <1>1, <1>2, <1>3, <1>9, <1>10, <1>11, Quiet

\* A call returns and nothing is done to the answers and their delay lists.
LEMMA Returns ==
  ASSUME IInv, calls # <<>>, Top.op \notin {"complete", "ac"}, TableTypes',
         calls' = Tail(calls) \/ \E c \in CallTypes : NewCallOK(c) /\ calls' = <<c>> \o Tail(calls),
         UNCHANGED <<prog, sccs, conts, ans, dl, pnde>>,
         \A s \in Subgoal : status'[s] = status[s] \/ (/\ status'[s] = "complete" /\ <<s, 0>> \in Atom
                                                       /\ Unconditional(<<s, 0>>)),
         \A s \in Subgoal : answers'[s] # "list" \/ s \in rootless' \/ s \in needsAC' => Settled(s)
  PROVE  IInv'
<1>1. \A k \in conts' : EnvironmentFits(k)
  BY Kept
<1>2. \A d \in DOMAIN dl' : \A e \in {dl'[d]} : DelayListFits(e)
  BY Kept
<1>3. \A a \in Atom : Unconditional(a) => Unconditional(a)'
  BY DEF Unconditional
<1>4. Indexes'
  BY DEF IInv, Indexes, DLsOf, Holders
<1>5. CASE calls' = Tail(calls)
  BY <1>1, <1>2, <1>3, <1>4, <1>5, QuietSame
<1>6. CASE \E c \in CallTypes : NewCallOK(c) /\ calls' = <<c>> \o Tail(calls)
  <2>1. PICK c \in CallTypes : NewCallOK(c) /\ calls' = <<c>> \o Tail(calls)
    BY <1>6
  <2>2. PICK p : p = <<c>>
    OBVIOUS
  <2>3. p \in Seq(CallTypes) /\ \A i \in DOMAIN p : NewCallOK(p[i])
    BY <2>1, <2>2
  <2>4. PICK rest : rest = Tail(calls) /\ Goes(rest) /\ calls' = p \o rest
    BY <2>1, <2>2 DEF Goes
  <2> QED BY <1>1, <1>2, <1>3, <1>4, <2>3, <2>4, Quiet
<1> QED BY <1>5, <1>6

LEMMA EndPosUnconditionalKeeps ==
  ASSUME IInv, EndPosUnconditional
  PROVE  IInv'
<1>1. PICK a, s : a = Top.on /\ s = a[1]
  OBVIOUS
<1>2. /\ calls # <<>> /\ Top.op = "pos_unconditional" /\ calls' = Tail(calls)
      /\ ans' = [ans EXCEPT ![a] = "uncond"]
      /\ \/ answers[s] = "cond" /\ answers' = [answers EXCEPT ![s] = "uncond"] /\ needsAC' = needsAC \ {s}
         \/ answers' = answers /\ needsAC' = needsAC
      /\ UNCHANGED <<prog, wfm, status, sccs, conts, rootless, dl, pnde, deferred>>
  BY <1>1 DEF EndPosUnconditional, In
<1>3. a \in Atom /\ s \in Subgoal /\ Unconditional(a)
  <2>1. PICK c \in CallTypes : c = Top /\ CallFits(c) /\ (c.op \in {"complete", "ac"} => Len(calls) = 1)
    BY <1>2, TopIs
  <2>2. a \in Atom /\ Unconditional(a)
    BY <1>1, <1>2, <2>1, CallIs DEF CallFits
  <2> QED BY <1>1, <2>2, Atoms
<1>4. /\ ans \in [Atom -> {"none", "cond", "marked", "uncond", "deleted"}]
      /\ answers \in [Subgoal -> {"list", "no", "cond", "uncond"}] /\ needsAC \subseteq Subgoal
  BY DEF IInv, Types, TableTypes
<1>5. TableTypes'
  <2>1. ans' \in [Atom -> {"none", "cond", "marked", "uncond", "deleted"}]
    BY <1>2, <1>4
  <2>2. answers' \in [Subgoal -> {"list", "no", "cond", "uncond"}] /\ needsAC' \subseteq Subgoal
    BY <1>2, <1>4
  <2> QED BY <1>2, <2>1, <2>2 DEF IInv, Types, TableTypes, Continuation
<1>6. Indexes'
  <2>1. \A b \in Atom : ans'[b] = "cond" <=> ans[b] = "cond"
    BY <1>2, <1>3, <1>4 DEF Unconditional
  <2>2. \A b : DLsOf(b)' = DLsOf(b)
    BY <1>2 DEF DLsOf
  <2>3. \A b \in Atom : ans'[b] = "cond" <=> DLsOf(b)' # {}
    BY <2>1, <2>2 DEF IInv, Indexes
  <2> QED BY <1>2, <2>3 DEF IInv, Indexes, Holders
<1>7. \A b \in Atom : Unconditional(b) => Unconditional(b)'
  BY <1>2, <1>3, <1>4 DEF Unconditional
<1>8. ASSUME NEW r \in Subgoal, answers'[r] # "list" \/ r \in rootless' \/ r \in needsAC' PROVE Settled(r)
  <2>1. answers[r] # "list" \/ r \in rootless \/ r \in needsAC
    BY <1>2, <1>4, <1>8
  <2> QED BY <2>1, Kept
<1>9. /\ \A k \in conts' : EnvironmentFits(k)
      /\ \A d \in DOMAIN dl' : \A e \in {dl'[d]} : DelayListFits(e)
  BY <1>2, Kept
<1> QED BY <1>2, <1>5, <1>6, <1>7, <1>8, <1>9, QuietSame

LEMMA EarlyCompletionKeeps ==
  ASSUME IInv, EarlyCompletion
  PROVE  IInv'
<1>1. PICK c \in CallTypes : c = Top /\ CallFits(c)
  BY TopIs DEF EarlyCompletion, In
<1>2. PICK s : s = c.on
  OBVIOUS
<1>3. /\ calls # <<>> /\ Top.op = "early" /\ calls' = Tail(calls)
      /\ status' = IF <<s, 0>> \in Atom THEN [status EXCEPT ![s] = "complete"] ELSE status
      /\ UNCHANGED <<prog, wfm, sccs, conts, tables>>
  BY <1>1, <1>2 DEF EarlyCompletion, In
<1>4. s \in Subgoal /\ (<<s, 0>> \in Atom => Unconditional(<<s, 0>>))
  BY <1>1, <1>2, <1>3, CallIs DEF CallFits
<1>5. UNCHANGED <<ans, rootless, answers, dl, pnde, needsAC, deferred>>
  BY <1>3 DEF tables
<1>6. status \in [Subgoal -> {"new", "incomplete", "complete"}]
  BY DEF IInv, Types, TableTypes
<1>7. status' \in [Subgoal -> {"new", "incomplete", "complete"}]
  BY <1>3, <1>6
<1>8. TableTypes'
  BY <1>3, <1>5, <1>7 DEF IInv, Types, TableTypes, Continuation
<1>9. \A r \in Subgoal : status'[r] = status[r] \/ (/\ status'[r] = "complete" /\ <<r, 0>> \in Atom
                                                    /\ Unconditional(<<r, 0>>))
  BY <1>3, <1>4, <1>6
<1>10. \A r \in Subgoal : answers'[r] # "list" \/ r \in rootless' \/ r \in needsAC' => Settled(r)
  BY <1>5, Kept
<1> QED BY <1>3, <1>5, <1>8, <1>9, <1>10, Returns

LEMMA EndNegSucceedsKeeps ==
  ASSUME IInv, EndNegSucceeds
  PROVE  IInv'
<1>1. /\ calls # <<>> /\ Top.op = "neg_succeeds" /\ calls' = Tail(calls) /\ needsAC' \subseteq needsAC
      /\ UNCHANGED <<prog, wfm, status, sccs, conts, ans, rootless, answers, dl, pnde, deferred>>
  BY DEF EndNegSucceeds, In
<1>2. TableTypes'
  BY <1>1 DEF IInv, Types, TableTypes, Continuation
<1>3. \A r \in Subgoal : answers'[r] # "list" \/ r \in rootless' \/ r \in needsAC' => Settled(r)
  BY <1>1, Kept
<1> QED BY <1>1, <1>2, <1>3, Returns

LEMMA EndPosUnsupportedKeeps ==
  ASSUME IInv, EndPosUnsupported
  PROVE  IInv'
<1>1. /\ calls # <<>> /\ Top.op = "pos_unsupported" /\ calls' = Tail(calls)
      /\ UNCHANGED <<prog, wfm, status, sccs, conts, ans, rootless, answers, dl, pnde, needsAC, deferred>>
  BY DEF EndPosUnsupported, In, tables
<1>2. TableTypes'
  BY <1>1 DEF IInv, Types, TableTypes, Continuation
<1>3. \A r \in Subgoal : answers'[r] # "list" \/ r \in rootless' \/ r \in needsAC' => Settled(r)
  BY <1>1, Kept
<1> QED BY <1>1, <1>2, <1>3, Returns

\* A completed subgoal that has no answers is settled: early completion leaves one.
LEMMA UnsupportedKeeps ==
  ASSUME IInv, Unsupported
  PROVE  IInv'
<1>1. PICK c \in CallTypes : c = Top
  BY TopIs DEF Unsupported, In
<1>2. PICK s : s = c.on[1]
  OBVIOUS
<1>3. /\ calls # <<>> /\ c.op = "unsupported"
      /\ calls' = (IF Completed(s) /\ SubgoalFails(s) THEN <<Call("neg_fails", s)>> ELSE <<>>) \o Tail(calls)
      /\ UNCHANGED <<prog, wfm, status, sccs, conts, ans, rootless, answers, dl, pnde, needsAC, deferred>>
  BY <1>1, <1>2 DEF Unsupported, In, tables
<1>4. s \in Subgoal
  BY <1>1, <1>2, <1>3, CallIs, Atoms
<1>5. TableTypes'
  BY <1>3 DEF IInv, Types, TableTypes, Continuation
<1>6. \A r \in Subgoal : answers'[r] # "list" \/ r \in rootless' \/ r \in needsAC' => Settled(r)
  BY <1>3, Kept
<1>7. calls \in Seq(CallTypes)
  BY DEF IInv, Types
<1>8. calls' = Tail(calls) \/ \E x \in CallTypes : NewCallOK(x) /\ calls' = <<x>> \o Tail(calls)
  <2>1. CASE Completed(s) /\ SubgoalFails(s)
    <3>1. Settled(s)
      <4>1. ASSUME ~Settled(s) PROVE FALSE
        <5>1. <<s, 0>> \in Atom /\ Unconditional(<<s, 0>>) /\ s \notin rootless
          BY <1>4, <2>1, <4>1 DEF IInv, Tables
        <5>2. Has(<<s, 0>>) /\ <<s, 0>> \in Of(s)
          BY <5>1 DEF Has, Unconditional, Of
        <5> QED BY <2>1, <5>2 DEF SubgoalFails
      <4> QED BY <4>1
    <3>2. Call("neg_fails", s) \in CallTypes /\ NewCallOK(Call("neg_fails", s))
      BY <1>4, <3>1 DEF Call, CallTypes, NewCallOK
    <3> QED BY <1>3, <2>1, <3>2
  <2>2. CASE ~(Completed(s) /\ SubgoalFails(s))
    <3>1. Tail(calls) \in Seq(CallTypes)
      BY <1>3, <1>7
    <3>2. <<>> \o Tail(calls) = Tail(calls)
      BY <3>1
    <3> QED BY <1>3, <2>2, <3>2
  <2> QED BY <2>1, <2>2
<1> QED BY <1>1, <1>3, <1>5, <1>6, <1>8, Returns

LEMMA StartNegFailsKeeps ==
  ASSUME IInv, StartNegFails
  PROVE  IInv'
<1>1. PICK c \in CallTypes : c = Top /\ CallFits(c)
  BY TopIs DEF StartNegFails, In
<1>2. PICK s : s = c.on
  OBVIOUS
<1>3. /\ calls # <<>> /\ c.op = "neg_fails"
      /\ \/ deferred' = Append(deferred, s) /\ calls' = Tail(calls) /\ UNCHANGED <<answers, needsAC>>
         \/ /\ answers' = [answers EXCEPT ![s] = "no"] /\ needsAC' = needsAC \ {s}
            /\ calls' = <<Call("neg_fails_loop", s)>> \o Tail(calls) /\ UNCHANGED deferred
      /\ UNCHANGED <<prog, wfm, status, sccs, conts, ans, rootless, dl, pnde>>
  BY <1>1, <1>2 DEF StartNegFails, In
<1>4. s \in Subgoal /\ Settled(s)
  BY <1>1, <1>2, <1>3, CallIs DEF CallFits
<1>5. answers \in [Subgoal -> {"list", "no", "cond", "uncond"}] /\ deferred \in Seq(Subgoal) /\ needsAC \subseteq Subgoal
  BY DEF IInv, Types, TableTypes
<1>6. answers' \in [Subgoal -> {"list", "no", "cond", "uncond"}] /\ deferred' \in Seq(Subgoal) /\ needsAC' \subseteq Subgoal
  <2>1. Append(deferred, s) \in Seq(Subgoal)
    BY <1>4, <1>5
  <2>2. [answers EXCEPT ![s] = "no"] \in [Subgoal -> {"list", "no", "cond", "uncond"}]
    BY <1>5
  <2> QED BY <1>3, <1>5, <2>1, <2>2
<1>7. TableTypes'
  BY <1>3, <1>6 DEF IInv, Types, TableTypes, Continuation
<1>8. ASSUME NEW r \in Subgoal, answers'[r] # "list" \/ r \in rootless' \/ r \in needsAC' PROVE Settled(r)
  <2>1. answers[r] # "list" \/ r \in rootless \/ r \in needsAC \/ r = s
    BY <1>3, <1>5, <1>8
  <2> QED BY <1>4, <2>1, Kept
<1>9. calls' = Tail(calls) \/ \E x \in CallTypes : NewCallOK(x) /\ calls' = <<x>> \o Tail(calls)
  <2>1. Call("neg_fails_loop", s) \in CallTypes /\ NewCallOK(Call("neg_fails_loop", s))
    BY <1>4 DEF Call, CallTypes, NewCallOK
  <2> QED BY <1>3, <2>1
<1> QED BY <1>1, <1>3, <1>7, <1>8, <1>9, Returns

LEMMA EndNegFailsKeeps ==
  ASSUME IInv, EndNegFails
  PROVE  IInv'
<1>1. /\ calls # <<>> /\ Top.op = "neg_fails_loop"
      /\ \/ calls' = Tail(calls) /\ UNCHANGED deferred
         \/ /\ deferred # <<>> /\ calls' = <<Call("neg_fails_loop", Last(deferred))>> \o Tail(calls)
            /\ deferred' = Front(deferred)
      /\ UNCHANGED <<prog, wfm, status, sccs, conts, ans, rootless, answers, dl, pnde, needsAC>>
  BY DEF EndNegFails, In
<1>2. deferred \in Seq(Subgoal)
  BY DEF IInv, Types, TableTypes
<1>3. deferred # <<>> => Last(deferred) \in Subgoal /\ Front(deferred) \in Seq(Subgoal)
  BY <1>2 DEF Last, Front
<1>4. deferred' \in Seq(Subgoal)
  BY <1>1, <1>2, <1>3
<1>5. TableTypes'
  BY <1>1, <1>4 DEF IInv, Types, TableTypes, Continuation
<1>6. \A r \in Subgoal : answers'[r] # "list" \/ r \in rootless' \/ r \in needsAC' => Settled(r)
  BY <1>1, Kept
<1>7. calls' = Tail(calls) \/ \E x \in CallTypes : NewCallOK(x) /\ calls' = <<x>> \o Tail(calls)
  <2>1. CASE deferred # <<>> /\ calls' = <<Call("neg_fails_loop", Last(deferred))>> \o Tail(calls)
    <3>1. PICK s : s = Last(deferred)
      OBVIOUS
    <3>2. Call("neg_fails_loop", s) \in CallTypes /\ NewCallOK(Call("neg_fails_loop", s))
      BY <1>3, <2>1, <3>1 DEF Call, CallTypes, NewCallOK
    <3> QED BY <2>1, <3>1, <3>2
  <2> QED BY <1>1, <2>1
<1> QED BY <1>1, <1>5, <1>6, <1>7, Returns

LEMMA MarkSubgoalFailedKeeps ==
  ASSUME IInv, MarkSubgoalFailed
  PROVE  IInv'
<1>1. PICK c \in CallTypes : c = Top /\ CallFits(c)
  BY TopIs DEF MarkSubgoalFailed, In
<1>2. PICK s : s = c.on
  OBVIOUS
<1>3. /\ calls # <<>> /\ c.op = "failed" /\ calls' = Tail(calls) /\ rootless' = rootless \cup {s}
      /\ UNCHANGED <<prog, wfm, status, sccs, conts, ans, answers, dl, pnde, needsAC, deferred>>
  BY <1>1, <1>2 DEF MarkSubgoalFailed, In
<1>4. s \in Subgoal /\ Settled(s)
  BY <1>1, <1>2, <1>3, CallIs DEF CallFits
<1>5. TableTypes'
  BY <1>3, <1>4 DEF IInv, Types, TableTypes, Continuation
<1>6. \A r \in Subgoal : answers'[r] # "list" \/ r \in rootless' \/ r \in needsAC' => Settled(r)
  BY <1>3, <1>4, Kept
<1> QED BY <1>1, <1>3, <1>5, <1>6, Returns

\* An iteration of one of the four loops.
LEMMA LoopsKeep ==
  ASSUME IInv, PosUnconditional \/ PosUnsupported \/ NegSucceeds \/ NegFails
  PROVE  IInv'
<1>1. PICK c \in CallTypes : c = Top
  BY TopIs DEF PosUnconditional, PosUnsupported, NegSucceeds, NegFails, In
<1>2. CASE PosUnconditional
  <2>1. RemoveDE(Is(c.on)) /\ c.op = "pos_unconditional"
    BY <1>1, <1>2 DEF PosUnconditional, In
  <2>2. PICK l : l = Is(c.on)
    OBVIOUS
  <2>3. l \in Literal
    BY <2>1, <2>2, CallIs, Atoms
  <2>4. RemoveDE(l)
    BY <2>1, <2>2
  <2> QED BY <2>3, <2>4, RemoveDEKeeps
<1>3. CASE PosUnsupported
  <2>1. RemoveDL(Is(c.on)) /\ c.op = "pos_unsupported"
    BY <1>1, <1>3 DEF PosUnsupported, In
  <2>2. PICK l : l = Is(c.on)
    OBVIOUS
  <2>3. l \in Literal
    BY <2>1, <2>2, CallIs, Atoms
  <2>4. RemoveDL(l)
    BY <2>1, <2>2
  <2> QED BY <2>3, <2>4, RemoveDLKeeps
<1>4. CASE NegSucceeds
  <2>1. RemoveDL(Not(c.on)) /\ NDEs(c.on) # <<>>
    BY <1>1, <1>4 DEF NegSucceeds, In
  <2>2. PICK l : l = Not(c.on)
    OBVIOUS
  <2>3. l \in Literal
    BY <2>1, <2>2, Atoms DEF NDEs
  <2>4. RemoveDL(l)
    BY <2>1, <2>2
  <2> QED BY <2>3, <2>4, RemoveDLKeeps
<1>5. CASE NegFails
  <2>1. RemoveDE(Not(c.on)) /\ NDEs(c.on) # <<>>
    BY <1>1, <1>5 DEF NegFails, In
  <2>2. PICK l : l = Not(c.on)
    OBVIOUS
  <2>3. l \in Literal
    BY <2>1, <2>2, Atoms DEF NDEs
  <2>4. RemoveDE(l)
    BY <2>1, <2>2
  <2> QED BY <2>3, <2>4, RemoveDEKeeps
<1> QED BY <1>2, <1>3, <1>4, <1>5

-----------------------------------------------------------------------------
(* Clause resolution *)

\* The table of an environment that is resolved is not settled.
LEMMA ActiveIs ==
  ASSUME IInv, NEW k \in conts, Active(k)
  PROVE  /\ calls = <<>> /\ sccs # <<>> /\ InTop(Root(k)) /\ k \in Continuation /\ prog \in Programs
         /\ EnvironmentFits(k) /\ Root(k) \in Subgoal
         /\ \A s \in Subgoal : Settled(s) => Done(s)
         /\ ~Settled(Root(k)) /\ Root(k) \notin rootless /\ answers[Root(k)] = "list" /\ Root(k) \notin needsAC
<1>1. calls = <<>> /\ InTop(Root(k)) /\ sccs # <<>>
  BY DEF Active, InTop
<1>2. k \in Continuation /\ prog \in Programs /\ EnvironmentFits(k)
  BY Kept DEF TableTypes
<1>3. Root(k) \in Subgoal
  BY <1>2, Environment
<1>4. \A s \in Subgoal : Settled(s) => Done(s)
  BY <1>1 DEF Settled, Completing
<1>5. OnStack(Root(k))
  BY <1>2 DEF EnvironmentFits
<1>6. ~Settled(Root(k))
  BY <1>3, <1>4, <1>5 DEF Done
<1> QED BY <1>1, <1>2, <1>3, <1>4, <1>6, Kept

\* Only environments change.
LEMMA Resumes ==
  ASSUME IInv, conts' \subseteq Continuation, \A m \in conts' : EnvironmentFits(m),
         UNCHANGED <<prog, wfm, status, sccs, tables, calls>>
  PROVE  IInv'
<1>1. UNCHANGED <<ans, rootless, answers, dl, pnde, needsAC, deferred>>
  BY DEF tables
<1>2. TableTypes'
  BY <1>1 DEF IInv, Types, TableTypes, Continuation
<1>3. /\ \A d \in DOMAIN dl' : \A e \in {dl'[d]} : DelayListFits(e)
      /\ \A s \in Subgoal : answers'[s] # "list" \/ s \in rootless' \/ s \in needsAC' => Settled(s)
  BY <1>1, Kept
<1>4. Indexes'
  BY <1>1 DEF IInv, Indexes, DLsOf, Holders
<1>5. \A a \in Atom : Unconditional(a) => Unconditional(a)'
  BY <1>1 DEF Unconditional
<1> QED BY <1>1, <1>2, <1>3, <1>4, <1>5, QuietSame

\* The environment goes on or comes to an end, and nothing else happens.
LEMMA Resolves ==
  ASSUME IInv, NEW k \in conts, NEW new \in SUBSET Continuation, Becomes(k, new),
         \A m \in new : EnvironmentFits(m),
         UNCHANGED <<prog, wfm, status, sccs, tables, calls>>
  PROVE  IInv'
<1>1. conts' \subseteq Continuation /\ \A m \in conts' : EnvironmentFits(m)
  BY Kept DEF Becomes
<1> QED BY <1>1, Resumes

\* An environment that goes on.
LEMMA GoesOn ==
  ASSUME IInv, NEW k \in conts, Active(k), ~AtEnd(k), NEW D \in SUBSET {Lit(k)},
         D # {} => NotBelow(Root(k), Callee(k))
  PROVE  Next1(k, D) \in Continuation /\ EnvironmentFits(Next1(k, D))
<1>1. k \in Continuation /\ prog \in Programs /\ EnvironmentFits(k)
  BY ActiveIs
<1>2. Lit(k) \in Literal /\ Callee(k) = Lit(k).of[1]
  BY <1>1, Environment
<1>3. PICK m : m = Next1(k, D)
  OBVIOUS
<1>4. m \in Continuation /\ m.c = k.c /\ m.delays = k.delays \cup D /\ m.st = "run"
  <2>1. /\ k = [c |-> k.c, at |-> k.at, delays |-> k.delays, st |-> k.st]
        /\ k.c \in prog.clauses /\ k.at \in Nat \ {0} /\ k.delays \in SUBSET Literal
    BY <1>1 DEF Continuation
  <2>2. m = [k EXCEPT !.at = @ + 1, !.delays = @ \cup D, !.st = "run"]
    BY <1>3 DEF Next1
  <2>3. m = [c |-> k.c, at |-> k.at + 1, delays |-> k.delays \cup D, st |-> "run"]
    BY <2>1, <2>2
  <2>4. k.at + 1 \in Nat \ {0} /\ k.delays \cup D \in SUBSET Literal
    BY <1>2, <2>1
  <2> QED BY <2>1, <2>3, <2>4 DEF Continuation
<1>5. Root(m) = Root(k)
  BY <1>4 DEF Root
<1>6. \A l \in m.delays : NotBelow(Root(k), l.of[1])
  <2> SUFFICES ASSUME NEW l \in m.delays PROVE NotBelow(Root(k), l.of[1])
    OBVIOUS
  <2>1. CASE l \in k.delays
    BY <1>1, <2>1 DEF EnvironmentFits
  <2>2. CASE l \in D
    BY <1>2, <2>2
  <2> QED BY <1>4, <2>1, <2>2
<1>7. EnvironmentFits(m)
  BY <1>1, <1>4, <1>5, <1>6 DEF EnvironmentFits
<1> QED BY <1>3, <1>4, <1>7

LEMMA ReturnKeeps ==
  ASSUME IInv, NEW k \in conts, Return(k)
  PROVE  IInv'
<1>1. /\ Active(k) /\ ~AtEnd(k) /\ ~Lit(k).neg /\ Has(Lit(k).of)
      /\ (status[Callee(k)] = "incomplete" /\ k.st = "wait") \/ Usable(Callee(k))
      /\ Becomes(k, {Next1(k, IF Unconditional(Lit(k).of) THEN {} ELSE {Lit(k)})})
      /\ UNCHANGED <<prog, wfm, status, sccs, tables, calls>>
  BY DEF Return
<1>2. PICK D : D = IF Unconditional(Lit(k).of) THEN {} ELSE {Lit(k)}
  OBVIOUS
<1>3. /\ k \in Continuation /\ prog \in Programs /\ EnvironmentFits(k)
      /\ \A s \in Subgoal : Settled(s) => Done(s)
  BY <1>1, ActiveIs
<1>4. PICK a, s : a = Lit(k).of /\ s = Callee(k)
  OBVIOUS
<1>5. a \in Atom /\ s \in Subgoal /\ s = a[1] /\ (<<s, 0>> \in Atom => a = <<s, 0>>)
  <2>1. Lit(k) \in Literal /\ Callee(k) = Lit(k).of[1]
    BY <1>1, <1>3, Environment
  <2> QED BY <1>4, <2>1, Atoms
<1>6. ASSUME ~Unconditional(a) PROVE NotBelow(Root(k), s)
  <2>1. CASE status[s] = "incomplete" /\ k.st = "wait"
    BY <1>1, <1>3, <1>4, <2>1 DEF EnvironmentFits
  <2>2. CASE Usable(s)
    <3>1. Completed(s)
      BY <2>2 DEF Usable
    <3>2. Settled(s)
      BY <1>5, <1>6, <3>1 DEF IInv, Tables
    <3> QED BY <1>3, <1>5, <3>2 DEF NotBelow
  <2> QED BY <1>1, <1>4, <2>1, <2>2
<1>7. D \in SUBSET {Lit(k)} /\ (D # {} => NotBelow(Root(k), Callee(k)))
  BY <1>2, <1>4, <1>6
<1>8. PICK new : new = {Next1(k, D)}
  OBVIOUS
<1>9. new \in SUBSET Continuation /\ \A m \in new : EnvironmentFits(m)
  BY <1>1, <1>7, <1>8, GoesOn
<1>10. Becomes(k, new)
  BY <1>1, <1>2, <1>8
<1> QED BY <1>1, <1>9, <1>10, Resolves

LEMMA SlgNotKeeps ==
  ASSUME IInv, NEW k \in conts, SlgNot(k)
  PROVE  IInv'
<1>1. PICK s : s = Callee(k)
  OBVIOUS
<1>2. /\ Active(k) /\ ~AtEnd(k) /\ Lit(k).neg
      /\ Usable(s) \/ k.st = "resumed"
      /\ Becomes(k, IF HasNoAnswers(s) /\ Completed(s) THEN {Next1(k, {})}
                    ELSE IF HasUnconditional(s) THEN {} ELSE {Next1(k, {Lit(k)})})
      /\ UNCHANGED <<prog, wfm, status, sccs, tables, calls>>
  BY <1>1 DEF SlgNot
<1>3. /\ k \in Continuation /\ prog \in Programs /\ EnvironmentFits(k)
      /\ \A r \in Subgoal : Settled(r) => Done(r)
  BY <1>2, ActiveIs
<1>4. s \in Subgoal
  BY <1>1, <1>2, <1>3, Environment
<1>5. ASSUME ~HasUnconditional(s) PROVE NotBelow(Root(k), s)
  <2>1. CASE k.st = "resumed"
    BY <1>1, <1>2, <1>3, <2>1 DEF EnvironmentFits
  <2>2. CASE Usable(s)
    <3>1. Completed(s)
      BY <2>2 DEF Usable
    <3>2. Settled(s)
      <4>1. ASSUME ~Settled(s) PROVE FALSE
        <5>1. <<s, 0>> \in Atom /\ Unconditional(<<s, 0>>) /\ answers[s] = "list"
          BY <1>4, <3>1, <4>1 DEF IInv, Tables
        <5>2. <<s, 0>> \in Of(s)
          BY <5>1 DEF Of
        <5> QED BY <1>5, <5>1, <5>2 DEF HasUnconditional
      <4> QED BY <4>1
    <3> QED BY <1>3, <1>4, <3>2 DEF NotBelow
  <2> QED BY <1>2, <2>1, <2>2
<1>6. PICK new : new = IF HasNoAnswers(s) /\ Completed(s) THEN {Next1(k, {})}
                       ELSE IF HasUnconditional(s) THEN {} ELSE {Next1(k, {Lit(k)})}
  OBVIOUS
<1>7. new \in SUBSET Continuation /\ \A m \in new : EnvironmentFits(m)
  <2>1. CASE new = {Next1(k, {})}
    <3>1. Next1(k, {}) \in Continuation /\ EnvironmentFits(Next1(k, {}))
      BY <1>2, GoesOn
    <3> QED BY <2>1, <3>1
  <2>2. CASE new = {Next1(k, {Lit(k)})} /\ ~HasUnconditional(s)
    <3>1. Next1(k, {Lit(k)}) \in Continuation /\ EnvironmentFits(Next1(k, {Lit(k)}))
      BY <1>1, <1>2, <1>5, <2>2, GoesOn
    <3> QED BY <2>2, <3>1
  <2>3. CASE new = {}
    BY <2>3
  <2> QED BY <1>6, <2>1, <2>2, <2>3
<1>8. Becomes(k, new)
  BY <1>2, <1>6
<1> QED BY <1>2, <1>7, <1>8, Resolves

\* An environment that comes to an end.
LEMMA EndsKeep ==
  ASSUME IInv, NEW k \in conts, Exhausted(k) \/ RejectAnswer(k)
  PROVE  IInv'
<1>1. Becomes(k, {}) /\ UNCHANGED <<prog, wfm, status, sccs, tables, calls>>
  BY DEF Exhausted, RejectAnswer
<1> QED BY <1>1, Resolves

LEMMA DelayAllKeeps ==
  ASSUME IInv, DelayAll
  PROVE  IInv'
<1>1. PICK X, live : X = Suspended /\ live = {k \in X : ~Completed(Root(k))}
  OBVIOUS
<1>2. /\ Fixpoint /\ conts' = (conts \ X) \cup {[k EXCEPT !.st = "resumed"] : k \in live}
      /\ UNCHANGED <<prog, wfm, status, sccs, tables, calls>>
  BY <1>1 DEF DelayAll
<1>3. ASSUME NEW k \in live, NEW m, m = [k EXCEPT !.st = "resumed"]
      PROVE m \in Continuation /\ EnvironmentFits(m)
  <2>1. k \in conts /\ Waiting(k)
    BY <1>1, <1>2 DEF Suspended, Fixpoint
  <2>2. k \in Continuation /\ EnvironmentFits(k)
    BY <2>1, Kept
  <2>3. m = [c |-> k.c, at |-> k.at, delays |-> k.delays, st |-> "resumed"]
    BY <1>3, <2>2 DEF Continuation
  <2>4. m \in Continuation
    BY <2>2, <2>3 DEF Continuation
  <2>5. Root(m) = Root(k) /\ Callee(m) = Callee(k) /\ m.delays = k.delays
    BY <2>3 DEF Root, Callee, Lit
  <2>6. k.st = "wait" /\ ~AtEnd(k)
    BY <2>1 DEF Waiting
  <2> QED BY <2>2, <2>4, <2>5, <2>6 DEF EnvironmentFits
<1>4. conts' \subseteq Continuation /\ \A m \in conts' : EnvironmentFits(m)
  BY <1>2, <1>3, Kept
<1> QED BY <1>2, <1>4, Resumes

-----------------------------------------------------------------------------
(* Answers *)

\* What a derivation leaves of the other environments, and of the answer it is about.
LEMMA Derives ==
  ASSUME IInv, NEW k \in conts, Active(k), NEW a, a = k.c.head
  PROVE  /\ a \in Atom /\ Root(k) = a[1] /\ Root(k) \in Subgoal /\ k.delays \subseteq Literal
         /\ Unconditional(a) => Has(a)
         /\ ans[a] = "cond" => Has(a)
         /\ \A l \in k.delays : NotBelow(a[1], l.of[1])
         /\ Becomes(k, {}) => conts' \subseteq conts
<1>1. k \in Continuation /\ prog \in Programs /\ EnvironmentFits(k) /\ Root(k) \notin rootless
  BY ActiveIs
<1>2. a \in Atom /\ Root(k) = a[1] /\ Root(k) \in Subgoal /\ k.delays \subseteq Literal
  BY <1>1, Environment
<1>3. Unconditional(a) \/ ans[a] = "cond" => Has(a)
  BY <1>1, <1>2 DEF Has, Unconditional
<1>4. \A l \in k.delays : NotBelow(a[1], l.of[1])
  BY <1>1, <1>2 DEF EnvironmentFits
<1> QED BY <1>2, <1>3, <1>4 DEF Becomes

LEMMA ConditionalAnswerKeeps ==
  ASSUME IInv, NEW k \in conts, ConditionalAnswer(k)
  PROVE  IInv'
<1>1. PICK a, D : a = k.c.head /\ D = Left(k)
  OBVIOUS
<1>2. /\ Active(k) /\ D # {} /\ ~(Has(a) /\ Unconditional(a)) /\ ~(1 .. MaxDL \subseteq DOMAIN dl)
      /\ Becomes(k, {}) /\ ans' = [ans EXCEPT ![a] = "cond"] /\ AddDL(a, D)
      /\ UNCHANGED <<prog, wfm, status, sccs, rootless, answers, needsAC, deferred, calls>>
  BY <1>1 DEF ConditionalAnswer
<1>3. /\ a \in Atom /\ k.delays \subseteq Literal /\ (Unconditional(a) => Has(a))
      /\ \A l \in k.delays : NotBelow(a[1], l.of[1])
      /\ conts' \subseteq conts
  BY <1>1, <1>2, Derives
<1>4. D \in SUBSET Literal /\ D \subseteq k.delays
  BY <1>1, <1>3 DEF Left
<1>5. /\ Indexes'
      /\ DOMAIN dl' \subseteq 1 .. MaxDL /\ dl' \in [DOMAIN dl' -> DelayList]
      /\ \A e \in DOMAIN dl' : (e \in DOMAIN dl /\ dl'[e] = dl[e]) \/ dl'[e] = [asl |-> a, des |-> D]
      /\ pnde' \in [Literal -> Seq(1 .. MaxDL)]
      /\ ans' \in [Atom -> {"none", "cond", "marked", "uncond", "deleted"}]
  BY <1>2, <1>3, <1>4, Added DEF IInv
<1>6. TableTypes'
  BY <1>2, <1>3, <1>5 DEF IInv, Types, TableTypes, Continuation
<1>7. ASSUME NEW d \in DOMAIN dl', NEW e \in {dl'[d]} PROVE DelayListFits(e)
  <2>1. CASE d \in DOMAIN dl /\ dl'[d] = dl[d]
    BY <2>1, Kept
  <2>2. CASE e = [asl |-> a, des |-> D]
    BY <1>3, <1>4, <2>2 DEF DelayListFits
  <2> QED BY <1>5, <2>1, <2>2
<1>8. \A b \in Atom : Unconditional(b) => Unconditional(b)'
  <2>1. ans \in [Atom -> {"none", "cond", "marked", "uncond", "deleted"}]
    BY DEF IInv, Types, TableTypes
  <2> QED BY <1>2, <1>3, <2>1 DEF Unconditional
<1>9. /\ \A m \in conts' : EnvironmentFits(m)
      /\ \A s \in Subgoal : answers'[s] # "list" \/ s \in rootless' \/ s \in needsAC' => Settled(s)
  BY <1>2, <1>3, Kept
<1> QED BY <1>2, <1>5, <1>6, <1>7, <1>8, <1>9, QuietSame

LEMMA UnconditionalAnswerKeeps ==
  ASSUME IInv, NEW k \in conts, UnconditionalAnswer(k)
  PROVE  IInv'
<1>1. PICK a, s : a = k.c.head /\ s = Root(k)
  OBVIOUS
<1>2. /\ Active(k) /\ (Has(a) => Unconditional(a))
      /\ Becomes(k, {}) /\ ans' = [ans EXCEPT ![a] = "uncond"]
      /\ calls' = (IF NDEs(s) = <<>> THEN <<>> ELSE <<Call("neg_succeeds", s)>>) \o
                  (IF a[2] = 0 /\ ~Has(a) THEN <<Call("early", s)>> ELSE <<>>)
      /\ UNCHANGED <<prog, wfm, status, sccs, rootless, answers, dl, pnde, needsAC, deferred>>
  BY <1>1 DEF UnconditionalAnswer
<1>3. a \in Atom /\ s = a[1] /\ s \in Subgoal /\ (ans[a] = "cond" => Has(a)) /\ conts' \subseteq conts
  BY <1>1, <1>2, Derives
<1>4. ans \in [Atom -> {"none", "cond", "marked", "uncond", "deleted"}]
  BY DEF IInv, Types, TableTypes
<1>5. ans' \in [Atom -> {"none", "cond", "marked", "uncond", "deleted"}] /\ Unconditional(a)'
  BY <1>2, <1>3, <1>4 DEF Unconditional
<1>6. TableTypes'
  BY <1>2, <1>3, <1>5 DEF IInv, Types, TableTypes, Continuation
<1>7. \A b \in Atom : ans'[b] = "cond" <=> ans[b] = "cond"
  BY <1>2, <1>3, <1>4 DEF Unconditional
<1>8. Indexes'
  <2>1. \A b : DLsOf(b)' = DLsOf(b)
    BY <1>2 DEF DLsOf
  <2>2. \A b \in Atom : ans'[b] = "cond" <=> DLsOf(b)' # {}
    BY <1>7, <2>1 DEF IInv, Indexes
  <2> QED BY <1>2, <2>2 DEF IInv, Indexes, Holders
<1>9. \A b \in Atom : Unconditional(b) => Unconditional(b)'
  BY <1>2, <1>3, <1>4 DEF Unconditional
<1>10. /\ \A m \in conts' : EnvironmentFits(m)
       /\ \A d \in DOMAIN dl' : \A e \in {dl'[d]} : DelayListFits(e)
       /\ \A r \in Subgoal : answers'[r] # "list" \/ r \in rootless' \/ r \in needsAC' => Settled(r)
  BY <1>2, <1>3, Kept
<1>11. PICK x, y : x = Call("neg_succeeds", s) /\ y = Call("early", s)
  OBVIOUS
<1>12. x \in CallTypes /\ y \in CallTypes /\ NewCallOK(x) /\ NewCallOK(y)
  <2>1. <<s, 0>> \in Atom => a = <<s, 0>>
    BY <1>3, Atoms
  <2>2. x \in CallTypes /\ y \in CallTypes
    BY <1>3, <1>11 DEF Call, CallTypes
  <2>3. NewCallOK(y)
    BY <1>5, <1>11, <2>1 DEF NewCallOK, Call
  <2>4. NewCallOK(x)
    BY <1>11 DEF NewCallOK, Call
  <2> QED BY <2>2, <2>3, <2>4
<1>13. PICK p : p = calls'
  OBVIOUS
<1>14. p \in Seq({x, y})
  <2>1. PICK u, v : /\ u = (IF NDEs(s) = <<>> THEN <<>> ELSE <<x>>)
                    /\ v = (IF a[2] = 0 /\ ~Has(a) THEN <<y>> ELSE <<>>)
    OBVIOUS
  <2>2. p = u \o v /\ u \in Seq({x, y}) /\ v \in Seq({x, y})
    <3>1. p = u \o v
      BY <1>2, <1>11, <1>13, <2>1
    <3>2. (u = <<>> \/ u = <<x>>) /\ (v = <<>> \/ v = <<y>>)
      BY <2>1
    <3>3. <<>> \in Seq({x, y}) /\ <<x>> \in Seq({x, y}) /\ <<y>> \in Seq({x, y})
      OBVIOUS
    <3> QED BY <3>1, <3>2, <3>3
  <2> QED BY <2>2, Concatenated
<1>15. p \in Seq(CallTypes) /\ \A i \in DOMAIN p : NewCallOK(p[i])
  <2>1. \A i \in DOMAIN p : p[i] \in {x, y}
    BY <1>14
  <2>2. \A i \in DOMAIN p : NewCallOK(p[i])
    BY <1>12, <2>1
  <2>3. {x, y} \subseteq CallTypes
    BY <1>12
  <2> QED BY <1>14, <2>2, <2>3
<1>16. PICK rest : rest = calls /\ Goes(rest) /\ calls' = p \o rest
  <2>1. calls = <<>>
    BY <1>2, ActiveIs
  <2>2. p \o <<>> = p
    BY <1>15
  <2> QED BY <1>13, <2>1, <2>2 DEF Goes
<1> QED BY <1>2, <1>6, <1>8, <1>9, <1>10, <1>15, <1>16, Quiet

LEMMA BecomesUnconditionalKeeps ==
  ASSUME IInv, NEW k \in conts, BecomesUnconditional(k)
  PROVE  IInv'
<1>1. PICK a, s : a = k.c.head /\ s = Root(k)
  OBVIOUS
<1>2. /\ Active(k) /\ Becomes(k, {})
      /\ ans' = [ans EXCEPT ![a] = "marked"] /\ dl' = Without(DLsOf(a)) /\ pnde' = Unlinked(DLsOf(a))
      /\ calls' = <<Call("pos_unconditional", a), Call("neg_succeeds", s)>>
      /\ UNCHANGED <<prog, wfm, status, sccs, rootless, answers, needsAC, deferred>>
  BY <1>1 DEF BecomesUnconditional, Mark
<1>3. a \in Atom /\ s \in Subgoal /\ conts' \subseteq conts
  BY <1>1, <1>2, Derives
<1>4. /\ Indexes' /\ ans' \in [Atom -> {"none", "cond", "marked", "uncond", "deleted"}]
      /\ DOMAIN dl' \subseteq 1 .. MaxDL /\ dl' \in [DOMAIN dl' -> DelayList]
      /\ pnde' \in [Literal -> Seq(1 .. MaxDL)]
      /\ \A e \in DOMAIN dl' : \A f \in {dl'[e]} : DelayListFits(f)
      /\ \A b \in Atom : Unconditional(b) => Unconditional(b)'
      /\ Unconditional(a)'
  BY <1>2, <1>3, FreedKeeps
<1>5. TableTypes'
  BY <1>2, <1>3, <1>4 DEF IInv, Types, TableTypes, Continuation
<1>6. PICK x, y : x = Call("pos_unconditional", a) /\ y = Call("neg_succeeds", s)
  OBVIOUS
<1>7. x \in CallTypes /\ y \in CallTypes /\ NewCallOK(x) /\ NewCallOK(y)
  BY <1>3, <1>4, <1>6 DEF Call, CallTypes, NewCallOK
<1>8. PICK p : p = <<x, y>>
  OBVIOUS
<1>9. p \in Seq(CallTypes) /\ \A i \in DOMAIN p : NewCallOK(p[i])
  BY <1>7, <1>8
<1>10. PICK rest : rest = calls /\ Goes(rest) /\ calls' = p \o rest
  <2>1. calls = <<>>
    BY <1>2, ActiveIs
  <2>2. p \o <<>> = p
    BY <1>9
  <2> QED BY <1>2, <1>6, <1>8, <2>1, <2>2 DEF Goes
<1>11. /\ \A m \in conts' : EnvironmentFits(m)
       /\ \A r \in Subgoal : answers'[r] # "list" \/ r \in rootless' \/ r \in needsAC' => Settled(r)
  BY <1>2, <1>3, Kept
<1> QED BY <1>2, <1>4, <1>5, <1>9, <1>10, <1>11, Quiet

-----------------------------------------------------------------------------
(* Completion *)

LEMMA HeadAndTail ==
  ASSUME NEW S, NEW s \in Seq(S), s # <<>>
  PROVE  Head(s) \in S /\ Tail(s) \in Seq(S) /\ Range(s) = {Head(s)} \cup Range(Tail(s))
<1> DEFINE t == Tail(s)
<1>1. /\ Len(s) \in Nat \ {0} /\ DOMAIN s = 1 .. Len(s) /\ Head(s) = s[1] /\ t \in Seq(S)
      /\ Len(t) = Len(s) - 1 /\ \A i \in 1 .. Len(t) : t[i] = s[i + 1]
  BY HeadTailProperties
<1> HIDE DEF t
<1>2. DOMAIN t = 1 .. Len(t)
  BY <1>1
<1>3. \A i \in 1 .. Len(s) : i # 1 => i - 1 \in 1 .. Len(t) /\ s[i] = t[i - 1]
  BY <1>1
<1>4. \A i \in 1 .. Len(t) : i + 1 \in 1 .. Len(s)
  BY <1>1
<1>5. \A x \in Range(s) : x \in {Head(s)} \cup Range(t)
  BY <1>1, <1>2, <1>3 DEF Range
<1>6. \A x \in {Head(s)} \cup Range(t) : x \in Range(s)
  BY <1>1, <1>2, <1>4 DEF Range
<1> QED BY <1>1, <1>5, <1>6 DEF t

\* One call is under way.
LEMMA OneCall ==
  ASSUME NEW c \in CallTypes, CallFits(c)', calls' = <<c>>
  PROVE  calls' \in Seq(CallTypes) /\ CallsOK' /\ (Completing' <=> c.op = "complete")
<1>1. calls' \in Seq(CallTypes) /\ Len(calls') = 1 /\ calls'[1] = c /\ DOMAIN calls' = {1}
  OBVIOUS
<1>2. Completing' <=> c.op = "complete"
  BY <1>1 DEF Completing, Last
<1>3. CallsOK'
  BY <1>1 DEF CallsOK
<1> QED BY <1>1, <1>2, <1>3

LEMMA StartCompletionKeeps ==
  ASSUME IInv, StartCompletion
  PROVE  IInv'
<1>1. PICK top : top = Last(sccs)
  OBVIOUS
<1>2. /\ calls = <<>> /\ sccs # <<>> /\ calls' = <<Call("complete", top)>>
      /\ \A s \in needsAC' : s \in needsAC \/ s \in Range(top)
      /\ UNCHANGED <<prog, wfm, status, sccs, conts, ans, rootless, answers, dl, pnde, deferred>>
  BY <1>1 DEF StartCompletion, Fixpoint
<1>3. top \in Seq(Subgoal)
  BY <1>1, <1>2 DEF IInv, Types, TableTypes, Last
<1>4. \A s \in Range(top) : s \in Subgoal
  BY <1>3 DEF Range
<1>5. PICK c : c = Call("complete", top)
  OBVIOUS
<1>6. c \in CallTypes /\ CallFits(c)'
  BY <1>1, <1>2, <1>3, <1>5 DEF Call, CallTypes, CallFits
<1>7. CallsOK' /\ Completing' /\ calls' \in Seq(CallTypes)
  BY <1>2, <1>5, <1>6, OneCall DEF Call
<1>8. \A s \in Subgoal : (Settled(s) => Settled(s)') /\ (s \in Range(top) => Settled(s)')
  <2>1. \A s \in Subgoal : Completed(s) => Completed(s)'
    BY <1>2 DEF Completed
  <2>2. /\ \A s : InTop(s)' <=> InTop(s)
        /\ (Completing => Completing') => \A s \in Subgoal : Settled(s) => Settled(s)'
    BY <1>2, <2>1, StackSame
  <2>3. \A s \in Range(top) : InTop(s)
    BY <1>1, <1>2 DEF InTop
  <2> QED BY <1>7, <2>2, <2>3 DEF Settled
<1>9. needsAC' \subseteq Subgoal
  BY <1>2, <1>4 DEF IInv, Types, TableTypes
<1>10. Types'
  BY <1>2, <1>7, <1>9 DEF IInv, Types, TableTypes, Continuation
<1>11. Indexes'
  BY <1>2 DEF IInv, Indexes, DLsOf, Holders
<1>12. \A s \in Subgoal : answers'[s] # "list" \/ s \in rootless' \/ s \in needsAC' => Settled(s)'
  <2>1. \A s \in Subgoal : answers[s] # "list" \/ s \in rootless \/ s \in needsAC => Settled(s)'
    BY <1>8, Kept
  <2> QED BY <1>2, <1>8, <2>1
<1>13. /\ \A k \in conts' : EnvironmentFits(k)
       /\ \A d \in DOMAIN dl' : \A e \in {dl'[d]} : DelayListFits(e)
  BY <1>2, Kept
<1>14. \A a \in Atom : Unconditional(a) => Unconditional(a)'
  BY <1>2 DEF Unconditional
<1> QED BY <1>2, <1>7, <1>10, <1>11, <1>12, <1>13, <1>14, StackStays

LEMMA EndAnswerCompletionKeeps ==
  ASSUME IInv, EndAnswerCompletion
  PROVE  IInv'
<1>1. /\ calls # <<>> /\ Top.op = "ac" /\ calls' = Tail(calls) /\ needsAC' \subseteq needsAC
      /\ UNCHANGED <<prog, wfm, status, sccs, conts, ans, rootless, answers, dl, pnde, deferred>>
  BY DEF EndAnswerCompletion, In
<1>2. Len(calls) = 1 /\ calls \in Seq(CallTypes)
  <2>1. Len(calls) = 1
    BY <1>1, TopIs
  <2> QED BY <2>1 DEF IInv, Types
<1>3. calls' = <<>>
  BY <1>1, <1>2
<1>4. ~Completing
  <2>1. Last(calls) = Top
    BY <1>1, <1>2 DEF Last, Top
  <2> QED BY <1>1, <2>1 DEF Completing
<1>5. CallsOK'
  BY <1>3 DEF CallsOK
<1>6. \A s \in Subgoal : Settled(s) => Settled(s)'
  <2>1. \A s \in Subgoal : Completed(s) => Completed(s)'
    BY <1>1 DEF Completed
  <2> QED BY <1>1, <1>4, <2>1, StackSame
<1>7. Types'
  BY <1>1, <1>3 DEF IInv, Types, TableTypes, Continuation
<1>8. Indexes'
  BY <1>1 DEF IInv, Indexes, DLsOf, Holders
<1>9. \A s \in Subgoal : answers'[s] # "list" \/ s \in rootless' \/ s \in needsAC' => Settled(s)'
  <2>1. \A s \in Subgoal : answers[s] # "list" \/ s \in rootless \/ s \in needsAC => Settled(s)'
    BY <1>6, Kept
  <2> QED BY <1>1, <2>1
<1>10. /\ \A k \in conts' : EnvironmentFits(k)
       /\ \A d \in DOMAIN dl' : \A e \in {dl'[d]} : DelayListFits(e)
  BY <1>1, Kept
<1>11. \A a \in Atom : Unconditional(a) => Unconditional(a)'
  BY <1>1 DEF Unconditional
<1> QED BY <1>1, <1>4, <1>5, <1>7, <1>8, <1>9, <1>10, <1>11, StackStays

\* The top of the stack while it is completed.
LEMMA CompletingIs ==
  ASSUME IInv, In("complete")
  PROVE  \E on \in Seq(Subgoal), top \in Seq(Subgoal) :
           /\ on = Top.on /\ top = Last(sccs) /\ sccs # <<>> /\ Len(calls) = 1 /\ Completing
           /\ Range(on) \subseteq Range(top)
           /\ \A s \in Range(top) : s \in Subgoal /\ InTop(s) /\ Settled(s) /\ (s \in Range(on) \/ Completed(s))
<1>1. PICK c \in CallTypes : c = Top /\ CallFits(c) /\ (c.op \in {"complete", "ac"} => Len(calls) = 1)
  BY TopIs DEF In
<1>2. PICK on, top : on = c.on /\ top = Last(sccs)
  OBVIOUS
<1>3. c.op = "complete" /\ calls # <<>> /\ Len(calls) = 1
  BY <1>1 DEF In
<1>4. /\ on \in Seq(Subgoal) /\ sccs # <<>> /\ Range(on) \subseteq Range(top)
      /\ \A s \in Range(top) \ Range(on) : Completed(s)
  BY <1>1, <1>2, <1>3, CallIs DEF CallFits
<1>5. top \in Seq(Subgoal)
  BY <1>2, <1>4 DEF IInv, Types, TableTypes, Last
<1>6. Completing
  BY <1>1, <1>3 DEF Completing, Last, Top, IInv, Types
<1>7. \A s \in Range(top) : s \in Subgoal /\ InTop(s)
  BY <1>2, <1>4, <1>5 DEF Range, InTop
<1> QED BY <1>1, <1>2, <1>3, <1>4, <1>5, <1>6, <1>7 DEF Settled

\* The same with others above it.
LEMMA LastCall ==
  ASSUME NEW u \in Seq(CallTypes), NEW c \in CallTypes, calls' = u \o <<c>>
  PROVE  /\ calls' \in Seq(CallTypes) /\ Len(calls') = Len(u) + 1 /\ calls'[Len(calls')] = c
         /\ \A i \in 1 .. Len(u) : calls'[i] = u[i]
         /\ Completing' <=> c.op = "complete"
<1>1. PICK v : v = <<c>>
  OBVIOUS
<1>2. v \in Seq(CallTypes) /\ Len(v) = 1 /\ v[1] = c
  BY <1>1
<1>3. PICK w : w = u \o v
  OBVIOUS
<1>4. /\ w \in Seq(CallTypes) /\ Len(w) = Len(u) + Len(v) /\ Len(u) \in Nat
      /\ \A i \in 1 .. Len(u) : w[i] = u[i]
      /\ \A i \in 1 .. Len(v) : w[Len(u) + i] = v[i]
  <2>1. u \in Seq(CallTypes) /\ v \in Seq(CallTypes)
    BY <1>2
  <2> HIDE <1>2
  <2>2. u \o v \in Seq(CallTypes) /\ Len(u \o v) = Len(u) + Len(v) /\ Len(u) \in Nat
    BY <2>1, Joined
  <2>3. \A i \in 1 .. Len(u) : (u \o v)[i] = u[i]
    BY <2>1, Joined
  <2>4. \A i \in 1 .. Len(v) : (u \o v)[Len(u) + i] = v[i]
    BY <2>1, Joined
  <2> QED BY <1>3, <2>2, <2>3, <2>4
<1>5. /\ w \in Seq(CallTypes) /\ Len(w) = Len(u) + 1 /\ w[Len(u) + 1] = c
      /\ \A i \in 1 .. Len(u) : w[i] = u[i]
  BY <1>2, <1>4
<1>6. calls' = w /\ w # <<>>
  BY <1>1, <1>3, <1>4, <1>5
<1>7. Completing' <=> c.op = "complete"
  BY <1>5, <1>6 DEF Completing, Last
<1> QED BY <1>5, <1>6, <1>7

LEMMA CallBelow ==
  ASSUME NEW u \in Seq(CallTypes), NEW c \in CallTypes, calls' = u \o <<c>>, CallFits(c)',
         \A x \in Range(u) : CallFits(x)' /\ x.op \notin {"complete", "ac"}
  PROVE  CallsOK'
<1>1. PICK w : w = calls'
  OBVIOUS
<1>2. /\ w \in Seq(CallTypes) /\ Len(w) = Len(u) + 1 /\ w[Len(w)] = c
      /\ \A i \in 1 .. Len(u) : w[i] = u[i]
  BY <1>1, LastCall
<1>3. DOMAIN w = 1 .. Len(w) /\ DOMAIN u = 1 .. Len(u) /\ Len(u) \in Nat
  BY <1>2
<1>4. ASSUME NEW i \in 1 .. Len(w), NEW x \in {w[i]}
      PROVE CallFits(x)' /\ (x.op \in {"complete", "ac"} => i = Len(w))
  <2>1. CASE i \in 1 .. Len(u)
    <3>1. x \in Range(u)
      BY <1>2, <1>3, <1>4, <2>1 DEF Range
    <3> QED BY <3>1
  <2>2. CASE i = Len(w)
    BY <1>2, <1>4, <2>2
  <2> QED BY <1>2, <1>3, <2>1, <2>2
<1> QED BY <1>1, <1>3, <1>4 DEF CallsOK

LEMMA CompleteFrameKeeps ==
  ASSUME IInv, CompleteFrame
  PROVE  IInv'
<1>1. PICK on \in Seq(Subgoal), top \in Seq(Subgoal) :
           /\ on = Top.on /\ top = Last(sccs) /\ sccs # <<>> /\ Len(calls) = 1 /\ Completing
           /\ Range(on) \subseteq Range(top)
           /\ \A s \in Range(top) : s \in Subgoal /\ InTop(s) /\ Settled(s) /\ (s \in Range(on) \/ Completed(s))
  BY CompletingIs DEF CompleteFrame
<1>2. PICK s, rest : s = Head(on) /\ rest = Tail(on)
  OBVIOUS
<1>3. /\ on # <<>> /\ status' = [status EXCEPT ![s] = "complete"]
      /\ calls' = (IF NegSimplifPossible(s) THEN <<Call("neg_fails", s)>> ELSE <<>>)
                    \o <<Call("complete", rest)>> \o Tail(calls)
      /\ UNCHANGED <<prog, wfm, sccs, conts, ans, rootless, answers, dl, pnde, needsAC, deferred>>
  BY <1>1, <1>2 DEF CompleteFrame, tables
<1>4. s \in Subgoal /\ s \in Range(top) /\ rest \in Seq(Subgoal) /\ Range(on) = {s} \cup Range(rest)
  BY <1>1, <1>2, <1>3, HeadAndTail
<1>5. status \in [Subgoal -> {"new", "incomplete", "complete"}] /\ calls \in Seq(CallTypes)
  BY DEF IInv, Types, TableTypes
<1>6. /\ status' \in [Subgoal -> {"new", "incomplete", "complete"}]
      /\ \A r \in Subgoal : status'[r] = IF r = s THEN "complete" ELSE status[r]
  BY <1>3, <1>4, <1>5
<1>7. \A r \in Subgoal : Completed(r) => Completed(r)'
  BY <1>6 DEF Completed
<1>8. PICK c, x : c = Call("complete", rest) /\ x = Call("neg_fails", s)
  OBVIOUS
<1>9. CallFits(c)' /\ c \in CallTypes /\ c.op = "complete"
  <2>1. \A r \in Range(top) \ Range(rest) : Completed(r)'
    BY <1>1, <1>4, <1>6, <1>7 DEF Completed
  <2>2. c.op = "complete" /\ c.on = rest /\ c \in CallTypes
    BY <1>4, <1>8 DEF Call, CallTypes
  <2> QED BY <1>1, <1>3, <1>4, <2>1, <2>2 DEF CallFits
<1>10. PICK u : u = IF NegSimplifPossible(s) THEN <<x>> ELSE <<>>
  OBVIOUS
<1>11. u = <<>> \/ u = <<x>>
  BY <1>10
<1>12. x \in CallTypes /\ x.op = "neg_fails" /\ x.on = s
  BY <1>4, <1>8 DEF Call, CallTypes
<1>13. u \in Seq(CallTypes) /\ \A y \in Range(u) : y = x
  <2>1. CASE u = <<>>
    BY <2>1 DEF Range
  <2>2. CASE u = <<x>>
    BY <1>12, <2>2 DEF Range
  <2> QED BY <1>11, <2>1, <2>2
<1>14. calls' = u \o <<c>>
  <2>1. Tail(calls) = <<>>
    <3>1. calls # <<>>
      BY DEF CompleteFrame, In
    <3>2. Len(calls) = 1
      BY <1>1
    <3> QED BY <1>5, <3>2, TailOfOne
  <2>2. <<c>> \o <<>> = <<c>>
    BY <1>9
  <2>3. PICK w : w = u \o <<c>>
    OBVIOUS
  <2>4. w \in Seq(CallTypes)
    BY <1>9, <1>13, <2>3
  <2>5. w \o <<>> = w
    BY <2>4
  <2> QED BY <1>3, <1>8, <1>10, <2>1, <2>2, <2>3, <2>5
<1>15. \A r \in Subgoal : (Completing' => (Settled(r) => Settled(r)')) /\ (Completing' /\ r \in Range(top) => Settled(r)')
  <2>1. /\ \A r : InTop(r)' <=> InTop(r)
        /\ (Completing => Completing') => \A r \in Subgoal : Settled(r) => Settled(r)'
    BY <1>3, <1>7, StackSame
  <2> QED BY <1>1, <2>1 DEF Settled
<1>16. calls' \in Seq(CallTypes) /\ CallsOK' /\ Completing'
  <2>1. Completing' <=> c.op = "complete"
    BY <1>9, <1>13, <1>14, LastCall
  <2>2. CallFits(x)'
    BY <1>4, <1>9, <1>12, <1>15, <2>1 DEF CallFits
  <2>3. \A y \in Range(u) : CallFits(y)' /\ y.op \notin {"complete", "ac"}
    BY <1>12, <1>13, <2>2
  <2> QED BY <1>9, <1>13, <1>14, <2>1, <2>3, LastCall, CallBelow
<1>17. Types'
  BY <1>3, <1>6, <1>16 DEF IInv, Types, TableTypes, Continuation
<1>18. Indexes'
  BY <1>3 DEF IInv, Indexes, DLsOf, Holders
<1>19. \A r \in Subgoal : answers'[r] # "list" \/ r \in rootless' \/ r \in needsAC' => Settled(r)'
  <2>1. \A r \in Subgoal : answers[r] # "list" \/ r \in rootless \/ r \in needsAC => Settled(r)'
    BY <1>15, <1>16, Kept
  <2> QED BY <1>3, <2>1
<1>20. /\ \A k \in conts' : EnvironmentFits(k)
       /\ \A d \in DOMAIN dl' : \A e \in {dl'[d]} : DelayListFits(e)
  BY <1>3, Kept
<1>21. \A a \in Atom : Unconditional(a) => Unconditional(a)'
  BY <1>3 DEF Unconditional
<1>22. \A r \in Subgoal : \/ status'[r] = status[r]
                          \/ /\ status'[r] = "complete"
                             /\ \/ Settled(r)'
                                \/ <<r, 0>> \in Atom /\ Unconditional(<<r, 0>>)'
  BY <1>4, <1>6, <1>15, <1>16
<1> QED BY <1>3, <1>16, <1>17, <1>18, <1>19, <1>20, <1>21, <1>22, StackStays

\* The SCC leaves the stack.
LEMMA EndCompletionKeeps ==
  ASSUME IInv, EndCompletion
  PROVE  IInv' /\ SccLeaves
<1>1. PICK on \in Seq(Subgoal), top \in Seq(Subgoal) :
           /\ on = Top.on /\ top = Last(sccs) /\ sccs # <<>> /\ Len(calls) = 1 /\ Completing
           /\ Range(on) \subseteq Range(top)
           /\ \A s \in Range(top) : s \in Subgoal /\ InTop(s) /\ Settled(s) /\ (s \in Range(on) \/ Completed(s))
  BY CompletingIs DEF EndCompletion
<1>2. /\ on = <<>> /\ sccs' = Front(sccs) /\ conts' = {k \in conts : ~InTop(Root(k))} /\ calls' = Tail(calls)
      /\ \E freed \in {"cond", "uncond"} :
           answers' = [s \in Subgoal |-> IF InTop(s) THEN Tag(s, freed) ELSE answers[s]]
      /\ UNCHANGED <<prog, wfm, status, ans, rootless, dl, pnde, needsAC, deferred>>
  BY <1>1 DEF EndCompletion
<1>3. PICK freed \in {"cond", "uncond"} :
           answers' = [s \in Subgoal |-> IF InTop(s) THEN Tag(s, freed) ELSE answers[s]]
  BY <1>2
<1>4. \A s \in Range(top) : s \in Subgoal /\ Completed(s) /\ Settled(s)
  BY <1>1, <1>2 DEF Range
<1>5. PICK N : N = Len(sccs)
  OBVIOUS
<1>6. /\ N \in Nat \ {0} /\ DOMAIN sccs = 1 .. N /\ sccs[N] = top /\ sccs \in Seq(Seq(Subgoal))
      /\ sccs' \in Seq(Seq(Subgoal)) /\ DOMAIN sccs' = 1 .. (N - 1) /\ \A i \in 1 .. (N - 1) : sccs'[i] = sccs[i]
  <2>1. sccs \in Seq(Seq(Subgoal)) /\ N \in Nat \ {0}
    BY <1>1, <1>5 DEF IInv, Types, TableTypes
  <2>2. sccs' = SubSeq(sccs, 1, N - 1)
    BY <1>2, <1>5 DEF Front
  <2> QED BY <1>1, <1>5, <2>1, <2>2 DEF Last
<1>7. \A i, j \in 1 .. N : \A s \in Range(sccs[i]) : s \in Range(sccs[j]) => i = j
  BY <1>6 DEF IInv, Frames
<1>8. \A s : InTop(s) <=> s \in Range(top)
  BY <1>1 DEF InTop
<1>9. \A s : OnStack(s)' <=> OnStack(s) /\ s \notin Range(top)
  <2> SUFFICES ASSUME NEW s PROVE OnStack(s)' <=> OnStack(s) /\ s \notin Range(top)
    OBVIOUS
  <2>1. ASSUME OnStack(s)' PROVE OnStack(s) /\ s \notin Range(top)
    <3>1. PICK i \in 1 .. (N - 1) : s \in Range(sccs[i])
      BY <1>6, <2>1 DEF OnStack
    <3>2. i \in 1 .. N /\ N \in 1 .. N /\ i # N
      BY <1>6
    <3> QED BY <1>6, <1>7, <3>1, <3>2 DEF OnStack
  <2>2. ASSUME OnStack(s), s \notin Range(top) PROVE OnStack(s)'
    <3>1. PICK i \in 1 .. N : s \in Range(sccs[i])
      BY <1>6, <2>2 DEF OnStack
    <3>2. i # N
      BY <1>6, <2>2, <3>1
    <3>3. i \in 1 .. (N - 1)
      BY <1>6, <3>2
    <3> QED BY <1>6, <3>1, <3>3 DEF OnStack
  <2> QED BY <2>1, <2>2
<1>10. \A s : Completed(s)' <=> Completed(s)
  BY <1>2 DEF Completed
<1>11. \A s \in Subgoal : Settled(s) => Done(s)'
  BY <1>4, <1>8, <1>9, <1>10 DEF Settled, Done
<1>12. ASSUME NEW r, NEW s \in Subgoal, NotBelow(r, s) PROVE NotBelow(r, s)'
  <2>1. CASE Done(s)
    BY <1>11, <2>1 DEF NotBelow, Settled
  <2>2. CASE ~Done(s)
    <3>1. PICK i, j \in 1 .. N : i <= j /\ r \in Range(sccs[i]) /\ s \in Range(sccs[j])
      BY <1>6, <1>12, <2>2 DEF NotBelow
    <3>2. CASE j = N
      <4>1. Settled(s)
        BY <1>4, <1>6, <3>1, <3>2
      <4> QED BY <1>11, <4>1 DEF NotBelow
    <3>3. CASE j # N
      <4>1. i \in 1 .. (N - 1) /\ j \in 1 .. (N - 1)
        BY <1>6, <3>1, <3>3
      <4> QED BY <1>6, <3>1, <4>1 DEF NotBelow
    <3> QED BY <3>2, <3>3
  <2> QED BY <2>1, <2>2
<1>13. calls' = <<>>
  <2>1. calls \in Seq(CallTypes) /\ Len(calls) = 1
    BY <1>1 DEF IInv, Types
  <2> QED BY <1>2, <2>1, TailOfOne
<1>14. Types'
  <2>1. answers' \in [Subgoal -> {"list", "no", "cond", "uncond"}]
    <3>1. \A s \in Subgoal : Tag(s, freed) \in {"list", "no", "cond", "uncond"}
      BY DEF Tag
    <3>2. answers \in [Subgoal -> {"list", "no", "cond", "uncond"}]
      BY DEF IInv, Types, TableTypes
    <3>3. \A s \in Subgoal : answers'[s] \in {"list", "no", "cond", "uncond"}
      BY <1>3, <3>1, <3>2
    <3>4. answers' = [s \in Subgoal |-> answers'[s]]
      BY <1>3
    <3> QED BY <3>3, <3>4
  <2>2. conts' \subseteq conts
    BY <1>2
  <2>3. sccs' \in Seq(Seq(Subgoal)) /\ calls' \in Seq(CallTypes)
    BY <1>6, <1>13
  <2>4. UNCHANGED <<prog, status, ans, rootless, dl, pnde, needsAC, deferred>>
    BY <1>2
  <2>5. Continuation' = Continuation
    BY <2>4 DEF Continuation
  <2>6. TableTypes
    BY DEF IInv, Types
  <2> QED BY <2>1, <2>2, <2>3, <2>4, <2>5, <2>6 DEF Types, TableTypes
<1>15. Indexes'
  BY <1>2 DEF IInv, Indexes, DLsOf, Holders
<1>16. Frames'
  <2>1. \A i \in DOMAIN sccs' : sccs'[i] # <<>>
    BY <1>6 DEF IInv, Frames
  <2>2. ASSUME NEW s \in Subgoal
        PROVE (status'[s] = "incomplete" => OnStack(s)') /\ (OnStack(s)' => status'[s] # "new")
    <3>1. (status[s] = "incomplete" => OnStack(s)) /\ (OnStack(s) => status[s] # "new")
      BY DEF IInv, Frames
    <3>2. status[s] = "incomplete" => s \notin Range(top)
      BY <1>4 DEF Completed
    <3> QED BY <1>2, <1>9, <3>1, <3>2
  <2>3. \A i, j \in DOMAIN sccs' : \A s \in Range(sccs'[i]) : s \in Range(sccs'[j]) => i = j
    BY <1>6, <1>7
  <2> QED BY <2>1, <2>2, <2>3 DEF Frames
<1>17. Environments'
  <2> SUFFICES ASSUME NEW k \in conts, ~InTop(Root(k)) PROVE EnvironmentFits(k)'
    BY <1>2 DEF Environments
  <2>1. EnvironmentFits(k) /\ k \in Continuation /\ prog \in Programs
    BY Kept DEF TableTypes
  <2>2. /\ k.delays \subseteq Literal
        /\ ~AtEnd(k) => Callee(k) \in Subgoal
    BY <2>1, Environment
  <2>3. \A l \in k.delays : l.of[1] \in Subgoal
    BY <2>2, Atoms
  <2>4. OnStack(Root(k))'
    BY <1>8, <1>9, <2>1 DEF EnvironmentFits
  <2> QED BY <1>12, <2>1, <2>2, <2>3, <2>4 DEF EnvironmentFits
<1>18. Dependencies'
  <2> SUFFICES ASSUME NEW d \in DOMAIN dl, NEW e \in {dl[d]} PROVE DelayListFits(e)'
    BY <1>2 DEF Dependencies
  <2>1. e \in DelayList /\ DelayListFits(e)
    BY Kept DEF TableTypes
  <2>2. \A l \in e.des : l.of[1] \in Subgoal
    BY <2>1, Atoms DEF DelayList
  <2> QED BY <1>12, <2>1, <2>2 DEF DelayListFits
<1>19. Tables'
  <2> SUFFICES ASSUME NEW s \in Subgoal
               PROVE  /\ Completed(s)' => Settled(s)' \/ (<<s, 0>> \in Atom /\ Unconditional(<<s, 0>>)')
                      /\ answers'[s] # "list" \/ s \in rootless' \/ s \in needsAC' => Settled(s)'
    BY DEF Tables
  <2>1. Settled(s) => Settled(s)'
    BY <1>11 DEF Settled
  <2>2. Completed(s)' => Settled(s) \/ (<<s, 0>> \in Atom /\ Unconditional(<<s, 0>>)')
    <3>1. Unconditional(<<s, 0>>)' <=> Unconditional(<<s, 0>>)
      BY <1>2 DEF Unconditional
    <3> QED BY <1>10, <3>1 DEF IInv, Tables
  <2>3. answers'[s] # "list" \/ s \in rootless' \/ s \in needsAC' => Settled(s)
    <3>1. answers[s] # "list" \/ s \in rootless \/ s \in needsAC => Settled(s)
      BY Kept
    <3>2. CASE s \in Range(top)
      BY <1>4, <3>2
    <3>3. CASE s \notin Range(top)
      BY <1>2, <1>3, <1>8, <3>1, <3>3
    <3> QED BY <3>2, <3>3
  <2> QED BY <2>1, <2>2, <2>3
<1>20. CallsOK'
  BY <1>13 DEF CallsOK
<1>21. ASSUME NEW r, NEW s, Mate(r, s) PROVE Mate(r, s)' \/ InTop(s)
  <2>1. PICK i \in 1 .. N : r \in Range(sccs[i]) /\ s \in Range(sccs[i])
    BY <1>6, <1>21 DEF Mate
  <2>2. CASE i = N
    BY <1>6, <1>8, <2>1, <2>2
  <2>3. CASE i # N
    <3>1. i \in 1 .. (N - 1)
      BY <1>6, <2>3
    <3> QED BY <1>6, <2>1, <3>1 DEF Mate
  <2> QED BY <2>2, <2>3
<1>22. SccLeaves
  BY <1>4, <1>8, <1>9, <1>10, <1>13, <1>21 DEF SccLeaves
<1> QED BY <1>14, <1>15, <1>16, <1>17, <1>18, <1>19, <1>20, <1>22 DEF IInv

\* Answer completion goes from tables that have left the stack to others that have.
LEMMA EvaluatedIs ==
  ASSUME IInv, \A s \in Subgoal : Settled(s) => Done(s), NEW A
  PROVE  \A a \in Evaluated(A) : a \in Atom /\ Done(a[1])
<1>1. PICK G : G = {a \in Atom : Done(a[1])}
  OBVIOUS
<1>2. ASSUME NEW X PROVE Depends(X) \subseteq G
  <2> SUFFICES ASSUME NEW d \in DOMAIN dl, dl[d].asl[1] \in needsAC, NEW l \in dl[d].des
               PROVE  l.of \in G
    BY DEF Depends
  <2>1. PICK e : e = dl[d]
    OBVIOUS
  <2>2. e \in DelayList /\ DelayListFits(e)
    BY <2>1, Kept DEF TableTypes
  <2>3. PICK r, s : r = e.asl[1] /\ s = l.of[1]
    OBVIOUS
  <2>4. e.asl \in Atom /\ l \in Literal
    BY <2>1, <2>2 DEF DelayList
  <2>5. r \in Subgoal /\ s \in Subgoal /\ l.of \in Atom
    BY <2>3, <2>4, Atoms
  <2>6. NotBelow(r, s)
    BY <2>1, <2>2, <2>3 DEF DelayListFits
  <2>7. Done(r)
    BY <2>1, <2>3, <2>5, Kept
  <2>8. Done(s)
    BY <2>6, <2>7 DEF NotBelow, Done, OnStack
  <2> QED BY <1>1, <2>3, <2>5, <2>8
<1>3. PICK n : n = Cardinality(Atom)
  OBVIOUS
<1>4. n \in Nat
  BY <1>3, WellFoundedAssumption, FS_CardinalityType
<1> DEFINE P(f) == f = [i \in 0 .. n |-> IF i = 0 THEN Depends(A) ELSE f[i - 1] \cup Depends(f[i - 1])]
<1>5. PICK F : F = CHOOSE f : P(f)
  OBVIOUS
<1>6. Evaluated(A) = F[n]
  BY <1>3, <1>5 DEF Evaluated
<1>7. \E f : P(f)
  <2>1. PICK T, base, step : /\ T = SUBSET G /\ base = Depends(A)
                             /\ step = [i \in 1 .. n |-> [t \in T |-> t \cup Depends(t)]]
    OBVIOUS
  <2>2. base \in T /\ step \in [1 .. n -> [T -> T]]
    BY <1>2, <2>1
  <2>3. PICK g \in [0 .. n -> T] : Iterates(g, n, base, step)
    BY <1>4, <2>2, Steps
  <2>4. ASSUME NEW i \in 0 .. n PROVE g[i] = IF i = 0 THEN Depends(A) ELSE g[i - 1] \cup Depends(g[i - 1])
    <3>1. g[i] = IF i = 0 THEN base ELSE step[i][g[i - 1]]
      BY <2>3 DEF Iterates
    <3>2. i # 0 => i \in 1 .. n /\ i - 1 \in 0 .. n
      BY <1>4
    <3>3. i # 0 => step[i][g[i - 1]] = g[i - 1] \cup Depends(g[i - 1])
      BY <2>1, <2>3, <3>2
    <3> QED BY <2>1, <3>1, <3>3
  <2>5. P(g)
    BY <2>3, <2>4
  <2> QED BY <2>5
<1>8. P(F)
  <2> HIDE DEF P
  <2> QED BY <1>5, <1>7
<1>9. \A i \in 0 .. n : F[i] = IF i = 0 THEN Depends(A) ELSE F[i - 1] \cup Depends(F[i - 1])
  BY <1>8
<1> HIDE DEF P
<1> DEFINE Bad == {i \in 0 .. n : ~(F[i] \subseteq G)}
<1>10. ASSUME NEW i \in Bad, \A j \in Bad : i <= j PROVE FALSE
  <2>1. i # 0
    BY <1>2, <1>9, <1>10
  <2>2. i \in 0 .. n /\ i - 1 \in 0 .. n /\ ~(i <= i - 1)
    BY <1>4, <1>10, <2>1
  <2>3. F[i - 1] \subseteq G
    BY <1>10, <2>2
  <2>4. F[i] \subseteq G
    BY <1>2, <1>9, <2>1, <2>2, <2>3
  <2> QED BY <1>10, <2>4
<1>11. Bad = {}
  <2>1. Bad \in SUBSET Nat
    BY <1>4
  <2> HIDE DEF Bad
  <2> QED BY <1>10, <2>1, LeastNatural
<1>12. F[n] \subseteq G
  BY <1>4, <1>11
<1> QED BY <1>1, <1>6, <1>12

LEMMA AnswerCompletionKeeps ==
  ASSUME IInv, NEW k \in conts, AnswerCompletion(k)
  PROVE  IInv'
<1>1. PICK s, x : s = Callee(k) /\ x = AnswersToComplete(s)
  OBVIOUS
<1>2. /\ Active(k) /\ ~AtEnd(k) /\ ToAnswerComplete(s) /\ calls' = <<Call("ac", x)>>
      /\ UNCHANGED <<prog, wfm, status, sccs, conts, ans, rootless, answers, dl, pnde, needsAC, deferred>>
  BY <1>1 DEF AnswerCompletion, tables
<1>3. /\ k \in Continuation /\ prog \in Programs /\ calls = <<>>
      /\ \A r \in Subgoal : Settled(r) => Done(r)
  BY <1>2, ActiveIs
<1>4. s \in Subgoal
  BY <1>1, <1>2, <1>3, Environment
<1>5. Done(s)
  BY <1>2, <1>3, <1>4, Kept DEF ToAnswerComplete
<1>6. PICK A : A = {a \in Of(s) : Has(a)}
  OBVIOUS
<1>7. \A a \in Evaluated(A) : a \in Atom /\ a[1] \in Subgoal /\ Done(a[1])
  BY <1>3, EvaluatedIs, Atoms
<1>8. \A a \in A : a \in Atom /\ a[1] = s
  BY <1>4, <1>6, Atoms
<1>9. x = [sgs |-> {s} \cup {a[1] : a \in Evaluated(A)},
           false |-> {a \in Unfounded : a \in Evaluated(A) \/ (A \subseteq Unfounded /\ a \in A)}]
  BY <1>1, <1>6 DEF AnswersToComplete
<1>10. x \in [sgs : SUBSET Subgoal, false : SUBSET Atom] /\ \A a \in x.false : a \in Atom /\ Done(a[1])
  BY <1>4, <1>5, <1>7, <1>8, <1>9
<1>11. PICK c : c = Call("ac", x)
  OBVIOUS
<1>12. c \in CallTypes /\ c.op = "ac" /\ c.on = x
  BY <1>10, <1>11 DEF Call, CallTypes
<1>13. \A r \in Subgoal : Done(r) => Done(r)' /\ Settled(r)'
  <2>1. \A r \in Subgoal : Completed(r) => Completed(r)'
    BY <1>2 DEF Completed
  <2>2. \A r \in Subgoal : Done(r) => Done(r)'
    BY <1>2, <2>1, StackSame
  <2> QED BY <2>2 DEF Settled
<1>14. CallFits(c)'
  <2>1. \A a \in x.false : Settled(a[1])'
    BY <1>10, <1>13, Atoms
  <2> QED BY <1>12, <2>1 DEF CallFits
<1>15. CallsOK' /\ calls' \in Seq(CallTypes)
  BY <1>2, <1>11, <1>12, <1>14, OneCall
<1>16. Types'
  BY <1>2, <1>15 DEF IInv, Types, TableTypes, Continuation
<1>17. Indexes'
  BY <1>2 DEF IInv, Indexes, DLsOf, Holders
<1>18. \A r \in Subgoal : answers'[r] # "list" \/ r \in rootless' \/ r \in needsAC' => Settled(r)'
  <2>1. \A r \in Subgoal : answers[r] # "list" \/ r \in rootless \/ r \in needsAC => Settled(r)'
    BY <1>3, <1>13, Kept
  <2> QED BY <1>2, <2>1
<1>19. /\ \A m \in conts' : EnvironmentFits(m)
       /\ \A d \in DOMAIN dl' : \A e \in {dl'[d]} : DelayListFits(e)
  BY <1>2, Kept
<1>20. \A a \in Atom : Unconditional(a) => Unconditional(a)'
  BY <1>2 DEF Unconditional
<1>21. ~Completing
  BY <1>3 DEF Completing
<1> QED BY <1>2, <1>15, <1>16, <1>17, <1>18, <1>19, <1>20, <1>21, StackStays

-----------------------------------------------------------------------------
(* Calls of subgoals *)

\* A call changes the stack and the environments, no table.
LEMMA StackMoves ==
  ASSUME IInv, calls = <<>>, UNCHANGED <<prog, wfm, tables, calls>>, Frames',
         sccs' \in Seq(Seq(Subgoal)), status' \in [Subgoal -> {"new", "incomplete", "complete"}],
         \A r \in Subgoal : Completed(r)' <=> Completed(r),
         \A r \in Subgoal : Done(r) => Done(r)',
         \A r : \A q \in Subgoal : NotBelow(r, q) => NotBelow(r, q)',
         \A r : OnStack(r) => OnStack(r)',
         conts' \subseteq Continuation, \A m \in conts' : m \in conts \/ EnvironmentFits(m)'
  PROVE  IInv'
<1>1. UNCHANGED <<ans, rootless, answers, dl, pnde, needsAC, deferred>>
  BY DEF tables
<1>2. Types'
  <2>1. TableTypes /\ calls \in Seq(CallTypes)
    BY DEF IInv, Types
  <2>2. Continuation' = Continuation
    BY DEF Continuation
  <2> QED BY <1>1, <2>1, <2>2 DEF Types, TableTypes
<1>3. Indexes'
  BY <1>1 DEF IInv, Indexes, DLsOf, Holders
<1>4. Environments'
  <2> SUFFICES ASSUME NEW k \in conts PROVE EnvironmentFits(k)'
    BY DEF Environments
  <2>1. EnvironmentFits(k) /\ k \in Continuation /\ prog \in Programs
    BY Kept DEF TableTypes
  <2>2. /\ k.delays \subseteq Literal
        /\ ~AtEnd(k) => Callee(k) \in Subgoal
    BY <2>1, Environment
  <2>3. \A l \in k.delays : l.of[1] \in Subgoal
    BY <2>2, Atoms
  <2> QED BY <2>1, <2>2, <2>3 DEF EnvironmentFits
<1>5. Dependencies'
  <2> SUFFICES ASSUME NEW d \in DOMAIN dl, NEW e \in {dl[d]} PROVE DelayListFits(e)'
    BY <1>1 DEF Dependencies
  <2>1. e \in DelayList /\ DelayListFits(e)
    BY Kept DEF TableTypes
  <2>2. \A l \in e.des : l.of[1] \in Subgoal
    BY <2>1, Atoms DEF DelayList
  <2> QED BY <2>1, <2>2 DEF DelayListFits
<1>6. Tables'
  <2> SUFFICES ASSUME NEW s \in Subgoal
               PROVE  /\ Completed(s)' => Settled(s)' \/ (<<s, 0>> \in Atom /\ Unconditional(<<s, 0>>)')
                      /\ answers'[s] # "list" \/ s \in rootless' \/ s \in needsAC' => Settled(s)'
    BY DEF Tables
  <2>1. Settled(s) => Settled(s)'
    BY DEF Settled, Completing
  <2>2. Unconditional(<<s, 0>>)' <=> Unconditional(<<s, 0>>)
    BY <1>1 DEF Unconditional
  <2> QED BY <1>1, <2>1, <2>2 DEF IInv, Tables
<1>7. CallsOK'
  BY DEF CallsOK
<1> QED BY <1>2, <1>3, <1>4, <1>5, <1>6, <1>7 DEF IInv

LEMMA CallNewKeeps ==
  ASSUME IInv, NEW k \in conts, CallNew(k)
  PROVE  IInv' /\ StackGrows
<1>1. PICK s, N, w : s = Callee(k) /\ N = Len(sccs) /\ w = [k EXCEPT !.st = "wait"]
  OBVIOUS
<1>2. /\ Active(k) /\ ~AtEnd(k) /\ status[s] = "new"
      /\ status' = [status EXCEPT ![s] = "incomplete"] /\ sccs' = Append(sccs, <<s>>)
      /\ Becomes(k, {w} \cup Start(s))
      /\ UNCHANGED <<prog, wfm, tables, calls>>
  BY <1>1 DEF CallNew
<1>3. /\ calls = <<>> /\ sccs # <<>> /\ InTop(Root(k)) /\ k \in Continuation /\ prog \in Programs
      /\ EnvironmentFits(k)
  BY <1>2, ActiveIs
<1>4. s \in Subgoal
  BY <1>1, <1>2, <1>3, Environment
<1>5. /\ N \in Nat \ {0} /\ DOMAIN sccs = 1 .. N /\ sccs \in Seq(Seq(Subgoal))
      /\ status \in [Subgoal -> {"new", "incomplete", "complete"}]
  BY <1>1, <1>3 DEF IInv, Types, TableTypes
<1>6. PICK f : f = <<s>>
  OBVIOUS
<1>7. f \in Seq(Subgoal) /\ Range(f) = {s} /\ f # <<>>
  BY <1>4, <1>6 DEF Range
<1>8. /\ sccs' \in Seq(Seq(Subgoal)) /\ DOMAIN sccs' = 1 .. (N + 1) /\ sccs'[N + 1] = f
      /\ \A i \in 1 .. N : sccs'[i] = sccs[i]
  BY <1>1, <1>2, <1>5, <1>6, <1>7
<1>9. \A i \in 1 .. (N + 1) : i \in 1 .. N \/ i = N + 1
  BY <1>5
<1>10. N + 1 \in 1 .. (N + 1) /\ N \in 1 .. (N + 1) /\ N \in 1 .. N /\ N <= N + 1 /\ \A i \in 1 .. N : i \in 1 .. (N + 1)
  BY <1>5
<1>11. ~OnStack(s)
  BY <1>2, <1>4 DEF IInv, Frames
<1>12. \A r : OnStack(r)' <=> OnStack(r) \/ r = s
  BY <1>5, <1>7, <1>8, <1>9, <1>10 DEF OnStack
<1>13. /\ status' \in [Subgoal -> {"new", "incomplete", "complete"}]
       /\ \A r \in Subgoal : status'[r] = IF r = s THEN "incomplete" ELSE status[r]
  BY <1>2, <1>4, <1>5
<1>14. \A r \in Subgoal : Completed(r)' <=> Completed(r)
  BY <1>2, <1>13 DEF Completed
<1>15. \A r \in Subgoal : Done(r) => Done(r)'
  BY <1>2, <1>12, <1>14 DEF Done, Completed
<1>16. ASSUME NEW r, NEW q \in Subgoal, NotBelow(r, q) PROVE NotBelow(r, q)'
  <2>1. CASE Done(q)
    BY <1>15, <2>1 DEF NotBelow
  <2>2. CASE ~Done(q)
    <3>1. PICK i, j \in 1 .. N : i <= j /\ r \in Range(sccs[i]) /\ q \in Range(sccs[j])
      BY <1>5, <1>16, <2>2 DEF NotBelow
    <3>2. i \in DOMAIN sccs' /\ j \in DOMAIN sccs' /\ sccs'[i] = sccs[i] /\ sccs'[j] = sccs[j]
      BY <1>8, <1>10
    <3> QED BY <3>1, <3>2 DEF NotBelow
  <2> QED BY <2>1, <2>2
<1>17. Frames'
  <2>1. \A i \in 1 .. (N + 1) : sccs'[i] # <<>>
    BY <1>5, <1>7, <1>8, <1>9 DEF IInv, Frames
  <2>2. ASSUME NEW r \in Subgoal
        PROVE (status'[r] = "incomplete" => OnStack(r)') /\ (OnStack(r)' => status'[r] # "new")
    BY <1>12, <1>13 DEF IInv, Frames
  <2>3. ASSUME NEW i \in 1 .. (N + 1), NEW j \in 1 .. (N + 1), NEW r \in Range(sccs'[i]), r \in Range(sccs'[j])
        PROVE i = j
    <3>1. CASE r = s
      <4>1. i \notin 1 .. N /\ j \notin 1 .. N
        BY <1>5, <1>8, <1>11, <2>3, <3>1 DEF OnStack
      <4> QED BY <1>9, <4>1
    <3>2. CASE r # s
      <4>1. i \in 1 .. N /\ j \in 1 .. N
        BY <1>7, <1>8, <1>9, <2>3, <3>2
      <4> QED BY <1>5, <1>8, <2>3, <4>1 DEF IInv, Frames
    <3> QED BY <3>1, <3>2
  <2> QED BY <1>8, <2>1, <2>2, <2>3 DEF Frames
<1>18. w \in Continuation /\ EnvironmentFits(w)'
  <2>1. w = [c |-> k.c, at |-> k.at, delays |-> k.delays, st |-> "wait"]
    BY <1>1, <1>3 DEF Continuation
  <2>2. w \in Continuation
    BY <1>3, <2>1 DEF Continuation
  <2>3. Root(w) = Root(k) /\ Callee(w) = s /\ w.delays = k.delays
    BY <1>1, <2>1 DEF Root, Callee, Lit
  <2>4. k.delays \subseteq Literal
    BY <1>3 DEF Continuation
  <2>5. \A l \in k.delays : l.of[1] \in Subgoal
    BY <2>4, Atoms
  <2>6. \A l \in k.delays : NotBelow(Root(k), l.of[1])'
    BY <1>3, <1>16, <2>5 DEF EnvironmentFits
  <2>7. NotBelow(Root(k), s)'
    <3>1. Root(k) \in Range(sccs[N])
      BY <1>1, <1>3 DEF InTop, Last
    <3> QED BY <1>7, <1>8, <1>10, <3>1 DEF NotBelow
  <2>8. OnStack(Root(k))'
    BY <1>3, <1>12 DEF EnvironmentFits
  <2> QED BY <2>2, <2>3, <2>6, <2>7, <2>8 DEF EnvironmentFits
<1>19. ASSUME NEW m \in Start(s) PROVE m \in Continuation /\ EnvironmentFits(m)'
  <2>1. m.c \in prog.clauses /\ m.c.head[1] = s /\ m.at = 1 /\ m.delays = {} /\ m.st = "run" /\ m \in Continuation
    BY DEF Start, Continuation
  <2>2. Root(m) = s
    BY <2>1 DEF Root
  <2> QED BY <1>12, <2>1, <2>2 DEF EnvironmentFits
<1>20. conts' \subseteq Continuation /\ \A m \in conts' : m \in conts \/ EnvironmentFits(m)'
  BY <1>2, <1>18, <1>19, Kept DEF Becomes
<1>21. \A r : OnStack(r) => OnStack(r)'
  BY <1>12
<1>22. StackGrows
  <2>1. \A r \in Subgoal : Done(r)' <=> Done(r)
    BY <1>12, <1>14, <1>15 DEF Done
  <2>2. \A r, q : Mate(r, q) => Mate(r, q)'
    BY <1>5, <1>8, <1>10 DEF Mate
  <2> QED BY <1>14, <2>1, <2>2 DEF StackGrows
<1> QED BY <1>2, <1>3, <1>8, <1>13, <1>14, <1>15, <1>16, <1>17, <1>20, <1>21, <1>22, StackMoves

LEMMA CallIncompleteKeeps ==
  ASSUME IInv, NEW k \in conts, CallIncomplete(k)
  PROVE  IInv' /\ StackGrows
<1>1. PICK s, N, w : s = Callee(k) /\ N = Len(sccs) /\ w = [k EXCEPT !.st = "wait"]
  OBVIOUS
<1>2. PICK n : n = CHOOSE i \in DOMAIN sccs : s \in Range(sccs[i])
  OBVIOUS
<1>3. PICK M : M = Merged(n)
  OBVIOUS
<1>4. /\ Active(k) /\ ~AtEnd(k) /\ status[s] = "incomplete"
      /\ sccs' = Append(SubSeq(sccs, 1, n - 1), M)
      /\ Becomes(k, {}) \/ Becomes(k, {w})
      /\ UNCHANGED <<prog, wfm, status, tables, calls>>
  BY <1>1, <1>2, <1>3 DEF CallIncomplete
<1>5. /\ calls = <<>> /\ sccs # <<>> /\ InTop(Root(k)) /\ k \in Continuation /\ prog \in Programs
      /\ EnvironmentFits(k)
  BY <1>4, ActiveIs
<1>6. s \in Subgoal
  BY <1>1, <1>4, <1>5, Environment
<1>7. /\ N \in Nat \ {0} /\ DOMAIN sccs = 1 .. N /\ sccs \in Seq(Seq(Subgoal))
      /\ status \in [Subgoal -> {"new", "incomplete", "complete"}]
  BY <1>1, <1>5 DEF IInv, Types, TableTypes
<1>8. n \in 1 .. N /\ s \in Range(sccs[n])
  <2>1. \E i \in 1 .. N : s \in Range(sccs[i])
    BY <1>4, <1>6, <1>7 DEF IInv, Frames, OnStack
  <2> QED BY <1>2, <1>7, <2>1
<1>9. M \in Seq(Subgoal) /\ \A r : r \in Range(M) <=> \E i \in n .. N : r \in Range(sccs[i])
  <2>1. PICK t : t = SubSeq(sccs, n, N)
    OBVIOUS
  <2>2. t \in Seq(Seq(Subgoal)) /\ Len(t) = N - n + 1 /\ \A i \in 1 .. (N - n + 1) : t[i] = sccs[n + i - 1]
    BY <1>7, <1>8, <2>1
  <2>3. t # <<>> /\ DOMAIN t = 1 .. (N - n + 1)
    BY <1>7, <1>8, <2>2
  <2>4. M = FlattenSeq(t)
    BY <1>1, <1>3, <2>1 DEF Merged
  <2>5. M \in Seq(Subgoal) /\ Range(M) = UNION {Range(t[i]) : i \in DOMAIN t}
    BY <2>2, <2>3, <2>4, FlattenIs
  <2>6. ASSUME NEW r, r \in Range(M) PROVE \E i \in n .. N : r \in Range(sccs[i])
    <3>1. PICK i \in 1 .. (N - n + 1) : r \in Range(t[i])
      BY <2>3, <2>5, <2>6
    <3>2. n + i - 1 \in n .. N /\ t[i] = sccs[n + i - 1]
      BY <1>7, <1>8, <2>2
    <3> QED BY <3>1, <3>2
  <2>7. ASSUME NEW r, NEW i \in n .. N, r \in Range(sccs[i]) PROVE r \in Range(M)
    <3>1. PICK j : j = i - n + 1
      OBVIOUS
    <3>2. j \in 1 .. (N - n + 1) /\ n + j - 1 = i
      BY <1>7, <1>8, <3>1
    <3>3. t[j] = sccs[i]
      BY <2>2, <3>2
    <3> QED BY <2>3, <2>5, <2>7, <3>2, <3>3
  <2> QED BY <2>5, <2>6, <2>7
<1>10. /\ sccs' \in Seq(Seq(Subgoal)) /\ DOMAIN sccs' = 1 .. n /\ sccs'[n] = M
       /\ \A i \in 1 .. (n - 1) : sccs'[i] = sccs[i]
  <2>1. PICK t : t = SubSeq(sccs, 1, n - 1)
    OBVIOUS
  <2>2. t \in Seq(Seq(Subgoal)) /\ Len(t) = n - 1 /\ \A i \in 1 .. (n - 1) : t[i] = sccs[i]
    BY <1>7, <1>8, <2>1
  <2>3. sccs' = Append(t, M)
    BY <1>4, <2>1
  <2> QED BY <1>7, <1>8, <1>9, <2>2, <2>3
<1>11. \A i \in 1 .. N : i \in 1 .. (n - 1) \/ i \in n .. N
  BY <1>7, <1>8
<1>12. /\ n \in 1 .. n /\ N \in n .. N /\ n \in n .. N /\ n <= n
       /\ \A i \in 1 .. (n - 1) : i \in 1 .. n /\ i \in 1 .. N /\ i <= n
       /\ \A i \in n .. N : i \in 1 .. N
       /\ \A i \in 1 .. n : i = n \/ i \in 1 .. (n - 1)
  BY <1>7, <1>8
<1>13. \A r : OnStack(r)' <=> OnStack(r)
  <2> SUFFICES ASSUME NEW r PROVE OnStack(r)' <=> OnStack(r)
    OBVIOUS
  <2>1. ASSUME OnStack(r)' PROVE OnStack(r)
    <3>1. PICK i \in 1 .. n : r \in Range(sccs'[i])
      BY <1>10, <2>1 DEF OnStack
    <3>2. CASE i = n
      BY <1>7, <1>9, <1>10, <1>12, <3>1, <3>2 DEF OnStack
    <3>3. CASE i \in 1 .. (n - 1)
      BY <1>7, <1>10, <1>12, <3>1, <3>3 DEF OnStack
    <3> QED BY <1>12, <3>2, <3>3
  <2>2. ASSUME OnStack(r) PROVE OnStack(r)'
    <3>1. PICK i \in 1 .. N : r \in Range(sccs[i])
      BY <1>7, <2>2 DEF OnStack
    <3>2. CASE i \in n .. N
      <4>1. r \in Range(sccs'[n])
        BY <1>9, <1>10, <3>1, <3>2
      <4> QED BY <1>10, <1>12, <4>1 DEF OnStack
    <3>3. CASE i \in 1 .. (n - 1)
      BY <1>10, <1>12, <3>1, <3>3 DEF OnStack
    <3> QED BY <1>11, <3>2, <3>3
  <2> QED BY <2>1, <2>2
<1>14. \A r \in Subgoal : Completed(r)' <=> Completed(r)
  BY <1>4 DEF Completed
<1>15. \A r \in Subgoal : Done(r) => Done(r)'
  BY <1>13, <1>14 DEF Done
<1>16. ASSUME NEW r, NEW q \in Subgoal, NotBelow(r, q) PROVE NotBelow(r, q)'
  <2>1. CASE Done(q)
    BY <1>15, <2>1 DEF NotBelow
  <2>2. CASE ~Done(q)
    <3>1. PICK i, j \in 1 .. N : i <= j /\ r \in Range(sccs[i]) /\ q \in Range(sccs[j])
      BY <1>7, <1>16, <2>2 DEF NotBelow
    <3>2. CASE j \in 1 .. (n - 1)
      <4>1. i \in 1 .. (n - 1)
        BY <1>7, <1>8, <3>1, <3>2
      <4> QED BY <1>10, <1>12, <3>1, <3>2, <4>1 DEF NotBelow
    <3>3. CASE j \in n .. N
      <4>1. q \in Range(sccs'[n])
        BY <1>9, <1>10, <3>1, <3>3
      <4>2. CASE i \in 1 .. (n - 1)
        BY <1>10, <1>12, <3>1, <4>1, <4>2 DEF NotBelow
      <4>3. CASE i \in n .. N
        <5>1. r \in Range(sccs'[n])
          BY <1>9, <1>10, <3>1, <4>3
        <5> QED BY <1>10, <1>12, <4>1, <5>1 DEF NotBelow
      <4> QED BY <1>11, <4>2, <4>3
    <3> QED BY <1>11, <3>2, <3>3
  <2> QED BY <2>1, <2>2
<1>17. Frames'
  <2>1. \A i \in 1 .. n : sccs'[i] # <<>>
    <3>1. M # <<>>
      <4>1. s \in Range(M)
        BY <1>8, <1>9, <1>12
      <4> QED BY <4>1 DEF Range
    <3>2. \A i \in 1 .. N : sccs[i] # <<>>
      BY <1>7 DEF IInv, Frames
    <3> QED BY <1>10, <1>12, <3>1, <3>2
  <2>2. ASSUME NEW r \in Subgoal
        PROVE (status'[r] = "incomplete" => OnStack(r)') /\ (OnStack(r)' => status'[r] # "new")
    BY <1>4, <1>13 DEF IInv, Frames
  <2>3. \A i, j \in 1 .. N : \A r \in Range(sccs[i]) : r \in Range(sccs[j]) => i = j
    BY <1>7 DEF IInv, Frames
  <2>4. ASSUME NEW i \in 1 .. (n - 1), NEW r \in Range(sccs'[i]) PROVE r \notin Range(M)
    <3>1. \A j \in n .. N : j # i /\ j \in 1 .. N
      BY <1>7, <1>8
    <3> QED BY <1>9, <1>10, <1>12, <2>3, <2>4, <3>1
  <2>5. ASSUME NEW i \in 1 .. n, NEW j \in 1 .. n, NEW r \in Range(sccs'[i]), r \in Range(sccs'[j])
        PROVE i = j
    <3>1. CASE i = n \/ j = n
      BY <1>10, <1>12, <2>4, <2>5, <3>1
    <3>2. CASE i # n /\ j # n
      BY <1>10, <1>12, <2>3, <2>5, <3>2
    <3> QED BY <3>1, <3>2
  <2> QED BY <1>10, <2>1, <2>2, <2>5 DEF Frames
<1>18. w \in Continuation /\ EnvironmentFits(w)'
  <2>1. w = [c |-> k.c, at |-> k.at, delays |-> k.delays, st |-> "wait"]
    BY <1>1, <1>5 DEF Continuation
  <2>2. w \in Continuation
    BY <1>5, <2>1 DEF Continuation
  <2>3. Root(w) = Root(k) /\ Callee(w) = s /\ w.delays = k.delays
    BY <1>1, <2>1 DEF Root, Callee, Lit
  <2>4. k.delays \subseteq Literal
    BY <1>5 DEF Continuation
  <2>5. \A l \in k.delays : l.of[1] \in Subgoal
    BY <2>4, Atoms
  <2>6. \A l \in k.delays : NotBelow(Root(k), l.of[1])'
    BY <1>5, <1>16, <2>5 DEF EnvironmentFits
  <2>7. NotBelow(Root(k), s)'
    <3>1. Root(k) \in Range(sccs[N])
      BY <1>1, <1>5 DEF InTop, Last
    <3>2. Root(k) \in Range(sccs'[n]) /\ s \in Range(sccs'[n])
      BY <1>8, <1>9, <1>10, <1>12, <3>1
    <3> QED BY <1>10, <1>12, <3>2 DEF NotBelow
  <2>8. OnStack(Root(k))'
    BY <1>5, <1>13 DEF EnvironmentFits
  <2> QED BY <2>2, <2>3, <2>6, <2>7, <2>8 DEF EnvironmentFits
<1>19. conts' \subseteq Continuation /\ \A m \in conts' : m \in conts \/ EnvironmentFits(m)'
  BY <1>4, <1>18, Kept DEF Becomes
<1>20. \A r : OnStack(r) => OnStack(r)'
  BY <1>13
<1>21. status' \in [Subgoal -> {"new", "incomplete", "complete"}] /\ UNCHANGED <<prog, wfm, tables, calls>>
  BY <1>4, <1>7
<1>22. StackGrows
  <2>1. \A r \in Subgoal : Done(r)' <=> Done(r)
    BY <1>13, <1>14 DEF Done
  <2>2. ASSUME NEW r, NEW q, Mate(r, q) PROVE Mate(r, q)'
    <3>1. PICK i \in 1 .. N : r \in Range(sccs[i]) /\ q \in Range(sccs[i])
      BY <1>7, <2>2 DEF Mate
    <3>2. CASE i \in 1 .. (n - 1)
      BY <1>10, <1>12, <3>1, <3>2 DEF Mate
    <3>3. CASE i \in n .. N
      <4>1. r \in Range(sccs'[n]) /\ q \in Range(sccs'[n])
        BY <1>9, <1>10, <3>1, <3>3
      <4> QED BY <1>10, <1>12, <4>1 DEF Mate
    <3> QED BY <1>11, <3>2, <3>3
  <2> QED BY <1>14, <2>1, <2>2 DEF StackGrows
<1> QED BY <1>5, <1>10, <1>14, <1>15, <1>16, <1>17, <1>19, <1>20, <1>21, <1>22, StackMoves

-----------------------------------------------------------------------------
(* The theorems *)

LEMMA InitHolds == Init => IInv
<1> SUFFICES ASSUME Init PROVE IInv
  OBVIOUS
<1>1. PICK q : q = prog.query
  OBVIOUS
<1>2. PICK f : f = <<q>>
  OBVIOUS
<1>3. /\ prog \in Programs /\ status = [s \in Subgoal |-> IF s = q THEN "incomplete" ELSE "new"]
      /\ sccs = <<f>> /\ conts = Start(q) /\ ans = [a \in Atom |-> "none"] /\ rootless = {}
      /\ answers = [s \in Subgoal |-> "list"] /\ dl = <<>> /\ pnde = [l \in Literal |-> <<>>]
      /\ needsAC = {} /\ deferred = <<>> /\ calls = <<>>
  BY <1>1, <1>2 DEF Init
<1>4. q \in Subgoal
  BY <1>1, <1>3, WellFoundedAssumption
<1>5. f \in Seq(Subgoal) /\ Range(f) = {q} /\ f # <<>>
  BY <1>2, <1>4 DEF Range
<1>6. sccs \in Seq(Seq(Subgoal)) /\ DOMAIN sccs = {1} /\ sccs[1] = f
  BY <1>3, <1>5
<1>7. \A s : OnStack(s) <=> s = q
  BY <1>5, <1>6 DEF OnStack
<1>8. DOMAIN dl = {}
  BY <1>3
<1>9. ASSUME NEW k \in conts PROVE k \in Continuation /\ EnvironmentFits(k)
  <2>1. /\ k.c \in prog.clauses /\ k.c.head[1] = q /\ k.at = 1 /\ k.delays = {} /\ k.st = "run"
        /\ k = [c |-> k.c, at |-> 1, delays |-> {}, st |-> "run"]
    BY <1>3, <1>9 DEF Start
  <2> QED BY <1>7, <2>1 DEF Continuation, EnvironmentFits, Root
<1>10. Types
  <2>1. pnde \in [Literal -> Seq(1 .. MaxDL)]
    BY <1>3
  <2>2. dl \in [DOMAIN dl -> DelayList] /\ DOMAIN dl \subseteq 1 .. MaxDL
    BY <1>3, <1>8
  <2> QED BY <1>3, <1>6, <1>9, <2>1, <2>2 DEF Types, TableTypes
<1>11. Indexes
  <2>1. ASSUME NEW l \in Literal, NEW t \in {pnde[l]} PROVE Range(t) = Holders(l) /\ IsInjective(t)
    <3>1. t = <<>> /\ Holders(l) = {}
      BY <1>3, <1>8, <2>1 DEF Holders
    <3> QED BY <3>1 DEF Range, IsInjective
  <2> QED BY <1>3, <1>8, <2>1 DEF Indexes, DLsOf
<1>12. Frames
  BY <1>3, <1>5, <1>6, <1>7 DEF Frames
<1>13. Environments /\ Dependencies
  BY <1>8, <1>9 DEF Environments, Dependencies
<1>14. Tables
  BY <1>3 DEF Tables, Completed
<1>15. CallsOK
  BY <1>3 DEF CallsOK
<1> QED BY <1>10, <1>11, <1>12, <1>13, <1>14, <1>15 DEF IInv

LEMMA NextKeeps == IInv /\ [Next]_vars => IInv'
<1> SUFFICES ASSUME IInv, [Next]_vars PROVE IInv'
  OBVIOUS
<1>1. CASE UNCHANGED vars
  <2>1. conts' \subseteq Continuation /\ \A m \in conts' : EnvironmentFits(m)
    BY <1>1, Kept DEF vars
  <2> QED BY <1>1, <2>1, Resumes DEF vars
<1>2. CASE \E k \in conts : CallNew(k) \/ CallIncomplete(k) \/ Return(k) \/ SlgNot(k) \/ AnswerCompletion(k)
  BY <1>2, CallNewKeeps, CallIncompleteKeeps, ReturnKeeps, SlgNotKeeps, AnswerCompletionKeeps
<1>3. CASE \E k \in conts : Exhausted(k) \/ RejectAnswer(k)
  BY <1>3, EndsKeep
<1>4. CASE \E k \in conts : ConditionalAnswer(k) \/ UnconditionalAnswer(k) \/ BecomesUnconditional(k)
  BY <1>4, ConditionalAnswerKeeps, UnconditionalAnswerKeeps, BecomesUnconditionalKeeps
<1>5. CASE DelayAll \/ StartCompletion \/ CompleteFrame \/ EndCompletion
  BY <1>5, DelayAllKeeps, StartCompletionKeeps, CompleteFrameKeeps, EndCompletionKeeps
<1>6. CASE PosUnconditional \/ PosUnsupported \/ NegSucceeds \/ NegFails
  BY <1>6, LoopsKeep
<1>7. CASE EndPosUnconditional \/ EarlyCompletion \/ EndNegSucceeds \/ EndPosUnsupported \/ Unsupported
  BY <1>7, EndPosUnconditionalKeeps, EarlyCompletionKeeps, EndNegSucceedsKeeps, EndPosUnsupportedKeeps,
     UnsupportedKeeps
<1>8. CASE StartNegFails \/ EndNegFails \/ MarkSubgoalFailed \/ EndAnswerCompletion
  BY <1>8, StartNegFailsKeeps, EndNegFailsKeeps, MarkSubgoalFailedKeeps, EndAnswerCompletionKeeps
<1>9. CASE \E a \in Atom : ForceFalse(a)
  BY <1>9, ForceFalseKeeps
<1> QED BY <1>1, <1>2, <1>3, <1>4, <1>5, <1>6, <1>7, <1>8, <1>9 DEF Next

LEMMA Invariant == Spec => []IInv
BY InitHolds, NextKeeps, PTL DEF Spec

LEMMA RangeIn ==
  ASSUME NEW S, NEW s \in Seq(S)
  PROVE  Range(s) \subseteq S
BY DEF Range

\* A list without repetitions is as long as it has elements.
LEMMA LengthIs ==
  ASSUME NEW S, NEW s \in Seq(S), IsInjective(s)
  PROVE  Len(s) = Cardinality(Range(s))
<1> DEFINE D == 1 .. Len(s)
           T == Range(s)
<1>1. Len(s) \in Nat /\ IsFiniteSet(D) /\ Cardinality(D) = Len(s)
  <2>1. Len(s) \in Nat /\ 1 \in Int /\ Len(s) \in Int
    OBVIOUS
  <2>2. IsFiniteSet(1 .. Len(s)) /\ Cardinality(1 .. Len(s)) = IF 1 > Len(s) THEN 0 ELSE Len(s) - 1 + 1
    BY <2>1, FS_Interval
  <2> QED BY <2>1, <2>2
<1>2. s \in [D -> T] /\ (\A x, y \in D : s[x] = s[y] => x = y) /\ (\A y \in T : \E x \in D : s[x] = y)
  BY DEF Range, IsInjective
<1> HIDE DEF D, T
<1>3. s \in Bijection(D, T)
  BY <1>2 DEF Bijection, Injection, Surjection, IsInjective
<1>4. Cardinality(T) = Cardinality(D)
  BY <1>1, <1>3, FS_Bijection DEF ExistsBijection
<1> QED BY <1>1, <1>4 DEF T

\* Types: what the engine keeps for a program is what it should be.
THEOREM TypeCorrect == Spec => []TypeOK
<1>1. IInv => TypeOK
  <2> SUFFICES ASSUME IInv PROVE TypeOK
    OBVIOUS
  <2>1. Types /\ Frames
    BY DEF IInv
  <2>2. \A i \in DOMAIN sccs : sccs[i] # <<>> /\ Range(sccs[i]) \subseteq Subgoal
    BY <2>1 DEF Types, TableTypes, Frames, Range
  <2>3. \A k \in conts : k.st \in {"run", "wait", "resumed"} /\ k.delays \subseteq Literal
    BY <2>1 DEF Types, TableTypes, Continuation
  <2>4. \A d \in DOMAIN dl : dl[d].asl \in Atom /\ dl[d].des \subseteq Literal
    BY <2>1 DEF Types, TableTypes, DelayList
  <2>5. \A l \in Literal : Range(pnde[l]) \subseteq 1 .. MaxDL
    <3> SUFFICES ASSUME NEW l \in Literal PROVE Range(pnde[l]) \subseteq 1 .. MaxDL
      OBVIOUS
    <3>1. pnde[l] \in Seq(1 .. MaxDL)
      BY <2>1 DEF Types, TableTypes
    <3> QED BY <3>1, RangeIn
  <2>6. Range(deferred) \subseteq Subgoal
    BY <2>1 DEF Types, TableTypes, Range
  <2> QED BY <2>1, <2>2, <2>3, <2>4, <2>5, <2>6 DEF Types, TableTypes, TypeOK
<1> QED BY <1>1, Invariant, PTL

\* release_all_dls, release_entire_dl and remove_de_from_dl: whatever simplification and
\* answer completion remove while the loops of their callers go on, an answer is
\* conditional if and only if it has a delay list, a delay list is not empty, and each
\* of its elements knows of it, once.
THEOREM IndexesKept == Spec => []IndexesAgree
<1>1. IInv => IndexesAgree
  <2> SUFFICES ASSUME IInv PROVE IndexesAgree
    OBVIOUS
  <2>1. Types /\ Indexes
    BY DEF IInv
  <2>2. ASSUME NEW l \in Literal
        PROVE  /\ Range(pnde[l]) = {d \in DOMAIN dl : l \in dl[d].des}
               /\ Len(pnde[l]) = Cardinality(Range(pnde[l]))
    <3>1. pnde[l] \in Seq(1 .. MaxDL) /\ Range(pnde[l]) = Holders(l) /\ IsInjective(pnde[l])
      BY <2>1 DEF Types, TableTypes, Indexes
    <3> QED BY <3>1, LengthIs DEF Holders
  <2> QED BY <2>1, <2>2 DEF Indexes, IndexesAgree
<1> QED BY <1>1, Invariant, PTL
\* A step of an answer's own: what it was and what it becomes.
LEMMA AnswerMoves ==
  ASSUME IInv, NEW b \in Atom, NEW v, ans' = [ans EXCEPT ![b] = v],
         v \in {"marked", "uncond"} \/ ~Unconditional(b)
  PROVE  \A a \in Atom : Unconditional(a) => Unconditional(a)'
BY DEF IInv, Types, TableTypes, Unconditional

\* RemoveDL deletes an answer that has a delay list.
LEMMA DeletedIs ==
  ASSUME IInv, NEW l \in Literal, RemoveDL(l)
  PROVE  \A a \in Atom : Unconditional(a) => Unconditional(a)'
<1>1. PICK d, b : d = Head(pnde[l]) /\ b = dl[d].asl
  OBVIOUS
<1>2. pnde[l] # <<>> /\ (ans' = ans \/ ans' = [ans EXCEPT ![b] = "deleted"])
  BY <1>1 DEF RemoveDL
<1>3. Types /\ Indexes
  BY DEF IInv
<1>4. d \in DOMAIN dl
  <2>1. \E u \in Seq(1 .. MaxDL) : u = pnde[l] /\ Head(u) \in Holders(l)
    BY <1>2, <1>3, FirstHolder
  <2> QED BY <1>1, <2>1 DEF Holders
<1>5. b \in Atom /\ d \in DLsOf(b)
  BY <1>1, <1>3, <1>4 DEF Types, TableTypes, DelayList, DLsOf
<1>6. ~Unconditional(b)
  BY <1>3, <1>5 DEF Indexes, Unconditional
<1> QED BY <1>2, <1>5, <1>6, AnswerMoves DEF Unconditional

\* The tag of an unconditional answer, and the mark of a completed subgoal, stay.
SettledKept ==
  /\ \A a \in Atom : Unconditional(a) => Unconditional(a)'
  /\ \A s \in Subgoal : Completed(s) => Completed(s)'

LEMMA TagsAreKept == ASSUME IInv, [Next]_vars PROVE SettledKept
<1>1. ASSUME ans' = ans PROVE \A a \in Atom : Unconditional(a) => Unconditional(a)'
  BY <1>1 DEF Unconditional
<1>2. ASSUME status' = status PROVE \A s \in Subgoal : Completed(s) => Completed(s)'
  BY <1>2 DEF Completed
<1>3. ASSUME NEW s \in Subgoal, NEW v, v \in {"incomplete", "complete"},
             status' = [status EXCEPT ![s] = v], v = "complete" \/ status[s] = "new"
      PROVE  \A r \in Subgoal : Completed(r) => Completed(r)'
  BY <1>3 DEF Completed, IInv, Types, TableTypes
<1>4. CASE UNCHANGED vars
  BY <1>1, <1>2, <1>4 DEF vars, tables, SettledKept
<1>5. ASSUME NEW k \in conts, CallNew(k) PROVE SettledKept
  <2>1. /\ Active(k) /\ ~AtEnd(k) /\ status[Callee(k)] = "new" /\ ans' = ans
        /\ status' = [status EXCEPT ![Callee(k)] = "incomplete"]
    BY <1>5 DEF CallNew, tables
  <2>2. Callee(k) \in Subgoal
    BY <2>1, ActiveIs, Environment
  <2> QED BY <1>1, <1>3, <2>1, <2>2 DEF SettledKept
<1>6. ASSUME NEW k \in conts, ConditionalAnswer(k) PROVE SettledKept
  <2>1. PICK a : a = k.c.head
    OBVIOUS
  <2>2. /\ Active(k) /\ ~(Has(a) /\ Unconditional(a)) /\ ans' = [ans EXCEPT ![a] = "cond"]
        /\ status' = status
    BY <1>6, <2>1 DEF ConditionalAnswer
  <2>3. a \in Atom /\ (Unconditional(a) => Has(a))
    BY <2>1, <2>2, Derives
  <2> QED BY <1>2, <2>2, <2>3, AnswerMoves DEF SettledKept
<1>7. ASSUME NEW k \in conts, UnconditionalAnswer(k) \/ BecomesUnconditional(k) PROVE SettledKept
  <2>1. PICK a : a = k.c.head
    OBVIOUS
  <2>2. /\ Active(k) /\ status' = status
        /\ ans' = [ans EXCEPT ![a] = "uncond"] \/ ans' = [ans EXCEPT ![a] = "marked"]
    BY <1>7, <2>1 DEF UnconditionalAnswer, BecomesUnconditional, Mark
  <2>3. a \in Atom
    BY <2>1, <2>2, Derives
  <2> QED BY <1>2, <2>2, <2>3, AnswerMoves DEF SettledKept
<1>8. CASE CompleteFrame
  <2>1. In("complete") /\ Top.on # <<>> /\ ans' = ans /\ status' = [status EXCEPT ![Head(Top.on)] = "complete"]
    BY <1>8 DEF CompleteFrame, tables
  <2>2. Top.on \in Seq(Subgoal)
    BY <2>1, CompletingIs DEF In
  <2>3. Head(Top.on) \in Subgoal
    BY <2>1, <2>2, HeadAndTail
  <2> QED BY <1>1, <1>3, <2>1, <2>3 DEF SettledKept
<1>9. CASE EarlyCompletion
  <2>1. ans' = ans /\ (status' = status \/ status' = [status EXCEPT ![Top.on] = "complete"]) /\ In("early")
    BY <1>9 DEF EarlyCompletion, tables
  <2>2. Top.on \in Subgoal
    BY <2>1, TopIs, CallIs DEF In
  <2> QED BY <1>1, <1>2, <1>3, <2>1, <2>2 DEF SettledKept
<1>10. ASSUME NEW l \in Literal, RemoveDE(l) PROVE SettledKept
  <2>1. PICK b : b = dl[Head(pnde[l])].asl
    OBVIOUS
  <2>2. status' = status /\ (ans' = ans \/ ans' = [ans EXCEPT ![b] = "marked"])
    BY <1>10, <2>1 DEF RemoveDE, Mark
  <2> QED BY <1>1, <1>2, <2>2 DEF SettledKept, Unconditional, IInv, Types, TableTypes
<1>11. ASSUME NEW l \in Literal, RemoveDL(l) PROVE SettledKept
  BY <1>2, <1>11, DeletedIs DEF SettledKept, RemoveDL
<1>12. CASE PosUnconditional \/ PosUnsupported \/ NegSucceeds \/ NegFails
  <2>1. PICK c \in CallTypes : c = Top
    BY <1>12, TopIs DEF PosUnconditional, PosUnsupported, NegSucceeds, NegFails, In
  <2>2. CASE PosUnconditional \/ PosUnsupported
    BY <1>10, <1>11, <2>1, <2>2, CallIs, Atoms DEF PosUnconditional, PosUnsupported, In
  <2>3. CASE NegSucceeds \/ NegFails
    BY <1>10, <1>11, <2>1, <2>3, CallIs, Atoms DEF NegSucceeds, NegFails, NDEs, In
  <2> QED BY <1>12, <2>2, <2>3
<1>13. CASE EndPosUnconditional
  <2>1. In("pos_unconditional") /\ ans' = [ans EXCEPT ![Top.on] = "uncond"] /\ status' = status
    BY <1>13 DEF EndPosUnconditional
  <2>2. Top.on \in Atom
    BY <2>1, TopIs, CallIs DEF In
  <2> QED BY <1>2, <2>1, <2>2, AnswerMoves DEF SettledKept
<1>14. ASSUME NEW a \in Atom, ForceFalse(a) PROVE SettledKept
  BY <1>2, <1>14, AnswerMoves DEF SettledKept, ForceFalse
<1>15. ASSUME NEW k \in conts,
              \/ CallIncomplete(k) \/ Return(k) \/ Exhausted(k) \/ SlgNot(k) \/ RejectAnswer(k)
              \/ AnswerCompletion(k)
       PROVE  SettledKept
  <2>1. ans' = ans /\ status' = status
    BY <1>15 DEF CallIncomplete, Return, Exhausted, SlgNot, RejectAnswer, AnswerCompletion, tables
  <2> QED BY <1>1, <1>2, <2>1 DEF SettledKept
<1>16. CASE \/ DelayAll \/ StartCompletion \/ EndCompletion \/ EndNegSucceeds \/ EndPosUnsupported
            \/ Unsupported \/ StartNegFails \/ EndNegFails \/ MarkSubgoalFailed \/ EndAnswerCompletion
  <2>1. ans' = ans /\ status' = status
    BY <1>16 DEF DelayAll, StartCompletion, EndCompletion, EndNegSucceeds, EndPosUnsupported, Unsupported,
       StartNegFails, EndNegFails, MarkSubgoalFailed, EndAnswerCompletion, tables
  <2> QED BY <1>1, <1>2, <2>1 DEF SettledKept
<1> QED BY <1>4, <1>5, <1>6, <1>7, <1>8, <1>9, <1>12, <1>13, <1>14, <1>15, <1>16 DEF Next

\* Callers of a subgoal, which go through its answer trie, find a as unconditional.
Found(a) == Has(a) /\ Unconditional(a)

\* What is settled stays so for those who ask: neither another derivation of the answer
\* with delays, nor the deletion of an answer that loses its last delay list, takes an
\* unconditional answer or a completed subgoal away from callers.  Only
\* mark_subgoal_failed does, and then it takes the answers of one subgoal together,
\* when answer completion has found one of them false (force_answer_false).
Stays ==
  /\ \A a \in Atom : Found(a) => Found(a)' \/ (MarkSubgoalFailed /\ a[1] = Top.on)
  /\ \A s \in Subgoal : Completed(s) => Completed(s)'
SettledStays == [][Stays]_vars

THEOREM WhatIsSettledStays == Spec => SettledStays
<1>1. ASSUME IInv, [Next]_vars PROVE [Stays]_vars
  <2>1. SettledKept
    BY <1>1, TagsAreKept
  <2>2. MarkSubgoalFailed \/ rootless' = rootless
    <3>1. ASSUME NEW k \in conts,
                 \/ CallNew(k) \/ CallIncomplete(k) \/ Return(k) \/ Exhausted(k) \/ SlgNot(k)
                 \/ RejectAnswer(k) \/ ConditionalAnswer(k) \/ UnconditionalAnswer(k)
                 \/ BecomesUnconditional(k) \/ AnswerCompletion(k)
          PROVE  rootless' = rootless
      BY <3>1 DEF CallNew, CallIncomplete, Return, Exhausted, SlgNot, RejectAnswer, ConditionalAnswer,
         UnconditionalAnswer, BecomesUnconditional, AnswerCompletion, tables
    <3>2. ASSUME \/ DelayAll \/ StartCompletion \/ CompleteFrame \/ EndCompletion
                 \/ EndPosUnconditional \/ EarlyCompletion \/ EndNegSucceeds \/ EndPosUnsupported
                 \/ Unsupported \/ StartNegFails \/ EndNegFails \/ EndAnswerCompletion
          PROVE  rootless' = rootless
      BY <3>2 DEF DelayAll, StartCompletion, CompleteFrame, EndCompletion, EndPosUnconditional,
         EarlyCompletion, EndNegSucceeds, EndPosUnsupported, Unsupported, StartNegFails, EndNegFails,
         EndAnswerCompletion, tables
    <3>3. ASSUME \/ PosUnconditional \/ NegSucceeds \/ PosUnsupported \/ NegFails
                 \/ \E a \in Atom : ForceFalse(a)
          PROVE  rootless' = rootless
      BY <3>3 DEF PosUnconditional, NegSucceeds, PosUnsupported, NegFails, RemoveDE, RemoveDL, ForceFalse
    <3>4. CASE UNCHANGED vars
      BY <3>4 DEF vars, tables
    <3> QED BY <1>1, <3>1, <3>2, <3>3, <3>4 DEF Next
  <2>3. CASE rootless' = rootless
    BY <2>1, <2>3 DEF SettledKept, Stays, Found, Has, Unconditional
  <2>4. CASE MarkSubgoalFailed
    <3>1. rootless' = rootless \cup {Top.on} /\ ans' = ans
      BY <2>4 DEF MarkSubgoalFailed
    <3> QED BY <2>1, <2>4, <3>1 DEF SettledKept, Stays, Found, Has, Unconditional
  <2> QED BY <2>2, <2>3, <2>4
<1> QED BY <1>1, Invariant, PTL DEF Spec, SettledStays

\* Between two steps of clause resolution, a table that has been reclaimed, forgotten or
\* marked to be answer completed is completed and no environment evaluates a clause of
\* it: mark_subgoal_failed takes no answer trie away that new_answer_dealloc adds to.
ReclaimedWhenDone ==
  calls = <<>> => \A s \in Subgoal :
    s \in rootless \cup needsAC \/ answers[s] # "list" => Completed(s) /\ \A k \in conts : Root(k) # s

THEOREM ReclaimedTablesAreDone == Spec => []ReclaimedWhenDone
<1>1. IInv => ReclaimedWhenDone
  <2> SUFFICES ASSUME IInv, calls = <<>>, NEW s \in Subgoal, s \in rootless \cup needsAC \/ answers[s] # "list"
               PROVE  Completed(s) /\ \A k \in conts : Root(k) # s
    BY DEF ReclaimedWhenDone
  <2>1. Settled(s)
    BY Kept
  <2>2. Done(s)
    BY <2>1 DEF Settled, Completing
  <2>3. \A k \in conts : OnStack(Root(k))
    BY Kept DEF EnvironmentFits
  <2> QED BY <2>2, <2>3 DEF Done
<1> QED BY <1>1, Invariant, PTL

-----------------------------------------------------------------------------
(* Without answer completion, simplification leaves nothing undone.  The     *)
(* literals of a list are of the SCC of its answer or of tables that are     *)
(* done.  Every settled literal has a call that will remove it, and while    *)
(* clauses are resolved nothing but an early completion can settle one: an   *)
(* SCC whose literals have been delayed has a set X of subgoals that only    *)
(* support each other, or answers that stay conditional.                     *)

Lists      == {dl[d] : d \in DOMAIN dl}
Doing(op, x) == Call(op, x) \in Range(calls)
Gone(s)    == Completing /\ InTop(s)

\* What has been delayed for an answer of r.
Near(r, l) == (Done(l.of[1]) \/ Mate(r, l.of[1])) /\ (l.neg => l.of = <<l.of[1], 0>>)
Nearby ==
  /\ \A k \in conts : \A l \in k.delays : Near(Root(k), l)
  /\ \A e \in Lists : \A l \in e.des : Near(e.asl[1], l)

\* The calls are about subgoals of the topmost SCC.
Subject(c) == IF c.op \in {"pos_unconditional", "pos_unsupported", "unsupported"} THEN c.on[1] ELSE c.on
CallsInTop ==
  /\ rootless = {}
  /\ \A c \in Range(calls) : c.op \notin {"ac", "failed"} /\ (c.op # "complete" => InTop(Subject(c)))
  /\ \A s \in Range(deferred) : InTop(s)
  /\ deferred # <<>> => \E c \in Range(calls) : c.op = "neg_fails_loop"

\* A literal that no call is going to remove unless its SCC is completed.
Firm(X, r, l) ==
  \/ ans[l.of] = "cond" /\ Done(l.of[1])
  \/ /\ l.of[1] \in X /\ Mate(r, l.of[1])
     /\ IF l.neg THEN ~Unconditional(l.of) ELSE ans[l.of] = "cond"

\* No answer without delays comes of k.
Blocked(X, k) ==
  \/ \E l \in k.delays : Firm(X, Root(k), l)
  \/ /\ ~AtEnd(k) /\ Callee(k) \in X /\ Mate(Root(k), Callee(k))
     /\ IF Lit(k).neg THEN k.st = "resumed" ELSE k.st = "wait" /\ ~Unconditional(Lit(k).of)

Supported(X, e) ==
  /\ e.asl[1] \in X => \E l \in e.des : Firm(X, e.asl[1], l)
  /\ \A l \in e.des : l.neg => Gone(l.of[1]) \/ Firm(X, e.asl[1], l)
Stuck(X, k) ==
  /\ Root(k) \in X => Blocked(X, k)
  /\ \A l \in k.delays : l.neg => Gone(l.of[1]) \/ Firm(X, Root(k), l)
  /\ k.st = "resumed" => /\ ~AtEnd(k) /\ Lit(k).neg
                         /\ Done(Callee(k)) \/ Gone(Callee(k)) \/ Callee(k) \in X
Unsettled(X) ==
  /\ \A s \in X : status[s] = "incomplete" /\ ~Gone(s)
  /\ \A k \in conts : Stuck(X, k)
  /\ \A e \in Lists : Supported(X, e)
Undecided(X) ==
  /\ Unsettled(X)
  /\ ~Completing => \A c \in Range(calls) : /\ c.op \in {"pos_unconditional", "early", "neg_succeeds"}
                                            /\ Subject(c) \notin X

\* A call is going to remove what is settled.
Pending(l) ==
  IF l.neg
  THEN /\ Unconditional(l.of) => Doing("neg_succeeds", l.of[1])
       /\ Completed(l.of[1]) /\ SubgoalFails(l.of[1]) =>
            \/ Doing("neg_fails", l.of[1]) \/ Doing("neg_fails_loop", l.of[1])
            \/ Doing("unsupported", l.of) \/ l.of[1] \in Range(deferred)
  ELSE \/ ans[l.of] = "cond"
       \/ Unconditional(l.of) /\ Doing("pos_unconditional", l.of)
       \/ ans[l.of] = "deleted" /\ Doing("pos_unsupported", l.of)
AllPending ==
  /\ \A e \in Lists : \A l \in e.des : Pending(l)
  /\ \A a \in Atom : ans[a] = "marked" => Doing("pos_unconditional", a)

\* The tag of a table that is done, and what is found of a deleted answer.
TagIs(s) == IF Unconditional(<<s, 0>>) THEN "uncond" ELSE IF ans[<<s, 0>>] = "cond" THEN "cond" ELSE "no"
Tags ==
  /\ \A s \in Subgoal : Done(s) => answers[s] # "list" /\ (<<s, 0>> \in Atom => answers[s] = TagIs(s))
  /\ \A a \in Atom : ans[a] = "deleted" => answers[a[1]] # "list" \/ Gone(a[1])
  /\ \A k \in conts : \A l \in k.delays : l.neg \/ ans[l.of] \in {"cond", "marked", "uncond"} \/ Gone(l.of[1])

JInv == Nearby /\ CallsInTop /\ (\E X \in SUBSET Subgoal : Undecided(X)) /\ AllPending /\ Tags

\* Answer completion has begun and has not made an answer false yet, and it has.
Paused ==
  In("ac") /\ rootless = {} /\ deferred = <<>> /\ Nearby /\ (\E X \in SUBSET Subgoal : Unsettled(X))
    /\ AllPending /\ Tags
Forced == rootless # {} \/ \E c \in Range(calls) : c.op = "failed"

\* The SCCs are disjoint.
LEMMA Mates ==
  ASSUME IInv
  PROVE  /\ \A r, s : Mate(r, s) => (InTop(r) <=> InTop(s))
         /\ \A r, s : InTop(r) /\ InTop(s) => Mate(r, s)
         /\ \A s : InTop(s) => OnStack(s) /\ ~Done(s) /\ s \in Subgoal
         /\ \A r, s : InTop(r) /\ NotBelow(r, s) => Done(s) \/ InTop(s)
<1>1. /\ \A i, j \in DOMAIN sccs : \A s \in Range(sccs[i]) : s \in Range(sccs[j]) => i = j
      /\ sccs \in Seq(Seq(Subgoal))
  BY DEF IInv, Frames, Types, TableTypes
<1>2. PICK n : n = Len(sccs)
  OBVIOUS
<1>3. n \in Nat /\ DOMAIN sccs = 1 .. n /\ Last(sccs) = sccs[n] /\ (sccs # <<>> => n \in 1 .. n)
  BY <1>1, <1>2 DEF Last
<1>4. \A s : InTop(s) <=> n \in DOMAIN sccs /\ s \in Range(sccs[n])
  BY <1>3 DEF InTop
<1>5. \A r, s : Mate(r, s) => (InTop(r) <=> InTop(s))
  BY <1>1, <1>4 DEF Mate
<1>6. \A r, s : InTop(r) /\ InTop(s) => Mate(r, s)
  BY <1>4 DEF Mate
<1>7. \A s : InTop(s) => OnStack(s) /\ ~Done(s)
  BY <1>4 DEF OnStack, Done
<1>8. ASSUME NEW r, NEW s, InTop(r), NotBelow(r, s) PROVE Done(s) \/ InTop(s)
  <2> SUFFICES ASSUME NEW i \in DOMAIN sccs, NEW j \in DOMAIN sccs, i <= j,
                      r \in Range(sccs[i]), s \in Range(sccs[j])
               PROVE  InTop(s)
    BY <1>8 DEF NotBelow
  <2>1. i = n
    BY <1>1, <1>4, <1>8
  <2>2. j = n
    BY <1>3, <2>1
  <2> QED BY <1>4, <2>2
<1>9. \A s : InTop(s) => s \in Subgoal
  BY <1>1, <1>4 DEF Range
<1> QED BY <1>5, <1>6, <1>7, <1>8, <1>9

\* What the other conjuncts say of the literals in lists and environments.
LEMMA Held ==
  ASSUME IInv
  PROVE  /\ \A e \in Lists : e \in DelayList /\ e.asl \in Atom /\ e.des \subseteq Literal /\ e.asl[1] \in Subgoal
                             /\ ans[e.asl] = "cond" /\ e.des # {}
         /\ \A k \in conts : k \in Continuation /\ k.delays \subseteq Literal /\ Root(k) \in Subgoal /\ OnStack(Root(k))
         /\ \A l \in Literal : (\E e \in Lists : l \in e.des) <=> pnde[l] # <<>>
<1>1. /\ \A d \in DOMAIN dl : dl[d] \in DelayList /\ dl[d].des # {}
      /\ \A a \in Atom : ans[a] = "cond" <=> DLsOf(a) # {}
  BY DEF IInv, Types, TableTypes, Indexes
<1>2. ASSUME NEW e \in Lists
      PROVE  e \in DelayList /\ e.asl \in Atom /\ e.des \subseteq Literal /\ e.asl[1] \in Subgoal
             /\ ans[e.asl] = "cond" /\ e.des # {}
  <2>1. PICK d \in DOMAIN dl : e = dl[d]
    BY DEF Lists
  <2>2. e \in DelayList /\ e.des # {}
    BY <1>1, <2>1
  <2>3. e.asl \in Atom /\ e.des \subseteq Literal
    BY <2>2 DEF DelayList
  <2>4. d \in DLsOf(e.asl)
    BY <2>1 DEF DLsOf
  <2> QED BY <1>1, <2>2, <2>3, <2>4, Atoms
<1>3. ASSUME NEW k \in conts
      PROVE  k \in Continuation /\ k.delays \subseteq Literal /\ Root(k) \in Subgoal /\ OnStack(Root(k))
  <2>1. k \in Continuation /\ EnvironmentFits(k) /\ prog \in Programs
    BY Kept DEF TableTypes
  <2> QED BY <2>1, Environment DEF EnvironmentFits
<1>4. ASSUME NEW l \in Literal PROVE (\E e \in Lists : l \in e.des) <=> pnde[l] # <<>>
  <2>1. PICK u : u = pnde[l]
    OBVIOUS
  <2>2. u \in Seq(1 .. MaxDL) /\ Range(u) = Holders(l)
    BY <2>1 DEF IInv, Indexes, Types, TableTypes
  <2>3. u = <<>> <=> Range(u) = {}
    BY <2>2 DEF Range
  <2>4. (\E e \in Lists : l \in e.des) <=> Holders(l) # {}
    BY DEF Lists, Holders
  <2> QED BY <2>1, <2>2, <2>3, <2>4
<1> QED BY <1>2, <1>3, <1>4

\* A ground subgoal has one answer.
LEMMA Ground ==
  ASSUME IInv, CallsInTop, NEW s, <<s, 0>> \in Atom
  PROVE  /\ Of(s) = {<<s, 0>>}
         /\ SubgoalFails(s) <=> ans[<<s, 0>>] \notin {"cond", "marked", "uncond"}
         /\ \A a \in Atom : a[1] = s => a = <<s, 0>>
<1>1. \A a \in Atom : a[1] = s => a = <<s, 0>>
  BY Atoms
<1>2. Of(s) = {<<s, 0>>}
  BY <1>1 DEF Of
<1>3. Has(<<s, 0>>) <=> ans[<<s, 0>>] \in {"cond", "marked", "uncond"}
  BY DEF CallsInTop, Has
<1> QED BY <1>1, <1>2, <1>3 DEF SubgoalFails

\* A step that settles no literal of X or of what is done, and does not split an SCC.
Moves(X) ==
  /\ \A s \in Subgoal : (Done(s) => Done(s)') /\ (Gone(s) => Gone(s)')
  /\ \A r, s : Mate(r, s) => Mate(r, s)'
  /\ \A a \in Atom : \/ ans'[a] = ans[a] \/ ans'[a] = "cond" \/ Unconditional(a)
                     \/ ~Done(a[1]) /\ a[1] \notin X

LEMMA FirmStays ==
  ASSUME NEW X, Moves(X)
  PROVE  /\ \A l \in Literal : \A r : Firm(X, r, l) => Firm(X, r, l)'
         /\ \A a \in Atom : a[1] \in X /\ ~Unconditional(a) => ~Unconditional(a)'
<1>1. ASSUME NEW l \in Literal, NEW r, Firm(X, r, l) PROVE Firm(X, r, l)'
  <2>1. l.of \in Atom /\ l.of[1] \in Subgoal
    BY Atoms
  <2>2. /\ Done(l.of[1]) => Done(l.of[1])'
        /\ Mate(r, l.of[1]) => Mate(r, l.of[1])'
        /\ \/ ans'[l.of] = ans[l.of] \/ ans'[l.of] = "cond" \/ Unconditional(l.of)
           \/ ~Done(l.of[1]) /\ l.of[1] \notin X
    BY <2>1 DEF Moves
  <2> QED BY <1>1, <2>2 DEF Firm, Unconditional
<1>2. \A a \in Atom : a[1] \in X /\ ~Unconditional(a) => ~Unconditional(a)'
  BY DEF Moves, Unconditional
<1> QED BY <1>1, <1>2

LEMMA StuckStays ==
  ASSUME IInv, NEW X, Moves(X), NEW k \in conts, Stuck(X, k)
  PROVE  Stuck(X, k)'
<1>1. k \in Continuation /\ k.delays \subseteq Literal /\ prog \in Programs
  BY Held DEF IInv, Types, TableTypes
<1>2. ~AtEnd(k) => Lit(k) \in Literal /\ Callee(k) \in Subgoal /\ Callee(k) = Lit(k).of[1]
  BY <1>1, Environment
<1>3. /\ \A l \in k.delays : \A r : Firm(X, r, l) => Firm(X, r, l)'
      /\ \A a \in Atom : a[1] \in X /\ ~Unconditional(a) => ~Unconditional(a)'
  BY <1>1, FirmStays
<1>4. Blocked(X, k) => Blocked(X, k)'
  <2>1. ~AtEnd(k) => Lit(k).of \in Atom /\ Lit(k).of[1] \in Subgoal
    BY <1>2, Atoms
  <2>2. \A r, s : Mate(r, s) => Mate(r, s)'
    BY DEF Moves
  <2> QED BY <1>2, <1>3, <2>1, <2>2 DEF Blocked
<1>5. \A l \in k.delays : Gone(l.of[1]) => Gone(l.of[1])'
  <2>1. \A l \in k.delays : l.of[1] \in Subgoal
    BY <1>1, Atoms
  <2> QED BY <2>1 DEF Moves
<1>6. ~AtEnd(k) => (Done(Callee(k)) => Done(Callee(k))') /\ (Gone(Callee(k)) => Gone(Callee(k))')
  BY <1>2 DEF Moves
<1> QED BY <1>3, <1>4, <1>5, <1>6 DEF Stuck

LEMMA SupportedStays ==
  ASSUME IInv, NEW X, Moves(X), NEW e \in Lists, Supported(X, e),
         NEW f, NEW m, f.asl = e.asl, f.des \subseteq e.des, e.des \subseteq f.des \cup {m},
         f = e \/ \A r : ~Firm(X, r, m)
  PROVE  Supported(X, f)'
<1>1. e.des \subseteq Literal
  BY Held
<1>2. \A l \in e.des : \A r : Firm(X, r, l) => Firm(X, r, l)'
  BY <1>1, FirmStays
<1>3. \A l \in e.des : Gone(l.of[1]) => Gone(l.of[1])'
  <2>1. \A l \in e.des : l.of[1] \in Subgoal
    BY <1>1, Atoms
  <2> QED BY <2>1 DEF Moves
<1> QED BY <1>2, <1>3 DEF Supported

\* The stack and the environments stay, or some end; X is what it was.
LEMMA UndecidedStays ==
  ASSUME IInv, NEW X \in SUBSET Subgoal, Undecided(X), sccs' = sccs, conts' \subseteq conts,
         Completing' <=> Completing,
         \A s \in Subgoal : status'[s] = status[s] \/ (status'[s] = "complete" /\ s \notin X),
         \A a \in Atom : \/ ans'[a] = ans[a] \/ ans'[a] = "cond" \/ Unconditional(a)
                         \/ ~Done(a[1]) /\ a[1] \notin X,
         NEW m,
         \A f \in Lists' : \/ f \in Lists \/ (Moves(X) => Supported(X, f)')
                           \/ \E e \in Lists : /\ f.asl = e.asl /\ f.des \subseteq e.des
                                               /\ e.des \subseteq f.des \cup {m} /\ \A r : ~Firm(X, r, m),
         ~Completing => \A c \in Range(calls)' : /\ c.op \in {"pos_unconditional", "early", "neg_succeeds"}
                                                 /\ Subject(c) \notin X
  PROVE  Undecided(X)' /\ Moves(X)
<1>1. \A s \in Subgoal : Completed(s) => Completed(s)'
  BY DEF Completed
<1>2. /\ \A s : (OnStack(s)' <=> OnStack(s)) /\ (InTop(s)' <=> InTop(s))
      /\ \A s \in Subgoal : Done(s) => Done(s)'
  BY <1>1, StackSame
<1>3. \A s : Gone(s)' <=> Gone(s)
  BY <1>2 DEF Gone
<1>4. \A r, s : Mate(r, s)' <=> Mate(r, s)
  BY DEF Mate
<1>5. Moves(X)
  BY <1>2, <1>3, <1>4 DEF Moves
<1>6. \A k \in conts' : Stuck(X, k)'
  BY <1>5, StuckStays DEF Undecided, Unsettled
<1>7. \A f \in Lists' : Supported(X, f)'
  BY <1>5, SupportedStays DEF Undecided, Unsettled
<1>8. \A s \in X : status'[s] = "incomplete" /\ ~Gone(s)'
  BY <1>3 DEF Undecided, Unsettled
<1> QED BY <1>5, <1>6, <1>7, <1>8 DEF Undecided, Unsettled

\* Only the stack and the environments change: an environment of conts' is an old one
\* or is stuck if it has to be.
LEMMA UndecidedMoves ==
  ASSUME IInv, NEW X \in SUBSET Subgoal, Undecided(X), calls = <<>>, UNCHANGED <<tables, calls>>,
         \A s \in Subgoal : Done(s) => Done(s)',
         \A r, s : Mate(r, s) => Mate(r, s)',
         \A s \in X : status'[s] = status[s],
         \A m \in conts' : m \in conts \/ (Moves(X) => Stuck(X, m)')
  PROVE  Undecided(X)' /\ Moves(X)
<1>1. ~Completing /\ ~Completing' /\ ans' = ans /\ dl' = dl /\ calls' = <<>>
  BY DEF Completing, tables
<1>2. \A s : ~Gone(s) /\ ~Gone(s)'
  BY <1>1 DEF Gone
<1>3. Moves(X)
  BY <1>1, <1>2 DEF Moves
<1>4. \A k \in conts' : Stuck(X, k)'
  BY <1>3, StuckStays DEF Undecided, Unsettled
<1>5. Lists' = Lists
  BY <1>1 DEF Lists
<1>6. \A f \in Lists' : Supported(X, f)'
  <2>1. \A f \in Lists : \A l \in f.des : \A r : Firm(X, r, l) => Firm(X, r, l)'
    BY <1>3, Held, FirmStays
  <2> QED BY <1>2, <1>5, <2>1 DEF Undecided, Unsettled, Supported
<1>7. \A s \in X : status'[s] = "incomplete"
  BY DEF Undecided, Unsettled
<1>8. \A c : c \notin Range(calls)'
  BY <1>1 DEF Range
<1> QED BY <1>2, <1>3, <1>4, <1>6, <1>7, <1>8 DEF Undecided, Unsettled

\* Clause resolution without an answer.
LEMMA Resolution ==
  ASSUME IInv, JInv, calls = <<>>, UNCHANGED <<tables, calls>>,
         \A s \in Subgoal : (Done(s)' <=> Done(s)) /\ (Completed(s)' <=> Completed(s)),
         \A r, s : Mate(r, s) => Mate(r, s)',
         NEW X \in SUBSET Subgoal, Undecided(X)',
         \A m \in conts' : \/ m \in conts
                           \/ \A l \in m.delays : /\ l \in Literal /\ Near(Root(m), l)
                                                  /\ l.neg \/ ans[l.of] \in {"cond", "marked", "uncond"}
  PROVE  JInv'
<1>1. /\ UNCHANGED <<ans, rootless, answers, dl, pnde, needsAC, deferred>>
      /\ ~Completing /\ ~Completing' /\ calls' = <<>>
  BY DEF Completing, tables
<1>2. /\ \A s : ~Gone(s) /\ ~Gone(s)'
      /\ Lists' = Lists
  BY <1>1 DEF Gone, Lists
<1>3. \A r : \A l \in Literal : Near(r, l) => Near(r, l)'
  <2>1. \A l \in Literal : l.of[1] \in Subgoal
    BY Atoms
  <2> QED BY <2>1 DEF Near
<1>4. Nearby'
  <2>1. \A e \in Lists : e.des \subseteq Literal
    BY Held
  <2>2. \A k \in conts : k.delays \subseteq Literal
    BY Held
  <2> QED BY <1>2, <1>3, <2>1, <2>2 DEF JInv, Nearby
<1>5. \A c : c \notin Range(calls) /\ c \notin Range(calls)'
  BY <1>1 DEF Range
<1>6. deferred = <<>>
  BY <1>5 DEF JInv, CallsInTop
<1>7. CallsInTop'
  <2>1. rootless' = {} /\ deferred' = <<>> /\ \A s : s \notin Range(deferred)'
    BY <1>1, <1>6 DEF JInv, CallsInTop, Range
  <2> QED BY <1>5, <2>1 DEF CallsInTop
<1>8. AllPending'
  <2>1. ASSUME NEW e \in Lists, NEW l \in e.des PROVE Pending(l)'
    <3>1. l.of \in Atom /\ l.of[1] \in Subgoal /\ Pending(l)
      BY <2>1, Held, Atoms DEF JInv, AllPending
    <3>2. SubgoalFails(l.of[1])' <=> SubgoalFails(l.of[1])
      BY <1>1 DEF SubgoalFails, Has
    <3> QED BY <1>1, <3>1, <3>2 DEF Pending, Doing, Unconditional
  <2> QED BY <1>1, <1>2, <2>1 DEF JInv, AllPending, Doing
<1>9. Tags'
  <2>1. \A s \in Subgoal : TagIs(s)' = TagIs(s)
    BY <1>1 DEF TagIs, Unconditional
  <2> QED BY <1>1, <1>2, <2>1 DEF JInv, Tags
<1> QED BY <1>4, <1>7, <1>8, <1>9 DEF JInv

\* What an environment that is evaluated knows of what it calls.
LEMMA Calling ==
  ASSUME IInv, JInv, NEW k \in conts, Active(k)
  PROVE  /\ calls = <<>> /\ ~Completing /\ InTop(Root(k)) /\ Root(k) \in Subgoal /\ ~Done(Root(k))
         /\ k \in Continuation /\ k.delays \subseteq Literal
         /\ \A s : ~Gone(s)
         /\ \A s \in Subgoal : Completed(s) => Done(s) \/ (<<s, 0>> \in Atom /\ Unconditional(<<s, 0>>))
         /\ \A s \in Subgoal : ~Done(s) => answers[s] = "list"
         /\ ~AtEnd(k) => /\ Lit(k) \in Literal /\ Lit(k).of \in Atom /\ Callee(k) \in Subgoal /\ Callee(k) = Lit(k).of[1]
                         /\ Lit(k).neg => Lit(k).of = <<Callee(k), 0>>
                         /\ k.st # "run" => Done(Callee(k)) \/ Mate(Root(k), Callee(k))
<1>1. /\ calls = <<>> /\ InTop(Root(k)) /\ k \in Continuation /\ prog \in Programs
      /\ EnvironmentFits(k) /\ Root(k) \in Subgoal
      /\ \A s \in Subgoal : Settled(s) => Done(s)
  BY ActiveIs
<1>2. ~Completing /\ \A s : ~Gone(s)
  BY <1>1 DEF Completing, Gone
<1>3. k.delays \subseteq Literal /\ ~Done(Root(k))
  BY <1>1, Held, Mates
<1>4. \A s \in Subgoal : Completed(s) => Done(s) \/ (<<s, 0>> \in Atom /\ Unconditional(<<s, 0>>))
  BY <1>1 DEF IInv, Tables
<1>5. \A s \in Subgoal : ~Done(s) => answers[s] = "list"
  BY <1>1, Kept
<1>6. ASSUME ~AtEnd(k)
      PROVE  /\ Lit(k) \in Literal /\ Lit(k).of \in Atom /\ Callee(k) \in Subgoal /\ Callee(k) = Lit(k).of[1]
             /\ Lit(k).neg => Lit(k).of = <<Callee(k), 0>>
             /\ k.st # "run" => Done(Callee(k)) \/ Mate(Root(k), Callee(k))
  <2>1. /\ Lit(k) \in Literal /\ Callee(k) \in Subgoal /\ Callee(k) = Lit(k).of[1]
        /\ Lit(k).neg => Lit(k).of = <<Callee(k), 0>>
    BY <1>1, <1>6, Environment
  <2>2. Lit(k).of \in Atom
    BY <2>1, Atoms
  <2>3. k.st # "run" => NotBelow(Root(k), Callee(k))
    BY <1>1, <1>6 DEF EnvironmentFits
  <2> QED BY <1>1, <2>1, <2>2, <2>3, Mates
<1> QED BY <1>1, <1>2, <1>3, <1>4, <1>5, <1>6

\* The environment goes on, or comes to an end.
LEMMA Continues ==
  ASSUME IInv, JInv, NEW k \in conts, Active(k), NEW new, Becomes(k, new),
         UNCHANGED <<prog, wfm, status, sccs, tables, calls>>,
         NEW D \in SUBSET {Lit(k)},
         new # {} =>
           /\ ~AtEnd(k) /\ new = {Next1(k, D)}
           /\ D # {} => /\ Near(Root(k), Lit(k))
                        /\ Lit(k).neg \/ ans[Lit(k).of] \in {"cond", "marked", "uncond"}
           /\ \A X \in SUBSET Subgoal : Undecided(X) =>
                /\ D # {} /\ Lit(k).neg => Firm(X, Root(k), Lit(k))
                /\ Root(k) \in X => Blocked(X, Next1(k, D))
  PROVE  JInv'
<1>1. PICK X \in SUBSET Subgoal : Undecided(X)
  BY DEF JInv
<1>2. /\ calls = <<>> /\ UNCHANGED <<tables, calls>> /\ conts' = (conts \ {k}) \cup new /\ k.delays \subseteq Literal
      /\ k \in Continuation
      /\ ~AtEnd(k) => Lit(k) \in Literal
  BY Calling DEF Becomes
<1>3. \A s \in Subgoal : (Done(s)' <=> Done(s)) /\ (Completed(s)' <=> Completed(s))
  BY DEF Done, Completed, OnStack
<1>4. \A r, s : Mate(r, s)' <=> Mate(r, s)
  BY DEF Mate
<1>5. ASSUME NEW m \in conts', m \notin conts
      PROVE  /\ \A l \in m.delays : /\ l \in Literal /\ Near(Root(m), l)
                                    /\ l.neg \/ ans[l.of] \in {"cond", "marked", "uncond"}
             /\ Moves(X) => Stuck(X, m)'
  <2>1. m \in new /\ ~AtEnd(k)
    BY <1>2, <1>5
  <2>2. new = {Next1(k, D)} /\ m = Next1(k, D)
    BY <2>1
  <2>3. /\ D # {} => /\ Near(Root(k), Lit(k))
                     /\ Lit(k).neg \/ ans[Lit(k).of] \in {"cond", "marked", "uncond"}
        /\ D # {} /\ Lit(k).neg => Firm(X, Root(k), Lit(k))
        /\ Root(k) \in X => Blocked(X, m)
    BY <1>1, <2>1, <2>2
  <2>4. m.c = k.c /\ m.delays = k.delays \cup D /\ m.st = "run" /\ Root(m) = Root(k)
    BY <1>2, <2>2 DEF Next1, Continuation, Root
  <2>5. \A l \in k.delays : /\ Near(Root(k), l) /\ (l.neg => Firm(X, Root(k), l))
                            /\ l.neg \/ ans[l.of] \in {"cond", "marked", "uncond"}
    <3>1. \A s : ~Gone(s)
      BY Calling
    <3> QED BY <1>1, <3>1 DEF JInv, Nearby, Undecided, Unsettled, Stuck, Tags
  <2>6. \A l \in m.delays : /\ l \in Literal /\ Near(Root(m), l) /\ (l.neg => Firm(X, Root(m), l))
                            /\ l.neg \/ ans[l.of] \in {"cond", "marked", "uncond"}
    BY <1>2, <2>1, <2>3, <2>4, <2>5
  <2>7. ASSUME Moves(X) PROVE Stuck(X, m)'
    <3>1. \A l \in m.delays : l.neg => Firm(X, Root(m), l)'
      BY <2>6, <2>7, FirmStays
    <3>2. ASSUME Root(m) \in X PROVE Blocked(X, m)'
      <4>1. Blocked(X, m)
        BY <2>3, <2>4, <3>2
      <4>2. ~(m.st = "wait") /\ ~(m.st = "resumed")
        BY <2>4
      <4>3. PICK l \in m.delays : Firm(X, Root(m), l)
        BY <4>1, <4>2 DEF Blocked
      <4>4. Firm(X, Root(m), l)'
        BY <2>6, <2>7, <4>3, FirmStays
      <4> QED BY <4>3, <4>4 DEF Blocked
    <3> QED BY <2>4, <3>1, <3>2 DEF Stuck
  <2> QED BY <2>6, <2>7
<1>6. Undecided(X)'
  BY <1>1, <1>2, <1>3, <1>4, <1>5, UndecidedMoves
<1> QED BY <1>2, <1>3, <1>4, <1>5, <1>6, Resolution

\* X blocks an environment by something it has delayed already.
LEMMA BlockedOn ==
  ASSUME IInv, NEW k \in conts, NEW X, NEW D, Blocked(X, k),
         (\E l \in k.delays : Firm(X, Root(k), l)) \/ (\E l \in D : Firm(X, Root(k), l))
  PROVE  Blocked(X, Next1(k, D))
<1>1. k \in Continuation
  BY Held
<1>2. PICK m : m = Next1(k, D)
  OBVIOUS
<1>3. m.delays = k.delays \cup D /\ Root(m) = Root(k)
  BY <1>1, <1>2 DEF Next1, Continuation, Root
<1> QED BY <1>2, <1>3 DEF Blocked

LEMMA ReturnSimplifies ==
  ASSUME IInv, JInv, NEW k \in conts, Return(k)
  PROVE  JInv'
<1>1. PICK l : l = Lit(k)
  OBVIOUS
<1>2. PICK D : D = IF Unconditional(l.of) THEN {} ELSE {l}
  OBVIOUS
<1>3. /\ Active(k) /\ ~AtEnd(k) /\ ~l.neg /\ Has(l.of)
      /\ (status[Callee(k)] = "incomplete" /\ k.st = "wait") \/ Completed(Callee(k))
      /\ Becomes(k, {Next1(k, D)})
      /\ UNCHANGED <<prog, wfm, status, sccs, tables, calls>>
  BY <1>1, <1>2 DEF Return, Usable
<1>4. /\ l \in Literal /\ l.of \in Atom /\ Callee(k) \in Subgoal /\ Callee(k) = l.of[1]
      /\ k.st # "run" => Done(Callee(k)) \/ Mate(Root(k), Callee(k))
      /\ Completed(Callee(k)) => \/ Done(Callee(k))
                                 \/ <<Callee(k), 0>> \in Atom /\ Unconditional(<<Callee(k), 0>>)
  BY <1>1, <1>3, Calling
<1>5. ~Unconditional(l.of) => ans[l.of] = "cond"
  BY <1>3 DEF Has, Unconditional
<1>6. D # {} => Near(Root(k), l) /\ ans[l.of] = "cond"
  <2>1. <<l.of[1], 0>> \in Atom => l.of = <<l.of[1], 0>>
    BY <1>4, Atoms
  <2>2. D # {} => ~Unconditional(l.of)
    BY <1>2
  <2>3. D # {} => Done(Callee(k)) \/ Mate(Root(k), Callee(k))
    BY <1>3, <1>4, <2>1, <2>2
  <2> QED BY <1>3, <1>4, <1>5, <2>2, <2>3 DEF Near
<1>7. ASSUME NEW X \in SUBSET Subgoal, Undecided(X), Root(k) \in X PROVE Blocked(X, Next1(k, D))
  <2>1. Blocked(X, k)
    BY <1>7 DEF Undecided, Unsettled, Stuck
  <2>2. CASE \E m \in k.delays : Firm(X, Root(k), m)
    BY <2>1, <2>2, BlockedOn
  <2>3. CASE Callee(k) \in X /\ Mate(Root(k), Callee(k)) /\ ~Unconditional(l.of)
    <3>1. l \in D /\ Firm(X, Root(k), l)
      BY <1>2, <1>3, <1>4, <1>5, <2>3 DEF Firm
    <3> QED BY <2>1, <3>1, BlockedOn
  <2> QED BY <1>1, <1>3, <2>1, <2>2, <2>3 DEF Blocked
<1>8. PICK new : new = {Next1(k, D)}
  OBVIOUS
<1>9. D \in SUBSET {Lit(k)}
  BY <1>1, <1>2
<1> QED BY <1>1, <1>3, <1>6, <1>7, <1>8, <1>9, Continues

LEMMA EndsSimplify ==
  ASSUME IInv, JInv, NEW k \in conts, Exhausted(k) \/ RejectAnswer(k)
  PROVE  JInv'
<1>1. Active(k) /\ Becomes(k, {}) /\ UNCHANGED <<prog, wfm, status, sccs, tables, calls>>
  BY DEF Exhausted, RejectAnswer
<1>2. PICK D : D = {}
  OBVIOUS
<1>3. D \in SUBSET {Lit(k)}
  BY <1>2
<1> QED BY <1>1, <1>3, Continues

LEMMA SlgNotSimplifies ==
  ASSUME IInv, JInv, NEW k \in conts, SlgNot(k)
  PROVE  JInv'
<1>1. PICK s, l : s = Callee(k) /\ l = Lit(k)
  OBVIOUS
<1>2. /\ Active(k) /\ ~AtEnd(k) /\ l.neg /\ (Completed(s) \/ k.st = "resumed")
      /\ \/ HasNoAnswers(s) /\ Completed(s) /\ Becomes(k, {Next1(k, {})})
         \/ Becomes(k, {})
         \/ ~(HasNoAnswers(s) /\ Completed(s)) /\ ~HasUnconditional(s) /\ Becomes(k, {Next1(k, {l})})
      /\ UNCHANGED <<prog, wfm, status, sccs, tables, calls>>
  BY <1>1 DEF SlgNot, Usable
<1>3. /\ l \in Literal /\ l.of \in Atom /\ s \in Subgoal /\ s = l.of[1] /\ l.of = <<s, 0>>
      /\ k.st # "run" => Done(s) \/ Mate(Root(k), s)
      /\ Completed(s) => Done(s) \/ Unconditional(<<s, 0>>)
      /\ ~Done(s) => answers[s] = "list"
      /\ ~Gone(s)
  BY <1>1, <1>2, Calling
<1>4. l.of \in Of(s)
  BY <1>3 DEF Of
<1>5. ASSUME ~(HasNoAnswers(s) /\ Completed(s)), ~HasUnconditional(s)
      PROVE  /\ Near(Root(k), l)
             /\ \A X \in SUBSET Subgoal : Undecided(X) => Firm(X, Root(k), l)
  <2>1. ~Done(s) => ~Unconditional(<<s, 0>>)
    BY <1>3, <1>4, <1>5 DEF HasUnconditional
  <2>2. Done(s) => ans[<<s, 0>>] = "cond"
    <3>1. Done(s) => answers[s] # "list" /\ answers[s] = TagIs(s)
      BY <1>3 DEF JInv, Tags
    <3>2. Done(s) => answers[s] # "no" /\ answers[s] # "uncond"
      BY <1>5 DEF HasNoAnswers, HasUnconditional, Done
    <3> QED BY <3>1, <3>2 DEF TagIs
  <2>3. Done(s) \/ (k.st = "resumed" /\ Mate(Root(k), s))
    BY <1>2, <1>3, <2>1
  <2>4. ASSUME NEW X \in SUBSET Subgoal, Undecided(X) PROVE Firm(X, Root(k), l)
    <3>1. CASE Done(s)
      BY <1>3, <2>2, <3>1 DEF Firm
    <3>2. CASE ~Done(s)
      <4>1. s \in X
        BY <1>1, <1>2, <1>3, <2>3, <2>4, <3>2 DEF Undecided, Unsettled, Stuck
      <4> QED BY <1>2, <1>3, <2>1, <2>3, <3>2, <4>1 DEF Firm
    <3> QED BY <3>1, <3>2
  <2> QED BY <1>3, <2>3, <2>4 DEF Near
<1>6. ASSUME Completed(s), NEW X \in SUBSET Subgoal, Undecided(X), Root(k) \in X
      PROVE  Blocked(X, Next1(k, {}))
  <2>1. Blocked(X, k) /\ s \notin X
    BY <1>6 DEF Undecided, Unsettled, Stuck, Completed
  <2>2. \E m \in k.delays : Firm(X, Root(k), m)
    BY <1>1, <2>1 DEF Blocked
  <2> QED BY <2>1, <2>2, BlockedOn
<1>7. ASSUME NEW X \in SUBSET Subgoal, Undecided(X), Root(k) \in X, Firm(X, Root(k), l)
      PROVE  Blocked(X, Next1(k, {l}))
  <2>1. Blocked(X, k) /\ l \in {l}
    BY <1>7 DEF Undecided, Unsettled, Stuck
  <2> QED BY <1>7, <2>1, BlockedOn
<1>8. CASE HasNoAnswers(s) /\ Completed(s) /\ Becomes(k, {Next1(k, {})})
  <2>1. PICK D, new : D = {} /\ new = {Next1(k, D)}
    OBVIOUS
  <2>2. D \in SUBSET {Lit(k)}
    BY <2>1
  <2> QED BY <1>2, <1>6, <1>8, <2>1, <2>2, Continues
<1>9. CASE Becomes(k, {})
  <2>1. PICK D : D = {}
    OBVIOUS
  <2>2. D \in SUBSET {Lit(k)}
    BY <2>1
  <2> QED BY <1>2, <1>9, <2>2, Continues
<1>10. CASE ~(HasNoAnswers(s) /\ Completed(s)) /\ ~HasUnconditional(s) /\ Becomes(k, {Next1(k, {l})})
  <2>1. PICK D, new : D = {l} /\ new = {Next1(k, D)}
    OBVIOUS
  <2>2. D \in SUBSET {Lit(k)}
    BY <1>1, <2>1
  <2>3. /\ Near(Root(k), Lit(k)) /\ Lit(k).neg
        /\ \A X \in SUBSET Subgoal : Undecided(X) => Firm(X, Root(k), Lit(k))
    BY <1>1, <1>2, <1>5, <1>10
  <2>4. \A X \in SUBSET Subgoal : Undecided(X) /\ Root(k) \in X => Blocked(X, Next1(k, D))
    BY <1>1, <1>7, <2>1, <2>3
  <2> QED BY <1>2, <1>10, <2>1, <2>2, <2>3, <2>4, Continues
<1> QED BY <1>2, <1>8, <1>9, <1>10

\* An environment that begins to wait, and what it has delayed.
LEMMA Waits ==
  ASSUME IInv, JInv, NEW X \in SUBSET Subgoal, Undecided(X), NEW k \in conts, Active(k), ~AtEnd(k),
         Callee(k) \notin X \/ k.st = "run", NEW w, w = [k EXCEPT !.st = "wait"]
  PROVE  /\ Moves(X) => Stuck(X, w)'
         /\ \A l \in w.delays : /\ l \in Literal /\ Near(Root(w), l)
                                /\ l.neg \/ ans[l.of] \in {"cond", "marked", "uncond"}
<1>1. k \in Continuation /\ k.delays \subseteq Literal /\ \A s : ~Gone(s)
  BY Calling
<1>2. w.delays = k.delays /\ Root(w) = Root(k) /\ w.st = "wait"
  BY <1>1 DEF Continuation, Root
<1>3. ASSUME Moves(X) PROVE Stuck(X, w)'
  <2>1. Stuck(X, k)'
    BY <1>3, StuckStays DEF Undecided, Unsettled
  <2>2. Root(k) \in X => \E l \in k.delays : Firm(X, Root(k), l)'
    BY <2>1 DEF Stuck, Blocked
  <2> QED BY <1>2, <2>1, <2>2 DEF Stuck, Blocked
<1>4. \A l \in k.delays : Near(Root(k), l) /\ (l.neg \/ ans[l.of] \in {"cond", "marked", "uncond"})
  BY <1>1 DEF JInv, Nearby, Tags
<1> QED BY <1>1, <1>2, <1>3, <1>4

LEMMA CallsSimplify ==
  ASSUME IInv, JInv, NEW k \in conts, CallNew(k) \/ CallIncomplete(k)
  PROVE  JInv'
<1>1. PICK s, w : s = Callee(k) /\ w = [k EXCEPT !.st = "wait"]
  OBVIOUS
<1>2. PICK X \in SUBSET Subgoal : Undecided(X)
  BY DEF JInv
<1>3. /\ Active(k) /\ ~AtEnd(k) /\ UNCHANGED <<tables, calls>>
      /\ \/ /\ status[s] = "new" /\ status' = [status EXCEPT ![s] = "incomplete"]
            /\ conts' = (conts \ {k}) \cup ({w} \cup Start(s))
         \/ /\ k.st = "run" /\ status' = status
            /\ conts' = conts \ {k} \/ conts' = (conts \ {k}) \cup {w}
  BY <1>1 DEF CallNew, CallIncomplete, Becomes
<1>4. StackGrows
  BY CallNewKeeps, CallIncompleteKeeps
<1>5. /\ \A r \in Subgoal : (Done(r)' <=> Done(r)) /\ (Completed(r)' <=> Completed(r))
      /\ \A r, q : Mate(r, q) => Mate(r, q)'
      /\ calls = <<>> /\ s \in Subgoal
  BY <1>1, <1>3, <1>4, Calling DEF StackGrows
<1>6. \A r \in X : status[r] = "incomplete"
  BY <1>2 DEF Undecided, Unsettled
<1>7. /\ s \notin X \/ k.st = "run"
      /\ \A r \in X : status'[r] = status[r]
  <2>1. status \in [Subgoal -> {"new", "incomplete", "complete"}]
    BY DEF IInv, Types, TableTypes
  <2> QED BY <1>3, <1>6, <2>1
<1>8. /\ Moves(X) => Stuck(X, w)'
      /\ \A l \in w.delays : /\ l \in Literal /\ Near(Root(w), l)
                             /\ l.neg \/ ans[l.of] \in {"cond", "marked", "uncond"}
  BY <1>1, <1>2, <1>3, <1>7, Waits
<1>9. ASSUME status[s] = "new", NEW m \in Start(s) PROVE m.delays = {} /\ Stuck(X, m)'
  <2>1. m.c.head[1] = s /\ m.delays = {} /\ m.st = "run"
    BY DEF Start
  <2>2. s \notin X
    BY <1>6, <1>9
  <2> QED BY <2>1, <2>2 DEF Stuck, Root
<1>10. ASSUME NEW m \in conts', m \notin conts
       PROVE  /\ Moves(X) => Stuck(X, m)'
              /\ \A l \in m.delays : /\ l \in Literal /\ Near(Root(m), l)
                                     /\ l.neg \/ ans[l.of] \in {"cond", "marked", "uncond"}
  <2>1. CASE m = w
    BY <1>8, <2>1
  <2>2. CASE m # w
    <3>1. status[s] = "new" /\ m \in Start(s)
      BY <1>3, <1>10, <2>2
    <3> QED BY <1>9, <3>1
  <2> QED BY <2>1, <2>2
<1>11. Undecided(X)'
  BY <1>2, <1>3, <1>5, <1>7, <1>10, UndecidedMoves
<1> QED BY <1>3, <1>5, <1>10, <1>11, Resolution

\* The literals of what is delayed at a fixpoint support each other.
LEMMA DelayAllSimplifies ==
  ASSUME IInv, JInv, DelayAll
  PROVE  JInv'
<1>1. PICK live : live = {k \in Suspended : ~Completed(Root(k))}
  OBVIOUS
<1>2. /\ Fixpoint /\ conts' = (conts \ Suspended) \cup {[k EXCEPT !.st = "resumed"] : k \in live}
      /\ UNCHANGED <<prog, wfm, status, sccs, tables, calls>> /\ calls = <<>>
  BY <1>1 DEF DelayAll, Fixpoint
<1>3. PICK X \in SUBSET Subgoal : Undecided(X)
  BY DEF JInv
<1>4. PICK T : T = {s \in Subgoal : InTop(s) /\ status[s] = "incomplete"}
  OBVIOUS
<1>5. PICK Y : Y = X \cup T
  OBVIOUS
<1>6. /\ ~Completing /\ ~Completing' /\ (\A s : ~Gone(s) /\ ~Gone(s)') /\ rootless = {}
      /\ UNCHANGED <<ans, rootless, answers, dl, pnde, needsAC, deferred>> /\ Lists' = Lists
  BY <1>2 DEF Completing, Gone, tables, JInv, CallsInTop, Lists
<1>7. /\ \A s \in Subgoal : (Done(s)' <=> Done(s)) /\ (Completed(s)' <=> Completed(s))
      /\ \A r, s : Mate(r, s)' <=> Mate(r, s)
  BY <1>2 DEF Done, Completed, OnStack, Mate
<1>8. /\ \A r : \A l \in Literal : Firm(X, r, l) => Firm(Y, r, l)'
      /\ \A r : \A l \in Literal : Firm(Y, r, l) => Firm(Y, r, l)'
  <2>1. \A l \in Literal : l.of[1] \in Subgoal
    BY Atoms
  <2>2. \A a : Unconditional(a)' <=> Unconditional(a)
    BY <1>6 DEF Unconditional
  <2> QED BY <1>5, <1>6, <1>7, <2>1, <2>2 DEF Firm
<1>9. \A k \in conts : InTop(Root(k)) => Waiting(k)
  BY <1>2 DEF Fixpoint
<1>10. /\ \A s \in Subgoal : status[s] = "incomplete" => ~Done(s)
       /\ \A s \in Subgoal : InTop(s) /\ ~Completed(s) => s \in T
       /\ \A s \in Subgoal : Completed(s) /\ ~Done(s) => <<s, 0>> \in Atom /\ Unconditional(<<s, 0>>)
  <2>1. \A s \in Subgoal : InTop(s) => status[s] # "new"
    BY Mates DEF IInv, Frames
  <2>2. status \in [Subgoal -> {"new", "incomplete", "complete"}]
    BY DEF IInv, Types, TableTypes
  <2>3. \A s \in Subgoal : Completed(s) /\ ~Done(s) => <<s, 0>> \in Atom /\ Unconditional(<<s, 0>>)
    BY <1>6 DEF IInv, Tables, Settled
  <2> QED BY <1>4, <2>1, <2>2, <2>3 DEF Done, Completed
\* What an environment of the topmost SCC calls.
<1>11. ASSUME NEW k \in conts, InTop(Root(k))
       PROVE  /\ ~AtEnd(k) /\ k.st = "wait" /\ Callee(k) \in T /\ Mate(Root(k), Callee(k))
              /\ Lit(k).neg \/ ~Unconditional(Lit(k).of)
  <2>1. ~AtEnd(k) /\ k.st = "wait" /\ status[Callee(k)] = "incomplete" /\ (Lit(k).neg \/ ~Has(Lit(k).of))
    BY <1>9, <1>11 DEF Waiting
  <2>2. k \in Continuation /\ EnvironmentFits(k) /\ prog \in Programs
    BY Kept DEF TableTypes
  <2>3. Callee(k) \in Subgoal /\ Callee(k) = Lit(k).of[1]
    BY <2>1, <2>2, Environment
  <2>4. NotBelow(Root(k), Callee(k))
    BY <2>1, <2>2 DEF EnvironmentFits
  <2>5. InTop(Callee(k)) /\ Mate(Root(k), Callee(k))
    BY <1>10, <1>11, <2>1, <2>3, <2>4, Mates
  <2>6. Has(Lit(k).of) <=> ans[Lit(k).of] \in {"cond", "marked", "uncond"}
    BY <1>6 DEF Has
  <2> QED BY <1>4, <2>1, <2>3, <2>5, <2>6 DEF Unconditional
<1>12. \A s \in Y : status'[s] = "incomplete"
  BY <1>2, <1>3, <1>4, <1>5 DEF Undecided, Unsettled
<1>13. ASSUME NEW k \in conts
       PROVE  /\ \A l \in k.delays : /\ l \in Literal /\ Near(Root(k), l)
                                     /\ l.neg \/ ans[l.of] \in {"cond", "marked", "uncond"}
              /\ \A l \in k.delays : l.neg => Firm(Y, Root(k), l)'
              /\ Stuck(X, k) /\ k \in Continuation /\ Root(k) \in Subgoal
  <2>1. k.delays \subseteq Literal /\ k \in Continuation /\ Root(k) \in Subgoal
    BY Held
  <2> QED BY <1>3, <1>6, <1>8, <2>1 DEF JInv, Nearby, Tags, Undecided, Unsettled, Stuck
<1>14. ASSUME NEW k \in conts, k \notin Suspended PROVE Stuck(Y, k)'
  <2>1. CASE InTop(Root(k))
    <3>1. ~Lit(k).neg
      BY <1>14, <2>1 DEF Suspended
    <3>2. Blocked(Y, k)'
      <4>1. ~Unconditional(Lit(k).of)'
        BY <1>6, <1>11, <2>1, <3>1 DEF Unconditional
      <4> QED BY <1>5, <1>7, <1>11, <2>1, <3>1, <4>1 DEF Blocked
    <3> QED BY <1>11, <1>13, <2>1, <3>2 DEF Stuck
  <2>2. CASE ~InTop(Root(k))
    <3>1. Root(k) \in Y => Root(k) \in X
      BY <1>4, <1>5, <2>2
    <3>2. Blocked(X, k) => Blocked(Y, k)'
      <4>1. \A l \in k.delays : Firm(X, Root(k), l) => Firm(Y, Root(k), l)'
        BY <1>8, <1>13
      <4>2. Unconditional(Lit(k).of)' <=> Unconditional(Lit(k).of)
        BY <1>6 DEF Unconditional
      <4> QED BY <1>5, <1>7, <4>1, <4>2 DEF Blocked
    <3>3. ~AtEnd(k) => Callee(k) \in Subgoal
      <4>1. prog \in Programs
        BY Kept DEF TableTypes
      <4> QED BY <1>13, <4>1, Environment
    <3> QED BY <1>5, <1>6, <1>7, <1>13, <3>1, <3>2, <3>3 DEF Stuck
  <2> QED BY <2>1, <2>2
<1>15. ASSUME NEW k \in live, NEW w, w = [k EXCEPT !.st = "resumed"]
       PROVE  /\ Stuck(Y, w)'
              /\ \A l \in w.delays : /\ l \in Literal /\ Near(Root(w), l)
                                     /\ l.neg \/ ans[l.of] \in {"cond", "marked", "uncond"}
  <2>1. k \in conts /\ InTop(Root(k)) /\ Lit(k).neg
    BY <1>1 DEF Suspended
  <2>2. w = [c |-> k.c, at |-> k.at, delays |-> k.delays, st |-> "resumed"]
    BY <1>13, <1>15, <2>1 DEF Continuation
  <2>3. /\ w.delays = k.delays /\ Root(w) = Root(k) /\ w.st = "resumed" /\ Callee(w) = Callee(k)
        /\ Lit(w) = Lit(k) /\ (AtEnd(w) <=> AtEnd(k))
    BY <2>2 DEF Root, Callee, Lit, AtEnd
  <2>4. Blocked(Y, w)'
    BY <1>5, <1>7, <1>11, <2>1, <2>3 DEF Blocked
  <2> QED BY <1>5, <1>11, <1>13, <2>1, <2>3, <2>4 DEF Stuck
<1>16. ASSUME NEW e \in Lists PROVE Supported(Y, e)'
  <2>1. e.des \subseteq Literal /\ e.des # {} /\ e.asl[1] \in Subgoal
    BY Held
  <2>2. /\ \A l \in e.des : Near(e.asl[1], l) /\ Pending(l)
        /\ \A l \in e.des : l.neg => Firm(X, e.asl[1], l)
        /\ e.asl[1] \in X => \E l \in e.des : Firm(X, e.asl[1], l)
    BY <1>3, <1>6 DEF JInv, Nearby, AllPending, Undecided, Unsettled, Supported
  <2>3. \A l \in e.des : Firm(X, e.asl[1], l) => Firm(Y, e.asl[1], l)'
    BY <1>8, <2>1
  <2>4. ASSUME e.asl[1] \in T PROVE \E l \in e.des : Firm(Y, e.asl[1], l)'
    <3>1. PICK l \in e.des : TRUE
      BY <2>1
    <3>2. CASE l.neg
      BY <2>2, <2>3, <3>2
    <3>3. CASE ~l.neg
      <4>1. \A c : c \notin Range(calls)
        BY <1>2 DEF Range
      <4>2. ans[l.of] = "cond"
        BY <2>2, <3>3, <4>1 DEF Pending, Doing
      <4>3. l \in Literal /\ l.of \in Atom /\ l.of[1] \in Subgoal
        BY <2>1, Atoms
      <4>4. CASE Done(l.of[1])
        BY <1>8, <4>2, <4>3, <4>4 DEF Firm
      <4>5. CASE ~Done(l.of[1])
        <5>1. Mate(e.asl[1], l.of[1]) /\ InTop(e.asl[1])
          BY <1>4, <2>2, <2>4, <4>5 DEF Near
        <5>2. InTop(l.of[1])
          BY <5>1, Mates
        <5>3. ~Completed(l.of[1])
          <6>1. <<l.of[1], 0>> \in Atom => l.of = <<l.of[1], 0>>
            BY <4>3, Atoms
          <6>2. ~Unconditional(l.of)
            BY <4>2 DEF Unconditional
          <6> QED BY <1>10, <4>3, <4>5, <6>1, <6>2
        <5>4. l.of[1] \in Y
          BY <1>5, <1>10, <4>3, <5>2, <5>3
        <5>5. Firm(Y, e.asl[1], l)
          BY <3>3, <4>2, <5>1, <5>4 DEF Firm
        <5> QED BY <1>8, <4>3, <5>5
      <4> QED BY <4>4, <4>5
    <3> QED BY <3>2, <3>3
  <2> QED BY <1>5, <2>2, <2>3, <2>4 DEF Supported
<1>17. Undecided(Y)'
  <2>1. \A m \in conts' : Stuck(Y, m)'
    BY <1>2, <1>14, <1>15
  <2>2. \A c : c \notin Range(calls)'
    BY <1>2 DEF Range
  <2> QED BY <1>6, <1>12, <1>16, <2>1, <2>2 DEF Undecided, Unsettled
<1>18. \A m \in conts' : \/ m \in conts
                         \/ \A l \in m.delays : /\ l \in Literal /\ Near(Root(m), l)
                                                /\ l.neg \/ ans[l.of] \in {"cond", "marked", "uncond"}
  BY <1>2, <1>15
<1>19. Y \in SUBSET Subgoal
  BY <1>4, <1>5
<1> QED BY <1>2, <1>7, <1>17, <1>18, <1>19, Resolution

\* Where the other parts of the invariant stay if the stack does.
LEMMA NearbyStays ==
  ASSUME IInv, Nearby, sccs' = sccs, \A s \in Subgoal : Completed(s) => Completed(s)', conts' \subseteq conts,
         \A f \in Lists' : \/ \E e \in Lists : f.asl = e.asl /\ f.des \subseteq e.des
                           \/ \A l \in f.des : l \in Literal /\ Near(f.asl[1], l)
  PROVE  Nearby'
<1>1. \A s \in Subgoal : Done(s) => Done(s)'
  BY StackSame
<1>2. \A r : \A l \in Literal : Near(r, l) => Near(r, l)'
  <2>1. \A l \in Literal : l.of[1] \in Subgoal
    BY Atoms
  <2>2. \A r, s : Mate(r, s) => Mate(r, s)'
    BY DEF Mate
  <2> QED BY <1>1, <2>1, <2>2 DEF Near
<1>3. \A k \in conts' : \A l \in k.delays : Near(Root(k), l)'
  BY <1>2, Held DEF Nearby
<1>4. ASSUME NEW f \in Lists', NEW l \in f.des PROVE Near(f.asl[1], l)'
  <2>1. \A e \in Lists : e.des \subseteq Literal
    BY Held
  <2>2. l \in Literal /\ Near(f.asl[1], l)
    BY <1>4, <2>1 DEF Nearby
  <2> QED BY <1>2, <2>2
<1> QED BY <1>3, <1>4 DEF Nearby

LEMMA TagsStay ==
  ASSUME IInv, Tags, sccs' = sccs, conts' \subseteq conts, Completing => Completing',
         \A s \in Subgoal : Completed(s)' => Completed(s) \/ OnStack(s),
         \A a \in Atom : \/ ans'[a] = ans[a]
                         \/ ~Done(a[1]) /\ ans'[a] \in {"cond", "marked", "uncond"}
                         \/ ans'[a] = "deleted" /\ Gone(a[1]),
         \A s \in Subgoal : answers'[s] = answers[s] \/ (~Done(s) /\ answers'[s] # "list")
  PROVE  Tags'
<1>1. \A s : (OnStack(s)' <=> OnStack(s)) /\ (InTop(s)' <=> InTop(s)) /\ (Gone(s) => Gone(s)')
  BY DEF OnStack, InTop, Gone
<1>2. \A s \in Subgoal : Done(s)' => Done(s)
  BY <1>1 DEF Done
<1>3. \A a \in Atom : Done(a[1]) => ans'[a] = ans[a]
  BY Mates DEF Gone
<1>4. ASSUME NEW s \in Subgoal, Done(s)'
      PROVE  answers'[s] # "list" /\ (<<s, 0>> \in Atom => answers'[s] = TagIs(s)')
  <2>1. Done(s) /\ answers'[s] = answers[s] /\ (<<s, 0>> \in Atom => ans'[<<s, 0>>] = ans[<<s, 0>>])
    BY <1>2, <1>3, <1>4
  <2>2. <<s, 0>> \in Atom => TagIs(s)' = TagIs(s)
    BY <2>1 DEF TagIs, Unconditional
  <2> QED BY <2>1, <2>2 DEF Tags
<1>5. ASSUME NEW a \in Atom, ans'[a] = "deleted" PROVE answers'[a[1]] # "list" \/ Gone(a[1])'
  <2>1. a[1] \in Subgoal
    BY Atoms
  <2>2. ans[a] = "deleted" \/ Gone(a[1])
    BY <1>5
  <2> QED BY <1>1, <2>1, <2>2 DEF Tags
<1>6. ASSUME NEW k \in conts', NEW l \in k.delays
      PROVE  l.neg \/ ans'[l.of] \in {"cond", "marked", "uncond"} \/ Gone(l.of[1])'
  <2>1. l.of \in Atom
    BY Held, Atoms
  <2>2. l.neg \/ ans[l.of] \in {"cond", "marked", "uncond"} \/ Gone(l.of[1])
    BY <1>6 DEF Tags
  <2> QED BY <1>1, <2>1, <2>2
<1> QED BY <1>4, <1>5, <1>6 DEF Tags

\* An answer of k is added or found again.
LEMMA AnswerStep ==
  ASSUME IInv, JInv, NEW k \in conts, Active(k), conts' \subseteq conts, NEW a, a = k.c.head,
         NEW v \in {"cond", "marked", "uncond"}, ans' = [ans EXCEPT ![a] = v],
         UNCHANGED <<prog, wfm, status, sccs, rootless, answers, needsAC, deferred>>,
         \A f \in Lists' : \/ f \in Lists
                           \/ \A l \in f.des : l \in Literal /\ Near(f.asl[1], l),
         NEW X \in SUBSET Subgoal, Undecided(X)', AllPending', CallsInTop', ~Completing'
  PROVE  JInv'
<1>1. /\ a \in Atom /\ Root(k) = a[1] /\ ~Done(a[1]) /\ ~Completing
      /\ ans \in [Atom -> {"none", "cond", "marked", "uncond", "deleted"}]
  BY Calling, Derives DEF IInv, Types, TableTypes
<1>2. \A s \in Subgoal : Completed(s)' <=> Completed(s)
  BY DEF Completed
<1>3. Nearby'
  BY <1>2, NearbyStays DEF JInv
<1>4. \A b \in Atom : \/ ans'[b] = ans[b]
                      \/ ~Done(b[1]) /\ ans'[b] \in {"cond", "marked", "uncond"}
  BY <1>1
<1>5. Tags'
  BY <1>1, <1>2, <1>4, TagsStay DEF JInv
<1> QED BY <1>3, <1>5 DEF JInv

\* An environment that comes to its end, and what X says of its answer.
LEMMA Answering ==
  ASSUME IInv, JInv, NEW k \in conts, Active(k), AtEnd(k),
         NEW X \in SUBSET Subgoal, Undecided(X)
  PROVE  /\ \A l \in k.delays : /\ l \in Literal /\ Near(Root(k), l)
                                /\ l.neg => Firm(X, Root(k), l)
                                /\ l.neg \/ ans[l.of] \in {"cond", "marked", "uncond"}
                                /\ Firm(X, Root(k), l) => l \in Left(k)
         /\ Root(k) \in X => \E l \in Left(k) : Firm(X, Root(k), l)
         /\ \A e \in Lists : \A l \in e.des : /\ l \in Literal
                                              /\ IF l.neg THEN Firm(X, e.asl[1], l) ELSE ans[l.of] = "cond"
                                              /\ l.neg => l.of = <<l.of[1], 0>> /\ l.of \in Atom
         /\ \A e \in Lists : \A l \in e.des : l.neg => l.of[1] # Root(k) \/ (Root(k) \in X /\ ~Unconditional(l.of))
         /\ NDEs(Root(k)) # <<>> => Root(k) \in X /\ <<Root(k), 0>> \in Atom /\ ~Unconditional(<<Root(k), 0>>)
         /\ rootless = {} /\ deferred = <<>> /\ \A c : c \notin Range(calls)
<1> DEFINE a == k.c.head
<1>1. Root(k) = a[1]
  BY DEF Root
<1> HIDE DEF a
<1>2. /\ calls = <<>> /\ (\A s : ~Gone(s)) /\ k.delays \subseteq Literal /\ ~Done(a[1]) /\ a \in Atom
  BY <1>1, Calling, Derives DEF a
<1>3. \A c : c \notin Range(calls)
  BY <1>2 DEF Range
<1>4. rootless = {} /\ deferred = <<>>
  BY <1>3 DEF JInv, CallsInTop
<1>5. ASSUME NEW l \in k.delays
      PROVE  /\ l \in Literal /\ Near(a[1], l)
             /\ l.neg => Firm(X, a[1], l)
             /\ l.neg \/ ans[l.of] \in {"cond", "marked", "uncond"}
             /\ Firm(X, a[1], l) => l \in Left(k)
  <2>1. /\ l \in Literal /\ Near(a[1], l) /\ (l.neg => Firm(X, a[1], l))
        /\ l.neg \/ ans[l.of] \in {"cond", "marked", "uncond"}
    BY <1>1, <1>2 DEF JInv, Nearby, Tags, Undecided, Unsettled, Stuck
  <2>2. ASSUME Firm(X, a[1], l) PROVE ~WasSimplifiable(l)
    <3>1. l.of \in Atom /\ l.of \in Of(l.of[1])
      BY <2>1, Atoms
    <3>2. ans[l.of] = "cond" => ~SubgoalFails(l.of[1]) /\ ~Unconditional(l.of)
      BY <1>4, <3>1 DEF SubgoalFails, Has, Unconditional
    <3>3. l.of[1] \in X => ~Completed(l.of[1])
      BY DEF Undecided, Unsettled, Completed
    <3> QED BY <2>2, <3>2, <3>3 DEF Firm, WasSimplifiable
  <2> QED BY <2>1, <2>2 DEF Left
<1>6. a[1] \in X => \E l \in Left(k) : Firm(X, a[1], l)
  <2>1. a[1] \in X => Blocked(X, k)
    BY <1>1, <1>2 DEF Undecided, Unsettled, Stuck
  <2>2. a[1] \in X => \E l \in k.delays : Firm(X, a[1], l)
    BY <1>1, <1>2, <2>1 DEF Blocked
  <2> QED BY <1>5, <2>2
<1>7. ASSUME NEW e \in Lists, NEW l \in e.des
      PROVE  /\ l \in Literal
             /\ IF l.neg THEN Firm(X, e.asl[1], l) ELSE ans[l.of] = "cond"
             /\ l.neg => l.of = <<l.of[1], 0>> /\ l.of \in Atom
             /\ l.neg => l.of[1] # a[1] \/ (a[1] \in X /\ ~Unconditional(l.of))
  <2>1. l \in Literal /\ l.of \in Atom
    BY Held, Atoms
  <2>2. IF l.neg THEN Firm(X, e.asl[1], l) ELSE ans[l.of] = "cond"
    BY <1>2, <1>3 DEF JInv, AllPending, Pending, Doing, Undecided, Unsettled, Supported
  <2>3. l.neg => l.of = <<l.of[1], 0>>
    BY DEF JInv, Nearby, Near
  <2>4. l.neg => l.of[1] # a[1] \/ (a[1] \in X /\ ~Unconditional(l.of))
    BY <1>2, <2>2 DEF Firm
  <2> QED BY <2>1, <2>2, <2>3, <2>4
<1>8. ASSUME NDEs(a[1]) # <<>> PROVE a[1] \in X /\ <<a[1], 0>> \in Atom /\ ~Unconditional(<<a[1], 0>>)
  <2>1. <<a[1], 0>> \in Atom /\ pnde[Not(a[1])] # <<>>
    BY <1>8 DEF NDEs
  <2>2. PICK l : l = Not(a[1])
    OBVIOUS
  <2>3. l \in Literal /\ l.neg /\ l.of = <<a[1], 0>> /\ l.of[1] = a[1]
    BY <2>1, <2>2, Atoms DEF Not
  <2>4. PICK e \in Lists : l \in e.des
    BY <2>1, <2>2, <2>3, Held
  <2> QED BY <1>7, <2>1, <2>3, <2>4
<1> QED BY <1>1, <1>3, <1>4, <1>5, <1>6, <1>7, <1>8

\* What no call waits for.
Open(l) == IF l.neg THEN ~Unconditional(l.of) /\ ~(Completed(l.of[1]) /\ SubgoalFails(l.of[1]))
                    ELSE ans[l.of] = "cond"

LEMMA OpenStays ==
  ASSUME IInv, JInv, NEW a \in Atom, NEW v \in {"cond", "marked", "uncond"}, ans' = [ans EXCEPT ![a] = v],
         UNCHANGED <<status, rootless>>,
         NEW l \in Literal, Open(l), l.of = a => v = "cond"
  PROVE  Open(l)'
<1>1. /\ ans \in [Atom -> {"none", "cond", "marked", "uncond", "deleted"}] /\ l.of \in Atom /\ l.of[1] \in Subgoal
      /\ rootless = {}
  BY Atoms DEF IInv, Types, TableTypes, JInv, CallsInTop
<1>2. ans'[l.of] = ans[l.of] \/ ans'[l.of] = "cond"
  BY <1>1
<1>3. \A b \in Atom : Has(b) => Has(b)'
  BY <1>1 DEF Has
<1>4. SubgoalFails(l.of[1])' => SubgoalFails(l.of[1])
  <2>1. Of(l.of[1]) \subseteq Atom
    BY DEF Of
  <2> QED BY <1>3, <2>1 DEF SubgoalFails
<1> QED BY <1>2, <1>4 DEF Open, Unconditional, Completed

\* When nothing is being simplified, all literals are open.
LEMMA OpenBetween ==
  ASSUME IInv, JInv, \A c \in Range(calls) : c.op = "complete"
  PROVE  /\ \A e \in Lists : \A l \in e.des : l \in Literal /\ Open(l)
         /\ \A a \in Atom : ans[a] # "marked"
         /\ deferred = <<>>
<1>1. deferred = <<>>
  BY DEF JInv, CallsInTop
<1>2. \A s : s \notin Range(deferred)
  BY <1>1 DEF Range
<1>3. \A op, x : op # "complete" => ~Doing(op, x)
  BY DEF Doing, Call
<1> QED BY <1>1, <1>2, <1>3, Held DEF JInv, AllPending, Pending, Open

LEMMA AllOpen ==
  ASSUME IInv, JInv, calls = <<>>
  PROVE  /\ \A e \in Lists : \A l \in e.des : l \in Literal /\ Open(l)
         /\ \A a \in Atom : ans[a] # "marked"
<1>1. \A c : c \notin Range(calls)
  BY DEF Range
<1> QED BY <1>1, OpenBetween

LEMMA ConditionalAnswerSimplifies ==
  ASSUME IInv, JInv, NEW k \in conts, ConditionalAnswer(k)
  PROVE  JInv'
<1>1. PICK a, D : a = k.c.head /\ D = Left(k)
  OBVIOUS
<1>2. /\ Active(k) /\ AtEnd(k) /\ D # {} /\ ~(Has(a) /\ Unconditional(a)) /\ ~(1 .. MaxDL \subseteq DOMAIN dl)
      /\ Becomes(k, {}) /\ ans' = [ans EXCEPT ![a] = "cond"] /\ AddDL(a, D)
      /\ UNCHANGED <<prog, wfm, status, sccs, rootless, answers, needsAC, deferred, calls>>
  BY <1>1 DEF ConditionalAnswer
<1>3. PICK X \in SUBSET Subgoal : Undecided(X)
  BY DEF JInv
<1>4. /\ a \in Atom /\ ~Unconditional(a) /\ conts' \subseteq conts /\ calls = <<>> /\ ~Completing
      /\ ans \in [Atom -> {"none", "cond", "marked", "uncond", "deleted"}]
  BY <1>1, <1>2, Derives, Calling DEF IInv, Types, TableTypes
<1>5. /\ \A l \in k.delays : /\ l \in Literal /\ Near(a[1], l)
                             /\ l.neg => Firm(X, a[1], l)
                             /\ l.neg \/ ans[l.of] \in {"cond", "marked", "uncond"}
      /\ a[1] \in X => \E l \in D : Firm(X, a[1], l)
      /\ rootless = {} /\ deferred = <<>> /\ \A c : c \notin Range(calls)
  <2>1. Active(k) /\ AtEnd(k)
    BY <1>2
  <2>2. Root(k) \in X => \E l \in Left(k) : Firm(X, Root(k), l)
    BY <1>3, <2>1, Answering
  <2>3. \A l \in k.delays : /\ l \in Literal /\ Near(Root(k), l)
                            /\ l.neg => Firm(X, Root(k), l)
                            /\ l.neg \/ ans[l.of] \in {"cond", "marked", "uncond"}
    BY <1>3, <2>1, Answering
  <2>4. rootless = {} /\ deferred = <<>> /\ \A c : c \notin Range(calls)
    BY <1>3, <2>1, Answering
  <2>5. Root(k) = a[1]
    BY <1>1 DEF Root
  <2> QED BY <1>1, <2>2, <2>3, <2>4, <2>5
<1>6. D \subseteq k.delays /\ D \in SUBSET Literal /\ \A l \in D : ~WasSimplifiable(l)
  BY <1>1, <1>5 DEF Left
<1>7. PICK g : g = [asl |-> a, des |-> D]
  OBVIOUS
<1>8. \A f \in Lists' : f \in Lists \/ f = g
  <2>1. \A e \in DOMAIN dl' : (e \in DOMAIN dl /\ dl'[e] = dl[e]) \/ dl'[e] = [asl |-> a, des |-> D]
    BY <1>2, <1>4, <1>6, Added DEF IInv
  <2> QED BY <1>7, <2>1 DEF Lists
<1>9. \A l \in D : Open(l)
  <2>1. ASSUME NEW l \in D, l.neg PROVE ~Unconditional(l.of)
    BY <1>5, <1>6, <2>1 DEF Firm, Unconditional
  <2> QED BY <1>5, <1>6, <2>1 DEF Open, WasSimplifiable, Unconditional
<1>10. calls' = <<>> /\ ~Completing' /\ \A c : c \notin Range(calls)'
  BY <1>2, <1>4 DEF Completing, Range
<1>11. Undecided(X)'
  <2>1. Moves(X) => Supported(X, g)'
    <3> SUFFICES ASSUME Moves(X) PROVE Supported(X, g)'
      OBVIOUS
    <3>1. \A l \in D : Firm(X, a[1], l) => Firm(X, a[1], l)'
      BY <1>6, FirmStays
    <3> QED BY <1>5, <1>6, <1>7, <3>1 DEF Supported
  <2>2. \A b \in Atom : ans'[b] = ans[b] \/ ans'[b] = "cond"
    BY <1>2, <1>4
  <2> QED BY <1>2, <1>3, <1>4, <1>8, <1>10, <2>1, <2>2, UndecidedStays
<1>12. AllPending'
  <2>1. ASSUME NEW f \in Lists', NEW l \in f.des PROVE Pending(l)'
    <3>1. l \in Literal /\ Open(l)
      BY <1>4, <1>6, <1>7, <1>8, <1>9, <2>1, AllOpen
    <3>2. Open(l)'
      BY <1>2, <1>4, <3>1, OpenStays
    <3> QED BY <3>2 DEF Open, Pending
  <2>2. \A b \in Atom : ans'[b] # "marked"
    BY <1>2, <1>4, AllOpen
  <2> QED BY <2>1, <2>2 DEF AllPending
<1>13. CallsInTop'
  <2>1. \A s : s \notin Range(deferred)'
    BY <1>2, <1>5 DEF Range
  <2> QED BY <1>2, <1>5, <1>10, <2>1 DEF CallsInTop
<1>14. \A f \in Lists' : \/ f \in Lists
                         \/ \A l \in f.des : l \in Literal /\ Near(f.asl[1], l)
  BY <1>5, <1>6, <1>7, <1>8
<1> QED BY <1>1, <1>2, <1>4, <1>10, <1>11, <1>12, <1>13, <1>14, AnswerStep

LEMMA UnconditionalAnswerSimplifies ==
  ASSUME IInv, JInv, NEW k \in conts, UnconditionalAnswer(k)
  PROVE  JInv'
<1>1. PICK a : a = k.c.head
  OBVIOUS
<1>2. PICK X \in SUBSET Subgoal : Undecided(X)
  BY DEF JInv
<1>3. /\ Active(k) /\ AtEnd(k) /\ IF Has(a) THEN Unconditional(a) ELSE Left(k) = {}
      /\ Becomes(k, {}) /\ ans' = [ans EXCEPT ![a] = "uncond"]
      /\ calls' = (IF NDEs(Root(k)) = <<>> THEN <<>> ELSE <<Call("neg_succeeds", Root(k))>>) \o
                  (IF a[2] = 0 /\ ~Has(a) THEN <<Call("early", Root(k))>> ELSE <<>>)
      /\ UNCHANGED <<prog, wfm, status, sccs, rootless, answers, dl, pnde, needsAC, deferred>>
  BY <1>1 DEF UnconditionalAnswer
<1>4. /\ a \in Atom /\ conts' \subseteq conts /\ calls = <<>> /\ ~Completing /\ Root(k) = a[1] /\ InTop(a[1])
      /\ ~Done(a[1]) /\ (ans[a] = "cond" => Has(a))
      /\ ans \in [Atom -> {"none", "cond", "marked", "uncond", "deleted"}]
  BY <1>1, <1>3, Derives, Calling DEF IInv, Types, TableTypes
<1>5. /\ a[1] \in X => \E l \in Left(k) : Firm(X, a[1], l)
      /\ \A e \in Lists : \A l \in e.des : l.neg => l.of[1] # a[1] \/ (a[1] \in X /\ ~Unconditional(l.of))
      /\ NDEs(a[1]) # <<>> => a[1] \in X /\ <<a[1], 0>> \in Atom /\ ~Unconditional(<<a[1], 0>>)
      /\ rootless = {} /\ deferred = <<>>
  <2>1. Active(k) /\ AtEnd(k)
    BY <1>3
  <2> QED BY <1>2, <1>4, <2>1, Answering
<1>6. Unconditional(a) \/ (a[1] \notin X /\ ~Has(a))
  BY <1>3, <1>5
<1>7. NDEs(a[1]) = <<>>
  <2>1. <<a[1], 0>> \in Atom => a = <<a[1], 0>>
    BY <1>4, Atoms
  <2> QED BY <1>5, <1>6, <2>1
<1>8. calls' = <<>> \/ (a[1] \notin X /\ calls' = <<Call("early", a[1])>>)
  <2>1. Unconditional(a) => Has(a)
    BY <1>1, <1>3, Derives
  <2>2. <<>> \o <<>> = <<>> /\ <<>> \o <<Call("early", a[1])>> = <<Call("early", a[1])>>
    OBVIOUS
  <2> QED BY <1>3, <1>4, <1>6, <1>7, <2>1, <2>2
<1>9. \A c \in Range(calls)' : a[1] \notin X /\ c = Call("early", a[1])
  <2>1. CASE calls' = <<>>
    BY <2>1 DEF Range
  <2>2. CASE a[1] \notin X /\ calls' = <<Call("early", a[1])>>
    BY <2>2 DEF Range
  <2> QED BY <1>8, <2>1, <2>2
<1>10. ~Completing'
  <2>1. CASE calls' = <<>>
    BY <2>1 DEF Completing
  <2>2. CASE calls' = <<Call("early", a[1])>>
    BY <2>2 DEF Completing, Last, Call
  <2> QED BY <1>8, <2>1, <2>2
<1>11. Lists' = Lists
  BY <1>3 DEF Lists
<1>12. Undecided(X)'
  <2>1. \A b \in Atom : ans'[b] = ans[b] \/ Unconditional(b) \/ (~Done(b[1]) /\ b[1] \notin X)
    BY <1>3, <1>4, <1>6
  <2>2. \A c \in Range(calls)' : /\ c.op \in {"pos_unconditional", "early", "neg_succeeds"}
                                 /\ Subject(c) \notin X
    BY <1>9 DEF Call, Subject
  <2> QED BY <1>2, <1>3, <1>4, <1>10, <1>11, <2>1, <2>2, UndecidedStays
<1>13. AllPending'
  <2>1. ASSUME NEW f \in Lists', NEW l \in f.des PROVE Pending(l)'
    <3>1. l \in Literal /\ Open(l)
      BY <1>4, <1>11, <2>1, AllOpen
    <3>2. l.of # a
      BY <1>4, <1>5, <1>6, <1>11, <3>1 DEF Open, Unconditional
    <3>3. Open(l)'
      BY <1>3, <1>4, <3>1, <3>2, OpenStays
    <3> QED BY <3>3 DEF Open, Pending
  <2>2. \A b \in Atom : ans'[b] # "marked"
    BY <1>3, <1>4, AllOpen
  <2> QED BY <2>1, <2>2 DEF AllPending
<1>14. CallsInTop'
  <2>1. \A s : s \notin Range(deferred)'
    BY <1>3, <1>5 DEF Range
  <2>2. InTop(a[1])'
    BY <1>3, <1>4 DEF InTop
  <2> QED BY <1>3, <1>5, <1>9, <2>1, <2>2 DEF CallsInTop, Call, Subject
<1> QED BY <1>1, <1>3, <1>4, <1>10, <1>11, <1>12, <1>13, <1>14, AnswerStep

LEMMA BecomesUnconditionalSimplifies ==
  ASSUME IInv, JInv, NEW k \in conts, BecomesUnconditional(k)
  PROVE  JInv'
<1>1. PICK a : a = k.c.head
  OBVIOUS
<1>2. PICK X \in SUBSET Subgoal : Undecided(X)
  BY DEF JInv
<1>3. PICK x, y : x = Call("pos_unconditional", a) /\ y = Call("neg_succeeds", a[1])
  OBVIOUS
<1>4. /\ a \in Atom /\ Active(k) /\ AtEnd(k) /\ Left(k) = {} /\ Has(a) /\ ~Unconditional(a)
      /\ Becomes(k, {}) /\ Mark(a) /\ Root(k) = a[1] /\ calls' = <<x, y>>
      /\ UNCHANGED <<prog, wfm, status, sccs, rootless, answers, needsAC, deferred>>
  <2>1. Active(k) /\ Root(k) = k.c.head[1]
    BY DEF BecomesUnconditional, Root
  <2> QED BY <1>1, <1>3, <2>1, Derives DEF BecomesUnconditional
<1>5. /\ conts' \subseteq conts /\ calls = <<>> /\ ~Completing /\ InTop(a[1]) /\ ~Done(a[1])
      /\ ans \in [Atom -> {"none", "cond", "marked", "uncond", "deleted"}]
  BY <1>1, <1>4, Derives, Calling DEF IInv, Types, TableTypes
<1>6. /\ a[1] \notin X
      /\ \A e \in Lists : \A l \in e.des : l.neg => l.of[1] # a[1]
      /\ rootless = {} /\ deferred = <<>>
  <2>1. Active(k) /\ AtEnd(k) /\ Left(k) = {}
    BY <1>4
  <2>2. Root(k) \in X => \E l \in Left(k) : Firm(X, Root(k), l)
    BY <1>2, <2>1, Answering
  <2>3. \A e \in Lists : \A l \in e.des :
          l.neg => l.of[1] # Root(k) \/ (Root(k) \in X /\ ~Unconditional(l.of))
    BY <1>2, <2>1, Answering
  <2>4. rootless = {} /\ deferred = <<>>
    BY <1>2, <2>1, Answering
  <2> QED BY <1>4, <2>1, <2>2, <2>3, <2>4
<1>7. /\ ans' = [ans EXCEPT ![a] = "marked"]
      /\ \A f \in Lists' : f \in Lists
  <2>1. PICK E : E = DLsOf(a)
    OBVIOUS
  <2>2. ans' = [ans EXCEPT ![a] = "marked"] /\ dl' = Without(E) /\ pnde' = Unlinked(E)
    BY <1>4, <2>1 DEF Mark
  <2>3. DOMAIN dl' \subseteq DOMAIN dl /\ \A d \in DOMAIN dl' : dl'[d] = dl[d]
    BY <2>2, Released DEF IInv
  <2> QED BY <2>2, <2>3 DEF Lists
<1>8. x \in Range(calls)' /\ y \in Range(calls)' /\ \A c \in Range(calls)' : c = x \/ c = y
  BY <1>4 DEF Range
<1>9. ~Completing'
  BY <1>3, <1>4 DEF Completing, Last, Call
<1>10. \A c \in Range(calls)' : /\ c.op \in {"pos_unconditional", "early", "neg_succeeds"}
                                /\ Subject(c) = a[1]
  BY <1>3, <1>8 DEF Call, Subject
<1>11. Undecided(X)'
  <2>1. \A b \in Atom : ans'[b] = ans[b] \/ (~Done(b[1]) /\ b[1] \notin X)
    BY <1>5, <1>6, <1>7
  <2> QED BY <1>2, <1>4, <1>5, <1>6, <1>7, <1>9, <1>10, <2>1, UndecidedStays
<1>12. AllPending'
  <2>1. ASSUME NEW f \in Lists', NEW l \in f.des PROVE Pending(l)'
    <3>1. l \in Literal /\ Open(l) /\ l.of \in Atom
      BY <1>5, <1>7, <2>1, AllOpen, Atoms
    <3>2. CASE l.of = a
      <4>1. ~l.neg
        BY <1>6, <1>7, <2>1, <3>2
      <4>2. Unconditional(a)' /\ Doing("pos_unconditional", a)'
        BY <1>3, <1>5, <1>7, <1>8, <3>2, <3>1 DEF Unconditional, Doing
      <4> QED BY <3>2, <4>1, <4>2 DEF Pending
    <3>3. CASE l.of # a
      <4>1. Open(l)'
        BY <1>4, <1>7, <3>1, <3>3, OpenStays
      <4> QED BY <4>1 DEF Open, Pending
    <3> QED BY <3>2, <3>3
  <2>2. ASSUME NEW b \in Atom, ans'[b] = "marked" PROVE Doing("pos_unconditional", b)'
    <3>1. b = a
      BY <1>5, <1>7, <2>2, AllOpen
    <3> QED BY <1>3, <1>8, <3>1 DEF Doing
  <2> QED BY <2>1, <2>2 DEF AllPending
<1>13. CallsInTop'
  <2>1. \A s : s \notin Range(deferred)'
    BY <1>4, <1>6 DEF Range
  <2>2. InTop(a[1])'
    BY <1>4, <1>5 DEF InTop
  <2> QED BY <1>4, <1>6, <1>10, <2>1, <2>2 DEF CallsInTop
<1> QED BY <1>1, <1>4, <1>5, <1>7, <1>9, <1>11, <1>12, <1>13, AnswerStep

\* The innermost call is about a subgoal that X does not have.
LEMMA Simplifying ==
  ASSUME IInv, JInv, calls # <<>>, Top.op # "complete", NEW X \in SUBSET Subgoal, Undecided(X)
  PROVE  \E c \in CallTypes, s \in Subgoal :
           /\ c = Top /\ s = Subject(c) /\ InTop(s) /\ s \notin X /\ ~Done(s)
           /\ Tail(calls) \in Seq(CallTypes) /\ Range(calls) = {c} \cup Range(Tail(calls))
           /\ c.op \notin {"ac", "failed", "complete"} /\ CallFits(c)
           /\ ~Completing => c.op \in {"pos_unconditional", "early", "neg_succeeds"}
           /\ \A l \in Literal : l.of[1] = s => \A r : ~Firm(X, r, l)
<1>1. PICK c \in CallTypes : c = Top /\ CallFits(c)
  BY TopIs
<1>2. PICK u : u = calls
  OBVIOUS
<1>3. u \in Seq(CallTypes) /\ u # <<>>
  BY <1>2 DEF IInv, Types
<1>4. Tail(u) \in Seq(CallTypes) /\ Range(u) = {Head(u)} \cup Range(Tail(u))
  BY <1>3, HeadAndTail
<1>5. Tail(calls) \in Seq(CallTypes) /\ Range(calls) = {c} \cup Range(Tail(calls))
  BY <1>1, <1>2, <1>4 DEF Top
<1>6. c \in Range(calls)
  BY <1>5
<1>7. PICK s : s = Subject(c)
  OBVIOUS
<1>8. c.op \notin {"ac", "failed", "complete"} /\ InTop(s)
  BY <1>1, <1>6, <1>7 DEF JInv, CallsInTop
<1>9. s \in Subgoal /\ ~Done(s)
  BY <1>8, Mates
<1>10. s \notin X /\ (~Completing => c.op \in {"pos_unconditional", "early", "neg_succeeds"})
  BY <1>6, <1>7, <1>8 DEF Undecided, Unsettled, Gone
<1>11. \A l \in Literal : l.of[1] = s => \A r : ~Firm(X, r, l)
  BY <1>9, <1>10 DEF Firm
<1> QED BY <1>1, <1>5, <1>7, <1>8, <1>9, <1>10, <1>11

\* A step of simplification, but for what is pending.
LEMMA SimplificationStep ==
  ASSUME IInv, JInv, NEW X \in SUBSET Subgoal, Undecided(X),
         UNCHANGED <<prog, wfm, sccs, conts, rootless>>, Completing' <=> Completing,
         \A s \in Subgoal : status'[s] = status[s] \/ (status'[s] = "complete" /\ InTop(s) /\ s \notin X),
         \A a \in Atom : \/ ans'[a] = ans[a]
                         \/ /\ InTop(a[1]) /\ a[1] \notin X
                            /\ ans'[a] \in {"marked", "uncond"} \/ (ans'[a] = "deleted" /\ Completing),
         \A s \in Subgoal : answers'[s] = answers[s] \/ (InTop(s) /\ answers'[s] # "list"),
         NEW l, \A r : ~Firm(X, r, l),
         \A f \in Lists' : \E e \in Lists : f.asl = e.asl /\ f.des \subseteq e.des /\ e.des \subseteq f.des \cup {l},
         \A c \in Range(calls)' :
            \/ c \in Range(calls)
            \/ /\ c.op \notin {"ac", "failed", "complete"} /\ InTop(Subject(c))
               /\ ~Completing => /\ c.op \in {"pos_unconditional", "early", "neg_succeeds"}
                                 /\ Subject(c) \notin X,
         \A s \in Range(deferred)' : InTop(s),
         deferred' # <<>> => \E c \in Range(calls)' : c.op = "neg_fails_loop",
         AllPending'
  PROVE  JInv'
<1>1. \A s \in Subgoal : Completed(s) => Completed(s)'
  BY DEF Completed
<1>2. \A s : InTop(s)' <=> InTop(s)
  BY DEF InTop
<1>3. \A s : InTop(s) => OnStack(s) /\ ~Done(s)
  BY Mates
<1>4. Nearby'
  BY <1>1, NearbyStays DEF JInv
<1>5. CallsInTop'
  BY <1>2 DEF JInv, CallsInTop
<1>6. Undecided(X)'
  <2>1. \A s \in Subgoal : status'[s] = status[s] \/ (status'[s] = "complete" /\ s \notin X)
    OBVIOUS
  <2>2. \A a \in Atom : ans'[a] = ans[a] \/ (~Done(a[1]) /\ a[1] \notin X)
    BY <1>3
  <2>3. ~Completing => \A c \in Range(calls)' : /\ c.op \in {"pos_unconditional", "early", "neg_succeeds"}
                                                /\ Subject(c) \notin X
    BY DEF Undecided, Unsettled
  <2> QED BY <2>1, <2>2, <2>3, UndecidedStays
<1>7. Tags'
  <2>1. \A s \in Subgoal : Completed(s)' => Completed(s) \/ OnStack(s)
    BY <1>3 DEF Completed
  <2>2. \A a \in Atom : \/ ans'[a] = ans[a]
                        \/ ~Done(a[1]) /\ ans'[a] \in {"cond", "marked", "uncond"}
                        \/ ans'[a] = "deleted" /\ Gone(a[1])
    BY <1>3 DEF Gone
  <2>3. \A s \in Subgoal : answers'[s] = answers[s] \/ (~Done(s) /\ answers'[s] # "list")
    BY <1>3
  <2> QED BY <2>1, <2>2, <2>3, TagsStay DEF JInv
<1> QED BY <1>4, <1>5, <1>6, <1>7 DEF JInv

\* Literal l is not forgotten when c returns and the calls q take its place.
Remembers(c, q, l) ==
  /\ ~l.neg => c \notin {Call("pos_unconditional", l.of), Call("pos_unsupported", l.of)}
  /\ l.neg => /\ c # Call("neg_succeeds", l.of[1])
              /\ Completed(l.of[1])' /\ SubgoalFails(l.of[1]) => Completed(l.of[1])
              /\ \/ \A x \in {"neg_fails", "neg_fails_loop"} : c # Call(x, l.of[1])
                 \/ Call("neg_fails_loop", l.of[1]) \in q \/ l.of[1] \in Range(deferred)'
              /\ \/ c # Call("unsupported", l.of)
                 \/ Completed(l.of[1]) /\ SubgoalFails(l.of[1]) => Call("neg_fails", l.of[1]) \in q
              /\ l.of[1] \in Range(deferred) => \/ l.of[1] \in Range(deferred)'
                                                \/ Call("neg_fails_loop", l.of[1]) \in q

\* A literal whose answer stays what it is, when call c has returned.
LEMMA PendingStays ==
  ASSUME rootless = {}, rootless' = rootless, NEW l \in Literal, Pending(l), l.neg => l.of = <<l.of[1], 0>>,
         NEW c, NEW q, q \subseteq Range(calls)', \A x \in Range(calls) : x \in Range(calls)' \/ x = c,
         ans'[l.of] = ans[l.of] \/ (Unconditional(l.of) /\ Unconditional(l.of)'), Remembers(c, q, l)
  PROVE  Pending(l)'
<1>1. l.of \in Atom /\ l.of[1] \in Subgoal
  BY Atoms
<1>2. Unconditional(l.of)' <=> Unconditional(l.of)
  BY DEF Unconditional
<1>3. ~l.neg => c \notin {Call("pos_unconditional", l.of), Call("pos_unsupported", l.of)}
  BY DEF Remembers
<1>4. l.neg => /\ c # Call("neg_succeeds", l.of[1])
               /\ Completed(l.of[1])' /\ SubgoalFails(l.of[1]) => Completed(l.of[1])
               /\ \/ \A x \in {"neg_fails", "neg_fails_loop"} : c # Call(x, l.of[1])
                  \/ Doing("neg_fails", l.of[1])' \/ Doing("neg_fails_loop", l.of[1])' \/ l.of[1] \in Range(deferred)'
               /\ \/ c # Call("unsupported", l.of)
                  \/ Completed(l.of[1]) /\ SubgoalFails(l.of[1]) => Doing("neg_fails", l.of[1])'
               /\ l.of[1] \in Range(deferred) => l.of[1] \in Range(deferred)' \/ Doing("neg_fails_loop", l.of[1])'
  BY DEF Remembers, Doing
<1>5. CASE ~l.neg
  <2>1. Pending(l) <=> \/ ans[l.of] = "cond"
                       \/ Unconditional(l.of) /\ Doing("pos_unconditional", l.of)
                       \/ ans[l.of] = "deleted" /\ Doing("pos_unsupported", l.of)
    BY <1>5 DEF Pending
  <2>2. /\ Doing("pos_unconditional", l.of) => Doing("pos_unconditional", l.of)'
        /\ Doing("pos_unsupported", l.of) => Doing("pos_unsupported", l.of)'
    BY <1>3, <1>5 DEF Doing
  <2>3. ans[l.of] \in {"cond", "deleted"} => ans'[l.of] = ans[l.of]
    BY DEF Unconditional
  <2> QED BY <1>2, <1>5, <2>1, <2>2, <2>3 DEF Pending
<1>6. CASE l.neg
  <2>1. PICK s : s = l.of[1]
    OBVIOUS
  <2>2. SubgoalFails(s)' <=> SubgoalFails(s)
    <3>1. <<s, 0>> = l.of /\ <<s, 0>> \in Atom
      BY <1>1, <1>6, <2>1
    <3>2. \A a \in Atom : a[1] = s => a = l.of
      BY <3>1, Atoms
    <3>3. Of(s) = {l.of}
      BY <1>1, <2>1, <3>2 DEF Of
    <3>4. Has(l.of)' <=> Has(l.of)
      BY DEF Has, Unconditional
    <3> QED BY <3>3, <3>4 DEF SubgoalFails
  <2>3. Doing("neg_succeeds", s) => Doing("neg_succeeds", s)'
    BY <1>4, <1>6, <2>1 DEF Doing
  <2>4. ASSUME Completed(s)', SubgoalFails(s)'
        PROVE  Doing("neg_fails", s)' \/ Doing("neg_fails_loop", s)' \/ Doing("unsupported", l.of)' \/ s \in Range(deferred)'
    <3>1. Completed(s) /\ SubgoalFails(s)
      BY <1>4, <1>6, <2>1, <2>2, <2>4
    <3>2. Doing("neg_fails", s) \/ Doing("neg_fails_loop", s) \/ Doing("unsupported", l.of) \/ s \in Range(deferred)
      BY <1>6, <2>1, <3>1 DEF Pending
    <3>3. CASE Doing("neg_fails", s)
      BY <1>4, <1>6, <2>1, <3>3 DEF Doing
    <3>4. CASE Doing("neg_fails_loop", s)
      BY <1>4, <1>6, <2>1, <3>4 DEF Doing
    <3>5. CASE Doing("unsupported", l.of)
      BY <1>4, <1>6, <2>1, <3>1, <3>5 DEF Doing
    <3>6. CASE s \in Range(deferred)
      BY <1>4, <1>6, <2>1, <3>6
    <3> QED BY <3>2, <3>3, <3>4, <3>5, <3>6
  <2> QED BY <1>2, <1>6, <2>1, <2>3, <2>4 DEF Pending
<1> QED BY <1>5, <1>6

\* An answer is marked or deleted, and what that settles is called for.
LEMMA PendingPushed ==
  ASSUME IInv, JInv, UNCHANGED <<status, rootless, deferred>>, NEW b \in Atom,
         \/ /\ ans' = [ans EXCEPT ![b] = "marked"]
            /\ Doing("pos_unconditional", b)' /\ Doing("neg_succeeds", b[1])'
         \/ /\ ans' = [ans EXCEPT ![b] = "deleted"]
            /\ Doing("pos_unsupported", b)' /\ Doing("unsupported", b)',
         Range(calls) \subseteq Range(calls)',
         \A f \in Lists' : \E e \in Lists : f.des \subseteq e.des
  PROVE  AllPending'
<1>1. ans \in [Atom -> {"none", "cond", "marked", "uncond", "deleted"}] /\ rootless = {}
  BY DEF IInv, Types, TableTypes, JInv, CallsInTop
<1>2. ASSUME NEW f \in Lists', NEW l \in f.des PROVE Pending(l)'
  <2>1. /\ l \in Literal /\ Pending(l) /\ (l.neg => l.of = <<l.of[1], 0>>) /\ l.of \in Atom
    BY <1>2, Held, Atoms DEF JInv, AllPending, Nearby, Near
  <2>2. CASE l.of # b
    <3>1. PICK c : c = Call("none", b)
      OBVIOUS
    <3>2. \A x : /\ c # Call("pos_unconditional", x) /\ c # Call("pos_unsupported", x) /\ c # Call("neg_succeeds", x)
                 /\ c # Call("neg_fails", x) /\ c # Call("neg_fails_loop", x) /\ c # Call("unsupported", x)
      BY <3>1 DEF Call
    <3>3. ans'[l.of] = ans[l.of]
      BY <1>1, <2>1, <2>2
    <3>4. Completed(l.of[1])' <=> Completed(l.of[1])
      BY DEF Completed
    <3>5. PICK q : q = {}
      OBVIOUS
    <3>6. Remembers(c, q, l)
      BY <3>2, <3>4 DEF Remembers
    <3>7. q \subseteq Range(calls)' /\ \A x \in Range(calls) : x \in Range(calls)' \/ x = c
      BY <3>5
    <3> QED BY <1>1, <2>1, <3>3, <3>6, <3>7, PendingStays
  <2>3. CASE l.of = b
    <3>1. CASE ans' = [ans EXCEPT ![b] = "marked"] /\ Doing("pos_unconditional", b)' /\ Doing("neg_succeeds", b[1])'
      <4>1. ans'[b] = "marked"
        BY <1>1, <3>1
      <4>2. Unconditional(b)' /\ Has(b)'
        BY <1>1, <4>1 DEF Unconditional, Has
      <4>3. ~SubgoalFails(b[1])'
        BY <4>2, Atoms DEF SubgoalFails
      <4> QED BY <2>3, <3>1, <4>2, <4>3 DEF Pending
    <3>2. CASE ans' = [ans EXCEPT ![b] = "deleted"] /\ Doing("pos_unsupported", b)' /\ Doing("unsupported", b)'
      <4>1. ans'[b] = "deleted" /\ ~Unconditional(b)'
        BY <1>1, <3>2 DEF Unconditional
      <4> QED BY <2>3, <3>2, <4>1 DEF Pending
    <3> QED BY <3>1, <3>2
  <2> QED BY <2>2, <2>3
<1>3. ASSUME NEW a \in Atom, ans'[a] = "marked" PROVE Doing("pos_unconditional", a)'
  <2>1. CASE a = b
    BY <1>1, <1>3, <2>1
  <2>2. CASE a # b
    <3>1. ans[a] = "marked"
      BY <1>1, <1>3, <2>2
    <3>2. Doing("pos_unconditional", a)
      BY <3>1 DEF JInv, AllPending
    <3> QED BY <3>2 DEF Doing
  <2> QED BY <2>1, <2>2
<1> QED BY <1>2, <1>3 DEF AllPending

\* Calls are made in front of the others, or in the place of the innermost.
LEMMA Pushed ==
  ASSUME IInv, calls # <<>>, NEW p \in Seq(CallTypes), NEW rest, Goes(rest), calls' = p \o rest,
         \A c \in Range(p) : c.op # "complete"
  PROVE  /\ rest \in Seq(CallTypes) /\ Range(calls)' = Range(p) \cup Range(rest)
         /\ Completing' <=> Completing
<1>1. PICK u : u = calls
  OBVIOUS
<1>2. u \in Seq(CallTypes) /\ u # <<>> /\ Len(u) \in Nat \ {0} /\ u[1] = Top
  BY <1>1 DEF IInv, Types, Top
<1>3. \/ rest = u
      \/ rest = Tail(u) /\ Top.op \notin {"complete", "ac"}
  BY <1>1 DEF Goes
<1>4. Tail(u) \in Seq(CallTypes) /\ Len(Tail(u)) = Len(u) - 1 /\ \A i \in 1 .. Len(Tail(u)) : Tail(u)[i] = u[i + 1]
  BY <1>2, HeadTailProperties
<1>5. PICK w : w = calls'
  OBVIOUS
<1>6. /\ rest \in Seq(CallTypes) /\ Len(rest) \in Nat
      /\ Len(rest) # 0 => rest[Len(rest)] = u[Len(u)]
      /\ Len(rest) = 0 => Len(u) = 1 /\ Top.op # "complete"
  <2>1. CASE rest = u
    BY <1>2, <2>1
  <2>2. CASE rest = Tail(u) /\ Top.op \notin {"complete", "ac"}
    <3>1. PICK n, t : n = Len(u) /\ t = Tail(u)
      OBVIOUS
    <3>2. n \in Nat \ {0} /\ t \in Seq(CallTypes) /\ Len(t) = n - 1 /\ \A i \in 1 .. n - 1 : t[i] = u[i + 1]
      BY <1>2, <1>4, <3>1
    <3>3. n # 1 => n - 1 \in 1 .. n - 1 /\ n - 1 + 1 = n
      BY <3>2
    <3>4. n # 1 => t[n - 1] = u[n]
      BY <3>2, <3>3
    <3> QED BY <2>2, <3>1, <3>2, <3>4
  <2> QED BY <1>3, <2>1, <2>2
<1>7. /\ w \in Seq(CallTypes) /\ Len(w) = Len(p) + Len(rest) /\ Len(p) \in Nat
      /\ \A i \in 1 .. Len(p) : w[i] = p[i]
      /\ \A i \in 1 .. Len(rest) : w[Len(p) + i] = rest[i]
  BY <1>5, <1>6, Joined
<1>8. Range(w) = Range(p) \cup Range(rest)
  BY <1>5, <1>6, Concatenated
<1>9. Completing <=> u[Len(u)].op = "complete"
  BY <1>1, <1>2 DEF Completing, Last
<1>10. Completing' <=> w # <<>> /\ w[Len(w)].op = "complete"
  BY <1>5 DEF Completing, Last
<1>11. CASE Len(rest) # 0
  <2>1. w[Len(w)] = u[Len(u)] /\ w # <<>>
    BY <1>6, <1>7, <1>11
  <2> QED BY <1>5, <1>6, <1>8, <1>9, <1>10, <2>1
<1>12. CASE Len(rest) = 0
  <2>1. w # <<>> => Len(w) \in 1 .. Len(p) /\ w[Len(w)] = p[Len(w)]
    BY <1>7, <1>12
  <2>2. w # <<>> => w[Len(w)] \in Range(p)
    BY <2>1 DEF Range
  <2> QED BY <1>2, <1>5, <1>6, <1>8, <1>9, <1>10, <1>12, <2>2
<1> QED BY <1>6, <1>11, <1>12

\* Lists get shorter, and nothing is settled.
LEMMA PendingSame ==
  ASSUME IInv, JInv, UNCHANGED <<status, ans, rootless, deferred, calls>>,
         \A g \in Lists' : \E h \in Lists : g.des \subseteq h.des
  PROVE  AllPending'
<1>1. ASSUME NEW g \in Lists', NEW m \in g.des PROVE Pending(m)'
  <2>1. PICK h \in Lists : g.des \subseteq h.des
    BY <1>1
  <2>2. Pending(m) /\ m \in Literal /\ m.of[1] \in Subgoal
    BY <1>1, <2>1, Held, Atoms DEF JInv, AllPending
  <2>3. SubgoalFails(m.of[1])' <=> SubgoalFails(m.of[1])
    BY DEF SubgoalFails, Has, Unconditional
  <2>4. Completed(m.of[1])' <=> Completed(m.of[1])
    BY DEF Completed
  <2>5. Unconditional(m.of)' <=> Unconditional(m.of)
    BY DEF Unconditional
  <2> QED BY <2>2, <2>3, <2>4, <2>5 DEF Pending, Doing
<1> QED BY <1>1 DEF JInv, AllPending, Doing

LEMMA RemoveDESimplifies ==
  ASSUME IInv, JInv, NEW l \in Literal, calls # <<>>, Top.op \in {"pos_unconditional", "neg_fails_loop"},
         l.of[1] = Subject(Top), RemoveDE(l)
  PROVE  JInv'
<1>1. PICK d, b, e : d = Head(pnde[l]) /\ e = dl[d] /\ b = e.asl
  OBVIOUS
<1>2. /\ UNCHANGED <<prog, wfm, status, sccs, conts, rootless, answers, needsAC, deferred>>
      /\ pnde[l] # <<>>
  BY DEF RemoveDE
<1>3. Types /\ Indexes
  BY DEF IInv
<1>4. PICK X \in SUBSET Subgoal : Undecided(X)
  BY DEF JInv
<1>5. PICK c \in CallTypes, s \in Subgoal :
         /\ c = Top /\ s = Subject(c) /\ InTop(s) /\ s \notin X /\ ~Done(s)
         /\ ~Completing => c.op \in {"pos_unconditional", "early", "neg_succeeds"}
         /\ \A m \in Literal : m.of[1] = s => \A r : ~Firm(X, r, m)
  <2>1. Top.op # "complete"
    OBVIOUS
  <2> QED BY <1>4, <2>1, Simplifying
<1>6. d \in DOMAIN dl /\ l \in e.des /\ e \in Lists /\ l.of[1] = s /\ \A r : ~Firm(X, r, l)
  <2>1. \E u \in Seq(1 .. MaxDL) : /\ u = pnde[l] /\ u # <<>> /\ IsInjective(u) /\ Range(u) = Holders(l)
                                   /\ Head(u) \in Holders(l)
    BY <1>2, <1>3, FirstHolder
  <2>2. d \in DOMAIN dl /\ l \in e.des
    BY <1>1, <2>1 DEF Holders
  <2> QED BY <1>1, <1>5, <2>2 DEF Lists
<1>7. e \in DelayList /\ b \in Atom /\ e.des \subseteq Literal /\ b[1] \in Subgoal /\ ans[b] = "cond"
  BY <1>1, <1>6, Held
<1>8. InTop(b[1])
  <2>1. Done(s) \/ Mate(b[1], s)
    BY <1>1, <1>6 DEF JInv, Nearby, Near
  <2> QED BY <1>5, <2>1, Mates
<1>9. rootless = {} /\ \A x \in Range(deferred) : InTop(x)
  BY DEF JInv, CallsInTop
<1>10. deferred # <<>> => \E x \in Range(calls) : x.op = "neg_fails_loop"
  BY DEF JInv, CallsInTop
<1>11. CASE e.des # {l}
  <2>1. /\ dl' = [dl EXCEPT ![d].des = @ \ {l}] /\ pnde' = [pnde EXCEPT ![l] = Tail(@)]
        /\ ans' = ans /\ calls' = calls
    BY <1>1, <1>11 DEF RemoveDE
  <2>2. PICK f : f = [e EXCEPT !.des = @ \ {l}]
    OBVIOUS
  <2>3. dl' = [dl EXCEPT ![d] = f]
    BY <1>1, <1>6, <2>1, <2>2
  <2>4. f.asl = e.asl /\ f.des = e.des \ {l}
    BY <1>7, <2>2 DEF DelayList
  <2>5. \A g \in Lists' : g \in Lists \/ g = f
    <3>1. DOMAIN dl' = DOMAIN dl /\ \A x \in DOMAIN dl : dl'[x] = dl[x] \/ dl'[x] = f
      BY <2>3
    <3> QED BY <3>1 DEF Lists
  <2>6. \A g \in Lists' : \E h \in Lists : g.asl = h.asl /\ g.des \subseteq h.des /\ h.des \subseteq g.des \cup {l}
    <3>1. \A h \in Lists : h.asl = h.asl /\ h.des \subseteq h.des /\ h.des \subseteq h.des \cup {l}
      OBVIOUS
    <3>2. f.asl = e.asl /\ f.des \subseteq e.des /\ e.des \subseteq f.des \cup {l}
      BY <2>4
    <3> QED BY <1>6, <2>5, <3>1, <3>2
  <2>7. AllPending'
    <3>1. \A g \in Lists' : \E h \in Lists : g.des \subseteq h.des
      BY <2>6
    <3> QED BY <1>2, <2>1, <3>1, PendingSame
  <2>8. Completing' <=> Completing
    BY <2>1 DEF Completing
  <2>9. calls' = calls /\ ans' = ans
    BY <2>1
  <2> QED BY <1>2, <1>4, <1>6, <1>9, <1>10, <2>6, <2>7, <2>8, <2>9, SimplificationStep
<1>12. CASE e.des = {l}
  <2>1. /\ ans' = [ans EXCEPT ![b] = "marked"] /\ dl' = Without(DLsOf(b)) /\ pnde' = Unlinked(DLsOf(b))
        /\ calls' = <<Call("pos_unconditional", b), Call("early", b[1]), Call("neg_succeeds", b[1])>> \o calls
    BY <1>1, <1>12 DEF RemoveDE, Mark
  <2>2. \A f \in Lists' : f \in Lists
    <3>1. PICK E : E = DLsOf(b)
      OBVIOUS
    <3>2. dl' = Without(E) /\ pnde' = Unlinked(E)
      BY <2>1, <3>1
    <3>3. DOMAIN dl' \subseteq DOMAIN dl /\ \A x \in DOMAIN dl' : dl'[x] = dl[x]
      BY <1>3, <3>2, Released
    <3> QED BY <3>3 DEF Lists
  <2>3. \A f \in Lists' : \E h \in Lists : f.asl = h.asl /\ f.des \subseteq h.des /\ h.des \subseteq f.des \cup {l}
    <3>1. \A h \in Lists : h.asl = h.asl /\ h.des \subseteq h.des /\ h.des \subseteq h.des \cup {l}
      OBVIOUS
    <3> QED BY <2>2, <3>1
  <2>4. b[1] \notin X
    <3>1. b[1] \in X => \E m \in e.des : Firm(X, b[1], m)
      BY <1>1, <1>4, <1>6 DEF Undecided, Unsettled, Supported
    <3> QED BY <1>6, <1>12, <3>1
  <2>5. PICK x, y, z : x = Call("pos_unconditional", b) /\ y = Call("early", b[1]) /\ z = Call("neg_succeeds", b[1])
    OBVIOUS
  <2>6. x \in CallTypes /\ y \in CallTypes /\ z \in CallTypes
    BY <1>7, <2>5 DEF Call, CallTypes
  <2>7. PICK p : p = <<x, y, z>>
    OBVIOUS
  <2>8. p \in Seq(CallTypes) /\ Range(p) = {x, y, z}
    <3>1. DOMAIN p = {1, 2, 3} /\ p[1] = x /\ p[2] = y /\ p[3] = z
      BY <2>7
    <3>2. p \in Seq(CallTypes)
      BY <2>6, <2>7
    <3> QED BY <3>1, <3>2 DEF Range
  <2>9. /\ x.op = "pos_unconditional" /\ y.op = "early" /\ z.op = "neg_succeeds"
        /\ \A a \in {x, y, z} : Subject(a) = b[1]
    BY <2>5 DEF Call, Subject
  <2>10. PICK rest : rest = calls /\ Goes(rest) /\ calls' = p \o rest
    BY <2>1, <2>5, <2>7 DEF Goes
  <2>11. Range(calls)' = {x, y, z} \cup Range(calls) /\ (Completing' <=> Completing)
    <3>1. \A a \in Range(p) : a.op # "complete"
      BY <2>8, <2>9
    <3>2. Range(calls)' = Range(p) \cup Range(rest) /\ (Completing' <=> Completing)
      BY <2>8, <2>10, <3>1, Pushed
    <3> QED BY <2>8, <2>10, <3>2
  <2>12. AllPending'
    <3>1. Doing("pos_unconditional", b)' /\ Doing("neg_succeeds", b[1])'
      BY <2>5, <2>11 DEF Doing
    <3>2. \A f \in Lists' : \E h \in Lists : f.des \subseteq h.des
      BY <2>2
    <3>3. Range(calls) \subseteq Range(calls)'
      BY <2>11
    <3> QED BY <1>2, <1>7, <2>1, <3>1, <3>2, <3>3, PendingPushed
  <2>13. \A a \in Atom : \/ ans'[a] = ans[a]
                         \/ /\ InTop(a[1]) /\ a[1] \notin X
                            /\ ans'[a] \in {"marked", "uncond"} \/ (ans'[a] = "deleted" /\ Completing)
    <3>1. \A a \in Atom : ans'[a] = ans[a] \/ (a = b /\ ans'[a] = "marked")
      BY <1>3, <2>1 DEF Types, TableTypes
    <3> QED BY <1>8, <2>4, <3>1
  <2>14. \A a \in Range(calls)' :
            \/ a \in Range(calls)
            \/ /\ a.op \notin {"ac", "failed", "complete"} /\ InTop(Subject(a))
               /\ ~Completing => /\ a.op \in {"pos_unconditional", "early", "neg_succeeds"}
                                 /\ Subject(a) \notin X
    BY <1>8, <2>4, <2>9, <2>11
  <2>15. deferred' # <<>> => \E a \in Range(calls)' : a.op = "neg_fails_loop"
    BY <1>2, <1>10, <2>11
  <2> QED BY <1>2, <1>4, <1>6, <1>9, <2>3, <2>11, <2>12, <2>13, <2>14, <2>15, SimplificationStep
<1> QED BY <1>11, <1>12

LEMMA RemoveDLSimplifies ==
  ASSUME IInv, JInv, NEW l \in Literal, calls # <<>>,
         Top.op = "pos_unsupported" \/ (Top.op = "neg_succeeds" /\ l.neg),
         l.of[1] = Subject(Top), RemoveDL(l)
  PROVE  JInv'
<1>1. PICK d, b, e : d = Head(pnde[l]) /\ e = dl[d] /\ b = e.asl
  OBVIOUS
<1>2. /\ UNCHANGED <<prog, wfm, status, sccs, conts, rootless, answers, needsAC, deferred>>
      /\ pnde[l] # <<>>
  BY DEF RemoveDL
<1>3. Types /\ Indexes
  BY DEF IInv
<1>4. PICK X \in SUBSET Subgoal : Undecided(X)
  BY DEF JInv
<1>5. PICK c \in CallTypes, s \in Subgoal :
         /\ c = Top /\ s = Subject(c) /\ InTop(s) /\ s \notin X /\ ~Done(s)
         /\ ~Completing => c.op \in {"pos_unconditional", "early", "neg_succeeds"}
         /\ \A m \in Literal : m.of[1] = s => \A r : ~Firm(X, r, m)
  <2>1. Top.op # "complete"
    OBVIOUS
  <2> QED BY <1>4, <2>1, Simplifying
<1>6. d \in DOMAIN dl /\ l \in e.des /\ e \in Lists /\ l.of[1] = s /\ \A r : ~Firm(X, r, l)
  <2>1. \E u \in Seq(1 .. MaxDL) : /\ u = pnde[l] /\ u # <<>> /\ IsInjective(u) /\ Range(u) = Holders(l)
                                   /\ Head(u) \in Holders(l)
    BY <1>2, <1>3, FirstHolder
  <2>2. d \in DOMAIN dl /\ l \in e.des
    BY <1>1, <2>1 DEF Holders
  <2> QED BY <1>1, <1>5, <2>2 DEF Lists
<1>7. e \in DelayList /\ b \in Atom /\ e.des \subseteq Literal /\ b[1] \in Subgoal /\ ans[b] = "cond"
  BY <1>1, <1>6, Held
<1>8. InTop(b[1])
  <2>1. Done(s) \/ Mate(b[1], s)
    BY <1>1, <1>6 DEF JInv, Nearby, Near
  <2> QED BY <1>5, <2>1, Mates
<1>9. Completing
  <2>1. ASSUME ~Completing PROVE FALSE
    <3>1. l.neg
      BY <1>5, <2>1
    <3>2. Gone(l.of[1]) \/ Firm(X, b[1], l)
      BY <1>1, <1>4, <1>6, <3>1 DEF Undecided, Unsettled, Supported
    <3> QED BY <1>6, <2>1, <3>2 DEF Gone
  <2> QED BY <2>1
<1>10. b[1] \notin X
  BY <1>4, <1>8, <1>9 DEF Undecided, Unsettled, Gone
<1>11. rootless = {} /\ \A x \in Range(deferred) : InTop(x)
  BY DEF JInv, CallsInTop
<1>12. deferred # <<>> => \E x \in Range(calls) : x.op = "neg_fails_loop"
  BY DEF JInv, CallsInTop
<1>13. dl' = Without({d}) /\ pnde' = Unlinked({d})
  BY <1>1 DEF RemoveDL
<1>14. \A f \in Lists' : f \in Lists
  <2>1. PICK D : D = {d}
    OBVIOUS
  <2>2. dl' = Without(D) /\ pnde' = Unlinked(D)
    BY <1>13, <2>1
  <2>3. DOMAIN dl' \subseteq DOMAIN dl /\ \A x \in DOMAIN dl' : dl'[x] = dl[x]
    BY <1>3, <2>2, Released
  <2> QED BY <2>3 DEF Lists
<1>15. \A f \in Lists' : \E h \in Lists : f.asl = h.asl /\ f.des \subseteq h.des /\ h.des \subseteq f.des \cup {l}
  <2>1. \A h \in Lists : h.asl = h.asl /\ h.des \subseteq h.des /\ h.des \subseteq h.des \cup {l}
    OBVIOUS
  <2> QED BY <1>14, <2>1
<1>16. \A f \in Lists' : \E h \in Lists : f.des \subseteq h.des
  BY <1>14
<1>17. CASE DLsOf(b) # {d}
  <2>1. ans' = ans /\ calls' = calls
    BY <1>1, <1>17 DEF RemoveDL
  <2>2. AllPending'
    BY <1>2, <1>16, <2>1, PendingSame
  <2>3. Completing' <=> Completing
    BY <2>1 DEF Completing
  <2> QED BY <1>2, <1>4, <1>6, <1>11, <1>12, <1>15, <2>1, <2>2, <2>3, SimplificationStep
<1>18. CASE DLsOf(b) = {d}
  <2>1. /\ ans' = [ans EXCEPT ![b] = "deleted"]
        /\ calls' = <<Call("pos_unsupported", b), Call("unsupported", b)>> \o calls
    BY <1>1, <1>18 DEF RemoveDL
  <2>2. PICK x, y : x = Call("pos_unsupported", b) /\ y = Call("unsupported", b)
    OBVIOUS
  <2>3. x \in CallTypes /\ y \in CallTypes
    BY <1>7, <2>2 DEF Call, CallTypes
  <2>4. PICK p : p = <<x, y>>
    OBVIOUS
  <2>5. p \in Seq(CallTypes) /\ Range(p) = {x, y}
    <3>1. DOMAIN p = {1, 2} /\ p[1] = x /\ p[2] = y
      BY <2>4
    <3>2. p \in Seq(CallTypes)
      BY <2>3, <2>4
    <3> QED BY <3>1, <3>2 DEF Range
  <2>6. x.op = "pos_unsupported" /\ y.op = "unsupported" /\ \A a \in {x, y} : Subject(a) = b[1]
    BY <2>2 DEF Call, Subject
  <2>7. PICK rest : rest = calls /\ Goes(rest) /\ calls' = p \o rest
    BY <2>1, <2>2, <2>4 DEF Goes
  <2>8. Range(calls)' = {x, y} \cup Range(calls) /\ (Completing' <=> Completing)
    <3>1. \A a \in Range(p) : a.op # "complete"
      BY <2>5, <2>6
    <3>2. Range(calls)' = Range(p) \cup Range(rest) /\ (Completing' <=> Completing)
      BY <2>5, <2>7, <3>1, Pushed
    <3> QED BY <2>5, <2>7, <3>2
  <2>9. AllPending'
    <3>1. Doing("pos_unsupported", b)' /\ Doing("unsupported", b)'
      BY <2>2, <2>8 DEF Doing
    <3>2. Range(calls) \subseteq Range(calls)'
      BY <2>8
    <3> QED BY <1>2, <1>7, <1>16, <2>1, <3>1, <3>2, PendingPushed
  <2>10. \A a \in Atom : \/ ans'[a] = ans[a]
                         \/ /\ InTop(a[1]) /\ a[1] \notin X
                            /\ ans'[a] \in {"marked", "uncond"} \/ (ans'[a] = "deleted" /\ Completing)
    <3>1. \A a \in Atom : ans'[a] = ans[a] \/ (a = b /\ ans'[a] = "deleted")
      BY <1>3, <2>1 DEF Types, TableTypes
    <3> QED BY <1>8, <1>9, <1>10, <3>1
  <2>11. \A a \in Range(calls)' :
            \/ a \in Range(calls)
            \/ /\ a.op \notin {"ac", "failed", "complete"} /\ InTop(Subject(a))
               /\ ~Completing => /\ a.op \in {"pos_unconditional", "early", "neg_succeeds"}
                                 /\ Subject(a) \notin X
    BY <1>8, <1>9, <2>6, <2>8
  <2>12. deferred' # <<>> => \E a \in Range(calls)' : a.op = "neg_fails_loop"
    BY <1>2, <1>12, <2>8
  <2> QED BY <1>2, <1>4, <1>6, <1>11, <1>15, <2>8, <2>9, <2>10, <2>11, <2>12, SimplificationStep
<1> QED BY <1>17, <1>18

\* An iteration of one of the four loops.
LEMMA LoopsSimplify ==
  ASSUME IInv, JInv, PosUnconditional \/ PosUnsupported \/ NegSucceeds \/ NegFails
  PROVE  JInv'
<1>1. calls # <<>>
  BY DEF PosUnconditional, PosUnsupported, NegSucceeds, NegFails, In
<1>2. PICK c \in CallTypes : c = Top
  BY <1>1, TopIs
<1>3. CASE PosUnconditional
  <2>1. RemoveDE(Is(c.on)) /\ c.op = "pos_unconditional"
    BY <1>2, <1>3 DEF PosUnconditional, In
  <2>2. PICK l : l = Is(c.on)
    OBVIOUS
  <2>3. l \in Literal /\ l.of[1] = Subject(c)
    BY <2>1, <2>2, CallIs, Atoms DEF Subject, Is
  <2>4. RemoveDE(l)
    BY <2>1, <2>2
  <2>5. Top.op \in {"pos_unconditional", "neg_fails_loop"} /\ l.of[1] = Subject(Top)
    BY <1>2, <2>1, <2>3
  <2> QED BY <1>1, <2>3, <2>4, <2>5, RemoveDESimplifies
<1>4. CASE PosUnsupported
  <2>1. RemoveDL(Is(c.on)) /\ c.op = "pos_unsupported"
    BY <1>2, <1>4 DEF PosUnsupported, In
  <2>2. PICK l : l = Is(c.on)
    OBVIOUS
  <2>3. l \in Literal /\ l.of[1] = Subject(c)
    BY <2>1, <2>2, CallIs, Atoms DEF Subject, Is
  <2>4. RemoveDL(l)
    BY <2>1, <2>2
  <2>5. Top.op = "pos_unsupported" /\ l.of[1] = Subject(Top)
    BY <1>2, <2>1, <2>3
  <2> QED BY <1>1, <2>3, <2>4, <2>5, RemoveDLSimplifies
<1>5. CASE NegSucceeds
  <2>1. RemoveDL(Not(c.on)) /\ NDEs(c.on) # <<>> /\ c.op = "neg_succeeds"
    BY <1>2, <1>5 DEF NegSucceeds, In
  <2>2. PICK l : l = Not(c.on)
    OBVIOUS
  <2>3. l \in Literal /\ l.of[1] = Subject(c) /\ l.neg
    BY <2>1, <2>2, Atoms DEF NDEs, Subject, Not
  <2>4. RemoveDL(l)
    BY <2>1, <2>2
  <2>5. Top.op = "neg_succeeds" /\ l.of[1] = Subject(Top)
    BY <1>2, <2>1, <2>3
  <2> QED BY <1>1, <2>3, <2>4, <2>5, RemoveDLSimplifies
<1>6. CASE NegFails
  <2>1. RemoveDE(Not(c.on)) /\ NDEs(c.on) # <<>> /\ c.op = "neg_fails_loop"
    BY <1>2, <1>6 DEF NegFails, In
  <2>2. PICK l : l = Not(c.on)
    OBVIOUS
  <2>3. l \in Literal /\ l.of[1] = Subject(c)
    BY <2>1, <2>2, Atoms DEF NDEs, Subject, Not
  <2>4. RemoveDE(l)
    BY <2>1, <2>2
  <2>5. Top.op \in {"pos_unconditional", "neg_fails_loop"} /\ l.of[1] = Subject(Top)
    BY <1>2, <2>1, <2>3
  <2> QED BY <1>1, <2>3, <2>4, <2>5, RemoveDESimplifies
<1> QED BY <1>3, <1>4, <1>5, <1>6

\* The innermost call returns, or another takes its place.
LEMMA Replaced ==
  ASSUME IInv, JInv, calls # <<>>, Top.op # "complete", NEW q,
         \/ q = {} /\ calls' = Tail(calls)
         \/ \E x \in CallTypes : q = {x} /\ x.op # "complete" /\ calls' = <<x>> \o Tail(calls)
  PROVE  \E c \in CallTypes : /\ c = Top /\ CallFits(c) /\ InTop(Subject(c)) /\ Subject(c) \in Subgoal
                              /\ Range(calls) = {c} \cup Range(Tail(calls))
                              /\ Range(calls)' = q \cup Range(Tail(calls))
                              /\ Completing' <=> Completing
<1>1. PICK X \in SUBSET Subgoal : Undecided(X)
  BY DEF JInv
<1>2. PICK c \in CallTypes, s \in Subgoal :
         /\ c = Top /\ s = Subject(c) /\ InTop(s) /\ CallFits(c) /\ c.op \notin {"ac", "failed", "complete"}
         /\ Tail(calls) \in Seq(CallTypes) /\ Range(calls) = {c} \cup Range(Tail(calls))
  BY <1>1, Simplifying
<1>3. PICK rest : rest = Tail(calls)
  OBVIOUS
<1>4. Goes(rest) /\ rest \in Seq(CallTypes)
  BY <1>2, <1>3 DEF Goes
<1>5. PICK p \in Seq(CallTypes) : calls' = p \o rest /\ Range(p) = q /\ \A x \in Range(p) : x.op # "complete"
  <2>1. CASE q = {} /\ calls' = Tail(calls)
    <3>1. PICK p : p = <<>>
      OBVIOUS
    <3>2. p \in Seq(CallTypes) /\ Range(p) = {} /\ p \o rest = rest
      BY <1>4, <3>1 DEF Range
    <3> QED BY <1>3, <2>1, <3>2
  <2>2. CASE \E x \in CallTypes : q = {x} /\ x.op # "complete" /\ calls' = <<x>> \o Tail(calls)
    <3>1. PICK x \in CallTypes : q = {x} /\ x.op # "complete" /\ calls' = <<x>> \o Tail(calls)
      BY <2>2
    <3>2. PICK p : p = <<x>>
      OBVIOUS
    <3>3. p \in Seq(CallTypes) /\ Range(p) = {x}
      <4>1. DOMAIN p = {1} /\ p[1] = x /\ p \in Seq(CallTypes)
        BY <3>2
      <4> QED BY <4>1 DEF Range
    <3> QED BY <1>3, <3>1, <3>2, <3>3
  <2> QED BY <2>1, <2>2
<1>6. Range(calls)' = Range(p) \cup Range(rest) /\ (Completing' <=> Completing)
  BY <1>4, <1>5, Pushed
<1> QED BY <1>2, <1>3, <1>5, <1>6

\* A step that ends a loop, or is a call without a loop.
LEMMA ReturnStep ==
  ASSUME IInv, JInv, calls # <<>>, Top.op # "complete", NEW q,
         \/ q = {} /\ calls' = Tail(calls)
         \/ \E x \in CallTypes : q = {x} /\ calls' = <<x>> \o Tail(calls),
         \A x \in q : x.op \in {"neg_fails", "neg_fails_loop"} /\ InTop(x.on) /\ Completing,
         NEW c, c = Top, UNCHANGED <<prog, wfm, sccs, conts, rootless, dl>>,
         \A s \in Subgoal : status'[s] = status[s] \/ (status'[s] = "complete" /\ s = Subject(c)),
         \A a \in Atom : ans'[a] = ans[a] \/ (a[1] = Subject(c) /\ Unconditional(a) /\ ans'[a] = "uncond"),
         \A s \in Subgoal : answers'[s] = answers[s] \/ (s = Subject(c) /\ answers'[s] # "list"),
         \A s \in Range(deferred)' : InTop(s),
         deferred' # <<>> => \/ \E x \in q : x.op = "neg_fails_loop"
                             \/ c.op # "neg_fails_loop" /\ \E x \in Range(calls) : x.op = "neg_fails_loop",
         \A a \in Atom : ans'[a] = "marked" => c # Call("pos_unconditional", a),
         \A e \in Lists : \A l \in e.des : Remembers(c, q, l)
  PROVE  JInv'
<1>1. PICK X \in SUBSET Subgoal : Undecided(X)
  BY DEF JInv
<1>2. \/ q = {} /\ calls' = Tail(calls)
      \/ \E x \in CallTypes : q = {x} /\ x.op # "complete" /\ calls' = <<x>> \o Tail(calls)
  OBVIOUS
<1>3. PICK s \in Subgoal : s = Subject(c) /\ InTop(s) /\ s \notin X /\ ~Done(s)
  BY <1>1, Simplifying
<1>4. PICK T : T = Range(Tail(calls))
  OBVIOUS
<1>5. /\ Range(calls) = {c} \cup T /\ Range(calls)' = q \cup T /\ (Completing' <=> Completing)
  BY <1>2, <1>4, Replaced
<1>6. Lists' = Lists /\ rootless = {} /\ rootless' = rootless
  BY DEF Lists, JInv, CallsInTop
<1>7. ASSUME NEW e \in Lists, NEW l \in e.des PROVE Pending(l)'
  <2>1. l \in Literal /\ Pending(l) /\ (l.neg => l.of = <<l.of[1], 0>>) /\ l.of \in Atom
    BY <1>7, Held, Atoms DEF JInv, AllPending, Nearby, Near
  <2>2. \A x \in Range(calls) : x \in Range(calls)' \/ x = c
    BY <1>5
  <2>3. ans'[l.of] = ans[l.of] \/ (Unconditional(l.of) /\ Unconditional(l.of)')
    BY <2>1 DEF Unconditional
  <2>4. q \subseteq Range(calls)' /\ Remembers(c, q, l)
    BY <1>5, <1>7
  <2> QED BY <1>6, <2>1, <2>2, <2>3, <2>4, PendingStays
<1>8. ASSUME NEW a \in Atom, ans'[a] = "marked" PROVE Doing("pos_unconditional", a)'
  <2>1. ans[a] = "marked" /\ c # Call("pos_unconditional", a)
    BY <1>8
  <2>2. Call("pos_unconditional", a) \in Range(calls)
    BY <2>1 DEF JInv, AllPending, Doing
  <2> QED BY <1>5, <2>1, <2>2 DEF Doing
<1>9. AllPending'
  BY <1>6, <1>7, <1>8 DEF AllPending
<1>10. \A z \in Subgoal : status'[z] = status[z] \/ (status'[z] = "complete" /\ InTop(z) /\ z \notin X)
  BY <1>3
<1>11. \A a \in Atom : \/ ans'[a] = ans[a]
                       \/ /\ InTop(a[1]) /\ a[1] \notin X
                          /\ ans'[a] \in {"marked", "uncond"} \/ (ans'[a] = "deleted" /\ Completing)
  BY <1>3
<1>12. \A z \in Subgoal : answers'[z] = answers[z] \/ (InTop(z) /\ answers'[z] # "list")
  BY <1>3
<1>13. \A x \in Range(calls)' :
         \/ x \in Range(calls)
         \/ /\ x.op \notin {"ac", "failed", "complete"} /\ InTop(Subject(x))
            /\ ~Completing => /\ x.op \in {"pos_unconditional", "early", "neg_succeeds"}
                              /\ Subject(x) \notin X
  <2>1. \A x \in q : /\ x.op \notin {"ac", "failed", "complete"} /\ InTop(Subject(x)) /\ Completing
    BY DEF Subject
  <2> QED BY <1>5, <2>1
<1>14. deferred' # <<>> => \E x \in Range(calls)' : x.op = "neg_fails_loop"
  BY <1>5
<1>15. PICK l : l = Not(s)
  OBVIOUS
<1>16. \A r : ~Firm(X, r, l)
  BY <1>3, <1>15 DEF Firm, Not
<1>17. \A f \in Lists' : \E e \in Lists : f.asl = e.asl /\ f.des \subseteq e.des /\ e.des \subseteq f.des \cup {l}
  BY <1>6
<1> QED BY <1>1, <1>5, <1>9, <1>10, <1>11, <1>12, <1>13, <1>14, <1>16, <1>17, SimplificationStep

\* Literals that no list holds.
LEMMA NotHeld ==
  ASSUME IInv, JInv, NEW e \in Lists, NEW l \in e.des
  PROVE  /\ l \in Literal /\ l.of \in Atom /\ (l.neg => l.of = <<l.of[1], 0>>)
         /\ ~l.neg => pnde[Is(l.of)] # <<>>
         /\ l.neg => NDEs(l.of[1]) # <<>>
<1>1. l \in Literal /\ l.of \in Atom /\ (l.neg => l.of = <<l.of[1], 0>>) /\ pnde[l] # <<>>
  BY Held, Atoms DEF JInv, Nearby, Near
<1>2. ~l.neg => Is(l.of) = l
  BY <1>1 DEF Literal, Is
<1>3. l.neg => Not(l.of[1]) = l /\ <<l.of[1], 0>> \in Atom
  <2>1. l.neg => l = [neg |-> TRUE, of |-> l.of]
    BY <1>1 DEF Literal
  <2> QED BY <1>1, <2>1 DEF Not
<1> QED BY <1>1, <1>2, <1>3 DEF NDEs

LEMMA EndPosUnconditionalSimplifies ==
  ASSUME IInv, JInv, EndPosUnconditional
  PROVE  JInv'
<1>1. PICK c \in CallTypes : c = Top /\ CallFits(c)
  BY TopIs DEF EndPosUnconditional, In
<1>2. PICK a, s : a = c.on /\ s = a[1]
  OBVIOUS
<1>3. /\ calls # <<>> /\ c.op = "pos_unconditional" /\ pnde[Is(a)] = <<>> /\ calls' = Tail(calls)
      /\ ans' = [ans EXCEPT ![a] = "uncond"]
      /\ answers' = [answers EXCEPT ![s] = "uncond"] \/ answers' = answers
      /\ UNCHANGED <<prog, wfm, status, sccs, conts, rootless, dl, pnde, deferred>>
  BY <1>1, <1>2 DEF EndPosUnconditional, In
<1>4. a \in Atom /\ s \in Subgoal /\ Unconditional(a) /\ Subject(c) = s
  <2>1. a \in Atom /\ Unconditional(a)
    BY <1>1, <1>2, <1>3, CallIs DEF CallFits
  <2> QED BY <1>2, <1>3, <2>1, Atoms DEF Subject
<1>5. /\ ans \in [Atom -> {"none", "cond", "marked", "uncond", "deleted"}]
      /\ answers \in [Subgoal -> {"list", "no", "cond", "uncond"}]
  BY DEF IInv, Types, TableTypes
<1>6. \A b \in Atom : ans'[b] = ans[b] \/ (b[1] = Subject(c) /\ Unconditional(b) /\ ans'[b] = "uncond")
  BY <1>2, <1>3, <1>4, <1>5
<1>7. \A r \in Subgoal : answers'[r] = answers[r] \/ (r = Subject(c) /\ answers'[r] # "list")
  BY <1>3, <1>4, <1>5
<1>8. \A b \in Atom : ans'[b] = "marked" => c # Call("pos_unconditional", b)
  BY <1>2, <1>3, <1>5 DEF Call
<1>9. (\A r \in Range(deferred)' : InTop(r)) /\ (deferred # <<>> => \E x \in Range(calls) : x.op = "neg_fails_loop")
  BY <1>3 DEF JInv, CallsInTop
<1>10. PICK q : q = {}
  OBVIOUS
<1>11. ASSUME NEW e \in Lists, NEW l \in e.des PROVE Remembers(c, q, l)
  <2>1. \A x : /\ c # Call("pos_unsupported", x) /\ c # Call("neg_succeeds", x) /\ c # Call("neg_fails", x)
               /\ c # Call("neg_fails_loop", x) /\ c # Call("unsupported", x)
    BY <1>3 DEF Call
  <2>2. ~l.neg => c # Call("pos_unconditional", l.of)
    <3>1. ~l.neg => pnde[Is(l.of)] # <<>>
      BY <1>11, NotHeld
    <3>2. c = Call("pos_unconditional", l.of) => l.of = a
      BY <1>2 DEF Call
    <3> QED BY <1>3, <3>1, <3>2
  <2>3. Completed(l.of[1])' => Completed(l.of[1])
    BY <1>3 DEF Completed
  <2> QED BY <1>3, <2>1, <2>2, <2>3 DEF Remembers
<1>12. \A r \in Subgoal : status'[r] = status[r] \/ (status'[r] = "complete" /\ r = Subject(c))
  BY <1>3
<1>13. /\ Top.op # "complete" /\ q = {} /\ (\A x \in q : x.op \in {"neg_fails", "neg_fails_loop"} /\ InTop(x.on) /\ Completing)
       /\ deferred' # <<>> => \/ \E x \in q : x.op = "neg_fails_loop"
                              \/ c.op # "neg_fails_loop" /\ \E x \in Range(calls) : x.op = "neg_fails_loop"
  BY <1>1, <1>3, <1>9, <1>10
<1> QED BY <1>1, <1>3, <1>6, <1>7, <1>8, <1>9, <1>11, <1>12, <1>13, ReturnStep

LEMMA EarlyCompletionSimplifies ==
  ASSUME IInv, JInv, EarlyCompletion
  PROVE  JInv'
<1>1. PICK c \in CallTypes : c = Top /\ CallFits(c)
  BY TopIs DEF EarlyCompletion, In
<1>2. PICK s : s = c.on
  OBVIOUS
<1>3. /\ calls # <<>> /\ c.op = "early" /\ calls' = Tail(calls)
      /\ status' = IF <<s, 0>> \in Atom THEN [status EXCEPT ![s] = "complete"] ELSE status
      /\ UNCHANGED <<prog, wfm, sccs, conts, ans, rootless, answers, dl, pnde, needsAC, deferred>>
  BY <1>1, <1>2 DEF EarlyCompletion, In, tables
<1>4. s \in Subgoal /\ Subject(c) = s /\ (<<s, 0>> \in Atom => Unconditional(<<s, 0>>))
  BY <1>1, <1>2, <1>3, CallIs DEF CallFits, Subject
<1>5. status \in [Subgoal -> {"new", "incomplete", "complete"}]
  BY DEF IInv, Types, TableTypes
<1>6. \A r \in Subgoal : status'[r] = status[r] \/ (status'[r] = "complete" /\ r = Subject(c))
  BY <1>3, <1>4, <1>5
<1>7. (\A r \in Range(deferred)' : InTop(r)) /\ (deferred # <<>> => \E x \in Range(calls) : x.op = "neg_fails_loop")
  BY <1>3 DEF JInv, CallsInTop
<1>8. PICK q : q = {}
  OBVIOUS
<1>9. ASSUME NEW e \in Lists, NEW l \in e.des PROVE Remembers(c, q, l)
  <2>1. \A x : /\ c # Call("pos_unconditional", x) /\ c # Call("pos_unsupported", x) /\ c # Call("neg_succeeds", x)
               /\ c # Call("neg_fails", x) /\ c # Call("neg_fails_loop", x) /\ c # Call("unsupported", x)
    BY <1>3 DEF Call
  <2>2. l.neg /\ Completed(l.of[1])' /\ SubgoalFails(l.of[1]) => Completed(l.of[1])
    <3>1. PICK r : r = l.of[1]
      OBVIOUS
    <3>2. r \in Subgoal /\ (l.neg => <<r, 0>> \in Atom)
      BY <1>9, <3>1, NotHeld, Atoms
    <3>3. CASE r = s /\ l.neg
      <4>1. Has(<<s, 0>>) /\ <<s, 0>> \in Of(s)
        BY <1>4, <3>2, <3>3, Atoms DEF Has, Unconditional, JInv, CallsInTop
      <4>2. ~SubgoalFails(s)
        BY <4>1 DEF SubgoalFails
      <4> QED BY <3>1, <3>3, <4>2
    <3>4. CASE r # s
      BY <1>3, <1>5, <3>1, <3>2, <3>4 DEF Completed
    <3> QED BY <3>3, <3>4
  <2> QED BY <1>3, <2>1, <2>2 DEF Remembers
<1>10. /\ \A a \in Atom : ans'[a] = ans[a] \/ (a[1] = Subject(c) /\ Unconditional(a) /\ ans'[a] = "uncond")
       /\ \A r \in Subgoal : answers'[r] = answers[r] \/ (r = Subject(c) /\ answers'[r] # "list")
       /\ \A a \in Atom : ans'[a] = "marked" => c # Call("pos_unconditional", a)
  BY <1>3 DEF Call
<1>11. /\ Top.op # "complete" /\ q = {} /\ (\A x \in q : x.op \in {"neg_fails", "neg_fails_loop"} /\ InTop(x.on) /\ Completing)
       /\ deferred' # <<>> => \/ \E x \in q : x.op = "neg_fails_loop"
                              \/ c.op # "neg_fails_loop" /\ \E x \in Range(calls) : x.op = "neg_fails_loop"
  BY <1>1, <1>3, <1>7, <1>8
<1> QED BY <1>1, <1>3, <1>6, <1>7, <1>9, <1>10, <1>11, ReturnStep

LEMMA EndNegSucceedsSimplifies ==
  ASSUME IInv, JInv, EndNegSucceeds
  PROVE  JInv'
<1>1. PICK c \in CallTypes : c = Top /\ CallFits(c)
  BY TopIs DEF EndNegSucceeds, In
<1>2. /\ calls # <<>> /\ c.op = "neg_succeeds" /\ calls' = Tail(calls) /\ NDEs(c.on) = <<>>
      /\ UNCHANGED <<prog, wfm, status, sccs, conts, ans, rootless, answers, dl, pnde, deferred>>
  BY <1>1 DEF EndNegSucceeds, In
<1>3. (\A r \in Range(deferred)' : InTop(r)) /\ (deferred # <<>> => \E x \in Range(calls) : x.op = "neg_fails_loop")
  BY <1>2 DEF JInv, CallsInTop
<1>4. PICK q : q = {}
  OBVIOUS
<1>5. ASSUME NEW e \in Lists, NEW l \in e.des PROVE Remembers(c, q, l)
  <2>1. \A x : /\ c # Call("pos_unconditional", x) /\ c # Call("pos_unsupported", x)
               /\ c # Call("neg_fails", x) /\ c # Call("neg_fails_loop", x) /\ c # Call("unsupported", x)
    BY <1>2 DEF Call
  <2>2. l.neg => c # Call("neg_succeeds", l.of[1])
    <3>1. l.neg => NDEs(l.of[1]) # <<>>
      BY <1>5, NotHeld
    <3>2. c = Call("neg_succeeds", l.of[1]) => l.of[1] = c.on
      BY DEF Call
    <3> QED BY <1>2, <3>1, <3>2
  <2>3. Completed(l.of[1])' => Completed(l.of[1])
    BY <1>2 DEF Completed
  <2> QED BY <1>2, <2>1, <2>2, <2>3 DEF Remembers
<1>6. /\ \A a \in Atom : ans'[a] = ans[a] \/ (a[1] = Subject(c) /\ Unconditional(a) /\ ans'[a] = "uncond")
      /\ \A r \in Subgoal : answers'[r] = answers[r] \/ (r = Subject(c) /\ answers'[r] # "list")
      /\ \A r \in Subgoal : status'[r] = status[r] \/ (status'[r] = "complete" /\ r = Subject(c))
      /\ \A a \in Atom : ans'[a] = "marked" => c # Call("pos_unconditional", a)
  BY <1>2 DEF Call
<1>7. /\ Top.op # "complete" /\ q = {} /\ (\A x \in q : x.op \in {"neg_fails", "neg_fails_loop"} /\ InTop(x.on) /\ Completing)
      /\ deferred' # <<>> => \/ \E x \in q : x.op = "neg_fails_loop"
                             \/ c.op # "neg_fails_loop" /\ \E x \in Range(calls) : x.op = "neg_fails_loop"
  BY <1>1, <1>2, <1>3, <1>4
<1> QED BY <1>1, <1>2, <1>3, <1>5, <1>6, <1>7, ReturnStep

LEMMA EndPosUnsupportedSimplifies ==
  ASSUME IInv, JInv, EndPosUnsupported
  PROVE  JInv'
<1>1. PICK c \in CallTypes : c = Top /\ CallFits(c)
  BY TopIs DEF EndPosUnsupported, In
<1>2. /\ calls # <<>> /\ c.op = "pos_unsupported" /\ calls' = Tail(calls) /\ pnde[Is(c.on)] = <<>>
      /\ UNCHANGED <<prog, wfm, status, sccs, conts, ans, rootless, answers, dl, pnde, deferred>>
  BY <1>1 DEF EndPosUnsupported, In, tables
<1>3. (\A r \in Range(deferred)' : InTop(r)) /\ (deferred # <<>> => \E x \in Range(calls) : x.op = "neg_fails_loop")
  BY <1>2 DEF JInv, CallsInTop
<1>4. PICK q : q = {}
  OBVIOUS
<1>5. ASSUME NEW e \in Lists, NEW l \in e.des PROVE Remembers(c, q, l)
  <2>1. \A x : /\ c # Call("pos_unconditional", x) /\ c # Call("neg_succeeds", x)
               /\ c # Call("neg_fails", x) /\ c # Call("neg_fails_loop", x) /\ c # Call("unsupported", x)
    BY <1>2 DEF Call
  <2>2. ~l.neg => c # Call("pos_unsupported", l.of)
    <3>1. ~l.neg => pnde[Is(l.of)] # <<>>
      BY <1>5, NotHeld
    <3>2. c = Call("pos_unsupported", l.of) => l.of = c.on
      BY DEF Call
    <3> QED BY <1>2, <3>1, <3>2
  <2>3. Completed(l.of[1])' => Completed(l.of[1])
    BY <1>2 DEF Completed
  <2> QED BY <1>2, <2>1, <2>2, <2>3 DEF Remembers
<1>6. /\ \A a \in Atom : ans'[a] = ans[a] \/ (a[1] = Subject(c) /\ Unconditional(a) /\ ans'[a] = "uncond")
      /\ \A r \in Subgoal : answers'[r] = answers[r] \/ (r = Subject(c) /\ answers'[r] # "list")
      /\ \A r \in Subgoal : status'[r] = status[r] \/ (status'[r] = "complete" /\ r = Subject(c))
      /\ \A a \in Atom : ans'[a] = "marked" => c # Call("pos_unconditional", a)
  BY <1>2 DEF Call
<1>7. /\ Top.op # "complete" /\ q = {} /\ (\A x \in q : x.op \in {"neg_fails", "neg_fails_loop"} /\ InTop(x.on) /\ Completing)
      /\ deferred' # <<>> => \/ \E x \in q : x.op = "neg_fails_loop"
                             \/ c.op # "neg_fails_loop" /\ \E x \in Range(calls) : x.op = "neg_fails_loop"
  BY <1>1, <1>2, <1>3, <1>4
<1> QED BY <1>1, <1>2, <1>3, <1>5, <1>6, <1>7, ReturnStep

LEMMA UnsupportedSimplifies ==
  ASSUME IInv, JInv, Unsupported
  PROVE  JInv'
<1>1. PICK c \in CallTypes : c = Top /\ CallFits(c)
  BY TopIs DEF Unsupported, In
<1>2. PICK s : s = c.on[1]
  OBVIOUS
<1>3. /\ calls # <<>> /\ c.op = "unsupported"
      /\ calls' = (IF Completed(s) /\ SubgoalFails(s) THEN <<Call("neg_fails", s)>> ELSE <<>>) \o Tail(calls)
      /\ UNCHANGED <<prog, wfm, status, sccs, conts, ans, rootless, answers, dl, pnde, deferred>>
  BY <1>1, <1>2 DEF Unsupported, In, tables
<1>4. s = Subject(c) /\ InTop(s) /\ s \in Subgoal /\ Completing /\ Tail(calls) \in Seq(CallTypes)
  <2>1. PICK X \in SUBSET Subgoal : Undecided(X)
    BY DEF JInv
  <2>2. Top.op # "complete"
    BY <1>1, <1>3
  <2>3. PICK d \in CallTypes, r \in Subgoal :
          /\ d = Top /\ r = Subject(d) /\ InTop(r) /\ Tail(calls) \in Seq(CallTypes)
          /\ ~Completing => d.op \in {"pos_unconditional", "early", "neg_succeeds"}
    BY <1>3, <2>1, <2>2, Simplifying
  <2> QED BY <1>1, <1>2, <1>3, <2>3 DEF Subject
<1>5. PICK x : x = Call("neg_fails", s)
  OBVIOUS
<1>6. x \in CallTypes /\ x.op = "neg_fails" /\ x.on = s
  BY <1>4, <1>5 DEF Call, CallTypes
<1>7. PICK q : q = IF Completed(s) /\ SubgoalFails(s) THEN {x} ELSE {}
  OBVIOUS
<1>8. \/ q = {} /\ calls' = Tail(calls)
      \/ \E y \in CallTypes : q = {y} /\ calls' = <<y>> \o Tail(calls)
  <2>1. CASE Completed(s) /\ SubgoalFails(s)
    BY <1>3, <1>5, <1>6, <1>7, <2>1
  <2>2. CASE ~(Completed(s) /\ SubgoalFails(s))
    <3>1. <<>> \o Tail(calls) = Tail(calls)
      BY <1>4
    <3> QED BY <1>3, <1>7, <2>2, <3>1
  <2> QED BY <2>1, <2>2
<1>9. (\A r \in Range(deferred)' : InTop(r)) /\ (deferred # <<>> => \E y \in Range(calls) : y.op = "neg_fails_loop")
  BY <1>3 DEF JInv, CallsInTop
<1>10. ASSUME NEW e \in Lists, NEW l \in e.des PROVE Remembers(c, q, l)
  <2>1. \A y : /\ c # Call("pos_unconditional", y) /\ c # Call("neg_succeeds", y) /\ c # Call("pos_unsupported", y)
               /\ c # Call("neg_fails", y) /\ c # Call("neg_fails_loop", y)
    BY <1>3 DEF Call
  <2>2. c = Call("unsupported", l.of) /\ Completed(l.of[1]) /\ SubgoalFails(l.of[1]) => Call("neg_fails", l.of[1]) \in q
    <3>1. c = Call("unsupported", l.of) => l.of[1] = s
      BY <1>2 DEF Call
    <3> QED BY <1>5, <1>7, <3>1
  <2>3. Completed(l.of[1])' => Completed(l.of[1])
    BY <1>3 DEF Completed
  <2> QED BY <1>3, <2>1, <2>2, <2>3 DEF Remembers
<1>11. /\ \A a \in Atom : ans'[a] = ans[a] \/ (a[1] = Subject(c) /\ Unconditional(a) /\ ans'[a] = "uncond")
       /\ \A r \in Subgoal : answers'[r] = answers[r] \/ (r = Subject(c) /\ answers'[r] # "list")
       /\ \A r \in Subgoal : status'[r] = status[r] \/ (status'[r] = "complete" /\ r = Subject(c))
       /\ \A a \in Atom : ans'[a] = "marked" => c # Call("pos_unconditional", a)
  BY <1>3 DEF Call
<1>12. /\ Top.op # "complete" /\ (\A y \in q : y.op \in {"neg_fails", "neg_fails_loop"} /\ InTop(y.on) /\ Completing)
       /\ deferred' # <<>> => \/ \E y \in q : y.op = "neg_fails_loop"
                              \/ c.op # "neg_fails_loop" /\ \E y \in Range(calls) : y.op = "neg_fails_loop"
  BY <1>1, <1>3, <1>4, <1>6, <1>7, <1>9
<1> QED BY <1>1, <1>3, <1>8, <1>9, <1>10, <1>11, <1>12, ReturnStep

LEMMA StartNegFailsSimplifies ==
  ASSUME IInv, JInv, StartNegFails
  PROVE  JInv'
<1>1. PICK c \in CallTypes : c = Top /\ CallFits(c)
  BY TopIs DEF StartNegFails, In
<1>2. PICK s : s = c.on
  OBVIOUS
<1>3. PICK x : x = Call("neg_fails_loop", s)
  OBVIOUS
<1>4. /\ calls # <<>> /\ c.op = "neg_fails"
      /\ \/ /\ \E i \in DOMAIN calls : calls[i].op = "neg_fails_loop"
            /\ deferred' = Append(deferred, s) /\ calls' = Tail(calls) /\ answers' = answers
         \/ /\ answers' = [answers EXCEPT ![s] = "no"]
            /\ calls' = <<x>> \o Tail(calls) /\ deferred' = deferred
      /\ UNCHANGED <<prog, wfm, status, sccs, conts, ans, rootless, dl, pnde>>
  BY <1>1, <1>2, <1>3 DEF StartNegFails, In
<1>5. s = Subject(c) /\ InTop(s) /\ s \in Subgoal /\ Completing
  <2>1. PICK X \in SUBSET Subgoal : Undecided(X)
    BY DEF JInv
  <2>2. Top.op # "complete"
    BY <1>1, <1>4
  <2>3. PICK d \in CallTypes, r \in Subgoal :
          /\ d = Top /\ r = Subject(d) /\ InTop(r)
          /\ ~Completing => d.op \in {"pos_unconditional", "early", "neg_succeeds"}
    BY <1>4, <2>1, <2>2, Simplifying
  <2> QED BY <1>1, <1>2, <1>4, <2>3 DEF Subject
<1>6. x \in CallTypes /\ x.op = "neg_fails_loop" /\ x.on = s
  BY <1>3, <1>5 DEF Call, CallTypes
<1>7. PICK u : u = deferred
  OBVIOUS
<1>8. u \in Seq(Subgoal) /\ answers \in [Subgoal -> {"list", "no", "cond", "uncond"}]
  BY <1>7 DEF IInv, Types, TableTypes
<1>9. Range(Append(u, s)) = Range(u) \cup {s}
  BY <1>5, <1>8, Appended
<1>10. (\A r \in Range(deferred) : InTop(r)) /\ (deferred # <<>> => \E y \in Range(calls) : y.op = "neg_fails_loop")
  BY DEF JInv, CallsInTop
<1>11. /\ \A a \in Atom : ans'[a] = ans[a] \/ (a[1] = Subject(c) /\ Unconditional(a) /\ ans'[a] = "uncond")
       /\ \A r \in Subgoal : answers'[r] = answers[r] \/ (r = Subject(c) /\ answers'[r] # "list")
       /\ \A r \in Subgoal : status'[r] = status[r] \/ (status'[r] = "complete" /\ r = Subject(c))
       /\ \A a \in Atom : ans'[a] = "marked" => c # Call("pos_unconditional", a)
  BY <1>4, <1>5, <1>8 DEF Call
<1>12. \A y : /\ c # Call("pos_unconditional", y) /\ c # Call("neg_succeeds", y) /\ c # Call("pos_unsupported", y)
              /\ c # Call("unsupported", y) /\ c # Call("neg_fails_loop", y)
              /\ c = Call("neg_fails", y) => y = s
  BY <1>2, <1>4 DEF Call
<1>13. \A r : Completed(r)' <=> Completed(r)
  BY <1>4 DEF Completed
<1>14. CASE (\E i \in DOMAIN calls : calls[i].op = "neg_fails_loop")
            /\ deferred' = Append(deferred, s) /\ calls' = Tail(calls) /\ answers' = answers
  <2>1. PICK q : q = {}
    OBVIOUS
  <2>2. Range(deferred)' = Range(deferred) \cup {s}
    BY <1>7, <1>9, <1>14
  <2>3. \A e \in Lists : \A l \in e.des : Remembers(c, q, l)
    BY <1>12, <1>13, <2>2 DEF Remembers
  <2>4. \E y \in Range(calls) : y.op = "neg_fails_loop"
    BY <1>14 DEF Range
  <2>5. /\ Top.op # "complete" /\ q = {} /\ (\A y \in q : y.op \in {"neg_fails", "neg_fails_loop"} /\ InTop(y.on) /\ Completing)
        /\ deferred' # <<>> => \/ \E y \in q : y.op = "neg_fails_loop"
                               \/ c.op # "neg_fails_loop" /\ \E y \in Range(calls) : y.op = "neg_fails_loop"
    BY <1>1, <1>4, <2>1, <2>4
  <2>6. \A r \in Range(deferred)' : InTop(r)
    BY <1>5, <1>10, <2>2
  <2> QED BY <1>1, <1>4, <1>11, <1>14, <2>3, <2>5, <2>6, ReturnStep
<1>15. CASE answers' = [answers EXCEPT ![s] = "no"] /\ calls' = <<x>> \o Tail(calls) /\ deferred' = deferred
  <2>1. PICK q : q = {x}
    OBVIOUS
  <2>2. \A e \in Lists : \A l \in e.des : Remembers(c, q, l)
    <3> SUFFICES ASSUME NEW e \in Lists, NEW l \in e.des PROVE Remembers(c, q, l)
      OBVIOUS
    <3>1. \A y : c = Call("neg_fails", y) => Call("neg_fails_loop", y) \in q
      BY <1>3, <1>12, <2>1
    <3> QED BY <1>12, <1>13, <1>15, <3>1 DEF Remembers
  <2>3. /\ Top.op # "complete" /\ (\A y \in q : y.op \in {"neg_fails", "neg_fails_loop"} /\ InTop(y.on) /\ Completing)
        /\ deferred' # <<>> => \/ \E y \in q : y.op = "neg_fails_loop"
                               \/ c.op # "neg_fails_loop" /\ \E y \in Range(calls) : y.op = "neg_fails_loop"
        /\ \E y \in CallTypes : q = {y} /\ calls' = <<y>> \o Tail(calls)
    BY <1>1, <1>4, <1>5, <1>6, <1>15, <2>1
  <2>4. \A r \in Range(deferred)' : InTop(r)
    BY <1>10, <1>15
  <2> QED BY <1>1, <1>4, <1>11, <2>2, <2>3, <2>4, ReturnStep
<1> QED BY <1>4, <1>14, <1>15

\* The subgoals that were put off, without the last.
LEMMA FrontAndLast ==
  ASSUME NEW S, NEW u \in Seq(S), u # <<>>
  PROVE  Last(u) \in S /\ Range(u) = Range(Front(u)) \cup {Last(u)}
<1> DEFINE n == Len(u)
           f == Front(u)
<1>1. n \in Nat \ {0} /\ DOMAIN u = 1 .. n /\ Last(u) = u[n]
  BY DEF Last
<1>2. DOMAIN f = 1 .. n - 1 /\ \A i \in 1 .. n - 1 : f[i] = u[i]
  BY <1>1 DEF Front
<1> HIDE DEF n, f
<1>3. \A i \in 1 .. n : i \in 1 .. n - 1 \/ i = n
  BY <1>1
<1>4. \A i \in 1 .. n - 1 : i \in 1 .. n
  BY <1>1
<1>5. Range(u) = Range(f) \cup {u[n]}
  BY <1>1, <1>2, <1>3, <1>4 DEF Range
<1> QED BY <1>1, <1>5 DEF f

LEMMA EndNegFailsSimplifies ==
  ASSUME IInv, JInv, EndNegFails
  PROVE  JInv'
<1>1. PICK c \in CallTypes : c = Top /\ CallFits(c)
  BY TopIs DEF EndNegFails, In
<1>2. PICK u, v : u = deferred /\ v = Last(u)
  OBVIOUS
<1>3. PICK x : x = Call("neg_fails_loop", v)
  OBVIOUS
<1>4. /\ calls # <<>> /\ c.op = "neg_fails_loop" /\ NDEs(c.on) = <<>>
      /\ \/ u = <<>> /\ calls' = Tail(calls) /\ deferred' = u
         \/ u # <<>> /\ calls' = <<x>> \o Tail(calls) /\ deferred' = Front(u)
      /\ UNCHANGED <<prog, wfm, status, sccs, conts, ans, rootless, answers, dl, pnde>>
  BY <1>1, <1>2, <1>3 DEF EndNegFails, In
<1>5. Completing
  <2>1. PICK X \in SUBSET Subgoal : Undecided(X)
    BY DEF JInv
  <2>2. Top.op # "complete"
    BY <1>1, <1>4
  <2>3. PICK d \in CallTypes, r \in Subgoal :
          d = Top /\ (~Completing => d.op \in {"pos_unconditional", "early", "neg_succeeds"})
    BY <1>4, <2>1, <2>2, Simplifying
  <2> QED BY <1>1, <1>4, <2>3
<1>6. u \in Seq(Subgoal)
  BY <1>2 DEF IInv, Types, TableTypes
<1>7. u # <<>> => v \in Subgoal /\ Range(u) = Range(Front(u)) \cup {v}
  BY <1>2, <1>6, FrontAndLast
<1>8. \A r \in Range(u) : InTop(r)
  BY <1>2 DEF JInv, CallsInTop
<1>9. /\ \A a \in Atom : ans'[a] = ans[a] \/ (a[1] = Subject(c) /\ Unconditional(a) /\ ans'[a] = "uncond")
      /\ \A r \in Subgoal : answers'[r] = answers[r] \/ (r = Subject(c) /\ answers'[r] # "list")
      /\ \A r \in Subgoal : status'[r] = status[r] \/ (status'[r] = "complete" /\ r = Subject(c))
      /\ \A a \in Atom : ans'[a] = "marked" => c # Call("pos_unconditional", a)
  BY <1>4 DEF Call
<1>10. \A y : /\ c # Call("pos_unconditional", y) /\ c # Call("neg_succeeds", y) /\ c # Call("pos_unsupported", y)
              /\ c # Call("unsupported", y) /\ c # Call("neg_fails", y)
              /\ c = Call("neg_fails_loop", y) => y = c.on
  BY <1>4 DEF Call
<1>11. \A r : Completed(r)' <=> Completed(r)
  BY <1>4 DEF Completed
<1>12. \A e \in Lists : \A l \in e.des : l.neg => c # Call("neg_fails_loop", l.of[1])
  <2>1. \A e \in Lists : \A l \in e.des : l.neg => NDEs(l.of[1]) # <<>>
    BY NotHeld
  <2> QED BY <1>4, <1>10, <2>1
<1>13. CASE u = <<>> /\ calls' = Tail(calls) /\ deferred' = u
  <2>1. PICK q : q = {}
    OBVIOUS
  <2>2. \A e \in Lists : \A l \in e.des : Remembers(c, q, l)
    BY <1>2, <1>10, <1>11, <1>12, <1>13 DEF Remembers
  <2>3. /\ Top.op # "complete" /\ q = {} /\ (\A y \in q : y.op \in {"neg_fails", "neg_fails_loop"} /\ InTop(y.on) /\ Completing)
        /\ deferred' # <<>> => \/ \E y \in q : y.op = "neg_fails_loop"
                               \/ c.op # "neg_fails_loop" /\ \E y \in Range(calls) : y.op = "neg_fails_loop"
    BY <1>1, <1>4, <1>13, <2>1
  <2>4. \A r \in Range(deferred)' : InTop(r)
    BY <1>8, <1>13
  <2> QED BY <1>1, <1>4, <1>9, <1>13, <2>2, <2>3, <2>4, ReturnStep
<1>14. CASE u # <<>> /\ calls' = <<x>> \o Tail(calls) /\ deferred' = Front(u)
  <2>1. x \in CallTypes /\ x.op = "neg_fails_loop" /\ x.on = v
    BY <1>3, <1>7, <1>14 DEF Call, CallTypes
  <2>2. PICK q : q = {x}
    OBVIOUS
  <2>3. \A e \in Lists : \A l \in e.des : Remembers(c, q, l)
    <3> SUFFICES ASSUME NEW e \in Lists, NEW l \in e.des PROVE Remembers(c, q, l)
      OBVIOUS
    <3>1. \A y \in Range(deferred) : y \in Range(deferred)' \/ Call("neg_fails_loop", y) \in q
      BY <1>2, <1>3, <1>7, <1>14, <2>2
    <3> QED BY <1>10, <1>11, <1>12, <3>1 DEF Remembers
  <2>4. /\ Top.op # "complete" /\ (\A y \in q : y.op \in {"neg_fails", "neg_fails_loop"} /\ InTop(y.on) /\ Completing)
        /\ deferred' # <<>> => \/ \E y \in q : y.op = "neg_fails_loop"
                               \/ c.op # "neg_fails_loop" /\ \E y \in Range(calls) : y.op = "neg_fails_loop"
        /\ \E y \in CallTypes : q = {y} /\ calls' = <<y>> \o Tail(calls)
    BY <1>1, <1>4, <1>5, <1>7, <1>8, <1>14, <2>1, <2>2
  <2>5. \A r \in Range(deferred)' : InTop(r)
    BY <1>7, <1>8, <1>14
  <2> QED BY <1>1, <1>4, <1>9, <2>3, <2>4, <2>5, ReturnStep
<1> QED BY <1>4, <1>13, <1>14

-----------------------------------------------------------------------------
(* Completion: the subgoals of the SCC are taken out of X. *)

LEMMA StartCompletionSimplifies ==
  ASSUME IInv, JInv, StartCompletion
  PROVE  JInv'
<1>1. PICK top, c : top = Last(sccs) /\ c = Call("complete", top)
  OBVIOUS
<1>2. /\ calls = <<>> /\ sccs # <<>> /\ calls' = <<c>>
      /\ UNCHANGED <<prog, wfm, status, sccs, conts, ans, rootless, answers, dl, pnde, deferred>>
  BY <1>1 DEF StartCompletion, Fixpoint
<1>3. c.op = "complete" /\ Range(calls)' = {c} /\ Completing' /\ ~Completing
  <2>1. PICK u : u = calls'
    OBVIOUS
  <2>2. DOMAIN u = {1} /\ u[1] = c /\ Len(u) = 1 /\ u # <<>>
    BY <1>2, <2>1
  <2>3. Range(u) = {c} /\ Last(u) = c
    BY <2>2 DEF Range, Last
  <2> QED BY <1>1, <1>2, <2>1, <2>2, <2>3 DEF Completing, Call
<1>4. PICK X \in SUBSET Subgoal : Undecided(X)
  BY DEF JInv
<1>5. PICK Y : Y = {s \in X : ~InTop(s)}
  OBVIOUS
<1>6. /\ \A s : (InTop(s)' <=> InTop(s)) /\ (OnStack(s)' <=> OnStack(s)) /\ ~Gone(s) /\ (Gone(s)' <=> InTop(s))
      /\ \A s : (Completed(s)' <=> Completed(s)) /\ (Done(s)' <=> Done(s))
      /\ \A r, s : (Mate(r, s)' <=> Mate(r, s)) /\ (Mate(r, s) => (InTop(r) <=> InTop(s)))
      /\ \A a : Unconditional(a)' <=> Unconditional(a)
      /\ Lists' = Lists
  <2>1. \A s : (InTop(s)' <=> InTop(s)) /\ (OnStack(s)' <=> OnStack(s)) /\ (Completed(s)' <=> Completed(s))
    BY <1>2 DEF InTop, OnStack, Completed
  <2>2. \A r, s : (Mate(r, s)' <=> Mate(r, s))
    BY <1>2 DEF Mate
  <2>3. \A s : (Done(s)' <=> Done(s)) /\ ~Gone(s) /\ (Gone(s)' <=> InTop(s))
    BY <1>3, <2>1 DEF Done, Gone
  <2>4. Lists' = Lists /\ \A a : Unconditional(a)' <=> Unconditional(a)
    BY <1>2 DEF Lists, Unconditional
  <2> QED BY <2>1, <2>2, <2>3, <2>4, Mates
<1>7. Y \in SUBSET Subgoal /\ \A s : s \in Y <=> s \in X /\ ~InTop(s)
  BY <1>5
<1>8. ASSUME NEW r, NEW l, Firm(X, r, l)
      PROVE  /\ ~InTop(r) => Firm(Y, r, l)'
             /\ Gone(l.of[1])' \/ Firm(Y, r, l)'
  <2>1. CASE ans[l.of] = "cond" /\ Done(l.of[1])
    BY <1>2, <1>6, <2>1 DEF Firm
  <2>2. CASE /\ l.of[1] \in X /\ Mate(r, l.of[1])
             /\ IF l.neg THEN ~Unconditional(l.of) ELSE ans[l.of] = "cond"
    <3>1. Mate(r, l.of[1])' /\ (InTop(r) <=> InTop(l.of[1]))
      BY <1>6, <2>2
    <3>2. IF l.neg THEN ~Unconditional(l.of)' ELSE ans'[l.of] = "cond"
      BY <1>2, <1>6, <2>2
    <3>3. InTop(l.of[1]) => Gone(l.of[1])'
      BY <1>6
    <3>4. ~InTop(l.of[1]) => Firm(Y, r, l)'
      BY <1>7, <2>2, <3>1, <3>2 DEF Firm
    <3> QED BY <3>1, <3>3, <3>4
  <2> QED BY <1>8, <2>1, <2>2 DEF Firm
<1>9. ASSUME NEW k \in conts PROVE Stuck(Y, k)'
  <2>1. Stuck(X, k)
    BY <1>4 DEF Undecided, Unsettled
  <2>2. Root(k) \in Y => Blocked(Y, k)'
    <3>1. SUFFICES ASSUME Root(k) \in X, ~InTop(Root(k)), Blocked(X, k) PROVE Blocked(Y, k)'
      BY <1>7, <2>1 DEF Stuck
    <3>2. CASE \E l \in k.delays : Firm(X, Root(k), l)
      <4>1. PICK r : r = Root(k)
        OBVIOUS
      <4>2. \E l \in k.delays : Firm(Y, r, l)'
        BY <1>8, <3>1, <3>2, <4>1
      <4> QED BY <4>1, <4>2 DEF Blocked
    <3>3. CASE /\ ~AtEnd(k) /\ Callee(k) \in X /\ Mate(Root(k), Callee(k))
               /\ IF Lit(k).neg THEN k.st = "resumed" ELSE k.st = "wait" /\ ~Unconditional(Lit(k).of)
      <4>1. Callee(k) \in Y
        BY <1>6, <1>7, <3>1, <3>3
      <4> QED BY <1>6, <3>3, <4>1 DEF Blocked
    <3> QED BY <3>1, <3>2, <3>3 DEF Blocked
  <2>3. \A l \in k.delays : l.neg => Gone(l.of[1])' \/ Firm(Y, Root(k), l)'
    BY <1>6, <1>8, <2>1 DEF Stuck
  <2>4. k.st = "resumed" => /\ ~AtEnd(k) /\ Lit(k).neg
                            /\ Done(Callee(k))' \/ Gone(Callee(k))' \/ Callee(k) \in Y
    BY <1>6, <1>7, <2>1 DEF Stuck
  <2> QED BY <2>2, <2>3, <2>4 DEF Stuck
<1>10. ASSUME NEW e \in Lists PROVE Supported(Y, e)'
  <2>1. Supported(X, e)
    BY <1>4 DEF Undecided, Unsettled
  <2>2. PICK r : r = e.asl[1]
    OBVIOUS
  <2>3. r \in Y => \E l \in e.des : Firm(Y, r, l)'
    BY <1>7, <1>8, <2>1, <2>2 DEF Supported
  <2>4. \A l \in e.des : l.neg => Gone(l.of[1])' \/ Firm(Y, r, l)'
    BY <1>6, <1>8, <2>1, <2>2 DEF Supported
  <2> QED BY <2>2, <2>3, <2>4 DEF Supported
<1>11. Undecided(Y)'
  <2>1. \A s \in Y : status'[s] = "incomplete" /\ ~Gone(s)'
    BY <1>2, <1>4, <1>6, <1>7 DEF Undecided, Unsettled
  <2> QED BY <1>2, <1>3, <1>6, <1>9, <1>10, <2>1 DEF Undecided, Unsettled
<1>12. Nearby'
  BY <1>2, <1>6, NearbyStays DEF JInv
<1>13. rootless = {} /\ (\A e \in Lists : \A l \in e.des : Open(l)) /\ (\A a \in Atom : ans[a] # "marked") /\ deferred = <<>>
  <2>1. \A x : x \notin Range(calls)
    BY <1>2 DEF Range
  <2> QED BY <2>1, OpenBetween DEF JInv, CallsInTop
<1>14. CallsInTop'
  <2>1. \A s : s \notin Range(deferred)'
    BY <1>2, <1>13 DEF Range
  <2> QED BY <1>2, <1>3, <1>13, <2>1 DEF CallsInTop
<1>15. AllPending'
  <2>1. ASSUME NEW e \in Lists, NEW l \in e.des PROVE Pending(l)'
    <3>1. Open(l)
      BY <1>13, <2>1
    <3>2. SubgoalFails(l.of[1])' <=> SubgoalFails(l.of[1])
      BY <1>2 DEF SubgoalFails, Has
    <3> QED BY <1>2, <1>6, <3>1, <3>2 DEF Open, Pending
  <2> QED BY <1>2, <1>6, <1>13, <2>1 DEF AllPending
<1>16. Tags'
  BY <1>2, <1>3, <1>6, TagsStay DEF JInv
<1> QED BY <1>7, <1>11, <1>12, <1>14, <1>15, <1>16 DEF JInv

LEMMA CompleteFrameSimplifies ==
  ASSUME IInv, JInv, CompleteFrame
  PROVE  JInv'
<1>1. PICK on \in Seq(Subgoal), top \in Seq(Subgoal) :
           /\ on = Top.on /\ top = Last(sccs) /\ sccs # <<>> /\ Len(calls) = 1 /\ Completing
           /\ Range(on) \subseteq Range(top)
           /\ \A s \in Range(top) : s \in Subgoal /\ InTop(s) /\ Settled(s) /\ (s \in Range(on) \/ Completed(s))
  BY CompletingIs DEF CompleteFrame
<1>2. PICK s, rest : s = Head(on) /\ rest = Tail(on)
  OBVIOUS
<1>3. /\ calls # <<>> /\ Top.op = "complete" /\ on # <<>> /\ status' = [status EXCEPT ![s] = "complete"]
      /\ calls' = (IF NegSimplifPossible(s) THEN <<Call("neg_fails", s)>> ELSE <<>>)
                    \o <<Call("complete", rest)>> \o Tail(calls)
      /\ UNCHANGED <<prog, wfm, sccs, conts, ans, rootless, answers, dl, pnde, needsAC, deferred>>
  BY <1>1, <1>2 DEF CompleteFrame, In, tables
<1>4. s \in Subgoal /\ s \in Range(top) /\ rest \in Seq(Subgoal) /\ InTop(s)
  BY <1>1, <1>2, <1>3, HeadAndTail
<1>5. status \in [Subgoal -> {"new", "incomplete", "complete"}] /\ calls \in Seq(CallTypes)
  BY DEF IInv, Types, TableTypes
<1>6. \A r \in Subgoal : status'[r] = IF r = s THEN "complete" ELSE status[r]
  BY <1>3, <1>4, <1>5
<1>7. \A r \in Subgoal : (Completed(r) => Completed(r)') /\ (Completed(r)' => Completed(r) \/ r = s)
  BY <1>6 DEF Completed
<1>8. PICK c, x : c = Call("complete", rest) /\ x = Call("neg_fails", s)
  OBVIOUS
<1>9. /\ c \in CallTypes /\ c.op = "complete" /\ x \in CallTypes /\ x.op = "neg_fails" /\ Subject(x) = s
  BY <1>4, <1>8 DEF Call, CallTypes, Subject
<1>10. PICK u : u = IF NegSimplifPossible(s) THEN <<x>> ELSE <<>>
  OBVIOUS
<1>11. /\ u \in Seq(CallTypes) /\ (\A y \in Range(u) : y = x)
       /\ NegSimplifPossible(s) => x \in Range(u)
  <2>1. CASE NegSimplifPossible(s)
    <3>1. u \in Seq(CallTypes) /\ DOMAIN u = {1} /\ u[1] = x
      BY <1>9, <1>10, <2>1
    <3> QED BY <3>1 DEF Range
  <2>2. CASE ~NegSimplifPossible(s)
    <3>1. u \in Seq(CallTypes) /\ DOMAIN u = {}
      BY <1>10, <2>2
    <3> QED BY <2>2, <3>1 DEF Range
  <2> QED BY <2>1, <2>2
<1>12. calls' = u \o <<c>>
  <2>1. Tail(calls) = <<>>
    <3>1. Len(calls) = 1
      BY <1>1
    <3> QED BY <1>5, <3>1, TailOfOne
  <2>2. PICK w : w = u \o <<c>>
    OBVIOUS
  <2>3. w \in Seq(CallTypes)
    BY <1>9, <1>11, <2>2
  <2>4. w \o <<>> = w
    BY <2>3
  <2> QED BY <1>3, <1>8, <1>10, <2>1, <2>2, <2>4
<1>13. Range(calls)' = Range(u) \cup {c} /\ Completing'
  <2>1. PICK v : v = <<c>>
    OBVIOUS
  <2>2. v \in Seq(CallTypes) /\ Range(v) = {c}
    <3>1. v \in Seq(CallTypes) /\ DOMAIN v = {1} /\ v[1] = c
      BY <1>9, <2>1
    <3> QED BY <3>1 DEF Range
  <2>3. Range(u \o v) = Range(u) \cup Range(v)
    BY <1>11, <2>2, Concatenated
  <2>4. Completing' <=> c.op = "complete"
    BY <1>9, <1>11, <1>12, LastCall
  <2> QED BY <1>9, <1>12, <2>1, <2>2, <2>3, <2>4
<1>14. PICK X \in SUBSET Subgoal : Undecided(X)
  BY DEF JInv
<1>15. s \notin X
  BY <1>1, <1>4, <1>14 DEF Undecided, Unsettled, Gone
<1>16. Lists' = Lists /\ \A r : (InTop(r)' <=> InTop(r))
  BY <1>3 DEF Lists, InTop
<1>17. Undecided(X)'
  <2>1. PICK m : m = Not(s)
    OBVIOUS
  <2>2. \A r \in Subgoal : status'[r] = status[r] \/ (status'[r] = "complete" /\ r \notin X)
    BY <1>6, <1>15
  <2>3. Completing' <=> Completing
    BY <1>1, <1>13
  <2>4. \A f \in Lists' : f \in Lists
    BY <1>16
  <2>5. sccs' = sccs /\ conts' \subseteq conts /\ \A a \in Atom : ans'[a] = ans[a]
    BY <1>3
  <2> QED BY <1>1, <1>14, <2>2, <2>3, <2>4, <2>5, UndecidedStays
<1>18. Nearby'
  BY <1>3, <1>7, <1>16, NearbyStays DEF JInv
<1>19. rootless = {} /\ (\A e \in Lists : \A l \in e.des : Open(l)) /\ (\A a \in Atom : ans[a] # "marked") /\ deferred = <<>>
  <2>1. \A y \in Range(calls) : y.op = "complete"
    <3>1. DOMAIN calls = {1} /\ calls[1] = Top
      BY <1>1, <1>3, <1>5 DEF Top
    <3> QED BY <1>3, <3>1 DEF Range
  <2> QED BY <2>1, OpenBetween DEF JInv, CallsInTop
<1>20. CallsInTop'
  <2>1. \A r : r \notin Range(deferred)'
    BY <1>3, <1>19 DEF Range
  <2>2. \A y \in Range(calls)' : y = c \/ y = x
    BY <1>11, <1>13
  <2>3. InTop(Subject(x))'
    BY <1>4, <1>9, <1>16
  <2> QED BY <1>3, <1>9, <1>19, <2>1, <2>2, <2>3 DEF CallsInTop
<1>21. AllPending'
  <2>1. ASSUME NEW e \in Lists, NEW l \in e.des PROVE Pending(l)'
    <3>1. Open(l) /\ (l.neg => NDEs(l.of[1]) # <<>>) /\ l.of[1] \in Subgoal
      BY <1>19, <2>1, NotHeld, Atoms
    <3>2. SubgoalFails(l.of[1])' <=> SubgoalFails(l.of[1])
      BY <1>3 DEF SubgoalFails, Has
    <3>3. Unconditional(l.of)' <=> Unconditional(l.of)
      BY <1>3 DEF Unconditional
    <3>4. CASE l.neg
      <4>1. ASSUME Completed(l.of[1])', SubgoalFails(l.of[1]) PROVE Doing("neg_fails", l.of[1])'
        <5>1. l.of[1] = s
          BY <1>7, <3>1, <3>4, <4>1 DEF Open
        <5>2. NegSimplifPossible(s)
          BY <3>1, <3>4, <4>1, <5>1 DEF NegSimplifPossible
        <5>3. x \in Range(calls)'
          BY <1>11, <1>13, <5>2
        <5> QED BY <1>8, <5>1, <5>3 DEF Doing
      <4> QED BY <3>1, <3>2, <3>3, <3>4, <4>1 DEF Open, Pending
    <3>5. CASE ~l.neg
      BY <1>3, <3>1, <3>5 DEF Open, Pending
    <3> QED BY <3>4, <3>5
  <2> QED BY <1>3, <1>16, <1>19, <2>1 DEF AllPending
<1>22. Tags'
  <2>1. \A r \in Subgoal : Completed(r)' => Completed(r) \/ OnStack(r)
    BY <1>4, <1>7, Mates
  <2>2. Completing => Completing'
    BY <1>13
  <2> QED BY <1>3, <2>1, <2>2, TagsStay DEF JInv
<1> QED BY <1>17, <1>18, <1>20, <1>21, <1>22 DEF JInv

\* What the last frame leaves behind: negative literals of the SCC that are not settled
\* hold of conditional answers of completed tables.
LEMMA EndCompletionSimplifies ==
  ASSUME IInv, JInv, EndCompletion
  PROVE  JInv'
<1>1. /\ sccs # <<>> /\ Completing /\ Len(calls) = 1 /\ calls # <<>> /\ Top.op = "complete"
  <2>1. In("complete")
    BY DEF EndCompletion
  <2>2. PICK on \in Seq(Subgoal), top \in Seq(Subgoal) : sccs # <<>> /\ Completing /\ Len(calls) = 1
    BY <2>1, CompletingIs
  <2> QED BY <2>1, <2>2 DEF In
<1>2. PICK freed \in {"cond", "uncond"} :
        answers' = [s \in Subgoal |-> IF InTop(s) THEN Tag(s, freed) ELSE answers[s]]
  BY DEF EndCompletion
<1>3. /\ conts' = {k \in conts : ~InTop(Root(k))}
      /\ UNCHANGED <<prog, wfm, status, ans, rootless, dl, pnde, needsAC, deferred>>
  BY DEF EndCompletion
<1>4. SccLeaves
  BY EndCompletionKeeps
<1>5. /\ calls' = <<>> /\ ~Completing' /\ (\A s : ~Gone(s)') /\ (\A x : x \notin Range(calls)')
  BY <1>4 DEF SccLeaves, Completing, Gone, Range
<1>6. \A s : (Done(s) => Done(s)') /\ (InTop(s) => Done(s)') /\ (Done(s)' => Done(s) \/ InTop(s))
  BY <1>4 DEF SccLeaves, Done
<1>7. /\ \A s : Gone(s) <=> InTop(s)
      /\ \A r, s : Mate(r, s) => (InTop(r) <=> InTop(s))
      /\ \A s : InTop(s) => ~Done(s)
  BY <1>1, Mates DEF Gone
<1>8. Lists' = Lists /\ \A a : Unconditional(a)' <=> Unconditional(a)
  BY <1>3 DEF Lists, Unconditional
<1>9. /\ rootless = {} /\ deferred = <<>>
      /\ \A e \in Lists : \A l \in e.des : l \in Literal /\ Open(l)
      /\ \A a \in Atom : ans[a] # "marked"
  <2>1. \A y \in Range(calls) : y.op = "complete"
    <3>1. PICK u : u = calls
      OBVIOUS
    <3>2. u \in Seq(CallTypes) /\ Len(u) = 1 /\ Head(u).op = "complete"
      BY <1>1, <3>1 DEF IInv, Types, Top
    <3>3. DOMAIN u = {1} /\ u[1] = Head(u)
      BY <3>2
    <3> QED BY <3>1, <3>2, <3>3 DEF Range
  <2> QED BY <2>1, OpenBetween DEF JInv, CallsInTop
<1>10. PICK X \in SUBSET Subgoal : Undecided(X)
  BY DEF JInv
<1>11. \A s \in X : status[s] = "incomplete" /\ ~InTop(s)
  BY <1>7, <1>10 DEF Undecided, Unsettled
<1>12. ASSUME NEW r, NEW l, Firm(X, r, l) PROVE Firm(X, r, l)'
  <2>1. CASE ans[l.of] = "cond" /\ Done(l.of[1])
    BY <1>3, <1>6, <2>1 DEF Firm
  <2>2. CASE /\ l.of[1] \in X /\ Mate(r, l.of[1])
             /\ IF l.neg THEN ~Unconditional(l.of) ELSE ans[l.of] = "cond"
    <3>1. Mate(r, l.of[1])'
      BY <1>4, <1>11, <2>2 DEF SccLeaves
    <3>2. IF l.neg THEN ~Unconditional(l.of)' ELSE ans'[l.of] = "cond"
      BY <1>3, <1>8, <2>2
    <3> QED BY <2>2, <3>1, <3>2 DEF Firm
  <2> QED BY <1>12, <2>1, <2>2 DEF Firm
<1>13. ASSUME NEW k \in conts' PROVE k \in conts /\ ~InTop(Root(k)) /\ \A l \in k.delays : ~InTop(l.of[1])
  <2>1. k \in conts /\ ~InTop(Root(k))
    BY <1>3
  <2>2. \A l \in k.delays : Near(Root(k), l)
    BY <2>1 DEF JInv, Nearby
  <2> QED BY <1>7, <2>1, <2>2 DEF Near
<1>14. ASSUME NEW k \in conts' PROVE Stuck(X, k)'
  <2>1. Stuck(X, k) /\ k \in conts
    BY <1>10, <1>13 DEF Undecided, Unsettled
  <2>2. Root(k) \in X => Blocked(X, k)'
    <3>1. SUFFICES ASSUME Blocked(X, k) PROVE Blocked(X, k)'
      BY <2>1 DEF Stuck
    <3>2. CASE \E l \in k.delays : Firm(X, Root(k), l)
      <4>1. PICK r : r = Root(k)
        OBVIOUS
      <4>2. \E l \in k.delays : Firm(X, r, l)'
        BY <1>12, <3>2, <4>1
      <4> QED BY <4>1, <4>2 DEF Blocked
    <3>3. CASE /\ ~AtEnd(k) /\ Callee(k) \in X /\ Mate(Root(k), Callee(k))
               /\ IF Lit(k).neg THEN k.st = "resumed" ELSE k.st = "wait" /\ ~Unconditional(Lit(k).of)
      <4>1. Mate(Root(k), Callee(k))'
        BY <1>4, <1>11, <3>3 DEF SccLeaves
      <4> QED BY <1>8, <3>3, <4>1 DEF Blocked
    <3> QED BY <3>1, <3>2, <3>3 DEF Blocked
  <2>3. \A l \in k.delays : l.neg => Firm(X, Root(k), l)'
    <3>1. PICK r : r = Root(k)
      OBVIOUS
    <3>2. \A l \in k.delays : l.neg => Firm(X, r, l)
      BY <1>7, <1>13, <2>1, <3>1 DEF Stuck
    <3>3. \A l \in k.delays : l.neg => Firm(X, r, l)'
      BY <1>12, <3>2
    <3> QED BY <3>1, <3>3
  <2>4. k.st = "resumed" => /\ ~AtEnd(k) /\ Lit(k).neg
                            /\ Done(Callee(k))' \/ Callee(k) \in X
    BY <1>6, <1>7, <2>1 DEF Stuck
  <2> QED BY <2>2, <2>3, <2>4 DEF Stuck
<1>15. ASSUME NEW e \in Lists, NEW l \in e.des, l.neg, InTop(l.of[1]) PROVE \A r : Firm(X, r, l)'
  <2>1. PICK s : s = l.of[1]
    OBVIOUS
  <2>2. l \in Literal /\ l.of = <<s, 0>> /\ <<s, 0>> \in Atom /\ Open(l)
    BY <1>9, <1>15, <2>1, NotHeld
  <2>3. Completed(s)
    BY <1>4, <1>15, <2>1 DEF SccLeaves
  <2>4. ~Unconditional(l.of) /\ ~SubgoalFails(s)
    BY <1>15, <2>1, <2>2, <2>3 DEF Open
  <2>5. ans[<<s, 0>>] \in {"cond", "marked", "uncond"}
    <3>1. CallsInTop
      BY DEF JInv
    <3> QED BY <2>2, <2>4, <3>1, Ground
  <2>6. ans[l.of] = "cond"
    BY <2>2, <2>4, <2>5 DEF Unconditional
  <2>7. ans'[l.of] = "cond" /\ Done(l.of[1])'
    BY <1>3, <1>6, <1>15, <2>6
  <2> QED BY <2>7 DEF Firm
<1>16. ASSUME NEW e \in Lists PROVE Supported(X, e)'
  <2>1. Supported(X, e)
    BY <1>10 DEF Undecided, Unsettled
  <2>2. PICK r : r = e.asl[1]
    OBVIOUS
  <2>3. r \in X => \E l \in e.des : Firm(X, r, l)'
    BY <1>12, <2>1, <2>2 DEF Supported
  <2>4. \A l \in e.des : l.neg => Firm(X, r, l)'
    BY <1>7, <1>12, <1>15, <2>1, <2>2 DEF Supported
  <2> QED BY <2>2, <2>3, <2>4 DEF Supported
<1>17. Undecided(X)'
  BY <1>3, <1>5, <1>8, <1>11, <1>14, <1>16 DEF Undecided, Unsettled
<1>18. Nearby'
  <2>1. \A r, l : Near(r, l) => Near(r, l)'
    BY <1>4, <1>6 DEF Near, SccLeaves
  <2> QED BY <1>3, <1>8, <2>1 DEF JInv, Nearby
<1>19. CallsInTop'
  <2>1. \A s : s \notin Range(deferred)'
    BY <1>3, <1>9 DEF Range
  <2> QED BY <1>3, <1>5, <1>9, <2>1 DEF CallsInTop
<1>20. AllPending'
  <2>1. ASSUME NEW e \in Lists, NEW l \in e.des PROVE Pending(l)'
    <3>1. Open(l)
      BY <1>9, <2>1
    <3>2. SubgoalFails(l.of[1])' <=> SubgoalFails(l.of[1])
      BY <1>3 DEF SubgoalFails, Has
    <3>3. (Unconditional(l.of)' <=> Unconditional(l.of)) /\ (Completed(l.of[1])' <=> Completed(l.of[1]))
      BY <1>3 DEF Unconditional, Completed
    <3> QED BY <1>3, <3>1, <3>2, <3>3 DEF Open, Pending
  <2> QED BY <1>3, <1>8, <1>9, <2>1 DEF AllPending
<1>21. Tags'
  <2>1. ASSUME NEW s \in Subgoal, Done(s)'
        PROVE  answers'[s] # "list" /\ (<<s, 0>> \in Atom => answers'[s] = TagIs(s)')
    <3>1. TagIs(s)' = TagIs(s)
      BY <1>3 DEF TagIs, Unconditional
    <3>2. CASE InTop(s)
      <4>1. answers'[s] = Tag(s, freed)
        BY <1>2, <2>1, <3>2
      <4>2. Tag(s, freed) # "list"
        BY DEF Tag
      <4>3. ASSUME <<s, 0>> \in Atom PROVE Tag(s, freed) = TagIs(s)
        <5>1. CallsInTop
          BY DEF JInv
        <5>2. Of(s) = {<<s, 0>>} /\ (SubgoalFails(s) <=> ans[<<s, 0>>] \notin {"cond", "marked", "uncond"})
          BY <4>3, <5>1, Ground
        <5> QED BY <5>2 DEF Tag, TagIs, Unconditional
      <4> QED BY <3>1, <4>1, <4>2, <4>3
    <3>3. CASE ~InTop(s)
      <4>1. answers'[s] = answers[s] /\ Done(s)
        BY <1>2, <1>6, <2>1, <3>3
      <4> QED BY <2>1, <3>1, <4>1 DEF JInv, Tags
    <3> QED BY <3>2, <3>3
  <2>2. ASSUME NEW a \in Atom, ans'[a] = "deleted" PROVE answers'[a[1]] # "list" \/ Gone(a[1])'
    <3>1. PICK s \in Subgoal : s = a[1]
      BY Atoms
    <3>2. answers[s] # "list" \/ InTop(s)
      BY <1>3, <1>7, <2>2, <3>1 DEF JInv, Tags
    <3>3. Tag(s, freed) # "list"
      BY DEF Tag
    <3>4. answers'[s] # "list"
      BY <1>2, <3>2, <3>3
    <3> QED BY <3>1, <3>4
  <2>3. ASSUME NEW k \in conts', NEW l \in k.delays
        PROVE  l.neg \/ ans'[l.of] \in {"cond", "marked", "uncond"} \/ Gone(l.of[1])'
    <3>1. k \in conts /\ ~Gone(l.of[1])
      BY <1>7, <1>13, <2>3
    <3> QED BY <1>3, <2>3, <3>1 DEF JInv, Tags
  <2> QED BY <2>1, <2>2, <2>3 DEF Tags
<1> QED BY <1>17, <1>18, <1>19, <1>20, <1>21 DEF JInv

-----------------------------------------------------------------------------
(* The theorem *)

\* Only the calls change.
LEMMA TablesStay ==
  ASSUME UNCHANGED <<prog, status, sccs, conts, ans, rootless, answers, dl, pnde, deferred>>,
         Completing' <=> Completing,
         \A op, x : op # "ac" /\ Doing(op, x) => Doing(op, x)'
  PROVE  /\ Nearby => Nearby'
         /\ \A X : Unsettled(X) => Unsettled(X)'
         /\ AllPending => AllPending'
         /\ Tags => Tags'
<1>1. /\ \A s : (OnStack(s)' <=> OnStack(s)) /\ (InTop(s)' <=> InTop(s)) /\ (Completed(s)' <=> Completed(s))
      /\ \A r, s : Mate(r, s)' <=> Mate(r, s)
      /\ Lists' = Lists
      /\ \A s : SubgoalFails(s)' <=> SubgoalFails(s)
      /\ \A a : Unconditional(a)' <=> Unconditional(a)
  BY DEF OnStack, InTop, Completed, Mate, Lists, SubgoalFails, Has, Unconditional
<1>2. \A s : (Done(s)' <=> Done(s)) /\ (Gone(s)' <=> Gone(s))
  BY <1>1 DEF Done, Gone
<1>3. Nearby => Nearby'
  BY <1>1, <1>2 DEF Nearby, Near
<1>4. ASSUME NEW X, Unsettled(X) PROVE Unsettled(X)'
  <2>1. \A r, l : Firm(X, r, l)' <=> Firm(X, r, l)
    BY <1>1, <1>2 DEF Firm
  <2>2. \A k : Stuck(X, k) => Stuck(X, k)'
    BY <1>1, <1>2, <2>1 DEF Stuck, Blocked
  <2>3. \A e : Supported(X, e) => Supported(X, e)'
    BY <1>2, <2>1 DEF Supported
  <2> QED BY <1>1, <1>2, <1>4, <2>2, <2>3 DEF Unsettled
<1>5. AllPending => AllPending'
  <2>1. \A op, x : op \in {"pos_unconditional", "pos_unsupported", "neg_succeeds", "neg_fails", "neg_fails_loop",
                          "unsupported"} => (Doing(op, x) => Doing(op, x)')
    OBVIOUS
  <2>2. \A l : Pending(l) => Pending(l)'
    BY <1>1, <2>1 DEF Pending
  <2> QED BY <1>1, <2>1, <2>2 DEF AllPending
<1>6. Tags => Tags'
  BY <1>1, <1>2 DEF Tags, TagIs
<1> QED BY <1>3, <1>4, <1>5, <1>6

LEMMA StutterSimplifies ==
  ASSUME UNCHANGED vars
  PROVE  (JInv => JInv') /\ (Paused => Paused')
<1>1. UNCHANGED <<prog, status, sccs, conts, ans, rootless, answers, dl, pnde, deferred, calls>>
  BY DEF vars, tables
<1>2. /\ Completing' <=> Completing
      /\ \A op, x : Doing(op, x)' <=> Doing(op, x)
      /\ In("ac")' <=> In("ac")
  BY <1>1 DEF Completing, Doing, In, Top
<1>3. /\ Nearby => Nearby'
      /\ \A X : Unsettled(X) => Unsettled(X)'
      /\ AllPending => AllPending'
      /\ Tags => Tags'
  BY <1>1, <1>2, TablesStay
<1>4. CallsInTop => CallsInTop'
  <2>1. \A s : InTop(s)' <=> InTop(s)
    BY <1>1 DEF InTop
  <2> QED BY <1>1, <2>1 DEF CallsInTop
<1>5. \A X : Undecided(X) => Undecided(X)'
  BY <1>1, <1>2, <1>3 DEF Undecided
<1> QED BY <1>1, <1>2, <1>3, <1>4, <1>5 DEF JInv, Paused

\* There is nothing to simplify at the start.
LEMMA InitSimplifies == Init => JInv
<1> SUFFICES ASSUME Init PROVE JInv
  OBVIOUS
<1>1. PICK q : q = prog.query
  OBVIOUS
<1>2. /\ prog \in Programs /\ status = [s \in Subgoal |-> IF s = q THEN "incomplete" ELSE "new"]
      /\ conts = Start(q) /\ ans = [a \in Atom |-> "none"] /\ rootless = {}
      /\ answers = [s \in Subgoal |-> "list"] /\ dl = <<>>
      /\ deferred = <<>> /\ calls = <<>>
  BY <1>1 DEF Init
<1>3. /\ \A k \in conts : k.delays = {} /\ k.st = "run"
      /\ Lists = {}
      /\ \A c : c \notin Range(calls)
      /\ \A s : s \notin Range(deferred)
  BY <1>2 DEF Start, Lists, Range
<1>4. \A s \in Subgoal : ~Completed(s) /\ ~Done(s)
  BY <1>2 DEF Completed, Done
<1>5. Undecided({})
  BY <1>3 DEF Undecided, Unsettled, Stuck, Supported
<1>6. Nearby /\ CallsInTop /\ AllPending /\ Tags
  BY <1>2, <1>3, <1>4 DEF Nearby, CallsInTop, AllPending, Tags
<1> QED BY <1>5, <1>6 DEF JInv

\* Answer completion begins.
LEMMA AnswerCompletionSimplifies ==
  ASSUME IInv, JInv, NEW k \in conts, AnswerCompletion(k)
  PROVE  Paused'
<1>1. PICK c : c = Call("ac", AnswersToComplete(Callee(k)))
  OBVIOUS
<1>2. /\ calls = <<>> /\ calls' = <<c>> /\ c.op = "ac"
      /\ UNCHANGED <<prog, status, sccs, conts, ans, rootless, answers, dl, pnde, deferred>>
  BY <1>1 DEF AnswerCompletion, Active, tables, Call
<1>3. ~Completing /\ ~Completing' /\ In("ac")'
  BY <1>2 DEF Completing, Last, In, Top
<1>4. \A op, x : ~Doing(op, x)
  BY <1>2 DEF Doing, Range
<1>5. deferred = <<>>
  BY <1>2 DEF JInv, CallsInTop, Range
<1>6. PICK X \in SUBSET Subgoal : Unsettled(X)
  BY DEF JInv, Undecided
<1>7. Nearby' /\ Unsettled(X)' /\ AllPending' /\ Tags'
  BY <1>2, <1>3, <1>4, <1>6, TablesStay DEF JInv
<1> QED BY <1>2, <1>3, <1>5, <1>7 DEF JInv, CallsInTop, Paused

\* It ends, and has not made an answer false.
LEMMA EndAnswerCompletionSimplifies ==
  ASSUME IInv, Paused, EndAnswerCompletion
  PROVE  JInv'
<1>1. PICK c \in CallTypes : c = Top /\ (c.op = "ac" => Len(calls) = 1)
  BY TopIs DEF EndAnswerCompletion, In
<1>2. PICK u : u = calls
  OBVIOUS
<1>3. u \in Seq(CallTypes) /\ Len(u) = 1 /\ c = u[1] /\ c.op = "ac" /\ calls' = Tail(u)
  BY <1>1, <1>2 DEF EndAnswerCompletion, In, IInv, Types, Top
<1>4. calls' = <<>> /\ Range(u) = {c}
  BY <1>3 DEF Range
<1>5. UNCHANGED <<prog, status, sccs, conts, ans, rootless, answers, dl, pnde, deferred>>
  BY DEF EndAnswerCompletion
<1>6. ~Completing /\ ~Completing'
  BY <1>2, <1>3, <1>4 DEF Completing, Last
<1>7. \A op, x : op # "ac" => ~Doing(op, x)
  BY <1>2, <1>3, <1>4 DEF Doing, Call
<1>8. PICK X \in SUBSET Subgoal : Unsettled(X)
  BY DEF Paused
<1>9. Nearby' /\ Unsettled(X)' /\ AllPending' /\ Tags'
  BY <1>5, <1>6, <1>7, <1>8, TablesStay DEF Paused
<1>10. \A x : x \notin Range(calls)'
  BY <1>4 DEF Range
<1>11. Undecided(X)'
  BY <1>9, <1>10 DEF Undecided
<1>12. CallsInTop'
  <2>1. deferred' = <<>> /\ rootless' = {} /\ \A s : s \notin Range(deferred)'
    BY <1>5 DEF Paused, Range
  <2> QED BY <1>10, <2>1 DEF CallsInTop
<1> QED BY <1>9, <1>11, <1>12 DEF JInv

LEMMA NextSimplifies ==
  ASSUME IInv, JInv \/ Paused, [Next]_vars, ~Forced'
  PROVE  JInv' \/ Paused'
<1>1. CASE UNCHANGED vars
  BY <1>1, StutterSimplifies
<1>2. CASE JInv /\ Next
  <2>1. ~In("ac") /\ ~In("failed")
    <3> SUFFICES ASSUME calls # <<>> PROVE Top.op \notin {"ac", "failed"}
      BY DEF In
    <3>1. PICK u : u = calls
      OBVIOUS
    <3>2. u \in Seq(CallTypes) /\ u # <<>>
      BY <3>1 DEF IInv, Types
    <3>3. Top \in Range(calls)
      BY <3>1, <3>2, HeadAndTail DEF Top
    <3> QED BY <1>2, <3>3 DEF JInv, CallsInTop
  <2>2. CASE \E k \in conts : CallNew(k) \/ CallIncomplete(k) \/ Return(k) \/ SlgNot(k) \/ AnswerCompletion(k)
    BY <1>2, <2>2, CallsSimplify, ReturnSimplifies, SlgNotSimplifies, AnswerCompletionSimplifies
  <2>3. CASE \E k \in conts : Exhausted(k) \/ RejectAnswer(k)
    BY <1>2, <2>3, EndsSimplify
  <2>4. CASE \E k \in conts : ConditionalAnswer(k) \/ UnconditionalAnswer(k) \/ BecomesUnconditional(k)
    BY <1>2, <2>4, ConditionalAnswerSimplifies, UnconditionalAnswerSimplifies, BecomesUnconditionalSimplifies
  <2>5. CASE DelayAll \/ StartCompletion \/ CompleteFrame \/ EndCompletion
    BY <1>2, <2>5, DelayAllSimplifies, StartCompletionSimplifies, CompleteFrameSimplifies, EndCompletionSimplifies
  <2>6. CASE PosUnconditional \/ PosUnsupported \/ NegSucceeds \/ NegFails
    BY <1>2, <2>6, LoopsSimplify
  <2>7. CASE EndPosUnconditional \/ EarlyCompletion \/ EndNegSucceeds \/ EndPosUnsupported \/ Unsupported
    BY <1>2, <2>7, EndPosUnconditionalSimplifies, EarlyCompletionSimplifies, EndNegSucceedsSimplifies,
       EndPosUnsupportedSimplifies, UnsupportedSimplifies
  <2>8. CASE StartNegFails \/ EndNegFails
    BY <1>2, <2>8, StartNegFailsSimplifies, EndNegFailsSimplifies
  <2>9. ~MarkSubgoalFailed /\ ~EndAnswerCompletion /\ \A a \in Atom : ~ForceFalse(a)
    BY <2>1 DEF MarkSubgoalFailed, EndAnswerCompletion, ForceFalse
  <2> QED BY <1>2, <2>2, <2>3, <2>4, <2>5, <2>6, <2>7, <2>8, <2>9 DEF Next
<1>3. CASE Paused /\ Next
  <2>1. calls # <<>> /\ Top.op = "ac"
    BY <1>3 DEF Paused, In
  <2>2. \A a \in Atom : ~ForceFalse(a)
    <3> SUFFICES ASSUME NEW a \in Atom, ForceFalse(a) PROVE FALSE
      OBVIOUS
    <3>1. PICK x, y, z : x = Call("pos_unsupported", a) /\ y = Call("failed", a[1]) /\ z = Call("neg_fails", a[1])
      OBVIOUS
    <3>2. calls' = <<x, y, z>> \o calls /\ y.op = "failed"
      BY <3>1 DEF ForceFalse, Call
    <3>3. y \in Range(calls)'
      <4>1. PICK S, p, u : S = CallTypes \cup {x, y, z} /\ p = <<x, y, z>> /\ u = calls
        OBVIOUS
      <4>2. p \in Seq(S) /\ u \in Seq(S) /\ y \in Range(p)
        BY <4>1 DEF IInv, Types, Range
      <4>3. y \in Range(p \o u)
        BY <4>2, Concatenated
      <4> QED BY <3>2, <4>1, <4>3
    <3> QED BY <3>2, <3>3 DEF Forced
  <2>3. EndAnswerCompletion
    BY <1>3, <2>1, <2>2 DEF Next, In, Active, Fixpoint, CallNew, CallIncomplete, Return, Exhausted, SlgNot,
       RejectAnswer, ConditionalAnswer, UnconditionalAnswer, BecomesUnconditional, AnswerCompletion, DelayAll,
       StartCompletion, CompleteFrame, EndCompletion, PosUnconditional, EndPosUnconditional, EarlyCompletion,
       NegSucceeds, EndNegSucceeds, PosUnsupported, EndPosUnsupported, Unsupported, StartNegFails, NegFails,
       EndNegFails, MarkSubgoalFailed
  <2> QED BY <1>3, <2>3, EndAnswerCompletionSimplifies
<1> QED BY <1>1, <1>2, <1>3

\* A call that is under way stays so while others are called and return.
LEMMA CallStays ==
  ASSUME IInv, calls # <<>>, NEW c \in Range(calls), NEW P, NEW p \in Seq(P), NEW rest,
         rest = calls \/ (rest = Tail(calls) /\ Top # c), calls' = p \o rest
  PROVE  c \in Range(calls)'
<1>1. PICK u, S : u = calls /\ S = CallTypes \cup P
  OBVIOUS
<1>2. u \in Seq(S) /\ p \in Seq(S) /\ u # <<>>
  BY <1>1 DEF IInv, Types
<1>3. Tail(u) \in Seq(S) /\ Range(u) = {Head(u)} \cup Range(Tail(u))
  BY <1>2, HeadAndTail
<1>4. rest \in Seq(S) /\ c \in Range(rest)
  BY <1>1, <1>2, <1>3 DEF Top
<1>5. c \in Range(p \o rest)
  BY <1>2, <1>4, Concatenated
<1> QED BY <1>5

\* What answer completion has made false is not forgotten.
LEMMA ForcedStays ==
  ASSUME IInv, [Next]_vars, Forced
  PROVE  Forced'
<1>1. CASE UNCHANGED vars
  BY <1>1 DEF Forced, vars, tables
<1>2. CASE rootless # {} /\ Next
  <2>1. rootless \subseteq rootless'
    BY <1>2 DEF Next, tables, CallNew, CallIncomplete, Return, Exhausted, SlgNot, RejectAnswer, ConditionalAnswer,
       UnconditionalAnswer, BecomesUnconditional, AnswerCompletion, DelayAll, StartCompletion, CompleteFrame,
       EndCompletion, PosUnconditional, EndPosUnconditional, EarlyCompletion, NegSucceeds, EndNegSucceeds,
       PosUnsupported, EndPosUnsupported, Unsupported, StartNegFails, NegFails, EndNegFails, RemoveDE, RemoveDL,
       ForceFalse, MarkSubgoalFailed, EndAnswerCompletion
  <2> QED BY <1>2, <2>1 DEF Forced
<1>3. ASSUME NEW c \in Range(calls), c.op = "failed", Next PROVE Forced'
  <2>1. calls # <<>> /\ calls \in Seq(CallTypes) /\ Tail(calls) \in Seq(CallTypes)
    <3>1. calls # <<>>
      BY DEF Range
    <3> QED BY <3>1 DEF IInv, Types
  <2>2. <<>> \in Seq({c}) /\ <<>> \o calls = calls /\ <<>> \o Tail(calls) = Tail(calls)
    BY <2>1
  <2>3. calls' = calls \/ (calls' = Tail(calls) /\ Top.op # "failed") => Forced'
    <3>1. calls' = <<>> \o calls \/ (calls' = <<>> \o Tail(calls) /\ Top # c) => c \in Range(calls)'
      BY <2>1, <2>2, CallStays
    <3> QED BY <1>3, <2>2, <3>1 DEF Forced
  <2>4. ASSUME NEW x, calls' = <<x>> \o Tail(calls), Top.op # "failed" PROVE Forced'
    <3>1. <<x>> \in Seq({x})
      OBVIOUS
    <3>2. c \in Range(calls)'
      BY <1>3, <2>1, <2>4, <3>1, CallStays
    <3> QED BY <1>3, <3>2 DEF Forced
  <2>5. ASSUME NEW x, NEW y, NEW z, calls' = <<x, y, z>> \o calls \/ calls' = <<x, y>> \o calls PROVE Forced'
    <3>1. <<x, y, z>> \in Seq({x, y, z}) /\ <<x, y>> \in Seq({x, y, z})
      OBVIOUS
    <3>2. c \in Range(calls)'
      BY <2>1, <2>5, <3>1, CallStays
    <3> QED BY <1>3, <3>2 DEF Forced
  <2>6. ~In("complete")
    <3> SUFFICES ASSUME In("complete") PROVE FALSE
      OBVIOUS
    <3>1. PICK d \in CallTypes : d = Top /\ (d.op \in {"complete", "ac"} => Len(calls) = 1)
      BY <2>1, TopIs
    <3>2. Top.op = "complete" /\ Len(calls) = 1 /\ Top = calls[1]
      BY <2>1, <3>1 DEF In, Top
    <3>3. c = Top
      BY <2>1, <3>2 DEF Range
    <3> QED BY <1>3, <3>2, <3>3
  <2>7. CASE PosUnconditional \/ PosUnsupported \/ NegSucceeds \/ NegFails
    <3>1. \A l : RemoveDE(l) \/ RemoveDL(l) => Forced'
      <4>1. ASSUME NEW l, RemoveDE(l) PROVE Forced'
        BY <2>3, <2>5, <4>1 DEF RemoveDE
      <4>2. ASSUME NEW l, RemoveDL(l) PROVE Forced'
        BY <2>3, <2>5, <4>2 DEF RemoveDL
      <4> QED BY <4>1, <4>2
    <3> QED BY <2>7, <3>1 DEF PosUnconditional, PosUnsupported, NegSucceeds, NegFails
  <2>8. CASE EndPosUnconditional \/ EarlyCompletion \/ EndNegSucceeds \/ EndPosUnsupported \/ EndAnswerCompletion
    <3>1. calls' = Tail(calls) /\ Top.op # "failed"
      BY <2>8 DEF EndPosUnconditional, EarlyCompletion, EndNegSucceeds, EndPosUnsupported, EndAnswerCompletion, In
    <3> QED BY <2>3, <3>1
  <2>9. CASE Unsupported \/ StartNegFails \/ EndNegFails
    <3>1. /\ Top.op # "failed"
          /\ calls' = Tail(calls) \/ calls' = <<>> \o Tail(calls) \/ \E x : calls' = <<x>> \o Tail(calls)
      BY <2>9 DEF Unsupported, StartNegFails, EndNegFails, In
    <3> QED BY <2>2, <2>3, <2>4, <3>1
  <2>10. CASE \E a \in Atom : ForceFalse(a)
    BY <2>5, <2>10 DEF ForceFalse
  <2>11. CASE MarkSubgoalFailed
    <3>1. rootless' # {}
      BY <2>11 DEF MarkSubgoalFailed
    <3> QED BY <3>1 DEF Forced
  <2> QED
    BY <1>3, <2>1, <2>6, <2>7, <2>8, <2>9, <2>10, <2>11 DEF Next, Active, Fixpoint, CallNew, CallIncomplete,
       Return, Exhausted, SlgNot, RejectAnswer, ConditionalAnswer, UnconditionalAnswer, BecomesUnconditional,
       AnswerCompletion, DelayAll, StartCompletion, CompleteFrame, EndCompletion
<1> QED BY <1>1, <1>2, <1>3 DEF Forced

\* Between two steps of clause resolution the calls are done.
LEMMA JInvSimplified ==
  ASSUME IInv, JInv
  PROVE  Simplified
<1> SUFFICES ASSUME calls = <<>> PROVE Simplified
  BY DEF Simplified
<1>1. /\ \A e \in Lists : \A l \in e.des : l \in Literal /\ Open(l)
      /\ \A a \in Atom : ans[a] # "marked"
  BY AllOpen
<1>2. \A s : ~Gone(s) /\ (Settled(s) => Done(s))
  BY DEF Gone, Settled, Completing
<1>3. ASSUME NEW l \in Literal, Open(l), l.neg, l.of = <<l.of[1], 0>>
      PROVE  ~HasUnconditional(l.of[1])
  <2>1. PICK s : s = l.of[1]
    OBVIOUS
  <2>2. <<s, 0>> \in Atom /\ s \in Subgoal /\ ~Unconditional(<<s, 0>>)
    BY <1>3, <2>1, Atoms DEF Open
  <2>3. Of(s) = {<<s, 0>>}
    BY <2>2, Ground DEF JInv
  <2>4. answers[s] # "list" => answers[s] # "uncond"
    <3>1. answers[s] # "list" => Done(s)
      BY <1>2, <2>2, Kept
    <3> QED BY <2>2, <3>1 DEF JInv, Tags, TagIs
  <2> QED BY <2>1, <2>2, <2>3, <2>4 DEF HasUnconditional
<1>4. ASSUME NEW d \in DOMAIN dl, NEW l \in dl[d].des
      PROVE  IF l.neg THEN ~HasUnconditional(l.of[1]) /\ ~(Completed(l.of[1]) /\ SubgoalFails(l.of[1]))
                      ELSE ans[l.of] = "cond"
  <2>1. PICK e : e = dl[d]
    OBVIOUS
  <2>2. e \in Lists /\ l \in e.des
    BY <1>4, <2>1 DEF Lists
  <2>3. l \in Literal /\ Open(l) /\ (l.neg => l.of = <<l.of[1], 0>>)
    BY <1>1, <2>2 DEF JInv, Nearby, Near
  <2> QED BY <1>3, <2>3 DEF Open
<1>5. \A a \in Atom : answers[a[1]] = "list" => ans[a] # "deleted"
  BY <1>2 DEF JInv, Tags
<1>6. \A k \in conts : \A l \in k.delays : l.neg \/ ans[l.of] \in {"cond", "uncond"}
  <2>1. \A k \in conts : \A l \in k.delays : l.of \in Atom
    BY Held, Atoms
  <2> QED BY <1>1, <1>2, <2>1 DEF JInv, Tags
<1> QED BY <1>4, <1>5, <1>6 DEF Simplified

\* simplify_pos_unconditional, simplify_neg_succeeds, simplify_pos_unsupported and
\* simplify_neg_fails together with was_simplifiable: as long as answer completion has
\* not taken the root of an answer trie away, which it does for every answer that it
\* makes false, no delay list has a literal that is settled when simplification is over,
\* whether it was settled before the list was made, while the clauses of its SCC were
\* resolved, or by the completion of its SCC; and no deleted answer is found through a
\* list of answers or in the delays of an environment.
THEOREM NothingIsLeftToSimplify == Spec => [](rootless = {} => Simplified)
<1> DEFINE KInv == Forced \/ JInv \/ Paused
<1>1. Init => KInv
  BY InitSimplifies
<1>2. IInv /\ KInv /\ [Next]_vars => KInv'
  <2> SUFFICES ASSUME IInv, KInv, [Next]_vars, ~Forced' PROVE JInv' \/ Paused'
    OBVIOUS
  <2>1. ~Forced
    BY ForcedStays
  <2>2. JInv \/ Paused
    BY <2>1
  <2> QED BY <2>2, NextSimplifies
<1>3. IInv /\ KInv => (rootless = {} => Simplified)
  <2> SUFFICES ASSUME IInv, KInv, rootless = {}, calls = <<>> PROVE Simplified
    BY DEF Simplified
  <2>1. ~Forced /\ ~Paused
    BY DEF Forced, Paused, In, Range
  <2>2. JInv
    BY <2>1
  <2> QED BY <2>2, JInvSimplified
<1> HIDE DEF KInv
<1> QED BY <1>1, <1>2, <1>3, Invariant, PTL DEF Spec
=============================================================================
