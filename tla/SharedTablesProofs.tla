------------------------- MODULE SharedTablesProofs -------------------------
(***************************************************************************)
(* Types, completion and wake-ups of shared tables, for every set of       *)
(* threads and tables and however often tables are usurped.  Completion    *)
(* rests on the completion stacks alone: a call that is over is a call of  *)
(* a completed table or of a table in the same SCC of the same stack, and  *)
(* a stack is only ever cut below an SCC.  A usurped table that has gone   *)
(* astray counts as over whatever becomes of it.                           *)
(***************************************************************************)
EXTENDS SharedTables, SequenceTheorems, TLAPS

Frames == [goal : Table, leader : Nat, next : Nat]

\* The SCCs of a stack are segments of it; the leader is the first frame of its own.
Levels(s) ==
  /\ \A i \in 1 .. Len(s) : s[i].leader \in 1 .. i /\ s[s[i].leader].leader = s[i].leader
  /\ \A i, j \in 1 .. Len(s) : i <= j => s[i].leader <= s[j].leader

\* The table g, called by frame i of stack s, needs no more evaluation outside that SCC.
Over(s, i, g, done) ==
  g \in done \/ \E k \in 1 .. Len(s) : s[k].goal = g /\ s[k].leader = s[i].leader
CallsOver(s, done) ==
  \A i \in 1 .. Len(s) : \A n \in 1 .. s[i].next - 1 : Over(s, i, Calls[s[i].goal][n], done)

Stack(s, done) == s \in Seq(Frames) /\ Levels(s) /\ CallsOver(s, done)

Done == {g \in Table : is_completed(g)}

\* The tables that need no more evaluation: once one has gone astray, nothing is known.
Settled == IF astray THEN Table ELSE Done

Types ==
  /\ sf \in [Table -> [state : {"none", "incomplete", "completed"}, tid : Thread \cup {Nil},
                       grabbed : BOOLEAN]]
  /\ stack \in [Thread -> Seq(Frames)]
  /\ pc \in [Thread -> {"run", "lock", "check", "sleep", "woken", "reset", "mark", "wake"}]
  /\ producer_sf \in [Thread -> Table \cup {Nil}] /\ astray \in BOOLEAN
  /\ \A t \in Thread : pc[t] \in {"lock", "check", "sleep", "woken", "reset"} => producer_sf[t] \in Table

\* A thread that completes tables is about to wake those that sleep on them.
Ends(p) == p \in {"mark", "wake"}
Wakes(u, g) == Ends(pc[u]) /\ \E i \in TopSCC(u) : stack[u][i].goal = g
Woken ==
  /\ \A u \in Thread : Ends(pc[u]) => stack[u] # <<>>
  /\ \A t \in Thread : pc[t] = "sleep" /\ producer_sf[t] \in Done =>
       \E u \in Thread : Wakes(u, producer_sf[t])

Stacks == \A t \in Thread : Stack(stack[t], Settled)

\* What the registers of a thread hold.
Registers ==
  /\ query \in [Thread -> Table \cup {Nil}] /\ queries \in [Thread -> 0 .. MaxQueries]
  /\ completing_mut \in Thread \cup {Nil}
  /\ waiting_for_tid \in [Thread -> Thread \cup {Nil}]
  /\ tmp_next \in [Thread -> Thread \cup {Nil}] /\ tmp \in [Thread -> Thread \cup {Nil}]
  /\ waiting_for_subgoal \in [Thread -> Table \cup {Nil}] /\ sgf \in [Thread -> Table \cup {Nil}]
  /\ is_deadlock_leader \in [Thread -> BOOLEAN] /\ reset_thread \in [Thread -> BOOLEAN]

IInv == Types /\ Stacks /\ CompletedWithCallees /\ Woken

-----------------------------------------------------------------------------
(* Completion stacks. *)

\* A segment from a leader upwards holds whole SCCs.
LEMMA Segments ==
  ASSUME NEW s \in Seq(Frames), Levels(s), NEW i \in 1 .. Len(s), NEW j \in 1 .. Len(s)
  PROVE  /\ s[i].leader \in 1 .. i /\ s[i].leader \in 1 .. Len(s)
         /\ j >= s[i].leader <=> s[j].leader >= s[i].leader
         /\ s[s[i].leader].leader = s[i].leader
<1>1. Len(s) \in Nat /\ s[i].leader \in 1 .. i /\ s[j].leader \in 1 .. j
      /\ s[s[i].leader].leader = s[i].leader
  BY DEF Levels
<1>2. s[i].leader \in 1 .. Len(s)
  BY <1>1
<1>3. j >= s[i].leader => s[s[i].leader].leader <= s[j].leader
  BY <1>1, <1>2 DEF Levels
<1>4. s[j].leader >= s[i].leader => j >= s[i].leader
  BY <1>1
<1> QED BY <1>1, <1>2, <1>3, <1>4

\* An empty stack has no calls.
LEMMA EmptyStack == ASSUME NEW D PROVE Stack(<<>>, D)
BY DEF Stack, Levels, CallsOver

\* Completing tables leaves the stacks as they are.
LEMMA StackKept ==
  ASSUME NEW s, NEW D, NEW E, D \subseteq E, Stack(s, D)
  PROVE  Stack(s, E)
BY DEF Stack, CallsOver, Over

\* A new frame is an SCC of its own, with no call over.
LEMMA PushStack ==
  ASSUME NEW s, NEW D, Stack(s, D), NEW g \in Table
  PROVE  Stack(Append(s, [goal |-> g, leader |-> Len(s) + 1, next |-> 1]), D)
<1> DEFINE f == [goal |-> g, leader |-> Len(s) + 1, next |-> 1]
           r == Append(s, f)
<1>1. Len(s) \in Nat /\ s \in Seq(Frames) /\ f \in Frames
  BY DEF Stack, Frames
<1>2. /\ r \in Seq(Frames) /\ Len(r) = Len(s) + 1 /\ r[Len(s) + 1] = f
      /\ \A i \in 1 .. Len(s) : r[i] = s[i]
  BY <1>1, AppendProperties
<1>3. f.leader = Len(s) + 1 /\ f.next = 1
  OBVIOUS
<1> HIDE DEF f, r
<1>4. \A i \in 1 .. Len(s) : s[i].leader \in 1 .. i /\ s[s[i].leader].leader = s[i].leader
  BY DEF Stack, Levels
<1>5. \A i \in 1 .. Len(s) : r[i].leader \in 1 .. i /\ r[r[i].leader].leader = r[i].leader
  <2> SUFFICES ASSUME NEW i \in 1 .. Len(s)
               PROVE  r[i].leader \in 1 .. i /\ r[r[i].leader].leader = r[i].leader
    OBVIOUS
  <2>1. s[i].leader \in 1 .. Len(s)
    BY <1>1, <1>4
  <2> QED BY <1>2, <1>4, <2>1
<1>6. Levels(r)
  <2>1. \A i \in 1 .. Len(r) : r[i].leader \in 1 .. i /\ r[r[i].leader].leader = r[i].leader
    BY <1>1, <1>2, <1>3, <1>5
  <2>2. ASSUME NEW i \in 1 .. Len(r), NEW j \in 1 .. Len(r), i <= j
        PROVE  r[i].leader <= r[j].leader
    <3>1. CASE j = Len(s) + 1
      <4>1. r[i].leader \in 1 .. i /\ r[j].leader = Len(s) + 1
        BY <1>2, <1>3, <2>1, <3>1
      <4> QED BY <1>1, <1>2, <4>1
    <3>2. CASE j # Len(s) + 1
      <4>1. i \in 1 .. Len(s) /\ j \in 1 .. Len(s)
        BY <1>1, <1>2, <2>2, <3>2
      <4>2. s[i].leader <= s[j].leader
        BY <4>1, <2>2 DEF Stack, Levels
      <4> QED BY <1>2, <4>1, <4>2
    <3> QED BY <3>1, <3>2
  <2> QED BY <2>1, <2>2 DEF Levels
<1>7. CallsOver(r, D)
  <2> SUFFICES ASSUME NEW i \in 1 .. Len(r), NEW n \in 1 .. r[i].next - 1
               PROVE  Over(r, i, Calls[r[i].goal][n], D)
    BY DEF CallsOver
  <2>1. i \in 1 .. Len(s)
    BY <1>1, <1>2, <1>3
  <2>2. r[i] = s[i]
    BY <1>2, <2>1
  <2>3. Over(s, i, Calls[s[i].goal][n], D)
    BY <2>1, <2>2 DEF Stack, CallsOver
  <2>4. ASSUME NEW k \in 1 .. Len(s) PROVE k \in 1 .. Len(r) /\ r[k] = s[k]
    BY <1>1, <1>2
  <2> QED BY <2>2, <2>3, <2>4 DEF Over
<1> QED BY <1>2, <1>6, <1>7 DEF Stack, f, r

\* What is left below an SCC does not depend on what is cut off.
LEMMA CutStack ==
  ASSUME NEW s, NEW D, Stack(s, D), NEW i \in 1 .. Len(s)
  PROVE  Stack(SubSeq(s, 1, s[i].leader - 1), D)
<1> DEFINE L == s[i].leader
           r == SubSeq(s, 1, L - 1)
<1>1. Len(s) \in Nat /\ s \in Seq(Frames) /\ L \in 1 .. i /\ L \in 1 .. Len(s) /\ Levels(s)
  BY Segments DEF Stack
<1>2. r \in Seq(Frames) /\ Len(r) = L - 1 /\ \A j \in 1 .. L - 1 : r[j] = s[j]
  <2>1. \A j \in 1 .. L - 1 : s[j] \in Frames
    BY <1>1
  <2>2. /\ r \in Seq(Frames) /\ Len(r) = IF 1 <= L - 1 THEN L - 1 - 1 + 1 ELSE 0
        /\ \A j \in 1 .. L - 1 - 1 + 1 : r[j] = s[1 + j - 1]
    BY <1>1, <2>1, SubSeqProperties
  <2> HIDE DEF r, L
  <2> QED BY <1>1, <2>2
<1>3. \A j \in 1 .. L - 1 : j \in 1 .. Len(s) /\ s[j].leader \in 1 .. L - 1
  <2> SUFFICES ASSUME NEW j \in 1 .. L - 1 PROVE j \in 1 .. Len(s) /\ s[j].leader \in 1 .. L - 1
    OBVIOUS
  <2>1. j \in 1 .. Len(s)
    BY <1>1
  <2>2. s[j].leader \in 1 .. j
    BY <1>1, <2>1 DEF Levels
  <2> QED BY <1>1, <2>1, <2>2
<1>4. \A k \in 1 .. Len(s) : s[k].leader < L => k \in 1 .. L - 1
  <2> SUFFICES ASSUME NEW k \in 1 .. Len(s), s[k].leader < L PROVE k \in 1 .. L - 1
    OBVIOUS
  <2>1. k >= L => s[k].leader >= L
    BY <1>1, Segments
  <2>2. s[k].leader \in 1 .. k
    BY <1>1 DEF Levels
  <2> QED BY <1>1, <2>1, <2>2
<1> HIDE DEF L, r
<1>5. Levels(r)
  <2>1. ASSUME NEW j \in 1 .. Len(r)
        PROVE  r[j].leader \in 1 .. j /\ r[r[j].leader].leader = r[j].leader
    <3>1. j \in 1 .. Len(s) /\ s[j].leader \in 1 .. L - 1 /\ r[j] = s[j]
      BY <1>2, <1>3
    <3>2. s[j].leader \in 1 .. j /\ s[s[j].leader].leader = s[j].leader
      BY <1>1, <3>1 DEF Levels
    <3> QED BY <1>2, <3>1, <3>2
  <2>2. ASSUME NEW j \in 1 .. Len(r), NEW k \in 1 .. Len(r), j <= k
        PROVE  r[j].leader <= r[k].leader
    <3>1. j \in 1 .. Len(s) /\ k \in 1 .. Len(s) /\ r[j] = s[j] /\ r[k] = s[k]
      BY <1>2, <1>3
    <3> QED BY <1>1, <2>2, <3>1 DEF Levels
  <2> QED BY <2>1, <2>2 DEF Levels
<1>6. CallsOver(r, D)
  <2> SUFFICES ASSUME NEW j \in 1 .. Len(r), NEW n \in 1 .. r[j].next - 1
               PROVE  Over(r, j, Calls[r[j].goal][n], D)
    BY DEF CallsOver
  <2>1. j \in 1 .. Len(s) /\ s[j].leader \in 1 .. L - 1 /\ r[j] = s[j]
    BY <1>2, <1>3
  <2>2. Over(s, j, Calls[s[j].goal][n], D)
    BY <2>1 DEF Stack, CallsOver
  <2>3. ASSUME NEW k \in 1 .. Len(s), s[k].leader = s[j].leader
        PROVE  k \in 1 .. Len(r) /\ r[k] = s[k]
    <3>1. s[k].leader < L
      BY <1>1, <2>1, <2>3
    <3> QED BY <1>2, <1>4, <3>1
  <2> QED BY <2>1, <2>2, <2>3 DEF Over
<1> QED BY <1>2, <1>5, <1>6 DEF Stack, L, r

\* The call of frame i is over: what it called is completed or in the same SCC.
LEMMA AdvanceStack ==
  ASSUME NEW s, NEW D, Stack(s, D), NEW i \in 1 .. Len(s),
         Over(s, i, Calls[s[i].goal][s[i].next], D)
  PROVE  Stack([s EXCEPT ![i].next = @ + 1], D)
<1> DEFINE f == [s[i] EXCEPT !.next = @ + 1]
           r == [s EXCEPT ![i] = f]
<1>1. Len(s) \in Nat /\ s \in Seq(Frames) /\ s[i] \in Frames /\ Levels(s)
  BY DEF Stack
<1>2. f \in Frames /\ f.goal = s[i].goal /\ f.leader = s[i].leader /\ f.next = s[i].next + 1
  <2>1. s[i].next + 1 \in Nat /\ f = [s[i] EXCEPT !.next = s[i].next + 1]
    BY <1>1 DEF Frames
  <2> QED BY <1>1, <2>1 DEF Frames
<1> HIDE DEF f
<1>3. /\ r \in Seq(Frames) /\ Len(r) = Len(s)
      /\ \A j \in 1 .. Len(s) : r[j] = IF j = i THEN f ELSE s[j]
  BY <1>1, <1>2, ExceptSeq
<1> HIDE DEF r
<1>4. \A j \in 1 .. Len(s) : r[j].leader = s[j].leader /\ r[j].goal = s[j].goal
  BY <1>2, <1>3
<1>5. Levels(r)
  <2>1. ASSUME NEW j \in 1 .. Len(r)
        PROVE  r[j].leader \in 1 .. j /\ r[r[j].leader].leader = r[j].leader
    <3>1. j \in 1 .. Len(s) /\ s[j].leader \in 1 .. j /\ s[s[j].leader].leader = s[j].leader
      BY <1>1, <1>3 DEF Levels
    <3>2. s[j].leader \in 1 .. Len(s)
      BY <1>1, <3>1
    <3> QED BY <1>4, <3>1, <3>2
  <2>2. ASSUME NEW j \in 1 .. Len(r), NEW k \in 1 .. Len(r), j <= k
        PROVE  r[j].leader <= r[k].leader
    <3>1. s[j].leader <= s[k].leader
      BY <1>1, <1>3, <2>2 DEF Levels
    <3> QED BY <1>3, <1>4, <3>1
  <2> QED BY <2>1, <2>2 DEF Levels
<1>6. CallsOver(r, D)
  <2> SUFFICES ASSUME NEW j \in 1 .. Len(r), NEW n \in 1 .. r[j].next - 1
               PROVE  Over(r, j, Calls[r[j].goal][n], D)
    BY DEF CallsOver
  <2>1. j \in 1 .. Len(s)
    BY <1>3
  <2>2. n \in 1 .. s[j].next - 1 \/ (j = i /\ n = s[i].next)
    <3>1. CASE j # i
      BY <1>3, <2>1, <3>1
    <3>2. CASE j = i
      <4>1. n \in 1 .. s[i].next + 1 - 1 /\ s[i].next \in Nat
        BY <1>1, <1>2, <1>3, <3>2 DEF Frames
      <4> QED BY <3>2, <4>1
    <3> QED BY <3>1, <3>2
  <2>3. Over(s, j, Calls[s[j].goal][n], D)
    BY <2>1, <2>2 DEF Stack, CallsOver
  <2> QED BY <1>3, <1>4, <2>1, <2>3 DEF Over
<1>7. [s EXCEPT ![i].next = @ + 1] = r
  BY <1>1 DEF r, f
<1> QED BY <1>3, <1>5, <1>6, <1>7 DEF Stack

\* The SCCs from the one of frame i upwards become one.
LEMMA MergeStack ==
  ASSUME NEW s, NEW D, Stack(s, D), NEW i \in 1 .. Len(s)
  PROVE  Stack(adjust_level(s, i), D)
<1> DEFINE L == s[i].leader
           r == adjust_level(s, i)
<1>1. Len(s) \in Nat /\ s \in Seq(Frames) /\ L \in 1 .. i /\ L \in 1 .. Len(s) /\ Levels(s)
      /\ DOMAIN s = 1 .. Len(s) /\ \A j \in 1 .. Len(s) : s[j] \in Frames
  BY Segments DEF Stack
<1>2. \A j \in 1 .. Len(s) : j >= L <=> s[j].leader >= L
  BY <1>1, Segments
<1>3. s[L].leader = L /\ L \in Nat
  BY <1>1 DEF Levels
<1>4. r = [j \in 1 .. Len(s) |-> IF j < L THEN s[j] ELSE [s[j] EXCEPT !.leader = L]]
  BY <1>1 DEF adjust_level
<1> HIDE DEF L, r
<1>5. \A j \in 1 .. Len(s) : [s[j] EXCEPT !.leader = L] \in Frames
  BY <1>1, <1>3 DEF Frames
<1>6. r \in Seq(Frames) /\ Len(r) = Len(s)
  <2>1. r \in [1 .. Len(s) -> Frames]
    BY <1>1, <1>4, <1>5
  <2> QED BY <1>1, <2>1
<1>7. \A j \in 1 .. Len(s) : /\ r[j].goal = s[j].goal /\ r[j].next = s[j].next
                            /\ r[j].leader = IF j < L THEN s[j].leader ELSE L
  BY <1>1, <1>4 DEF Frames
<1>8. Levels(r)
  <2>1. ASSUME NEW j \in 1 .. Len(r)
        PROVE  r[j].leader \in 1 .. j /\ r[r[j].leader].leader = r[j].leader
    <3>1. j \in 1 .. Len(s) /\ s[j].leader \in 1 .. j /\ s[s[j].leader].leader = s[j].leader
      BY <1>1, <1>6 DEF Levels
    <3>2. s[j].leader \in 1 .. Len(s) /\ (j < L => s[j].leader < L)
      BY <1>1, <3>1
    <3>3. CASE j < L
      BY <1>7, <3>1, <3>2, <3>3
    <3>4. CASE ~(j < L)
      BY <1>1, <1>3, <1>7, <3>1, <3>4
    <3> QED BY <3>3, <3>4
  <2>2. ASSUME NEW j \in 1 .. Len(r), NEW k \in 1 .. Len(r), j <= k
        PROVE  r[j].leader <= r[k].leader
    <3>1. j \in 1 .. Len(s) /\ k \in 1 .. Len(s) /\ s[j].leader <= s[k].leader
      BY <1>1, <1>6, <2>2 DEF Levels
    <3>2. s[j].leader \in 1 .. j /\ s[k].leader \in 1 .. k
      BY <1>1, <3>1 DEF Levels
    <3> QED BY <1>3, <1>7, <2>2, <3>1, <3>2
  <2> QED BY <2>1, <2>2 DEF Levels
<1>9. CallsOver(r, D)
  <2> SUFFICES ASSUME NEW j \in 1 .. Len(r), NEW n \in 1 .. r[j].next - 1
               PROVE  Over(r, j, Calls[r[j].goal][n], D)
    BY DEF CallsOver
  <2>1. j \in 1 .. Len(s) /\ r[j].goal = s[j].goal /\ r[j].next = s[j].next
    BY <1>6, <1>7
  <2>2. Over(s, j, Calls[s[j].goal][n], D)
    BY <2>1 DEF Stack, CallsOver
  <2>3. ASSUME NEW k \in 1 .. Len(s), s[k].leader = s[j].leader
        PROVE  r[k].goal = s[k].goal /\ r[k].leader = r[j].leader
    <3>1. k >= L <=> j >= L
      BY <1>2, <2>1, <2>3
    <3>2. k < L <=> j < L
      BY <1>3, <2>1, <3>1
    <3> QED BY <1>7, <2>1, <2>3, <3>2
  <2> QED BY <1>6, <2>1, <2>2, <2>3 DEF Over
<1> QED BY <1>6, <1>8, <1>9 DEF Stack, r

\* A call of a table on the thread's own stack: it is over once the SCCs are merged.
LEMMA ConsumeStack ==
  ASSUME NEW s, NEW D, Stack(s, D), NEW i \in 1 .. Len(s), NEW at \in 1 .. Len(s),
         s[i].leader = s[Len(s)].leader, s[at].goal = Calls[s[i].goal][s[i].next]
  PROVE  Stack(adjust_level([s EXCEPT ![i].next = @ + 1], at), D)
<1> DEFINE m == adjust_level(s, at)
           L == s[at].leader
           f == [s[i] EXCEPT !.next = @ + 1]
           r == [s EXCEPT ![i] = f]
<1>1. /\ Len(s) \in Nat /\ s \in Seq(Frames) /\ s[i] \in Frames /\ Levels(s)
      /\ DOMAIN s = 1 .. Len(s) /\ L \in Nat /\ s[i].leader \in Nat
      /\ \A j \in 1 .. Len(s) : s[j] \in Frames
  <2>1. s \in Seq(Frames) /\ Levels(s)
    BY DEF Stack
  <2>2. \A j \in 1 .. Len(s) : s[j] \in Frames /\ s[j].leader \in Nat
    <3>1. \A fr \in Frames : fr.leader \in Nat
      BY DEF Frames
    <3>2. \A j \in 1 .. Len(s) : s[j] \in Frames
      BY <2>1
    <3> QED BY <3>1, <3>2
  <2> QED BY <2>1, <2>2
<1>2. i >= L /\ at >= L
  <2>1. at <= Len(s) /\ Len(s) \in 1 .. Len(s)
    BY <1>1
  <2>2. L <= s[i].leader /\ s[i].leader \in 1 .. i /\ L \in 1 .. at
    BY <1>1, <2>1 DEF Levels
  <2> QED BY <1>1, <2>2
<1>3. Stack(m, D)
  BY MergeStack
<1>4. m = [j \in 1 .. Len(s) |-> IF j < L THEN s[j] ELSE [s[j] EXCEPT !.leader = L]]
  BY <1>1 DEF adjust_level
<1>5. Len(m) = Len(s)
  <2>1. DOMAIN m = 1 .. Len(s) /\ m \in Seq(Frames)
    BY <1>3, <1>4 DEF Stack
  <2> HIDE DEF m
  <2> QED BY <1>1, <2>1
<1>6. /\ m[i].goal = s[i].goal /\ m[i].next = s[i].next /\ m[i].leader = L
      /\ m[at].goal = s[at].goal /\ m[at].leader = L
  <2>1. ~(i < L) /\ ~(at < L)
    BY <1>1, <1>2
  <2>2. m[i] = [s[i] EXCEPT !.leader = L] /\ m[at] = [s[at] EXCEPT !.leader = L]
    BY <1>4, <2>1
  <2>3. \A g \in Frames : /\ [g EXCEPT !.leader = L].goal = g.goal
                         /\ [g EXCEPT !.leader = L].next = g.next
                         /\ [g EXCEPT !.leader = L].leader = L
    BY DEF Frames
  <2> QED BY <1>1, <2>2, <2>3
<1>7. Over(m, i, Calls[m[i].goal][m[i].next], D)
  BY <1>5, <1>6 DEF Over
<1>8. Stack([m EXCEPT ![i].next = @ + 1], D)
  <2> HIDE DEF m
  <2> QED BY <1>3, <1>5, <1>7, AdvanceStack
<1>9. [m EXCEPT ![i].next = @ + 1] = adjust_level([s EXCEPT ![i].next = @ + 1], at)
  <2>1. f = [goal |-> s[i].goal, leader |-> s[i].leader, next |-> s[i].next + 1]
    <3>1. s[i] \in Frames
      BY <1>1
    <3>2. \A g \in Frames : [g EXCEPT !.next = g.next + 1]
                             = [goal |-> g.goal, leader |-> g.leader, next |-> g.next + 1]
      BY DEF Frames
    <3> QED BY <3>1, <3>2, Zenon
  <2>2. r = [s EXCEPT ![i].next = @ + 1] /\ DOMAIN r = 1 .. Len(s)
    BY <1>1
  <2>3. r[at].leader = L
    BY <1>1, <2>1
  <2>4. adjust_level(r, at) =
          [j \in 1 .. Len(s) |-> IF j < L THEN r[j] ELSE [r[j] EXCEPT !.leader = L]]
    BY <2>2, <2>3 DEF adjust_level
  <2>5. [m EXCEPT ![i].next = @ + 1] =
          [j \in 1 .. Len(s) |-> IF j = i THEN [m[i] EXCEPT !.next = @ + 1] ELSE m[j]]
    BY <1>4
  <2>6. ASSUME NEW j \in 1 .. Len(s)
        PROVE  (IF j = i THEN [m[i] EXCEPT !.next = @ + 1] ELSE m[j]) =
               (IF j < L THEN r[j] ELSE [r[j] EXCEPT !.leader = L])
    <3>1. CASE j # i
      BY <1>1, <1>4, <3>1
    <3>2. CASE j = i
      <4>1. m[i] = [s[i] EXCEPT !.leader = L] /\ r[i] = f /\ ~(i < L)
        BY <1>1, <1>2, <1>4
      <4>2. [[s[i] EXCEPT !.leader = L] EXCEPT !.next = @ + 1] = [f EXCEPT !.leader = L]
        BY <1>1, <2>1 DEF Frames
      <4> QED BY <3>2, <4>1, <4>2
    <3> QED BY <3>1, <3>2
  <2> QED BY <2>2, <2>4, <2>5, <2>6
<1> QED BY <1>8, <1>9

\* The topmost SCC is the frames whose leader is the leader of the last frame.
LEMMA TopSegment ==
  ASSUME NEW s, NEW D, Stack(s, D), s # <<>>
  PROVE  /\ Len(s) \in 1 .. Len(s)
         /\ \A i \in s[Len(s)].leader .. Len(s) : i \in 1 .. Len(s)
         /\ \A i \in 1 .. Len(s) :
              i \in s[Len(s)].leader .. Len(s) <=> s[i].leader = s[Len(s)].leader
<1>1. Len(s) \in Nat /\ Len(s) # 0 /\ s \in Seq(Frames) /\ Levels(s)
  BY DEF Stack
<1>2. Len(s) \in 1 .. Len(s)
  BY <1>1
<1>3. s[Len(s)].leader \in 1 .. Len(s)
  BY <1>1, <1>2, Segments
<1>4. ASSUME NEW i \in 1 .. Len(s)
      PROVE  i \in s[Len(s)].leader .. Len(s) <=> s[i].leader = s[Len(s)].leader
  <2>1. s[i].leader \in 1 .. i /\ (i >= s[Len(s)].leader <=> s[i].leader >= s[Len(s)].leader)
    BY <1>1, <1>2, Segments
  <2>2. s[i].leader <= s[Len(s)].leader
    BY <1>1, <1>2 DEF Levels
  <2> QED BY <1>1, <1>3, <2>1, <2>2
<1>5. \A i \in s[Len(s)].leader .. Len(s) : i \in 1 .. Len(s)
  BY <1>1, <1>3
<1> QED BY <1>2, <1>4, <1>5

-----------------------------------------------------------------------------
(* The steps of one thread. *)

SFTypes == [Table -> [state : {"none", "incomplete", "completed"}, tid : Thread \cup {Nil},
                      grabbed : BOOLEAN]]
StatesKept == sf' \in SFTypes /\ \A g \in Table : is_completed(g)' <=> is_completed(g)

\* What has gone astray does not come back.
Onwards == astray' \in BOOLEAN /\ (astray => astray')

\* The completed tables are told by their states.
LEMMA DoneKept ==
  ASSUME StatesKept, Onwards
  PROVE  Done' = Done /\ Settled \subseteq Settled' /\ (astray' = astray => Settled' = Settled)
BY DEF StatesKept, Onwards, Done, Settled

\* A step of t that completes nothing and lets nobody wake up or go to sleep on a completed table.
LEMMA RunStep ==
  ASSUME IInv, NEW t \in Thread, Types', StatesKept, Onwards,
         Stack(stack'[t], Settled'),
         \A u \in Thread \ {t} : stack'[u] = stack[u] /\ pc'[u] = pc[u] /\ producer_sf'[u] = producer_sf[u],
         ~Ends(pc[t]), ~Ends(pc'[t]),
         pc'[t] = "sleep" => \/ producer_sf'[t] \notin Done
                             \/ pc'[t] = pc[t] /\ producer_sf'[t] = producer_sf[t]
  PROVE  IInv'
<1>0. Done' = Done /\ Settled \subseteq Settled'
  BY DoneKept
<1>1. Stacks'
  BY <1>0, StackKept DEF Stacks, IInv
<1>2. CompletedWithCallees'
  <2> SUFFICES ASSUME ~astray', NEW g \in Table, is_completed(g)', NEW i \in DOMAIN Calls[g]
               PROVE  is_completed(Calls[g][i])' \/ Marking(Calls[g][i])'
    BY DEF CompletedWithCallees
  <2>1. Calls[g][i] \in Table
    BY SharedTablesAssumption
  <2>2. is_completed(Calls[g][i]) \/ Marking(Calls[g][i])
    BY DEF IInv, CompletedWithCallees, StatesKept, Onwards
  <2>3. ASSUME NEW u \in Thread, pc[u] = "mark", \E j \in TopSCC(u) : stack[u][j].goal = Calls[g][i]
        PROVE  Marking(Calls[g][i])'
    <3>1. u # t
      BY <2>3 DEF Ends
    <3>2. stack'[u] = stack[u] /\ pc'[u] = "mark"
      BY <2>3, <3>1
    <3>3. \E j \in TopSCC(u)' : stack'[u][j].goal = Calls[g][i]
      BY <2>3, <3>2 DEF TopSCC
    <3> QED BY <3>2, <3>3 DEF Marking
  <2> QED BY <2>1, <2>2, <2>3 DEF StatesKept, Marking
<1>3. Woken'
  <2>1. \A u \in Thread : Ends(pc[u]) => stack'[u] = stack[u] /\ pc'[u] = pc[u]
    OBVIOUS
  <2>2. \A u \in Thread : Ends(pc'[u]) => Ends(pc[u])
    OBVIOUS
  <2>3. \A u \in Thread : Ends(pc'[u]) => stack'[u] # <<>>
    BY <2>1, <2>2 DEF IInv, Woken
  <2>4. ASSUME NEW u \in Thread, pc'[u] = "sleep", producer_sf'[u] \in Done
        PROVE  \E v \in Thread : Wakes(v, producer_sf[u])'
    <3>1. pc[u] = "sleep" /\ producer_sf'[u] = producer_sf[u] /\ producer_sf[u] \in Done
      BY <2>4
    <3>2. PICK v \in Thread : Wakes(v, producer_sf[u])
      BY <3>1 DEF IInv, Woken
    <3>3. Wakes(v, producer_sf[u])'
      BY <2>1, <3>1, <3>2 DEF Wakes, TopSCC
    <3> QED BY <3>3
  <2> QED BY <1>0, <2>3, <2>4 DEF Woken
<1> QED BY <1>1, <1>2, <1>3 DEF IInv

\* The next call of a thread is one of a frame of its topmost SCC, or its query.
LEMMA NextCalls ==
  ASSUME IInv, NEW t \in Thread, NEW i \in 0 .. Len(stack[t]), NEW g \in Table, NextCall(t, i, g)
  PROVE  \/ stack[t] = <<>> /\ i = 0
         \/ /\ stack[t] # <<>> /\ i # 0 /\ i \in 1 .. Len(stack[t])
            /\ stack[t][i].leader = stack[t][Len(stack[t])].leader
            /\ g = Calls[stack[t][i].goal][stack[t][i].next]
<1>1. CASE stack[t] = <<>>
  BY <1>1 DEF NextCall
<1>2. CASE stack[t] # <<>>
  <2>1. Stack(stack[t], Settled)
    BY DEF IInv, Stacks
  <2>2. i \in TopSCC(t) /\ g = Calls[stack[t][i].goal][stack[t][i].next]
    BY <1>2 DEF NextCall
  <2>3. i \in 1 .. Len(stack[t]) /\ stack[t][i].leader = stack[t][Len(stack[t])].leader
    BY <1>2, <2>1, <2>2, TopSegment DEF TopSCC
  <2>4. i # 0
    BY <2>3
  <2> QED BY <1>2, <2>2, <2>3, <2>4
<1> QED BY <1>1, <1>2

\* The answers of a settled table are used.
LEMMA AdvanceSettled ==
  ASSUME IInv, NEW t \in Thread, NEW i \in 0 .. Len(stack[t]), NEW g \in Table, NextCall(t, i, g),
         NEW D, Settled \subseteq D, g \in D
  PROVE  Stack(Advance(stack[t], i), D)
<1>1. Stack(stack[t], D)
  BY StackKept DEF IInv, Stacks
<1>2. CASE i = 0
  BY <1>1, <1>2 DEF Advance
<1>3. CASE i # 0
  <2>1. i \in 1 .. Len(stack[t]) /\ g = Calls[stack[t][i].goal][stack[t][i].next]
    BY <1>3, NextCalls
  <2>2. Over(stack[t], i, Calls[stack[t][i].goal][stack[t][i].next], D)
    BY <1>1, <2>1 DEF Over
  <2>3. Stack([stack[t] EXCEPT ![i].next = @ + 1], D)
    BY <1>1, <2>1, <2>2, AdvanceStack
  <2> QED BY <1>3, <2>3 DEF Advance
<1> QED BY <1>2, <1>3

\* A completed table is settled.
LEMMA DoneSettled == ASSUME NEW g \in Table, is_completed(g) PROVE g \in Settled
BY DEF Done, Settled

\* A table of the thread's own stack is consumed.
LEMMA AdvanceConsumed ==
  ASSUME IInv, NEW t \in Thread, NEW i \in 0 .. Len(stack[t]), NEW g \in Table, NextCall(t, i, g),
         NEW at \in FramesOf(t, g)
  PROVE  Stack(adjust_level(Advance(stack[t], i), at), Settled)
<1>1. Stack(stack[t], Settled) /\ stack[t] \in Seq(Frames)
  BY DEF IInv, Stacks, Stack
<1>2. at \in 1 .. Len(stack[t]) /\ stack[t][at].goal = g
  BY <1>1 DEF FramesOf
<1>3. stack[t] # <<>>
  BY <1>2
<1>4. /\ i \in 1 .. Len(stack[t]) /\ stack[t][i].leader = stack[t][Len(stack[t])].leader
      /\ g = Calls[stack[t][i].goal][stack[t][i].next] /\ i # 0
  BY <1>3, NextCalls
<1>5. Stack(adjust_level([stack[t] EXCEPT ![i].next = @ + 1], at), Settled)
  BY <1>1, <1>2, <1>4, ConsumeStack
<1> QED BY <1>4, <1>5 DEF Advance

\* A usurped table is used by a leader.
LEMMA GrabKept ==
  ASSUME IInv, NEW g, sf' = [sf EXCEPT ![g].grabbed = FALSE]
  PROVE  StatesKept
<1>1. sf \in SFTypes
  BY DEF IInv, Types, SFTypes
<1>2. \A f \in [state : {"none", "incomplete", "completed"}, tid : Thread \cup {Nil}, grabbed : BOOLEAN] :
        /\ [f EXCEPT !.grabbed = FALSE] \in [state : {"none", "incomplete", "completed"},
                                             tid : Thread \cup {Nil}, grabbed : BOOLEAN]
        /\ [f EXCEPT !.grabbed = FALSE].state = f.state
  OBVIOUS
<1>3. sf' = [h \in Table |-> IF h = g THEN [sf[h] EXCEPT !.grabbed = FALSE] ELSE sf[h]]
  BY <1>1 DEF SFTypes
<1>4. sf' \in SFTypes
  BY <1>1, <1>2, <1>3 DEF SFTypes
<1>5. \A h \in Table : sf'[h].state = sf[h].state
  BY <1>1, <1>2, <1>3 DEF SFTypes
<1> QED BY <1>4, <1>5 DEF StatesKept, is_completed

\* The invariant is one of these variables.
LEMMA IInvKept == ASSUME IInv, UNCHANGED <<sf, stack, pc, producer_sf, astray>> PROVE IInv'
<1>1. Types'
  BY DEF IInv, Types
<1>2. Done' = Done /\ Settled' = Settled
  BY DEF Done, Settled, is_completed
<1>3. Stacks'
  BY <1>2 DEF IInv, Stacks
<1>4. CompletedWithCallees'
  <2>1. \A g : Marking(g)' <=> Marking(g)
    BY DEF Marking, TopSCC
  <2> QED BY <2>1 DEF IInv, CompletedWithCallees, is_completed
<1>5. Woken'
  <2>1. \A u, g : Wakes(u, g)' <=> Wakes(u, g)
    BY DEF Wakes, TopSCC
  <2> QED BY <1>2, <2>1 DEF IInv, Woken
<1> QED BY <1>1, <1>3, <1>4, <1>5 DEF IInv

\* What changes in the stack and the place of one thread keeps the invariant.
LEMMA OneThread ==
  ASSUME IInv, StatesKept, Onwards, NEW t \in Thread,
         NEW s, Stack(s, Settled'), stack' = [stack EXCEPT ![t] = s],
         NEW p \in {"run", "lock", "check", "sleep", "woken", "reset"}, pc' = [pc EXCEPT ![t] = p],
         NEW g \in Table \cup {Nil}, producer_sf' = [producer_sf EXCEPT ![t] = g],
         p # "run" => g \in Table, ~Ends(pc[t]), p = "sleep" => ~is_completed(g)
  PROVE  IInv'
<1>1. s \in Seq(Frames)
  BY DEF Stack
<1>2. Types'
  BY <1>1 DEF IInv, Types, StatesKept, SFTypes, Onwards
<1>3. /\ stack'[t] = s /\ pc'[t] = p /\ producer_sf'[t] = g
      /\ \A u \in Thread \ {t} : stack'[u] = stack[u] /\ pc'[u] = pc[u] /\ producer_sf'[u] = producer_sf[u]
  BY DEF IInv, Types
<1>4. p = "sleep" => g \notin Done
  BY DEF Done
<1>5. /\ pc'[t] = "sleep" => producer_sf'[t] \notin Done
      /\ ~Ends(pc'[t]) /\ Stack(stack'[t], Settled')
  BY <1>3, <1>4 DEF Ends
<1> QED BY <1>2, <1>3, <1>5, RunStep

\* The first state: nothing is on a stack.
LEMMA InitInv == Init => IInv
<1> SUFFICES ASSUME Init PROVE IInv
  OBVIOUS
<1> USE DEF Init
<1>1. Types
  <2>1. sf \in SFTypes
    BY DEF SFTypes
  <2>2. /\ stack \in [Thread -> Seq(Frames)] /\ producer_sf \in [Thread -> Table \cup {Nil}]
        /\ \A t \in Thread : pc[t] = "run"
    OBVIOUS
  <2> QED BY <2>1, <2>2 DEF Types, SFTypes
<1>2. \A g \in Table : ~is_completed(g)
  BY DEF is_completed
<1>3. Stacks
  BY EmptyStack DEF Stacks
<1>4. Woken
  BY DEF Woken, Ends
<1> QED BY <1>1, <1>2, <1>3, <1>4 DEF IInv, CompletedWithCallees

\* What an action leaves to a thread, in the form of OneThread.
LEMMA Unchangeds ==
  ASSUME IInv, NEW t \in Thread
  PROVE  /\ stack = [stack EXCEPT ![t] = stack[t]] /\ pc = [pc EXCEPT ![t] = pc[t]]
         /\ producer_sf = [producer_sf EXCEPT ![t] = producer_sf[t]]
         /\ producer_sf[t] \in Table \cup {Nil}
         /\ UNCHANGED sf => StatesKept
         /\ UNCHANGED astray => Onwards
         /\ Stack(stack[t], Settled)
BY DEF IInv, Types, StatesKept, SFTypes, Onwards, is_completed, Stacks

\* OneThread for a step that leaves astray alone.
LEMMA OneThreadKept ==
  ASSUME IInv, StatesKept, UNCHANGED astray, NEW t \in Thread,
         NEW s, Stack(s, Settled), stack' = [stack EXCEPT ![t] = s],
         NEW p \in {"run", "lock", "check", "sleep", "woken", "reset"}, pc' = [pc EXCEPT ![t] = p],
         NEW g \in Table \cup {Nil}, producer_sf' = [producer_sf EXCEPT ![t] = g],
         p # "run" => g \in Table, ~Ends(pc[t]), p = "sleep" => ~is_completed(g)
  PROVE  IInv'
<1>1. Onwards
  BY Unchangeds
<1>2. Stack(s, Settled')
  BY <1>1, DoneKept
<1> QED BY <1>1, <1>2, OneThread

\* A call of a tabled subgoal.
LEMMA TableTryStep ==
  ASSUME IInv, NEW t \in Thread, tabletry(t)
  PROVE  IInv'
<1>1. PICK i \in 0 .. Len(stack[t]), g \in Table :
        /\ NextCall(t, i, g)
        /\ \/ NewProducer(t, g) \/ UseGrabbed(t, g) \/ MustWait(t, g)
           \/ Consume(t, i, g) \/ ConsumeUsurped(t, i, g) \/ UseCompleted(t, i, g)
  BY DEF tabletry
<1>2. pc[t] = "run" /\ ~Ends(pc[t]) /\ Stack(stack[t], Settled)
  BY Unchangeds DEF tabletry, Ends
<1>3. Stack(Push(t, g), Settled)
  BY <1>2, PushStack DEF Push
<1>4. CASE NewProducer(t, g)
  <2>1. StatesKept
    <3>1. sf \in SFTypes
      BY DEF IInv, Types, SFTypes
    <3>2. [state |-> "incomplete", tid |-> t, grabbed |-> FALSE] \in
            [state : {"none", "incomplete", "completed"}, tid : Thread \cup {Nil}, grabbed : BOOLEAN]
      OBVIOUS
    <3>3. sf' \in SFTypes
      BY <1>4, <3>1, <3>2 DEF NewProducer, SFTypes
    <3> QED BY <1>4, <3>1, <3>3 DEF NewProducer, StatesKept, SFTypes, is_completed
  <2> QED BY <1>2, <1>3, <1>4, <2>1, Unchangeds, OneThreadKept DEF NewProducer
<1>5. CASE UseGrabbed(t, g)
  <2>1. StatesKept
    BY <1>5, GrabKept DEF UseGrabbed
  <2>2. Onwards
    BY <1>5 DEF UseGrabbed, Onwards, IInv, Types
  <2>3. Stack(Push(t, g), Settled')
    BY <1>3, <2>1, <2>2, DoneKept, StackKept
  <2> QED BY <1>2, <1>5, <2>1, <2>2, <2>3, Unchangeds, OneThread DEF UseGrabbed
<1>6. CASE MustWait(t, g)
  BY <1>2, <1>6, Unchangeds, OneThreadKept DEF MustWait
<1>7. CASE Consume(t, i, g)
  <2>1. PICK at \in FramesOf(t, g) : stack' = [stack EXCEPT ![t] = adjust_level(Advance(@, i), at)]
    BY <1>7 DEF Consume
  <2>2. Stack(adjust_level(Advance(stack[t], i), at), Settled)
    BY <1>1, AdvanceConsumed
  <2> QED BY <1>2, <1>7, <2>1, <2>2, Unchangeds, OneThreadKept DEF Consume
<1>8. CASE ConsumeUsurped(t, i, g)
  <2>1. Onwards /\ Settled' = Table
    BY <1>8 DEF ConsumeUsurped, Onwards, Settled
  <2>2. Stack(Advance(stack[t], i), Settled')
    <3>1. Settled \subseteq Table
      BY DEF Settled, Done
    <3> QED BY <1>1, <2>1, <3>1, AdvanceSettled
  <2> QED BY <1>2, <1>8, <2>1, <2>2, Unchangeds, OneThread DEF ConsumeUsurped
<1>9. CASE UseCompleted(t, i, g)
  <2>1. Stack(Advance(stack[t], i), Settled)
    BY <1>1, <1>9, AdvanceSettled, DoneSettled DEF UseCompleted
  <2> QED BY <1>2, <1>9, <2>1, Unchangeds, OneThreadKept DEF UseCompleted
<1> QED BY <1>1, <1>4, <1>5, <1>6, <1>7, <1>8, <1>9

\* The steps of a thread that waits, up to the link of a cycle.
LEMMA WaitStep ==
  ASSUME IInv, NEW t \in Thread,
         LockMutex(t) \/ LeaveWait(t) \/ Sleep(t) \/ SpuriousWakeup(t) \/ LinkCycle(t)
  PROVE  IInv'
<1>1. producer_sf[t] \in Table /\ ~Ends(pc[t]) /\ UNCHANGED astray
  BY DEF LockMutex, LeaveWait, Sleep, SpuriousWakeup, LinkCycle, IInv, Types, Ends, flags
<1>2. CASE LockMutex(t)
  BY <1>1, <1>2, Unchangeds, OneThreadKept DEF LockMutex, evalVars
<1>3. CASE Sleep(t)
  BY <1>1, <1>3, Unchangeds, OneThreadKept DEF Sleep, evalVars
<1>4. CASE SpuriousWakeup(t)
  BY <1>1, <1>4, Unchangeds, OneThreadKept DEF SpuriousWakeup, evalVars
<1>5. CASE LinkCycle(t)
  BY <1>1, <1>5, Unchangeds, OneThreadKept DEF LinkCycle, evalVars
<1>6. CASE LeaveWait(t)
  <2>1. CASE UNCHANGED stack
    BY <1>1, <1>6, <2>1, Unchangeds, OneThreadKept DEF LeaveWait
  <2>2. CASE \E i \in 0 .. Len(stack[t]) :
               NextCall(t, i, producer_sf[t]) /\ stack' = [stack EXCEPT ![t] = Advance(@, i)]
    <3>1. PICK i \in 0 .. Len(stack[t]) :
            NextCall(t, i, producer_sf[t]) /\ stack' = [stack EXCEPT ![t] = Advance(@, i)]
      BY <2>2
    <3>2. Stack(Advance(stack[t], i), Settled)
      BY <1>1, <1>6, <3>1, AdvanceSettled, DoneSettled DEF LeaveWait
    <3> QED BY <1>1, <1>6, <3>1, <3>2, Unchangeds, OneThreadKept DEF LeaveWait
  <2> QED BY <1>6, <2>1, <2>2 DEF LeaveWait
<1> QED BY <1>2, <1>3, <1>4, <1>5, <1>6

\* The leader goes on with the table it called.
LEMMA TakeOverStep ==
  ASSUME IInv, NEW t \in Thread, TakeOver(t)
  PROVE  IInv'
<1>1. producer_sf[t] \in Table /\ pc[t] = "reset" /\ ~Ends(pc[t]) /\ UNCHANGED astray
  BY DEF TakeOver, IInv, Types, Ends, flags
<1>2. Stack(Push(t, producer_sf[t]), Settled)
  BY <1>1, Unchangeds, PushStack DEF Push
<1> QED BY <1>1, <1>2, GrabKept, Unchangeds, OneThreadKept DEF TakeOver

\* The stack of a waiting thread is cut below the SCC its table is in, or left alone.
LEMMA ResetStep ==
  ASSUME IInv, Registers, NEW t \in Thread, ResetThread(t)
  PROVE  IInv'
<1> DEFINE u == tmp[t]
           g == sgf[t]
           at == CHOOSE i \in FramesOf(u, g) : TRUE
           from == stack[u][at].leader
           taken == {stack[u][i].goal : i \in from .. Len(stack[u])}
<1>1. /\ u \in Thread /\ UNCHANGED <<pc, producer_sf, astray>>
      /\ stack \in [Thread -> Seq(Frames)] /\ sf \in SFTypes /\ Stack(stack[u], Settled)
  BY DEF ResetThread, Usurpable, Registers, IInv, Types, SFTypes, Stacks, flags
<1>2. CASE sf[g].tid # u
  <2>1. UNCHANGED <<sf, stack>>
    BY <1>2 DEF ResetThread
  <2> QED BY <1>1, <2>1, IInvKept
<1>3. CASE sf[g].tid = u
  <2>1. /\ FramesOf(u, g) # {} /\ ~Ends(pc[u])
        /\ sf' = [h \in Table |-> IF h \in taken /\ Incomplete(h)
                   THEN [sf[h] EXCEPT !.tid = t, !.grabbed = TRUE] ELSE sf[h]]
        /\ stack' = [stack EXCEPT ![u] = SubSeq(@, 1, from - 1)]
    BY <1>3 DEF ResetThread, Usurpable, Waiting, Ends
  <2>2. at \in 1 .. Len(stack[u])
    <3>1. at \in FramesOf(u, g)
      BY <2>1
    <3> HIDE DEF at
    <3> QED BY <3>1, <1>1 DEF FramesOf
  <2>3. stack'[u] = SubSeq(stack[u], 1, stack[u][at].leader - 1)
    BY <1>1, <2>1
  <2> HIDE DEF at
  <2>4. Stack(stack'[u], Settled)
    BY <1>1, <2>2, <2>3, CutStack
  <2>5. \A h \in Table : /\ [sf[h] EXCEPT !.tid = t, !.grabbed = TRUE] \in
                             [state : {"none", "incomplete", "completed"}, tid : Thread \cup {Nil}, grabbed : BOOLEAN]
                        /\ [sf[h] EXCEPT !.tid = t, !.grabbed = TRUE].state = sf[h].state
    BY <1>1 DEF SFTypes
  <2> HIDE DEF taken
  <2>6. sf' \in SFTypes /\ \A h \in Table : sf'[h].state = sf[h].state
    BY <1>1, <2>1, <2>5 DEF SFTypes
  <2>7. StatesKept /\ Onwards
    BY <1>1, <2>6, Unchangeds DEF StatesKept, is_completed
  <2> HIDE DEF u
  <2>8. stack'[u] \in Seq(Frames) /\ Stack(stack'[u], Settled')
    BY <1>1, <2>4, <2>7, DoneKept DEF Stack
  <2>9. Types'
    BY <1>1, <2>1, <2>3, <2>7, <2>8 DEF IInv, Types, StatesKept, SFTypes
  <2>10. \A v \in Thread \ {u} : stack'[v] = stack[v]
    BY <1>1, <2>1
  <2> QED BY <1>1, <2>1, <2>7, <2>8, <2>9, <2>10, RunStep
<1> QED BY <1>2, <1>3

\* A table of the topmost SCC is marked: all calls of the SCC are over.
LEMMA CompleteStep ==
  ASSUME IInv, NEW t \in Thread, MarkCompleted(t)
  PROVE  IInv'
<1> DEFINE goals == {stack[t][i].goal : i \in TopSCC(t)}
           left == {i \in TopSCC(t) : ~is_completed(stack[t][i].goal)}
<1>1. PICK m \in TopSCC(t) :
        /\ left # {} => m \in left
        /\ sf' = [sf EXCEPT ![stack[t][m].goal].state = "completed"]
        /\ pc' = [pc EXCEPT ![t] = IF left \subseteq {m} THEN "wake" ELSE "mark"]
  BY DEF MarkCompleted
<1> DEFINE h == stack[t][m].goal
<1>2. /\ pc[t] \in {"run", "mark"} /\ stack[t] # <<>> /\ Stack(stack[t], Settled)
      /\ sf \in SFTypes /\ UNCHANGED <<stack, producer_sf, astray>> /\ stack[t] \in Seq(Frames)
      /\ pc \in [Thread -> {"run", "lock", "check", "sleep", "woken", "reset", "mark", "wake"}]
  BY DEF MarkCompleted, IInv, Types, SFTypes, Stacks, flags
<1>3. \A i \in TopSCC(t) : /\ i \in 1 .. Len(stack[t]) /\ stack[t][i] \in Frames
                          /\ stack[t][i].leader = stack[t][Len(stack[t])].leader
                          /\ stack[t][i].goal \in Table
  <2>1. \A i \in TopSCC(t) : i \in 1 .. Len(stack[t]) /\ stack[t][i].leader = stack[t][Len(stack[t])].leader
    BY <1>2, TopSegment DEF TopSCC
  <2>2. \A i \in TopSCC(t) : stack[t][i] \in Frames
    BY <1>2, <2>1
  <2> QED BY <2>1, <2>2 DEF Frames
<1>4. h \in Table /\ h \in goals
  BY <1>3
<1>5. sf' \in SFTypes /\ \A g \in Table : is_completed(g)' <=> is_completed(g) \/ g = h
  <2>1. /\ [sf[h] EXCEPT !.state = "completed"] \in
             [state : {"none", "incomplete", "completed"}, tid : Thread \cup {Nil}, grabbed : BOOLEAN]
        /\ [sf[h] EXCEPT !.state = "completed"].state = "completed"
    BY <1>2, <1>4 DEF SFTypes
  <2>2. sf' = [g \in Table |-> IF g = h THEN [sf[h] EXCEPT !.state = "completed"] ELSE sf[g]]
    BY <1>1, <1>2 DEF SFTypes
  <2> HIDE DEF h
  <2> QED BY <1>2, <1>4, <2>1, <2>2 DEF SFTypes, is_completed
<1>6. /\ Ends(pc'[t]) /\ \A v \in Thread \ {t} : pc'[v] = pc[v]
      /\ pc' \in [Thread -> {"run", "lock", "check", "sleep", "woken", "reset", "mark", "wake"}]
      /\ pc'[t] # "mark" => \A g \in goals : is_completed(g)'
      /\ pc'[t] \in {"mark", "wake"}
  <2>1. pc'[t] = IF left \subseteq {m} THEN "wake" ELSE "mark"
    BY <1>1, <1>2
  <2>2. pc'[t] # "mark" => \A g \in goals : is_completed(g)'
    <3>1. CASE left \subseteq {m}
      <4>1. ASSUME NEW i \in TopSCC(t)
            PROVE  is_completed(stack[t][i].goal) \/ stack[t][i].goal = h
        <5>1. i \notin left \/ i = m
          BY <3>1
        <5> QED BY <5>1
      <4> HIDE DEF h, left
      <4> QED BY <1>3, <1>5, <4>1
    <3>2. CASE ~(left \subseteq {m})
      <4> HIDE DEF left, goals
      <4> QED BY <2>1, <3>2
    <3> QED BY <3>1, <3>2
  <2> HIDE DEF goals, left
  <2> QED BY <1>1, <1>2, <2>1, <2>2 DEF Ends
<1>7. Types'
  BY <1>2, <1>5, <1>6 DEF IInv, Types, SFTypes
<1>8. Done \subseteq Done' /\ Settled \subseteq Settled' /\ Done' \subseteq Done \cup goals
  BY <1>2, <1>4, <1>5 DEF Done, Settled
<1>9. Stacks'
  BY <1>2, <1>8, StackKept DEF IInv, Stacks
<1>10. CompletedWithCallees'
  <2> SUFFICES ASSUME ~astray', NEW g \in Table, is_completed(g)', NEW n \in DOMAIN Calls[g]
               PROVE  is_completed(Calls[g][n])' \/ Marking(Calls[g][n])'
    BY DEF CompletedWithCallees
  <2>1. /\ Calls[g][n] \in Table /\ n \in 1 .. Len(Calls[g]) /\ Len(Calls[g]) \in Nat
        /\ Settled = Done
    BY <1>2, SharedTablesAssumption DEF Settled
  <2>2. ASSUME Calls[g][n] \in goals PROVE is_completed(Calls[g][n])' \/ Marking(Calls[g][n])'
    <3>1. CASE pc'[t] # "mark"
      BY <1>6, <2>2, <3>1
    <3>2. CASE pc'[t] = "mark"
      <4>1. PICK i \in TopSCC(t) : stack[t][i].goal = Calls[g][n]
        BY <2>2
      <4>2. i \in TopSCC(t)' /\ stack'[t][i].goal = Calls[g][n]
        BY <1>2, <4>1 DEF TopSCC
      <4> QED BY <3>2, <4>2 DEF Marking
    <3> QED BY <3>1, <3>2
  <2>3. CASE is_completed(g)
    <3>1. is_completed(Calls[g][n]) \/ Marking(Calls[g][n])
      BY <1>2, <2>3 DEF IInv, CompletedWithCallees
    <3>2. ASSUME NEW u \in Thread, pc[u] = "mark", \E j \in TopSCC(u) : stack[u][j].goal = Calls[g][n]
          PROVE  is_completed(Calls[g][n])' \/ Marking(Calls[g][n])'
      <4>1. CASE u = t
        <5>1. Calls[g][n] \in goals
          BY <3>2, <4>1
        <5> QED BY <2>2, <5>1
      <4>2. CASE u # t
        <5>1. pc'[u] = "mark" /\ \E j \in TopSCC(u)' : stack'[u][j].goal = Calls[g][n]
          BY <1>2, <1>6, <3>2, <4>2 DEF TopSCC
        <5> QED BY <5>1 DEF Marking
      <4> QED BY <4>1, <4>2
    <3> HIDE DEF h
    <3> QED BY <1>5, <2>1, <3>1, <3>2 DEF Marking
  <2>4. CASE g = h
    <3>1. /\ m \in 1 .. Len(stack[t]) /\ stack[t][m].leader = stack[t][Len(stack[t])].leader
          /\ stack[t][m].next \in Nat
      BY <1>3 DEF Frames
    <3>2. ~(stack[t][m].next <= Len(Calls[g]))
      BY <2>4 DEF MarkCompleted, CallsLeft
    <3>3. n \in 1 .. stack[t][m].next - 1
      BY <2>1, <3>1, <3>2
    <3>4. Over(stack[t], m, Calls[g][n], Done)
      BY <1>2, <2>1, <2>4, <3>1, <3>3 DEF Stack, CallsOver
    <3>5. ASSUME NEW k \in 1 .. Len(stack[t]), stack[t][k].goal = Calls[g][n],
                 stack[t][k].leader = stack[t][m].leader
          PROVE  Calls[g][n] \in goals
      <4>1. k \in TopSCC(t)
        BY <1>2, <3>1, <3>5, TopSegment DEF TopSCC
      <4> QED BY <3>5, <4>1
    <3>6. CASE Calls[g][n] \in Done
      BY <1>8, <3>6 DEF Done
    <3>7. CASE Calls[g][n] \notin Done
      BY <2>2, <3>4, <3>5, <3>7 DEF Over
    <3> QED BY <3>6, <3>7
  <2> HIDE DEF h
  <2> QED BY <1>5, <2>3, <2>4
<1>11. Woken'
  <2>1. \A v \in Thread : Ends(pc'[v]) => stack'[v] # <<>>
    BY <1>2, <1>6 DEF IInv, Woken
  <2>2. ASSUME NEW v \in Thread, pc'[v] = "sleep", producer_sf'[v] \in Done'
        PROVE  \E w \in Thread : Wakes(w, producer_sf[v])'
    <3>1. v # t /\ pc[v] = "sleep" /\ producer_sf'[v] = producer_sf[v]
      BY <1>2, <1>6, <2>2
    <3>2. CASE producer_sf[v] \in Done
      <4>1. PICK w \in Thread : Wakes(w, producer_sf[v])
        BY <3>1, <3>2 DEF IInv, Woken
      <4>2. Ends(pc'[w])
        BY <1>6, <4>1 DEF Wakes
      <4>3. Wakes(w, producer_sf[v])'
        BY <1>2, <3>1, <4>1, <4>2 DEF Wakes, TopSCC
      <4> QED BY <4>3
    <3>3. CASE producer_sf[v] \notin Done
      <4>1. producer_sf[v] \in goals
        BY <1>8, <2>2, <3>1, <3>3
      <4>2. PICK i \in TopSCC(t) : stack[t][i].goal = producer_sf[v]
        BY <4>1
      <4>3. Wakes(t, producer_sf[v])'
        BY <1>2, <1>6, <3>1, <4>2 DEF Wakes, TopSCC
      <4> QED BY <4>3
    <3> QED BY <3>2, <3>3
  <2> QED BY <2>1, <2>2 DEF Woken
<1> QED BY <1>7, <1>9, <1>10, <1>11 DEF IInv

\* Those that sleep on the completed tables are woken, and the SCC is popped.
LEMMA WakeStep ==
  ASSUME IInv, NEW t \in Thread, WakeWaiters(t)
  PROVE  IInv'
<1> DEFINE goals == {stack[t][i].goal : i \in TopSCC(t)}
           r == SubSeq(stack[t], 1, stack[t][Len(stack[t])].leader - 1)
<1>1. /\ pc[t] = "wake" /\ stack[t] # <<>> /\ Stack(stack[t], Settled)
      /\ UNCHANGED <<sf, producer_sf, astray>> /\ stack' = [stack EXCEPT ![t] = r]
      /\ pc' = [u \in Thread |-> IF u = t THEN "run"
                   ELSE IF pc[u] = "sleep" /\ producer_sf[u] \in goals THEN "woken" ELSE pc[u]]
  BY DEF WakeWaiters, IInv, Stacks, Woken, Ends, flags
<1>2. Stack(r, Settled) /\ r \in Seq(Frames)
  <2>1. Len(stack[t]) \in 1 .. Len(stack[t])
    BY <1>1, TopSegment
  <2>2. Stack(r, Settled)
    BY <1>1, <2>1, CutStack
  <2> QED BY <2>2 DEF Stack
<1> HIDE DEF r
<1>3. Types'
  BY <1>1, <1>2 DEF IInv, Types
<1>4. StatesKept /\ Done' = Done /\ Settled' = Settled
  BY <1>1 DEF StatesKept, is_completed, Done, Settled, IInv, Types, SFTypes
<1>5. Stacks'
  BY <1>1, <1>2, <1>4 DEF IInv, Stacks, Types
<1>6. \A v \in Thread : Ends(pc'[v]) => v # t /\ pc'[v] = pc[v] /\ stack'[v] = stack[v]
  BY <1>1 DEF IInv, Types, Ends
<1>7. \A v \in Thread \ {t} : Ends(pc[v]) => pc'[v] = pc[v] /\ stack'[v] = stack[v]
  BY <1>1 DEF IInv, Types, Ends
<1>8. CompletedWithCallees'
  <2> SUFFICES ASSUME ~astray', NEW g \in Table, is_completed(g)', NEW n \in DOMAIN Calls[g]
               PROVE  is_completed(Calls[g][n])' \/ Marking(Calls[g][n])'
    BY DEF CompletedWithCallees
  <2>1. is_completed(Calls[g][n]) \/ Marking(Calls[g][n])
    BY <1>1 DEF IInv, CompletedWithCallees, is_completed
  <2>2. ASSUME NEW u \in Thread, pc[u] = "mark", \E j \in TopSCC(u) : stack[u][j].goal = Calls[g][n]
        PROVE  Marking(Calls[g][n])'
    <3>1. pc'[u] = "mark" /\ stack'[u] = stack[u]
      BY <1>1, <1>7, <2>2 DEF Ends
    <3>2. \E j \in TopSCC(u)' : stack'[u][j].goal = Calls[g][n]
      BY <2>2, <3>1 DEF TopSCC
    <3> QED BY <3>1, <3>2 DEF Marking
  <2> QED BY <1>1, <2>1, <2>2 DEF Marking, is_completed
<1>9. Woken'
  <2>1. \A v \in Thread : Ends(pc'[v]) => stack'[v] # <<>>
    BY <1>6 DEF IInv, Woken
  <2>2. ASSUME NEW v \in Thread, pc'[v] = "sleep", producer_sf'[v] \in Done'
        PROVE  \E w \in Thread : Wakes(w, producer_sf[v])'
    <3>1. /\ pc[v] = "sleep" /\ producer_sf[v] \notin goals /\ producer_sf[v] \in Done
          /\ producer_sf'[v] = producer_sf[v]
      BY <1>1, <1>4, <2>2
    <3>2. PICK w \in Thread : Wakes(w, producer_sf[v])
      BY <3>1 DEF IInv, Woken
    <3>3. w # t
      BY <3>1, <3>2 DEF Wakes
    <3>4. pc'[w] = pc[w] /\ stack'[w] = stack[w]
      BY <1>7, <3>2, <3>3 DEF Wakes
    <3>5. Wakes(w, producer_sf[v])'
      BY <3>1, <3>2, <3>4 DEF Wakes, TopSCC
    <3> QED BY <3>5
  <2> QED BY <2>1, <2>2 DEF Woken
<1> QED BY <1>3, <1>5, <1>8, <1>9 DEF IInv

-----------------------------------------------------------------------------
(* Types: that no frame runs past the calls of its table, and what the     *)
(* registers of a thread hold.                                             *)

Calling(s) == \A i \in 1 .. Len(s) : s[i].next \in 1 .. Len(Calls[s[i].goal]) + 1

\* A frame that is pushed has all its calls left.
LEMMA PushCalling ==
  ASSUME NEW s, NEW D, Stack(s, D), Calling(s), NEW g \in Table
  PROVE  Calling(Append(s, [goal |-> g, leader |-> Len(s) + 1, next |-> 1]))
<1> DEFINE f == [goal |-> g, leader |-> Len(s) + 1, next |-> 1]
           r == Append(s, f)
<1>1. s \in Seq(Frames) /\ f \in Frames /\ Len(s) \in Nat /\ Len(Calls[g]) \in Nat
  BY SharedTablesAssumption DEF Stack, Frames
<1>2. Len(r) = Len(s) + 1 /\ r[Len(s) + 1] = f /\ \A i \in 1 .. Len(s) : r[i] = s[i]
  BY <1>1, AppendProperties
<1>3. f.goal = g /\ f.next = 1
  OBVIOUS
<1> HIDE DEF f, r
<1>4. ASSUME NEW i \in 1 .. Len(r) PROVE r[i].next \in 1 .. Len(Calls[r[i].goal]) + 1
  <2>1. CASE i = Len(s) + 1
    BY <1>1, <1>2, <1>3, <2>1
  <2>2. CASE i # Len(s) + 1
    <3>1. i \in 1 .. Len(s)
      BY <1>1, <1>2, <2>2
    <3> QED BY <1>2, <3>1 DEF Calling
  <2> QED BY <2>1, <2>2
<1> QED BY <1>4 DEF Calling, f, r

\* What is left of a stack is as it was.
LEMMA CutCalling ==
  ASSUME NEW s, NEW D, Stack(s, D), Calling(s), NEW i \in 1 .. Len(s)
  PROVE  Calling(SubSeq(s, 1, s[i].leader - 1))
<1> DEFINE L == s[i].leader
           r == SubSeq(s, 1, L - 1)
<1>1. Len(s) \in Nat /\ s \in Seq(Frames) /\ L \in 1 .. Len(s)
  BY Segments DEF Stack
<1>2. Len(r) = L - 1 /\ \A j \in 1 .. L - 1 : r[j] = s[j] /\ j \in 1 .. Len(s)
  <2>1. \A j \in 1 .. L - 1 : s[j] \in Frames /\ j \in 1 .. Len(s)
    BY <1>1
  <2>2. /\ Len(r) = IF 1 <= L - 1 THEN L - 1 - 1 + 1 ELSE 0
        /\ \A j \in 1 .. L - 1 - 1 + 1 : r[j] = s[1 + j - 1]
    BY <1>1, <2>1, SubSeqProperties
  <2> HIDE DEF r, L
  <2> QED BY <1>1, <2>1, <2>2
<1> HIDE DEF r, L
<1>3. Calling(r)
  BY <1>2 DEF Calling
<1> QED BY <1>3 DEF r, L

\* A call is over only if there was one left.
LEMMA AdvanceCalling ==
  ASSUME NEW s, NEW D, Stack(s, D), Calling(s), NEW i \in 1 .. Len(s), CallsLeft(s[i])
  PROVE  LET r == [s EXCEPT ![i].next = @ + 1]
         IN  /\ r \in Seq(Frames) /\ Len(r) = Len(s) /\ Calling(r)
             /\ \A j \in 1 .. Len(s) : r[j].leader = s[j].leader
<1> DEFINE f == [s[i] EXCEPT !.next = @ + 1]
           r == [s EXCEPT ![i] = f]
<1>1. s \in Seq(Frames) /\ s[i] \in Frames /\ Len(Calls[s[i].goal]) \in Nat
  <2>1. s \in Seq(Frames) /\ s[i] \in Frames
    BY DEF Stack
  <2>2. s[i].goal \in Table
    BY <2>1 DEF Frames
  <2> QED BY <2>1, <2>2, SharedTablesAssumption
<1>2. f \in Frames /\ f.goal = s[i].goal /\ f.leader = s[i].leader /\ f.next = s[i].next + 1
  <2>1. s[i].next + 1 \in Nat /\ f = [s[i] EXCEPT !.next = s[i].next + 1]
    BY <1>1 DEF Frames
  <2> QED BY <1>1, <2>1 DEF Frames
<1>3. f.next \in 1 .. Len(Calls[f.goal]) + 1
  <2>1. s[i].next \in 1 .. Len(Calls[s[i].goal]) + 1 /\ s[i].next <= Len(Calls[s[i].goal])
    BY DEF Calling, CallsLeft
  <2> QED BY <1>1, <1>2, <2>1
<1> HIDE DEF f
<1>4. /\ r \in Seq(Frames) /\ Len(r) = Len(s)
      /\ \A j \in 1 .. Len(s) : r[j] = IF j = i THEN f ELSE s[j]
  BY <1>1, <1>2, ExceptSeq
<1>5. [s EXCEPT ![i].next = @ + 1] = r
  BY <1>1 DEF f
<1> HIDE DEF r
<1>6. Calling(r) /\ \A j \in 1 .. Len(s) : r[j].leader = s[j].leader
  BY <1>2, <1>3, <1>4 DEF Calling
<1> QED BY <1>4, <1>5, <1>6

\* Levels are merged without making or undoing a call.
LEMMA MergeCalling ==
  ASSUME NEW s \in Seq(Frames), Calling(s), NEW at \in 1 .. Len(s)
  PROVE  Calling(adjust_level(s, at))
<1> DEFINE L == s[at].leader
           r == adjust_level(s, at)
<1>1. Len(s) \in Nat /\ DOMAIN s = 1 .. Len(s) /\ \A j \in 1 .. Len(s) : s[j] \in Frames
  OBVIOUS
<1>2. s[at].leader \in Nat
  BY <1>1 DEF Frames
<1>3. \A g \in Frames : /\ [g EXCEPT !.leader = L] \in Frames
                        /\ [g EXCEPT !.leader = L].goal = g.goal
                        /\ [g EXCEPT !.leader = L].next = g.next
  BY <1>2 DEF Frames
<1>4. r = [j \in 1 .. Len(s) |-> IF j < L THEN s[j] ELSE [s[j] EXCEPT !.leader = L]]
  BY <1>1 DEF adjust_level
<1> HIDE DEF L, r
<1>5. r \in Seq(Frames) /\ Len(r) = Len(s)
  <2>1. r \in [1 .. Len(s) -> Frames]
    BY <1>1, <1>3, <1>4
  <2> QED BY <1>1, <2>1
<1>6. \A j \in 1 .. Len(s) : r[j].goal = s[j].goal /\ r[j].next = s[j].next
  BY <1>1, <1>3, <1>4
<1>7. Calling(r)
  BY <1>5, <1>6 DEF Calling
<1> QED BY <1>7 DEF r

Callings == \A t \in Thread : Calling(stack[t])

\* The call that a thread makes next, once it is over.
LEMMA AdvanceNext ==
  ASSUME IInv, Callings, NEW t \in Thread, NEW i \in 0 .. Len(stack[t]), NEW g \in Table,
         NextCall(t, i, g)
  PROVE  LET r == Advance(stack[t], i)
         IN  r \in Seq(Frames) /\ Calling(r) /\ Len(r) = Len(stack[t])
<1>1. Stack(stack[t], Settled) /\ Calling(stack[t]) /\ stack[t] \in Seq(Frames)
  BY DEF IInv, Stacks, Stack, Callings
<1>2. CASE i = 0
  BY <1>1, <1>2 DEF Advance
<1>3. CASE i # 0
  <2>1. stack[t] # <<>> /\ i \in 1 .. Len(stack[t])
    BY <1>3, NextCalls
  <2>2. CallsLeft(stack[t][i])
    BY <2>1 DEF NextCall, AtWork
  <2> QED BY <1>1, <1>3, <2>1, <2>2, AdvanceCalling DEF Advance
<1> QED BY <1>2, <1>3

\* A stack is changed by one step of one thread only.
LEMMA OneStack ==
  ASSUME Callings, stack \in [Thread -> Seq(Frames)], NEW u \in Thread, NEW s, Calling(s),
         stack' = [stack EXCEPT ![u] = s]
  PROVE  Callings'
BY DEF Callings

\* No step makes a frame run past the calls of its table.
LEMMA CallingStep ==
  ASSUME IInv, Callings, Registers, NEW t \in Thread, Step(t) \/ Locking(t) \/ Others(t)
  PROVE  Callings'
<1>1. /\ stack \in [Thread -> Seq(Frames)] /\ \A v \in Thread : Stack(stack[v], Settled) /\ Calling(stack[v])
      /\ \A g \in Table : Calling(Push(t, g))
  <2>1. stack \in [Thread -> Seq(Frames)] /\ \A v \in Thread : Stack(stack[v], Settled) /\ Calling(stack[v])
    BY DEF IInv, Types, Stacks, Callings
  <2> QED BY <2>1, PushCalling DEF Push
<1>2. CASE UNCHANGED stack
  BY <1>2 DEF Callings
<1>3. CASE tabletry(t)
  <2>1. PICK i \in 0 .. Len(stack[t]), g \in Table :
          /\ NextCall(t, i, g)
          /\ \/ NewProducer(t, g) \/ UseGrabbed(t, g) \/ MustWait(t, g)
             \/ Consume(t, i, g) \/ ConsumeUsurped(t, i, g) \/ UseCompleted(t, i, g)
    BY <1>3 DEF tabletry
  <2> DEFINE a == Advance(stack[t], i)
  <2>2. a \in Seq(Frames) /\ Calling(a) /\ Len(a) = Len(stack[t])
    BY <2>1, AdvanceNext
  <2> HIDE DEF a
  <2>3. CASE NewProducer(t, g) \/ UseGrabbed(t, g)
    BY <1>1, <2>3, OneStack DEF NewProducer, UseGrabbed
  <2>4. CASE MustWait(t, g)
    BY <1>2, <2>4 DEF MustWait
  <2>5. CASE Consume(t, i, g)
    <3>1. PICK at \in FramesOf(t, g) : stack' = [stack EXCEPT ![t] = adjust_level(a, at)]
      BY <2>5 DEF Consume, a
    <3>2. at \in 1 .. Len(a)
      BY <1>1, <2>2 DEF FramesOf
    <3>3. Calling(adjust_level(a, at))
      BY <2>2, <3>2, MergeCalling
    <3> QED BY <1>1, <3>1, <3>3, OneStack
  <2>6. CASE ConsumeUsurped(t, i, g) \/ UseCompleted(t, i, g)
    <3>1. stack' = [stack EXCEPT ![t] = a]
      BY <2>6 DEF ConsumeUsurped, UseCompleted, a
    <3> QED BY <1>1, <2>2, <3>1, OneStack
  <2> QED BY <2>1, <2>3, <2>4, <2>5, <2>6
<1>4. CASE LeaveWait(t) /\ ~UNCHANGED stack
  <2>1. PICK i \in 0 .. Len(stack[t]) :
          NextCall(t, i, producer_sf[t]) /\ stack' = [stack EXCEPT ![t] = Advance(@, i)]
    BY <1>4 DEF LeaveWait
  <2>2. producer_sf[t] \in Table
    BY <1>4 DEF LeaveWait, IInv, Types
  <2>3. Calling(Advance(stack[t], i)) /\ stack' = [stack EXCEPT ![t] = Advance(stack[t], i)]
    BY <2>1, <2>2, AdvanceNext
  <2> QED BY <1>1, <2>3, OneStack
<1>5. CASE TakeOver(t)
  <2>1. producer_sf[t] \in Table
    BY <1>5 DEF TakeOver, IInv, Types
  <2> QED BY <1>1, <1>5, <2>1, OneStack DEF TakeOver
<1>6. CASE ResetThread(t) /\ ~UNCHANGED stack
  <2> DEFINE u == tmp[t]
             at == CHOOSE i \in FramesOf(u, sgf[t]) : TRUE
  <2>1. /\ u \in Thread /\ FramesOf(u, sgf[t]) # {}
        /\ stack' = [stack EXCEPT ![u] = SubSeq(@, 1, stack[u][at].leader - 1)]
    BY <1>6 DEF ResetThread, Usurpable, Registers
  <2>2. at \in 1 .. Len(stack[u])
    <3>1. at \in FramesOf(u, sgf[t])
      BY <2>1
    <3> HIDE DEF at
    <3> QED BY <1>1, <2>1, <3>1 DEF FramesOf
  <2> HIDE DEF at, u
  <2>3. Calling(SubSeq(stack[u], 1, stack[u][at].leader - 1))
    BY <1>1, <2>1, <2>2, CutCalling
  <2> QED BY <1>1, <2>1, <2>3, OneStack
<1>7. CASE WakeWaiters(t)
  <2> DEFINE n == Len(stack[t])
  <2>1. stack[t] # <<>>
    BY <1>7 DEF WakeWaiters, IInv, Woken, Ends
  <2>2. n \in 1 .. n
    BY <1>1, <2>1, TopSegment
  <2>3. Calling(SubSeq(stack[t], 1, stack[t][n].leader - 1))
    BY <1>1, <2>2, CutCalling
  <2>4. stack' = [stack EXCEPT ![t] = SubSeq(stack[t], 1, stack[t][n].leader - 1)]
    BY <1>7 DEF WakeWaiters
  <2> QED BY <1>1, <2>3, <2>4, OneStack
<1> QED BY <1>2, <1>3, <1>4, <1>5, <1>6, <1>7 DEF Step, Locking, Others, Sleep, LinkCycle,
           ResetRunning, MarkCompleted, LockMutex, SpuriousWakeup, Ask, evalVars

\* The registers of a thread hold threads and tables.
LEMMA RegistersStep ==
  ASSUME IInv, Registers, NEW t \in Thread, Step(t) \/ Locking(t) \/ Others(t)
  PROVE  Registers'
<1> USE DEF Registers, evalVars, waitVars, listVars
<1>1. CASE tabletry(t)
  <2>1. /\ query' \in [Thread -> Table \cup {Nil}] /\ reset_thread' \in [Thread -> BOOLEAN]
    BY <1>1 DEF tabletry, NewProducer, UseGrabbed, MustWait, Consume, ConsumeUsurped, UseCompleted
  <2> QED BY <1>1, <2>1 DEF tabletry
<1>2. CASE LeaveWait(t)
  <2>1. query' \in [Thread -> Table \cup {Nil}]
    BY <1>2 DEF LeaveWait
  <2> QED BY <1>2, <2>1 DEF LeaveWait
<1>3. CASE Sleep(t)
  <2>1. producer_sf[t] \in Table /\ sf[producer_sf[t]].tid \in Thread \cup {Nil}
    BY <1>3 DEF Sleep, IInv, Types
  <2> QED BY <1>3, <2>1 DEF Sleep
<1>4. CASE LinkCycle(t)
  <2>1. producer_sf[t] \in Table /\ sf[producer_sf[t]].tid \in Thread \cup {Nil}
    BY <1>4 DEF LinkCycle, IInv, Types
  <2> QED BY <1>4, <2>1 DEF LinkCycle
<1>5. CASE ResetThread(t)
  <2> DEFINE u == tmp[t]
             at == CHOOSE i \in FramesOf(u, sgf[t]) : TRUE
             from == stack[u][at].leader
  <2>1. u \in Thread
    BY <1>5 DEF ResetThread, Usurpable
  <2>2. sf[sgf[t]].tid = u => stack[u][from].goal \in Table
    <3> SUFFICES ASSUME sf[sgf[t]].tid = u PROVE stack[u][from].goal \in Table
      OBVIOUS
    <3>1. FramesOf(u, sgf[t]) # {} /\ Stack(stack[u], Settled) /\ stack[u] \in Seq(Frames)
      BY <1>5, <2>1 DEF ResetThread, Usurpable, IInv, Stacks, Types
    <3>2. at \in 1 .. Len(stack[u])
      <4>1. at \in FramesOf(u, sgf[t])
        BY <3>1
      <4> HIDE DEF at
      <4> QED BY <3>1, <4>1 DEF FramesOf
    <3> HIDE DEF at
    <3>3. from \in 1 .. Len(stack[u])
      BY <3>1, <3>2, Segments DEF Stack
    <3>4. stack[u][from] \in Frames
      BY <3>1, <3>3
    <3> QED BY <3>4 DEF Frames
  <2>3. /\ waiting_for_tid' = [waiting_for_tid EXCEPT ![u] = t]
        /\ sgf' = [sgf EXCEPT ![t] = waiting_for_subgoal[u]]
        /\ tmp' = [tmp EXCEPT ![t] = tmp_next[u]]
        /\ UNCHANGED <<query, queries, completing_mut, is_deadlock_leader, tmp_next>>
        /\ \/ UNCHANGED <<reset_thread, waiting_for_subgoal>>
           \/ /\ sf[sgf[t]].tid = u
              /\ reset_thread' = [reset_thread EXCEPT ![u] = TRUE]
              /\ waiting_for_subgoal' = [waiting_for_subgoal EXCEPT ![u] = stack[u][from].goal]
    BY <1>5 DEF ResetThread
  <2> HIDE DEF u, at, from
  <2> QED BY <2>1, <2>2, <2>3
<1>6. CASE \E g \in Table : Ask(t, g)
  <2>1. PICK g \in Table : Ask(t, g)
    BY <1>6
  <2>2. queries[t] + 1 \in 0 .. MaxQueries
    BY <2>1, SharedTablesAssumption DEF Ask
  <2> QED BY <2>1, <2>2 DEF Ask
<1>7. CASE \/ ResetRunning(t) \/ TakeOver(t) \/ MarkCompleted(t)
           \/ LockMutex(t) \/ WakeWaiters(t) \/ SpuriousWakeup(t)
  BY <1>7 DEF ResetRunning, TakeOver, MarkCompleted, LockMutex, WakeWaiters, SpuriousWakeup
<1> QED BY <1>1, <1>2, <1>3, <1>4, <1>5, <1>6, <1>7 DEF Step, Locking, Others

-----------------------------------------------------------------------------
(* The invariant. *)

AllInv == IInv /\ Callings /\ Registers

\* Every step keeps the invariant.
LEMMA StepInv == ASSUME AllInv, [Next]_vars PROVE AllInv'
<1>1. CASE UNCHANGED vars
  <2>1. IInv'
    BY <1>1, IInvKept DEF vars, evalVars, flags, AllInv
  <2> QED BY <1>1, <2>1 DEF vars, evalVars, waitVars, listVars, AllInv, Callings, Registers
<1>2. ASSUME NEW t \in Thread, Step(t) \/ Locking(t) \/ Others(t) PROVE AllInv'
  <2>1. Callings' /\ Registers'
    BY <1>2, CallingStep, RegistersStep DEF AllInv
  <2>2. CASE \E g \in Table : Ask(t, g)
    <3>1. UNCHANGED <<sf, stack, pc, producer_sf, astray>>
      BY <2>2 DEF Ask, flags
    <3>2. IInv'
      BY <3>1, IInvKept DEF AllInv
    <3> QED BY <2>1, <3>2 DEF AllInv
  <2>3. CASE ResetRunning(t)
    <3>1. UNCHANGED <<sf, stack, pc, producer_sf, astray>>
      BY <2>3 DEF ResetRunning, evalVars
    <3>2. IInv'
      BY <3>1, IInvKept DEF AllInv
    <3> QED BY <2>1, <3>2 DEF AllInv
  <2>4. CASE ~(\E g \in Table : Ask(t, g)) /\ ~ResetRunning(t)
    <3>1. IInv'
      BY <1>2, <2>4, TableTryStep, WaitStep, ResetStep, TakeOverStep, CompleteStep, WakeStep
      DEF Step, Locking, Others, AllInv
    <3> QED BY <2>1, <3>1 DEF AllInv
  <2> QED BY <2>2, <2>3, <2>4
<1> QED BY <1>1, <1>2 DEF Next

\* The invariant holds in every reachable state.
LEMMA Invariance == Spec => []AllInv
<1>1. Init => AllInv
  BY InitInv, SharedTablesAssumption DEF Init, AllInv, Callings, Calling, Registers
<1>2. AllInv /\ [Next]_vars => AllInv'
  BY StepInv
<1> QED BY <1>1, <1>2, PTL DEF Spec

\* No table is completed before the tables it calls, whoever evaluated them and however
\* often they were usurped on the way, until a usurped table has gone astray.
THEOREM CompletionSound == Spec => []CompletedWithCallees
<1>1. AllInv => CompletedWithCallees
  BY DEF AllInv, IInv
<1> QED BY <1>1, Invariance, PTL

\* A thread asleep on a completed table is about to be woken, though tables are marked
\* completed one by one and without the mutex.
THEOREM WakeupKept == Spec => []NoLostWakeup
<1>1. ASSUME IInv PROVE NoLostWakeup
  <2> SUFFICES ASSUME NEW t \in Thread, pc[t] = "sleep", is_completed(producer_sf[t])
               PROVE  \E u \in Thread : pc[u] \in {"mark", "wake"} /\ FramesOf(u, producer_sf[t]) # {}
    BY DEF NoLostWakeup
  <2>1. producer_sf[t] \in Done
    BY <1>1 DEF IInv, Types, Done
  <2>2. PICK u \in Thread : Wakes(u, producer_sf[t])
    BY <1>1, <2>1 DEF IInv, Woken
  <2>3. stack[u] # <<>> /\ Stack(stack[u], Settled) /\ stack[u] \in Seq(Frames)
    BY <1>1, <2>2 DEF IInv, Woken, Wakes, Stacks, Stack
  <2>4. PICK i \in TopSCC(u) : stack[u][i].goal = producer_sf[t]
    BY <2>2 DEF Wakes
  <2>5. i \in DOMAIN stack[u]
    BY <2>3, <2>4, TopSegment DEF TopSCC
  <2> QED BY <2>2, <2>4, <2>5 DEF Wakes, Ends, FramesOf
<1>2. AllInv => NoLostWakeup
  BY <1>1 DEF AllInv
<1> QED BY <1>2, Invariance, PTL

\* The type invariant, for every number of threads and tables: no frame has a leader above
\* it or a call beyond the last of its table, and the registers that the search for a cycle
\* and the reset of other threads go by hold threads and tables.
THEOREM TypeCorrect == Spec => []TypeOK
<1>1. ASSUME IInv, Callings, Registers PROVE TypeOK
  <2>1. ASSUME NEW t \in Thread, NEW i \in DOMAIN stack[t]
        PROVE  /\ stack[t][i].goal \in Table /\ stack[t][i].leader \in 1 .. i
               /\ stack[t][i].next \in 1 .. Len(Calls[stack[t][i].goal]) + 1
    <3>1. stack[t] \in Seq(Frames) /\ Levels(stack[t]) /\ Calling(stack[t])
      BY <1>1 DEF IInv, Stacks, Stack, Callings
    <3>2. i \in 1 .. Len(stack[t]) /\ stack[t][i] \in Frames
      BY <3>1
    <3> QED BY <3>1, <3>2 DEF Levels, Calling, Frames
  <2> QED BY <1>1, <2>1 DEF TypeOK, IInv, Types, Registers
<1>2. AllInv => TypeOK
  BY <1>1 DEF AllInv
<1> QED BY <1>2, Invariance, PTL
=============================================================================
