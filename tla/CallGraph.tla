------------------------------ MODULE CallGraph ------------------------------
(***************************************************************************)
(* Incremental tabling (emu/call_graph_xsb.c, emu/incr_xsb.c,              *)
(* emu/tables.c, emu/slginsts_xsb_i.h, syslib/increval.P), sequential      *)
(* engine, definite programs.                                              *)
(*                                                                         *)
(* Every tabled goal has a call node, and so has every goal of a dynamic   *)
(* incremental predicate (a fact).  An edge runs from a node to the node   *)
(* of each table that called it.  An update of a fact invalidates, along   *)
(* the edges, the tables that depend on it: falsecount counts the edges    *)
(* over which a table was invalidated.  A call of an invalid table first   *)
(* recomputes the invalid tables it depends on (lazy re-evaluation); one   *)
(* that comes out unchanged takes its invalidation back.                   *)
(*                                                                         *)
(* A goal has one possible answer.  Evaluation is that of LocalEval with   *)
(* the data left out: clauses and literals in their order, the topmost SCC *)
(* of the completion stack first and in it the youngest goal with work.    *)
(***************************************************************************)
EXTENDS Integers, Sequences, FiniteSets

CONSTANTS Facts,        \* goals of dynamic incremental predicates
          Goals,        \* incrementally tabled goals
          Clauses,      \* goal -> sequence of clauses, each a sequence of literals
          User,         \* the caller of a query that no table calls
          None,         \* a null pointer
          FalseMod,     \* falsecount is kept modulo this (2^14 in the code)
          MaxClauses,   \* bound: clauses of a fact
          MaxUpdates,   \* bound: updates of facts
          MaxAborts,    \* bound: exceptions thrown by the program to the top level
          MaxNode,      \* bound: call nodes of one goal at a time, less one
          Inside        \* whether tabled goals update facts while they are evaluated

ASSUME CallGraphAssumption ==
    /\ IsFiniteSet(Goals) /\ IsFiniteSet(Facts) /\ Goals \cap Facts = {}
    /\ {User, None} \cap (Goals \cup Facts) = {}
    /\ User # None /\ None \notin Goals \X (0 .. MaxNode)
    /\ \A g \in Goals : Clauses[g] \in Seq(Seq(Goals \cup Facts))
    /\ FalseMod \in Nat \ {0, 1}
    /\ {MaxClauses, MaxUpdates, MaxAborts, MaxNode} \subseteq Nat
    /\ Inside \in BOOLEAN

VARIABLES
    db,          \* the number of clauses of each fact
    choice,      \* the fact whose incr_retract can be backtracked into, or None
    table,       \* the call node of each goal's subgoal frame, or None
    call,        \* the call nodes
    out,         \* hash table of out-edges; a re-evaluated table shares it with
                 \* its previous node, so it is kept per fact or goal
    outcount,
    inedges,     \* for each node, the owners of the hash tables it is in
    stack,       \* completion stack: incomplete goals with their leader's index
    completing,  \* goals of the SCC that is being completed, still to be done
    called,      \* literals <<clause, position>> that an incomplete goal has called
    lazy,        \* goals the lazy re-evaluation handler of a caller still has to call
    query,       \* the goal the user has called, or None
    crashed,     \* a freed hash table was traversed
    updates, aborts,  \* history: for the bounds
    cut,         \* history: an invalidation was cut short by an error, or a fact
                 \* was removed without one
    overlapped   \* history: an invalidation reached the previous node of a table
                 \* that was being re-evaluated

graphVars == <<table, call, out, outcount, inedges>>
evalVars  == <<stack, completing, called, lazy, query>>
histVars  == <<updates, aborts, cut, overlapped>>
vars == <<db, choice, graphVars, evalVars, crashed, histVars>>

-----------------------------------------------------------------------------
(* Call nodes.  Nodes of one goal are told apart by a number, standing for *)
(* the id of the code; a number is used again once no pointer holds it.    *)

Node   == Goals \X (0 .. MaxNode)
Source == Facts \cup Goals
Caller == Goals \cup {User}
Literals == [g \in Goals |-> UNION {{<<k, i>> : i \in DOMAIN Clauses[g][k]} : k \in DOMAIN Clauses[g]}]
LiteralGoal(g, l) == Clauses[g][l[1]][l[2]]

makecallnode ==
    [falsecount |-> 0, deleted |-> FALSE, changed |-> FALSE, direct |-> FALSE,
     no_of_answers |-> 0, prev_call |-> None, outedges |-> TRUE]
Freed == [makecallnode EXCEPT !.outedges = FALSE]

\* Nodes some pointer still holds.
InUse == {table[g] : g \in Goals} \cup {call[n].prev_call : n \in Node}
             \cup {n \in Node : inedges[n] # {} \/ \E s \in Source : n \in out[s]}
Unused(g) == {n \in {g} \X (0 .. MaxNode) : n \notin InUse}
FreshNode(g) == CHOOSE n \in Unused(g) : TRUE

Range1(s) == {s[i] : i \in DOMAIN s}
IncompleteGoals == {stack[i].goal : i \in DOMAIN stack} \cup Range1(completing)
IsCompleted(g) == table[g] # None /\ g \notin IncompleteGoals
HasAnswer(g) == table[g] # None /\ call[table[g]].no_of_answers > 0
IsAffected(g) == table[g] # None /\ call[table[g]].falsecount # 0
Valid(g) == IsCompleted(g) /\ call[table[g]].falsecount = 0

-----------------------------------------------------------------------------
(* Edges.                                                                  *)

\* The graph after an edge from source s to node n, unless it is there; the
\* user is no table and gets none.
addcalledge(s, n, O, C, I) ==
    IF n = None \/ n \in O[s]
    THEN [out |-> O, outcount |-> C, inedges |-> I]
    ELSE [out |-> [O EXCEPT ![s] = @ \cup {n}],
          outcount |-> [C EXCEPT ![s] = @ + 1],
          inedges |-> [I EXCEPT ![n] = @ \cup {s}]]

SetEdges(e) == out' = e.out /\ outcount' = e.outcount /\ inedges' = e.inedges

CallerNode(c) == IF c = User THEN None ELSE table[c]

-----------------------------------------------------------------------------
(* Invalidation: invalidate_call and dfs_outedges.                         *)

Edges == {e \in Source \X Node : e[2] \in out[e[1]]}
IncompleteNode(n) == n[1] \in IncompleteGoals /\ table[n[1]] = n

\* Nodes that a search from the source s along the edges E marks: the nodes it
\* reaches through nodes that were not marked before, the root apart.
Visited(s, root, E) ==
    LET fresh == {n \in Node : ~call[n].deleted /\ n # root /\ \E e \in E : e[2] = n}
        Done(W) == \A e \in E : e[2] \in fresh /\ (e[1] = s \/ \E m \in W : m[1] = e[1]) => e[2] \in W
    IN  {n \in fresh : \A W \in SUBSET fresh : Done(W) => n \in W}

\* The edges of E the search crosses: all out-edges of every node it marks.
Crossed(s, V, E) == {e \in E : e[1] = s \/ \E n \in V : n[1] = e[1]}

\* Mutant: only the first edge over which a node is reached counts.
dfs_outedges_once(root, V, E) ==
    [n \in Node |-> IF n # root /\ n \notin V THEN call[n]
                    ELSE [call[n] EXCEPT !.falsecount = (@ + 1) % FalseMod, !.deleted = TRUE]]

\* Every crossed edge counts on the node it leads to.
dfs_outedges(root, V, E) ==
    [n \in Node |->
        LET k == Cardinality({e \in E : e[2] = n}) + (IF n = root THEN 1 ELSE 0)
        IN  IF k = 0 THEN call[n]
            ELSE [call[n] EXCEPT !.falsecount = (@ + k) % FalseMod,
                                 !.deleted = @ \/ n = root \/ n \in V]]

\* The call nodes after an invalidation from s, and whether it threw an error.
\* It throws when it reaches an incomplete table that is not marked; by then it
\* has crossed some of the edges, in an order given by the hash tables.
invalidate_call(s) ==
    LET root == IF s \in Goals THEN table[s] ELSE None
        V == Visited(s, root, Edges)
        all == Crossed(s, V, Edges)
        Short(E) ==
            LET W == {n \in Visited(s, root, E) : ~IncompleteNode(n)}
            IN  /\ Cardinality({e \in E : e[2] \in V /\ IncompleteNode(e[2])}) = 1
                /\ E = Crossed(s, W, E)
    IN  IF root # None /\ call[root].deleted THEN {[call |-> call, thrown |-> FALSE]}
        ELSE IF root # None /\ IncompleteNode(root)
             THEN {[call |-> [call EXCEPT ![root].falsecount = (@ + 1) % FalseMod],
                    thrown |-> TRUE]}
        ELSE IF \A n \in V : ~IncompleteNode(n)
             THEN {[call |-> dfs_outedges(root, V, all), thrown |-> FALSE]}
        ELSE {[call |-> dfs_outedges(root, {n \in Visited(s, root, E) : ~IncompleteNode(n)}, E),
               thrown |-> TRUE] : E \in {F \in SUBSET all : Short(F)}}

-----------------------------------------------------------------------------
(* Unlinking nodes: deleteoutedges, deleteinedges and deletecallnode.  The *)
(* hash table of out-edges is freed with the node, also when the previous  *)
(* node of a re-evaluation, which stays where it is, still points to it.   *)

\* Mutant: the nodes of callers keep the edge.
Detach_inedges_left(G, cl) ==
    LET N == {table[g] : g \in G}
    IN  /\ table' = [g \in Goals |-> IF g \in G THEN None ELSE table[g]]
        /\ out' = [s \in Source |-> IF s \in G THEN {} ELSE out[s] \ N]
        /\ outcount' = [s \in Source |->
               IF s \in G THEN 0 ELSE outcount[s] - Cardinality({n \in N : s \in inedges[n]})]
        /\ inedges' = [n \in Node |-> IF n \in N THEN {} ELSE inedges[n]]
        /\ call' = [n \in Node |-> IF n \in N THEN Freed ELSE cl[n]]

Detach(G, cl) ==
    LET N == {table[g] : g \in G}
        orphans == {cl[n].prev_call : n \in N} \ {None}
    IN  /\ table' = [g \in Goals |-> IF g \in G THEN None ELSE table[g]]
        /\ out' = [s \in Source |-> IF s \in G THEN {} ELSE out[s] \ N]
        /\ outcount' = [s \in Source |->
               IF s \in G THEN 0 ELSE outcount[s] - Cardinality({n \in N : s \in inedges[n]})]
        /\ inedges' = [n \in Node |->
               IF n \in N THEN {} ELSE inedges[n] \ {g \in G : n \in out[g]}]
        /\ call' = [n \in Node |->
               IF n \in N THEN Freed
               ELSE IF n \in orphans THEN [cl[n] EXCEPT !.outedges = FALSE] ELSE cl[n]]

-----------------------------------------------------------------------------
(* Updates by the program.  A tabled goal that updates facts catches the   *)
(* error of an invalidation and goes on.                                   *)

Idle == stack = <<>> /\ completing = <<>> /\ query = None
CanUpdate ==
    /\ ~crashed /\ completing = <<>> /\ updates < MaxUpdates
    /\ Idle \/ (Inside /\ stack # <<>>)

\* History of an invalidation with the outcome o.
Disturbs(o) ==
    /\ cut' = (cut \/ o.thrown)
    /\ overlapped' = (overlapped \/ \E g \in IncompleteGoals :
           LET p == call[table[g]].prev_call
           IN  p # None /\ o.call[p].falsecount # call[p].falsecount)

\* incr_assert, incr_retract and incr_retractall: the call nodes of the fact
\* are invalidated, then the clauses are changed; an error leaves them alone.
UpdateFact(f, d, ch) ==
    /\ CanUpdate
    /\ updates' = updates + 1
    /\ \E o \in invalidate_call(f) :
          /\ call' = o.call
          /\ db' = IF o.thrown THEN db ELSE [db EXCEPT ![f] = d]
          /\ choice' = IF o.thrown THEN choice ELSE ch
          /\ Disturbs(o)
    /\ UNCHANGED <<table, out, outcount, inedges, evalVars, crashed, aborts>>

incr_assert(f) == db[f] < MaxClauses /\ UpdateFact(f, db[f] + 1, choice)
incr_retract(f) ==
    IF db[f] > 0 THEN UpdateFact(f, db[f] - 1, IF db[f] > 1 THEN f ELSE None)
                 ELSE UpdateFact(f, 0, choice)
incr_retractall(f) == UpdateFact(f, 0, choice)

\* Backtracking into incr_retract removes the next clause: retract/1 is the last
\* goal of incr_retract, which does not invalidate again.
RetryRetract(f) ==
    /\ ~crashed /\ Idle /\ choice = f /\ db[f] > 0 /\ updates < MaxUpdates
    /\ updates' = updates + 1
    /\ db' = [db EXCEPT ![f] = @ - 1]
    /\ cut' = TRUE
    /\ UNCHANGED <<choice, graphVars, evalVars, crashed, aborts, overlapped>>

\* incr_invalidate_call of a tabled goal.
incr_invalidate_call(g) ==
    /\ CanUpdate
    /\ table[g] # None
    /\ updates' = updates + 1
    /\ \E o \in invalidate_call(g) : call' = o.call /\ Disturbs(o)
    /\ UNCHANGED <<db, choice, table, out, outcount, inedges, evalVars, crashed, aborts>>

\* abolish_table_call of a completed table.
abolish_table_call(g) ==
    /\ CanUpdate
    /\ IsCompleted(g)
    /\ updates' = updates + 1
    /\ \E o \in invalidate_call(g) :
          /\ Disturbs(o)
          /\ IF o.thrown THEN call' = o.call /\ UNCHANGED <<table, out, outcount, inedges>>
             ELSE Detach({g}, o.call)
    /\ UNCHANGED <<db, choice, evalVars, crashed, aborts>>

-----------------------------------------------------------------------------
(* The work of an incomplete goal: answers for clauses whose literals all   *)
(* hold, then the handler of a lazy re-evaluation, then the next literal of *)
(* the first clause that has one.                                           *)

LiteralTrue(d) == IF d \in Facts THEN db[d] > 0 ELSE HasAnswer(d)

\* Literals an incomplete goal can call.
ReadyLiterals(g) ==
    {l \in Literals[g] \ called[g] :
        l[2] = 1 \/ LET p == <<l[1], l[2] - 1>>
                    IN  p \in called[g] /\ LiteralTrue(LiteralGoal(g, p))}

ReadyClauses(g) ==
    {k \in DOMAIN Clauses[g] :
        \A i \in DOMAIN Clauses[g][k] :
            <<k, i>> \in called[g] /\ LiteralTrue(Clauses[g][k][i])}

NextLiteral(g) ==
    CHOOSE l \in ReadyLiterals(g) :
        \A m \in ReadyLiterals(g) : l[1] < m[1] \/ (l[1] = m[1] /\ l[2] <= m[2])

AnswerReady(g) == ReadyClauses(g) # {} /\ ~HasAnswer(g)

Exhausted(g) == lazy[g] = <<>> /\ ReadyLiterals(g) = {} /\ ~AnswerReady(g)

-----------------------------------------------------------------------------
(* Calls: table_call_search and the new producer of slginsts_xsb_i.h.      *)

\* The goal at work is the youngest of the topmost SCC that has work left, the
\* user when no goal is incomplete.
Active(c) ==
    /\ ~crashed /\ completing = <<>>
    /\ IF stack = <<>> THEN c = User /\ query # None
       ELSE \E i \in stack[Len(stack)].leader .. Len(stack) :
               /\ stack[i].goal = c /\ ~Exhausted(c)
               /\ \A j \in i + 1 .. Len(stack) : Exhausted(stack[j].goal)

\* Goals from which the goal d can be reached along the edges of the goals D.
Reaches(d, D) ==
    LET Done(W) == \A g \in D, h \in W : g \in inedges[table[h]] => g \in W
    IN  {g \in D : \A W \in SUBSET (D \cup {d}) : d \in W /\ Done(W) => g \in W}

\* Goals that dfs_inedges visits from d: the invalid tables it depends on.  A
\* node set to be computed directly is not searched again.
Dependencies(d) ==
    {d} \cup Reaches(d, {g \in Goals : /\ table[g] # None
                                       /\ call[table[g]].falsecount > 0
                                       /\ ~call[table[g]].direct})

\* The orders in which the handler calls the goals D, a permutation that puts a
\* goal after the goals it depends on, cycles apart (postorder of the search).
PostOrders(D) ==
    {s \in [1 .. Cardinality(D) -> D] :
        /\ Range1(s) = D
        /\ \A i, j \in DOMAIN s :
              i < j /\ s[j] \in Reaches(s[i], D) => s[i] \in Reaches(s[j], D)}

\* An incomplete table is found: the goals above it on the completion stack are
\* in its SCC.
MergeLevels(d) ==
    LET at == CHOOSE i \in DOMAIN stack : stack[i].goal = d
    IN  [i \in DOMAIN stack |->
            IF i < stack[at].leader THEN stack[i] ELSE [stack[i] EXCEPT !.leader = stack[at].leader]]

Push(d) == Append(stack, [goal |-> d, leader |-> Len(stack) + 1])

\* Caller c's call of d finds a table that is not invalidated.
CallValidTable(c, d) ==
    /\ table[d] # None /\ ~IsAffected(d)
    /\ SetEdges(addcalledge(d, CallerNode(c), out, outcount, inedges))
    /\ stack' = IF IsCompleted(d) THEN stack ELSE MergeLevels(d)
    /\ UNCHANGED <<table, call>>

\* There is no table: a new producer.
CallNewTable(c, d) ==
    /\ table[d] = None /\ Unused(d) # {}
    /\ LET n == FreshNode(d)
       IN  /\ table' = [table EXCEPT ![d] = n]
           /\ call' = [call EXCEPT ![n] = makecallnode]
    /\ SetEdges(addcalledge(d, CallerNode(c), [out EXCEPT ![d] = {}],
                            [outcount EXCEPT ![d] = 0], inedges))
    /\ stack' = Push(d)

\* The table is invalid and its turn has come: a new producer takes over the
\* out-edges and the answers of the old one.
CallInvalidTable(c, d) ==
    LET o == table[d]
        n == FreshNode(d)
    IN  /\ IsAffected(d) /\ call[o].direct /\ Unused(d) # {}
        /\ table' = [table EXCEPT ![d] = n]
        /\ call' = [call EXCEPT ![n] = [makecallnode EXCEPT !.prev_call = o],
                                ![o].falsecount = 0, ![o].deleted = TRUE]
        /\ SetEdges(addcalledge(d, CallerNode(c), out, outcount, inedges))
        /\ stack' = Push(d)

CallTable(c, d) == CallValidTable(c, d) \/ CallNewTable(c, d) \/ CallInvalidTable(c, d)

\* The table is invalid and so may be tables it depends on: dfs_inedges makes the
\* list of the tables to compute directly, which the handler of the interrupt
\* calls one by one before it calls d again (RunHandler).
NeedsLazyReeval(d) ==
    IsAffected(d) /\ ~call[table[d]].direct

\* Mutant: the tables of the list are not set to be computed directly.
LazyReeval_not_direct(c, d) ==
    LET D == Dependencies(d)
    IN  /\ NeedsLazyReeval(d)
        /\ D \cap IncompleteGoals = {}
        /\ \E s \in PostOrders(D \ {d}) : lazy' = [lazy EXCEPT ![c] = s]
        /\ UNCHANGED <<db, choice, graphVars, stack, completing, called, query, crashed,
                       histVars>>

\* The nodes once dfs_inedges has visited the goals D.
SetDirect(D) ==
    [n \in Node |-> IF \E g \in D : table[g] = n THEN [call[n] EXCEPT !.direct = TRUE] ELSE call[n]]

LazyReeval(c, d) ==
    LET D == Dependencies(d)
    IN  /\ NeedsLazyReeval(d)
        /\ D \cap IncompleteGoals = {}
        /\ call' = SetDirect(D)
        /\ \E s \in PostOrders(D \ {d}) : lazy' = [lazy EXCEPT ![c] = s \o @]
        /\ UNCHANGED <<db, choice, table, out, outcount, inedges, stack, completing,
                       called, query, crashed, histVars>>

\* remove_incomplete_tries, when an exception reaches the top level and has left
\* the nodes cl.
Unwind(cl) ==
    /\ Detach({stack[i].goal : i \in DOMAIN stack}, cl)
    /\ stack' = <<>>
    /\ called' = [g \in Goals |-> {}]
    /\ lazy' = [c \in Caller |-> <<>>]
    /\ query' = None
    /\ aborts' = aborts + 1
    /\ UNCHANGED <<db, choice, completing, crashed, updates, cut, overlapped>>

\* dfs_inedges throws an error when a table to be recomputed, g, is incomplete.  The
\* goals V it has visited on the way, in some order, stay set to be computed directly.
LazyError(d) ==
    /\ NeedsLazyReeval(d)
    /\ \E g \in Dependencies(d) \cap IncompleteGoals, V \in SUBSET (Dependencies(d) \ IncompleteGoals) :
          /\ d \in V \cup {g} /\ (d = g => V = {})
          /\ Reaches(d, V \cup {g}) = V \cup {g}
          /\ Unwind(SetDirect(V))

-----------------------------------------------------------------------------
(* Evaluation.                                                             *)

Query(d) ==
    /\ ~crashed /\ Idle
    /\ query' = d
    /\ UNCHANGED <<db, choice, graphVars, stack, completing, called, lazy, crashed, histVars>>

\* The goal at work calls its next literal, d.
CallsLiteral(g) == Active(g) /\ ~AnswerReady(g) /\ lazy[g] = <<>> /\ ReadyLiterals(g) # {}

CallFact(g) ==
    /\ CallsLiteral(g)
    /\ LET d == LiteralGoal(g, NextLiteral(g))
       IN  d \in Facts /\ SetEdges(addcalledge(d, table[g], out, outcount, inedges))
    /\ called' = [called EXCEPT ![g] = @ \cup {NextLiteral(g)}]
    /\ UNCHANGED <<db, choice, table, call, stack, completing, lazy, query, crashed, histVars>>

CallGoal(g) ==
    /\ CallsLiteral(g)
    /\ \E d \in {LiteralGoal(g, NextLiteral(g))} \cap Goals :
          \/ /\ CallTable(g, d)
             /\ called' = [called EXCEPT ![g] = @ \cup {NextLiteral(g)}]
             /\ UNCHANGED <<db, choice, completing, lazy, query, crashed, histVars>>
          \/ LazyReeval(g, d)
          \/ LazyError(d)

\* The user's call; the answers of a completed table are returned at once.
CallQuery ==
    /\ Active(User) /\ lazy[User] = <<>>
    /\ \/ /\ CallTable(User, query)
          /\ query' = IF Valid(query) THEN None ELSE query
          /\ UNCHANGED <<db, choice, completing, called, lazy, crashed, histVars>>
       \/ LazyReeval(User, query)

\* lazy_reeval_1: the next goal of the list is called if it is still invalid
\* (call_if_affected); its caller is the one whose call needed the list.
RunHandler(c) ==
    LET d == Head(lazy[c])
        rest == [lazy EXCEPT ![c] = Tail(@)]
    IN  /\ Active(c) /\ lazy[c] # <<>> /\ (c # User => ~AnswerReady(c))
        /\ \/ /\ ~IsAffected(d)
              /\ lazy' = rest
              /\ UNCHANGED <<db, choice, graphVars, stack, completing, called, query,
                             crashed, histVars>>
           \/ /\ CallInvalidTable(c, d)
              /\ lazy' = rest
              /\ UNCHANGED <<db, choice, completing, called, query, crashed, histVars>>
           \/ LazyReeval(c, d)
           \/ LazyError(d)

\* An answer for g: one the previous table had is rederived, any other changes it.
NewAnswer(g) ==
    LET n == table[g]
        p == call[n].prev_call
        marked == [call EXCEPT ![n].no_of_answers = 1]
    IN  /\ Active(g) /\ AnswerReady(g)
        /\ call' = IF p = None THEN marked
                   ELSE IF call[p].no_of_answers > 0
                        THEN [marked EXCEPT ![p].no_of_answers = @ - 1]
                        ELSE [marked EXCEPT ![p].changed = TRUE]
        /\ UNCHANGED <<db, choice, table, out, outcount, inedges, evalVars, crashed,
                       histVars>>

\* The topmost SCC has nothing left to do.
CompleteScc ==
    LET top == Len(stack)
        leader == stack[top].leader
    IN  /\ ~crashed /\ completing = <<>> /\ stack # <<>>
        /\ \A i \in leader .. top : Exhausted(stack[i].goal)
        /\ completing' = [i \in 1 .. top - leader + 1 |-> stack[leader + i - 1].goal]
        /\ stack' = SubSeq(stack, 1, leader - 1)
        /\ UNCHANGED <<db, choice, graphVars, called, lazy, query, crashed, histVars>>

\* Out-edges to n that propagate_no_change crosses: those of the goal g and those
\* of the nodes Z.
Hits(g, Z, n) ==
    Cardinality({s \in Source : n \in out[s] /\ (s = g \/ \E m \in Z : m[1] = s /\ call[m].outedges)})

\* Nodes whose falsecount a table of goal g that has not changed brings to zero.
Cleared(g) ==
    LET invalid == {n \in Node : call[n].falsecount > 0}
        Done(Z) == \A n \in invalid : call[n].falsecount <= Hits(g, Z, n) => n \in Z
    IN  {n \in invalid : \A Z \in SUBSET invalid : Done(Z) => n \in Z}

\* Mutant: a node that is valid is counted down as well.
propagate_no_change_unguarded(g) ==
    LET Z == Cleared(g)
    IN  [n \in Node |->
            IF n \in Z THEN [call[n] EXCEPT !.falsecount = 0, !.deleted = FALSE]
            ELSE [call[n] EXCEPT !.falsecount = @ - Hits(g, Z, n)]]

\* An unchanged table takes back its part in the invalidation of its callers, and
\* each of them that has no other goes on likewise.
propagate_no_change(g) ==
    LET Z == Cleared(g)
    IN  [n \in Node |->
            IF n \in Z THEN [call[n] EXCEPT !.falsecount = 0, !.deleted = FALSE]
            ELSE IF call[n].falsecount > 0 THEN [call[n] EXCEPT !.falsecount = @ - Hits(g, Z, n)]
            ELSE call[n]]

\* Mutant: answers of the previous table that were not derived again are forgotten.
Unchanged_grown(p) == ~call[p].changed

\* The re-evaluated table has the answers of its previous node p.
Unchanged(p) == ~call[p].changed /\ call[p].no_of_answers = 0

\* Completion of one table of the SCC, with deallocate_previous_call.
CompleteTable ==
    LET g == Head(completing)
        n == table[g]
        p == call[n].prev_call
        unchanged == p # None /\ Unchanged(p)
        cl == IF unchanged THEN propagate_no_change(g) ELSE call
        done == [cl EXCEPT ![n].direct = FALSE, ![n].prev_call = None]
    IN  /\ ~crashed /\ completing # <<>>
        /\ completing' = Tail(completing)
        /\ called' = [called EXCEPT ![g] = {}]
        /\ crashed' = (unchanged /\ \E m \in Cleared(g) : ~call[m].outedges)
        /\ call' = IF p = None THEN done ELSE [done EXCEPT ![p] = Freed]
        /\ out' = [s \in Source |-> out[s] \ {p}]
        /\ outcount' = [s \in Source |->
               outcount[s] - (IF p # None /\ s \in inedges[p] THEN 1 ELSE 0)]
        /\ inedges' = IF p = None THEN inedges ELSE [inedges EXCEPT ![p] = {}]
        /\ UNCHANGED <<db, choice, table, stack, lazy, query, histVars>>

\* An exception of the program that is caught at the top level.
Abort ==
    /\ ~crashed /\ completing = <<>> /\ stack # <<>> /\ aborts < MaxAborts
    /\ Unwind(call)

-----------------------------------------------------------------------------
Init ==
    /\ db \in [Facts -> {0, MaxClauses}]     \* clauses loaded before the first call
    /\ choice = None
    /\ table = [g \in Goals |-> None]
    /\ call = [n \in Node |-> Freed]
    /\ out = [s \in Source |-> {}]
    /\ outcount = [s \in Source |-> 0]
    /\ inedges = [n \in Node |-> {}]
    /\ stack = <<>> /\ completing = <<>>
    /\ called = [g \in Goals |-> {}]
    /\ lazy = [c \in Caller |-> <<>>]
    /\ query = None
    /\ crashed = FALSE /\ cut = FALSE /\ overlapped = FALSE
    /\ updates = 0 /\ aborts = 0

Evaluate ==
    \/ CallQuery
    \/ \E g \in Goals : CallFact(g) \/ CallGoal(g) \/ NewAnswer(g)
    \/ \E c \in Caller : RunHandler(c)
    \/ CompleteScc
    \/ CompleteTable

Next ==
    \/ Evaluate
    \/ Abort
    \/ \E d \in Goals : Query(d) \/ incr_invalidate_call(d) \/ abolish_table_call(d)
    \/ \E f \in Facts : incr_assert(f) \/ incr_retract(f) \/ incr_retractall(f) \/ RetryRetract(f)

\* A goal that has been called is evaluated until it is completed or an exception
\* ends it.
Spec == Init /\ [][Next]_vars /\ WF_vars(Evaluate)
-----------------------------------------------------------------------------
(* Properties.                                                             *)

NodeRecord ==
    [falsecount : 0 .. FalseMod - 1, deleted : BOOLEAN, changed : BOOLEAN, direct : BOOLEAN,
     no_of_answers : 0 .. 1, prev_call : Node \cup {None}, outedges : BOOLEAN]

Undisturbed == ~cut /\ ~overlapped

\* Type invariant of the call graph and of the evaluation.
TypeOK ==
    /\ db \in [Facts -> 0 .. MaxClauses] /\ choice \in Facts \cup {None}
    /\ table \in [Goals -> Node \cup {None}]
    /\ call \in [Node -> NodeRecord]
    /\ out \in [Source -> SUBSET Node] /\ outcount \in [Source -> Nat]
    /\ inedges \in [Node -> SUBSET Source]
    /\ stack \in Seq([goal : Goals, leader : Nat]) /\ completing \in Seq(Goals)
    /\ \A g \in Goals : called[g] \subseteq Literals[g]
    /\ lazy \in [Caller -> Seq(Goals)] /\ query \in Goals \cup {None}
    /\ {crashed, cut, overlapped} \subseteq BOOLEAN /\ {updates, aborts} \subseteq Nat

\* The two directions of every edge agree, and outcount is the number of
\* out-edges: what deleteinedges and deallocate_previous_call ("BUG: key not found
\* for removal") and deletecallnode ("outcount is nonzero") rely on, through
\* re-evaluation, abolishing and exceptions.
EdgesMatch ==
    /\ \A s \in Source, n \in Node : n \in out[s] <=> s \in inedges[n]
    /\ \A s \in Source : outcount[s] = Cardinality(out[s])

\* falsecount covers every table g depends on that is invalid or being computed
\* again, so that none of them that comes out unchanged can make g valid while
\* another one is still invalid.
CountsInvalidSources ==
    Undisturbed /\ completing = <<>> =>
        \A g \in Goals : IsCompleted(g) =>
            LET n == table[g]
                Pending(s) == /\ table[s] # None
                              /\ \/ call[table[s]].falsecount > 0
                                 \/ s \in IncompleteGoals /\ call[table[s]].prev_call # None
            IN  /\ call[n].falsecount >= Cardinality({s \in inedges[n] \cap Goals : Pending(s)})
                /\ call[n].deleted <=> call[n].falsecount > 0

Views == INSTANCE TableViews WITH
    Absent <- None,
    view <- [g \in Goals |-> IF Undisturbed /\ ~crashed /\ Valid(g) THEN HasAnswer(g) ELSE None]

\* Incremental tabling implements materialised views of the facts: every update, and
\* every end of a re-evaluation, leaves only tables that are right for the facts, up to
\* the first disturbance (an invalidation cut short, a clause removed without one, or
\* an update of a table's dependencies while it is computed again).
ImplementsViews == Views!ViewSpec

\* The tables of the call graph are never traversed after they were freed.
NoDanglingTraversal == ~crashed

\* A query is answered or ended by an exception: lazy re-evaluation, which calls
\* tables that call it again, comes to an end.
QueryEnds == query # None ~> query = None \/ crashed
=============================================================================
