--------------------------- MODULE CallGraphProofs ---------------------------
(***************************************************************************)
(* The two directions of every edge of the call graph agree and outcount   *)
(* counts the out-edges, for every program, however the tables are         *)
(* invalidated, evaluated again, abolished and left by exceptions.  Until  *)
(* an exception unwinds, no freed node is traversed; the answers of a      *)
(* completed table change by its own re-evaluation only.  As long as it    *)
(* cannot wrap, falsecount covers the invalid tables a table depends on.   *)
(*                                                                         *)
(* Last, the call graph implements materialised views of the facts         *)
(* (TableViews).  Meaning is the invariant.  A valid table agrees with the *)
(* tables it has read, one by one; an invalid one agreed with them before  *)
(* the evaluations under way, unless an edge is counted on it that will    *)
(* not be taken back.  That no answer depends on itself only is said by    *)
(* Derived, without an order of derivation: a set of goals closed under    *)
(* what the tables have read holds all that is answered.  With Backed and  *)
(* Right, that makes the answers of valid tables the least model.          *)
(***************************************************************************)
EXTENDS CallGraph, Induction, SequenceTheorems

\* Out-edges O, their counts C and in-edges I that describe one graph.
Graph(O, C, I) ==
  /\ O \in [Source -> SUBSET Node] /\ C \in [Source -> Nat] /\ I \in [Node -> SUBSET Source]
  /\ \A s \in Source, n \in Node : n \in O[s] <=> s \in I[n]
  /\ \A s \in Source : C[s] = Cardinality(O[s])

Frames == [goal : Goals, leader : Nat]

\* Incomplete goals have a table; the goals of an SCC follow its leader.
Stacks ==
  /\ \A g \in IncompleteGoals : table[g] # None
  /\ \A i \in DOMAIN stack : stack[i].leader \in 1 .. i

\* A goal without a table has no out-edges.
Untabled == \A g \in Goals : table[g] = None => out[g] = {}

Evaluation ==
  /\ table \in [Goals -> Node \cup {None}]
  /\ stack \in Seq(Frames) /\ completing \in Seq(Goals)
  /\ called \in [Goals -> SUBSET UNION {Literals[g] : g \in Goals}]
  /\ \A g \in Goals : called[g] \subseteq Literals[g]
  /\ lazy \in [Caller -> Seq(Goals)] /\ query \in Goals \cup {None}

Program ==
  /\ db \in [Facts -> 0 .. MaxClauses] /\ choice \in Facts \cup {None}
  /\ {crashed, cut, overlapped} \subseteq BOOLEAN /\ {updates, aborts} \subseteq Nat

Calls == call \in [Node -> NodeRecord]

\* The inductive invariant.
IInv == Program /\ Evaluation /\ Calls /\ Graph(out, outcount, inedges) /\ Stacks /\ Untabled

-----------------------------------------------------------------------------
(* The graph. *)

\* A program has finitely many goals, and the model finitely many nodes.
LEMMA FiniteGraph ==
  /\ IsFiniteSet(Source) /\ IsFiniteSet(Node) /\ IsFiniteSet(Source \X Node)
  /\ None \notin Node
<1>1. IsFiniteSet(Source)
  BY CallGraphAssumption, FS_Union DEF Source
<1>2. IsFiniteSet(0 .. MaxNode)
  BY CallGraphAssumption, FS_Interval
<1>3. IsFiniteSet(Node)
  BY <1>2, CallGraphAssumption, FS_Product DEF Node
<1>4. None \notin Node
  BY CallGraphAssumption DEF Node
<1> QED BY <1>1, <1>3, <1>4, FS_Product

\* An edge is added in both directions.
LEMMA EdgeAdded ==
  ASSUME NEW O, NEW C, NEW I, Graph(O, C, I), NEW s \in Source, NEW n \in Node \cup {None}
  PROVE  LET e == addcalledge(s, n, O, C, I)
         IN  /\ Graph(e.out, e.outcount, e.inedges)
             /\ \A t \in Source \ {s} : e.out[t] = O[t]
<1>1. CASE n = None \/ n \in O[s]
  BY <1>1 DEF addcalledge
<1>2. CASE ~(n = None \/ n \in O[s])
  <2> DEFINE O1 == [O EXCEPT ![s] = @ \cup {n}]
             C1 == [C EXCEPT ![s] = @ + 1]
             I1 == [I EXCEPT ![n] = @ \cup {s}]
  <2>1. n \in Node /\ n \notin O[s] /\ s \notin I[n]
    BY <1>2 DEF Graph
  <2>2. O1 \in [Source -> SUBSET Node] /\ C1 \in [Source -> Nat] /\ I1 \in [Node -> SUBSET Source]
    BY <2>1 DEF Graph
  <2>3. \A t \in Source, m \in Node : m \in O1[t] <=> t \in I1[m]
    BY <2>1 DEF Graph
  <2>4. IsFiniteSet(O[s])
    BY FiniteGraph, FS_Subset DEF Graph
  <2>5. Cardinality(O[s] \cup {n}) = Cardinality(O[s]) + 1
    BY <2>1, <2>4, FS_AddElement
  <2>6. \A t \in Source : C1[t] = Cardinality(O1[t])
    BY <2>5 DEF Graph
  <2>7. \A t \in Source \ {s} : O1[t] = O[t]
    BY DEF Graph
  <2>8. addcalledge(s, n, O, C, I) = [out |-> O1, outcount |-> C1, inedges |-> I1]
    BY <1>2 DEF addcalledge
  <2> HIDE DEF O1, C1, I1
  <2> QED BY <2>2, <2>3, <2>6, <2>7, <2>8 DEF Graph
<1> QED BY <1>1, <1>2

\* Unlinking the nodes of the goals G leaves the graph of the others.
LEMMA GraphDetached ==
  ASSUME NEW G \in SUBSET Goals, NEW cl, Detach(G, cl),
         table \in [Goals -> Node \cup {None}], \A g \in G : table[g] # None,
         Graph(out, outcount, inedges)
  PROVE  /\ Graph(out, outcount, inedges)'
         /\ \A g \in Goals : out'[g] \subseteq out[g] /\ (g \in G => out'[g] = {})
         /\ table' = [g \in Goals |-> IF g \in G THEN None ELSE table[g]]
<1> DEFINE N == {table[g] : g \in G}
<1>1. /\ N \subseteq Node /\ Goals \subseteq Source
      /\ out' = [s \in Source |-> IF s \in G THEN {} ELSE out[s] \ N]
      /\ outcount' = [s \in Source |->
             IF s \in G THEN 0 ELSE outcount[s] - Cardinality({n \in N : s \in inedges[n]})]
      /\ inedges' = [n \in Node |-> IF n \in N THEN {} ELSE inedges[n] \ {g \in G : n \in out[g]}]
      /\ table' = [g \in Goals |-> IF g \in G THEN None ELSE table[g]]
  BY DEF Detach, Source
<1> HIDE DEF N
<1>2. out' \in [Source -> SUBSET Node] /\ inedges' \in [Node -> SUBSET Source]
  BY <1>1 DEF Graph
<1>3. \A s \in Source, n \in Node : n \in out'[s] <=> s \in inedges'[n]
  BY <1>1 DEF Graph
<1>4. ASSUME NEW s \in Source
      PROVE  outcount'[s] \in Nat /\ outcount'[s] = Cardinality(out'[s])
  <2>1. CASE s \in G
    BY <1>1, <2>1, FS_EmptySet
  <2>2. CASE s \notin G
    <3>1. {n \in N : s \in inedges[n]} = out[s] \cap N
      BY <1>1 DEF Graph
    <3>2. IsFiniteSet(out[s]) /\ outcount[s] = Cardinality(out[s])
      BY FiniteGraph, FS_Subset DEF Graph
    <3>3. /\ Cardinality(out[s] \ N) = outcount[s] - Cardinality(out[s] \cap N)
          /\ Cardinality(out[s] \ N) \in Nat
      BY <3>2, FS_Difference, FS_CardinalityType
    <3>4. outcount'[s] = outcount[s] - Cardinality(out[s] \cap N) /\ out'[s] = out[s] \ N
      BY <1>1, <2>2, <3>1
    <3> QED BY <3>3, <3>4
  <2> QED BY <2>1, <2>2
<1>5. outcount' \in [Source -> Nat]
  BY <1>1, <1>4
<1> QED BY <1>1, <1>2, <1>3, <1>4, <1>5 DEF Graph, N

\* The previous node p of a re-evaluated table loses its in-edges.
LEMMA GraphForgets ==
  ASSUME Graph(out, outcount, inedges), NEW p \in Node \cup {None},
         out' = [s \in Source |-> out[s] \ {p}],
         outcount' = [s \in Source |-> outcount[s] - (IF p # None /\ s \in inedges[p] THEN 1 ELSE 0)],
         inedges' = IF p = None THEN inedges ELSE [inedges EXCEPT ![p] = {}]
  PROVE  Graph(out, outcount, inedges)'
<1>1. out' \in [Source -> SUBSET Node] /\ inedges' \in [Node -> SUBSET Source]
  BY DEF Graph
<1>2. \A s \in Source, n \in Node : n \in out'[s] <=> s \in inedges'[n]
  BY FiniteGraph DEF Graph
<1>3. ASSUME NEW s \in Source
      PROVE  outcount'[s] \in Nat /\ outcount'[s] = Cardinality(out'[s])
  <2>1. /\ IsFiniteSet(out[s]) /\ outcount[s] = Cardinality(out[s]) /\ outcount[s] \in Nat
        /\ out'[s] = out[s] \ {p}
    BY FiniteGraph, FS_Subset DEF Graph
  <2>2. /\ Cardinality(out[s] \ {p}) \in Nat
        /\ Cardinality(out[s] \ {p}) = IF p \in out[s] THEN outcount[s] - 1 ELSE outcount[s]
    BY <2>1, FS_RemoveElement, FS_CardinalityType
  <2>3. p # None /\ s \in inedges[p] <=> p \in out[s]
    BY FiniteGraph DEF Graph
  <2> QED BY <2>1, <2>2, <2>3
<1>4. outcount' \in [Source -> Nat]
  BY <1>3
<1> QED BY <1>1, <1>2, <1>3, <1>4 DEF Graph

-----------------------------------------------------------------------------
(* Call nodes. *)

\* The fields of a call node keep their types when they are set.
LEMMA NodeSet ==
  ASSUME NEW r \in NodeRecord
  PROVE  /\ \A k \in 0 .. FalseMod - 1 : [r EXCEPT !.falsecount = k] \in NodeRecord
         /\ \A b \in BOOLEAN : /\ [r EXCEPT !.deleted = b] \in NodeRecord
                               /\ [r EXCEPT !.changed = b] \in NodeRecord
                               /\ [r EXCEPT !.direct = b] \in NodeRecord
                               /\ [r EXCEPT !.outedges = b] \in NodeRecord
         /\ \A k \in 0 .. 1 : [r EXCEPT !.no_of_answers = k] \in NodeRecord
         /\ \A p \in Node \cup {None} : [r EXCEPT !.prev_call = p] \in NodeRecord
         /\ r.falsecount \in 0 .. FalseMod - 1 /\ r.no_of_answers \in 0 .. 1
         /\ r.prev_call \in Node \cup {None}
         /\ {r.deleted, r.changed, r.direct, r.outedges} \subseteq BOOLEAN
BY DEF NodeRecord

\* A new node and a freed one.
LEMMA NewNodes == makecallnode \in NodeRecord /\ Freed \in NodeRecord /\ FalseMod \in Nat \ {0, 1}
<1>1. FalseMod \in Nat \ {0, 1} /\ 0 \in 0 .. FalseMod - 1
  BY CallGraphAssumption
<1>2. makecallnode \in NodeRecord
  BY <1>1 DEF NodeRecord, makecallnode
<1>3. [makecallnode EXCEPT !.outedges = FALSE] \in NodeRecord
  BY <1>2, NodeSet
<1> QED BY <1>1, <1>2, <1>3 DEF Freed

\* Nodes are taken from the goals' own.
LEMMA FreshNodes == ASSUME NEW d \in Goals, Unused(d) # {} PROVE FreshNode(d) \in Node
<1>1. FreshNode(d) \in Unused(d)
  BY DEF FreshNode
<1> QED BY <1>1 DEF Unused, Node

\* What an invalidation does to the nodes.
LEMMA Invalidations ==
  ASSUME NEW s \in Source, NEW o \in invalidate_call(s)
  PROVE  LET root == IF s \in Goals THEN table[s] ELSE None
         IN  \/ o = [call |-> call, thrown |-> FALSE]
             \/ root # None /\ o = [call |-> [call EXCEPT ![root].falsecount = (@ + 1) % FalseMod],
                                    thrown |-> TRUE]
             \/ \E E \in SUBSET Edges, V \in SUBSET Node, t \in BOOLEAN :
                   o = [call |-> dfs_outedges(root, V, E), thrown |-> t]
<1> DEFINE root == IF s \in Goals THEN table[s] ELSE None
           V == Visited(s, root, Edges)
           all == Crossed(s, V, Edges)
           Short(E) ==
             LET W == {n \in Visited(s, root, E) : ~IncompleteNode(n)}
             IN  /\ Cardinality({e \in E : e[2] \in V /\ IncompleteNode(e[2])}) = 1
                 /\ E = Crossed(s, W, E)
           Stopped(E) == {n \in Visited(s, root, E) : ~IncompleteNode(n)}
           Part(E) == dfs_outedges(root, Stopped(E), E)
<1>1. all \subseteq Edges /\ V \in SUBSET Node /\ \A E : Stopped(E) \in SUBSET Node
  BY DEF Crossed, Visited
<1> HIDE DEF Part, V, Short, root, all, Stopped
<1>2. o \in IF root # None /\ call[root].deleted THEN {[call |-> call, thrown |-> FALSE]}
      ELSE IF root # None /\ IncompleteNode(root)
           THEN {[call |-> [call EXCEPT ![root].falsecount = (@ + 1) % FalseMod], thrown |-> TRUE]}
      ELSE IF \A n \in V : ~IncompleteNode(n)
           THEN {[call |-> dfs_outedges(root, V, all), thrown |-> FALSE]}
      ELSE {[call |-> Part(E), thrown |-> TRUE] : E \in {F \in SUBSET all : Short(F)}}
  BY DEF invalidate_call, V, root, Short, Part, all, Stopped
<1>3. \/ o = [call |-> call, thrown |-> FALSE]
      \/ root # None /\ o = [call |-> [call EXCEPT ![root].falsecount = (@ + 1) % FalseMod], thrown |-> TRUE]
      \/ o = [call |-> dfs_outedges(root, V, all), thrown |-> FALSE]
      \/ \E E \in SUBSET all : o = [call |-> Part(E), thrown |-> TRUE]
  BY <1>2
<1>4. CASE \E E \in SUBSET all : o = [call |-> Part(E), thrown |-> TRUE]
  <2>1. PICK E \in SUBSET all : o = [call |-> Part(E), thrown |-> TRUE]
    BY <1>4
  <2>2. E \in SUBSET Edges /\ Stopped(E) \in SUBSET Node /\ TRUE \in BOOLEAN
    BY <1>1
  <2>3. o = [call |-> dfs_outedges(root, Stopped(E), E), thrown |-> TRUE]
    BY <2>1 DEF Part
  <2> QED BY <2>2, <2>3 DEF root
<1>5. CASE o = [call |-> dfs_outedges(root, V, all), thrown |-> FALSE]
  BY <1>1, <1>5 DEF root
<1> QED BY <1>3, <1>4, <1>5 DEF root

\* An invalidation changes counts and marks only.
LEMMA NodesInvalidated ==
  ASSUME Calls, Evaluation, NEW s \in Source, NEW o \in invalidate_call(s)
  PROVE  /\ o.call \in [Node -> NodeRecord] /\ o.thrown \in BOOLEAN
<1> DEFINE root == IF s \in Goals THEN table[s] ELSE None
<1>1. ASSUME NEW r \in NodeRecord, NEW k \in Nat, NEW b \in BOOLEAN
      PROVE  [r EXCEPT !.falsecount = (@ + k) % FalseMod, !.deleted = b] \in NodeRecord
  <2> DEFINE x == (r.falsecount + k) % FalseMod
  <2>1. r.falsecount + k \in Nat /\ FalseMod \in Nat \ {0}
    <3>1. FalseMod \in Nat \ {0, 1} /\ r.falsecount \in 0 .. FalseMod - 1
      BY NodeSet, NewNodes
    <3> QED BY <3>1
  <2>2. x \in 0 .. FalseMod - 1
    BY <2>1
  <2> HIDE DEF x
  <2>3. [r EXCEPT !.falsecount = x] \in NodeRecord
    BY <2>2, NodeSet
  <2>4. [[r EXCEPT !.falsecount = x] EXCEPT !.deleted = b] \in NodeRecord
    BY <2>3, NodeSet
  <2> QED BY <2>4 DEF x
<1>2. ASSUME NEW E \in SUBSET Edges, NEW V
      PROVE  dfs_outedges(root, V, E) \in [Node -> NodeRecord]
  <2> DEFINE K(n) == Cardinality({e \in E : e[2] = n}) + (IF n = root THEN 1 ELSE 0)
             D(n) == IF K(n) = 0 THEN call[n]
                     ELSE [call[n] EXCEPT !.falsecount = (@ + K(n)) % FalseMod,
                                          !.deleted = @ \/ n = root \/ n \in V]
  <2>1. ASSUME NEW n \in Node PROVE D(n) \in NodeRecord
    <3>1. {e \in E : e[2] = n} \in SUBSET (Source \X Node)
      BY DEF Edges
    <3>2. Cardinality({e \in E : e[2] = n}) \in Nat
      BY <3>1, FiniteGraph, FS_Subset, FS_CardinalityType
    <3>3. K(n) \in Nat
      BY <3>2
    <3>4. call[n] \in NodeRecord /\ call[n].deleted \in BOOLEAN
      BY NodeSet DEF Calls
    <3> HIDE DEF K
    <3>5. (call[n].deleted \/ n = root \/ n \in V) \in BOOLEAN
      BY <3>4
    <3> QED BY <1>1, <3>3, <3>4, <3>5
  <2>2. dfs_outedges(root, V, E) = [n \in Node |-> D(n)]
    BY DEF dfs_outedges
  <2> HIDE DEF D
  <2> QED BY <2>1, <2>2
<1>3. ASSUME root # None, root \in Node
      PROVE  [call EXCEPT ![root].falsecount = (@ + 1) % FalseMod] \in [Node -> NodeRecord]
  <2> DEFINE x == (call[root].falsecount + 1) % FalseMod
  <2>1. FalseMod \in Nat \ {0, 1} /\ call[root].falsecount \in 0 .. FalseMod - 1 /\ call[root] \in NodeRecord
    BY <1>3, NodeSet, NewNodes DEF Calls
  <2>2. x \in 0 .. FalseMod - 1
    BY <2>1
  <2> HIDE DEF x
  <2>3. [call[root] EXCEPT !.falsecount = x] \in NodeRecord
    BY <2>1, <2>2, NodeSet
  <2>4. [call EXCEPT ![root] = [call[root] EXCEPT !.falsecount = x]] \in [Node -> NodeRecord]
    BY <2>3 DEF Calls
  <2> QED BY <2>4 DEF x
<1>4. root # None => root \in Node
  BY DEF Evaluation
<1> HIDE DEF root
<1>5. CASE \E E \in SUBSET Edges, V \in SUBSET Node, t \in BOOLEAN :
             o = [call |-> dfs_outedges(root, V, E), thrown |-> t]
  BY <1>2, <1>5
<1>6. CASE root # None /\ o = [call |-> [call EXCEPT ![root].falsecount = (@ + 1) % FalseMod], thrown |-> TRUE]
  BY <1>3, <1>4, <1>6
<1>7. CASE o = [call |-> call, thrown |-> FALSE]
  BY <1>7 DEF Calls
<1>8. \/ o = [call |-> call, thrown |-> FALSE]
      \/ root # None /\ o = [call |-> [call EXCEPT ![root].falsecount = (@ + 1) % FalseMod], thrown |-> TRUE]
      \/ \E E \in SUBSET Edges, V \in SUBSET Node, t \in BOOLEAN :
            o = [call |-> dfs_outedges(root, V, E), thrown |-> t]
  BY Invalidations DEF root
<1> QED BY <1>5, <1>6, <1>7, <1>8

\* Unlinking frees nodes only.
LEMMA NodesDetached ==
  ASSUME NEW G, NEW cl \in [Node -> NodeRecord], Detach(G, cl)
  PROVE  Calls'
<1> DEFINE N == {table[g] : g \in G}
           orphans == {cl[n].prev_call : n \in N} \ {None}
<1>1. call' = [n \in Node |->
               IF n \in N THEN Freed
               ELSE IF n \in orphans THEN [cl[n] EXCEPT !.outedges = FALSE] ELSE cl[n]]
  BY DEF Detach
<1> HIDE DEF N, orphans
<1>2. \A n \in Node : [cl[n] EXCEPT !.outedges = FALSE] \in NodeRecord
  BY NodeSet
<1> QED BY <1>1, <1>2, NewNodes DEF Calls

\* The more nodes are cleared, the more edges lead from them.
LEMMA HitsGrow ==
  ASSUME NEW g, NEW Y, NEW Z \in SUBSET Y, NEW n
  PROVE  Hits(g, Z, n) \in Nat /\ Hits(g, Y, n) \in Nat /\ Hits(g, Z, n) <= Hits(g, Y, n)
<1> DEFINE H(X) == {s \in Source : n \in out[s] /\ (s = g \/ \E m \in X : m[1] = s /\ call[m].outedges)}
<1>1. H(Z) \in SUBSET H(Y) /\ H(Y) \in SUBSET Source
  OBVIOUS
<1>2. IsFiniteSet(H(Y)) /\ IsFiniteSet(H(Z))
  BY <1>1, FiniteGraph, FS_Subset
<1>3. Cardinality(H(Y)) \in Nat /\ Cardinality(H(Z)) \in Nat /\ Cardinality(H(Z)) <= Cardinality(H(Y))
  BY <1>1, <1>2, FS_Subset, FS_CardinalityType
<1>4. Hits(g, Y, n) = Cardinality(H(Y)) /\ Hits(g, Z, n) = Cardinality(H(Z))
  BY DEF Hits
<1> QED BY <1>3, <1>4

\* What propagate_no_change leaves invalid had more invalid edges than it took back.
LEMMA ClearedAll ==
  ASSUME Calls, NEW g, NEW n \in Node, n \notin Cleared(g), call[n].falsecount > 0
  PROVE  Hits(g, Cleared(g), n) \in Nat /\ Hits(g, Cleared(g), n) < call[n].falsecount
<1> DEFINE invalid == {m \in Node : call[m].falsecount > 0}
           Done(Z) == \A m \in invalid : call[m].falsecount <= Hits(g, Z, m) => m \in Z
<1>1. Cleared(g) = {m \in invalid : \A Z \in SUBSET invalid : Done(Z) => m \in Z}
  BY DEF Cleared
<1>2. n \in invalid
  OBVIOUS
<1>3. PICK Z \in SUBSET invalid : Done(Z) /\ n \notin Z
  BY <1>1, <1>2
<1>4. Cleared(g) \in SUBSET Z
  BY <1>1, <1>3
<1>5. ~(call[n].falsecount <= Hits(g, Z, n))
  BY <1>2, <1>3
<1>6. call[n].falsecount \in Int
  <2>1. call[n] \in NodeRecord
    BY DEF Calls
  <2>2. call[n].falsecount \in 0 .. FalseMod - 1 /\ FalseMod \in Nat
    BY <2>1, NodeSet, NewNodes
  <2> QED BY <2>2
<1>7. /\ Hits(g, Cleared(g), n) \in Nat /\ Hits(g, Z, n) \in Nat
      /\ Hits(g, Cleared(g), n) <= Hits(g, Z, n)
  BY <1>4, HitsGrow
<1> QED BY <1>5, <1>6, <1>7

\* Counts stay in their range when an unchanged table takes back its part in them.
LEMMA NodesValidated ==
  ASSUME Calls, NEW g
  PROVE  propagate_no_change(g) \in [Node -> NodeRecord]
<1> DEFINE Z == Cleared(g)
           D(n) == IF n \in Z THEN [call[n] EXCEPT !.falsecount = 0, !.deleted = FALSE]
                   ELSE IF call[n].falsecount > 0
                        THEN [call[n] EXCEPT !.falsecount = @ - Hits(g, Z, n)]
                   ELSE call[n]
<1>1. ASSUME NEW n \in Node PROVE D(n) \in NodeRecord
  <2>1. /\ call[n] \in NodeRecord /\ FalseMod \in Nat \ {0, 1}
        /\ call[n].falsecount \in 0 .. FalseMod - 1
    BY NodeSet, NewNodes DEF Calls
  <2>2. [call[n] EXCEPT !.falsecount = 0, !.deleted = FALSE] \in NodeRecord
    <3>0. 0 \in 0 .. FalseMod - 1
      BY <2>1
    <3>1. [call[n] EXCEPT !.falsecount = 0] \in NodeRecord
      BY <2>1, <3>0, NodeSet
    <3>2. [[call[n] EXCEPT !.falsecount = 0] EXCEPT !.deleted = FALSE] \in NodeRecord
      BY <3>1, NodeSet
    <3> QED BY <3>2
  <2>3. CASE n \notin Z /\ call[n].falsecount > 0
    <3> DEFINE x == call[n].falsecount - Hits(g, Z, n)
    <3>1. Hits(g, Z, n) \in Nat /\ Hits(g, Z, n) < call[n].falsecount
      BY <2>3, ClearedAll
    <3>2. x \in 0 .. FalseMod - 1
      BY <2>1, <3>1
    <3> HIDE DEF x
    <3>3. [call[n] EXCEPT !.falsecount = x] \in NodeRecord
      BY <2>1, <3>2, NodeSet
    <3> QED BY <2>3, <3>3 DEF x
  <2> QED BY <2>1, <2>2, <2>3
<1>2. propagate_no_change(g) = [n \in Node |-> D(n)]
  BY DEF propagate_no_change
<1> HIDE DEF D
<1> QED BY <1>1, <1>2

-----------------------------------------------------------------------------
(* Literals and stacks. *)

\* Of the literals that are ready there is a first one.
LEMMA NextLiteralReady ==
  ASSUME NEW g \in Goals, ReadyLiterals(g) # {}
  PROVE  NextLiteral(g) \in Literals[g] /\ LiteralGoal(g, NextLiteral(g)) \in Goals \cup Facts
<1> DEFINE R == ReadyLiterals(g)
<1>1. Clauses[g] \in Seq(Seq(Goals \cup Facts))
  BY CallGraphAssumption
<1>2. \A k \in DOMAIN Clauses[g] : k \in Nat /\ Clauses[g][k] \in Seq(Goals \cup Facts)
  BY <1>1
<1>3. ASSUME NEW l \in Literals[g]
      PROVE  /\ l = <<l[1], l[2]>> /\ l[1] \in Nat /\ l[2] \in Nat
             /\ LiteralGoal(g, l) \in Goals \cup Facts
  <2>3. PICK k \in DOMAIN Clauses[g] : \E i \in DOMAIN Clauses[g][k] : l = <<k, i>>
    BY DEF Literals
  <2>1. PICK i \in DOMAIN Clauses[g][k] : l = <<k, i>>
    BY <2>3
  <2>2. i \in Nat /\ k \in Nat /\ Clauses[g][k][i] \in Goals \cup Facts
    BY <1>2
  <2> QED BY <2>1, <2>2 DEF LiteralGoal
<1>4. R \subseteq Literals[g]
  BY DEF ReadyLiterals
<1> HIDE DEF R
<1>5. PICK k \in {l[1] : l \in R} : \A j \in {l[1] : l \in R} : k <= j
  <2>1. {l[1] : l \in R} \subseteq Nat /\ {l[1] : l \in R} # {}
    BY <1>3, <1>4 DEF R
  <2> QED BY <2>1, LeastNatural
<1> DEFINE Q == {l \in R : l[1] = k}
<1>6. PICK i \in {l[2] : l \in Q} : \A j \in {l[2] : l \in Q} : i <= j
  <2>1. {l[2] : l \in Q} \subseteq Nat /\ {l[2] : l \in Q} # {}
    BY <1>3, <1>4, <1>5
  <2> HIDE DEF Q
  <2> QED BY <2>1, LeastNatural
<1>7. PICK l \in R : l[1] = k /\ l[2] = i
  BY <1>6
<1>8. \A m \in R : l[1] < m[1] \/ (l[1] = m[1] /\ l[2] <= m[2])
  <2> SUFFICES ASSUME NEW m \in R PROVE l[1] < m[1] \/ (l[1] = m[1] /\ l[2] <= m[2])
    OBVIOUS
  <2>1. k <= m[1] /\ k \in Nat /\ m[1] \in Nat
    BY <1>3, <1>4, <1>5
  <2>2. m[1] = k => i <= m[2]
    BY <1>6
  <2> QED BY <1>7, <2>1, <2>2
<1>9. NextLiteral(g) \in R
  BY <1>8 DEF NextLiteral, R
<1> QED BY <1>3, <1>4, <1>9

\* A new frame is its own leader; merging levels takes the leader of an older frame.
LEMMA StackGrows ==
  ASSUME stack \in Seq(Frames), \A i \in DOMAIN stack : stack[i].leader \in 1 .. i, NEW d \in Goals
  PROVE  /\ Push(d) \in Seq(Frames) /\ \A i \in DOMAIN Push(d) : Push(d)[i].leader \in 1 .. i
         /\ \A i \in DOMAIN Push(d) : Push(d)[i].goal = d \/ \E j \in DOMAIN stack : stack[j].goal = Push(d)[i].goal
         /\ (\E i \in DOMAIN stack : stack[i].goal = d) =>
              /\ MergeLevels(d) \in Seq(Frames)
              /\ \A i \in DOMAIN MergeLevels(d) : MergeLevels(d)[i].leader \in 1 .. i
              /\ \A i \in DOMAIN MergeLevels(d) : i \in DOMAIN stack /\ stack[i].goal = MergeLevels(d)[i].goal
<1> DEFINE f == [goal |-> d, leader |-> Len(stack) + 1]
<1>1. Len(stack) \in Nat /\ DOMAIN stack = 1 .. Len(stack)
  OBVIOUS
<1>2. f \in Frames /\ f.goal = d /\ f.leader = Len(stack) + 1
  BY <1>1 DEF Frames
<1>3. Push(d) = Append(stack, f)
  BY DEF Push
<1> HIDE DEF f
<1>4. /\ Push(d) \in Seq(Frames) /\ DOMAIN Push(d) = 1 .. Len(stack) + 1
      /\ Push(d)[Len(stack) + 1] = f /\ \A i \in 1 .. Len(stack) : Push(d)[i] = stack[i]
  BY <1>1, <1>2, <1>3, AppendProperties
<1>5. \A i \in DOMAIN Push(d) : i = Len(stack) + 1 \/ i \in DOMAIN stack
  BY <1>1, <1>4
<1>6. \A i \in DOMAIN Push(d) : Push(d)[i].leader \in 1 .. i
  BY <1>1, <1>2, <1>4, <1>5
<1>7. \A i \in DOMAIN Push(d) : Push(d)[i].goal = d \/ \E j \in DOMAIN stack : stack[j].goal = Push(d)[i].goal
  BY <1>2, <1>4, <1>5
<1>8. ASSUME \E i \in DOMAIN stack : stack[i].goal = d
      PROVE  /\ MergeLevels(d) \in Seq(Frames)
             /\ \A i \in DOMAIN MergeLevels(d) : MergeLevels(d)[i].leader \in 1 .. i
             /\ \A i \in DOMAIN MergeLevels(d) : i \in DOMAIN stack /\ stack[i].goal = MergeLevels(d)[i].goal
  <2> DEFINE at == CHOOSE i \in DOMAIN stack : stack[i].goal = d
             l == stack[at].leader
             F(i) == IF i < l THEN stack[i] ELSE [stack[i] EXCEPT !.leader = l]
  <2>1. at \in DOMAIN stack
    BY <1>8
  <2>2. l \in Nat /\ 1 <= l
    BY <2>1
  <2>3. MergeLevels(d) = [i \in DOMAIN stack |-> F(i)]
    BY DEF MergeLevels
  <2> HIDE DEF at, l
  <2>4. \A r \in Frames : [r EXCEPT !.leader = l] \in Frames /\ [r EXCEPT !.leader = l].leader = l
                          /\ [r EXCEPT !.leader = l].goal = r.goal
    BY <2>2 DEF Frames
  <2>5. \A i \in DOMAIN stack : F(i) \in Frames /\ F(i).leader \in 1 .. i /\ F(i).goal = stack[i].goal
    <3> SUFFICES ASSUME NEW i \in DOMAIN stack
                 PROVE  F(i) \in Frames /\ F(i).leader \in 1 .. i /\ F(i).goal = stack[i].goal
      OBVIOUS
    <3>1. stack[i] \in Frames /\ i \in Nat /\ stack[i].leader \in 1 .. i
      BY <1>1
    <3> QED BY <2>2, <2>4, <3>1
  <2> HIDE DEF F
  <2> QED BY <1>1, <2>3, <2>5
<1> QED BY <1>4, <1>6, <1>7, <1>8

\* Incomplete goals are goals.
LEMMA IncompleteAreGoals == ASSUME Evaluation PROVE IncompleteGoals \subseteq Goals
<1>1. \A r \in Frames : r.goal \in Goals
  BY DEF Frames
<1>2. \A i \in DOMAIN stack : stack[i] \in Frames
  BY DEF Evaluation
<1>3. \A i \in DOMAIN completing : completing[i] \in Goals
  BY DEF Evaluation
<1> QED BY <1>1, <1>2, <1>3 DEF IncompleteGoals, Range1

\* The goals on the stack are incomplete; nothing else is while no SCC is completed.
LEMMA OnStack ==
  ASSUME Evaluation, completing = <<>>
  PROVE  IncompleteGoals = {stack[i].goal : i \in DOMAIN stack} /\ IncompleteGoals \subseteq Goals
<1>1. Range1(completing) = {}
  BY DEF Range1
<1>2. \A r \in Frames : r.goal \in Goals
  BY DEF Frames
<1>3. \A i \in DOMAIN stack : stack[i] \in Frames
  BY DEF Evaluation
<1> QED BY <1>1, <1>2, <1>3 DEF IncompleteGoals

-----------------------------------------------------------------------------
(* Calls. *)

\* The caller's node, if it has one.
LEMMA CallerNodes ==
  ASSUME IInv, NEW c \in Caller, c = User \/ c \in IncompleteGoals
  PROVE  CallerNode(c) \in Node \cup {None} /\ (c \in Goals => CallerNode(c) \in Node)
BY CallGraphAssumption DEF IInv, Evaluation, Stacks, CallerNode, Caller

\* A call of a tabled goal keeps everything that it touches.
LEMMA CallKept ==
  ASSUME IInv, completing = <<>>, completing' = completing, NEW c \in Caller,
         c = User \/ c \in IncompleteGoals, NEW d \in Goals, CallTable(c, d)
  PROVE  /\ table' \in [Goals -> Node \cup {None}] /\ stack' \in Seq(Frames)
         /\ Calls' /\ Graph(out, outcount, inedges)' /\ Stacks' /\ Untabled'
<1>1. /\ table \in [Goals -> Node \cup {None}] /\ stack \in Seq(Frames)
      /\ \A i \in DOMAIN stack : stack[i].leader \in 1 .. i
      /\ Evaluation /\ Graph(out, outcount, inedges) /\ Calls /\ d \in Source
      /\ IncompleteGoals = {stack[i].goal : i \in DOMAIN stack}
      /\ \A g \in IncompleteGoals : table[g] # None
      /\ \A g \in Goals : table[g] = None => out[g] = {}
  BY OnStack DEF IInv, Evaluation, Source, Stacks, Untabled
<1>2. IncompleteGoals' = {stack'[i].goal : i \in DOMAIN stack'}
  BY DEF IncompleteGoals, Range1
<1> DEFINE e == addcalledge(d, CallerNode(c), out, outcount, inedges)
<1>3. Graph(e.out, e.outcount, e.inedges) /\ \A t \in Source \ {d} : e.out[t] = out[t]
  BY <1>1, CallerNodes, EdgeAdded
<1>4. Goals \subseteq Source
  BY DEF Source
<1> HIDE DEF e
<1>8. ASSUME NEW n \in Node, n # None, stack' = Push(d), table' = [table EXCEPT ![d] = n]
      PROVE  Stacks' /\ stack' \in Seq(Frames)
  <2>1. /\ stack' \in Seq(Frames) /\ \A i \in DOMAIN stack' : stack'[i].leader \in 1 .. i
        /\ \A i \in DOMAIN stack' : stack'[i].goal = d \/ \E j \in DOMAIN stack : stack[j].goal = stack'[i].goal
    BY <1>1, <1>8, StackGrows
  <2>2. \A g \in IncompleteGoals' : g = d \/ g \in IncompleteGoals
    BY <1>1, <1>2, <2>1
  <2>3. \A g \in IncompleteGoals : g \in Goals
    BY <1>1, OnStack
  <2>4. \A g \in IncompleteGoals' : table'[g] # None
    BY <1>1, <1>8, <2>2, <2>3
  <2> QED BY <2>1, <2>4 DEF Stacks
<1>5. CASE CallValidTable(c, d)
  <2>1. /\ table[d] # None /\ SetEdges(e) /\ UNCHANGED <<table, call>>
        /\ stack' = IF IsCompleted(d) THEN stack ELSE MergeLevels(d)
    BY <1>5 DEF CallValidTable, e
  <2>2. ~IsCompleted(d) => \E i \in DOMAIN stack : stack[i].goal = d
    BY <1>1, <2>1 DEF IsCompleted
  <2>3. /\ stack' \in Seq(Frames) /\ \A i \in DOMAIN stack' : stack'[i].leader \in 1 .. i
        /\ \A i \in DOMAIN stack' : i \in DOMAIN stack /\ stack[i].goal = stack'[i].goal
    BY <1>1, <2>1, <2>2, StackGrows
  <2>4. Graph(out, outcount, inedges)' /\ Untabled'
    BY <1>1, <1>3, <1>4, <2>1 DEF SetEdges, Untabled
  <2>5. Stacks'
    BY <1>1, <1>2, <2>1, <2>3 DEF Stacks
  <2> QED BY <1>1, <2>1, <2>3, <2>4, <2>5 DEF Calls
<1>6. CASE CallNewTable(c, d)
  <2> DEFINE n == FreshNode(d)
  <2>1. /\ table[d] = None /\ Unused(d) # {} /\ stack' = Push(d)
        /\ table' = [table EXCEPT ![d] = n] /\ call' = [call EXCEPT ![n] = makecallnode]
        /\ SetEdges(addcalledge(d, CallerNode(c), [out EXCEPT ![d] = {}], [outcount EXCEPT ![d] = 0], inedges))
    BY <1>6 DEF CallNewTable
  <2>2. n \in Node /\ n # None
    BY <2>1, FreshNodes, FiniteGraph
  <2> HIDE DEF n
  <2>3. out[d] = {} /\ outcount[d] = 0
    BY <1>1, <2>1, FS_EmptySet DEF Graph
  <2>4. [out EXCEPT ![d] = {}] = out /\ [outcount EXCEPT ![d] = 0] = outcount
    BY <1>1, <2>3 DEF Graph
  <2>5. SetEdges(e)
    BY <2>1, <2>4 DEF e
  <2>6. Graph(out, outcount, inedges)' /\ Untabled'
    BY <1>1, <1>3, <1>4, <2>1, <2>2, <2>5 DEF SetEdges, Untabled
  <2>7. Calls'
    BY <1>1, <2>1, <2>2, NewNodes DEF Calls
  <2>8. Stacks' /\ stack' \in Seq(Frames)
    BY <1>8, <2>1, <2>2
  <2> QED BY <1>1, <2>1, <2>2, <2>6, <2>7, <2>8
<1>7. CASE CallInvalidTable(c, d)
  <2> DEFINE n == FreshNode(d)
             o == table[d]
  <2>1. /\ o # None /\ Unused(d) # {} /\ stack' = Push(d)
        /\ table' = [table EXCEPT ![d] = n] /\ SetEdges(e)
        /\ call' = [call EXCEPT ![n] = [makecallnode EXCEPT !.prev_call = o],
                                ![o].falsecount = 0, ![o].deleted = TRUE]
    BY <1>7 DEF CallInvalidTable, IsAffected, e
  <2>2. n \in Node /\ n # None /\ o \in Node
    BY <1>1, <2>1, FreshNodes, FiniteGraph
  <2> HIDE DEF n, o
  <2>3. Calls'
    <3> DEFINE c1 == [call EXCEPT ![n] = [makecallnode EXCEPT !.prev_call = o]]
               c2 == [c1 EXCEPT ![o] = [c1[o] EXCEPT !.falsecount = 0]]
               c3 == [c2 EXCEPT ![o] = [c2[o] EXCEPT !.deleted = TRUE]]
    <3>1. call' = c3
      BY <2>1
    <3>2. 0 \in 0 .. FalseMod - 1
      BY NewNodes
    <3>3. [makecallnode EXCEPT !.prev_call = o] \in NodeRecord
      BY <2>2, NewNodes, NodeSet
    <3>4. c1 \in [Node -> NodeRecord]
      BY <1>1, <2>2, <3>3 DEF Calls
    <3> HIDE DEF c1
    <3>5. [c1[o] EXCEPT !.falsecount = 0] \in NodeRecord
      BY <2>2, <3>2, <3>4, NodeSet
    <3>6. c2 \in [Node -> NodeRecord]
      BY <3>4, <3>5
    <3> HIDE DEF c2
    <3>7. [c2[o] EXCEPT !.deleted = TRUE] \in NodeRecord
      BY <2>2, <3>6, NodeSet
    <3>8. c3 \in [Node -> NodeRecord]
      BY <3>6, <3>7
    <3> QED BY <3>1, <3>8 DEF Calls
  <2>4. Graph(out, outcount, inedges)' /\ Untabled'
    BY <1>1, <1>3, <1>4, <2>1, <2>2 DEF SetEdges, Untabled, o
  <2>5. Stacks' /\ stack' \in Seq(Frames)
    BY <1>8, <2>1, <2>2
  <2> QED BY <1>1, <2>1, <2>2, <2>3, <2>4, <2>5
<1> QED BY <1>5, <1>6, <1>7 DEF CallTable

-----------------------------------------------------------------------------
(* The steps. *)

\* Stacks and Untabled are about these variables only.
LEMMA GoalsKept ==
  ASSUME UNCHANGED <<stack, completing, table>>, Stacks
  PROVE  Stacks' /\ (Untabled /\ out' = out => Untabled')
BY DEF Stacks, Untabled, IncompleteGoals, Range1

\* The evaluation after a step that leaves it alone.
LEMMA EvaluationKept ==
  ASSUME Evaluation, UNCHANGED evalVars, table' \in [Goals -> Node \cup {None}]
  PROVE  Evaluation'
BY DEF Evaluation, evalVars

\* An update of a fact.
LEMMA UpdateFactStep ==
  ASSUME IInv, NEW f \in Facts, NEW d \in 0 .. MaxClauses, NEW ch \in Facts \cup {None}, UpdateFact(f, d, ch)
  PROVE  IInv'
<1>1. PICK o \in invalidate_call(f) :
        /\ call' = o.call /\ db' = (IF o.thrown THEN db ELSE [db EXCEPT ![f] = d])
        /\ choice' = (IF o.thrown THEN choice ELSE ch) /\ Disturbs(o)
  BY DEF UpdateFact
<1>2. /\ updates' = updates + 1 /\ UNCHANGED <<table, out, outcount, inedges, evalVars, crashed, aborts>>
  BY DEF UpdateFact
<1>3. Calls' /\ o.thrown \in BOOLEAN
  BY <1>1, NodesInvalidated DEF IInv, Source, Calls
<1>4. cut' \in BOOLEAN /\ overlapped' \in BOOLEAN
  BY <1>1, <1>3 DEF Disturbs, IInv, Program
<1>5. Program'
  BY <1>1, <1>2, <1>4 DEF Program, IInv
<1>6. Evaluation'
  BY <1>2, EvaluationKept DEF IInv, Evaluation
<1>7. Stacks' /\ Untabled'
  BY <1>2, GoalsKept DEF IInv, evalVars
<1>8. Graph(out, outcount, inedges)'
  BY <1>2 DEF IInv, Graph
<1> QED BY <1>3, <1>5, <1>6, <1>7, <1>8 DEF IInv

\* The updates of a fact by the program.
LEMMA FactStep ==
  ASSUME IInv, NEW f \in Facts, incr_assert(f) \/ incr_retract(f) \/ incr_retractall(f)
  PROVE  IInv'
<1>1. db[f] \in 0 .. MaxClauses /\ choice \in Facts \cup {None} /\ MaxClauses \in Nat
  BY CallGraphAssumption DEF IInv, Program
<1>2. CASE incr_assert(f)
  BY <1>1, <1>2, UpdateFactStep DEF incr_assert
<1>3. CASE incr_retract(f)
  BY <1>1, <1>3, UpdateFactStep DEF incr_retract
<1>4. CASE incr_retractall(f)
  BY <1>1, <1>4, UpdateFactStep DEF incr_retractall
<1> QED BY <1>2, <1>3, <1>4

\* Backtracking into incr_retract.
LEMMA RetryStep == ASSUME IInv, NEW f \in Facts, RetryRetract(f) PROVE IInv'
<1>1. /\ db[f] > 0 /\ updates' = updates + 1 /\ db' = [db EXCEPT ![f] = @ - 1] /\ cut' = TRUE
      /\ UNCHANGED <<choice, graphVars, evalVars, crashed, aborts, overlapped>>
  BY DEF RetryRetract
<1>2. db[f] \in 0 .. MaxClauses /\ MaxClauses \in Nat
  BY CallGraphAssumption DEF IInv, Program
<1>3. db[f] - 1 \in 0 .. MaxClauses
  BY <1>1, <1>2
<1>4. Program'
  BY <1>1, <1>3 DEF IInv, Program
<1>5. Evaluation'
  BY <1>1, EvaluationKept DEF IInv, Evaluation, graphVars
<1>6. Stacks' /\ Untabled' /\ Calls' /\ Graph(out, outcount, inedges)'
  BY <1>1, GoalsKept DEF IInv, evalVars, graphVars, Calls, Graph
<1> QED BY <1>4, <1>5, <1>6 DEF IInv

\* incr_invalidate_call.
LEMMA InvalidateStep == ASSUME IInv, NEW g \in Goals, incr_invalidate_call(g) PROVE IInv'
<1>1. PICK o \in invalidate_call(g) : call' = o.call /\ Disturbs(o)
  BY DEF incr_invalidate_call
<1>2. updates' = updates + 1 /\ UNCHANGED <<db, choice, table, out, outcount, inedges, evalVars, crashed, aborts>>
  BY DEF incr_invalidate_call
<1>3. Calls' /\ o.thrown \in BOOLEAN
  BY <1>1, NodesInvalidated DEF IInv, Source, Calls
<1>4. cut' \in BOOLEAN /\ overlapped' \in BOOLEAN
  BY <1>1, <1>3 DEF Disturbs, IInv, Program
<1>5. Program'
  BY <1>2, <1>4 DEF Program, IInv
<1>6. Evaluation'
  BY <1>2, EvaluationKept DEF IInv, Evaluation
<1>7. Stacks' /\ Untabled' /\ Graph(out, outcount, inedges)'
  BY <1>2, GoalsKept DEF IInv, evalVars, Graph
<1> QED BY <1>3, <1>5, <1>6, <1>7 DEF IInv

\* abolish_table_call.
LEMMA AbolishStep == ASSUME IInv, NEW g \in Goals, abolish_table_call(g) PROVE IInv'
<1>1. PICK o \in invalidate_call(g) :
        /\ Disturbs(o)
        /\ IF o.thrown THEN call' = o.call /\ UNCHANGED <<table, out, outcount, inedges>>
           ELSE Detach({g}, o.call)
  BY DEF abolish_table_call
<1>2. /\ updates' = updates + 1 /\ UNCHANGED <<db, choice, evalVars, crashed, aborts>>
      /\ table[g] # None /\ g \notin IncompleteGoals
  BY DEF abolish_table_call, IsCompleted
<1>3. o.call \in [Node -> NodeRecord] /\ o.thrown \in BOOLEAN
  BY NodesInvalidated DEF IInv, Source
<1>4. cut' \in BOOLEAN /\ overlapped' \in BOOLEAN
  BY <1>1, <1>3 DEF Disturbs, IInv, Program
<1>5. Program'
  BY <1>2, <1>4 DEF Program, IInv
<1>6. CASE o.thrown
  <2>1. Calls'
    BY <1>1, <1>3, <1>6 DEF Calls
  <2>2. Evaluation'
    BY <1>1, <1>2, <1>6, EvaluationKept DEF IInv, Evaluation
  <2>3. Stacks' /\ Untabled' /\ Graph(out, outcount, inedges)'
    BY <1>1, <1>2, <1>6, GoalsKept DEF IInv, evalVars, Graph
  <2> QED BY <1>5, <2>1, <2>2, <2>3 DEF IInv
<1>7. CASE ~o.thrown
  <2>1. Detach({g}, o.call) /\ table \in [Goals -> Node \cup {None}] /\ Graph(out, outcount, inedges)
    BY <1>1, <1>7 DEF IInv, Evaluation
  <2>2. Calls'
    BY <1>3, <2>1, NodesDetached
  <2>3. /\ Graph(out, outcount, inedges)'
        /\ \A h \in Goals : out'[h] \subseteq out[h] /\ (h = g => out'[h] = {})
        /\ table' = [h \in Goals |-> IF h \in {g} THEN None ELSE table[h]]
    <3> DEFINE G == {g}
    <3>1. G \in SUBSET Goals /\ \A h \in G : table[h] # None
      BY <1>2
    <3>2. Detach(G, o.call)
      BY <2>1
    <3> HIDE DEF G
    <3>3. /\ Graph(out, outcount, inedges)'
          /\ \A h \in Goals : out'[h] \subseteq out[h] /\ (h \in G => out'[h] = {})
          /\ table' = [h \in Goals |-> IF h \in G THEN None ELSE table[h]]
      BY <2>1, <3>1, <3>2, GraphDetached
    <3> QED BY <3>3 DEF G
  <2>4. Evaluation'
    BY <1>2, <2>1, <2>3, EvaluationKept DEF IInv
  <2>5. Untabled'
    BY <2>3 DEF IInv, Untabled
  <2>6. Stacks'
    <3>1. IncompleteGoals' = IncompleteGoals /\ stack' = stack
      BY <1>2 DEF evalVars, IncompleteGoals, Range1
    <3>2. IncompleteGoals \subseteq Goals
      BY IncompleteAreGoals DEF IInv
    <3> QED BY <1>2, <2>3, <3>1, <3>2 DEF IInv, Stacks
  <2> QED BY <1>5, <2>2, <2>3, <2>4, <2>5, <2>6 DEF IInv
<1> QED BY <1>3, <1>6, <1>7

\* Nodes, some of them set to be computed directly.
Directed(cl) ==
  /\ cl \in [Node -> NodeRecord]
  /\ \A n \in Node :
        /\ cl[n].prev_call = call[n].prev_call /\ cl[n].outedges = call[n].outedges
        /\ cl[n].falsecount = call[n].falsecount /\ cl[n].deleted = call[n].deleted
        /\ cl[n].no_of_answers = call[n].no_of_answers /\ cl[n].changed = call[n].changed

LEMMA DirectNodes == ASSUME IInv, NEW D PROVE Directed(SetDirect(D)) /\ Directed(call)
<1>1. call \in [Node -> NodeRecord]
  BY DEF IInv, Calls
<1>2. \A n \in Node : [call[n] EXCEPT !.direct = TRUE] \in NodeRecord
  BY <1>1, NodeSet
<1> QED BY <1>1, <1>2 DEF Directed, SetDirect, NodeRecord

\* The goals of a lazy re-evaluation are put on a list.
LEMMA LazyReevalStep ==
  ASSUME IInv, NEW c \in Caller, NEW d \in Goals, LazyReeval(c, d)
  PROVE  IInv'
<1> DEFINE D == Dependencies(d)
<1>1. /\ call' = SetDirect(D)
      /\ \E s \in PostOrders(D \ {d}) : lazy' = [lazy EXCEPT ![c] = s \o @]
      /\ UNCHANGED <<db, choice, table, out, outcount, inedges, stack, completing,
                     called, query, crashed, histVars>>
  BY DEF LazyReeval
<1>2. D \subseteq Goals
  BY DEF Dependencies, Reaches
<1> HIDE DEF D
<1>3. PICK s \in PostOrders(D \ {d}) : lazy' = [lazy EXCEPT ![c] = s \o @]
  BY <1>1
<1>4. s \in Seq(Goals)
  <2>1. s \in [1 .. Cardinality(D \ {d}) -> D \ {d}]
    BY <1>3 DEF PostOrders
  <2>2. IsFiniteSet(D \ {d})
    BY <1>2, CallGraphAssumption, FS_Subset
  <2>3. Cardinality(D \ {d}) \in Nat
    BY <2>2, FS_CardinalityType
  <2>4. \A i \in 1 .. Cardinality(D \ {d}) : s[i] \in Goals
    BY <1>2, <2>1
  <2>5. s \in [1 .. Cardinality(D \ {d}) -> Goals]
    BY <2>1, <2>4
  <2> DEFINE n == Cardinality(D \ {d})
  <2> HIDE DEF n
  <2>6. n \in Nat /\ s \in [1 .. n -> Goals]
    BY <2>3, <2>5 DEF n
  <2> QED BY <2>6, SeqDef, Zenon
<1>5. lazy' \in [Caller -> Seq(Goals)]
  <2>1. lazy[c] \in Seq(Goals)
    BY DEF IInv, Evaluation
  <2>2. s \o lazy[c] \in Seq(Goals)
    BY <1>4, <2>1, ConcatProperties
  <2> QED BY <1>3, <2>2 DEF IInv, Evaluation
<1>6. Evaluation'
  BY <1>1, <1>5 DEF IInv, Evaluation
<1>7. Calls'
  BY <1>1, DirectNodes DEF Calls, Directed
<1>8. Program'
  BY <1>1 DEF IInv, Program, histVars
<1>9. Stacks' /\ Untabled' /\ Graph(out, outcount, inedges)'
  BY <1>1, GoalsKept DEF IInv, Graph
<1> QED BY <1>6, <1>7, <1>8, <1>9 DEF IInv

\* An exception removes the incomplete tables.
Aborted == \E cl : Directed(cl) /\ Unwind(cl)

LEMMA Aborts == ASSUME IInv, (\E d \in Goals : LazyError(d)) \/ Abort PROVE Aborted
BY DirectNodes DEF LazyError, Abort, Aborted

LEMMA UnwindStep == ASSUME IInv, completing = <<>>, Aborted PROVE IInv'
<1> DEFINE G == {stack[i].goal : i \in DOMAIN stack}
<1> PICK cl : Directed(cl) /\ Unwind(cl)
  BY DEF Aborted
<1>1. /\ Detach(G, cl) /\ stack' = <<>> /\ called' = [g \in Goals |-> {}]
      /\ lazy' = [c \in Caller |-> <<>>] /\ query' = None /\ aborts' = aborts + 1
      /\ UNCHANGED <<db, choice, completing, crashed, updates, cut, overlapped>>
  BY DEF Unwind
<1>2. G = IncompleteGoals /\ G \subseteq Goals
  BY OnStack DEF IInv
<1> HIDE DEF G
<1>3. Calls'
  BY <1>1, NodesDetached DEF Directed
<1>4. /\ Graph(out, outcount, inedges)'
      /\ \A h \in Goals : out'[h] \subseteq out[h] /\ (h \in G => out'[h] = {})
      /\ table' = [h \in Goals |-> IF h \in G THEN None ELSE table[h]]
  <2>1. \A g \in G : table[g] # None
    BY <1>2 DEF IInv, Stacks
  <2>2. table \in [Goals -> Node \cup {None}] /\ Graph(out, outcount, inedges)
    BY DEF IInv, Evaluation
  <2>3. G \in SUBSET Goals
    BY <1>2
  <2> QED BY <1>1, <2>1, <2>2, <2>3, GraphDetached
<1>5. Evaluation'
  BY <1>1, <1>4 DEF IInv, Evaluation
<1>6. Untabled'
  BY <1>4 DEF IInv, Untabled
<1>7. Stacks'
  BY <1>1 DEF Stacks, IncompleteGoals, Range1
<1>8. Program'
  BY <1>1 DEF IInv, Program
<1> QED BY <1>3, <1>4, <1>5, <1>6, <1>7, <1>8 DEF IInv

\* The goal at work is the user's query or incomplete.
LEMMA AtWork ==
  ASSUME IInv, NEW c \in Caller, Active(c)
  PROVE  /\ completing = <<>> /\ (c = User \/ c \in IncompleteGoals)
         /\ c = User => query \in Goals
<1>1. completing = <<>> /\ (stack = <<>> => c = User /\ query # None)
  BY DEF Active
<1>2. IncompleteGoals = {stack[i].goal : i \in DOMAIN stack} /\ IncompleteGoals \subseteq Goals
  BY <1>1, OnStack DEF IInv
<1>3. stack # <<>> => c \in IncompleteGoals
  <2> SUFFICES ASSUME stack # <<>> PROVE c \in IncompleteGoals
    OBVIOUS
  <2>1. PICK i \in stack[Len(stack)].leader .. Len(stack) : stack[i].goal = c
    BY DEF Active
  <2>2. stack \in Seq(Frames) /\ \A j \in DOMAIN stack : stack[j].leader \in 1 .. j
    BY DEF IInv, Evaluation, Stacks
  <2>3. Len(stack) \in Nat /\ Len(stack) # 0 /\ DOMAIN stack = 1 .. Len(stack)
    BY <2>2
  <2>4. stack[Len(stack)].leader \in 1 .. Len(stack)
    BY <2>2, <2>3
  <2>5. i \in DOMAIN stack
    BY <2>1, <2>3, <2>4
  <2> QED BY <1>2, <2>1, <2>5
<1>4. c = User => stack = <<>>
  BY <1>2, <1>3, CallGraphAssumption
<1>5. query \in Goals \cup {None}
  BY DEF IInv, Evaluation
<1> QED BY <1>1, <1>3, <1>4, <1>5

\* The evaluation after a call whose caller notes something about it.
LEMMA CallStep ==
  ASSUME IInv, NEW c \in Caller, NEW d \in Goals, CallTable(c, d), completing = <<>>,
         c = User \/ c \in IncompleteGoals,
         called' \in [Goals -> SUBSET UNION {Literals[g] : g \in Goals}],
         \A g \in Goals : called'[g] \subseteq Literals[g],
         lazy' \in [Caller -> Seq(Goals)], query' \in Goals \cup {None},
         UNCHANGED <<db, choice, completing, crashed, histVars>>
  PROVE  IInv'
<1>1. /\ table' \in [Goals -> Node \cup {None}] /\ stack' \in Seq(Frames)
      /\ Calls' /\ Graph(out, outcount, inedges)' /\ Stacks' /\ Untabled'
  BY CallKept
<1>2. Program'
  BY DEF IInv, Program, histVars
<1>3. Evaluation'
  BY <1>1 DEF IInv, Evaluation
<1> QED BY <1>1, <1>2, <1>3 DEF IInv

\* Noting a literal as called.
LEMMA CalledGrows ==
  ASSUME IInv, NEW g \in Goals, NEW l \in Literals[g], called' = [called EXCEPT ![g] = @ \cup {l}]
  PROVE  /\ called' \in [Goals -> SUBSET UNION {Literals[h] : h \in Goals}]
         /\ \A h \in Goals : called'[h] \subseteq Literals[h]
<1>1. /\ called \in [Goals -> SUBSET UNION {Literals[h] : h \in Goals}]
      /\ \A h \in Goals : called[h] \subseteq Literals[h]
  BY DEF IInv, Evaluation
<1>2. \A h \in Goals : called'[h] \subseteq Literals[h]
  BY <1>1
<1>3. called[g] \cup {l} \in SUBSET UNION {Literals[h] : h \in Goals}
  BY <1>1
<1> QED BY <1>1, <1>2, <1>3

\* A literal that is a fact.
LEMMA CallFactStep == ASSUME IInv, NEW g \in Goals, CallFact(g) PROVE IInv'
<1> DEFINE l == NextLiteral(g)
           d == LiteralGoal(g, l)
           e == addcalledge(d, table[g], out, outcount, inedges)
<1>1. /\ Active(g) /\ ReadyLiterals(g) # {} /\ d \in Facts /\ SetEdges(e)
      /\ called' = [called EXCEPT ![g] = @ \cup {l}]
      /\ UNCHANGED <<db, choice, table, call, stack, completing, lazy, query, crashed, histVars>>
  BY DEF CallFact, CallsLiteral
<1>2. l \in Literals[g]
  BY <1>1, NextLiteralReady
<1>3. table[g] \in Node \cup {None} /\ d \in Source /\ d \notin Goals /\ Goals \subseteq Source
  BY <1>1, CallGraphAssumption DEF IInv, Evaluation, Source
<1> HIDE DEF l, d
<1>4. Graph(e.out, e.outcount, e.inedges) /\ \A t \in Source \ {d} : e.out[t] = out[t]
  BY <1>3, EdgeAdded DEF IInv
<1> HIDE DEF e
<1>5. Graph(out, outcount, inedges)' /\ Untabled'
  BY <1>1, <1>3, <1>4 DEF SetEdges, IInv, Untabled
<1>6. Evaluation'
  <2>1. /\ called' \in [Goals -> SUBSET UNION {Literals[h] : h \in Goals}]
        /\ \A h \in Goals : called'[h] \subseteq Literals[h]
    BY <1>1, <1>2, CalledGrows
  <2> QED BY <1>1, <2>1 DEF IInv, Evaluation
<1>7. Program' /\ Calls' /\ Stacks'
  BY <1>1, GoalsKept DEF IInv, Program, Calls, histVars
<1> QED BY <1>5, <1>6, <1>7 DEF IInv

\* A literal that is a tabled goal.
LEMMA CallGoalStep == ASSUME IInv, NEW g \in Goals, CallGoal(g) PROVE IInv'
<1> DEFINE l == NextLiteral(g)
<1>1. PICK d \in Goals :
        \/ /\ CallTable(g, d) /\ called' = [called EXCEPT ![g] = @ \cup {l}]
           /\ UNCHANGED <<db, choice, completing, lazy, query, crashed, histVars>>
        \/ LazyReeval(g, d)
        \/ LazyError(d)
  BY DEF CallGoal
<1>2. Active(g) /\ ReadyLiterals(g) # {} /\ g \in Caller
  BY DEF CallGoal, CallsLiteral, Caller
<1>3. l \in Literals[g]
  BY <1>2, NextLiteralReady
<1>4. completing = <<>> /\ (g = User \/ g \in IncompleteGoals)
  BY <1>2, AtWork
<1> HIDE DEF l
<1>5. CASE /\ CallTable(g, d) /\ called' = [called EXCEPT ![g] = @ \cup {l}]
           /\ UNCHANGED <<db, choice, completing, lazy, query, crashed, histVars>>
  <2>1. /\ called' \in [Goals -> SUBSET UNION {Literals[h] : h \in Goals}]
        /\ \A h \in Goals : called'[h] \subseteq Literals[h]
    BY <1>3, <1>5, CalledGrows
  <2>2. lazy' \in [Caller -> Seq(Goals)] /\ query' \in Goals \cup {None}
    BY <1>5 DEF IInv, Evaluation
  <2> QED BY <1>2, <1>4, <1>5, <2>1, <2>2, CallStep
<1>6. CASE LazyReeval(g, d)
  BY <1>2, <1>6, LazyReevalStep
<1>7. CASE LazyError(d)
  BY <1>4, <1>7, Aborts, UnwindStep
<1> QED BY <1>1, <1>5, <1>6, <1>7

\* The user's call.
LEMMA CallQueryStep == ASSUME IInv, CallQuery PROVE IInv'
<1>1. User \in Caller /\ Active(User)
  BY DEF CallQuery, Caller
<1>2. completing = <<>> /\ query \in Goals
  BY <1>1, AtWork
<1>3. CASE /\ CallTable(User, query)
           /\ query' = (IF Valid(query) THEN None ELSE query)
           /\ UNCHANGED <<db, choice, completing, called, lazy, crashed, histVars>>
  <2>1. /\ called' \in [Goals -> SUBSET UNION {Literals[g] : g \in Goals}]
        /\ \A g \in Goals : called'[g] \subseteq Literals[g]
        /\ lazy' \in [Caller -> Seq(Goals)] /\ query' \in Goals \cup {None}
    BY <1>2, <1>3 DEF IInv, Evaluation
  <2> QED BY <1>1, <1>2, <1>3, <2>1, CallStep
<1>4. CASE LazyReeval(User, query)
  BY <1>1, <1>2, <1>4, LazyReevalStep
<1> QED BY <1>3, <1>4 DEF CallQuery

\* The handler of a lazy re-evaluation.
LEMMA HandlerStep == ASSUME IInv, NEW c \in Caller, RunHandler(c) PROVE IInv'
<1> DEFINE d == Head(lazy[c])
           rest == [lazy EXCEPT ![c] = Tail(@)]
<1>1. Active(c) /\ lazy[c] # <<>>
  BY DEF RunHandler
<1>2. completing = <<>> /\ (c = User \/ c \in IncompleteGoals)
  BY <1>1, AtWork
<1>3. d \in Goals /\ rest \in [Caller -> Seq(Goals)]
  <2>1. lazy[c] \in Seq(Goals) /\ lazy \in [Caller -> Seq(Goals)]
    BY DEF IInv, Evaluation
  <2>2. Head(lazy[c]) \in Goals /\ Tail(lazy[c]) \in Seq(Goals)
    BY <1>1, <2>1
  <2> QED BY <2>1, <2>2
<1> HIDE DEF d, rest
<1>4. CASE /\ ~IsAffected(d) /\ lazy' = rest
           /\ UNCHANGED <<db, choice, graphVars, stack, completing, called, query, crashed, histVars>>
  <2>1. Evaluation'
    BY <1>3, <1>4 DEF IInv, Evaluation, graphVars
  <2>2. Program' /\ Calls' /\ Graph(out, outcount, inedges)' /\ Stacks' /\ Untabled'
    BY <1>4, GoalsKept DEF IInv, Program, Calls, Graph, histVars, graphVars
  <2> QED BY <2>1, <2>2 DEF IInv
<1>5. CASE /\ CallInvalidTable(c, d) /\ lazy' = rest
           /\ UNCHANGED <<db, choice, completing, called, query, crashed, histVars>>
  <2>1. /\ called' \in [Goals -> SUBSET UNION {Literals[g] : g \in Goals}]
        /\ \A g \in Goals : called'[g] \subseteq Literals[g] /\ query' \in Goals \cup {None}
        /\ CallTable(c, d)
    BY <1>5 DEF IInv, Evaluation, CallTable
  <2> QED BY <1>2, <1>3, <1>5, <2>1, CallStep
<1>6. CASE LazyReeval(c, d)
  BY <1>3, <1>6, LazyReevalStep
<1>7. CASE LazyError(d)
  BY <1>2, <1>3, <1>7, Aborts, UnwindStep
<1> QED BY <1>4, <1>5, <1>6, <1>7 DEF RunHandler, d, rest

\* An answer.
LEMMA NewAnswerStep == ASSUME IInv, NEW g \in Goals, NewAnswer(g) PROVE IInv'
<1> DEFINE n == table[g]
           p == call[n].prev_call
           marked == [call EXCEPT ![n].no_of_answers = 1]
<1>1. /\ Active(g) /\ UNCHANGED <<db, choice, table, out, outcount, inedges, evalVars, crashed, histVars>>
      /\ call' = IF p = None THEN marked
                 ELSE IF call[p].no_of_answers > 0
                      THEN [marked EXCEPT ![p].no_of_answers = @ - 1]
                      ELSE [marked EXCEPT ![p].changed = TRUE]
  BY DEF NewAnswer
<1>2. n \in Node
  BY <1>1, AtWork, CallGraphAssumption DEF IInv, Evaluation, Stacks, Caller
<1>3. call[n] \in NodeRecord /\ p \in Node \cup {None}
  BY <1>2, NodeSet DEF IInv, Calls
<1>4. marked \in [Node -> NodeRecord]
  <2>0. 1 \in 0 .. 1
    OBVIOUS
  <2>1. [call[n] EXCEPT !.no_of_answers = 1] \in NodeRecord
    BY <1>3, <2>0, NodeSet
  <2> QED BY <1>2, <2>1 DEF IInv, Calls
<1>5. p \in Node => marked[p].no_of_answers \in 0 .. 1 /\ (call[p].no_of_answers > 0 => marked[p].no_of_answers > 0)
  <2> SUFFICES ASSUME p \in Node
               PROVE  marked[p].no_of_answers \in 0 .. 1 /\ (call[p].no_of_answers > 0 => marked[p].no_of_answers > 0)
    OBVIOUS
  <2>1. marked[p] \in NodeRecord
    BY <1>4
  <2>2. marked[p] = IF p = n THEN [call[n] EXCEPT !.no_of_answers = 1] ELSE call[p]
    BY <1>2 DEF IInv, Calls
  <2>3. [call[n] EXCEPT !.no_of_answers = 1].no_of_answers = 1
    BY <1>3 DEF NodeRecord
  <2> HIDE DEF marked, n
  <2>4. marked[p].no_of_answers \in 0 .. 1
    BY <2>1, NodeSet
  <2>5. CASE p = n
    BY <2>2, <2>3, <2>4, <2>5
  <2>6. CASE p # n
    BY <2>2, <2>4, <2>6
  <2> QED BY <2>5, <2>6
<1> HIDE DEF n, p, marked
<1>6. ASSUME p \in Node
      PROVE  /\ [marked EXCEPT ![p].changed = TRUE] \in [Node -> NodeRecord]
             /\ call[p].no_of_answers > 0 =>
                  [marked EXCEPT ![p].no_of_answers = @ - 1] \in [Node -> NodeRecord]
  <2>1. [marked[p] EXCEPT !.changed = TRUE] \in NodeRecord
    BY <1>4, <1>6, NodeSet
  <2>2. [marked EXCEPT ![p] = [marked[p] EXCEPT !.changed = TRUE]] \in [Node -> NodeRecord]
    BY <1>4, <1>6, <2>1
  <2>3. ASSUME call[p].no_of_answers > 0
        PROVE  [marked EXCEPT ![p].no_of_answers = @ - 1] \in [Node -> NodeRecord]
    <3> DEFINE x == marked[p].no_of_answers - 1
    <3>1. x \in 0 .. 1
      BY <1>5, <1>6, <2>3
    <3> HIDE DEF x
    <3>2. [marked[p] EXCEPT !.no_of_answers = x] \in NodeRecord
      BY <1>4, <1>6, <3>1, NodeSet
    <3>3. [marked EXCEPT ![p] = [marked[p] EXCEPT !.no_of_answers = x]] \in [Node -> NodeRecord]
      BY <1>4, <1>6, <3>2
    <3> QED BY <3>3 DEF x
  <2> QED BY <2>2, <2>3
<1>7. Calls'
  BY <1>1, <1>3, <1>4, <1>6 DEF Calls, n, p, marked
<1>8. Program' /\ Graph(out, outcount, inedges)' /\ Stacks' /\ Untabled'
  BY <1>1, GoalsKept DEF IInv, Program, Graph, histVars, evalVars
<1>9. Evaluation'
  BY <1>1, EvaluationKept DEF IInv, Evaluation
<1> QED BY <1>7, <1>8, <1>9 DEF IInv

\* The topmost SCC begins to complete.
LEMMA CompleteSccStep == ASSUME IInv, CompleteScc PROVE IInv'
<1> DEFINE top == Len(stack)
           leader == stack[top].leader
<1>1. /\ completing = <<>> /\ stack # <<>>
      /\ completing' = [i \in 1 .. top - leader + 1 |-> stack[leader + i - 1].goal]
      /\ stack' = SubSeq(stack, 1, leader - 1)
      /\ UNCHANGED <<db, choice, graphVars, called, lazy, query, crashed, histVars>>
  BY DEF CompleteScc
<1>2. /\ stack \in Seq(Frames) /\ top \in Nat /\ top # 0 /\ DOMAIN stack = 1 .. top
      /\ \A i \in DOMAIN stack : stack[i].leader \in 1 .. i
  BY <1>1 DEF IInv, Evaluation, Stacks
<1>3. leader \in 1 .. top
  BY <1>2
<1> HIDE DEF top, leader
<1>4. /\ stack' \in Seq(Frames) /\ DOMAIN stack' = 1 .. leader - 1
      /\ \A i \in 1 .. leader - 1 : stack'[i] = stack[i] /\ i \in DOMAIN stack
  <2>1. leader - 1 \in Nat /\ leader - 1 <= top
    BY <1>2, <1>3
  <2>2. \A i \in 1 .. leader - 1 : i \in 1 .. top /\ stack[i] \in Frames
    BY <1>2, <1>3
  <2> QED BY <1>1, <1>2, <2>1, <2>2, SubSeqProperties DEF top
<1>5. \A i \in 1 .. top - leader + 1 : leader + i - 1 \in DOMAIN stack
  BY <1>2, <1>3
<1>6. \A i \in 1 .. top - leader + 1 : stack[leader + i - 1].goal \in Goals
  <2>1. \A r \in Frames : r.goal \in Goals
    BY DEF Frames
  <2> QED BY <1>2, <1>5, <2>1
<1>7. completing' \in Seq(Goals) /\ DOMAIN completing' = 1 .. top - leader + 1
  <2> DEFINE n == top - leader + 1
  <2>1. n \in Nat
    BY <1>2, <1>3
  <2>2. completing' \in [1 .. n -> Goals]
    BY <1>1, <1>6 DEF top, leader
  <2> HIDE DEF n
  <2>3. completing' \in Seq(Goals)
    BY <2>1, <2>2, SeqDef, Zenon
  <2> QED BY <2>2, <2>3 DEF n
<1>8. Stacks'
  <2>1. \A g \in IncompleteGoals' : g \in IncompleteGoals
    <3>1. \A i \in DOMAIN stack' : stack'[i].goal \in IncompleteGoals
      BY <1>4 DEF IncompleteGoals
    <3>2. \A i \in DOMAIN completing' : completing'[i] \in IncompleteGoals
      BY <1>1, <1>5, <1>7 DEF IncompleteGoals, top, leader
    <3> QED BY <3>1, <3>2 DEF IncompleteGoals, Range1
  <2>2. \A i \in DOMAIN stack' : stack'[i].leader \in 1 .. i
    BY <1>2, <1>4
  <2> QED BY <1>1, <2>1, <2>2 DEF IInv, Stacks, graphVars
<1>9. Evaluation'
  BY <1>1, <1>4, <1>7 DEF IInv, Evaluation, graphVars
<1>10. Program' /\ Calls' /\ Graph(out, outcount, inedges)' /\ Untabled'
  BY <1>1 DEF IInv, Program, Calls, Graph, Untabled, graphVars, histVars
<1> QED BY <1>8, <1>9, <1>10 DEF IInv

\* One table of an SCC is completed.
LEMMA CompleteTableStep == ASSUME IInv, CompleteTable PROVE IInv'
<1> DEFINE g == Head(completing)
           n == table[g]
           p == call[n].prev_call
           unchanged == p # None /\ Unchanged(p)
           cl == IF unchanged THEN propagate_no_change(g) ELSE call
           done == [cl EXCEPT ![n].direct = FALSE, ![n].prev_call = None]
<1>1. /\ completing # <<>> /\ completing' = Tail(completing) /\ called' = [called EXCEPT ![g] = {}]
      /\ crashed' = (unchanged /\ \E m \in Cleared(g) : ~call[m].outedges)
      /\ call' = (IF p = None THEN done ELSE [done EXCEPT ![p] = Freed])
      /\ out' = [s \in Source |-> out[s] \ {p}]
      /\ outcount' = [s \in Source |-> outcount[s] - (IF p # None /\ s \in inedges[p] THEN 1 ELSE 0)]
      /\ inedges' = (IF p = None THEN inedges ELSE [inedges EXCEPT ![p] = {}])
      /\ UNCHANGED <<db, choice, table, stack, lazy, query, histVars>>
  BY DEF CompleteTable
<1>2. /\ completing \in Seq(Goals) /\ g \in Goals /\ Tail(completing) \in Seq(Goals)
      /\ Len(completing) \in Nat /\ Len(completing) > 0 /\ g = completing[1]
      /\ Len(Tail(completing)) = Len(completing) - 1
      /\ \A i \in 1 .. Len(Tail(completing)) : Tail(completing)[i] = completing[i + 1]
  <2> HIDE DEF p, unchanged, cl, n, done
  <2>1. completing \in Seq(Goals) /\ completing # <<>>
    BY <1>1 DEF IInv, Evaluation
  <2>2. /\ Head(completing) \in Goals /\ Tail(completing) \in Seq(Goals)
        /\ Len(Tail(completing)) = Len(completing) - 1
        /\ \A i \in 1 .. Len(Tail(completing)) : Tail(completing)[i] = completing[i + 1]
    BY <2>1, HeadTailProperties
  <2>3. Len(completing) \in Nat /\ Len(completing) > 0 /\ Head(completing) = completing[1]
    BY <2>1
  <2> QED BY <2>1, <2>2, <2>3
<1>3. n \in Node /\ n # None
  <2>1. g \in IncompleteGoals
    BY <1>2 DEF IncompleteGoals, Range1
  <2> QED BY <1>2, <2>1 DEF IInv, Evaluation, Stacks
<1>4. p \in Node \cup {None}
  BY <1>3, NodeSet DEF IInv, Calls
<1>5. cl \in [Node -> NodeRecord]
  BY NodesValidated DEF IInv, Calls
<1> HIDE DEF p, unchanged, cl, n, g
<1>6. done \in [Node -> NodeRecord]
  <2> DEFINE c1 == [cl EXCEPT ![n] = [cl[n] EXCEPT !.direct = FALSE]]
             c2 == [c1 EXCEPT ![n] = [c1[n] EXCEPT !.prev_call = None]]
  <2>1. done = c2
    OBVIOUS
  <2>2. [cl[n] EXCEPT !.direct = FALSE] \in NodeRecord
    BY <1>3, <1>5, NodeSet
  <2>3. c1 \in [Node -> NodeRecord]
    BY <1>3, <1>5, <2>2
  <2> HIDE DEF c1
  <2>4. [c1[n] EXCEPT !.prev_call = None] \in NodeRecord
    BY <1>3, <2>3, NodeSet
  <2>5. c2 \in [Node -> NodeRecord]
    BY <1>3, <2>3, <2>4
  <2> QED BY <2>1, <2>5
<1> HIDE DEF done
<1>7. Calls'
  <2>1. p # None => [done EXCEPT ![p] = Freed] \in [Node -> NodeRecord]
    BY <1>4, <1>6, NewNodes
  <2> QED BY <1>1, <1>6, <2>1 DEF Calls
<1>8. Graph(out, outcount, inedges)'
  BY <1>1, <1>4, GraphForgets DEF IInv
<1>9. Untabled'
  BY <1>1 DEF IInv, Untabled, Source
<1>10. Stacks'
  <2>1. \A i \in DOMAIN Tail(completing) : Tail(completing)[i] = completing[i + 1] /\ i + 1 \in DOMAIN completing
    BY <1>2
  <2>2. IncompleteGoals' \subseteq IncompleteGoals
    BY <1>1, <2>1 DEF IncompleteGoals, Range1
  <2> QED BY <1>1, <2>2 DEF IInv, Stacks
<1>11. Evaluation'
  BY <1>1, <1>2 DEF IInv, Evaluation
<1>12. Program'
  BY <1>1 DEF IInv, Program, histVars
<1> QED BY <1>7, <1>8, <1>9, <1>10, <1>11, <1>12 DEF IInv

\* At first there are no tables and no edges.
LEMMA InitInv == Init => IInv
<1> SUFFICES ASSUME Init PROVE IInv
  OBVIOUS
<1> USE DEF Init
<1>1. Program
  <2>1. MaxClauses \in Nat
    BY CallGraphAssumption
  <2>2. {0, MaxClauses} \subseteq 0 .. MaxClauses
    BY <2>1
  <2>3. db \in [Facts -> 0 .. MaxClauses]
    BY <2>2
  <2>4. choice = None /\ {crashed, cut, overlapped} \subseteq BOOLEAN
    OBVIOUS
  <2>5. {updates, aborts} \subseteq Nat
    OBVIOUS
  <2> HIDE DEF Init
  <2> QED BY <2>3, <2>4, <2>5 DEF Program
<1>2. Evaluation
  BY DEF Evaluation
<1>3. Calls
  BY NewNodes DEF Calls
<1>4. Graph(out, outcount, inedges)
  BY FS_EmptySet DEF Graph
<1>5. Stacks /\ Untabled
  BY DEF Stacks, Untabled, IncompleteGoals, Range1, Source
<1> QED BY <1>1, <1>2, <1>3, <1>4, <1>5 DEF IInv

\* Every step keeps the invariant.
LEMMA StepInv == ASSUME IInv, [Next]_vars PROVE IInv'
<1>1. ASSUME NEW g \in Goals, NewAnswer(g) PROVE IInv'
  BY <1>1, NewAnswerStep
<1>2. ASSUME NEW g \in Goals, CallFact(g) PROVE IInv'
  BY <1>2, CallFactStep
<1>3. ASSUME NEW g \in Goals, CallGoal(g) PROVE IInv'
  BY <1>3, CallGoalStep
<1>4. ASSUME NEW c \in Caller, RunHandler(c) PROVE IInv'
  BY <1>4, HandlerStep
<1>5. CASE CallQuery
  BY <1>5, CallQueryStep
<1>6. CASE CompleteScc
  BY <1>6, CompleteSccStep
<1>7. CASE CompleteTable
  BY <1>7, CompleteTableStep
<1>8. CASE Abort
  BY <1>8, Aborts, UnwindStep DEF Abort
<1>9. ASSUME NEW d \in Goals, Query(d) PROVE IInv'
  <2>1. query' = d /\ UNCHANGED <<db, choice, graphVars, stack, completing, called, lazy, crashed, histVars>>
    BY <1>9 DEF Query
  <2>2. Program' /\ Calls' /\ Graph(out, outcount, inedges)' /\ Stacks' /\ Untabled'
    BY <2>1, GoalsKept DEF IInv, Program, Calls, Graph, graphVars, histVars
  <2>3. Evaluation'
    BY <2>1 DEF IInv, Evaluation, graphVars
  <2> QED BY <2>2, <2>3 DEF IInv
<1>10. ASSUME NEW d \in Goals, incr_invalidate_call(d) PROVE IInv'
  BY <1>10, InvalidateStep
<1>11. ASSUME NEW d \in Goals, abolish_table_call(d) PROVE IInv'
  BY <1>11, AbolishStep
<1>12. ASSUME NEW f \in Facts, incr_assert(f) \/ incr_retract(f) \/ incr_retractall(f) PROVE IInv'
  BY <1>12, FactStep
<1>13. ASSUME NEW f \in Facts, RetryRetract(f) PROVE IInv'
  BY <1>13, RetryStep
<1>14. CASE UNCHANGED vars
  <2>1. Program' /\ Calls' /\ Graph(out, outcount, inedges)' /\ Stacks' /\ Untabled'
    BY <1>14, GoalsKept DEF IInv, Program, Calls, Graph, vars, graphVars, evalVars, histVars
  <2>2. Evaluation'
    BY <1>14 DEF IInv, Evaluation, vars, graphVars, evalVars
  <2> QED BY <2>1, <2>2 DEF IInv
<1> QED BY <1>1, <1>2, <1>3, <1>4, <1>5, <1>6, <1>7, <1>8, <1>9, <1>10, <1>11, <1>12, <1>13, <1>14
        DEF Next, Evaluate

-----------------------------------------------------------------------------
\* What the runs check follows.
LEMMA InvImplies == IInv => TypeOK /\ EdgesMatch
<1>1. Evaluation => stack \in Seq([goal : Goals, leader : Nat])
  BY DEF Evaluation, Frames
<1>2. IInv => TypeOK
  BY <1>1 DEF IInv, Program, Evaluation, Calls, Graph, TypeOK
<1>3. IInv => EdgesMatch
  BY DEF IInv, Graph, EdgesMatch
<1> QED BY <1>2, <1>3

\* The variables of incremental tabling keep their types: counts stay in the range of
\* the bit field, whatever is invalidated and validated (call_graph_xsb.c).
THEOREM TypeCorrect == Spec => []TypeOK
<1>1. IInv /\ [Next]_vars => IInv'
  BY StepInv
<1> QED BY InitInv, <1>1, InvImplies, PTL DEF Spec

\* addcalledge, deleteinedges, deleteoutedges and deallocate_previous_call keep the
\* two hash tables of every edge and the counts of out-edges in step, through
\* re-evaluation, abolishing and exceptions.
THEOREM EdgesAgree == Spec => []EdgesMatch
<1>1. IInv /\ [Next]_vars => IInv'
  BY StepInv
<1> QED BY InitInv, <1>1, InvImplies, PTL DEF Spec

-----------------------------------------------------------------------------
(* Freed nodes. *)

\* The node of a table is the goal's own and has its hash table of out-edges.
Tables == \A g \in Goals : table[g] # None => table[g][1] = g /\ call[table[g]].outedges

\* Only the node of a table that is evaluated again has a previous node, another
\* one of the same goal.
Previous ==
  \A n \in Node : call[n].prev_call # None =>
      /\ n[1] \in IncompleteGoals /\ n = table[n[1]]
      /\ call[n].prev_call[1] = n[1] /\ call[n].prev_call # n

\* The node of an incomplete table is not to be computed directly.
NotDirect == \A g \in IncompleteGoals : ~call[table[g]].direct

\* A node whose hash table was freed is valid and in no hash table.
Unlinked == \A n \in Node : ~call[n].outedges => call[n].falsecount = 0 /\ inedges[n] = {}

\* Until an exception unwinds, only unlinked nodes are freed.
SInv == Tables /\ Previous /\ NotDirect /\ (aborts = 0 => Unlinked /\ ~crashed)

\* The answers of a table that is and stays completed.
AnswersKept ==
  \A g \in Goals : IsCompleted(g) /\ IsCompleted(g)' => (HasAnswer(g)' = HasAnswer(g))

\* The nodes cl have the previous nodes and hash tables of the call nodes; those of
\* incomplete goals wait for the same, the others have the same answers.
Alike(cl) ==
  \A n \in Node : /\ cl[n].prev_call = call[n].prev_call /\ cl[n].outedges = call[n].outedges
                  /\ n[1] \in IncompleteGoals => cl[n].direct = call[n].direct
                  /\ n[1] \notin IncompleteGoals => cl[n].no_of_answers = call[n].no_of_answers

\* An invalidation reaches the node it starts from and nodes that are in a hash table.
LEMMA InvalidationReaches ==
  ASSUME Calls, Evaluation, Graph(out, outcount, inedges), NEW s \in Source, NEW o \in invalidate_call(s)
  PROVE  /\ Alike(o.call)
         /\ \A n \in Node : \/ o.call[n].falsecount = call[n].falsecount
                            \/ inedges[n] # {}
                            \/ s \in Goals /\ n = table[s]
<1> DEFINE root == IF s \in Goals THEN table[s] ELSE None
<1>1. \A r \in NodeRecord, x \in Nat, b \in BOOLEAN :
        LET q == [r EXCEPT !.falsecount = x, !.deleted = b]
        IN  /\ q.prev_call = r.prev_call /\ q.outedges = r.outedges
            /\ q.direct = r.direct /\ q.no_of_answers = r.no_of_answers
  BY DEF NodeRecord
<1>2. root # None => root \in Node /\ s \in Goals /\ root = table[s]
  BY DEF Evaluation
<1>3. \A r \in NodeRecord : r.falsecount \in Nat /\ r.deleted \in BOOLEAN
  <2>1. FalseMod \in Nat
    BY NewNodes
  <2> QED BY <2>1 DEF NodeRecord
<1>4. \A n \in Node : call[n] \in NodeRecord
  BY DEF Calls
<1>5. CASE o = [call |-> call, thrown |-> FALSE]
  BY <1>5 DEF Alike
<1>6. CASE root # None /\ o = [call |-> [call EXCEPT ![root].falsecount = (@ + 1) % FalseMod], thrown |-> TRUE]
  <2> DEFINE x == (call[root].falsecount + 1) % FalseMod
  <2>1. o.call = [call EXCEPT ![root] = [call[root] EXCEPT !.falsecount = x]]
    BY <1>6
  <2> HIDE DEF x, root
  <2>2. \A r \in NodeRecord :
          LET q == [r EXCEPT !.falsecount = x]
          IN  /\ q.prev_call = r.prev_call /\ q.outedges = r.outedges
              /\ q.direct = r.direct /\ q.no_of_answers = r.no_of_answers
    BY DEF NodeRecord
  <2>3. \A n \in Node : n # root => o.call[n] = call[n]
    BY <2>1 DEF Calls
  <2>4. o.call[root] = [call[root] EXCEPT !.falsecount = x]
    BY <1>2, <1>6, <2>1 DEF Calls
  <2>5. Alike(o.call)
    BY <1>2, <1>4, <1>6, <2>2, <2>3, <2>4 DEF Alike
  <2> QED BY <1>2, <1>6, <2>3, <2>5
<1>7. CASE \E E \in SUBSET Edges, V \in SUBSET Node, t \in BOOLEAN :
             o = [call |-> dfs_outedges(root, V, E), thrown |-> t]
  <2>1. PICK E \in SUBSET Edges, V \in SUBSET Node, t \in BOOLEAN :
               o = [call |-> dfs_outedges(root, V, E), thrown |-> t]
    BY <1>7
  <2> DEFINE K(n) == Cardinality({e \in E : e[2] = n}) + (IF n = root THEN 1 ELSE 0)
             X(n) == (call[n].falsecount + K(n)) % FalseMod
             B(n) == call[n].deleted \/ n = root \/ n \in V
  <2>2. o.call = [n \in Node |-> IF K(n) = 0 THEN call[n]
                                 ELSE [call[n] EXCEPT !.falsecount = X(n), !.deleted = B(n)]]
    BY <2>1 DEF dfs_outedges
  <2> HIDE DEF root
  <2>3. ASSUME NEW n \in Node PROVE K(n) \in Nat /\ (K(n) # 0 => inedges[n] # {} \/ n = root)
    <3> DEFINE A == {e \in E : e[2] = n}
    <3>1. A \in SUBSET (Source \X Node)
      BY DEF Edges
    <3>2. Cardinality(A) \in Nat /\ K(n) = Cardinality(A) + (IF n = root THEN 1 ELSE 0)
      BY <3>1, FiniteGraph, FS_Subset, FS_CardinalityType
    <3> HIDE DEF K, A
    <3>3. CASE A = {}
      <4>1. Cardinality(A) = 0
        BY <3>3, FS_EmptySet
      <4> QED BY <3>2, <4>1
    <3>4. CASE A # {}
      <4>1. PICK e \in E : e[2] = n
        BY <3>4 DEF A
      <4>2. e[1] \in Source /\ n \in out[e[1]]
        BY <4>1 DEF Edges
      <4>3. inedges[n] # {}
        BY <4>2 DEF Graph
      <4>4. K(n) \in Nat
        BY <3>2
      <4> QED BY <4>3, <4>4
    <3> QED BY <3>3, <3>4
  <2> HIDE DEF K
  <2>4. \A n \in Node : X(n) \in Nat /\ B(n) \in BOOLEAN
    <3> SUFFICES ASSUME NEW n \in Node PROVE X(n) \in Nat /\ B(n) \in BOOLEAN
      OBVIOUS
    <3>1. call[n].falsecount \in Nat /\ call[n].deleted \in BOOLEAN
      BY <1>3, <1>4
    <3>2. FalseMod \in Nat \ {0}
      BY NewNodes
    <3>3. call[n].falsecount + K(n) \in Nat
      BY <2>3, <3>1
    <3> QED BY <3>1, <3>2, <3>3
  <2> HIDE DEF X, B
  <2>5. ASSUME NEW n \in Node
        PROVE  /\ o.call[n].prev_call = call[n].prev_call /\ o.call[n].outedges = call[n].outedges
               /\ o.call[n].direct = call[n].direct /\ o.call[n].no_of_answers = call[n].no_of_answers
               /\ \/ o.call[n].falsecount = call[n].falsecount
                  \/ inedges[n] # {}
                  \/ n = root
    <3>1. CASE K(n) = 0
      BY <2>2, <3>1
    <3>2. CASE K(n) # 0
      <4>1. o.call[n] = [call[n] EXCEPT !.falsecount = X(n), !.deleted = B(n)]
        BY <2>2, <3>2
      <4> QED BY <1>1, <1>4, <2>3, <2>4, <3>2, <4>1
    <3> QED BY <3>1, <3>2
  <2>6. \A n \in Node : n = root => s \in Goals /\ n = table[s]
    BY <1>2, FiniteGraph
  <2> QED BY <2>5, <2>6 DEF Alike
<1> QED BY <1>5, <1>6, <1>7, Invalidations

-----------------------------------------------------------------------------
(* The steps and freed nodes. *)

\* Fields of a call node that is set elsewhere.
LEMMA FieldsKept ==
  ASSUME NEW r \in NodeRecord
  PROVE  /\ \A b \in BOOLEAN :
              LET q == [r EXCEPT !.outedges = b]
              IN  /\ q.prev_call = r.prev_call /\ q.direct = r.direct /\ q.no_of_answers = r.no_of_answers
                  /\ q.outedges = b /\ q.falsecount = r.falsecount
         /\ \A b \in BOOLEAN :
              LET q == [r EXCEPT !.direct = b]
              IN  /\ q.prev_call = r.prev_call /\ q.outedges = r.outedges /\ q.falsecount = r.falsecount
                  /\ q.no_of_answers = r.no_of_answers /\ q.direct = b /\ q.deleted = r.deleted
         /\ \A b \in BOOLEAN :
              LET q == [r EXCEPT !.changed = b]
              IN  /\ q.prev_call = r.prev_call /\ q.outedges = r.outedges /\ q.falsecount = r.falsecount
                  /\ q.no_of_answers = r.no_of_answers /\ q.direct = r.direct /\ q.deleted = r.deleted
         /\ \A x \in Int :
              LET q == [r EXCEPT !.no_of_answers = x]
              IN  /\ q.prev_call = r.prev_call /\ q.outedges = r.outedges /\ q.falsecount = r.falsecount
                  /\ q.direct = r.direct /\ q.deleted = r.deleted
BY DEF NodeRecord

\* The fields of new and freed nodes.
LEMMA NewFields ==
  /\ makecallnode.prev_call = None /\ makecallnode.outedges /\ ~makecallnode.direct
  /\ makecallnode.falsecount = 0 /\ ~makecallnode.deleted
  /\ makecallnode.no_of_answers = 0 /\ ~makecallnode.changed
  /\ Freed.prev_call = None /\ Freed.falsecount = 0 /\ ~Freed.outedges
  /\ \A o : LET q == [makecallnode EXCEPT !.prev_call = o]
            IN  /\ q.prev_call = o /\ q.outedges /\ ~q.direct /\ q.falsecount = 0 /\ ~q.deleted
                /\ q.no_of_answers = 0 /\ ~q.changed
BY DEF makecallnode, Freed

\* Steps that leave the tables and the incomplete goals alone.
LEMMA NodesStay ==
  ASSUME IInv, SInv, UNCHANGED <<table, crashed, aborts>>, IncompleteGoals' = IncompleteGoals,
         Alike(call'), aborts = 0 => Unlinked'
  PROVE  SInv' /\ AnswersKept
<1>1. /\ Tables /\ Previous /\ NotDirect /\ (aborts = 0 => ~crashed)
      /\ table' = table /\ crashed' = crashed /\ aborts' = aborts
  BY DEF SInv
<1>2. /\ table \in [Goals -> Node \cup {None}] /\ IncompleteGoals \subseteq Goals
      /\ \A g \in IncompleteGoals : table[g] # None
  BY IncompleteAreGoals DEF IInv, Evaluation, Stacks
<1>3. \A n \in Node : /\ call'[n].prev_call = call[n].prev_call /\ call'[n].outedges = call[n].outedges
                      /\ n[1] \in IncompleteGoals => call'[n].direct = call[n].direct
                      /\ n[1] \notin IncompleteGoals => call'[n].no_of_answers = call[n].no_of_answers
  BY DEF Alike
<1>4. \A g \in Goals : table[g] # None => table[g] \in Node /\ table[g][1] = g
  BY <1>1, <1>2 DEF Tables
<1>5. Tables'
  BY <1>1, <1>3, <1>4 DEF Tables
<1>6. Previous'
  BY <1>1, <1>3 DEF Previous
<1>7. NotDirect'
  BY <1>1, <1>2, <1>3, <1>4 DEF NotDirect
<1>8. AnswersKept
  <2> SUFFICES ASSUME NEW g \in Goals, IsCompleted(g) PROVE HasAnswer(g)' = HasAnswer(g)
    BY DEF AnswersKept
  <2>1. table[g] # None /\ g \notin IncompleteGoals
    BY DEF IsCompleted
  <2>2. call'[table[g]].no_of_answers = call[table[g]].no_of_answers
    BY <1>3, <1>4, <2>1
  <2> QED BY <1>1, <2>1, <2>2 DEF HasAnswer
<1> QED BY <1>1, <1>5, <1>6, <1>7, <1>8 DEF SInv

\* An invalidation marks only nodes that are linked.
LEMMA MarkedNodes ==
  ASSUME IInv, SInv, NEW s \in Source, NEW o \in invalidate_call(s), s \in Goals => table[s] # None
  PROVE  /\ Alike(o.call)
         /\ aborts = 0 => \A n \in Node : ~call[n].outedges => o.call[n].falsecount = 0
<1>1. Calls /\ Evaluation /\ Graph(out, outcount, inedges)
  BY DEF IInv
<1>2. /\ Alike(o.call)
      /\ \A n \in Node : \/ o.call[n].falsecount = call[n].falsecount
                         \/ inedges[n] # {}
                         \/ s \in Goals /\ n = table[s]
  BY <1>1, InvalidationReaches
<1> QED BY <1>2 DEF SInv, Tables, Unlinked

\* An invalidation alone.
LEMMA InvalidationKeeps ==
  ASSUME IInv, SInv, NEW s \in Source, NEW o \in invalidate_call(s), s \in Goals => table[s] # None,
         call' = o.call, UNCHANGED <<table, crashed, aborts, inedges, stack, completing>>
  PROVE  SInv' /\ AnswersKept
<1>1. IncompleteGoals' = IncompleteGoals
  BY DEF IncompleteGoals, Range1
<1>2. Alike(o.call) /\ (aborts = 0 => \A n \in Node : ~call[n].outedges => o.call[n].falsecount = 0)
  BY MarkedNodes
<1>3. Alike(call')
  BY <1>2
<1>4. aborts = 0 => Unlinked'
  BY <1>2 DEF SInv, Unlinked, Alike
<1> QED BY <1>1, <1>3, <1>4, NodesStay

\* abolish_table_call: a completed table has no previous node to orphan.
LEMMA NodesAbolished ==
  ASSUME IInv, SInv, NEW g \in Goals, IsCompleted(g), NEW cl, Alike(cl), Detach({g}, cl)
  PROVE  call'[table[g]] = Freed /\ \A n \in Node \ {table[g]} : call'[n] = cl[n]
<1> DEFINE t == table[g]
           N == {table[h] : h \in {g}}
           orphans == {cl[n].prev_call : n \in N} \ {None}
<1>1. table[g] # None /\ g \notin IncompleteGoals /\ Tables /\ Previous
  BY DEF IsCompleted, SInv
<1>2. t \in Node /\ t[1] = g
  BY <1>1 DEF Tables, IInv, Evaluation
<1>3. call' = [n \in Node |-> IF n \in N THEN Freed
                 ELSE IF n \in orphans THEN [cl[n] EXCEPT !.outedges = FALSE] ELSE cl[n]]
  BY DEF Detach
<1>4. N = {t}
  OBVIOUS
<1>5. cl[t].prev_call = None
  BY <1>1, <1>2 DEF Previous, Alike
<1>6. orphans = {}
  BY <1>4, <1>5
<1> HIDE DEF N, orphans, t
<1>7. call'[t] = Freed /\ \A n \in Node \ {t} : call'[n] = cl[n]
  BY <1>2, <1>3, <1>4, <1>6
<1> QED BY <1>7 DEF t

LEMMA TableAbolished ==
  ASSUME IInv, SInv, NEW g \in Goals, IsCompleted(g), NEW cl, Detach({g}, cl)
  PROVE  /\ table[g] \in Node /\ table[g][1] = g /\ table[g] # None
         /\ \A h \in Goals : table'[h] = IF h = g THEN None ELSE table[h]
         /\ \A n \in Node : inedges'[n] \subseteq inedges[n] /\ (n = table[g] => inedges'[n] = {})
         /\ \A n \in Node : g \notin inedges'[n]
<1> DEFINE t == table[g]
           N == {table[h] : h \in {g}}
<1>1. /\ table[g] # None /\ Tables /\ table \in [Goals -> Node \cup {None}]
      /\ Graph(out, outcount, inedges) /\ g \in Source
  BY DEF IsCompleted, IInv, SInv, Evaluation, Source
<1>2. t \in Node /\ t[1] = g /\ t # None
  BY <1>1 DEF Tables
<1>3. /\ table' = [h \in Goals |-> IF h \in {g} THEN None ELSE table[h]]
      /\ inedges' = [n \in Node |-> IF n \in N THEN {} ELSE inedges[n] \ {h \in {g} : n \in out[h]}]
  BY DEF Detach
<1>4. N = {t}
  OBVIOUS
<1>5. \A n \in Node : n \in out[g] <=> g \in inedges[n]
  BY <1>1 DEF Graph
<1> HIDE DEF N
<1>6. \A n \in Node : g \notin inedges'[n]
  BY <1>3, <1>5
<1> HIDE DEF t
<1>7. /\ \A h \in Goals : table'[h] = IF h = g THEN None ELSE table[h]
      /\ \A n \in Node : inedges'[n] \subseteq inedges[n] /\ (n = t => inedges'[n] = {})
  BY <1>3, <1>4
<1> QED BY <1>2, <1>6, <1>7 DEF t

LEMMA AbolishKeeps ==
  ASSUME IInv, SInv, NEW g \in Goals, abolish_table_call(g)
  PROVE  SInv' /\ AnswersKept
<1>1. PICK o \in invalidate_call(g) :
        IF o.thrown THEN call' = o.call /\ UNCHANGED <<table, out, outcount, inedges>>
        ELSE Detach({g}, o.call)
  BY DEF abolish_table_call
<1>2. /\ UNCHANGED <<stack, completing, crashed, aborts>>
      /\ table[g] # None /\ g \notin IncompleteGoals /\ g \in Source
  BY DEF abolish_table_call, IsCompleted, evalVars, Source
<1>3. /\ Alike(o.call)
      /\ aborts = 0 => \A n \in Node : ~call[n].outedges => o.call[n].falsecount = 0
  BY <1>2, MarkedNodes
<1>4. CASE o.thrown
  BY <1>1, <1>2, <1>4, InvalidationKeeps
<1>5. CASE ~o.thrown
  <2> DEFINE t == table[g]
             cl == o.call
  <2>1. /\ Tables /\ Previous /\ NotDirect /\ (aborts = 0 => Unlinked /\ ~crashed)
        /\ table \in [Goals -> Node \cup {None}] /\ IncompleteGoals \subseteq Goals
        /\ \A h \in IncompleteGoals : table[h] # None
    BY IncompleteAreGoals DEF IInv, SInv, Evaluation, Stacks
  <2>2. t \in Node /\ t[1] = g /\ t # None
    BY <1>2, <2>1 DEF Tables
  <2>3. /\ \A h \in Goals : table'[h] = IF h = g THEN None ELSE table[h]
        /\ \A n \in Node : inedges'[n] \subseteq inedges[n] /\ (n = t => inedges'[n] = {})
        /\ \A n \in Node : (n = t => call'[n] = Freed) /\ (n # t => call'[n] = cl[n])
    <3>1. IsCompleted(g) /\ Alike(cl) /\ Detach({g}, cl)
      BY <1>1, <1>2, <1>3, <1>5 DEF IsCompleted
    <3> HIDE DEF cl
    <3>2. \A h \in Goals : table'[h] = IF h = g THEN None ELSE table[h]
      BY <3>1, TableAbolished
    <3>3. \A n \in Node : inedges'[n] \subseteq inedges[n] /\ (n = table[g] => inedges'[n] = {})
      BY <3>1, TableAbolished
    <3>4. call'[table[g]] = Freed /\ \A n \in Node \ {table[g]} : call'[n] = cl[n]
      BY <3>1, NodesAbolished
    <3> QED BY <3>2, <3>3, <3>4
  <2>4. \A n \in Node : /\ cl[n].prev_call = call[n].prev_call /\ cl[n].outedges = call[n].outedges
                        /\ n[1] \in IncompleteGoals => cl[n].direct = call[n].direct
                        /\ n[1] \notin IncompleteGoals => cl[n].no_of_answers = call[n].no_of_answers
    BY <1>3 DEF Alike
  <2>5. IncompleteGoals' = IncompleteGoals
    BY <1>2 DEF IncompleteGoals, Range1
  <2> HIDE DEF t, cl
  <2>6. ASSUME NEW h \in Goals, table'[h] # None
        PROVE  /\ h # g /\ table'[h] = table[h] /\ table[h] \in Node /\ table[h] # t
               /\ table[h][1] = h /\ call[table[h]].outedges /\ call'[table[h]] = cl[table[h]]
    BY <2>1, <2>2, <2>3, <2>6 DEF Tables
  <2>7. Tables'
    BY <2>4, <2>6 DEF Tables
  <2>8. Previous'
    <3> SUFFICES ASSUME NEW n \in Node, call'[n].prev_call # None
                 PROVE  /\ n[1] \in IncompleteGoals' /\ n = table'[n[1]]
                        /\ call'[n].prev_call[1] = n[1] /\ call'[n].prev_call # n
      BY DEF Previous
    <3>1. n # t /\ call'[n] = cl[n] /\ call'[n].prev_call = call[n].prev_call
      BY <2>3, <2>4, NewFields
    <3>2. n[1] \in IncompleteGoals /\ n = table[n[1]] /\ call[n].prev_call[1] = n[1] /\ call[n].prev_call # n
      BY <2>1, <3>1 DEF Previous
    <3>3. table'[n[1]] = table[n[1]]
      BY <1>2, <2>1, <2>3, <3>2
    <3> QED BY <2>5, <3>1, <3>2, <3>3
  <2>9. NotDirect'
    <3> SUFFICES ASSUME NEW h \in IncompleteGoals PROVE ~call'[table'[h]].direct
      BY <2>5 DEF NotDirect
    <3>1. h \in Goals /\ h # g /\ table'[h] = table[h] /\ table[h] # None /\ ~call[table[h]].direct
      BY <1>2, <2>1, <2>3 DEF NotDirect
    <3> QED BY <2>4, <2>6, <3>1
  <2>10. aborts = 0 => Unlinked'
    <3> SUFFICES ASSUME aborts = 0, NEW n \in Node, ~call'[n].outedges
                 PROVE  call'[n].falsecount = 0 /\ inedges'[n] = {}
      BY DEF Unlinked
    <3>1. CASE n = t
      BY <2>3, <3>1, NewFields
    <3>2. CASE n # t
      BY <1>3, <2>1, <2>3, <2>4, <3>2 DEF cl, Unlinked
    <3> QED BY <3>1, <3>2
  <2>11. AnswersKept
    <3> SUFFICES ASSUME NEW h \in Goals, IsCompleted(h), IsCompleted(h)' PROVE HasAnswer(h)' = HasAnswer(h)
      BY DEF AnswersKept
    <3>1. h \notin IncompleteGoals /\ table'[h] # None /\ table[h] # None
      BY DEF IsCompleted
    <3>2. call'[table'[h]].no_of_answers = call[table[h]].no_of_answers
      BY <2>4, <2>6, <3>1
    <3> QED BY <3>1, <3>2 DEF HasAnswer
  <2> QED BY <1>2, <2>1, <2>7, <2>8, <2>9, <2>10, <2>11 DEF SInv
<1> QED BY <1>4, <1>5

\* An exception frees the hash table of previous nodes, and nothing of a completed table.
SameNode(n) ==
  /\ call'[n].no_of_answers = call[n].no_of_answers /\ call'[n].changed = call[n].changed
  /\ call'[n].falsecount = call[n].falsecount /\ call'[n].deleted = call[n].deleted
  /\ call'[n].prev_call = call[n].prev_call /\ call'[n].outedges = call[n].outedges
Dropped ==
  /\ stack' = <<>> /\ IncompleteGoals' = {} /\ completing' = completing /\ aborts' = aborts + 1
  /\ \A g \in Goals : table'[g] = IF g \in IncompleteGoals THEN None ELSE table[g]
  /\ \A h \in Goals : table'[h] # None =>
        /\ table'[h] = table[h] /\ table[h] \in Node /\ h \notin IncompleteGoals
        /\ table[h][1] = h /\ call[table[h]].outedges /\ SameNode(table[h])
  /\ \A n \in Node : /\ call'[n].prev_call = None /\ inedges'[n] \subseteq inedges[n]
                      /\ call'[n].falsecount \in {0, call[n].falsecount}
  /\ \A n \in Node : call'[n].outedges =>
        /\ SameNode(n)
        /\ \A g \in IncompleteGoals : n # table[g] /\ n # call[table[g]].prev_call

LEMMA TablesDropped == ASSUME IInv, SInv, completing = <<>>, Aborted PROVE Dropped
<1> PICK cl : Directed(cl) /\ Unwind(cl)
  BY DEF Aborted
<1> DEFINE G == {stack[i].goal : i \in DOMAIN stack}
           N == {table[g] : g \in G}
           orphans == {cl[n].prev_call : n \in N} \ {None}
<1>1. /\ table' = [g \in Goals |-> IF g \in G THEN None ELSE table[g]]
      /\ call' = [n \in Node |-> IF n \in N THEN Freed
                    ELSE IF n \in orphans THEN [cl[n] EXCEPT !.outedges = FALSE] ELSE cl[n]]
      /\ stack' = <<>> /\ completing' = completing /\ aborts' = aborts + 1
  BY DEF Unwind, Detach
<1>2. /\ Tables /\ Previous /\ aborts \in Nat
      /\ table \in [Goals -> Node \cup {None}] /\ IncompleteGoals \subseteq Goals
      /\ \A h \in IncompleteGoals : table[h] # None
      /\ G = IncompleteGoals
  BY IncompleteAreGoals, OnStack DEF IInv, SInv, Evaluation, Stacks, Program
<1>3. IncompleteGoals' = {}
  BY <1>1 DEF IncompleteGoals, Range1
<1> HIDE DEF G
<1>4. \A n \in Node : /\ n \notin N => call'[n].prev_call = call[n].prev_call
                      /\ n \in N => call'[n] = Freed
                      /\ n \notin N /\ n \notin orphans => SameNode(n)
                      /\ n \notin N /\ n \in orphans =>
                            call'[n].falsecount = call[n].falsecount /\ ~call'[n].outedges
  <2>1. \A n \in Node : cl[n] \in NodeRecord
    BY DEF Directed
  <2>2. \A n \in Node : LET q == [cl[n] EXCEPT !.outedges = FALSE]
                        IN q.prev_call = cl[n].prev_call /\ q.falsecount = cl[n].falsecount /\ ~q.outedges
    BY <2>1, FieldsKept
  <2> HIDE DEF N, orphans
  <2> QED BY <1>1, <2>2 DEF Directed, SameNode
<1> N \subseteq Node /\ \A n \in Node : cl[n].prev_call = call[n].prev_call
  BY <1>2 DEF Directed
<1> HIDE DEF orphans
<1>5. ASSUME NEW h \in Goals, table'[h] # None
      PROVE  /\ table'[h] = table[h] /\ table[h] \in Node /\ h \notin G
             /\ table[h][1] = h /\ call[table[h]].outedges /\ SameNode(table[h])
  <2>1. /\ table'[h] = table[h] /\ table[h] \in Node /\ h \notin G
        /\ table[h][1] = h /\ call[table[h]].outedges
    BY <1>1, <1>2, <1>5 DEF Tables
  <2>2. table[h] \notin N
    BY <1>2, <2>1 DEF Tables
  <2>3. table[h] \notin orphans
    <3> SUFFICES ASSUME NEW g \in G, call[table[g]].prev_call # None, table[h] = call[table[g]].prev_call
                 PROVE  FALSE
      BY DEF orphans
    <3>1. table[g] \in Node /\ table[g][1] = g
      BY <1>2 DEF Tables
    <3>2. call[table[g]].prev_call[1] = g
      BY <1>2, <3>1 DEF Previous
    <3> QED BY <2>1, <3>2
  <2> QED BY <1>4, <2>1, <2>2, <2>3
<1>6. ASSUME NEW n \in Node, call'[n].prev_call # None PROVE FALSE
  <2>1. n \notin N /\ call[n].prev_call # None
    BY <1>4, <1>6, NewFields
  <2>2. n[1] \in IncompleteGoals /\ n = table[n[1]]
    BY <1>2, <2>1 DEF Previous
  <2> QED BY <1>2, <2>1, <2>2
<1>7. ASSUME NEW n \in Node, call'[n].outedges
      PROVE  /\ SameNode(n)
             /\ \A g \in IncompleteGoals : n # table[g] /\ n # call[table[g]].prev_call
  <2>1. n \notin N
    BY <1>4, <1>7, NewFields
  <2>2. n \notin orphans
    BY <1>4, <1>7, <2>1
  <2>3. n # None
    BY FiniteGraph
  <2> QED BY <1>2, <1>4, <2>1, <2>2, <2>3 DEF orphans
<1>8. \A n \in Node : inedges'[n] \subseteq inedges[n]
  BY DEF Unwind, Detach
<1>9. \A g \in Goals : table'[g] = IF g \in IncompleteGoals THEN None ELSE table[g]
  BY <1>1, <1>2
<1>10. ASSUME NEW n \in Node PROVE call'[n].falsecount \in {0, call[n].falsecount}
  <2>1. CASE n \in N
    BY <1>4, <2>1, NewFields
  <2>2. CASE n \notin N
    BY <1>4, <2>2 DEF SameNode
  <2> QED BY <2>1, <2>2
<1> QED BY <1>1, <1>2, <1>3, <1>5, <1>6, <1>7, <1>8, <1>9, <1>10 DEF Dropped

LEMMA UnwindKeeps ==
  ASSUME IInv, SInv, completing = <<>>, Aborted
  PROVE  SInv' /\ AnswersKept
<1>1. /\ IncompleteGoals' = {} /\ aborts' = aborts + 1
      /\ \A n \in Node : call'[n].prev_call = None
  BY TablesDropped DEF Dropped
<1>2. ASSUME NEW h \in Goals, table'[h] # None
      PROVE  /\ table'[h] = table[h] /\ table[h] \in Node
             /\ table[h][1] = h /\ call[table[h]].outedges /\ SameNode(table[h])
  BY <1>2, TablesDropped DEF Dropped
<1>3. Tables'
  BY <1>2 DEF Tables, SameNode
<1>4. Previous' /\ NotDirect'
  BY <1>1 DEF Previous, NotDirect
<1>5. AnswersKept
  <2> SUFFICES ASSUME NEW h \in Goals, IsCompleted(h), IsCompleted(h)' PROVE HasAnswer(h)' = HasAnswer(h)
    BY DEF AnswersKept
  <2>1. table'[h] # None /\ table[h] # None
    BY DEF IsCompleted
  <2> QED BY <1>2, <2>1 DEF HasAnswer, SameNode
<1>6. aborts' # 0
  BY <1>1 DEF IInv, Program
<1> QED BY <1>3, <1>4, <1>5, <1>6 DEF SInv

\* Tables of the list of a lazy re-evaluation are completed.
LEMMA ListMarked ==
  ASSUME IInv, SInv, NEW c, NEW d \in Goals, LazyReeval(c, d)
  PROVE  /\ UNCHANGED <<table, inedges, stack, completing, crashed, histVars>>
         /\ \A n \in Node :
               /\ call'[n].prev_call = call[n].prev_call /\ call'[n].outedges = call[n].outedges
               /\ call'[n].falsecount = call[n].falsecount /\ call'[n].deleted = call[n].deleted
               /\ call'[n].no_of_answers = call[n].no_of_answers
               /\ n[1] \in IncompleteGoals => call'[n].direct = call[n].direct
<1> DEFINE D == Dependencies(d)
<1>1. /\ D \cap IncompleteGoals = {}
      /\ call' = SetDirect(D)
      /\ UNCHANGED <<table, inedges, stack, completing, crashed, histVars>>
  BY DEF LazyReeval
<1>2. D \subseteq Goals
  BY DEF Dependencies, Reaches
<1> HIDE DEF D
<1>3. Directed(call')
  BY <1>1, DirectNodes
<1>4. \A n \in Node : n[1] \in IncompleteGoals => ~ \E g \in D : table[g] = n
  BY <1>1, <1>2, FiniteGraph DEF SInv, Tables
<1> QED BY <1>1, <1>3, <1>4 DEF Directed, SetDirect

LEMMA LazyReevalKeeps ==
  ASSUME IInv, SInv, NEW c, NEW d \in Goals, LazyReeval(c, d)
  PROVE  SInv' /\ AnswersKept
<1>1. /\ UNCHANGED <<table, inedges, stack, completing, crashed, aborts>>
      /\ \A n \in Node :
            /\ call'[n].prev_call = call[n].prev_call /\ call'[n].outedges = call[n].outedges
            /\ call'[n].falsecount = call[n].falsecount /\ call'[n].no_of_answers = call[n].no_of_answers
            /\ n[1] \in IncompleteGoals => call'[n].direct = call[n].direct
  BY ListMarked DEF histVars
<1>2. IncompleteGoals' = IncompleteGoals /\ Alike(call')
  BY <1>1 DEF IncompleteGoals, Range1, Alike
<1>3. aborts = 0 => Unlinked'
  BY <1>1 DEF SInv, Unlinked
<1> QED BY <1>1, <1>2, <1>3, NodesStay

\* A new producer is incomplete, with the goals that were.
LEMMA Pushed ==
  ASSUME Evaluation, completing = <<>>, completing' = completing, NEW d \in Goals, stack' = Push(d)
  PROVE  IncompleteGoals' = IncompleteGoals \cup {d}
<1> DEFINE f == [goal |-> d, leader |-> Len(stack) + 1]
<1>1. stack \in Seq(Frames) /\ Len(stack) \in Nat /\ DOMAIN stack = 1 .. Len(stack)
  BY DEF Evaluation
<1>2. f \in Frames /\ f.goal = d
  BY <1>1 DEF Frames
<1>3. Push(d) = Append(stack, f)
  BY DEF Push
<1> HIDE DEF f
<1>4. /\ DOMAIN stack' = 1 .. Len(stack) + 1
      /\ stack'[Len(stack) + 1] = f /\ \A i \in 1 .. Len(stack) : stack'[i] = stack[i]
  BY <1>1, <1>2, <1>3, AppendProperties
<1>5. IncompleteGoals' = {stack'[i].goal : i \in DOMAIN stack'}
  BY DEF IncompleteGoals, Range1
<1>6. IncompleteGoals = {stack[i].goal : i \in DOMAIN stack}
  BY OnStack
<1>7. \A i \in DOMAIN stack' : i = Len(stack) + 1 \/ (i \in DOMAIN stack /\ stack'[i] = stack[i])
  BY <1>1, <1>4
<1>8. \A i \in DOMAIN stack : i \in DOMAIN stack' /\ stack'[i] = stack[i]
  BY <1>1, <1>4
<1>9. Len(stack) + 1 \in DOMAIN stack' /\ stack'[Len(stack) + 1].goal = d
  BY <1>1, <1>2, <1>4
<1>10. IncompleteGoals' \subseteq IncompleteGoals \cup {d}
  BY <1>5, <1>6, <1>7, <1>9
<1>11. IncompleteGoals \cup {d} \subseteq IncompleteGoals'
  BY <1>5, <1>6, <1>8, <1>9
<1> QED BY <1>10, <1>11

\* Merging levels leaves the same goals on the stack.
LEMMA Merged ==
  ASSUME Evaluation, completing = <<>>, completing' = completing, NEW d \in IncompleteGoals, stack' = MergeLevels(d)
  PROVE  IncompleteGoals' = IncompleteGoals
<1> DEFINE l == stack[CHOOSE i \in DOMAIN stack : stack[i].goal = d].leader
<1>1. stack' = [i \in DOMAIN stack |-> IF i < l THEN stack[i] ELSE [stack[i] EXCEPT !.leader = l]]
  BY DEF MergeLevels
<1> HIDE DEF l
<1>2. \A r \in Frames : [r EXCEPT !.leader = l].goal = r.goal
  BY DEF Frames
<1>3. \A i \in DOMAIN stack : stack[i] \in Frames
  BY DEF Evaluation
<1>4. DOMAIN stack' = DOMAIN stack /\ \A i \in DOMAIN stack : stack'[i].goal = stack[i].goal
  BY <1>1, <1>2, <1>3
<1>5. IncompleteGoals' = {stack'[i].goal : i \in DOMAIN stack'}
  BY DEF IncompleteGoals, Range1
<1>6. IncompleteGoals = {stack[i].goal : i \in DOMAIN stack}
  BY OnStack
<1> QED BY <1>4, <1>5, <1>6

\* A fresh node is the goal's own and nothing points to it.
LEMMA FreshUnused ==
  ASSUME NEW d \in Goals, Unused(d) # {}
  PROVE  LET n == FreshNode(d)
         IN  /\ n \in Node /\ n[1] = d
             /\ inedges[n] = {} /\ \A g \in Goals : table[g] # n
             /\ \A m \in Node : call[m].prev_call # n
<1>1. FreshNode(d) \in Unused(d)
  BY DEF FreshNode
<1>2. FreshNode(d) \in {d} \X (0 .. MaxNode) /\ FreshNode(d) \notin InUse
  BY <1>1 DEF Unused
<1>3. FreshNode(d) \in Node /\ FreshNode(d)[1] = d
  BY <1>2 DEF Node
<1> QED BY <1>2, <1>3 DEF InUse

\* An edge changes the in-edges of its node only.
LEMMA EdgeTo ==
  ASSUME NEW O, NEW C, NEW I, I \in [Node -> SUBSET Source], NEW s, NEW n \in Node \cup {None},
         SetEdges(addcalledge(s, n, O, C, I))
  PROVE  \A m \in Node : \/ inedges'[m] = I[m]
                         \/ m = n /\ n # None /\ inedges'[m] = I[m] \cup {s}
<1>1. inedges' = addcalledge(s, n, O, C, I).inedges
  BY DEF SetEdges
<1>2. CASE n = None \/ n \in O[s]
  BY <1>1, <1>2 DEF addcalledge
<1>3. CASE ~(n = None \/ n \in O[s])
  <2>1. inedges' = [I EXCEPT ![n] = @ \cup {s}]
    BY <1>1, <1>3 DEF addcalledge
  <2> QED BY <1>3, <2>1
<1> QED BY <1>2, <1>3

\* A caller's edge leads to the node of its table.
LEMMA CallerLinked ==
  ASSUME IInv, SInv, NEW c \in Caller, c = User \/ c \in IncompleteGoals, NEW s, NEW O, NEW C,
         SetEdges(addcalledge(s, CallerNode(c), O, C, inedges))
  PROVE  /\ \A m \in Node : ~call[m].outedges => inedges'[m] = inedges[m]
         /\ \A m \in Node : \/ inedges'[m] = inedges[m]
                            \/ c \in Goals /\ m = table[c] /\ inedges'[m] = inedges[m] \cup {s}
<1> DEFINE k == CallerNode(c)
<1>1. k \in Node \cup {None}
  BY CallerNodes
<1>2. k # None => c \in Goals /\ k = table[c] /\ call[k].outedges
  BY CallGraphAssumption DEF SInv, Tables, CallerNode, Caller
<1>3. inedges \in [Node -> SUBSET Source]
  BY DEF IInv, Graph
<1>4. SetEdges(addcalledge(s, k, O, C, inedges))
  OBVIOUS
<1> HIDE DEF k
<1>5. \A m \in Node : \/ inedges'[m] = inedges[m]
                      \/ m = k /\ k # None /\ inedges'[m] = inedges[m] \cup {s}
  BY <1>1, <1>3, <1>4, EdgeTo
<1> QED BY <1>2, <1>5

\* Its edge is there afterwards.
LEMMA EdgeThere ==
  ASSUME IInv, NEW c \in Caller, c = User \/ c \in IncompleteGoals, NEW s, NEW O, NEW C,
         \A m \in Node : m \in O[s] => s \in inedges[m],
         SetEdges(addcalledge(s, CallerNode(c), O, C, inedges))
  PROVE  c \in Goals => s \in inedges'[table[c]]
<1> SUFFICES ASSUME c \in Goals PROVE s \in inedges'[table[c]]
  OBVIOUS
<1>1. c \in IncompleteGoals /\ c # User
  BY CallGraphAssumption
<1> DEFINE k == table[c]
<1>2. k \in Node /\ k # None /\ CallerNode(c) = k
  BY <1>1 DEF IInv, Stacks, Evaluation, CallerNode
<1>3. inedges \in [Node -> SUBSET Source]
  BY DEF IInv, Graph
<1>4. inedges' = addcalledge(s, k, O, C, inedges).inedges
  BY <1>2 DEF SetEdges
<1> HIDE DEF k
<1>5. CASE k \in O[s]
  <2>1. inedges' = inedges
    BY <1>2, <1>4, <1>5 DEF addcalledge
  <2> QED BY <1>2, <1>5, <2>1 DEF k
<1>6. CASE k \notin O[s]
  <2>1. inedges' = [inedges EXCEPT ![k] = @ \cup {s}]
    BY <1>2, <1>4, <1>6 DEF addcalledge
  <2> QED BY <1>2, <1>3, <2>1 DEF k
<1> QED BY <1>5, <1>6

\* A new producer of d, called by c, gets the node n; what was the node of its table
\* becomes the previous node of n.
Produces(c, d, n) ==
  /\ completing = <<>> /\ completing' = completing /\ stack' = Push(d) /\ d \notin IncompleteGoals
  /\ n[1] = d /\ inedges[n] = {} /\ table' = [table EXCEPT ![d] = n]
  /\ \A g \in Goals : table[g] # n
  /\ \A m \in Node : call[m].prev_call # n
  /\ call'[n].prev_call = table[d] /\ call'[n].outedges /\ ~call'[n].direct
  /\ call'[n].falsecount = 0 /\ ~call'[n].deleted
  /\ call'[n].no_of_answers = 0 /\ ~call'[n].changed
  /\ \A m \in Node \ {n} :
        /\ call'[m].prev_call = call[m].prev_call /\ call'[m].outedges = call[m].outedges
        /\ call'[m].no_of_answers = call[m].no_of_answers /\ call'[m].changed = call[m].changed
        /\ m # table[d] => call'[m] = call[m]
        /\ m = table[d] => call[m].falsecount # 0 /\ call'[m].falsecount = 0
  /\ \A m \in Node : ~call[m].outedges => inedges'[m] = inedges[m]
  /\ \A m \in Node : \/ inedges'[m] = inedges[m]
                     \/ c \in Goals /\ m = table[c] /\ inedges'[m] = inedges[m] \cup {d}
  /\ c \in Goals => d \in inedges'[table[c]]

\* Nothing else becomes of the nodes.
LEMMA NewProducer ==
  ASSUME IInv, SInv, NEW c, NEW d \in Goals, NEW n \in Node, Produces(c, d, n), UNCHANGED <<crashed, aborts>>
  PROVE  SInv' /\ AnswersKept
<1> USE DEF Produces
<1>1. /\ Tables /\ Previous /\ NotDirect /\ (aborts = 0 => Unlinked /\ ~crashed)
      /\ table \in [Goals -> Node \cup {None}] /\ IncompleteGoals \subseteq Goals
      /\ \A h \in IncompleteGoals : table[h] # None
  BY IncompleteAreGoals DEF IInv, SInv, Evaluation, Stacks
<1>2. IncompleteGoals' = IncompleteGoals \cup {d}
  BY Pushed DEF IInv
<1>3. table'[d] = n /\ \A h \in Goals : h # d => table'[h] = table[h]
  BY <1>1
<1>4. n # None /\ n # table[d]
  BY FiniteGraph
<1>5. ASSUME NEW h \in Goals, h # d, table[h] # None
      PROVE  /\ table'[h] = table[h] /\ table[h] \in Node /\ table[h] # n /\ table[h] # table[d]
             /\ table[h][1] = h /\ call[table[h]].outedges /\ call'[table[h]] = call[table[h]]
  <2>1. table[h] \in Node /\ table[h][1] = h /\ call[table[h]].outedges /\ table[h] # n
    BY <1>1, <1>5 DEF Tables
  <2>2. table[h] # table[d]
    BY <1>1, <1>5, <2>1 DEF Tables
  <2> QED BY <1>3, <1>5, <2>1, <2>2
<1>6. Tables'
  <2> SUFFICES ASSUME NEW h \in Goals, table'[h] # None
               PROVE  table'[h][1] = h /\ call'[table'[h]].outedges
    BY DEF Tables
  <2>1. CASE h = d
    BY <1>3, <2>1
  <2>2. CASE h # d
    BY <1>3, <1>5, <2>2
  <2> QED BY <2>1, <2>2
<1>7. Previous'
  <2> SUFFICES ASSUME NEW m \in Node, call'[m].prev_call # None
               PROVE  /\ m[1] \in IncompleteGoals' /\ m = table'[m[1]]
                      /\ call'[m].prev_call[1] = m[1] /\ call'[m].prev_call # m
    BY DEF Previous
  <2>1. CASE m = n
    <3>1. call'[m].prev_call = table[d] /\ table[d] # None /\ table[d][1] = d
      BY <1>1, <2>1 DEF Tables
    <3> QED BY <1>2, <1>3, <1>4, <2>1, <3>1
  <2>2. CASE m # n
    <3>1. call'[m].prev_call = call[m].prev_call
      BY <2>2
    <3>2. m[1] \in IncompleteGoals /\ m = table[m[1]] /\ call[m].prev_call[1] = m[1] /\ call[m].prev_call # m
      BY <1>1, <3>1 DEF Previous
    <3>3. m[1] # d /\ m[1] \in Goals
      BY <1>1, <3>2
    <3> QED BY <1>2, <1>3, <3>1, <3>2, <3>3
  <2> QED BY <2>1, <2>2
<1>8. NotDirect'
  <2> SUFFICES ASSUME NEW h \in IncompleteGoals' PROVE ~call'[table'[h]].direct
    BY DEF NotDirect
  <2>1. CASE h = d
    BY <1>3, <2>1
  <2>2. CASE h # d
    BY <1>1, <1>2, <1>5, <2>2 DEF NotDirect
  <2> QED BY <2>1, <2>2
<1>9. aborts = 0 => Unlinked'
  <2> SUFFICES ASSUME aborts = 0, NEW m \in Node, ~call'[m].outedges
               PROVE  call'[m].falsecount = 0 /\ inedges'[m] = {}
    BY DEF Unlinked
  <2>1. m # n /\ ~call[m].outedges
    OBVIOUS
  <2>2. m # table[d]
    BY <1>1, <2>1, FiniteGraph DEF Tables
  <2> QED BY <1>1, <2>1, <2>2 DEF Unlinked
<1>10. AnswersKept
  <2> SUFFICES ASSUME NEW h \in Goals, IsCompleted(h), IsCompleted(h)' PROVE HasAnswer(h)' = HasAnswer(h)
    BY DEF AnswersKept
  <2>1. table[h] # None /\ h \notin IncompleteGoals'
    BY DEF IsCompleted
  <2>2. table'[h] = table[h] /\ call'[table[h]] = call[table[h]]
    BY <1>2, <1>5, <2>1
  <2> QED BY <2>2 DEF HasAnswer
<1> QED BY <1>1, <1>6, <1>7, <1>8, <1>9, <1>10 DEF SInv

\* A call of a tabled goal finds a valid table or begins a producer.
LEMMA CallCases ==
  ASSUME IInv, SInv, completing = <<>>, completing' = completing, NEW c \in Caller,
         c = User \/ c \in IncompleteGoals, NEW d \in Goals, CallTable(c, d)
  PROVE  \/ CallValidTable(c, d)
         \/ \E n \in Node : Produces(c, d, n)
<1>1. /\ table \in [Goals -> Node \cup {None}] /\ \A h \in IncompleteGoals : table[h] # None
      /\ Evaluation /\ call \in [Node -> NodeRecord]
  BY DEF IInv, Evaluation, Stacks, Calls
<1>3. CASE CallNewTable(c, d)
  <2> DEFINE n == FreshNode(d)
             O == [out EXCEPT ![d] = {}]
             C == [outcount EXCEPT ![d] = 0]
  <2>1. /\ table[d] = None /\ Unused(d) # {} /\ stack' = Push(d)
        /\ table' = [table EXCEPT ![d] = n] /\ call' = [call EXCEPT ![n] = makecallnode]
        /\ SetEdges(addcalledge(d, CallerNode(c), O, C, inedges))
    BY <1>3 DEF CallNewTable
  <2>2. /\ n \in Node /\ n[1] = d /\ inedges[n] = {}
        /\ (\A g \in Goals : table[g] # n) /\ \A m \in Node : call[m].prev_call # n
    BY <2>1, FreshUnused
  <2> HIDE DEF n, O, C
  <2>3. /\ \A m \in Node : ~call[m].outedges => inedges'[m] = inedges[m]
        /\ \A m \in Node : \/ inedges'[m] = inedges[m]
                           \/ c \in Goals /\ m = table[c] /\ inedges'[m] = inedges[m] \cup {d}
    BY <2>1, CallerLinked
  <2>4. call'[n] = makecallnode /\ \A m \in Node \ {n} : call'[m] = call[m]
    BY <1>1, <2>1, <2>2
  <2>5. /\ call'[n].prev_call = table[d] /\ call'[n].outedges /\ ~call'[n].direct
        /\ call'[n].falsecount = 0 /\ ~call'[n].deleted
        /\ call'[n].no_of_answers = 0 /\ ~call'[n].changed
    BY <2>1, <2>4, NewFields
  <2>6. d \notin IncompleteGoals
    BY <1>1, <2>1
  <2>7. \A m \in Node \ {n} :
            /\ call'[m].prev_call = call[m].prev_call /\ call'[m].outedges = call[m].outedges
            /\ call'[m].no_of_answers = call[m].no_of_answers /\ call'[m].changed = call[m].changed
            /\ m # table[d] => call'[m] = call[m]
            /\ m = table[d] => call[m].falsecount # 0 /\ call'[m].falsecount = 0
    BY <2>1, <2>4, FiniteGraph
  <2>9. c \in Goals => d \in inedges'[table[c]]
    <3>1. \A m \in Node : m \in O[d] => d \in inedges[m]
      BY DEF O, IInv, Graph, Source
    <3> QED BY <2>1, <3>1, EdgeThere
  <2>8. Produces(c, d, n)
    BY <2>1, <2>2, <2>3, <2>5, <2>6, <2>7, <2>9 DEF Produces
  <2> QED BY <2>2, <2>8
<1>4. CASE CallInvalidTable(c, d)
  <2> DEFINE n == FreshNode(d)
             o == table[d]
             q == [makecallnode EXCEPT !.prev_call = o]
             r == [call[o] EXCEPT !.falsecount = 0, !.deleted = TRUE]
  <2>1. /\ o # None /\ call[o].direct /\ call[o].falsecount # 0 /\ Unused(d) # {} /\ stack' = Push(d)
        /\ table' = [table EXCEPT ![d] = n]
        /\ call' = [call EXCEPT ![n] = q, ![o].falsecount = 0, ![o].deleted = TRUE]
        /\ SetEdges(addcalledge(d, CallerNode(c), out, outcount, inedges))
    BY <1>4 DEF CallInvalidTable, IsAffected
  <2>2. /\ n \in Node /\ n[1] = d /\ inedges[n] = {}
        /\ (\A g \in Goals : table[g] # n) /\ \A m \in Node : call[m].prev_call # n
    BY <2>1, FreshUnused
  <2>3. o \in Node /\ o # n
    BY <1>1, <2>1, <2>2
  <2>4. /\ r.prev_call = call[o].prev_call /\ r.outedges = call[o].outedges /\ r.falsecount = 0
        /\ r.no_of_answers = call[o].no_of_answers /\ r.changed = call[o].changed
    <3>1. call[o] \in NodeRecord
      BY <1>1, <2>3
    <3> QED BY <3>1 DEF NodeRecord
  <2>5. /\ q.prev_call = o /\ q.outedges /\ ~q.direct /\ q.falsecount = 0 /\ ~q.deleted
        /\ q.no_of_answers = 0 /\ ~q.changed
    BY NewFields
  <2> HIDE DEF n, o, q
  <2>6. call'[n] = q /\ call'[o] = r /\ \A m \in Node \ {n, o} : call'[m] = call[m]
    BY <1>1, <2>1, <2>2, <2>3
  <2> HIDE DEF r
  <2>7. /\ \A m \in Node : ~call[m].outedges => inedges'[m] = inedges[m]
        /\ \A m \in Node : \/ inedges'[m] = inedges[m]
                           \/ c \in Goals /\ m = table[c] /\ inedges'[m] = inedges[m] \cup {d}
    BY <2>1, CallerLinked
  <2>8. d \notin IncompleteGoals
    BY <2>1 DEF SInv, NotDirect, o
  <2>9. /\ call'[n].prev_call = table[d] /\ call'[n].outedges /\ ~call'[n].direct
        /\ call'[n].falsecount = 0 /\ ~call'[n].deleted
        /\ call'[n].no_of_answers = 0 /\ ~call'[n].changed
    BY <2>5, <2>6 DEF o
  <2>10. \A m \in Node \ {n} :
            /\ call'[m].prev_call = call[m].prev_call /\ call'[m].outedges = call[m].outedges
            /\ call'[m].no_of_answers = call[m].no_of_answers /\ call'[m].changed = call[m].changed
            /\ m # table[d] => call'[m] = call[m]
            /\ m = table[d] => call[m].falsecount # 0 /\ call'[m].falsecount = 0
    BY <2>1, <2>4, <2>6 DEF o
  <2>12. c \in Goals => d \in inedges'[table[c]]
    <3>1. \A m \in Node : m \in out[d] => d \in inedges[m]
      BY DEF IInv, Graph, Source
    <3> QED BY <2>1, <3>1, EdgeThere
  <2>11. Produces(c, d, n)
    BY <2>1, <2>2, <2>7, <2>8, <2>9, <2>10, <2>12 DEF Produces
  <2> QED BY <2>2, <2>11
<1> QED BY <1>3, <1>4 DEF CallTable

\* A call of a tabled goal.
LEMMA CallKeeps ==
  ASSUME IInv, SInv, completing = <<>>, completing' = completing, NEW c \in Caller,
         c = User \/ c \in IncompleteGoals, NEW d \in Goals, CallTable(c, d), UNCHANGED <<crashed, aborts>>
  PROVE  SInv' /\ AnswersKept
<1>1. /\ table \in [Goals -> Node \cup {None}] /\ \A h \in IncompleteGoals : table[h] # None
      /\ Evaluation /\ call \in [Node -> NodeRecord]
  BY DEF IInv, Evaluation, Stacks, Calls
<1>2. CASE CallValidTable(c, d)
  <2>1. /\ table[d] # None /\ UNCHANGED <<table, call>>
        /\ SetEdges(addcalledge(d, CallerNode(c), out, outcount, inedges))
        /\ stack' = IF IsCompleted(d) THEN stack ELSE MergeLevels(d)
    BY <1>2 DEF CallValidTable
  <2>2. IncompleteGoals' = IncompleteGoals
    <3>1. CASE IsCompleted(d)
      BY <2>1, <3>1 DEF IncompleteGoals, Range1
    <3>2. CASE ~IsCompleted(d)
      BY <1>1, <2>1, <3>2, Merged DEF IsCompleted
    <3> QED BY <3>1, <3>2
  <2>3. \A m \in Node : ~call[m].outedges => inedges'[m] = inedges[m]
    BY <2>1, CallerLinked
  <2>4. Alike(call')
    BY <2>1 DEF Alike
  <2>5. aborts = 0 => Unlinked'
    BY <2>1, <2>3 DEF SInv, Unlinked
  <2> QED BY <2>1, <2>2, <2>4, <2>5, NodesStay
<1>3. CASE \E n \in Node : Produces(c, d, n)
  BY <1>3, NewProducer
<1> QED BY <1>2, <1>3, CallCases

\* A literal that is a fact.
LEMMA CallFactKeeps == ASSUME IInv, SInv, NEW g \in Goals, CallFact(g) PROVE SInv' /\ AnswersKept
<1> DEFINE d == LiteralGoal(g, NextLiteral(g))
<1>1. /\ Active(g) /\ SetEdges(addcalledge(d, table[g], out, outcount, inedges))
      /\ UNCHANGED <<table, call, stack, completing, crashed, aborts>>
  BY DEF CallFact, CallsLiteral, histVars
<1> HIDE DEF d
<1>2. g \in Caller /\ g # User /\ (g = User \/ g \in IncompleteGoals)
  <2>1. g \in Caller
    BY DEF Caller
  <2> QED BY <1>1, <2>1, AtWork, CallGraphAssumption
<1>3. CallerNode(g) = table[g]
  BY <1>2 DEF CallerNode
<1>4. \A m \in Node : ~call[m].outedges => inedges'[m] = inedges[m]
  BY <1>1, <1>2, <1>3, CallerLinked
<1>5. IncompleteGoals' = IncompleteGoals /\ Alike(call')
  BY <1>1 DEF IncompleteGoals, Range1, Alike
<1>6. aborts = 0 => Unlinked'
  BY <1>1, <1>4 DEF SInv, Unlinked
<1> QED BY <1>1, <1>5, <1>6, NodesStay

\* A literal that is a tabled goal.
LEMMA CallGoalKeeps == ASSUME IInv, SInv, NEW g \in Goals, CallGoal(g) PROVE SInv' /\ AnswersKept
<1>1. PICK d \in Goals :
        \/ CallTable(g, d) /\ UNCHANGED <<completing, crashed, histVars>>
        \/ LazyReeval(g, d)
        \/ LazyError(d)
  BY DEF CallGoal
<1>2. Active(g) /\ g \in Caller
  BY DEF CallGoal, CallsLiteral, Caller
<1>3. completing = <<>> /\ (g = User \/ g \in IncompleteGoals)
  BY <1>2, AtWork
<1>4. CASE CallTable(g, d) /\ UNCHANGED <<completing, crashed, histVars>>
  BY <1>2, <1>3, <1>4, CallKeeps DEF histVars
<1>5. CASE LazyReeval(g, d)
  BY <1>5, LazyReevalKeeps
<1>6. CASE LazyError(d)
  BY <1>3, <1>6, Aborts, UnwindKeeps
<1> QED BY <1>1, <1>4, <1>5, <1>6

\* The user's call.
LEMMA CallQueryKeeps == ASSUME IInv, SInv, CallQuery PROVE SInv' /\ AnswersKept
<1>1. User \in Caller /\ Active(User)
  BY DEF CallQuery, Caller
<1>2. completing = <<>> /\ query \in Goals
  BY <1>1, AtWork
<1>3. CASE CallTable(User, query) /\ UNCHANGED <<completing, crashed, histVars>>
  BY <1>1, <1>2, <1>3, CallKeeps DEF histVars
<1>4. CASE LazyReeval(User, query)
  BY <1>2, <1>4, LazyReevalKeeps
<1> QED BY <1>3, <1>4 DEF CallQuery

\* The handler of a lazy re-evaluation.
LEMMA HandlerKeeps == ASSUME IInv, SInv, NEW c \in Caller, RunHandler(c) PROVE SInv' /\ AnswersKept
<1> DEFINE d == Head(lazy[c])
<1>1. Active(c) /\ lazy[c] # <<>>
  BY DEF RunHandler
<1>2. completing = <<>> /\ (c = User \/ c \in IncompleteGoals)
  BY <1>1, AtWork
<1>3. d \in Goals
  <2>1. lazy[c] \in Seq(Goals)
    BY DEF IInv, Evaluation
  <2> QED BY <1>1, <2>1
<1>4. \/ UNCHANGED <<graphVars, stack, completing, crashed, histVars>>
      \/ CallInvalidTable(c, d) /\ UNCHANGED <<completing, crashed, histVars>>
      \/ LazyReeval(c, d)
      \/ LazyError(d)
  BY DEF RunHandler
<1> HIDE DEF d
<1>5. CASE UNCHANGED <<graphVars, stack, completing, crashed, histVars>>
  <2>1. UNCHANGED <<table, call, inedges, stack, completing, crashed, aborts>>
    BY <1>5 DEF graphVars, histVars
  <2>2. IncompleteGoals' = IncompleteGoals /\ Alike(call') /\ (aborts = 0 => Unlinked')
    BY <2>1 DEF IncompleteGoals, Range1, Alike, SInv, Unlinked
  <2> QED BY <2>1, <2>2, NodesStay
<1>6. CASE CallInvalidTable(c, d) /\ UNCHANGED <<completing, crashed, histVars>>
  BY <1>2, <1>3, <1>6, CallKeeps DEF CallTable, histVars
<1>7. CASE LazyReeval(c, d)
  BY <1>3, <1>7, LazyReevalKeeps
<1>8. CASE LazyError(d)
  BY <1>2, <1>3, <1>8, Aborts, UnwindKeeps
<1> QED BY <1>4, <1>5, <1>6, <1>7, <1>8

\* The nodes after an answer: that of the table at work and the previous one.
LEMMA AnswerNoted ==
  ASSUME IInv, SInv, NEW g \in Goals, NewAnswer(g)
  PROVE  LET n == table[g]
             p == call[n].prev_call
         IN  /\ g \in IncompleteGoals /\ completing = <<>> /\ n \in Node /\ n # None /\ n[1] = g
             /\ call[n] \in NodeRecord /\ call'[n] = [call[n] EXCEPT !.no_of_answers = 1]
             /\ p # None => /\ p \in Node /\ p[1] = g /\ p # n
                            /\ call[p] \in NodeRecord /\ call[p].no_of_answers \in 0 .. 1
                            /\ call'[p] = IF call[p].no_of_answers > 0
                                          THEN [call[p] EXCEPT !.no_of_answers = call[p].no_of_answers - 1]
                                          ELSE [call[p] EXCEPT !.changed = TRUE]
             /\ \A m \in Node : m # n /\ m # p => call'[m] = call[m]
<1> DEFINE n == table[g]
           p == call[n].prev_call
           r == [call[n] EXCEPT !.no_of_answers = 1]
<1>1. /\ Active(g)
      /\ call' = IF p = None THEN [call EXCEPT ![n].no_of_answers = 1]
                 ELSE IF call[p].no_of_answers > 0
                      THEN [[call EXCEPT ![n].no_of_answers = 1] EXCEPT ![p].no_of_answers = @ - 1]
                      ELSE [[call EXCEPT ![n].no_of_answers = 1] EXCEPT ![p].changed = TRUE]
  BY DEF NewAnswer
<1>2. g \in IncompleteGoals /\ completing = <<>> /\ n \in Node /\ n # None /\ n[1] = g
  <2>1. g \in Caller /\ g # User
    BY CallGraphAssumption DEF Caller
  <2>2. g \in IncompleteGoals /\ completing = <<>>
    BY <1>1, <2>1, AtWork
  <2> QED BY <2>2, FiniteGraph DEF IInv, SInv, Evaluation, Stacks, Tables
<1>3. call \in [Node -> NodeRecord] /\ call[n] \in NodeRecord
  BY <1>2 DEF IInv, Calls
<1>4. p # None => p \in Node /\ p[1] = g /\ p # n /\ call[p] \in NodeRecord /\ call[p].no_of_answers \in 0 .. 1
  <2>1. p \in Node \cup {None}
    BY <1>3, NodeSet
  <2> QED BY <1>2, <1>3, <2>1, NodeSet DEF SInv, Previous
<1> HIDE DEF n, p
<1>5. CASE p = None
  BY <1>1, <1>2, <1>3, <1>5 DEF n, p
<1>6. CASE p # None
  <2> DEFINE c1 == [call EXCEPT ![n] = r]
             a == [call[p] EXCEPT !.no_of_answers = call[p].no_of_answers - 1]
             b == [call[p] EXCEPT !.changed = TRUE]
  <2>1. DOMAIN c1 = Node /\ c1[n] = r /\ \A m \in Node \ {n} : c1[m] = call[m]
    BY <1>2, <1>3
  <2>2. call' = IF call[p].no_of_answers > 0
                THEN [c1 EXCEPT ![p] = [c1[p] EXCEPT !.no_of_answers = c1[p].no_of_answers - 1]]
                ELSE [c1 EXCEPT ![p] = [c1[p] EXCEPT !.changed = TRUE]]
    BY <1>1, <1>6
  <2> HIDE DEF c1, r
  <2>3. call' = IF call[p].no_of_answers > 0 THEN [c1 EXCEPT ![p] = a] ELSE [c1 EXCEPT ![p] = b]
    BY <1>4, <1>6, <2>1, <2>2
  <2> HIDE DEF a, b
  <2>4. /\ call'[n] = r /\ \A m \in Node : m # n /\ m # p => call'[m] = call[m]
        /\ call'[p] = IF call[p].no_of_answers > 0 THEN a ELSE b
    BY <1>2, <1>4, <1>6, <2>1, <2>3
  <2> QED BY <1>2, <1>3, <1>4, <2>4 DEF n, p, r, a, b
<1> QED BY <1>5, <1>6

\* An answer is for the table at work; its previous node counts it.
LEMMA AnswerCounted ==
  ASSUME IInv, SInv, NEW g \in Goals, NewAnswer(g)
  PROVE  /\ UNCHANGED <<table, inedges, stack, completing, crashed, histVars>>
         /\ \A m \in Node :
               /\ call'[m].prev_call = call[m].prev_call /\ call'[m].outedges = call[m].outedges
               /\ call'[m].falsecount = call[m].falsecount /\ call'[m].deleted = call[m].deleted
               /\ call'[m].direct = call[m].direct
               /\ m[1] \notin IncompleteGoals => call'[m].no_of_answers = call[m].no_of_answers
<1> DEFINE n == table[g]
           p == call[n].prev_call
           r == [call[n] EXCEPT !.no_of_answers = 1]
<1>1. UNCHANGED <<table, inedges, stack, completing, crashed, histVars>>
  BY DEF NewAnswer, evalVars
<1>2. /\ g \in IncompleteGoals /\ n \in Node /\ n[1] = g
      /\ p # None => p \in Node /\ p[1] = g /\ p # n
      /\ call'[n] = r
      /\ p # None => \/ call'[p] = [call[p] EXCEPT !.no_of_answers = call[p].no_of_answers - 1]
                     \/ call'[p] = [call[p] EXCEPT !.changed = TRUE]
      /\ \A m \in Node \ {n, p} : call'[m] = call[m]
  BY AnswerNoted
<1>3. call \in [Node -> NodeRecord]
  BY DEF IInv, Calls
<1> SUFFICES ASSUME NEW m \in Node
             PROVE  /\ call'[m].prev_call = call[m].prev_call /\ call'[m].outedges = call[m].outedges
                    /\ call'[m].falsecount = call[m].falsecount /\ call'[m].deleted = call[m].deleted
                    /\ call'[m].direct = call[m].direct
                    /\ m[1] \notin IncompleteGoals => call'[m].no_of_answers = call[m].no_of_answers
  BY <1>1
<1> HIDE DEF n, p, r
<1>4. ASSUME NEW x \in Int, NEW z, z = [call[m] EXCEPT !.no_of_answers = x] \/ z = [call[m] EXCEPT !.changed = TRUE]
      PROVE  /\ z.prev_call = call[m].prev_call /\ z.outedges = call[m].outedges
             /\ z.falsecount = call[m].falsecount /\ z.direct = call[m].direct /\ z.deleted = call[m].deleted
  <2>1. call[m] \in NodeRecord
    BY <1>3
  <2>2. CASE z = [call[m] EXCEPT !.no_of_answers = x]
    BY <2>1, <2>2 DEF NodeRecord
  <2>3. CASE z = [call[m] EXCEPT !.changed = TRUE]
    BY <2>1, <2>3 DEF NodeRecord
  <2> QED BY <1>4, <2>2, <2>3
<1>5. CASE m = n
  <2>1. call'[m] = [call[m] EXCEPT !.no_of_answers = 1] /\ m[1] \in IncompleteGoals /\ 1 \in Int
    BY <1>2, <1>5 DEF r
  <2> QED BY <1>4, <2>1
<1>6. CASE m # n /\ m = p
  <2>1. p # None /\ m[1] \in IncompleteGoals
    BY <1>2, <1>6, FiniteGraph
  <2>2. call[m].no_of_answers \in 0 .. 1
    BY <1>3, NodeSet
  <2>3. PICK x \in Int : \/ call'[m] = [call[m] EXCEPT !.no_of_answers = x]
                         \/ call'[m] = [call[m] EXCEPT !.changed = TRUE]
    BY <1>2, <1>6, <2>1, <2>2
  <2> QED BY <1>4, <2>1, <2>3
<1>7. CASE m # n /\ m # p
  BY <1>2, <1>7
<1> QED BY <1>5, <1>6, <1>7

LEMMA NewAnswerKeeps == ASSUME IInv, SInv, NEW g \in Goals, NewAnswer(g) PROVE SInv' /\ AnswersKept
<1>1. /\ UNCHANGED <<table, inedges, stack, completing, crashed, aborts>>
      /\ \A m \in Node :
            /\ call'[m].prev_call = call[m].prev_call /\ call'[m].outedges = call[m].outedges
            /\ call'[m].falsecount = call[m].falsecount /\ call'[m].direct = call[m].direct
            /\ m[1] \notin IncompleteGoals => call'[m].no_of_answers = call[m].no_of_answers
  BY AnswerCounted DEF histVars
<1>2. IncompleteGoals' = IncompleteGoals /\ Alike(call')
  BY <1>1 DEF IncompleteGoals, Range1, Alike
<1>3. aborts = 0 => Unlinked'
  BY <1>1 DEF SInv, Unlinked
<1> QED BY <1>1, <1>2, <1>3, NodesStay

\* The goals of the topmost SCC stay incomplete while they are completed one by one.
LEMMA SccCut ==
  ASSUME IInv, CompleteScc
  PROVE  /\ completing = <<>> /\ IncompleteGoals' = IncompleteGoals
         /\ UNCHANGED <<table, call, inedges, crashed, histVars>>
         /\ \E leader \in Nat :
               /\ \E top \in DOMAIN stack : leader = stack[top].leader /\ \A i \in DOMAIN stack : i <= top
               /\ \A i \in DOMAIN stack : /\ i < leader => i \in DOMAIN stack' /\ stack'[i] = stack[i]
                                          /\ leader <= i => stack[i].goal \in Range1(completing)'
               /\ \A i \in DOMAIN stack' : i \in DOMAIN stack /\ i < leader
               /\ \A g \in Range1(completing)' : \E i \in DOMAIN stack : leader <= i /\ g = stack[i].goal
<1> DEFINE top == Len(stack)
           leader == stack[top].leader
<1>1. /\ completing = <<>> /\ stack # <<>>
      /\ completing' = [i \in 1 .. top - leader + 1 |-> stack[leader + i - 1].goal]
      /\ stack' = SubSeq(stack, 1, leader - 1)
      /\ UNCHANGED <<table, call, inedges, crashed, histVars>>
  BY DEF CompleteScc, graphVars
<1>2. /\ stack \in Seq(Frames) /\ top \in Nat /\ top # 0 /\ DOMAIN stack = 1 .. top
      /\ \A i \in DOMAIN stack : stack[i].leader \in 1 .. i
  BY <1>1 DEF IInv, Evaluation, Stacks
<1>3. leader \in 1 .. top
  BY <1>2
<1> HIDE DEF top, leader
<1>4. /\ DOMAIN stack' = 1 .. leader - 1
      /\ \A i \in 1 .. leader - 1 : stack'[i] = stack[i] /\ i \in DOMAIN stack
  <2>1. leader - 1 \in Nat /\ leader - 1 <= top
    BY <1>2, <1>3
  <2>2. \A i \in 1 .. leader - 1 : i \in 1 .. top /\ stack[i] \in Frames
    BY <1>2, <1>3
  <2> QED BY <1>1, <1>2, <2>1, <2>2, SubSeqProperties DEF top
<1>5. \A i \in 1 .. top - leader + 1 : leader + i - 1 \in DOMAIN stack
  BY <1>2, <1>3
<1>6. /\ DOMAIN completing' = 1 .. top - leader + 1
      /\ \A i \in 1 .. top - leader + 1 : completing'[i] = stack[leader + i - 1].goal
  BY <1>1
<1>7. IncompleteGoals' = {stack'[i].goal : i \in DOMAIN stack'} \cup {completing'[i] : i \in DOMAIN completing'}
  BY DEF IncompleteGoals, Range1
<1>8. IncompleteGoals = {stack[i].goal : i \in DOMAIN stack}
  BY <1>1, OnStack DEF IInv
<1>9. IncompleteGoals' \subseteq IncompleteGoals
  BY <1>4, <1>5, <1>6, <1>7, <1>8
<1>10. ASSUME NEW i \in DOMAIN stack PROVE stack[i].goal \in IncompleteGoals'
  <2>1. CASE i < leader
    <3>1. i \in DOMAIN stack' /\ stack'[i] = stack[i]
      BY <1>2, <1>3, <1>4, <2>1
    <3> QED BY <1>7, <3>1
  <2>2. CASE ~(i < leader)
    <3>1. i - leader + 1 \in DOMAIN completing' /\ leader + (i - leader + 1) - 1 = i
      BY <1>2, <1>3, <1>6, <2>2
    <3>2. completing'[i - leader + 1] = stack[i].goal
      BY <1>6, <3>1
    <3> QED BY <1>7, <3>1, <3>2
  <2> QED BY <2>1, <2>2
<1>11. IncompleteGoals' = IncompleteGoals
  BY <1>8, <1>9, <1>10
<1>12. Range1(completing)' = {completing'[i] : i \in DOMAIN completing'}
  BY DEF Range1
<1>13. \A g \in Range1(completing)' : \E i \in DOMAIN stack : leader <= i /\ g = stack[i].goal
  <2> SUFFICES ASSUME NEW k \in 1 .. top - leader + 1
               PROVE  \E i \in DOMAIN stack : leader <= i /\ completing'[k] = stack[i].goal
    BY <1>6, <1>12
  <2>1. leader <= leader + k - 1
    BY <1>3
  <2> QED BY <1>5, <1>6, <2>1
<1>14. ASSUME NEW i \in DOMAIN stack, leader <= i PROVE stack[i].goal \in Range1(completing)'
  <2>1. i - leader + 1 \in DOMAIN completing' /\ leader + (i - leader + 1) - 1 = i
    BY <1>2, <1>3, <1>6, <1>14
  <2>2. completing'[i - leader + 1] = stack[i].goal
    BY <1>6, <2>1
  <2> QED BY <1>12, <2>1, <2>2
<1>15. \A i \in DOMAIN stack : i < leader => i \in DOMAIN stack' /\ stack'[i] = stack[i]
  BY <1>2, <1>3, <1>4
<1>16. \A i \in DOMAIN stack' : i \in DOMAIN stack /\ i < leader
  BY <1>3, <1>4
<1>17. leader \in Nat /\ top \in DOMAIN stack /\ leader = stack[top].leader /\ \A i \in DOMAIN stack : i <= top
  BY <1>2, <1>3 DEF leader
<1> QED BY <1>1, <1>11, <1>13, <1>14, <1>15, <1>16, <1>17

LEMMA CompleteSccKeeps == ASSUME IInv, SInv, CompleteScc PROVE SInv' /\ AnswersKept
<1>1. UNCHANGED <<table, call, inedges, crashed, aborts>> /\ IncompleteGoals' = IncompleteGoals
  BY SccCut DEF histVars
<1>2. Alike(call') /\ (aborts = 0 => Unlinked')
  BY <1>1 DEF Alike, SInv, Unlinked
<1> QED BY <1>1, <1>2, NodesStay

\* propagate_no_change changes the nodes of invalid tables only.
LEMMA Validated ==
  ASSUME Calls, NEW g
  PROVE  LET cl == propagate_no_change(g)
         IN  /\ cl \in [Node -> NodeRecord]
             /\ \A m \in Node :
                   /\ cl[m].prev_call = call[m].prev_call /\ cl[m].outedges = call[m].outedges
                   /\ cl[m].direct = call[m].direct /\ cl[m].no_of_answers = call[m].no_of_answers
                   /\ cl[m].changed = call[m].changed
                   /\ call[m].falsecount = 0 => cl[m] = call[m]
                   /\ m \in Cleared(g) => cl[m].falsecount = 0 /\ ~cl[m].deleted
                   /\ m \notin Cleared(g) /\ call[m].falsecount > 0 =>
                        /\ cl[m].falsecount = call[m].falsecount - Hits(g, Cleared(g), m)
                        /\ cl[m].deleted = call[m].deleted
<1> DEFINE cl == propagate_no_change(g)
           Z == Cleared(g)
<1>1. cl = [n \in Node |->
              IF n \in Z THEN [call[n] EXCEPT !.falsecount = 0, !.deleted = FALSE]
              ELSE IF call[n].falsecount > 0 THEN [call[n] EXCEPT !.falsecount = @ - Hits(g, Z, n)]
              ELSE call[n]]
  BY DEF propagate_no_change
<1>2. \A n \in Z : n \in Node /\ call[n].falsecount > 0
  BY DEF Cleared
<1> HIDE DEF cl, Z
<1>3. ASSUME NEW m \in Node
      PROVE  /\ cl[m].prev_call = call[m].prev_call /\ cl[m].outedges = call[m].outedges
             /\ cl[m].direct = call[m].direct /\ cl[m].no_of_answers = call[m].no_of_answers
             /\ cl[m].changed = call[m].changed
             /\ call[m].falsecount = 0 => cl[m] = call[m]
             /\ m \in Z => cl[m].falsecount = 0 /\ ~cl[m].deleted
             /\ m \notin Z /\ call[m].falsecount > 0 =>
                  /\ cl[m].falsecount = call[m].falsecount - Hits(g, Z, m)
                  /\ cl[m].deleted = call[m].deleted
  <2> DEFINE x == call[m].falsecount - Hits(g, Z, m)
             r == [call[m] EXCEPT !.falsecount = x]
             q == [call[m] EXCEPT !.falsecount = 0, !.deleted = FALSE]
  <2>1. call[m] \in NodeRecord
    BY DEF Calls
  <2>2. /\ r.prev_call = call[m].prev_call /\ r.outedges = call[m].outedges
        /\ r.direct = call[m].direct /\ r.no_of_answers = call[m].no_of_answers
        /\ r.falsecount = x /\ r.deleted = call[m].deleted /\ r.changed = call[m].changed
    <3> HIDE DEF x
    <3> QED BY <2>1 DEF NodeRecord
  <2>3. /\ q.prev_call = call[m].prev_call /\ q.outedges = call[m].outedges /\ q.falsecount = 0
        /\ q.direct = call[m].direct /\ q.no_of_answers = call[m].no_of_answers /\ ~q.deleted
        /\ q.changed = call[m].changed
    BY <2>1 DEF NodeRecord
  <2>4. \/ m \in Z /\ cl[m] = q
        \/ m \notin Z /\ call[m].falsecount > 0 /\ cl[m] = r
        \/ m \notin Z /\ ~(call[m].falsecount > 0) /\ cl[m] = call[m]
    BY <1>1
  <2>5. ~(0 > 0)
    OBVIOUS
  <2> HIDE DEF r, q
  <2> QED BY <1>2, <2>2, <2>3, <2>4, <2>5 DEF x
<1>4. cl \in [Node -> NodeRecord]
  BY NodesValidated DEF cl
<1> QED BY <1>3, <1>4 DEF cl, Z

\* What becomes of the nodes when the table of g is completed: n is its node, p the
\* previous one, and cl are the nodes after an unchanged table has validated others.
Completes(g, n, p, cl) ==
  /\ UNCHANGED <<db, table, stack, aborts, updates, cut, overlapped>>
  /\ completing # <<>> /\ g = Head(completing) /\ completing' = Tail(completing)
  /\ called' = [called EXCEPT ![g] = {}]
  /\ n = table[g] /\ n \in Node /\ n[1] = g
  /\ p = call[n].prev_call /\ (p # None => p \in Node /\ p[1] = g /\ p # n)
  /\ cl \in [Node -> NodeRecord]
  /\ cl = IF p # None /\ Unchanged(p) THEN propagate_no_change(g) ELSE call
  /\ \A m \in Node :
        /\ cl[m].prev_call = call[m].prev_call /\ cl[m].outedges = call[m].outedges
        /\ cl[m].direct = call[m].direct /\ cl[m].no_of_answers = call[m].no_of_answers
        /\ cl[m].changed = call[m].changed
        /\ call[m].falsecount = 0 => cl[m] = call[m]
  /\ crashed' <=> p # None /\ Unchanged(p) /\ \E m \in Cleared(g) : ~call[m].outedges
  /\ call'[n].prev_call = None /\ ~call'[n].direct /\ call'[n].outedges = call[n].outedges
  /\ call'[n].falsecount = cl[n].falsecount /\ call'[n].deleted = cl[n].deleted
  /\ call'[n].no_of_answers = call[n].no_of_answers /\ call'[n].changed = call[n].changed
  /\ p # None => call'[p] = Freed /\ inedges'[p] = {}
  /\ \A m \in Node \ {n, p} : call'[m] = cl[m]
  /\ \A m \in Node \ {p} : inedges'[m] = inedges[m]
  /\ g \in Range1(completing) /\ g \in IncompleteGoals
  /\ IncompleteGoals' \subseteq IncompleteGoals /\ \A h \in IncompleteGoals : h # g => h \in IncompleteGoals'
  /\ Range1(completing)' \subseteq Range1(completing)
  /\ \A h \in Range1(completing) : h # g => h \in Range1(completing)'

LEMMA TableCompleted ==
  ASSUME IInv, SInv, CompleteTable
  PROVE  \E g \in Goals : \E n, p, cl : Completes(g, n, p, cl)
<1> DEFINE g == Head(completing)
           n == table[g]
           p == call[n].prev_call
           unchanged == p # None /\ Unchanged(p)
           cl == IF unchanged THEN propagate_no_change(g) ELSE call
           done == [cl EXCEPT ![n].direct = FALSE, ![n].prev_call = None]
           r == [cl[n] EXCEPT !.direct = FALSE, !.prev_call = None]
<1>1. /\ completing # <<>> /\ completing' = Tail(completing) /\ called' = [called EXCEPT ![g] = {}]
      /\ crashed' = (unchanged /\ \E m \in Cleared(g) : ~call[m].outedges)
      /\ call' = (IF p = None THEN done ELSE [done EXCEPT ![p] = Freed])
      /\ inedges' = (IF p = None THEN inedges ELSE [inedges EXCEPT ![p] = {}])
      /\ UNCHANGED <<db, table, stack, aborts, updates, cut, overlapped>>
  BY DEF CompleteTable, histVars
<1>2. /\ Tables /\ Previous /\ NotDirect /\ (aborts = 0 => Unlinked)
      /\ table \in [Goals -> Node \cup {None}] /\ IncompleteGoals \subseteq Goals
      /\ (\A h \in IncompleteGoals : table[h] # None)
      /\ Calls /\ inedges \in [Node -> SUBSET Source]
  BY IncompleteAreGoals DEF IInv, SInv, Evaluation, Stacks, Graph
<1>3. /\ g = completing[1] /\ 1 \in DOMAIN completing
      /\ \A i \in DOMAIN Tail(completing) : i + 1 \in DOMAIN completing /\ Tail(completing)[i] = completing[i + 1]
      /\ \A j \in DOMAIN completing : j # 1 => j - 1 \in DOMAIN Tail(completing) /\ Tail(completing)[j - 1] = completing[j]
  <2> HIDE DEF p, unchanged, cl, n, done, r
  <2>1. completing \in Seq(Goals) /\ completing # <<>>
    BY <1>1 DEF IInv, Evaluation
  <2>2. /\ Tail(completing) \in Seq(Goals) /\ Len(Tail(completing)) = Len(completing) - 1
        /\ \A i \in 1 .. Len(Tail(completing)) : Tail(completing)[i] = completing[i + 1]
    BY <2>1, HeadTailProperties
  <2>3. Len(completing) \in Nat /\ Len(completing) > 0 /\ Head(completing) = completing[1]
    BY <2>1
  <2>4. DOMAIN completing = 1 .. Len(completing) /\ DOMAIN Tail(completing) = 1 .. Len(Tail(completing))
    BY <2>1, <2>2
  <2>5. \A j \in 1 .. Len(completing) : j # 1 => j - 1 \in 1 .. Len(Tail(completing)) /\ (j - 1) + 1 = j
    BY <2>2, <2>3
  <2> QED BY <2>2, <2>3, <2>4, <2>5
<1>4. /\ IncompleteGoals' \subseteq IncompleteGoals /\ g \in IncompleteGoals
      /\ \A h \in IncompleteGoals : h # g => h \in IncompleteGoals'
      /\ g \in Range1(completing) /\ Range1(completing)' \subseteq Range1(completing)
      /\ \A h \in Range1(completing) : h # g => h \in Range1(completing)'
  <2> HIDE DEF p, unchanged, cl, n, done, r, g
  <2>1. IncompleteGoals = {stack[i].goal : i \in DOMAIN stack} \cup {completing[i] : i \in DOMAIN completing}
    BY DEF IncompleteGoals, Range1
  <2>2. IncompleteGoals' = {stack[i].goal : i \in DOMAIN stack} \cup {Tail(completing)[i] : i \in DOMAIN Tail(completing)}
    BY <1>1 DEF IncompleteGoals, Range1
  <2>3. /\ Range1(completing) = {completing[i] : i \in DOMAIN completing}
        /\ Range1(completing)' = {Tail(completing)[i] : i \in DOMAIN Tail(completing)}
    BY <1>1 DEF Range1
  <2>4. g \in Range1(completing) /\ Range1(completing)' \subseteq Range1(completing)
    BY <1>3, <2>3
  <2>5. \A h \in Range1(completing) : h # g => h \in Range1(completing)'
    BY <1>3, <2>3
  <2>6. g \in IncompleteGoals /\ IncompleteGoals' \subseteq IncompleteGoals
    BY <1>3, <2>1, <2>2
  <2>7. ASSUME NEW h \in IncompleteGoals, h # g PROVE h \in IncompleteGoals'
    <3>1. CASE \E i \in DOMAIN stack : h = stack[i].goal
      BY <2>2, <3>1
    <3>2. CASE h \in Range1(completing)
      BY <2>2, <2>3, <2>5, <2>7, <3>2
    <3> QED BY <2>1, <2>3, <2>7, <3>1, <3>2
  <2> QED BY <2>4, <2>5, <2>6, <2>7
<1>5. n \in Node /\ n[1] = g /\ n # None /\ g \in Goals
  BY <1>2, <1>4 DEF Tables
<1>6. p # None => p \in Node /\ p[1] = g /\ p # n
  <2>1. call[n] \in NodeRecord
    BY <1>2, <1>5 DEF Calls
  <2>2. p \in Node \cup {None}
    BY <2>1, NodeSet
  <2> QED BY <1>2, <1>5, <2>2 DEF Previous
<1>7. /\ cl \in [Node -> NodeRecord]
      /\ \A m \in Node :
            /\ cl[m].prev_call = call[m].prev_call /\ cl[m].outedges = call[m].outedges
            /\ cl[m].direct = call[m].direct /\ cl[m].no_of_answers = call[m].no_of_answers
            /\ cl[m].changed = call[m].changed
            /\ call[m].falsecount = 0 => cl[m] = call[m]
  <2> HIDE DEF n, p, g, unchanged, done, r
  <2>1. CASE unchanged
    BY <1>2, <2>1, Validated
  <2>2. CASE ~unchanged
    BY <1>2, <2>2 DEF Calls
  <2> QED BY <2>1, <2>2
<1>8. /\ r.prev_call = None /\ ~r.direct /\ r.outedges = call[n].outedges
      /\ r.falsecount = cl[n].falsecount /\ r.deleted = cl[n].deleted
      /\ r.no_of_answers = call[n].no_of_answers /\ r.changed = call[n].changed
  <2> HIDE DEF n, p, g, unchanged, done, cl
  <2>1. cl[n] \in NodeRecord
    BY <1>5, <1>7
  <2>2. /\ r.prev_call = None /\ ~r.direct /\ r.outedges = cl[n].outedges
        /\ r.falsecount = cl[n].falsecount /\ r.deleted = cl[n].deleted
        /\ r.no_of_answers = cl[n].no_of_answers /\ r.changed = cl[n].changed
    BY <2>1 DEF NodeRecord
  <2> HIDE DEF r
  <2> QED BY <1>5, <1>7, <2>2
<1> HIDE DEF p, unchanged, cl, n, g
<1>9. DOMAIN done = Node /\ done[n] = r /\ \A m \in Node \ {n} : done[m] = cl[m]
  BY <1>5, <1>7
<1> HIDE DEF done, r
<1>10. /\ call'[n] = r /\ (p # None => call'[p] = Freed /\ inedges'[p] = {})
       /\ \A m \in Node \ {n, p} : call'[m] = cl[m]
       /\ \A m \in Node \ {p} : inedges'[m] = inedges[m]
  <2>1. CASE p = None
    BY <1>1, <1>5, <1>9, <2>1
  <2>2. CASE p # None
    BY <1>1, <1>2, <1>5, <1>6, <1>9, <2>2
  <2> QED BY <2>1, <2>2
<1>11. cl = IF p # None /\ Unchanged(p) THEN propagate_no_change(g) ELSE call
  BY DEF cl, unchanged
<1>12. crashed' <=> p # None /\ Unchanged(p) /\ \E m \in Cleared(g) : ~call[m].outedges
  BY <1>1 DEF unchanged
<1>13. Completes(g, n, p, cl)
  <2>1. n = table[g] /\ p = call[n].prev_call /\ g = Head(completing)
    BY DEF n, p, g
  <2> QED BY <1>1, <1>4, <1>5, <1>6, <1>7, <1>8, <1>10, <1>11, <1>12, <2>1 DEF Completes
<1> QED BY <1>5, <1>13

\* The previous node is in no hash table when it is freed; the tables an unchanged
\* one validates are invalid, so that their hash tables are there.
LEMMA CompleteTableKeeps == ASSUME IInv, SInv, CompleteTable PROVE SInv' /\ AnswersKept
<1>01. PICK g \in Goals : \E n, p, cl : Completes(g, n, p, cl)
  BY TableCompleted
<1>02. PICK n, p, cl : Completes(g, n, p, cl)
  BY <1>01
<1>1. /\ UNCHANGED <<table, stack, aborts>>
      /\ n = table[g] /\ n \in Node /\ n[1] = g
      /\ (p # None => p \in Node /\ p[1] = g /\ p # n)
      /\ \A m \in Node :
            /\ cl[m].prev_call = call[m].prev_call /\ cl[m].outedges = call[m].outedges
            /\ cl[m].direct = call[m].direct /\ cl[m].no_of_answers = call[m].no_of_answers
            /\ call[m].falsecount = 0 => cl[m] = call[m]
      /\ crashed' => \E m \in Cleared(g) : ~call[m].outedges
      /\ call'[n].prev_call = None /\ ~call'[n].direct /\ call'[n].outedges = call[n].outedges
      /\ call'[n].falsecount = cl[n].falsecount /\ call'[n].no_of_answers = call[n].no_of_answers
      /\ p # None => call'[p] = Freed /\ inedges'[p] = {}
      /\ \A m \in Node \ {n, p} : call'[m] = cl[m]
      /\ \A m \in Node \ {p} : inedges'[m] = inedges[m]
      /\ IncompleteGoals' \subseteq IncompleteGoals
      /\ \A h \in IncompleteGoals : h # g => h \in IncompleteGoals'
  BY <1>02 DEF Completes
<1>2. /\ Tables /\ Previous /\ NotDirect /\ (aborts = 0 => Unlinked)
      /\ table \in [Goals -> Node \cup {None}] /\ IncompleteGoals \subseteq Goals
      /\ (\A h \in IncompleteGoals : table[h] # None)
  BY IncompleteAreGoals DEF IInv, SInv, Evaluation, Stacks
<1>3. ASSUME NEW h \in Goals, table[h] # None
       PROVE  /\ table'[h] = table[h] /\ table[h] \in Node /\ table[h][1] = h /\ table[h] # p
              /\ (h # g => table[h] # n) /\ call'[table[h]].outedges
              /\ call'[table[h]].no_of_answers = call[table[h]].no_of_answers
              /\ (h # g => call'[table[h]].direct = call[table[h]].direct)
  <2>1. table[h] \in Node /\ table[h][1] = h /\ call[table[h]].outedges
    BY <1>2, <1>3 DEF Tables
  <2>2. table[h] # p
    BY <1>1, <2>1, FiniteGraph
  <2>3. h # g => table[h] # n
    BY <1>1, <2>1
  <2>4. CASE table[h] = n
    BY <1>1, <2>1, <2>2, <2>3, <2>4
  <2>5. CASE table[h] # n
    <3>1. call'[table[h]] = cl[table[h]]
      BY <1>1, <2>1, <2>2, <2>5
    <3> QED BY <1>1, <2>1, <2>2, <2>3, <3>1
  <2> QED BY <2>4, <2>5
<1>4. Tables'
  BY <1>1, <1>3 DEF Tables
<1>5. Previous'
  <2> SUFFICES ASSUME NEW m \in Node, call'[m].prev_call # None
               PROVE  /\ m[1] \in IncompleteGoals' /\ m = table'[m[1]]
                      /\ call'[m].prev_call[1] = m[1] /\ call'[m].prev_call # m
    BY DEF Previous
  <2>1. m # n
    BY <1>1
  <2>2. m # p
    BY <1>1, NewFields, FiniteGraph
  <2>3. call'[m].prev_call = call[m].prev_call
    BY <1>1, <2>1, <2>2
  <2>4. m[1] \in IncompleteGoals /\ m = table[m[1]] /\ call[m].prev_call[1] = m[1] /\ call[m].prev_call # m
    BY <1>2, <2>3 DEF Previous
  <2>5. m[1] # g
    BY <1>1, <2>1, <2>4
  <2>6. m[1] \in IncompleteGoals' /\ table'[m[1]] = table[m[1]]
    BY <1>1, <2>4, <2>5
  <2> QED BY <2>3, <2>4, <2>6
<1>6. NotDirect'
  <2> SUFFICES ASSUME NEW h \in IncompleteGoals' PROVE ~call'[table'[h]].direct
    BY DEF NotDirect
  <2>1. h \in IncompleteGoals /\ h \in Goals /\ table[h] # None /\ ~call[table[h]].direct
    BY <1>2, <1>1 DEF NotDirect
  <2>2. CASE h = g
    BY <1>1, <2>2
  <2>3. CASE h # g
    BY <1>3, <2>1, <2>3
  <2> QED BY <2>2, <2>3
<1>7. aborts = 0 => Unlinked'
  <2> SUFFICES ASSUME aborts = 0, NEW m \in Node, ~call'[m].outedges
               PROVE  call'[m].falsecount = 0 /\ inedges'[m] = {}
    BY DEF Unlinked
  <2>1. CASE m = p
    BY <1>1, <2>1, NewFields, FiniteGraph
  <2>2. CASE m = n
    BY <1>2, <1>1, <2>2, FiniteGraph DEF Tables
  <2>3. CASE m # p /\ m # n
    <3>1. call'[m] = cl[m] /\ inedges'[m] = inedges[m] /\ ~call[m].outedges
      BY <1>1, <2>3
    <3> QED BY <1>2, <1>1, <3>1 DEF Unlinked
  <2> QED BY <2>1, <2>2, <2>3
<1>8. aborts = 0 => ~crashed'
  <2>1. \A m \in Cleared(g) : m \in Node /\ call[m].falsecount > 0
    BY DEF Cleared
  <2>2. ~(0 > 0)
    OBVIOUS
  <2>3. aborts = 0 => \A m \in Cleared(g) : call[m].outedges
    BY <1>2, <2>1, <2>2 DEF Unlinked
  <2> QED BY <1>1, <2>3
<1>9. AnswersKept
  <2> SUFFICES ASSUME NEW h \in Goals, IsCompleted(h) PROVE HasAnswer(h)' = HasAnswer(h)
    BY DEF AnswersKept
  <2>1. table[h] # None
    BY DEF IsCompleted
  <2>2. table'[h] = table[h] /\ call'[table[h]].no_of_answers = call[table[h]].no_of_answers
    BY <1>3, <2>1
  <2> QED BY <2>2 DEF HasAnswer
<1> QED BY <1>1, <1>4, <1>5, <1>6, <1>7, <1>8, <1>9 DEF SInv

\* At first all nodes are free.
LEMMA InitUnlinked == Init => SInv
<1> SUFFICES ASSUME Init PROVE SInv
  OBVIOUS
<1>1. /\ \A g \in Goals : table[g] = None
      /\ \A n \in Node : call[n] = Freed /\ inedges[n] = {}
      /\ ~crashed
  BY DEF Init
<1>2. IncompleteGoals = {}
  BY DEF Init, IncompleteGoals, Range1
<1>3. Tables /\ NotDirect
  BY <1>1, <1>2 DEF Tables, NotDirect
<1>4. Previous /\ Unlinked
  BY <1>1, NewFields DEF Previous, Unlinked
<1> QED BY <1>1, <1>3, <1>4 DEF SInv

\* Every step keeps the nodes linked and the answers of completed tables.
LEMMA StepKeeps == ASSUME IInv, SInv, [Next]_vars PROVE SInv' /\ AnswersKept
<1>1. ASSUME NEW g \in Goals, NewAnswer(g) PROVE SInv' /\ AnswersKept
  BY <1>1, NewAnswerKeeps
<1>2. ASSUME NEW g \in Goals, CallFact(g) PROVE SInv' /\ AnswersKept
  BY <1>2, CallFactKeeps
<1>3. ASSUME NEW g \in Goals, CallGoal(g) PROVE SInv' /\ AnswersKept
  BY <1>3, CallGoalKeeps
<1>4. ASSUME NEW c \in Caller, RunHandler(c) PROVE SInv' /\ AnswersKept
  BY <1>4, HandlerKeeps
<1>5. CASE CallQuery
  BY <1>5, CallQueryKeeps
<1>6. CASE CompleteScc
  BY <1>6, CompleteSccKeeps
<1>7. CASE CompleteTable
  BY <1>7, CompleteTableKeeps
<1>8. CASE Abort
  BY <1>8, Aborts, UnwindKeeps DEF Abort
<1>9. ASSUME UNCHANGED <<graphVars, stack, completing, crashed, aborts>> PROVE SInv' /\ AnswersKept
  <2>1. UNCHANGED <<table, call, inedges, stack, completing, crashed, aborts>>
    BY <1>9 DEF graphVars
  <2>2. IncompleteGoals' = IncompleteGoals /\ Alike(call') /\ (aborts = 0 => Unlinked')
    BY <2>1 DEF IncompleteGoals, Range1, Alike, SInv, Unlinked
  <2> QED BY <2>1, <2>2, NodesStay
<1>10. ASSUME NEW d \in Goals, Query(d) PROVE SInv' /\ AnswersKept
  BY <1>9, <1>10 DEF Query, histVars
<1>11. ASSUME NEW d \in Goals, incr_invalidate_call(d) PROVE SInv' /\ AnswersKept
  <2>1. PICK o \in invalidate_call(d) : call' = o.call
    BY <1>11 DEF incr_invalidate_call
  <2>2. d \in Source /\ table[d] # None /\ UNCHANGED <<table, crashed, aborts, inedges, stack, completing>>
    BY <1>11 DEF incr_invalidate_call, Source, evalVars
  <2> QED BY <2>1, <2>2, InvalidationKeeps
<1>12. ASSUME NEW d \in Goals, abolish_table_call(d) PROVE SInv' /\ AnswersKept
  BY <1>12, AbolishKeeps
<1>13. ASSUME NEW f \in Facts, incr_assert(f) \/ incr_retract(f) \/ incr_retractall(f) PROVE SInv' /\ AnswersKept
  <2>1. PICK d, ch : UpdateFact(f, d, ch)
    BY <1>13 DEF incr_assert, incr_retract, incr_retractall
  <2>2. PICK o \in invalidate_call(f) : call' = o.call
    BY <2>1 DEF UpdateFact
  <2>3. f \in Source /\ f \notin Goals /\ UNCHANGED <<table, crashed, aborts, inedges, stack, completing>>
    BY <2>1, CallGraphAssumption DEF UpdateFact, Source, evalVars
  <2> QED BY <2>2, <2>3, InvalidationKeeps
<1>14. ASSUME NEW f \in Facts, RetryRetract(f) PROVE SInv' /\ AnswersKept
  BY <1>9, <1>14 DEF RetryRetract, evalVars
<1>15. CASE UNCHANGED vars
  BY <1>9, <1>15 DEF vars, evalVars, histVars
<1> QED BY <1>1, <1>2, <1>3, <1>4, <1>5, <1>6, <1>7, <1>8, <1>10, <1>11, <1>12, <1>13, <1>14, <1>15
        DEF Next, Evaluate

-----------------------------------------------------------------------------
\* Until an exception has unwound the completion stack, no hash table is traversed
\* after it was freed, however tables are invalidated, evaluated again and abolished
\* (deallocate_previous_call, deleteoutedges, propagate_no_change).
THEOREM TraversalsSafe == Spec => [](aborts = 0 => NoDanglingTraversal)
<1>1. IInv /\ SInv /\ [Next]_vars => (IInv /\ SInv)'
  BY StepInv, StepKeeps
<1>2. Init => IInv /\ SInv
  BY InitInv, InitUnlinked
<1>3. IInv /\ SInv => (aborts = 0 => NoDanglingTraversal)
  BY DEF SInv, NoDanglingTraversal
<1> QED BY <1>1, <1>2, <1>3, PTL DEF Spec

\* The answers of a completed table change only by its own re-evaluation or abolition,
\* whatever is evaluated, invalidated, validated, abolished or aborted beside it
\* (old_call_gl, deallocate_previous_call, remove_incomplete_tries).
THEOREM CompletedAnswersKept == Spec => [][AnswersKept]_vars
<1>1. IInv /\ SInv /\ [Next]_vars => (IInv /\ SInv)' /\ [AnswersKept]_vars
  BY StepInv, StepKeeps
<1>2. Init => IInv /\ SInv
  BY InitInv, InitUnlinked
<1> QED BY <1>1, <1>2, PTL DEF Spec

-----------------------------------------------------------------------------
(* Edges and counts: what holds whatever happens. *)

\* A node in a hash table is that of a table or its previous node, unless it is freed.
NodeLinks ==
  \A n \in Node : inedges[n] # {} /\ call[n].outedges =>
      /\ table[n[1]] # None
      /\ n = table[n[1]] \/ n = call[table[n[1]]].prev_call

\* The frames of an SCC lie next to each other, and follow those it depends on.
Blocks ==
  \A i, j \in DOMAIN stack : i <= j =>
      /\ stack[i].leader <= stack[j].leader
      /\ stack[j].leader <= i => stack[j].leader <= stack[i].leader

\* What an update adds to falsecount at most: one for each edge and one at the root.
PerUpdate == Cardinality(Source) + 1

Bounded == updates <= MaxUpdates /\ \A n \in Node : call[n].falsecount <= updates * PerUpdate

LInv == NodeLinks /\ Blocks /\ Bounded

\* As many updates as the bit field can count: falsecount never wraps to zero.
NoWrap == MaxUpdates * PerUpdate < FalseMod

LEMMA PerUpdateNat == PerUpdate \in Nat
BY FiniteGraph, FS_CardinalityType DEF PerUpdate

LEMMA Counts ==
  ASSUME IInv
  PROVE  /\ updates \in Nat /\ FalseMod \in Nat \ {0} /\ MaxUpdates \in Nat
         /\ \A n \in Node : call[n] \in NodeRecord /\ call[n].falsecount \in Nat /\ call[n].falsecount < FalseMod
<1>1. updates \in Nat
  BY DEF IInv, Program
<1>2. FalseMod \in Nat \ {0} /\ MaxUpdates \in Nat
  BY CallGraphAssumption
<1>3. \A n \in Node : call[n] \in NodeRecord
  BY DEF IInv, Calls
<1>4. \A n \in Node : call[n].falsecount \in 0 .. FalseMod - 1
  BY <1>3 DEF NodeRecord
<1> QED BY <1>1, <1>2, <1>3, <1>4

\* Edges E into n, by where they come from.
LEMMA EdgesInto ==
  ASSUME NEW E \in SUBSET (Source \X Node), NEW n \in Node
  PROVE  LET S == {s \in Source : <<s, n>> \in E}
         IN  /\ Cardinality({e \in E : e[2] = n}) = Cardinality(S) /\ IsFiniteSet(S)
             /\ Cardinality(S) \in Nat /\ Cardinality(S) + 1 <= PerUpdate
<1> DEFINE S == {s \in Source : <<s, n>> \in E}
<1>1. {e \in E : e[2] = n} = S \X {n}
  <2>1. \A e \in E : e = <<e[1], e[2]>> /\ e[1] \in Source
    OBVIOUS
  <2> QED BY <2>1
<1>2. IsFiniteSet(S) /\ Cardinality(S) <= Cardinality(Source) /\ Cardinality(Source) \in Nat
  BY FiniteGraph, FS_Subset, FS_CardinalityType
<1>3. IsFiniteSet({n}) /\ Cardinality({n}) = 1
  BY FS_Singleton
<1> HIDE DEF S
<1>4. Cardinality(S \X {n}) = Cardinality(S) * 1
  BY <1>2, <1>3, FS_Product
<1>5. Cardinality(S) \in Nat
  BY <1>2, FS_CardinalityType
<1>6. Cardinality(S) * 1 = Cardinality(S)
  BY <1>5
<1>7. Cardinality(S) + 1 <= PerUpdate
  BY <1>2, <1>5 DEF PerUpdate
<1> QED BY <1>1, <1>2, <1>4, <1>5, <1>6, <1>7 DEF S

\* An invalidation adds to a count at most that much.
LEMMA CountsGrow ==
  ASSUME IInv, NEW s \in Source, NEW o \in invalidate_call(s), NEW n \in Node
  PROVE  o.call[n].falsecount \in Nat /\ o.call[n].falsecount <= call[n].falsecount + PerUpdate
<1> DEFINE root == IF s \in Goals THEN table[s] ELSE None
           c == call[n].falsecount
<1>1. call[n] \in NodeRecord /\ c \in Nat /\ FalseMod \in Nat \ {0} /\ PerUpdate \in Nat
  BY Counts, PerUpdateNat
<1>2. ASSUME NEW k \in Nat PROVE (c + k) % FalseMod \in Nat /\ (c + k) % FalseMod <= c + k
  <2> DEFINE x == c + k
  <2>1. x \in Nat
    BY <1>1
  <2> HIDE DEF x
  <2>2. x % FalseMod \in Nat /\ x % FalseMod <= x
    BY <1>1, <2>1
  <2> QED BY <2>2 DEF x
<1>3. \A x : [call[n] EXCEPT !.falsecount = x].falsecount = x
  BY <1>1 DEF NodeRecord
<1>4. \A x, b : [call[n] EXCEPT !.falsecount = x, !.deleted = b].falsecount = x
  BY <1>1 DEF NodeRecord
<1>5. Calls
  BY DEF IInv
<1>6. 1 <= PerUpdate
  <2>1. Cardinality(Source) \in Nat
    BY FiniteGraph, FS_CardinalityType
  <2> QED BY <2>1 DEF PerUpdate
<1>7. CASE o = [call |-> call, thrown |-> FALSE]
  BY <1>1, <1>7
<1>8. CASE root # None /\ o = [call |-> [call EXCEPT ![root].falsecount = (@ + 1) % FalseMod], thrown |-> TRUE]
  <2> DEFINE x == (call[root].falsecount + 1) % FalseMod
  <2>1. o.call = [call EXCEPT ![root] = [call[root] EXCEPT !.falsecount = x]]
    BY <1>8
  <2> HIDE DEF root
  <2>2. CASE n = root
    <3>1. o.call[n] = [call[n] EXCEPT !.falsecount = (c + 1) % FalseMod]
      BY <1>5, <2>1, <2>2 DEF Calls
    <3>2. o.call[n].falsecount = (c + 1) % FalseMod
      BY <1>3, <3>1
    <3> HIDE DEF c
    <3>3. (c + 1) % FalseMod \in Nat /\ (c + 1) % FalseMod <= c + 1
      BY <1>2
    <3> DEFINE y == (c + 1) % FalseMod
    <3> HIDE DEF y
    <3>4. y \in Nat /\ y <= c + PerUpdate
      BY <1>1, <1>6, <3>3 DEF y
    <3> QED BY <3>2, <3>4 DEF c, y
  <2>3. CASE n # root
    <3>1. o.call[n] = call[n]
      BY <1>5, <2>1, <2>3 DEF Calls
    <3> QED BY <1>1, <3>1
  <2> QED BY <2>2, <2>3
<1>9. CASE \E E \in SUBSET Edges, V \in SUBSET Node, t \in BOOLEAN :
             o = [call |-> dfs_outedges(root, V, E), thrown |-> t]
  <2>1. PICK E \in SUBSET Edges, V \in SUBSET Node, t \in BOOLEAN :
               o = [call |-> dfs_outedges(root, V, E), thrown |-> t]
    BY <1>9
  <2> DEFINE h == Cardinality({e \in E : e[2] = n})
             k == h + (IF n = root THEN 1 ELSE 0)
             b == call[n].deleted \/ n = root \/ n \in V
  <2>2. o.call[n] = IF k = 0 THEN call[n]
                    ELSE [call[n] EXCEPT !.falsecount = (c + k) % FalseMod, !.deleted = b]
    BY <2>1 DEF dfs_outedges
  <2>3. h \in Nat /\ h + 1 <= PerUpdate
    <3>1. E \in SUBSET (Source \X Node)
      BY DEF Edges
    <3> HIDE DEF h
    <3> QED BY <3>1, EdgesInto DEF h
  <2> HIDE DEF h, root, b
  <2>4. k \in Nat /\ k <= PerUpdate
    BY <1>1, <2>3
  <2> HIDE DEF k
  <2>5. CASE k = 0
    BY <1>1, <2>2, <2>5
  <2>6. CASE k # 0
    <3>1. o.call[n].falsecount = (c + k) % FalseMod
      BY <1>4, <2>2, <2>6
    <3> DEFINE y == (c + k) % FalseMod
    <3>2. y \in Nat /\ y <= c + k
      BY <1>2, <2>4
    <3> HIDE DEF y, c
    <3>3. y <= c + PerUpdate
      BY <1>1, <2>4, <3>2
    <3> QED BY <3>1, <3>2, <3>3 DEF y, c
  <2> QED BY <2>5, <2>6
<1> QED BY <1>7, <1>8, <1>9, Invalidations

\* Counts stay bounded when they do not grow but by an update.
LEMMA BoundKept ==
  ASSUME IInv, Bounded, updates' \in Nat, updates' <= MaxUpdates, updates <= updates',
         \A n \in Node : \/ call'[n].falsecount \in Nat /\ call'[n].falsecount <= call[n].falsecount
                         \/ call'[n].falsecount = 0
                         \/ /\ updates' = updates + 1 /\ call'[n].falsecount \in Nat
                            /\ call'[n].falsecount <= call[n].falsecount + PerUpdate
  PROVE  Bounded'
<1>1. PerUpdate \in Nat /\ PerUpdate' = PerUpdate /\ updates \in Nat
  BY PerUpdateNat, Counts DEF PerUpdate, Source
<1>2. updates * PerUpdate \in Nat /\ updates' * PerUpdate \in Nat /\ updates * PerUpdate <= updates' * PerUpdate
      /\ (updates + 1) * PerUpdate = updates * PerUpdate + PerUpdate
  BY <1>1, Multiples
<1>3. updates' = updates + 1 => updates' * PerUpdate = updates * PerUpdate + PerUpdate
  BY <1>2
<1> DEFINE a == updates * PerUpdate
           b == updates' * PerUpdate
<1> HIDE DEF a, b
<1>4. a \in Nat /\ b \in Nat /\ a <= b /\ (updates' = updates + 1 => b = a + PerUpdate)
  BY <1>2, <1>3 DEF a, b
<1>5. \A n \in Node : call[n].falsecount <= a /\ call[n].falsecount \in Nat
  BY Counts DEF Bounded, a
<1>6. ASSUME NEW n \in Node PROVE call'[n].falsecount <= b
  <2>1. call[n].falsecount <= a /\ call[n].falsecount \in Nat
    BY <1>5
  <2> QED BY <1>1, <1>4, <2>1
<1> QED BY <1>1, <1>6 DEF Bounded, b

\* Steps that move no table.
LEMMA LinksKept ==
  ASSUME IInv, NodeLinks, UNCHANGED table,
         \A n \in Node : call'[n].prev_call = call[n].prev_call /\ call'[n].outedges = call[n].outedges,
         \A n \in Node : inedges'[n] # {} => inedges[n] # {} \/ n = table[n[1]]
  PROVE  NodeLinks'
<1> SUFFICES ASSUME NEW n \in Node, inedges'[n] # {}, call'[n].outedges
             PROVE  /\ table'[n[1]] # None
                    /\ n = table'[n[1]] \/ n = call'[table'[n[1]]].prev_call
  BY DEF NodeLinks
<1>1. n # None
  BY FiniteGraph
<1>2. CASE n = table[n[1]]
  BY <1>1, <1>2
<1>3. CASE n # table[n[1]]
  <2>1. table[n[1]] # None /\ n = call[table[n[1]]].prev_call
    BY <1>3 DEF NodeLinks
  <2>2. n[1] \in Goals /\ table \in [Goals -> Node \cup {None}]
    BY DEF IInv, Evaluation, Node
  <2>3. table[n[1]] \in Node
    BY <2>1, <2>2
  <2> QED BY <2>1, <2>3
<1> QED BY <1>2, <1>3

\* A new frame is an SCC of its own.
LEMMA BlocksPushed ==
  ASSUME IInv, Blocks, NEW d \in Goals, stack' = Push(d)
  PROVE  Blocks'
<1> DEFINE f == [goal |-> d, leader |-> Len(stack) + 1]
           k == Len(stack) + 1
<1>1. /\ stack \in Seq(Frames) /\ Len(stack) \in Nat /\ DOMAIN stack = 1 .. Len(stack)
      /\ \A i \in DOMAIN stack : stack[i].leader \in 1 .. i
  BY DEF IInv, Evaluation, Stacks
<1>2. f \in Frames /\ f.leader = k
  BY <1>1 DEF Frames
<1>3. stack' = Append(stack, f)
  BY DEF Push
<1> HIDE DEF f
<1>4. /\ DOMAIN stack' = 1 .. Len(stack) + 1
      /\ stack'[k] = f /\ \A i \in 1 .. Len(stack) : stack'[i] = stack[i]
  BY <1>1, <1>2, <1>3, AppendProperties
<1>5. \A i \in DOMAIN stack' : \/ i = k /\ stack'[i].leader = k
                               \/ i \in DOMAIN stack /\ i < k /\ stack'[i].leader = stack[i].leader /\ stack[i].leader \in 1 .. i
  BY <1>1, <1>2, <1>4
<1>6. ASSUME NEW i \in DOMAIN stack', NEW j \in DOMAIN stack', i <= j
      PROVE  /\ stack'[i].leader <= stack'[j].leader
             /\ stack'[j].leader <= i => stack'[j].leader <= stack'[i].leader
  <2>1. k \in Nat
    BY <1>1
  <2> HIDE DEF k
  <2>2. CASE j = k
    <3>1. stack'[j].leader = k
      BY <1>5, <2>1, <2>2
    <3>2. i \in Nat /\ ((i = k /\ stack'[i].leader = k) \/ (i < k /\ stack'[i].leader \in 1 .. i))
      BY <1>1, <1>5, <2>1
    <3> QED BY <1>6, <2>1, <3>1, <3>2
  <2>3. CASE j # k
    <3>1. j \in DOMAIN stack /\ j < k /\ stack'[j].leader = stack[j].leader
      BY <1>5, <2>3
    <3>2. i \in DOMAIN stack /\ stack'[i].leader = stack[i].leader
      BY <1>1, <1>5, <1>6, <2>1, <3>1
    <3> QED BY <1>6, <3>1, <3>2 DEF Blocks
  <2> QED BY <2>2, <2>3
<1> QED BY <1>6 DEF Blocks

\* Merging levels: the frames from a leader upwards get that leader.
LEMMA BlocksMerged ==
  ASSUME IInv, Blocks, completing = <<>>, NEW d \in IncompleteGoals, stack' = MergeLevels(d)
  PROVE  /\ Blocks' /\ DOMAIN stack' = DOMAIN stack
         /\ \A i \in DOMAIN stack : stack'[i].goal = stack[i].goal /\ stack'[i].leader <= stack[i].leader
                                   /\ stack'[i].leader \in Nat
         /\ \E at \in DOMAIN stack : stack[at].goal = d /\ \A i \in DOMAIN stack : stack'[i].leader <= at
<1> DEFINE at == CHOOSE i \in DOMAIN stack : stack[i].goal = d
           l == stack[at].leader
<1>1. /\ stack \in Seq(Frames) /\ DOMAIN stack = 1 .. Len(stack) /\ Len(stack) \in Nat
      /\ \A i \in DOMAIN stack : stack[i] \in Frames /\ stack[i].leader \in 1 .. i
  BY DEF IInv, Evaluation, Stacks
<1>2. at \in DOMAIN stack /\ stack[at].goal = d
  <2>1. \E i \in DOMAIN stack : stack[i].goal = d
    BY OnStack DEF IInv
  <2> QED BY <2>1
<1>3. stack' = [i \in DOMAIN stack |-> IF i < l THEN stack[i] ELSE [stack[i] EXCEPT !.leader = l]]
  BY DEF MergeLevels
<1> HIDE DEF at
<1>4. l \in 1 .. at /\ at \in Nat /\ l \in Nat
  BY <1>1, <1>2
<1> HIDE DEF l
<1>5. \A r \in Frames : [r EXCEPT !.leader = l].goal = r.goal /\ [r EXCEPT !.leader = l].leader = l
  BY DEF Frames
<1>6. ASSUME NEW i \in DOMAIN stack
      PROVE  /\ stack'[i].goal = stack[i].goal
             /\ (i < l /\ stack'[i].leader = stack[i].leader) \/ (l <= i /\ stack'[i].leader = l)
             /\ i \in Nat /\ stack[i].leader \in Nat /\ stack[i].leader <= i
  <2>1. i \in Nat /\ stack[i] \in Frames /\ stack[i].leader \in Nat /\ stack[i].leader <= i
    BY <1>1
  <2>2. CASE i < l
    BY <1>3, <2>1, <2>2
  <2>3. CASE ~(i < l)
    <3>1. stack'[i] = [stack[i] EXCEPT !.leader = l]
      BY <1>3, <2>3
    <3> QED BY <1>4, <1>5, <2>1, <2>3, <3>1
  <2> QED BY <2>2, <2>3
<1>7. DOMAIN stack' = DOMAIN stack
  BY <1>3
<1>8. ASSUME NEW i \in DOMAIN stack PROVE stack'[i].leader <= stack[i].leader /\ stack'[i].leader <= at
  <2>1. CASE i < l
    BY <1>4, <1>6, <2>1
  <2>2. CASE l <= i /\ i <= at
    <3>1. l <= stack[i].leader
      BY <1>2, <2>2 DEF Blocks, l
    <3> QED BY <1>4, <1>6, <2>2, <3>1
  <2>3. CASE at <= i
    <3>1. l <= stack[i].leader
      BY <1>2, <2>3 DEF Blocks, l
    <3> QED BY <1>4, <1>6, <2>3, <3>1
  <2> QED BY <1>4, <1>6, <2>1, <2>2, <2>3
<1>9. ASSUME NEW i \in DOMAIN stack, NEW j \in DOMAIN stack, i <= j
      PROVE  /\ stack'[i].leader <= stack'[j].leader
             /\ stack'[j].leader <= i => stack'[j].leader <= stack'[i].leader
  <2>1. /\ stack[i].leader <= stack[j].leader
        /\ stack[j].leader <= i => stack[j].leader <= stack[i].leader
    BY <1>9 DEF Blocks
  <2>2. /\ (i < l /\ stack'[i].leader = stack[i].leader) \/ (l <= i /\ stack'[i].leader = l)
        /\ (j < l /\ stack'[j].leader = stack[j].leader) \/ (l <= j /\ stack'[j].leader = l)
        /\ i \in Nat /\ stack[i].leader \in Nat /\ stack[i].leader <= i /\ j \in Nat
    BY <1>6
  <2> QED BY <1>4, <1>9, <2>1, <2>2
<1>10. Blocks'
  BY <1>7, <1>9 DEF Blocks
<1>11. \A i \in DOMAIN stack : stack'[i].leader \in Nat
  BY <1>4, <1>6
<1> QED BY <1>2, <1>6, <1>7, <1>8, <1>10, <1>11

-----------------------------------------------------------------------------
(* Counts and marks, up to the first disturbance. *)

\* The table of s is invalid or being computed again, when the nodes are cl.
Invalid(cl, s) ==
  /\ table[s] # None
  /\ \/ cl[table[s]].falsecount > 0
     \/ s \in IncompleteGoals /\ cl[table[s]].prev_call # None

\* The tables that n depends on and that are invalid or being computed again.
Waits(cl, n) == {s \in inedges[n] \cap Goals : Invalid(cl, s)}

\* Only nodes of tables are invalid, freed ones apart.
Current(cl) == \A n \in Node : cl[n].falsecount > 0 /\ cl[n].outedges => n = table[n[1]]

\* Incomplete tables are valid.
Unmarked(cl) == \A g \in IncompleteGoals : cl[table[g]].falsecount = 0 /\ ~cl[table[g]].deleted

\* What an incomplete table waits for is above its leader on the completion stack,
\* or in the SCC that is being completed.
Above(cl) ==
  \A i \in DOMAIN stack, g \in Goals : stack[i].goal = g =>
      \A s \in Waits(cl, table[g]) :
          \/ s \in Range1(completing)
          \/ \E j \in DOMAIN stack : stack[i].leader <= j /\ stack[j].goal = s
Within(cl) == \A g \in Range1(completing) : Waits(cl, table[g]) \subseteq Range1(completing)

\* The count of a completed table covers what it waits for; once it is zero only
\* tables of the SCC that is being completed are left.
Counted(cl) ==
  \A g \in Goals : IsCompleted(g) =>
      /\ cl[table[g]].deleted <=> cl[table[g]].falsecount > 0
      /\ cl[table[g]].falsecount = 0 => Waits(cl, table[g]) \subseteq Range1(completing)
      /\ cl[table[g]].falsecount > 0 => Cardinality(Waits(cl, table[g])) <= cl[table[g]].falsecount

Marks(cl) == Current(cl) /\ Unmarked(cl) /\ Above(cl) /\ Within(cl) /\ Counted(cl)

KInv == LInv /\ (Undisturbed => Marks(call))

LEMMA FewerWait ==
  ASSUME IInv, NEW n \in Node, NEW V \in SUBSET inedges[n], NEW W \in SUBSET V
  PROVE  IsFiniteSet(V) /\ Cardinality(V) \in Nat /\ Cardinality(W) \in Nat /\ Cardinality(W) <= Cardinality(V)
<1>1. V \subseteq Source
  BY DEF IInv, Graph
<1> QED BY <1>1, FiniteGraph, FS_Subset, FS_CardinalityType

\* Steps after which each table there is has the same counts, and waits for no more.
LEMMA MarksShrink ==
  ASSUME IInv, SInv, NEW cl, Marks(cl), \A n \in Node : cl[n].falsecount \in Nat,
         \A g \in Goals : table'[g] # None =>
             /\ table'[g] = table[g]
             /\ call'[table[g]].falsecount = cl[table[g]].falsecount
             /\ call'[table[g]].deleted = cl[table[g]].deleted
             /\ call'[table[g]].prev_call = cl[table[g]].prev_call,
         \A n \in Node, s \in Goals : s \in inedges'[n] => s \in inedges[n],
         \A n \in Node : call'[n].falsecount > 0 /\ call'[n].outedges =>
             cl[n].falsecount > 0 /\ cl[n].outedges /\ table'[n[1]] = table[n[1]],
         completing' = completing,
         \A g \in IncompleteGoals' : table'[g] # None,
         \/ stack' = stack
         \/ stack' = <<>> /\ completing = <<>> /\ \A g \in IncompleteGoals : table'[g] = None
  PROVE  Marks(call)'
<1>1. /\ table \in [Goals -> Node \cup {None}] /\ IncompleteGoals \subseteq Goals
      /\ \A i \in DOMAIN stack : stack[i].goal \in IncompleteGoals
      /\ Range1(completing) \subseteq IncompleteGoals /\ Range1(completing)' = Range1(completing)
  BY IncompleteAreGoals DEF IInv, Evaluation, IncompleteGoals, Range1
<1>2. \/ stack' = stack /\ IncompleteGoals' = IncompleteGoals
      \/ stack' = <<>> /\ IncompleteGoals' = {} /\ \A g \in IncompleteGoals : table'[g] = None
  BY DEF IncompleteGoals, Range1
<1>3. ASSUME NEW g \in Goals, IsCompleted(g)' PROVE IsCompleted(g) /\ table'[g] = table[g]
  BY <1>2, <1>3 DEF IsCompleted
<1>4. ASSUME NEW s \in Goals, Invalid(call, s)' PROVE Invalid(cl, s)
  BY <1>2, <1>4 DEF Invalid
<1>5. ASSUME NEW n \in Node PROVE Waits(call, n)' \subseteq Waits(cl, n)
  BY <1>4 DEF Waits
<1>6. ASSUME NEW g \in Goals, table'[g] # None PROVE Waits(call, table[g])' \subseteq Waits(cl, table[g]) /\ table[g] \in Node
  <2>1. table'[g] = table[g] /\ table[g] \in Node
    BY <1>1, <1>6
  <2> QED BY <1>4, <2>1 DEF Waits
<1>7. Current(call)'
  BY DEF Marks, Current
<1>8. Unmarked(call)'
  <2> SUFFICES ASSUME NEW g \in IncompleteGoals'
               PROVE  call'[table'[g]].falsecount = 0 /\ ~call'[table'[g]].deleted
    BY DEF Unmarked
  <2>1. g \in IncompleteGoals /\ g \in Goals /\ table'[g] # None
    BY <1>1, <1>2
  <2> QED BY <2>1 DEF Marks, Unmarked
<1>9. Above(call)'
  <2> SUFFICES ASSUME NEW i \in DOMAIN stack', NEW g \in Goals, stack'[i].goal = g,
                      NEW s \in Waits(call, table[g])'
               PROVE  \/ s \in Range1(completing)'
                      \/ \E j \in DOMAIN stack' : stack'[i].leader <= j /\ stack'[j].goal = s
    BY DEF Above
  <2>1. stack' = stack /\ g \in IncompleteGoals /\ g \in IncompleteGoals'
    BY <1>1, <1>2
  <2>2. s \in Waits(cl, table[g])
    BY <1>6, <2>1
  <2> QED BY <1>1, <2>1, <2>2 DEF Marks, Above
<1>10. Within(call)'
  <2> SUFFICES ASSUME NEW g \in Range1(completing) PROVE Waits(call, table[g])' \subseteq Range1(completing)
    BY <1>1 DEF Within
  <2>1. g \in IncompleteGoals' /\ g \in Goals
    BY <1>1 DEF IncompleteGoals
  <2>2. Waits(call, table[g])' \subseteq Waits(cl, table[g])
    BY <1>6, <2>1
  <2> QED BY <2>2 DEF Marks, Within
<1>11. Counted(call)'
  <2> SUFFICES ASSUME NEW g \in Goals, IsCompleted(g)'
               PROVE  /\ call'[table'[g]].deleted <=> call'[table'[g]].falsecount > 0
                      /\ call'[table'[g]].falsecount = 0 => Waits(call, table[g])' \subseteq Range1(completing)'
                      /\ call'[table'[g]].falsecount > 0 =>
                           Cardinality(Waits(call, table[g])') <= call'[table'[g]].falsecount
    BY DEF Counted
  <2> DEFINE W == Waits(call, table[g])'
             V == Waits(cl, table[g])
             f == cl[table[g]].falsecount
  <2>1. IsCompleted(g) /\ table'[g] = table[g] /\ table'[g] # None
    BY <1>3 DEF IsCompleted
  <2>2. W \subseteq V /\ table[g] \in Node
    BY <1>6, <2>1
  <2>3. V \subseteq inedges[table[g]]
    BY DEF Waits
  <2>4. /\ cl[table[g]].deleted <=> f > 0
        /\ f = 0 => V \subseteq Range1(completing)
        /\ f > 0 => Cardinality(V) <= f
    BY <2>1 DEF Marks, Counted
  <2>5. call'[table[g]].falsecount = f /\ call'[table[g]].deleted = cl[table[g]].deleted
    BY <2>1
  <2> HIDE DEF W, V
  <2>6. Cardinality(V) \in Nat /\ Cardinality(W) \in Nat /\ Cardinality(W) <= Cardinality(V)
    BY <2>2, <2>3, FewerWait
  <2>7. /\ call'[table'[g]].deleted <=> call'[table'[g]].falsecount > 0
        /\ call'[table'[g]].falsecount = 0 => W \subseteq Range1(completing)'
    BY <1>1, <2>1, <2>2, <2>4, <2>5
  <2>8. ASSUME f > 0 PROVE Cardinality(W) <= f
    BY <2>2, <2>4, <2>6, <2>8
  <2>9. call'[table'[g]].falsecount = f
    BY <2>1, <2>5
  <2> QED BY <2>7, <2>8, <2>9 DEF W
<1> QED BY <1>7, <1>8, <1>9, <1>10, <1>11 DEF Marks

\* Steps that change no count, no mark and no table.
LEMMA QuietCounts ==
  ASSUME IInv, SInv, KInv, UNCHANGED <<table, stack, completing>>,
         updates' \in Nat, updates <= updates', updates' <= MaxUpdates, Undisturbed' => Undisturbed,
         \A n \in Node :
             /\ call'[n].prev_call = call[n].prev_call /\ call'[n].outedges = call[n].outedges
             /\ call'[n].falsecount = call[n].falsecount /\ call'[n].deleted = call[n].deleted,
         \A n \in Node, s \in Goals : s \in inedges'[n] => s \in inedges[n],
         \A n \in Node : inedges'[n] # {} => inedges[n] # {} \/ n = table[n[1]]
  PROVE  KInv'
<1>1. NodeLinks'
  BY LinksKept DEF KInv, LInv
<1>2. Blocks'
  BY DEF KInv, LInv, Blocks
<1>3. /\ table' = table /\ stack' = stack /\ completing' = completing
      /\ table \in [Goals -> Node \cup {None}] /\ IncompleteGoals' = IncompleteGoals
      /\ \A g \in IncompleteGoals : table[g] # None
      /\ \A n \in Node : call[n].falsecount \in Nat
  BY Counts DEF IInv, Evaluation, Stacks, IncompleteGoals, Range1
<1>4. Bounded'
  <2>1. \A n \in Node : call'[n].falsecount \in Nat /\ call'[n].falsecount <= call[n].falsecount
    BY <1>3
  <2> QED BY <2>1, BoundKept DEF KInv, LInv
<1>5. ASSUME Undisturbed' PROVE Marks(call)'
  <2>1. Marks(call)
    BY <1>5 DEF KInv
  <2> DEFINE cl == call
  <2>2. \A g \in Goals : table'[g] # None =>
             /\ table'[g] = table[g]
             /\ call'[table[g]].falsecount = cl[table[g]].falsecount
             /\ call'[table[g]].deleted = cl[table[g]].deleted
             /\ call'[table[g]].prev_call = cl[table[g]].prev_call
    BY <1>3
  <2>3. \A n \in Node : call'[n].falsecount > 0 /\ call'[n].outedges =>
             cl[n].falsecount > 0 /\ cl[n].outedges /\ table'[n[1]] = table[n[1]]
    BY <1>3
  <2>4. /\ Marks(cl) /\ \A n \in Node : cl[n].falsecount \in Nat
        /\ \A g \in IncompleteGoals' : table'[g] # None
    BY <1>3, <2>1
  <2> HIDE DEF cl
  <2> QED BY <1>3, <2>2, <2>3, <2>4, MarksShrink
<1> QED BY <1>1, <1>2, <1>4, <1>5 DEF KInv, LInv

\* histVars that stay.
LEMMA HistoryStays ==
  ASSUME IInv, KInv, UNCHANGED histVars
  PROVE  /\ updates' \in Nat /\ updates <= updates' /\ updates' <= MaxUpdates
         /\ Undisturbed' => Undisturbed
BY Counts DEF KInv, LInv, Bounded, Undisturbed, histVars

LEMMA AnswerCounts == ASSUME IInv, SInv, KInv, NEW g \in Goals, NewAnswer(g) PROVE KInv'
<1>1. /\ UNCHANGED <<table, inedges, stack, completing, histVars>>
      /\ \A m \in Node :
            /\ call'[m].prev_call = call[m].prev_call /\ call'[m].outedges = call[m].outedges
            /\ call'[m].falsecount = call[m].falsecount /\ call'[m].deleted = call[m].deleted
  BY AnswerCounted
<1> QED BY <1>1, HistoryStays, QuietCounts

LEMMA LazyCounts == ASSUME IInv, SInv, KInv, NEW c, NEW d \in Goals, LazyReeval(c, d) PROVE KInv'
<1>1. /\ UNCHANGED <<table, inedges, stack, completing, histVars>>
      /\ \A m \in Node :
            /\ call'[m].prev_call = call[m].prev_call /\ call'[m].outedges = call[m].outedges
            /\ call'[m].falsecount = call[m].falsecount /\ call'[m].deleted = call[m].deleted
  BY ListMarked
<1> QED BY <1>1, HistoryStays, QuietCounts

LEMMA FactCounts == ASSUME IInv, SInv, KInv, NEW g \in Goals, CallFact(g) PROVE KInv'
<1> DEFINE d == LiteralGoal(g, NextLiteral(g))
<1>1. /\ Active(g) /\ d \in Facts /\ SetEdges(addcalledge(d, table[g], out, outcount, inedges))
      /\ UNCHANGED <<table, call, stack, completing, histVars>>
  BY DEF CallFact, CallsLiteral
<1> HIDE DEF d
<1>2. g \in Caller /\ g # User /\ (g = User \/ g \in IncompleteGoals)
  <2>1. g \in Caller
    BY DEF Caller
  <2> QED BY <1>1, <2>1, AtWork, CallGraphAssumption
<1>3. CallerNode(g) = table[g]
  BY <1>2 DEF CallerNode
<1>4. \A m \in Node : \/ inedges'[m] = inedges[m]
                      \/ m = table[g] /\ inedges'[m] = inedges[m] \cup {d}
  BY <1>1, <1>2, <1>3, CallerLinked
<1>5. \A m \in Node, s \in Goals : s \in inedges'[m] => s \in inedges[m]
  BY <1>1, <1>4, CallGraphAssumption
<1>6. \A m \in Node : inedges'[m] # {} => inedges[m] # {} \/ m = table[m[1]]
  BY <1>4, FiniteGraph DEF SInv, Tables
<1> QED BY <1>1, <1>5, <1>6, HistoryStays, QuietCounts

\* Tables that stop being evaluated are gone with the frames.
LEMMA UnwindCounts == ASSUME IInv, SInv, KInv, completing = <<>>, Aborted PROVE KInv'
<1>1. Dropped
  BY TablesDropped
<1> USE DEF Dropped, SameNode
<1>2. UNCHANGED <<updates, cut, overlapped>>
  BY DEF Aborted, Unwind
<1>3. IncompleteGoals \subseteq Goals /\ None \notin Node /\ \A n \in Node : n[1] \in Goals
  BY IncompleteAreGoals, FiniteGraph DEF IInv, Node
<1>4. NodeLinks'
  <2> SUFFICES ASSUME NEW n \in Node, inedges'[n] # {}, call'[n].outedges
               PROVE  /\ table'[n[1]] # None
                      /\ n = table'[n[1]] \/ n = call'[table'[n[1]]].prev_call
    BY DEF NodeLinks
  <2>1. /\ table[n[1]] # None
        /\ n = table[n[1]] \/ n = call[table[n[1]]].prev_call
    BY <1>1 DEF KInv, LInv, NodeLinks
  <2>2. n[1] \notin IncompleteGoals
    BY <1>1, <2>1
  <2> QED BY <1>1, <1>3, <2>1, <2>2
<1>5. Blocks'
  BY <1>1 DEF Blocks
<1>6. Bounded'
  <2>1. \A n \in Node : call[n].falsecount \in Nat /\ (call'[n].falsecount = 0 \/ call'[n].falsecount <= call[n].falsecount)
    BY <1>1, Counts
  <2>2. updates' \in Nat /\ updates <= updates' /\ updates' <= MaxUpdates
    BY <1>2, Counts DEF KInv, LInv, Bounded
  <2>3. \A n \in Node : \/ call'[n].falsecount \in Nat /\ call'[n].falsecount <= call[n].falsecount
                        \/ call'[n].falsecount = 0
    BY <1>1, <2>1
  <2> QED BY <2>2, <2>3, BoundKept DEF KInv, LInv
<1>7. ASSUME Undisturbed' PROVE Marks(call)'
  <2>1. Marks(call)
    BY <1>2, <1>7 DEF KInv, Undisturbed
  <2> DEFINE cl == call
  <2>2. \A g \in Goals : table'[g] # None =>
             /\ table'[g] = table[g]
             /\ call'[table[g]].falsecount = cl[table[g]].falsecount
             /\ call'[table[g]].deleted = cl[table[g]].deleted
             /\ call'[table[g]].prev_call = cl[table[g]].prev_call
    BY <1>1
  <2>3. ASSUME NEW n \in Node, call'[n].falsecount > 0, call'[n].outedges
        PROVE  cl[n].falsecount > 0 /\ cl[n].outedges /\ table'[n[1]] = table[n[1]]
    <3>1. SameNode(n) /\ \A g \in IncompleteGoals : n # table[g]
      BY <1>1, <2>3
    <3>2. n = table[n[1]]
      BY <2>1, <2>3, <3>1 DEF Marks, Current
    <3> QED BY <1>1, <1>3, <2>3, <3>1, <3>2
  <2>4. /\ Marks(cl) /\ (\A n \in Node : cl[n].falsecount \in Nat)
        /\ (\A g \in IncompleteGoals' : table'[g] # None)
        /\ \A g \in IncompleteGoals : table'[g] = None
        /\ \A n \in Node, s \in Goals : s \in inedges'[n] => s \in inedges[n]
    BY <1>1, <1>3, <2>1, Counts
  <2> HIDE DEF cl
  <2> QED BY <1>1, <2>2, <2>3, <2>4, MarksShrink
<1> QED BY <1>4, <1>5, <1>6, <1>7 DEF KInv, LInv

\* The goals of the topmost SCC, with what they wait for, are next to be completed.
LEMMA SccCounts == ASSUME IInv, SInv, KInv, CompleteScc PROVE KInv'
<1>1. /\ completing = <<>> /\ IncompleteGoals' = IncompleteGoals
      /\ UNCHANGED <<table, call, inedges, histVars>>
  BY SccCut
<1>2. PICK leader \in Nat :
        /\ \E top \in DOMAIN stack : leader = stack[top].leader /\ \A i \in DOMAIN stack : i <= top
        /\ \A i \in DOMAIN stack : /\ i < leader => i \in DOMAIN stack' /\ stack'[i] = stack[i]
                                   /\ leader <= i => stack[i].goal \in Range1(completing)'
        /\ \A i \in DOMAIN stack' : i \in DOMAIN stack /\ i < leader
        /\ \A g \in Range1(completing)' : \E i \in DOMAIN stack : leader <= i /\ g = stack[i].goal
  BY SccCut
<1>3. \A i \in DOMAIN stack' : i \in DOMAIN stack /\ stack'[i] = stack[i]
  BY <1>2
<1>4. NodeLinks' /\ Bounded'
  BY <1>1 DEF KInv, LInv, NodeLinks, Bounded, histVars, PerUpdate
<1>5. Blocks'
  BY <1>3 DEF KInv, LInv, Blocks
<1>6. ASSUME Undisturbed' PROVE Marks(call)'
  <2>1. Marks(call) /\ Range1(completing) = {}
    BY <1>1, <1>6 DEF KInv, Undisturbed, histVars, Range1
  <2>2. /\ \A s \in Goals : Invalid(call, s)' <=> Invalid(call, s)
        /\ \A s \in Goals : IsCompleted(s)' <=> IsCompleted(s)
    BY <1>1 DEF Invalid, IsCompleted
  <2>3. \A g \in Goals : Waits(call, table[g])' = Waits(call, table[g])
    BY <1>1, <2>2 DEF Waits
  <2>4. Current(call)' /\ Unmarked(call)'
    BY <1>1, <2>1 DEF Marks, Current, Unmarked
  <2>5. Above(call)'
    <3> SUFFICES ASSUME NEW i \in DOMAIN stack', NEW g \in Goals, stack'[i].goal = g,
                        NEW s \in Waits(call, table[g])'
                 PROVE  \/ s \in Range1(completing)'
                        \/ \E j \in DOMAIN stack' : stack'[i].leader <= j /\ stack'[j].goal = s
      BY DEF Above
    <3>1. i \in DOMAIN stack /\ stack'[i] = stack[i] /\ s \in Waits(call, table[g])
      BY <1>3, <2>3
    <3>2. PICK j \in DOMAIN stack : stack[i].leader <= j /\ stack[j].goal = s
      BY <2>1, <3>1 DEF Marks, Above
    <3>3. j \in Nat
      BY DEF IInv, Evaluation
    <3>4. CASE j < leader
      BY <1>2, <3>1, <3>2, <3>4
    <3>5. CASE leader <= j
      BY <1>2, <3>2, <3>5
    <3> QED BY <1>2, <3>3, <3>4, <3>5
  <2>6. Within(call)'
    <3> SUFFICES ASSUME NEW g \in Range1(completing)' PROVE Waits(call, table[g])' \subseteq Range1(completing)'
      BY DEF Within
    <3>1. PICK i \in DOMAIN stack : leader <= i /\ g = stack[i].goal
      BY <1>2
    <3>2. PICK top \in DOMAIN stack : leader = stack[top].leader /\ i <= top
      BY <1>2
    <3>3. leader <= stack[i].leader /\ stack[i].leader \in Nat /\ g \in Goals
      <4>1. /\ stack \in Seq(Frames) /\ DOMAIN stack = 1 .. Len(stack)
            /\ \A k \in DOMAIN stack : stack[k].leader \in 1 .. k /\ stack[k] \in Frames
        BY DEF IInv, Evaluation, Stacks
      <4> QED BY <3>1, <3>2, <4>1 DEF KInv, LInv, Blocks, Frames
    <3> SUFFICES ASSUME NEW s \in Waits(call, table[g]) PROVE s \in Range1(completing)'
      BY <2>3, <3>3
    <3>4. PICK j \in DOMAIN stack : stack[i].leader <= j /\ stack[j].goal = s
      BY <2>1, <3>1, <3>3 DEF Marks, Above
    <3>5. j \in Nat
      BY DEF IInv, Evaluation
    <3> QED BY <1>2, <3>3, <3>4, <3>5
  <2>7. Counted(call)'
    <3> SUFFICES ASSUME NEW g \in Goals, IsCompleted(g)
                 PROVE  /\ call[table[g]].deleted <=> call[table[g]].falsecount > 0
                        /\ call[table[g]].falsecount = 0 => Waits(call, table[g]) \subseteq Range1(completing)'
                        /\ call[table[g]].falsecount > 0 =>
                             Cardinality(Waits(call, table[g])) <= call[table[g]].falsecount
      BY <1>1, <2>2, <2>3 DEF Counted
    <3> QED BY <2>1 DEF Marks, Counted
  <2> QED BY <2>4, <2>5, <2>6, <2>7 DEF Marks
<1> QED BY <1>4, <1>5, <1>6 DEF KInv, LInv

\* The completion stack after the call of a table that is valid or incomplete.
LEMMA LevelsMerged ==
  ASSUME IInv, Blocks, completing = <<>>, NEW c, NEW d \in Goals, CallValidTable(c, d)
  PROVE  /\ Blocks' /\ DOMAIN stack' = DOMAIN stack
         /\ \A i \in DOMAIN stack : stack'[i].goal = stack[i].goal /\ stack'[i].leader <= stack[i].leader
                                   /\ stack'[i].leader \in Nat
         /\ d \in IncompleteGoals => \E at \in DOMAIN stack : /\ stack[at].goal = d
                                                           /\ \A i \in DOMAIN stack : stack'[i].leader <= at
<1>1. table[d] # None /\ stack' = IF IsCompleted(d) THEN stack ELSE MergeLevels(d)
  BY DEF CallValidTable
<1>2. \A i \in DOMAIN stack : stack[i].leader \in Nat /\ i \in Nat
  BY DEF IInv, Evaluation, Stacks
<1>3. CASE IsCompleted(d)
  <2>1. stack' = stack /\ d \notin IncompleteGoals
    BY <1>1, <1>3 DEF IsCompleted
  <2> QED BY <1>2, <2>1 DEF Blocks
<1>4. CASE ~IsCompleted(d)
  <2>1. d \in IncompleteGoals /\ stack' = MergeLevels(d)
    BY <1>1, <1>4 DEF IsCompleted
  <2> QED BY <2>1, BlocksMerged
<1> QED BY <1>3, <1>4

\* A call of a valid table: the caller waits for it only while it is computed again,
\* and then the levels are merged.
LEMMA ValidCallCounts ==
  ASSUME IInv, SInv, KInv, completing = <<>>, completing' = completing, NEW c \in Caller,
         c = User \/ c \in IncompleteGoals, NEW d \in Goals, CallValidTable(c, d), UNCHANGED histVars
  PROVE  KInv'
<1>1. /\ table[d] # None /\ call[table[d]].falsecount = 0 /\ UNCHANGED <<table, call>>
      /\ SetEdges(addcalledge(d, CallerNode(c), out, outcount, inedges))
      /\ stack' = IF IsCompleted(d) THEN stack ELSE MergeLevels(d)
  BY DEF CallValidTable, IsAffected
<1>2. \A m \in Node : \/ inedges'[m] = inedges[m]
                      \/ c \in Goals /\ m = table[c] /\ inedges'[m] = inedges[m] \cup {d}
  BY <1>1, CallerLinked
<1>3. /\ Tables /\ table \in [Goals -> Node \cup {None}] /\ IncompleteGoals \subseteq Goals
      /\ IncompleteGoals = {stack[i].goal : i \in DOMAIN stack}
      /\ \A i \in DOMAIN stack : stack[i].leader \in Nat /\ i \in Nat
      /\ c \in Goals => c \in IncompleteGoals
  BY OnStack, CallGraphAssumption DEF IInv, SInv, Evaluation, Stacks
<1>4. /\ Blocks' /\ DOMAIN stack' = DOMAIN stack
      /\ \A i \in DOMAIN stack : stack'[i].goal = stack[i].goal /\ stack'[i].leader <= stack[i].leader
                                /\ stack'[i].leader \in Nat
      /\ d \in IncompleteGoals => \E at \in DOMAIN stack : /\ stack[at].goal = d
                                                        /\ \A i \in DOMAIN stack : stack'[i].leader <= at
  BY LevelsMerged DEF KInv, LInv
<1>5. IncompleteGoals' = IncompleteGoals
  BY <1>3, <1>4 DEF IncompleteGoals, Range1
<1>6. NodeLinks'
  <2>1. \A n \in Node : inedges'[n] # {} => inedges[n] # {} \/ n = table[n[1]]
    BY <1>2, <1>3, FiniteGraph DEF Tables
  <2> QED BY <1>1, <2>1, LinksKept DEF KInv, LInv
<1>7. Bounded'
  BY <1>1 DEF KInv, LInv, Bounded, PerUpdate, histVars
<1>8. ASSUME Undisturbed' PROVE Marks(call)'
  <2>1. Marks(call) /\ Range1(completing) = {} /\ Range1(completing)' = {}
    BY <1>8 DEF KInv, Undisturbed, histVars, Range1
  <2>2. /\ \A s \in Goals : Invalid(call, s)' <=> Invalid(call, s)
        /\ \A s \in Goals : IsCompleted(s)' <=> IsCompleted(s)
    BY <1>1, <1>5 DEF Invalid, IsCompleted
  <2>3. \A g, s \in Goals : table[g] # None /\ s \in Waits(call, table[g])' =>
            s \in Waits(call, table[g]) \/ (s = d /\ d \in IncompleteGoals)
    <3> SUFFICES ASSUME NEW g \in Goals, NEW s \in Goals, table[g] # None, s \in Waits(call, table[g])',
                        s \notin Waits(call, table[g])
                 PROVE  s = d /\ d \in IncompleteGoals
      OBVIOUS
    <3>1. s \in inedges'[table[g]] /\ Invalid(call, s)
      BY <1>1, <2>2 DEF Waits
    <3>2. s \notin inedges[table[g]] /\ table[g] \in Node
      BY <1>3, <3>1 DEF Waits
    <3>3. s = d
      BY <1>2, <3>1, <3>2
    <3>4. ~(0 > 0)
      OBVIOUS
    <3> QED BY <1>1, <3>1, <3>3, <3>4 DEF Invalid
  <2>4. \A g \in Goals : IsCompleted(g) => Waits(call, table[g])' = Waits(call, table[g])
    <3> SUFFICES ASSUME NEW g \in Goals, IsCompleted(g) PROVE Waits(call, table[g])' = Waits(call, table[g])
      OBVIOUS
    <3>1. table[g] \in Node /\ ~(c \in Goals /\ table[g] = table[c])
      BY <1>3 DEF IsCompleted, Tables
    <3>2. inedges'[table[g]] = inedges[table[g]]
      BY <1>2, <3>1
    <3> QED BY <1>1, <2>2, <3>2 DEF Waits
  <2>5. Current(call)' /\ Unmarked(call)' /\ Within(call)'
    BY <1>1, <1>5, <2>1 DEF Marks, Current, Unmarked, Within
  <2>6. Above(call)'
    <3> SUFFICES ASSUME NEW i \in DOMAIN stack', NEW g \in Goals, stack'[i].goal = g,
                        NEW s \in Waits(call, table[g])'
                 PROVE  \E j \in DOMAIN stack' : stack'[i].leader <= j /\ stack'[j].goal = s
      BY DEF Above
    <3>1. i \in DOMAIN stack /\ stack[i].goal = g /\ table[g] # None
      BY <1>3, <1>4 DEF IInv, Stacks
    <3>2. s \in Goals
      BY DEF Waits
    <3>3. CASE s \in Waits(call, table[g])
      <4>1. PICK j \in DOMAIN stack : stack[i].leader <= j /\ stack[j].goal = s
        BY <2>1, <3>1, <3>3 DEF Marks, Above
      <4> QED BY <1>3, <1>4, <3>1, <4>1
    <3>4. CASE s = d /\ d \in IncompleteGoals
      BY <1>4, <3>1, <3>4
    <3> QED BY <2>3, <3>1, <3>2, <3>3, <3>4
  <2>7. Counted(call)'
    <3> SUFFICES ASSUME NEW g \in Goals, IsCompleted(g)
                 PROVE  /\ call[table[g]].deleted <=> call[table[g]].falsecount > 0
                        /\ call[table[g]].falsecount = 0 => Waits(call, table[g]) \subseteq Range1(completing)'
                        /\ call[table[g]].falsecount > 0 =>
                             Cardinality(Waits(call, table[g])) <= call[table[g]].falsecount
      BY <1>1, <2>2, <2>4 DEF Counted
    <3> QED BY <2>1 DEF Marks, Counted
  <2> QED BY <2>5, <2>6, <2>7 DEF Marks
<1> QED BY <1>4, <1>6, <1>7, <1>8 DEF KInv, LInv

\* A new producer waits for nothing yet and is above those that wait for it.  A table that is computed
\* again was invalid before: the same tables are waited for.
LEMMA ProducerCounts ==
  ASSUME IInv, SInv, KInv, NEW c, c \in Goals => c \in IncompleteGoals, NEW d \in Goals,
         NEW n \in Node, Produces(c, d, n), UNCHANGED histVars
  PROVE  KInv'
<1> USE DEF Produces
<1>1. /\ Tables /\ Previous /\ table \in [Goals -> Node \cup {None}] /\ IncompleteGoals \subseteq Goals
      /\ IncompleteGoals = {stack[i].goal : i \in DOMAIN stack} /\ DOMAIN stack = 1 .. Len(stack)
      /\ Len(stack) \in Nat
      /\ \A h \in IncompleteGoals : table[h] # None
      /\ \A i \in DOMAIN stack : stack[i].leader \in Nat /\ stack[i].leader <= i /\ i \in Nat
      /\ \A m \in Node : m # None /\ m[1] \in Goals /\ call[m].falsecount \in Nat
  BY OnStack, FiniteGraph, Counts DEF IInv, SInv, Evaluation, Stacks, Node
<1>2. IncompleteGoals' = IncompleteGoals \cup {d} /\ d \notin IncompleteGoals
  BY Pushed DEF IInv
<1>3. table'[d] = n /\ (\A h \in Goals : h # d => table'[h] = table[h]) /\ n # table[d] /\ n # None
  BY <1>1
<1>4. LET k == Len(stack) + 1
      IN  /\ DOMAIN stack' = 1 .. k /\ stack'[k].goal = d /\ stack'[k].leader = k
          /\ \A i \in DOMAIN stack : i \in DOMAIN stack' /\ i < k /\ stack'[i] = stack[i]
          /\ \A i \in DOMAIN stack' : i = k \/ (i \in DOMAIN stack /\ stack'[i] = stack[i])
  <2> DEFINE f == [goal |-> d, leader |-> Len(stack) + 1]
  <2>1. f \in Frames /\ f.goal = d /\ f.leader = Len(stack) + 1
    BY <1>1 DEF Frames
  <2>2. stack' = Append(stack, f)
    BY DEF Push
  <2> HIDE DEF f
  <2>3. /\ DOMAIN stack' = 1 .. Len(stack) + 1
        /\ stack'[Len(stack) + 1] = f /\ \A i \in 1 .. Len(stack) : stack'[i] = stack[i]
    BY <1>1, <2>1, <2>2, AppendProperties DEF IInv, Evaluation
  <2> QED BY <1>1, <2>1, <2>3
<1>5. ASSUME NEW h \in Goals, h # d, table[h] # None
      PROVE  /\ table'[h] = table[h] /\ table[h] \in Node /\ table[h] # n /\ table[h] # table[d]
             /\ table[h][1] = h /\ call'[table[h]] = call[table[h]]
  <2>1. table[h] \in Node /\ table[h][1] = h /\ table[h] # n
    BY <1>1, <1>5 DEF Tables
  <2>2. table[h] # table[d]
    BY <1>1, <1>5, <2>1 DEF Tables
  <2> QED BY <1>3, <1>5, <2>1, <2>2
<1>6. NodeLinks'
  <2> SUFFICES ASSUME NEW m \in Node, inedges'[m] # {}, call'[m].outedges
               PROVE  /\ table'[m[1]] # None
                      /\ m = table'[m[1]] \/ m = call'[table'[m[1]]].prev_call
    BY DEF NodeLinks
  <2>1. CASE inedges'[m] = inedges[m]
    <3>1. m # n /\ call[m].outedges
      BY <2>1
    <3>2. /\ table[m[1]] # None
          /\ m = table[m[1]] \/ m = call[table[m[1]]].prev_call
      BY <2>1, <3>1 DEF KInv, LInv, NodeLinks
    <3>3. CASE m[1] = d
      <4>1. call[table[d]].prev_call = None
        BY <1>1, <1>2, <3>2, <3>3 DEF Previous, Tables
      <4> QED BY <1>1, <1>3, <3>2, <3>3, <4>1
    <3>4. CASE m[1] # d
      BY <1>1, <1>5, <3>2, <3>4
    <3> QED BY <3>3, <3>4
  <2>2. CASE c \in Goals /\ m = table[c]
    <3>1. c # d /\ table[c] # None
      BY <1>1, <1>2, <2>2
    <3>2. m[1] = c /\ table'[c] = m
      BY <1>5, <2>2, <3>1
    <3> QED BY <1>1, <3>2
  <2> QED BY <2>1, <2>2
<1>7. Blocks'
  BY BlocksPushed DEF KInv, LInv
<1>8. Bounded'
  <2>1. updates' \in Nat /\ updates <= updates' /\ updates' <= MaxUpdates
    BY HistoryStays
  <2>2. \A m \in Node : \/ call'[m].falsecount \in Nat /\ call'[m].falsecount <= call[m].falsecount
                        \/ call'[m].falsecount = 0
    BY <1>1
  <2> QED BY <2>1, <2>2, BoundKept DEF KInv, LInv
<1>9. ASSUME Undisturbed' PROVE Marks(call)'
  <2>1. Marks(call) /\ Range1(completing) = {} /\ Range1(completing)' = {}
    BY <1>9 DEF KInv, Undisturbed, histVars, Range1
  <2>2. ~(0 > 0)
    OBVIOUS
  <2>3. ASSUME NEW s \in Goals PROVE Invalid(call, s)' <=> Invalid(call, s)
    <3>1. CASE s = d
      <4>1. Invalid(call, s)' <=> table[d] # None
        BY <1>2, <1>3, <2>2, <3>1 DEF Invalid
      <4>2. table[d] # None => table[d] \in Node /\ call[table[d]].falsecount > 0
        <5>1. ASSUME table[d] # None PROVE call[table[d]].falsecount \in Nat /\ call[table[d]].falsecount # 0 /\ table[d] \in Node
          BY <1>1, <1>3, <5>1
        <5> QED BY <5>1
      <4> QED BY <3>1, <4>1, <4>2 DEF Invalid
    <3>2. CASE s # d /\ table[s] # None
      BY <1>2, <1>5, <3>2 DEF Invalid
    <3>3. CASE s # d /\ table[s] = None
      BY <1>3, <3>3 DEF Invalid
    <3> QED BY <3>1, <3>2, <3>3
  <2>4. ASSUME NEW g \in Goals, IsCompleted(g)'
        PROVE  g # d /\ IsCompleted(g) /\ Waits(call, table[g])' = Waits(call, table[g])
    <3>1. g # d /\ table[g] # None /\ g \notin IncompleteGoals /\ table'[g] = table[g]
      BY <1>2, <1>3, <2>4 DEF IsCompleted
    <3>2. table[g] \in Node /\ ~(c \in Goals /\ table[g] = table[c])
      BY <1>1, <3>1 DEF Tables
    <3>3. inedges'[table[g]] = inedges[table[g]]
      BY <3>2
    <3> QED BY <2>3, <3>1, <3>3 DEF Waits, IsCompleted
  <2>5. ASSUME NEW g \in Goals, g # d, table[g] # None, NEW s \in Waits(call, table[g])'
        PROVE  s = d \/ s \in Waits(call, table[g])
    <3>1. table'[g] = table[g] /\ table[g] \in Node
      BY <1>5, <2>5
    <3>2. s \in inedges'[table[g]] /\ s \in Goals /\ Invalid(call, s)
      BY <2>3, <3>1 DEF Waits
    <3>3. s \in inedges[table[g]] \/ s = d
      BY <3>1, <3>2
    <3> QED BY <3>2, <3>3 DEF Waits
  <2>6. Waits(call, table[d])' = {}
    <3>1. inedges'[n] = {}
      BY <1>1
    <3> QED BY <1>3, <3>1 DEF Waits
  <2>7. Current(call)'
    <3> SUFFICES ASSUME NEW m \in Node, call'[m].falsecount > 0, call'[m].outedges PROVE m = table'[m[1]]
      BY DEF Current
    <3>1. m # n /\ m # table[d]
      BY <2>2
    <3>2. call'[m] = call[m]
      BY <3>1
    <3>3. m = table[m[1]]
      BY <2>1, <3>2 DEF Marks, Current
    <3> QED BY <1>1, <1>3, <3>1, <3>3
  <2>8. Unmarked(call)'
    <3> SUFFICES ASSUME NEW g \in IncompleteGoals' PROVE call'[table'[g]].falsecount = 0 /\ ~call'[table'[g]].deleted
      BY DEF Unmarked
    <3>1. CASE g = d
      BY <1>3, <3>1
    <3>2. CASE g # d
      BY <1>1, <1>2, <1>5, <2>1, <3>2 DEF Marks, Unmarked
    <3> QED BY <3>1, <3>2
  <2>9. Above(call)'
    <3> SUFFICES ASSUME NEW i \in DOMAIN stack', NEW g \in Goals, stack'[i].goal = g,
                        NEW s \in Waits(call, table[g])'
                 PROVE  \E j \in DOMAIN stack' : stack'[i].leader <= j /\ stack'[j].goal = s
      BY DEF Above
    <3>1. g # d
      BY <2>6
    <3>2. i \in DOMAIN stack /\ stack'[i] = stack[i] /\ g \in IncompleteGoals
      BY <1>1, <1>4, <3>1
    <3>3. CASE s = d
      <4>1. stack[i].leader <= Len(stack) + 1
        BY <1>1, <3>2
      <4> QED BY <1>1, <1>4, <3>2, <3>3, <4>1
    <3>4. CASE s \in Waits(call, table[g])
      <4>1. PICK j \in DOMAIN stack : stack[i].leader <= j /\ stack[j].goal = s
        BY <2>1, <3>2, <3>4 DEF Marks, Above
      <4> QED BY <1>4, <3>2, <4>1
    <3> QED BY <1>1, <2>5, <3>1, <3>2, <3>3, <3>4
  <2>10. Within(call)'
    BY <2>1 DEF Within
  <2>11. Counted(call)'
    <3> SUFFICES ASSUME NEW g \in Goals, IsCompleted(g)'
                 PROVE  /\ call'[table'[g]].deleted <=> call'[table'[g]].falsecount > 0
                        /\ call'[table'[g]].falsecount = 0 => Waits(call, table[g])' \subseteq Range1(completing)'
                        /\ call'[table'[g]].falsecount > 0 =>
                             Cardinality(Waits(call, table[g])') <= call'[table'[g]].falsecount
      BY DEF Counted
    <3>1. g # d /\ IsCompleted(g) /\ Waits(call, table[g])' = Waits(call, table[g])
      BY <2>4
    <3>2. table'[g] = table[g] /\ call'[table[g]] = call[table[g]]
      BY <1>5, <3>1 DEF IsCompleted
    <3>3. /\ call[table[g]].deleted <=> call[table[g]].falsecount > 0
          /\ call[table[g]].falsecount = 0 => Waits(call, table[g]) \subseteq Range1(completing)
          /\ call[table[g]].falsecount > 0 =>
               Cardinality(Waits(call, table[g])) <= call[table[g]].falsecount
      BY <2>1, <3>1 DEF Marks, Counted
    <3> QED BY <2>1, <3>1, <3>2, <3>3
  <2> QED BY <2>7, <2>8, <2>9, <2>10, <2>11 DEF Marks
<1> QED BY <1>6, <1>7, <1>8, <1>9 DEF KInv, LInv

\* What propagate_no_change validates had no invalid edge but those it took back.
LEMMA ClearedHit ==
  ASSUME Calls, NEW g, NEW m \in Cleared(g)
  PROVE  m \in Node /\ call[m].falsecount > 0 /\ call[m].falsecount <= Hits(g, Cleared(g), m)
<1> DEFINE invalid == {x \in Node : call[x].falsecount > 0}
           Done(Z) == \A x \in invalid : call[x].falsecount <= Hits(g, Z, x) => x \in Z
           C == Cleared(g)
           Y == C \ {m}
<1>1. C = {x \in invalid : \A Z \in SUBSET invalid : Done(Z) => x \in Z}
  BY DEF Cleared
<1>2. \A x \in Node : call[x].falsecount \in Nat
  <2> SUFFICES ASSUME NEW x \in Node PROVE call[x].falsecount \in Nat
    OBVIOUS
  <2>1. call[x] \in NodeRecord
    BY DEF Calls
  <2>2. call[x].falsecount \in 0 .. FalseMod - 1 /\ FalseMod \in Nat
    BY <2>1, NodeSet, NewNodes
  <2> QED BY <2>2
<1>3. m \in invalid /\ C \in SUBSET invalid /\ Y \in SUBSET C /\ m \in C
  BY <1>1
<1> HIDE DEF C
<1>4. ASSUME ~(call[m].falsecount <= Hits(g, C, m)) PROVE FALSE
  <2>1. Done(Y)
    <3> SUFFICES ASSUME NEW x \in invalid, call[x].falsecount <= Hits(g, Y, x) PROVE x \in Y
      OBVIOUS
    <3>1. Hits(g, Y, x) <= Hits(g, C, x) /\ Hits(g, Y, x) \in Nat /\ Hits(g, C, x) \in Nat
      BY <1>3, HitsGrow
    <3>2. call[x].falsecount <= Hits(g, C, x)
      BY <1>2, <3>1
    <3>3. x # m
      BY <1>4, <3>2
    <3>4. ASSUME NEW Z \in SUBSET invalid, Done(Z) PROVE x \in Z
      <4>1. C \in SUBSET Z
        BY <1>1, <3>4
      <4>2. Hits(g, C, x) <= Hits(g, Z, x) /\ Hits(g, Z, x) \in Nat
        BY <4>1, HitsGrow
      <4>3. call[x].falsecount <= Hits(g, Z, x)
        BY <1>2, <3>1, <3>2, <4>2
      <4> QED BY <3>4, <4>3
    <3> QED BY <1>1, <3>3, <3>4
  <2>2. Y \in SUBSET invalid
    BY <1>3
  <2> QED BY <1>1, <1>3, <2>1, <2>2
<1> QED BY <1>3, <1>4 DEF C

LEMMA TakenBack ==
  ASSUME IInv, NEW n \in Node, NEW W \in SUBSET inedges[n], NEW H \in SUBSET W, NEW V \in SUBSET (W \ H)
  PROVE  /\ Cardinality(W) \in Nat /\ Cardinality(H) \in Nat /\ Cardinality(V) \in Nat
         /\ Cardinality(V) + Cardinality(H) <= Cardinality(W)
         /\ Cardinality(W) <= Cardinality(H) => V = {}
<1>1. IsFiniteSet(W) /\ Cardinality(W) \in Nat /\ Cardinality(H) \in Nat
  BY FewerWait
<1>2. W \cap H = H
  OBVIOUS
<1>3. Cardinality(W \ H) = Cardinality(W) - Cardinality(H) /\ IsFiniteSet(W \ H)
  BY <1>1, <1>2, FS_Difference
<1>4. Cardinality(V) <= Cardinality(W \ H) /\ Cardinality(V) \in Nat /\ Cardinality(W \ H) \in Nat /\ IsFiniteSet(V)
  BY <1>3, FS_Subset, FS_CardinalityType
<1>5. Cardinality(W) <= Cardinality(H) => Cardinality(V) = 0
  BY <1>1, <1>3, <1>4
<1> QED BY <1>1, <1>3, <1>4, <1>5, FS_EmptySet

\* The edges over which a table that has not changed is taken back are among those counted.
LEMMA HitsAmong ==
  ASSUME IInv, SInv, Marks(call), NEW g \in Goals, g \in IncompleteGoals, call[table[g]].prev_call # None,
         NEW m \in Node, NEW Z \in SUBSET Cleared(g)
  PROVE  \E H \in SUBSET Waits(call, m) :
            /\ Hits(g, Z, m) = Cardinality(H)
            /\ \A s \in H : s = g \/ (s \in Goals /\ table[s] \in Z)
<1> DEFINE H == {s \in Source : m \in out[s] /\ (s = g \/ \E z \in Z : z[1] = s /\ call[z].outedges)}
<1>1. Hits(g, Z, m) = Cardinality(H)
  BY DEF Hits
<1>2. ASSUME NEW s \in H PROVE s \in Goals /\ s \in Waits(call, m) /\ (s = g \/ table[s] \in Z)
  <2>1. s \in inedges[m]
    BY DEF IInv, Graph
  <2>2. CASE s = g
    <3>1. table[g] # None
      BY DEF IInv, Stacks
    <3> QED BY <2>1, <2>2, <3>1 DEF Waits, Invalid
  <2>3. CASE \E z \in Z : z[1] = s /\ call[z].outedges
    <3>1. PICK z \in Z : z[1] = s /\ call[z].outedges
      BY <2>3
    <3>2. z \in Node /\ call[z].falsecount > 0
      BY ClearedHit DEF IInv
    <3>3. table[s] = z /\ s \in Goals /\ z # None
      BY <3>1, <3>2, FiniteGraph DEF Marks, Current, Node
    <3> QED BY <2>1, <3>2, <3>3 DEF Waits, Invalid
  <2> QED BY <2>2, <2>3
<1> HIDE DEF H
<1>3. H \in SUBSET Waits(call, m) /\ \A s \in H : s = g \/ (s \in Goals /\ table[s] \in Z)
  BY <1>2
<1> QED BY <1>1, <1>3

LEMMA HitsWaited ==
  ASSUME IInv, SInv, Marks(call), NEW g \in Goals, g \in IncompleteGoals, call[table[g]].prev_call # None,
         NEW m \in Node
  PROVE  \E H \in SUBSET Waits(call, m) :
            /\ Hits(g, Cleared(g), m) = Cardinality(H)
            /\ \A s \in H : s = g \/ (s \in Goals /\ table[s] \in Cleared(g))
<1> PICK Z \in SUBSET Cleared(g) : Z = Cleared(g)
  OBVIOUS
<1> QED BY HitsAmong

\* A completed table waits for one table less.
LEMMA CompletedCounts == ASSUME IInv, SInv, KInv, CompleteTable PROVE KInv'
<1>1. PICK g \in Goals : \E n, p, cl : Completes(g, n, p, cl)
  BY TableCompleted
<1>2. PICK n, p, cl : Completes(g, n, p, cl)
  BY <1>1
<1>3. /\ UNCHANGED <<table, stack, updates, cut, overlapped>>
      /\ n = table[g] /\ n \in Node /\ n[1] = g
      /\ p = call[n].prev_call /\ (p # None => p \in Node /\ p[1] = g /\ p # n)
      /\ cl = call \/ (p # None /\ cl = propagate_no_change(g))
      /\ \A m \in Node :
            /\ cl[m].prev_call = call[m].prev_call /\ cl[m].outedges = call[m].outedges
            /\ call[m].falsecount = 0 => cl[m] = call[m]
      /\ call'[n].prev_call = None /\ call'[n].outedges = call[n].outedges
      /\ call'[n].falsecount = cl[n].falsecount /\ call'[n].deleted = cl[n].deleted
      /\ p # None => call'[p] = Freed /\ inedges'[p] = {}
      /\ \A m \in Node \ {n, p} : call'[m] = cl[m]
      /\ \A m \in Node \ {p} : inedges'[m] = inedges[m]
      /\ g \in Range1(completing) /\ g \in IncompleteGoals
      /\ IncompleteGoals' \subseteq IncompleteGoals /\ \A h \in IncompleteGoals : h # g => h \in IncompleteGoals'
      /\ Range1(completing)' \subseteq Range1(completing)
      /\ \A h \in Range1(completing) : h # g => h \in Range1(completing)'
  BY <1>2 DEF Completes
<1>4. /\ Tables /\ table \in [Goals -> Node \cup {None}] /\ IncompleteGoals \subseteq Goals /\ Calls
      /\ \A h \in IncompleteGoals : table[h] # None
      /\ \A m \in Node : m # None /\ m[1] \in Goals /\ call[m].falsecount \in Nat
      /\ \A i \in DOMAIN stack : stack[i].goal \in IncompleteGoals
  BY IncompleteAreGoals, FiniteGraph, Counts DEF IInv, SInv, Evaluation, Stacks, Node, IncompleteGoals
<1>5. ASSUME NEW m \in Node PROVE cl[m].falsecount \in Nat /\ cl[m].falsecount <= call[m].falsecount
  <2>1. CASE cl = call
    BY <1>4, <2>1
  <2>2. CASE cl = propagate_no_change(g)
    <3>1. CASE call[m].falsecount = 0
      BY <1>3, <1>4, <3>1
    <3>2. CASE call[m].falsecount # 0 /\ m \in Cleared(g)
      <4>1. cl[m].falsecount = 0
        BY <1>4, <2>2, <3>2, Validated
      <4> QED BY <1>4, <4>1
    <3>3. CASE call[m].falsecount # 0 /\ m \notin Cleared(g)
      <4>1. call[m].falsecount > 0
        BY <1>4, <3>3
      <4>2. cl[m].falsecount = call[m].falsecount - Hits(g, Cleared(g), m)
        BY <1>4, <2>2, <3>3, <4>1, Validated
      <4>3. Hits(g, Cleared(g), m) \in Nat /\ Hits(g, Cleared(g), m) < call[m].falsecount
        BY <1>4, <3>3, <4>1, ClearedAll
      <4> QED BY <1>4, <4>2, <4>3
    <3> QED BY <3>1, <3>2, <3>3
  <2> QED BY <1>3, <2>1, <2>2
<1>6. ASSUME NEW h \in Goals, table[h] # None
      PROVE  /\ table'[h] = table[h] /\ table[h] \in Node /\ table[h] # p /\ inedges'[table[h]] = inedges[table[h]]
             /\ h # g => table[h] # n /\ call'[table[h]] = cl[table[h]]
  <2>1. table[h] \in Node /\ table[h][1] = h
    BY <1>4, <1>6 DEF Tables
  <2>2. table[h] # p
    <3>1. CASE h = g
      BY <1>3, <1>4, <2>1, <3>1
    <3>2. CASE h # g
      BY <1>3, <1>4, <2>1, <3>2
    <3> QED BY <3>1, <3>2
  <2>3. h # g => table[h] # n
    BY <1>3, <2>1
  <2> QED BY <1>3, <2>1, <2>2, <2>3
<1>7. NodeLinks'
  <2> SUFFICES ASSUME NEW m \in Node, inedges'[m] # {}, call'[m].outedges
               PROVE  /\ table'[m[1]] # None
                      /\ m = table'[m[1]] \/ m = call'[table'[m[1]]].prev_call
    BY DEF NodeLinks
  <2>1. m # p
    BY <1>3, <1>4
  <2>2. inedges[m] # {} /\ call[m].outedges
    <3>1. CASE m = n
      BY <1>3, <2>1, <3>1
    <3>2. CASE m # n
      BY <1>3, <2>1, <3>2
    <3> QED BY <3>1, <3>2
  <2>3. /\ table[m[1]] # None
        /\ m = table[m[1]] \/ m = call[table[m[1]]].prev_call
    BY <2>2 DEF KInv, LInv, NodeLinks
  <2>4. CASE m = table[m[1]]
    BY <1>3, <2>3, <2>4
  <2>5. CASE m # table[m[1]]
    <3>1. m[1] # g
      BY <1>3, <2>1, <2>3, <2>5
    <3>2. m[1] \in Goals
      BY <1>4
    <3>3. call'[table[m[1]]].prev_call = call[table[m[1]]].prev_call
      BY <1>3, <1>6, <2>3, <3>1, <3>2
    <3> QED BY <1>3, <2>3, <2>5, <3>3
  <2> QED BY <2>4, <2>5
<1>8. Blocks'
  BY <1>3 DEF KInv, LInv, Blocks
<1>9. Bounded'
  <2>1. updates' \in Nat /\ updates <= updates' /\ updates' <= MaxUpdates
    BY <1>3, Counts DEF KInv, LInv, Bounded
  <2>2. \A m \in Node : \/ call'[m].falsecount \in Nat /\ call'[m].falsecount <= call[m].falsecount
                        \/ call'[m].falsecount = 0
    <3> SUFFICES ASSUME NEW m \in Node
                 PROVE \/ call'[m].falsecount \in Nat /\ call'[m].falsecount <= call[m].falsecount
                       \/ call'[m].falsecount = 0
      OBVIOUS
    <3>1. CASE m = p
      BY <1>3, <1>4, <3>1, NewFields
    <3>2. CASE m = n
      BY <1>3, <1>5, <3>2
    <3>3. CASE m # p /\ m # n
      BY <1>3, <1>5, <3>3
    <3> QED BY <3>1, <3>2, <3>3
  <2> QED BY <2>1, <2>2, BoundKept DEF KInv, LInv
<1>10. ASSUME Undisturbed' PROVE Marks(call)'
  <2>1. Marks(call) /\ Current(call) /\ Unmarked(call) /\ Above(call) /\ Within(call) /\ Counted(call)
    BY <1>3, <1>10 DEF KInv, Undisturbed, Marks
  <2>2. call[n].falsecount = 0 /\ ~call[n].deleted /\ cl[n] = call[n]
    BY <1>3, <2>1 DEF Unmarked
  <2>3. ~(0 > 0)
    OBVIOUS
  <2>4. ASSUME NEW s \in Goals, Invalid(call, s)' PROVE s # g /\ Invalid(call, s)
    <3>1. table[s] # None /\ table[s] \in Node
      BY <1>3, <1>6, <2>4 DEF Invalid
    <3>2. s # g
      <4>1. ~Invalid(call, g)'
        BY <1>3, <2>2, <2>3 DEF Invalid
      <4> QED BY <2>4, <4>1
    <3>3. call'[table[s]] = cl[table[s]]
      BY <1>6, <3>1, <3>2
    <3>4. \/ cl[table[s]].falsecount > 0
          \/ s \in IncompleteGoals' /\ cl[table[s]].prev_call # None
      BY <1>3, <2>4, <3>3 DEF Invalid
    <3>5. cl[table[s]].falsecount > 0 => call[table[s]].falsecount > 0
      BY <1>4, <1>5, <3>1
    <3> QED BY <1>3, <3>1, <3>2, <3>4, <3>5 DEF Invalid
  <2>5. ASSUME NEW h \in Goals, table[h] # None
        PROVE  Waits(call, table[h])' \subseteq Waits(call, table[h]) \ {g}
    <3> SUFFICES ASSUME NEW s \in Waits(call, table[h])' PROVE s \in Waits(call, table[h]) /\ s # g
      OBVIOUS
    <3>1. s \in inedges'[table'[h]] /\ s \in Goals /\ Invalid(call, s)'
      BY DEF Waits
    <3>2. s \in inedges[table[h]] /\ Invalid(call, s) /\ s # g
      BY <1>6, <2>4, <2>5, <3>1
    <3> QED BY <3>1, <3>2 DEF Waits
  <2>6. Current(call)'
    <3> SUFFICES ASSUME NEW m \in Node, call'[m].falsecount > 0, call'[m].outedges PROVE m = table'[m[1]]
      BY DEF Current
    <3>1. m # p
      BY <1>3, <1>4, NewFields
    <3>2. m # n
      BY <1>3, <2>2, <2>3
    <3>3. call'[m] = cl[m]
      BY <1>3, <3>1, <3>2
    <3>4. call[m].falsecount > 0 /\ call[m].outedges
      BY <1>3, <1>4, <1>5, <3>3
    <3> QED BY <1>3, <2>1, <3>4 DEF Current
  <2>7. Unmarked(call)'
    <3> SUFFICES ASSUME NEW h \in IncompleteGoals' PROVE call'[table'[h]].falsecount = 0 /\ ~call'[table'[h]].deleted
      BY DEF Unmarked
    <3>1. h \in IncompleteGoals /\ h \in Goals /\ table[h] # None /\ table[h] \in Node
      BY <1>3, <1>4
    <3>2. call[table[h]].falsecount = 0 /\ ~call[table[h]].deleted
      BY <2>1, <3>1 DEF Unmarked
    <3>3. CASE h = g
      BY <1>3, <2>2, <3>3
    <3>4. CASE h # g
      BY <1>3, <1>6, <3>1, <3>2, <3>4
    <3> QED BY <3>3, <3>4
  <2>8. Above(call)'
    <3> SUFFICES ASSUME NEW i \in DOMAIN stack', NEW h \in Goals, stack'[i].goal = h,
                        NEW s \in Waits(call, table[h])'
                 PROVE  \/ s \in Range1(completing)'
                        \/ \E j \in DOMAIN stack' : stack'[i].leader <= j /\ stack'[j].goal = s
      BY DEF Above
    <3>1. i \in DOMAIN stack /\ stack' = stack /\ stack[i].goal = h /\ table[h] # None
      BY <1>3, <1>4
    <3>2. s \in Waits(call, table[h]) /\ s # g
      BY <2>5, <3>1
    <3>3. \/ s \in Range1(completing)
          \/ \E j \in DOMAIN stack : stack[i].leader <= j /\ stack[j].goal = s
      BY <2>1, <3>1, <3>2 DEF Above
    <3> QED BY <1>3, <3>1, <3>2, <3>3
  <2>9. Within(call)'
    <3> SUFFICES ASSUME NEW h \in Range1(completing)', NEW s \in Waits(call, table[h])' PROVE s \in Range1(completing)'
      BY DEF Within
    <3>1. h \in Range1(completing) /\ h \in Goals /\ table[h] # None
      BY <1>3, <1>4 DEF IncompleteGoals
    <3>2. s \in Waits(call, table[h]) /\ s # g
      BY <2>5, <3>1
    <3> QED BY <1>3, <2>1, <3>1, <3>2 DEF Within
  <2>10. Counted(call)'
    <3> SUFFICES ASSUME NEW h \in Goals, IsCompleted(h)'
                 PROVE  /\ call'[table'[h]].deleted <=> call'[table'[h]].falsecount > 0
                        /\ call'[table'[h]].falsecount = 0 => Waits(call, table[h])' \subseteq Range1(completing)'
                        /\ call'[table'[h]].falsecount > 0 =>
                             Cardinality(Waits(call, table[h])') <= call'[table'[h]].falsecount
      BY DEF Counted
    <3> DEFINE V == Waits(call, table[h])'
               W == Waits(call, table[h])
               m == table[h]
               f == call[m].falsecount
    <3>1. table[h] # None /\ table'[h] = m /\ m \in Node /\ V \subseteq W \ {g} /\ W \in SUBSET inedges[m]
      <4>1. table[h] # None
        BY <1>3 DEF IsCompleted
      <4> QED BY <1>6, <2>5, <4>1 DEF Waits
    <3>2. f \in Nat
      BY <1>4, <3>1
    <3>3. CASE h = g
      <4>1. W \subseteq Range1(completing)
        BY <1>3, <2>1, <3>3 DEF Within
      <4>2. V \subseteq Range1(completing)'
        BY <1>3, <3>1, <4>1
      <4>3. call'[table'[h]].falsecount = 0 /\ ~call'[table'[h]].deleted
        BY <1>3, <2>2, <3>1, <3>3
      <4> QED BY <2>3, <4>2, <4>3
    <3>4. CASE h # g
      <4>1. IsCompleted(h) /\ call'[table'[h]] = cl[m]
        BY <1>3, <1>6, <3>1, <3>4 DEF IsCompleted
      <4>2. /\ call[m].deleted <=> f > 0
            /\ f = 0 => W \subseteq Range1(completing)
            /\ f > 0 => Cardinality(W) <= f
        BY <2>1, <4>1 DEF Counted
      <4> HIDE DEF V, W, m
      <4>3. Cardinality(V) \in Nat /\ Cardinality(W) \in Nat /\ Cardinality(V) <= Cardinality(W)
        BY <3>1, FewerWait
      <4>4. CASE f = 0
        <5>1. cl[m] = call[m] /\ V \subseteq Range1(completing)'
          BY <1>3, <3>1, <4>2, <4>4
        <5> QED BY <2>3, <4>1, <4>2, <4>4, <5>1 DEF V
      <4>5. CASE f # 0 /\ cl = call
        <5>1. call'[table'[h]] = call[m]
          BY <4>1, <4>5
        <5>2. f > 0 /\ Cardinality(V) <= f
          BY <3>2, <4>2, <4>3, <4>5
        <5> QED BY <4>2, <4>5, <5>1, <5>2 DEF V
      <4>6. CASE f # 0 /\ p # None /\ cl = propagate_no_change(g)
        <5>1. f > 0 /\ Cardinality(W) <= f /\ call[m].deleted
          BY <3>2, <4>2, <4>6
        <5>2. PICK H \in SUBSET Waits(call, m) :
                 /\ Hits(g, Cleared(g), m) = Cardinality(H)
                 /\ \A s \in H : s = g \/ (s \in Goals /\ table[s] \in Cleared(g))
          <6>1. call[table[g]].prev_call # None
            BY <1>3, <4>6
          <6> QED BY <1>3, <2>1, <3>1, <6>1, HitsWaited
        <5>3. H \in SUBSET W
          BY <5>2 DEF W, m
        <5>4. ASSUME NEW s \in V, s \in H PROVE FALSE
          <6>1. s # g /\ s \in Goals /\ table[s] \in Cleared(g) /\ Invalid(call, s)'
            BY <3>1, <5>2, <5>4 DEF V, Waits
          <6>2. table[s] \in Node /\ call[table[s]].falsecount > 0
            BY <1>4, <6>1, ClearedHit
          <6>3. cl[table[s]].falsecount = 0
            BY <1>4, <4>6, <6>1, <6>2, Validated
          <6>4. table[s] # None /\ call'[table[s]] = cl[table[s]]
            BY <1>4, <1>6, <6>1, <6>2
          <6>5. s \in IncompleteGoals
            BY <1>3, <2>3, <6>1, <6>3, <6>4 DEF Invalid
          <6>6. call[table[s]].falsecount = 0
            BY <2>1, <6>5 DEF Unmarked
          <6> QED BY <2>3, <6>2, <6>6
        <5>5. V \in SUBSET (W \ H)
          BY <3>1, <5>4
        <5>6. /\ Cardinality(H) \in Nat /\ Cardinality(V) + Cardinality(H) <= Cardinality(W)
              /\ Cardinality(W) <= Cardinality(H) => V = {}
          BY <3>1, <5>3, <5>5, TakenBack
        <5>7. CASE m \in Cleared(g)
          <6>1. f <= Cardinality(H)
            BY <1>4, <5>2, <5>7, ClearedHit
          <6>2. Cardinality(W) <= Cardinality(H)
            BY <3>2, <4>3, <5>1, <5>6, <6>1
          <6>3. V = {}
            BY <5>6, <6>2
          <6>4. cl[m].falsecount = 0 /\ ~cl[m].deleted
            BY <1>4, <3>1, <4>6, <5>7, Validated
          <6> QED BY <2>3, <4>1, <6>3, <6>4 DEF V
        <5>8. CASE m \notin Cleared(g)
          <6>1. cl[m].falsecount = f - Cardinality(H) /\ cl[m].deleted
            BY <1>4, <3>1, <4>6, <5>1, <5>2, <5>8, Validated
          <6>2. Cardinality(H) < f
            BY <1>4, <3>1, <5>1, <5>2, <5>8, ClearedAll
          <6> DEFINE y == f - Cardinality(H)
          <6>3. y \in Nat /\ y > 0 /\ y # 0 /\ Cardinality(V) <= y
            BY <3>2, <4>3, <5>1, <5>6, <6>2
          <6> HIDE DEF y
          <6> QED BY <4>1, <6>1, <6>3 DEF V, y
        <5> QED BY <5>7, <5>8
      <4> QED BY <1>3, <4>4, <4>5, <4>6
    <3> QED BY <3>3, <3>4
  <2> QED BY <2>6, <2>7, <2>8, <2>9, <2>10 DEF Marks
<1> QED BY <1>7, <1>8, <1>9, <1>10 DEF KInv, LInv

\* The node an invalidation starts from, if there is one.
Root(s) == IF s \in Goals THEN table[s] ELSE None

\* Nothing is invalidated from a node that is marked.
LEMMA RootMarked ==
  ASSUME NEW s \in Source, NEW o \in invalidate_call(s), Root(s) # None, call[Root(s)].deleted
  PROVE  o.call = call
<1>1. o \in {[call |-> call, thrown |-> FALSE]}
  BY DEF invalidate_call, Root
<1> QED BY <1>1

\* An invalidation without an error marks what it reaches, and stops at what is marked.
LEMMA SearchDone ==
  ASSUME NEW s \in Source, NEW o \in invalidate_call(s), ~o.thrown,
         Root(s) = None \/ ~call[Root(s)].deleted
  PROVE  \E V \in SUBSET Node :
            /\ o.call = dfs_outedges(Root(s), V, Crossed(s, V, Edges))
            /\ \A n \in V : ~IncompleteNode(n)
            /\ Root(s) # None => ~IncompleteNode(Root(s))
            /\ \A e \in Crossed(s, V, Edges) : e[2] \in V \/ e[2] = Root(s) \/ call[e[2]].deleted
<1> DEFINE root == Root(s)
           V == Visited(s, root, Edges)
           all == Crossed(s, V, Edges)
           Short(E) ==
             LET W == {n \in Visited(s, root, E) : ~IncompleteNode(n)}
             IN  /\ Cardinality({e \in E : e[2] \in V /\ IncompleteNode(e[2])}) = 1
                 /\ E = Crossed(s, W, E)
           Part(E) == dfs_outedges(root, {n \in Visited(s, root, E) : ~IncompleteNode(n)}, E)
           fresh == {n \in Node : ~call[n].deleted /\ n # root /\ \E e \in Edges : e[2] = n}
           Done(W) == \A e \in Edges : e[2] \in fresh /\ (e[1] = s \/ \E m \in W : m[1] = e[1]) => e[2] \in W
<1>1. V = {n \in fresh : \A W \in SUBSET fresh : Done(W) => n \in W}
  BY DEF Visited
<1>2. \A e \in Edges : e[2] \in Node
  BY DEF Edges
<1> HIDE DEF V
<1>3. ASSUME NEW e \in all PROVE e[2] \in V \/ e[2] = root \/ call[e[2]].deleted
  <2>1. e \in Edges /\ (e[1] = s \/ \E m \in V : m[1] = e[1])
    BY DEF Crossed
  <2> SUFFICES ASSUME e[2] \in fresh PROVE e[2] \in V
    BY <1>2, <2>1
  <2>2. ASSUME NEW W \in SUBSET fresh, Done(W) PROVE e[2] \in W
    <3>1. V \subseteq W
      BY <1>1, <2>2
    <3>2. e[1] = s \/ \E m \in W : m[1] = e[1]
      BY <2>1, <3>1
    <3> QED BY <2>1, <2>2, <3>2
  <2> QED BY <1>1, <2>2
<1>4. V \in SUBSET Node
  BY <1>1
<1> HIDE DEF Part, Short, root, all
<1>5. o \in IF root # None /\ call[root].deleted THEN {[call |-> call, thrown |-> FALSE]}
      ELSE IF root # None /\ IncompleteNode(root)
           THEN {[call |-> [call EXCEPT ![root].falsecount = (@ + 1) % FalseMod], thrown |-> TRUE]}
      ELSE IF \A n \in V : ~IncompleteNode(n)
           THEN {[call |-> dfs_outedges(root, V, all), thrown |-> FALSE]}
      ELSE {[call |-> Part(E), thrown |-> TRUE] : E \in {F \in SUBSET all : Short(F)}}
  BY DEF invalidate_call, V, root, Short, Part, all, Root
<1>7. ~(root # None /\ call[root].deleted)
  BY DEF root
<1>6. /\ o = [call |-> dfs_outedges(root, V, all), thrown |-> FALSE]
      /\ \A n \in V : ~IncompleteNode(n)
      /\ root # None => ~IncompleteNode(root)
  BY <1>5, <1>7
<1> QED BY <1>3, <1>4, <1>6 DEF root, all

\* The source of an invalidation and the tables it marks: their out-edges are counted.
LEMMA Spread ==
  ASSUME IInv, SInv, LInv, NoWrap, updates < MaxUpdates, NEW s \in Source,
         NEW o \in invalidate_call(s), ~o.thrown, Root(s) = None \/ ~call[Root(s)].deleted
  PROVE  \E A \in SUBSET Source : s \in A /\
            \A n \in Node :
               /\ IsFiniteSet(inedges[n] \cap A) /\ Cardinality(inedges[n] \cap A) \in Nat
               /\ inedges[n] \cap A = {} /\ n # Root(s) => o.call[n] = call[n]
               /\ inedges[n] \cap A # {} \/ n = Root(s) =>
                    /\ o.call[n].falsecount > 0 /\ o.call[n].deleted
                    /\ o.call[n].falsecount \in Nat
                    /\ call[n].falsecount + Cardinality(inedges[n] \cap A) <= o.call[n].falsecount
                    /\ call[n].deleted \/ (~IncompleteNode(n) /\ (n = Root(s) \/ n[1] \in A))
<1>1. PICK V \in SUBSET Node :
            /\ o.call = dfs_outedges(Root(s), V, Crossed(s, V, Edges))
            /\ \A n \in V : ~IncompleteNode(n)
            /\ Root(s) # None => ~IncompleteNode(Root(s))
            /\ \A e \in Crossed(s, V, Edges) : e[2] \in V \/ e[2] = Root(s) \/ call[e[2]].deleted
  BY SearchDone
<1> DEFINE A == {t \in Source : t = s \/ \E n \in V : n[1] = t}
           all == Crossed(s, V, Edges)
<1>2. all \in SUBSET (Source \X Node) /\ \A n \in Node, t \in Source : <<t, n>> \in all <=> t \in inedges[n] \cap A
  BY DEF Crossed, Edges, IInv, Graph
<1>3. A \in SUBSET Source /\ s \in A /\ \A n \in V : n[1] \in A
  BY DEF Node, Source
<1> HIDE DEF A
<1>4. ASSUME NEW n \in Node
      PROVE /\ IsFiniteSet(inedges[n] \cap A) /\ Cardinality(inedges[n] \cap A) \in Nat
            /\ inedges[n] \cap A = {} /\ n # Root(s) => o.call[n] = call[n]
            /\ inedges[n] \cap A # {} \/ n = Root(s) =>
                 /\ o.call[n].falsecount > 0 /\ o.call[n].deleted
                 /\ o.call[n].falsecount \in Nat
                 /\ call[n].falsecount + Cardinality(inedges[n] \cap A) <= o.call[n].falsecount
                 /\ call[n].deleted \/ (~IncompleteNode(n) /\ (n = Root(s) \/ n[1] \in A))
  <2> DEFINE S == inedges[n] \cap A
             h == Cardinality({e \in all : e[2] = n})
             k == h + (IF n = Root(s) THEN 1 ELSE 0)
             b == call[n].deleted \/ n = Root(s) \/ n \in V
             c == call[n].falsecount
  <2>1. S = {t \in Source : <<t, n>> \in all}
    <3>1. S \subseteq Source
      BY <1>3
    <3> QED BY <1>2, <3>1
  <2>2. o.call[n] = IF k = 0 THEN call[n]
                    ELSE [call[n] EXCEPT !.falsecount = (c + k) % FalseMod, !.deleted = b]
    BY <1>1 DEF dfs_outedges
  <2> HIDE DEF all
  <2>3. h = Cardinality(S) /\ IsFiniteSet(S) /\ Cardinality(S) \in Nat /\ Cardinality(S) + 1 <= PerUpdate
    BY <1>2, <2>1, EdgesInto
  <2>4. call[n] \in NodeRecord /\ c \in Nat /\ c < FalseMod /\ FalseMod \in Nat \ {0} /\ updates \in Nat
        /\ MaxUpdates \in Nat /\ PerUpdate \in Nat
    BY Counts, PerUpdateNat
  <2>5. c + PerUpdate < FalseMod
    <3>1. updates + 1 \in Nat /\ updates + 1 <= MaxUpdates
      BY <2>4
    <3>2. (updates + 1) * PerUpdate <= MaxUpdates * PerUpdate /\ MaxUpdates * PerUpdate \in Nat
          /\ (updates + 1) * PerUpdate \in Nat
      BY <2>4, <3>1, Multiples
    <3>3. (updates + 1) * PerUpdate = updates * PerUpdate + PerUpdate /\ updates * PerUpdate \in Nat
      BY <2>4, Multiples
    <3>4. c <= updates * PerUpdate /\ MaxUpdates * PerUpdate < FalseMod
      BY DEF LInv, Bounded, NoWrap
    <3> DEFINE x == updates * PerUpdate
               y == MaxUpdates * PerUpdate
    <3>5. x \in Nat /\ y \in Nat /\ x + PerUpdate <= y /\ c <= x /\ y < FalseMod
      BY <3>2, <3>3, <3>4
    <3> HIDE DEF x, y, c
    <3> QED BY <2>4, <3>5
  <2>6. \A x, d : LET r == [call[n] EXCEPT !.falsecount = x, !.deleted = d] IN r.falsecount = x /\ r.deleted = d
    BY <2>4 DEF NodeRecord
  <2>7. \/ b /\ (call[n].deleted \/ (~IncompleteNode(n) /\ (n = Root(s) \/ n[1] \in A)))
        \/ S = {} /\ n # Root(s)
    <3>1. CASE S # {}
      <4>1. PICK t \in S : TRUE
        BY <3>1
      <4>2. <<t, n>> \in all
        BY <2>1
      <4>3. n \in V \/ n = Root(s) \/ call[n].deleted
        BY <1>1, <4>2 DEF all
      <4> QED BY <1>1, <1>3, <4>3, FiniteGraph
    <3>2. CASE n = Root(s)
      BY <1>1, <3>2, FiniteGraph
    <3> QED BY <3>1, <3>2
  <2>8. S = {} => Cardinality(S) = 0
    BY FS_EmptySet
  <2>9. S # {} => Cardinality(S) # 0
    BY <2>3, FS_EmptySet
  <2> HIDE DEF h, S, b, c
  <2>10. k \in Nat /\ k <= PerUpdate /\ Cardinality(S) <= k
    BY <2>3, <2>4
  <2>11. S = {} /\ n # Root(s) => k = 0
    BY <2>3, <2>8
  <2>12. S # {} \/ n = Root(s) => k > 0 /\ k # 0
    BY <2>3, <2>9
  <2> HIDE DEF k
  <2>13. CASE S = {} /\ n # Root(s)
    BY <2>2, <2>3, <2>11, <2>13 DEF S
  <2>14. CASE S # {} \/ n = Root(s)
    <3>1. (c + k) % FalseMod = c + k /\ c + k \in Nat /\ c + k > 0
      <4> DEFINE x == c + k
      <4>1. x \in Nat /\ x < FalseMod /\ x > 0
        BY <2>4, <2>5, <2>10, <2>12, <2>14
      <4> HIDE DEF x
      <4>2. x % FalseMod = x
        BY <2>4, <4>1
      <4> QED BY <4>1, <4>2 DEF x
    <3>2. o.call[n].falsecount = c + k /\ o.call[n].deleted = b
      BY <2>2, <2>6, <2>12, <2>14, <3>1
    <3>3. c + Cardinality(S) <= c + k
      BY <2>3, <2>4, <2>10
    <3>4. b /\ (call[n].deleted \/ (~IncompleteNode(n) /\ (n = Root(s) \/ n[1] \in A)))
      BY <2>7, <2>14
    <3> QED BY <2>3, <2>14, <3>1, <3>2, <3>3, <3>4 DEF S, c
  <2> QED BY <2>13, <2>14
<1> QED BY <1>3, <1>4

\* What a table waits for after an invalidation it waited for or is invalidated by.
LEMMA WaitsSpread ==
  ASSUME IInv, SInv, completing = <<>>, Marks(call), NEW s \in Source, NEW A \in SUBSET Source, s \in A, NEW cl,
         \A n \in Node : cl[n].prev_call = call[n].prev_call,
         \A n \in Node : inedges[n] \cap A = {} /\ n # Root(s) => cl[n] = call[n],
         \A n \in Node : inedges[n] \cap A # {} \/ n = Root(s) =>
             call[n].deleted \/ (~IncompleteNode(n) /\ (n = Root(s) \/ n[1] \in A)),
         NEW n \in Node
  PROVE  Waits(cl, n) \subseteq Waits(call, n) \cup (inedges[n] \cap A)
<1> DEFINE R == Root(s)
<1>1. /\ \A m \in Node : inedges[m] \cap A = {} /\ m # R => cl[m] = call[m]
      /\ \A m \in Node : inedges[m] \cap A # {} \/ m = R =>
             call[m].deleted \/ (~IncompleteNode(m) /\ (m = R \/ m[1] \in A))
      /\ s \in A
  OBVIOUS
<1>2. Unmarked(call) /\ Counted(call)
  BY DEF Marks
<1>3. /\ Tables /\ table \in [Goals -> Node \cup {None}]
      /\ \A m \in Node : call[m].falsecount \in Nat
  BY Counts DEF IInv, SInv, Evaluation
<1>4. \A m \in Node : cl[m].prev_call = call[m].prev_call
  OBVIOUS
<1>5. ~(0 > 0)
  OBVIOUS
<1>6. R # None => R[1] = s /\ s \in Goals /\ R = table[s]
  BY <1>3 DEF Root, Tables
<1> HIDE DEF R
<1>8. ASSUME NEW g \in Goals, table[g] # None, call[table[g]].falsecount = 0, cl[table[g]].falsecount > 0
      PROVE  g \notin IncompleteGoals /\ g \in A
  <2> DEFINE t == table[g]
  <2>1. t \in Node /\ t[1] = g
    BY <1>3, <1>8 DEF Tables
  <2>2. inedges[t] \cap A # {} \/ t = R
    BY <1>1, <1>5, <1>8, <2>1
  <2>3. ~call[t].deleted
    <3>1. CASE g \in IncompleteGoals
      BY <1>2, <3>1 DEF Unmarked
    <3>2. CASE g \notin IncompleteGoals
      <4>1. IsCompleted(g)
        BY <1>8, <3>2 DEF IsCompleted
      <4>2. call[table[g]].deleted <=> call[table[g]].falsecount > 0
        BY <1>2, <4>1 DEF Counted
      <4> QED BY <1>5, <1>8, <4>2
    <3> QED BY <3>1, <3>2
  <2>4. ~IncompleteNode(t) /\ (t = R \/ g \in A)
    BY <1>1, <2>1, <2>2, <2>3
  <2>5. g \notin IncompleteGoals
    BY <2>1, <2>4 DEF IncompleteNode
  <2>6. t = R => g = s
    BY <1>6, <1>8, <2>1
  <2> QED BY <1>1, <2>4, <2>5, <2>6
<1>9. ASSUME NEW g \in Goals, Invalid(cl, g) PROVE Invalid(call, g) \/ g \in A
  <2>1. table[g] # None /\ table[g] \in Node
    BY <1>3, <1>9 DEF Invalid
  <2>2. CASE cl[table[g]].falsecount > 0
    <3>1. CASE call[table[g]].falsecount = 0
      BY <1>8, <2>1, <2>2, <3>1
    <3>2. CASE call[table[g]].falsecount # 0
      <4>1. call[table[g]].falsecount > 0
        BY <1>3, <2>1, <3>2
      <4> QED BY <2>1, <4>1 DEF Invalid
    <3> QED BY <3>1, <3>2
  <2>3. CASE ~(cl[table[g]].falsecount > 0)
    BY <1>4, <1>9, <2>1, <2>3 DEF Invalid
  <2> QED BY <2>2, <2>3
<1> QED BY <1>9 DEF Waits

\* The marks after an invalidation that neither stops with an error nor reaches the
\* previous node of a table that is computed again.
LEMMA MarksSpread ==
  ASSUME IInv, SInv, LInv, NoWrap, updates < MaxUpdates, completing = <<>>, Marks(call), NEW s \in Source,
         s \in Goals => table[s] # None, NEW o \in invalidate_call(s), ~o.thrown,
         \A g \in IncompleteGoals :
             LET p == call[table[g]].prev_call
             IN  p # None => o.call[p].falsecount = call[p].falsecount
  PROVE  Marks(o.call)
<1>1. CASE o.call = call
  BY <1>1
<1>2. CASE o.call # call
  <2> DEFINE cl == o.call
             R == Root(s)
  <2>1. PICK A \in SUBSET Source : s \in A /\
            \A n \in Node :
               /\ IsFiniteSet(inedges[n] \cap A) /\ Cardinality(inedges[n] \cap A) \in Nat
               /\ inedges[n] \cap A = {} /\ n # R => cl[n] = call[n]
               /\ inedges[n] \cap A # {} \/ n = R =>
                    /\ cl[n].falsecount > 0 /\ cl[n].deleted
                    /\ cl[n].falsecount \in Nat
                    /\ call[n].falsecount + Cardinality(inedges[n] \cap A) <= cl[n].falsecount
                    /\ call[n].deleted \/ (~IncompleteNode(n) /\ (n = R \/ n[1] \in A))
    <3>1. R = None \/ ~call[R].deleted
      BY <1>2, RootMarked
    <3> QED BY <3>1, Spread
  <2>2. /\ Current(call) /\ Unmarked(call) /\ Above(call) /\ Counted(call) /\ Range1(completing) = {}
    BY DEF Marks, Range1
  <2>3. /\ Tables /\ Previous /\ table \in [Goals -> Node \cup {None}] /\ IncompleteGoals \subseteq Goals
        /\ \A h \in IncompleteGoals : table[h] # None
        /\ \A m \in Node : m # None /\ m[1] \in Goals /\ call[m].falsecount \in Nat
        /\ \A i \in DOMAIN stack : stack[i].goal \in IncompleteGoals
    BY IncompleteAreGoals, FiniteGraph, Counts DEF IInv, SInv, Evaluation, Stacks, Node, IncompleteGoals
  <2>4. \A n \in Node : cl[n].prev_call = call[n].prev_call /\ cl[n].outedges = call[n].outedges
    BY MarkedNodes DEF Alike
  <2>5. ~(0 > 0)
    OBVIOUS
  <2>6. R # None => R[1] = s /\ s \in Goals /\ R = table[s]
    BY <2>3 DEF Root, Tables
  <2>7. \A g \in IncompleteGoals :
             call[table[g]].prev_call # None =>
                 cl[call[table[g]].prev_call].falsecount = call[call[table[g]].prev_call].falsecount
    OBVIOUS
  <2> HIDE DEF cl, R
  <2>10. ASSUME NEW n \in Node PROVE Waits(cl, n) \subseteq Waits(call, n) \cup (inedges[n] \cap A)
    <3>1. \A m \in Node : cl[m].prev_call = call[m].prev_call
      BY <2>4
    <3>2. \A m \in Node : inedges[m] \cap A = {} /\ m # Root(s) => cl[m] = call[m]
      BY <2>1 DEF R
    <3>3. \A m \in Node : inedges[m] \cap A # {} \/ m = Root(s) =>
             call[m].deleted \/ (~IncompleteNode(m) /\ (m = Root(s) \/ m[1] \in A))
      BY <2>1 DEF R
    <3> QED BY <2>1, <3>1, <3>2, <3>3, WaitsSpread
  <2>11. ASSUME NEW g \in IncompleteGoals
         PROVE  /\ cl[table[g]] = call[table[g]] /\ Waits(cl, table[g]) \subseteq Waits(call, table[g])
                /\ table[g] \in Node
    <3>1. g \in Goals /\ table[g] \in Node /\ table[g][1] = g
      BY <2>3 DEF Tables
    <3>2. IncompleteNode(table[g]) /\ ~call[table[g]].deleted
      BY <2>2, <3>1 DEF IncompleteNode, Unmarked
    <3>3. inedges[table[g]] \cap A = {} /\ table[g] # R
      BY <2>1, <3>1, <3>2
    <3> QED BY <2>1, <2>10, <3>1, <3>3
  <2>12. Current(cl)
    <3> SUFFICES ASSUME NEW n \in Node, cl[n].falsecount > 0, cl[n].outedges PROVE n = table[n[1]]
      BY DEF Current
    <3>1. CASE call[n].falsecount # 0
      <4>1. call[n].falsecount > 0 /\ call[n].outedges
        BY <2>3, <2>4, <3>1
      <4> QED BY <2>2, <4>1 DEF Current
    <3>2. CASE call[n].falsecount = 0 /\ n = R
      BY <2>3, <2>6, <3>2
    <3>3. CASE call[n].falsecount = 0 /\ n # R
      <4>1. inedges[n] # {} /\ call[n].outedges
        BY <2>1, <2>4, <2>5, <3>3
      <4>2. /\ table[n[1]] # None
            /\ n = table[n[1]] \/ n = call[table[n[1]]].prev_call
        BY <4>1 DEF LInv, NodeLinks
      <4>3. ASSUME n # table[n[1]] PROVE FALSE
        <5> DEFINE g == n[1]
        <5>1. g \in Goals /\ table[g] \in Node /\ table[g][1] = g /\ call[table[g]].prev_call = n
          BY <2>3, <4>2, <4>3 DEF Tables
        <5>2. g \in IncompleteGoals /\ call[table[g]].prev_call # None
          BY <2>3, <5>1 DEF Previous
        <5>3. cl[n].falsecount = call[n].falsecount
          BY <2>7, <5>1, <5>2
        <5> QED BY <2>5, <3>3, <5>3
      <4> QED BY <4>3
    <3> QED BY <3>1, <3>2, <3>3
  <2>13. Unmarked(cl)
    BY <2>2, <2>11 DEF Unmarked
  <2>14. Above(cl)
    <3> SUFFICES ASSUME NEW i \in DOMAIN stack, NEW g \in Goals, stack[i].goal = g, NEW t \in Waits(cl, table[g])
                 PROVE  \/ t \in Range1(completing)
                        \/ \E j \in DOMAIN stack : stack[i].leader <= j /\ stack[j].goal = t
      BY DEF Above
    <3>1. t \in Waits(call, table[g])
      BY <2>3, <2>11
    <3> QED BY <2>2, <3>1 DEF Above
  <2>15. Within(cl)
    BY <2>2 DEF Within
  <2>16. Counted(cl)
    <3> SUFFICES ASSUME NEW g \in Goals, IsCompleted(g)
                 PROVE  /\ cl[table[g]].deleted <=> cl[table[g]].falsecount > 0
                        /\ cl[table[g]].falsecount = 0 => Waits(cl, table[g]) \subseteq Range1(completing)
                        /\ cl[table[g]].falsecount > 0 =>
                             Cardinality(Waits(cl, table[g])) <= cl[table[g]].falsecount
      BY DEF Counted
    <3> DEFINE n == table[g]
               S == inedges[n] \cap A
               V == Waits(cl, n)
               W == Waits(call, n)
               f == call[n].falsecount
    <3>1. n \in Node
      BY <2>3 DEF IsCompleted
    <3>2. /\ call[n].deleted <=> f > 0
          /\ f = 0 => W \subseteq {}
          /\ f > 0 => Cardinality(W) <= f
      BY <2>2 DEF Counted
    <3>3. V \subseteq W \cup S /\ W \in SUBSET inedges[n] /\ f \in Nat
      BY <2>3, <2>10, <3>1 DEF Waits
    <3>4. CASE S = {} /\ n # R
      <4>1. cl[n] = call[n] /\ V \subseteq W
        BY <2>1, <3>1, <3>3, <3>4
      <4> HIDE DEF n, V, W
      <4>2. Cardinality(V) \in Nat /\ Cardinality(W) \in Nat /\ Cardinality(V) <= Cardinality(W)
        BY <3>1, <3>3, <4>1, FewerWait
      <4>3. f > 0 => Cardinality(V) <= f
        BY <3>2, <3>3, <4>2
      <4>4. f = 0 => V \subseteq Range1(completing)
        BY <3>2, <4>1
      <4>5. /\ cl[n].deleted <=> cl[n].falsecount > 0
            /\ cl[n].falsecount = 0 => V \subseteq Range1(completing)
            /\ cl[n].falsecount > 0 => Cardinality(V) <= cl[n].falsecount
        BY <3>2, <4>1, <4>3, <4>4
      <4> QED BY <4>5 DEF n, V
    <3>5. CASE S # {} \/ n = R
      <4>1. /\ cl[n].falsecount > 0 /\ cl[n].deleted /\ cl[n].falsecount \in Nat
            /\ f + Cardinality(S) <= cl[n].falsecount
            /\ IsFiniteSet(S) /\ Cardinality(S) \in Nat
        BY <2>1, <3>1, <3>5
      <4> HIDE DEF n, V, W, S
      <4>2. IsFiniteSet(W) /\ Cardinality(W) \in Nat
        <5>1. W \in SUBSET W
          OBVIOUS
        <5> QED BY <3>1, <3>3, <5>1, FewerWait
      <4>3. Cardinality(W) <= f
        <5>1. CASE f = 0
          <6>1. W = {}
            BY <3>2, <5>1
          <6> QED BY <5>1, <6>1, FS_EmptySet
        <5>2. CASE f # 0
          BY <3>2, <3>3, <5>2
        <5> QED BY <5>1, <5>2
      <4>4. /\ IsFiniteSet(W \cup S) /\ Cardinality(W \cup S) \in Nat /\ Cardinality(W \cap S) \in Nat
            /\ Cardinality(W \cup S) = Cardinality(W) + Cardinality(S) - Cardinality(W \cap S)
        <5>1. IsFiniteSet(W \cup S) /\ IsFiniteSet(W \cap S)
          BY <4>1, <4>2, FS_Union, FS_Intersection
        <5> QED BY <4>1, <4>2, <5>1, FS_Union, FS_CardinalityType
      <4>5. Cardinality(V) \in Nat /\ Cardinality(V) <= Cardinality(W \cup S)
        BY <3>3, <4>4, FS_Subset, FS_CardinalityType
      <4>6. Cardinality(V) <= f + Cardinality(S)
        BY <3>3, <4>1, <4>2, <4>3, <4>4, <4>5
      <4>7. Cardinality(V) <= cl[n].falsecount
        BY <3>3, <4>1, <4>5, <4>6
      <4>8. cl[n].falsecount # 0
        BY <4>1
      <4> QED BY <4>1, <4>7, <4>8 DEF n, V
    <3> QED BY <3>4, <3>5
  <2>17. Marks(cl)
    BY <2>12, <2>13, <2>14, <2>15, <2>16 DEF Marks
  <2> QED BY <2>17 DEF cl
<1> QED BY <1>1, <1>2

\* An update that invalidates without changing the tables.
LEMMA InvalidationCounts ==
  ASSUME IInv, SInv, KInv, NoWrap, updates < MaxUpdates, completing = <<>>, NEW s \in Source,
         s \in Goals => table[s] # None, NEW o \in invalidate_call(s), call' = o.call, Disturbs(o),
         updates' = updates + 1, UNCHANGED <<table, inedges, stack, completing>>
  PROVE  KInv'
<1>1. /\ table' = table /\ inedges' = inedges /\ stack' = stack /\ completing' = completing
      /\ IncompleteGoals' = IncompleteGoals /\ \A g \in IncompleteGoals : table[g] # None
  BY DEF IncompleteGoals, Range1, IInv, Stacks
<1>2. \A n \in Node : o.call[n].prev_call = call[n].prev_call /\ o.call[n].outedges = call[n].outedges
  BY MarkedNodes DEF Alike
<1>3. \A n \in Node : o.call[n].falsecount \in Nat /\ o.call[n].falsecount <= call[n].falsecount + PerUpdate
  BY CountsGrow
<1>4. NodeLinks'
  <2>1. \A n \in Node : call'[n].prev_call = call[n].prev_call /\ call'[n].outedges = call[n].outedges
    BY <1>2
  <2>2. \A n \in Node : inedges'[n] # {} => inedges[n] # {} \/ n = table[n[1]]
    BY <1>1
  <2> QED BY <2>1, <2>2, LinksKept DEF KInv, LInv
<1>5. Blocks'
  BY <1>1 DEF KInv, LInv, Blocks
<1>6. Bounded'
  <2>1. updates' \in Nat /\ updates' <= MaxUpdates /\ updates <= updates'
    BY Counts
  <2>2. \A n \in Node : call'[n].falsecount \in Nat /\ call'[n].falsecount <= call[n].falsecount + PerUpdate
    BY <1>3
  <2> QED BY <2>1, <2>2, BoundKept DEF KInv, LInv
<1>7. ASSUME Undisturbed' PROVE Marks(call)'
  <2>1. /\ Undisturbed /\ ~o.thrown
        /\ \A g \in IncompleteGoals :
             LET p == call[table[g]].prev_call
             IN  p # None => o.call[p].falsecount = call[p].falsecount
    BY <1>7 DEF Disturbs, Undisturbed
  <2>2. Marks(call) /\ LInv
    BY <2>1 DEF KInv
  <2> DEFINE cl == o.call
  <2>3. Marks(cl)
    BY <2>1, <2>2, MarksSpread
  <2>4. /\ \A n \in Node : cl[n].falsecount \in Nat
        /\ call' = cl
    BY <1>3
  <2> HIDE DEF cl
  <2>5. \A g \in Goals : table'[g] # None =>
             /\ table'[g] = table[g]
             /\ call'[table[g]].falsecount = cl[table[g]].falsecount
             /\ call'[table[g]].deleted = cl[table[g]].deleted
             /\ call'[table[g]].prev_call = cl[table[g]].prev_call
    BY <1>1, <2>4
  <2>6. \A n \in Node : call'[n].falsecount > 0 /\ call'[n].outedges =>
             cl[n].falsecount > 0 /\ cl[n].outedges /\ table'[n[1]] = table[n[1]]
    BY <1>1, <2>4
  <2>7. /\ \A n \in Node, t \in Goals : t \in inedges'[n] => t \in inedges[n]
        /\ \A g \in IncompleteGoals' : table'[g] # None
    BY <1>1
  <2> QED BY <1>1, <2>3, <2>4, <2>5, <2>6, <2>7, MarksShrink
<1> QED BY <1>4, <1>5, <1>6, <1>7 DEF KInv, LInv

\* abolish_table_call: the table is gone with what is waited for.
LEMMA AbolishCounts == ASSUME IInv, SInv, KInv, NoWrap, NEW g \in Goals, abolish_table_call(g) PROVE KInv'
<1>1. PICK o \in invalidate_call(g) :
        /\ Disturbs(o)
        /\ IF o.thrown THEN call' = o.call /\ UNCHANGED <<table, out, outcount, inedges>>
           ELSE Detach({g}, o.call)
  BY DEF abolish_table_call
<1>2. /\ UNCHANGED <<stack, completing>> /\ completing = <<>> /\ updates < MaxUpdates /\ updates' = updates + 1
      /\ IsCompleted(g) /\ table[g] # None /\ g \notin IncompleteGoals /\ g \in Source
  BY DEF abolish_table_call, CanUpdate, IsCompleted, evalVars, Source
<1>3. CASE o.thrown
  BY <1>1, <1>2, <1>3, InvalidationCounts
<1>4. CASE ~o.thrown
  <2> DEFINE t == table[g]
             cl == o.call
  <2>1. /\ Tables /\ Previous /\ table \in [Goals -> Node \cup {None}] /\ IncompleteGoals \subseteq Goals
        /\ \A h \in IncompleteGoals : table[h] # None
        /\ \A m \in Node : m # None /\ m[1] \in Goals /\ call[m].falsecount \in Nat
        /\ IncompleteGoals' = IncompleteGoals
    BY <1>2, IncompleteAreGoals, FiniteGraph, Counts DEF IInv, SInv, Evaluation, Stacks, Node, IncompleteGoals, Range1
  <2>2. Alike(cl)
    BY <1>2, MarkedNodes
  <2>3. \A n \in Node : cl[n].prev_call = call[n].prev_call /\ cl[n].outedges = call[n].outedges
    BY <2>2 DEF Alike
  <2>4. \A n \in Node : cl[n].falsecount \in Nat /\ cl[n].falsecount <= call[n].falsecount + PerUpdate
    BY <1>2, CountsGrow
  <2>5. Detach({g}, cl)
    BY <1>1, <1>4
  <2>6. Undisturbed' => Undisturbed /\ Marks(cl)
    <3> SUFFICES ASSUME Undisturbed' PROVE Undisturbed /\ Marks(cl)
      OBVIOUS
    <3>1. /\ Undisturbed
          /\ \A h \in IncompleteGoals :
               LET p == call[table[h]].prev_call
               IN  p # None => o.call[p].falsecount = call[p].falsecount
      BY <1>1 DEF Disturbs, Undisturbed
    <3>2. Marks(call) /\ LInv
      BY <3>1 DEF KInv
    <3> QED BY <1>2, <1>4, <3>1, <3>2, MarksSpread
  <2> HIDE DEF cl
  <2>20. IsCompleted(g) /\ Alike(cl) /\ Detach({g}, cl)
    BY <1>2, <2>2, <2>5
  <2>7. t \in Node /\ t[1] = g /\ t # None
    BY <2>20, TableAbolished
  <2>8. \A h \in Goals : table'[h] = IF h = g THEN None ELSE table[h]
    BY <2>20, TableAbolished
  <2>9. \A n \in Node : inedges'[n] \subseteq inedges[n] /\ (n = t => inedges'[n] = {})
    BY <2>20, TableAbolished
  <2>10. call'[t] = Freed /\ \A n \in Node \ {t} : call'[n] = cl[n]
    BY <2>20, NodesAbolished
  <2> HIDE DEF t
  <2>11. ASSUME NEW h \in Goals, table'[h] # None
         PROVE  h # g /\ table'[h] = table[h] /\ table[h] \in Node /\ call'[table[h]] = cl[table[h]]
    <3>1. h # g /\ table'[h] = table[h] /\ table[h] # None
      BY <2>8, <2>11
    <3>2. table[h] \in Node /\ table[h] # t
      BY <2>1, <2>7, <3>1 DEF Tables
    <3> QED BY <2>10, <3>1, <3>2 DEF t
  <2>12. NodeLinks'
    <3> SUFFICES ASSUME NEW m \in Node, inedges'[m] # {}, call'[m].outedges
                 PROVE  /\ table'[m[1]] # None
                        /\ m = table'[m[1]] \/ m = call'[table'[m[1]]].prev_call
      BY DEF NodeLinks
    <3>1. m # t /\ inedges[m] # {} /\ call[m].outedges
      BY <2>3, <2>9, <2>10 DEF t
    <3>2. /\ table[m[1]] # None
          /\ m = table[m[1]] \/ m = call[table[m[1]]].prev_call
      BY <3>1 DEF KInv, LInv, NodeLinks
    <3>3. m[1] # g
      <4>1. ASSUME m[1] = g PROVE FALSE
        <5>1. m = call[t].prev_call /\ m # None
          BY <2>1, <3>1, <3>2, <4>1 DEF t
        <5> QED BY <1>2, <2>1, <2>7, <5>1 DEF Previous
      <4> QED BY <4>1
    <3>4. m[1] \in Goals /\ table'[m[1]] = table[m[1]]
      BY <2>1, <2>8, <3>3
    <3>5. call'[table[m[1]]].prev_call = call[table[m[1]]].prev_call
      BY <2>3, <2>11, <3>2, <3>4
    <3> QED BY <3>2, <3>4, <3>5
  <2>13. Blocks'
    BY <1>2 DEF KInv, LInv, Blocks
  <2>14. Bounded'
    <3>1. updates' \in Nat /\ updates' <= MaxUpdates /\ updates <= updates'
      BY <1>2, Counts
    <3>2. \A n \in Node : \/ call'[n].falsecount = 0
                          \/ call'[n].falsecount \in Nat /\ call'[n].falsecount <= call[n].falsecount + PerUpdate
      BY <2>4, <2>10, NewFields DEF t
    <3> QED BY <1>2, <3>1, <3>2, BoundKept DEF KInv, LInv
  <2>15. ASSUME Undisturbed' PROVE Marks(call)'
    <3>1. Marks(cl) /\ \A n \in Node : cl[n].falsecount \in Nat
      BY <2>4, <2>6, <2>15
    <3>2. \A h \in Goals : table'[h] # None =>
               /\ table'[h] = table[h]
               /\ call'[table[h]].falsecount = cl[table[h]].falsecount
               /\ call'[table[h]].deleted = cl[table[h]].deleted
               /\ call'[table[h]].prev_call = cl[table[h]].prev_call
      BY <2>11
    <3>3. \A n \in Node, s \in Goals : s \in inedges'[n] => s \in inedges[n]
      BY <2>9
    <3>4. ASSUME NEW n \in Node, call'[n].falsecount > 0, call'[n].outedges
          PROVE  cl[n].falsecount > 0 /\ cl[n].outedges /\ table'[n[1]] = table[n[1]]
      <4>1. n # t /\ call'[n] = cl[n]
        BY <2>10, <3>4, NewFields DEF t
      <4>2. n = table[n[1]]
        BY <3>1, <3>4, <4>1 DEF Marks, Current
      <4>3. n[1] # g
        BY <4>1, <4>2 DEF t
      <4> QED BY <2>1, <2>8, <3>4, <4>1, <4>3
    <3>5. \A h \in IncompleteGoals' : table'[h] # None
      BY <1>2, <2>1, <2>8
    <3> QED BY <1>2, <3>1, <3>2, <3>3, <3>4, <3>5, MarksShrink
  <2> QED BY <2>12, <2>13, <2>14, <2>15 DEF KInv, LInv
<1> QED BY <1>3, <1>4

\* Steps that leave graph and evaluation alone.
LEMMA StillCounts ==
  ASSUME IInv, SInv, KInv, UNCHANGED <<graphVars, stack, completing>>,
         updates' \in Nat, updates <= updates', updates' <= MaxUpdates, Undisturbed' => Undisturbed
  PROVE  KInv'
<1>1. UNCHANGED <<table, call, inedges, stack, completing>>
  BY DEF graphVars
<1>2. \A n \in Node :
        /\ call'[n].prev_call = call[n].prev_call /\ call'[n].outedges = call[n].outedges
        /\ call'[n].falsecount = call[n].falsecount /\ call'[n].deleted = call[n].deleted
  BY <1>1
<1>3. /\ \A n \in Node, s \in Goals : s \in inedges'[n] => s \in inedges[n]
      /\ \A n \in Node : inedges'[n] # {} => inedges[n] # {} \/ n = table[n[1]]
  BY <1>1
<1> QED BY <1>1, <1>2, <1>3, QuietCounts

\* The call of a goal by another one or by the user.
LEMMA CallCounts ==
  ASSUME IInv, SInv, KInv, completing = <<>>, completing' = completing, NEW c \in Caller,
         c = User \/ c \in IncompleteGoals, NEW d \in Goals, CallTable(c, d), UNCHANGED histVars
  PROVE  KInv'
<1>1. CASE CallValidTable(c, d)
  BY <1>1, ValidCallCounts
<1>2. CASE \E n \in Node : Produces(c, d, n)
  <2>1. PICK n \in Node : Produces(c, d, n)
    BY <1>2
  <2>2. c \in Goals => c \in IncompleteGoals
    BY CallGraphAssumption
  <2> QED BY <2>1, <2>2, ProducerCounts
<1> QED BY <1>1, <1>2, CallCases

LEMMA CallGoalCounts == ASSUME IInv, SInv, KInv, NEW g \in Goals, CallGoal(g) PROVE KInv'
<1>1. PICK d \in Goals :
        \/ CallTable(g, d) /\ UNCHANGED <<completing, histVars>>
        \/ LazyReeval(g, d)
        \/ LazyError(d)
  BY DEF CallGoal
<1>2. Active(g) /\ g \in Caller
  BY DEF CallGoal, CallsLiteral, Caller
<1>3. completing = <<>> /\ (g = User \/ g \in IncompleteGoals)
  BY <1>2, AtWork
<1>4. CASE CallTable(g, d) /\ UNCHANGED <<completing, histVars>>
  BY <1>2, <1>3, <1>4, CallCounts
<1>5. CASE LazyReeval(g, d)
  BY <1>5, LazyCounts
<1>6. CASE LazyError(d)
  BY <1>3, <1>6, Aborts, UnwindCounts
<1> QED BY <1>1, <1>4, <1>5, <1>6

LEMMA CallQueryCounts == ASSUME IInv, SInv, KInv, CallQuery PROVE KInv'
<1>1. User \in Caller /\ Active(User)
  BY DEF CallQuery, Caller
<1>2. completing = <<>> /\ query \in Goals
  BY <1>1, AtWork
<1>3. CASE CallTable(User, query) /\ UNCHANGED <<completing, histVars>>
  BY <1>1, <1>2, <1>3, CallCounts
<1>4. CASE LazyReeval(User, query)
  BY <1>2, <1>4, LazyCounts
<1> QED BY <1>3, <1>4 DEF CallQuery

LEMMA HandlerCounts == ASSUME IInv, SInv, KInv, NEW c \in Caller, RunHandler(c) PROVE KInv'
<1> DEFINE d == Head(lazy[c])
<1>1. Active(c) /\ lazy[c] # <<>>
  BY DEF RunHandler
<1>2. completing = <<>> /\ (c = User \/ c \in IncompleteGoals)
  BY <1>1, AtWork
<1>3. d \in Goals
  <2>1. lazy[c] \in Seq(Goals)
    BY DEF IInv, Evaluation
  <2> QED BY <1>1, <2>1
<1>4. \/ UNCHANGED <<graphVars, stack, completing, histVars>>
      \/ CallInvalidTable(c, d) /\ UNCHANGED <<completing, histVars>>
      \/ LazyReeval(c, d)
      \/ LazyError(d)
  BY DEF RunHandler
<1> HIDE DEF d
<1>5. CASE UNCHANGED <<graphVars, stack, completing, histVars>>
  BY <1>5, HistoryStays, StillCounts
<1>6. CASE CallInvalidTable(c, d) /\ UNCHANGED <<completing, histVars>>
  BY <1>2, <1>3, <1>6, CallCounts DEF CallTable
<1>7. CASE LazyReeval(c, d)
  BY <1>3, <1>7, LazyCounts
<1>8. CASE LazyError(d)
  BY <1>2, <1>3, <1>8, Aborts, UnwindCounts
<1> QED BY <1>4, <1>5, <1>6, <1>7, <1>8

LEMMA InvalidateCounts == ASSUME IInv, SInv, KInv, NoWrap, NEW d \in Goals, incr_invalidate_call(d) PROVE KInv'
<1>1. PICK o \in invalidate_call(d) : call' = o.call /\ Disturbs(o)
  BY DEF incr_invalidate_call
<1>2. /\ d \in Source /\ table[d] # None /\ UNCHANGED <<table, inedges, stack, completing>>
      /\ completing = <<>> /\ updates < MaxUpdates /\ updates' = updates + 1
  BY DEF incr_invalidate_call, CanUpdate, Source, evalVars
<1> QED BY <1>1, <1>2, InvalidationCounts

LEMMA UpdateCounts ==
  ASSUME IInv, SInv, KInv, NoWrap, NEW f \in Facts, NEW d, NEW ch, UpdateFact(f, d, ch) PROVE KInv'
<1>1. PICK o \in invalidate_call(f) : call' = o.call /\ Disturbs(o)
  BY DEF UpdateFact
<1>2. /\ f \in Source /\ f \notin Goals /\ UNCHANGED <<table, inedges, stack, completing>>
      /\ completing = <<>> /\ updates < MaxUpdates /\ updates' = updates + 1
  BY CallGraphAssumption DEF UpdateFact, CanUpdate, Source, evalVars
<1> QED BY <1>1, <1>2, InvalidationCounts

\* At first there is nothing to count.
LEMMA InitCounts == Init => KInv
<1> SUFFICES ASSUME Init PROVE KInv
  OBVIOUS
<1>1. /\ stack = <<>> /\ completing = <<>> /\ updates = 0
      /\ \A g \in Goals : table[g] = None
      /\ \A n \in Node : call[n] = Freed /\ inedges[n] = {}
      /\ ~(0 > 0) /\ IncompleteGoals = {} /\ Range1(completing) = {}
  BY DEF Init, IncompleteGoals, Range1
<1>2. NodeLinks /\ Blocks
  BY <1>1 DEF NodeLinks, Blocks
<1>3. Bounded
  <2>1. MaxUpdates \in Nat /\ 0 * PerUpdate = 0
    BY CallGraphAssumption, PerUpdateNat
  <2> QED BY <1>1, <2>1, NewFields DEF Bounded
<1>4. Marks(call)
  <2>1. Current(call)
    BY <1>1, NewFields DEF Current
  <2>2. Unmarked(call) /\ Above(call) /\ Within(call)
    BY <1>1 DEF Unmarked, Above, Within
  <2>3. Counted(call)
    BY <1>1 DEF Counted, IsCompleted
  <2> QED BY <2>1, <2>2, <2>3 DEF Marks
<1> QED BY <1>2, <1>3, <1>4 DEF KInv, LInv

\* Every step keeps counts and marks.
LEMMA StepCounts == ASSUME IInv, SInv, KInv, NoWrap, [Next]_vars PROVE KInv'
<1>1. ASSUME NEW g \in Goals, NewAnswer(g) PROVE KInv'
  BY <1>1, AnswerCounts
<1>2. ASSUME NEW g \in Goals, CallFact(g) PROVE KInv'
  BY <1>2, FactCounts
<1>3. ASSUME NEW g \in Goals, CallGoal(g) PROVE KInv'
  BY <1>3, CallGoalCounts
<1>4. ASSUME NEW c \in Caller, RunHandler(c) PROVE KInv'
  BY <1>4, HandlerCounts
<1>5. CASE CallQuery
  BY <1>5, CallQueryCounts
<1>6. CASE CompleteScc
  BY <1>6, SccCounts
<1>7. CASE CompleteTable
  BY <1>7, CompletedCounts
<1>8. CASE Abort
  BY <1>8, Aborts, UnwindCounts DEF Abort
<1>9. ASSUME NEW d \in Goals, Query(d) PROVE KInv'
  <2>1. UNCHANGED <<graphVars, stack, completing, histVars>>
    BY <1>9 DEF Query
  <2> QED BY <2>1, HistoryStays, StillCounts
<1>10. ASSUME NEW d \in Goals, incr_invalidate_call(d) PROVE KInv'
  BY <1>10, InvalidateCounts
<1>11. ASSUME NEW d \in Goals, abolish_table_call(d) PROVE KInv'
  BY <1>11, AbolishCounts
<1>12. ASSUME NEW f \in Facts, incr_assert(f) \/ incr_retract(f) \/ incr_retractall(f) PROVE KInv'
  <2>1. PICK d, ch : UpdateFact(f, d, ch)
    BY <1>12 DEF incr_assert, incr_retract, incr_retractall
  <2> QED BY <2>1, UpdateCounts
<1>13. ASSUME NEW f \in Facts, RetryRetract(f) PROVE KInv'
  <2>1. /\ UNCHANGED <<graphVars, stack, completing>> /\ cut' = TRUE
        /\ updates < MaxUpdates /\ updates' = updates + 1
    BY <1>13 DEF RetryRetract, evalVars
  <2>2. updates' \in Nat /\ updates <= updates' /\ updates' <= MaxUpdates
    BY <2>1, Counts
  <2>3. Undisturbed' => Undisturbed
    BY <2>1 DEF Undisturbed
  <2> QED BY <2>1, <2>2, <2>3, StillCounts
<1>14. CASE UNCHANGED vars
  <2>1. UNCHANGED <<graphVars, stack, completing, histVars>>
    BY <1>14 DEF vars, evalVars
  <2> QED BY <2>1, HistoryStays, StillCounts
<1> QED BY <1>1, <1>2, <1>3, <1>4, <1>5, <1>6, <1>7, <1>8, <1>9, <1>10, <1>11, <1>12, <1>13, <1>14
        DEF Next, Evaluate

\* Between completions what a completed table waits for is counted.
LEMMA CountsCover == IInv /\ KInv => CountsInvalidSources
<1> SUFFICES ASSUME IInv, KInv, Undisturbed, completing = <<>>, NEW g \in Goals, IsCompleted(g)
             PROVE  LET n == table[g]
                        Pending(s) == /\ table[s] # None
                                      /\ \/ call[table[s]].falsecount > 0
                                         \/ s \in IncompleteGoals /\ call[table[s]].prev_call # None
                    IN  /\ call[n].falsecount >= Cardinality({s \in inedges[n] \cap Goals : Pending(s)})
                        /\ call[n].deleted <=> call[n].falsecount > 0
  BY DEF CountsInvalidSources
<1> DEFINE n == table[g]
           W == Waits(call, n)
           f == call[n].falsecount
<1>1. /\ call[n].deleted <=> f > 0
      /\ f = 0 => W = {}
      /\ f > 0 => Cardinality(W) <= f
  <2>1. Counted(call) /\ Range1(completing) = {}
    BY DEF KInv, Marks, Range1
  <2> QED BY <2>1 DEF Counted
<1>2. f \in Nat
  <2>1. n \in Node
    BY DEF IsCompleted, IInv, Evaluation
  <2> QED BY <2>1, Counts
<1>3. W = {s \in inedges[n] \cap Goals : /\ table[s] # None
                                         /\ \/ call[table[s]].falsecount > 0
                                            \/ s \in IncompleteGoals /\ call[table[s]].prev_call # None}
  BY DEF Waits, Invalid
<1>4. f >= Cardinality(W)
  <2> HIDE DEF W
  <2>1. CASE f = 0
    BY <1>1, <2>1, FS_EmptySet
  <2>2. CASE f # 0
    <3>1. Cardinality(W) <= f
      BY <1>1, <1>2, <2>2
    <3> QED BY <3>1
  <2> QED BY <2>1, <2>2
<1> QED BY <1>1, <1>3, <1>4

-----------------------------------------------------------------------------
\* As long as falsecount cannot wrap, it covers every table that a completed table
\* depends on and that is invalid or computed again, and a table is marked when it is
\* invalid, up to the first invalidation that is cut short or overlaps a re-evaluation
\* (dfs_outedges, propagate_no_change, deleteoutedges).
THEOREM InvalidSourcesCounted == ASSUME NoWrap PROVE Spec => []CountsInvalidSources
<1>1. IInv /\ SInv /\ KInv /\ [Next]_vars => (IInv /\ SInv /\ KInv)'
  BY StepInv, StepKeeps, StepCounts
<1>2. Init => IInv /\ SInv /\ KInv
  BY InitInv, InitUnlinked, InitCounts
<1>3. IInv /\ SInv /\ KInv => CountsInvalidSources
  BY CountsCover
<1> QED BY <1>1, <1>2, <1>3, PTL DEF Spec

-----------------------------------------------------------------------------
(* Answers, up to the first disturbance. *)

\* What the table of g depends on: the owners of the hash tables its node is in.
Reads(g) == inedges[table[g]]

\* g is evaluated again, and had an answer before: one that was not derived again
\* is still counted at the previous node, a new one sets changed.
Again(g) == g \in IncompleteGoals /\ call[table[g]].prev_call # None
HadAnswer(g) ==
  LET p == call[call[table[g]].prev_call] IN ~p.changed /\ (p.no_of_answers > 0 \/ HasAnswer(g))

\* The sources that hold, and those that did before the evaluations under way.
Holding == {s \in Source : LiteralTrue(s)}
Held == {s \in Source : IF s \in Goals /\ Again(s) THEN HadAnswer(s) ELSE LiteralTrue(s)}

\* A clause of g has all its literals in R, or each clause has one in R.
Supported(g, R) == \E k \in DOMAIN Clauses[g] : \A i \in DOMAIN Clauses[g][k] : Clauses[g][k][i] \in R
Blocked(g, R) == \A k \in DOMAIN Clauses[g] : \E i \in DOMAIN Clauses[g][k] : Clauses[g][k][i] \in R

\* The table of g is right if T holds, by what it has read.
Agrees(g, T) ==
  /\ HasAnswer(g) => Supported(g, Reads(g) \cap T)
  /\ ~HasAnswer(g) => Blocked(g, Reads(g) \ T)

\* Only edges are counted that will be taken back if their sources come out unchanged.
Untainted(g) == call[table[g]].falsecount <= Cardinality(Waits(call, table[g]))

\* Tables whose answers can be read, and those with an answer.
Live == {g \in Goals : g \in IncompleteGoals \/ Valid(g)}
Proven == {g \in Live : HasAnswer(g)}
Closed == \A g \in Live, s \in Goals : s \in Reads(g) => s \in Live

\* A goal is incomplete once.
Once ==
  /\ \A i, j \in DOMAIN stack : stack[i].goal = stack[j].goal => i = j
  /\ \A i \in DOMAIN stack : stack[i].goal \notin Range1(completing)
  /\ \A i, j \in DOMAIN completing : completing[i] = completing[j] => i = j

\* What a goal has called it depends on.
CalledRead ==
  \A g \in Goals : IF g \in IncompleteGoals THEN \A l \in called[g] : LiteralGoal(g, l) \in Reads(g)
                   ELSE called[g] = {}

\* The answers of a table are compared with those of its previous node.
Compared ==
  \A g \in Goals : table[g] # None =>
      /\ ~call[table[g]].changed
      /\ Again(g) => LET p == call[call[table[g]].prev_call]
                     IN  /\ p.changed => HasAnswer(g) /\ p.no_of_answers = 0
                         /\ p.no_of_answers > 0 => ~HasAnswer(g)

\* A table that depends on an incomplete one is incomplete itself and not below its
\* leader, or has been computed before it.
Follows ==
  /\ \A i \in DOMAIN stack, s \in IncompleteGoals : s \in Reads(stack[i].goal) =>
        \/ s \in Range1(completing)
        \/ \E j \in DOMAIN stack : stack[i].leader <= j /\ stack[j].goal = s
  /\ \A g \in Range1(completing), s \in IncompleteGoals : s \in Reads(g) => s \in Range1(completing)
  /\ \A g \in Goals, s \in IncompleteGoals : IsCompleted(g) /\ s \in Reads(g) =>
        s \in Range1(completing) \/ Again(s)

\* Answers of incomplete tables are derived; at completion nothing is missing.
Backed ==
  /\ \A g \in IncompleteGoals : HasAnswer(g) => Supported(g, Reads(g) \cap Holding)
  /\ \A g \in Range1(completing) : ~HasAnswer(g) => Blocked(g, Reads(g) \ Holding)

\* Valid tables are right; invalid ones were, unless something they depend on has
\* come out changed.
Right ==
  \A g \in Goals : IsCompleted(g) =>
      /\ Valid(g) => Agrees(g, Holding)
      /\ ~Valid(g) /\ Untainted(g) => Agrees(g, Held)

\* The goals M hold whatever a clause of a proven goal derives from them.
Closing(M) == \A g \in Proven : Supported(g, (Reads(g) \cap Holding) \ (Goals \ M)) => g \in M

\* No answer depends on itself only.
Derived == \A M \in SUBSET Goals : Closing(M) => Proven \subseteq M

\* What the answers mean.
Meaning == Once /\ CalledRead /\ Compared /\ Follows /\ Backed /\ Right /\ Derived

\* What is supported or blocked by a set is so by a larger one.
LEMMA SupportedMore ==
  ASSUME NEW g, NEW S, NEW R \in SUBSET S
  PROVE  /\ Supported(g, R) => Supported(g, S)
         /\ Blocked(g, R) => Blocked(g, S)
BY DEF Supported, Blocked

\* What a table reads has a table if it is a goal.
LEMMA ReadsTables ==
  ASSUME IInv, SInv, NEW g \in Goals, table[g] # None
  PROVE  /\ table[g] \in Node /\ table[g][1] = g /\ Reads(g) \subseteq Source
         /\ \A s \in Goals : s \in Reads(g) => table[s] # None
<1>1. table[g] \in Node /\ table[g][1] = g
  BY DEF IInv, SInv, Evaluation, Tables
<1>2. Reads(g) \subseteq Source
  BY <1>1 DEF Reads, IInv, Graph
<1>3. ASSUME NEW s \in Goals, s \in Reads(g), table[s] = None PROVE FALSE
  <2>1. s \in Source /\ table[g] \in out[s]
    BY <1>1, <1>3 DEF Reads, IInv, Graph, Source
  <2> QED BY <1>3, <2>1 DEF IInv, Untabled
<1> QED BY <1>1, <1>2, <1>3

\* What is not waited for holds as it did.
LEMMA SameSources ==
  ASSUME IInv, SInv, NEW g \in Goals, table[g] # None, NEW d \in Reads(g), d \notin Waits(call, table[g])
  PROVE  d \in Held <=> d \in Holding
<1>1. d \in Source /\ (d \in Goals => table[d] # None)
  BY ReadsTables
<1>2. ~(d \in Goals /\ Again(d))
  BY <1>1 DEF Waits, Again, Invalid, Reads
<1> QED BY <1>1, <1>2 DEF Held, Holding

\* A table that can be read depends on tables that can be read.
LEMMA LiveClosed ==
  ASSUME IInv, SInv, Marks(call)
  PROVE  Closed
<1> SUFFICES ASSUME NEW g \in Live, NEW s \in Goals, s \in Reads(g) PROVE s \in Live
  BY DEF Closed
<1>1. /\ IncompleteGoals \subseteq Goals /\ \A h \in IncompleteGoals : table[h] # None
      /\ Range1(completing) \subseteq IncompleteGoals
      /\ \A m \in Node : call[m].falsecount \in Nat
  BY IncompleteAreGoals, Counts DEF IInv, Stacks, IncompleteGoals
<1>2. g \in Goals /\ table[g] # None /\ (g \in IncompleteGoals \/ Valid(g))
  BY <1>1 DEF Live, Valid, IsCompleted
<1>3. table[s] # None /\ table[s] \in Node
  BY <1>2, ReadsTables DEF IInv, Evaluation
<1>4. s \in Waits(call, table[g]) => s \in IncompleteGoals
  <2>1. CASE Valid(g)
    <3>1. Waits(call, table[g]) \subseteq Range1(completing)
      BY <1>2, <2>1 DEF Marks, Counted, Valid
    <3> QED BY <1>1, <3>1
  <2>2. CASE g \in Range1(completing)
    BY <1>1, <2>2 DEF Marks, Within
  <2>3. CASE \E i \in DOMAIN stack : stack[i].goal = g
    <3>1. PICK i \in DOMAIN stack : stack[i].goal = g
      BY <2>3
    <3>2. s \in Waits(call, table[g]) => s \in Range1(completing) \/ \E j \in DOMAIN stack : stack[j].goal = s
      BY <1>2, <3>1 DEF Marks, Above
    <3> QED BY <1>1, <3>2 DEF IncompleteGoals
  <2> QED BY <1>2, <2>1, <2>2, <2>3 DEF IncompleteGoals
<1>5. CASE s \notin Waits(call, table[g])
  <2>1. ~(call[table[s]].falsecount > 0)
    BY <1>3, <1>5 DEF Waits, Invalid, Reads
  <2>2. call[table[s]].falsecount = 0
    BY <1>1, <1>3, <2>1
  <2> QED BY <1>3, <2>2 DEF Live, Valid, IsCompleted
<1> QED BY <1>4, <1>5 DEF Live

\* What is not waited for holds as it did, after a step.
LEMMA SameSourcesNext ==
  ASSUME IInv', SInv', NEW g \in Goals, table'[g] # None, NEW d \in Reads(g)', d \notin Waits(call, table[g])'
  PROVE  d \in Held' <=> d \in Holding'
<1>1. d \in Source /\ (d \in Goals => table'[d] # None)
  <2>1. table'[g] \in Node
    BY DEF IInv, Evaluation
  <2>2. d \in Source
    BY <2>1 DEF Reads, IInv, Graph
  <2>3. ASSUME d \in Goals, table'[d] = None PROVE FALSE
    <3>1. d \in Source /\ table'[g] \in out'[d]
      BY <2>1, <2>3 DEF Reads, IInv, Graph, Source
    <3> QED BY <2>3, <3>1 DEF IInv, Untabled
  <2> QED BY <2>2, <2>3
<1>2. ~(d \in Goals /\ Again(d)')
  BY <1>1 DEF Waits, Again, Invalid, Reads
<1> QED BY <1>1, <1>2 DEF Held, Holding

-----------------------------------------------------------------------------
(* Steps that read nothing new: what is answered stays so. *)

\* Steps that neither answer nor complete: tables are left, dropped, or begun anew.
LEMMA Quiet ==
  ASSUME IInv, SInv, IInv', SInv', Marks(call), Marks(call)', Closed, Closed',
         completing = <<>>, completing' = <<>>, AnswersKept, Backed, Right, Derived,
         \A g \in IncompleteGoals' :
             IF g \in IncompleteGoals THEN HasAnswer(g)' = HasAnswer(g) ELSE g \notin Live /\ ~HasAnswer(g)',
         \A g \in Goals : IsCompleted(g)' => IsCompleted(g) /\ (Valid(g)' => Valid(g)),
         \A g \in Goals : g \in Live /\ g \in Live' =>
             /\ Reads(g) \subseteq Reads(g)'
             /\ \A f \in Facts : f \in Reads(g) /\ LiteralTrue(f) => LiteralTrue(f)',
         \A g \in Goals : IsCompleted(g)' /\ Untainted(g)' =>
             /\ Untainted(g) /\ Reads(g) \subseteq Reads(g)'
             /\ \A d \in Reads(g) : d \in Held' <=> d \in Held
  PROVE  Backed' /\ Right' /\ Derived'
<1>1. /\ IncompleteGoals \subseteq Goals /\ IncompleteGoals' \subseteq Goals
      /\ Range1(completing)' = {} /\ Range1(completing) = {}
  <2>1. Range1(completing)' = {} /\ Range1(completing) = {}
    BY DEF Range1
  <2>2. IncompleteGoals \subseteq Goals
    BY IncompleteAreGoals DEF IInv
  <2>3. \A i \in DOMAIN stack' : stack'[i].goal \in Goals
    <3>1. stack' \in Seq(Frames)
      BY DEF IInv, Evaluation
    <3>2. \A i \in DOMAIN stack' : stack'[i] \in Frames
      BY <3>1
    <3> QED BY <3>2 DEF Frames
  <2>4. IncompleteGoals' = {stack'[i].goal : i \in DOMAIN stack'}
    BY <2>1 DEF IncompleteGoals
  <2> QED BY <2>1, <2>2, <2>3, <2>4
<1>2. ASSUME NEW g \in Proven'
      PROVE  /\ g \in Proven /\ g \in Live /\ g \in Live' /\ g \in Goals /\ table[g] # None
             /\ g \in IncompleteGoals' => g \in IncompleteGoals
  <2>1. g \in Goals /\ g \in Live' /\ HasAnswer(g)' /\ (g \in IncompleteGoals' \/ Valid(g)')
    BY DEF Proven, Live
  <2>2. CASE g \in IncompleteGoals'
    <3>1. g \in IncompleteGoals /\ HasAnswer(g)
      BY <2>1, <2>2
    <3> QED BY <2>1, <3>1 DEF Proven, Live, HasAnswer
  <2>3. CASE g \notin IncompleteGoals'
    <3>1. IsCompleted(g)' /\ Valid(g)'
      BY <2>1, <2>3 DEF Valid
    <3>2. IsCompleted(g) /\ Valid(g)
      BY <2>1, <3>1
    <3>3. HasAnswer(g)
      BY <2>1, <3>1, <3>2 DEF AnswersKept
    <3> QED BY <2>1, <2>3, <3>2, <3>3 DEF Proven, Live, HasAnswer
  <2> QED BY <2>2, <2>3
<1>3. ASSUME NEW g \in Proven', NEW d \in Reads(g), d \in Holding
      PROVE  d \in Reads(g)' /\ d \in Holding'
  <2>1. g \in Proven /\ g \in Live /\ g \in Live' /\ g \in Goals /\ table[g] # None
    BY <1>2
  <2>2. d \in Reads(g)' /\ d \in Source /\ LiteralTrue(d)
    BY <1>3, <2>1, ReadsTables DEF Holding
  <2>3. CASE d \in Facts
    BY <1>3, <2>1, <2>2, <2>3 DEF Holding
  <2>4. CASE d \notin Facts
    <3>1. d \in Goals /\ HasAnswer(d)
      BY <2>2, <2>4 DEF Source, LiteralTrue
    <3>2. d \in Live /\ d \in Live'
      BY <2>1, <2>2, <1>3, <3>1 DEF Closed
    <3>3. HasAnswer(d)'
      <4>1. CASE d \in IncompleteGoals'
        BY <3>1, <3>2, <4>1
      <4>2. CASE d \notin IncompleteGoals'
        <5>1. IsCompleted(d)' /\ Valid(d)'
          BY <3>2, <4>2 DEF Live, Valid
        <5> QED BY <3>1, <5>1 DEF AnswersKept
      <4> QED BY <4>1, <4>2
    <3> QED BY <2>2, <2>4, <3>3 DEF Holding, LiteralTrue
  <2> QED BY <2>3, <2>4
<1>4. Backed'
  <2>1. ASSUME NEW g \in IncompleteGoals', HasAnswer(g)' PROVE Supported(g, Reads(g)' \cap Holding')
    <3>1. g \in Proven'
      BY <1>1, <2>1 DEF Proven, Live
    <3>2. g \in IncompleteGoals /\ HasAnswer(g)
      BY <1>2, <2>1, <3>1 DEF Proven
    <3>3. Supported(g, Reads(g) \cap Holding)
      BY <3>2 DEF Backed
    <3>4. (Reads(g) \cap Holding) \subseteq (Reads(g)' \cap Holding')
      BY <1>3, <3>1
    <3> QED BY <3>3, <3>4, SupportedMore
  <2> QED BY <1>1, <2>1 DEF Backed
<1>5. Right'
  <2> SUFFICES ASSUME NEW g \in Goals, IsCompleted(g)'
               PROVE  /\ Valid(g)' => Agrees(g, Holding)'
                      /\ ~Valid(g)' /\ Untainted(g)' => Agrees(g, Held)'
    BY DEF Right
  <2>1. IsCompleted(g) /\ (Valid(g)' => Valid(g)) /\ (HasAnswer(g)' <=> HasAnswer(g)) /\ table[g] # None
    BY DEF AnswersKept, IsCompleted
  <2>2. /\ Valid(g) => Waits(call, table[g]) = {}
        /\ Valid(g)' => Waits(call, table[g])' = {}
    BY <1>1 DEF Marks, Counted, Valid
  <2>3. Valid(g)' => Untainted(g)'
    <3>1. Valid(g)' => call'[table'[g]].falsecount = 0
      BY DEF Valid
    <3>2. Cardinality({}) = 0 /\ 0 <= 0
      BY FS_EmptySet
    <3> QED BY <2>2, <3>1, <3>2 DEF Untainted
  <2>4. ASSUME Untainted(g)' PROVE Agrees(g, Held)'
    <3>1. /\ Untainted(g) /\ Reads(g) \subseteq Reads(g)'
          /\ \A d \in Reads(g) : d \in Held' <=> d \in Held
      BY <2>4
    <3>2. Agrees(g, Held)
      <4>1. CASE Valid(g)
        <5>1. \A d \in Reads(g) : d \in Held <=> d \in Holding
          BY <2>1, <2>2, <4>1, SameSources
        <5>2. Reads(g) \cap Holding = Reads(g) \cap Held /\ Reads(g) \ Holding = Reads(g) \ Held
          BY <5>1
        <5>3. Agrees(g, Holding)
          BY <2>1, <4>1 DEF Right
        <5> QED BY <5>2, <5>3 DEF Agrees
      <4>2. CASE ~Valid(g)
        BY <2>1, <3>1, <4>2 DEF Right
      <4> QED BY <4>1, <4>2
    <3>3. /\ (Reads(g) \cap Held) \subseteq (Reads(g)' \cap Held')
          /\ (Reads(g) \ Held) \subseteq (Reads(g)' \ Held')
      BY <3>1
    <3>4. /\ Supported(g, Reads(g) \cap Held) => Supported(g, Reads(g)' \cap Held')
          /\ Blocked(g, Reads(g) \ Held) => Blocked(g, Reads(g)' \ Held')
      BY <3>3, SupportedMore
    <3> QED BY <2>1, <3>2, <3>4 DEF Agrees
  <2>5. ASSUME Valid(g)' PROVE Agrees(g, Holding)'
    <3>1. Agrees(g, Held)'
      BY <2>3, <2>4, <2>5
    <3>2. table'[g] # None /\ Waits(call, table[g])' = {}
      BY <2>2, <2>5 DEF IsCompleted
    <3>3. \A d \in Reads(g)' : d \in Held' <=> d \in Holding'
      BY <3>2, SameSourcesNext
    <3>4. Reads(g)' \cap Holding' = Reads(g)' \cap Held' /\ Reads(g)' \ Holding' = Reads(g)' \ Held'
      BY <3>3
    <3> QED BY <3>1, <3>4 DEF Agrees
  <2> QED BY <2>4, <2>5
<1>6. Derived'
  <2> SUFFICES ASSUME NEW M \in SUBSET Goals, Closing(M)' PROVE Proven' \subseteq M
    BY DEF Derived
  <2> DEFINE L == M \cup (Goals \ Proven')
  <2>1. Closing(L)
    <3> SUFFICES ASSUME NEW g \in Proven, Supported(g, (Reads(g) \cap Holding) \ (Goals \ L)) PROVE g \in L
      BY DEF Closing
    <3>1. CASE g \in Proven'
      <4>1. ((Reads(g) \cap Holding) \ (Goals \ L)) \subseteq ((Reads(g)' \cap Holding') \ (Goals \ M))
        <5> SUFFICES ASSUME NEW d \in Reads(g), d \in Holding, d \notin Goals \ L PROVE d \in Reads(g)' /\ d \in Holding' /\ d \notin Goals \ M
          OBVIOUS
        <5>1. d \in Reads(g)' /\ d \in Holding'
          BY <1>3, <3>1
        <5>2. d \in Goals => d \in Proven'
          <6> SUFFICES ASSUME d \in Goals PROVE d \in Proven'
            OBVIOUS
          <6>1. d \in Live'
            BY <1>2, <3>1, <5>1 DEF Closed
          <6>2. HasAnswer(d)'
            BY <5>1, CallGraphAssumption DEF Holding, LiteralTrue
          <6> QED BY <6>1, <6>2 DEF Proven
        <5> QED BY <5>1, <5>2
      <4>2. Supported(g, (Reads(g)' \cap Holding') \ (Goals \ M))
        BY <4>1, SupportedMore
      <4> QED BY <3>1, <4>2 DEF Closing
    <3>2. CASE g \notin Proven'
      BY <3>2 DEF Proven, Live
    <3> QED BY <3>1, <3>2
  <2>2. Proven \subseteq L
    <3>1. L \in SUBSET Goals
      OBVIOUS
    <3> HIDE DEF L
    <3> QED BY <2>1, <3>1 DEF Derived
  <2> QED BY <1>2, <2>2
<1> QED BY <1>4, <1>5, <1>6

\* An invalidation without an error leaves the answers alone.
LEMMA AnswersUntouched ==
  ASSUME IInv, NEW s \in Source, NEW o \in invalidate_call(s), ~o.thrown
  PROVE  \A n \in Node : o.call[n].no_of_answers = call[n].no_of_answers /\ o.call[n].changed = call[n].changed
<1>1. CASE Root(s) # None /\ call[Root(s)].deleted
  BY <1>1, RootMarked
<1>2. CASE ~(Root(s) # None /\ call[Root(s)].deleted)
  <2>1. PICK V \in SUBSET Node : o.call = dfs_outedges(Root(s), V, Crossed(s, V, Edges))
    BY <1>2, SearchDone
  <2> SUFFICES ASSUME NEW n \in Node
               PROVE  o.call[n].no_of_answers = call[n].no_of_answers /\ o.call[n].changed = call[n].changed
    OBVIOUS
  <2> DEFINE k == Cardinality({e \in Crossed(s, V, Edges) : e[2] = n}) + (IF n = Root(s) THEN 1 ELSE 0)
             x == (call[n].falsecount + k) % FalseMod
             b == call[n].deleted \/ n = Root(s) \/ n \in V
  <2>2. o.call[n] = IF k = 0 THEN call[n] ELSE [call[n] EXCEPT !.falsecount = x, !.deleted = b]
    BY <2>1 DEF dfs_outedges
  <2> HIDE DEF k, x, b
  <2>3. call[n] \in NodeRecord
    BY DEF IInv, Calls
  <2>4. LET r == [call[n] EXCEPT !.falsecount = x, !.deleted = b]
        IN  r.no_of_answers = call[n].no_of_answers /\ r.changed = call[n].changed
    BY <2>3 DEF NodeRecord
  <2> QED BY <2>2, <2>4
<1> QED BY <1>1, <1>2

-----------------------------------------------------------------------------
(* Invalidations and updates. *)

\* No incomplete table is reached.
LEMMA SpreadStops ==
  ASSUME IInv, SInv, LInv, NoWrap, updates < MaxUpdates, Marks(call), NEW s \in Source,
         NEW o \in invalidate_call(s), ~o.thrown, Root(s) = None \/ ~call[Root(s)].deleted,
         NEW g \in IncompleteGoals
  PROVE  s \notin Reads(g)
<1> DEFINE n == table[g]
<1>1. n \in Node /\ n[1] = g /\ g \in Goals /\ ~call[n].deleted
  BY IncompleteAreGoals DEF IInv, SInv, Evaluation, Stacks, Tables, Marks, Unmarked
<1>2. IncompleteNode(n)
  BY <1>1 DEF IncompleteNode
<1> HIDE DEF n
<1>3. PICK A \in SUBSET Source : s \in A /\
            \A m \in Node :
               /\ IsFiniteSet(inedges[m] \cap A) /\ Cardinality(inedges[m] \cap A) \in Nat
               /\ inedges[m] \cap A = {} /\ m # Root(s) => o.call[m] = call[m]
               /\ inedges[m] \cap A # {} \/ m = Root(s) =>
                    /\ o.call[m].falsecount > 0 /\ o.call[m].deleted
                    /\ o.call[m].falsecount \in Nat
                    /\ call[m].falsecount + Cardinality(inedges[m] \cap A) <= o.call[m].falsecount
                    /\ call[m].deleted \/ (~IncompleteNode(m) /\ (m = Root(s) \/ m[1] \in A))
  BY Spread
<1>4. inedges[n] \cap A = {}
  BY <1>1, <1>2, <1>3
<1> QED BY <1>3, <1>4 DEF Reads, n

\* A table that is counted no more often than it waits was so before, and what it has
\* been invalidated from it waits for.
LEMMA SpreadTaints ==
  ASSUME IInv, SInv, LInv, NoWrap, updates < MaxUpdates, completing = <<>>, Marks(call), NEW s \in Source,
         s \in Goals => table[s] # None, NEW o \in invalidate_call(s), ~o.thrown,
         NEW h \in Goals, IsCompleted(h), NEW V \in SUBSET Waits(o.call, table[h]),
         o.call[table[h]].falsecount <= Cardinality(V)
  PROVE  Untainted(h) /\ (s \in Reads(h) => s \in V)
<1> DEFINE cl == o.call
           n == table[h]
           W == Waits(call, n)
           f == call[n].falsecount
<1>1. /\ n \in Node /\ f \in Nat /\ cl[n].falsecount \in Nat /\ table[h] # None
      /\ \A m \in Node : call[m].falsecount \in Nat
  BY Counts, CountsGrow DEF IInv, Evaluation, IsCompleted
<1>2. IsFiniteSet(W) /\ Cardinality(W) \in Nat /\ W \subseteq inedges[n]
  <2>1. W \in SUBSET inedges[n] /\ W \in SUBSET W
    BY DEF Waits
  <2> HIDE DEF n, W
  <2> QED BY <1>1, <2>1, FewerWait
<1>3. Cardinality(W) <= f
  <2>1. /\ f = 0 => W \subseteq Range1(completing)
        /\ f > 0 => Cardinality(W) <= f
    BY DEF Marks, Counted
  <2>2. Range1(completing) = {}
    BY DEF Range1
  <2>3. f = 0 => W = {}
    BY <2>1, <2>2
  <2>4. Cardinality({}) = 0
    BY FS_EmptySet
  <2>5. f \in Nat
    BY <1>1
  <2>6. f > 0 => Cardinality(W) <= f
    BY <2>1
  <2> HIDE DEF f, W
  <2>7. CASE f = 0
    <3>1. W = {}
      BY <2>3, <2>7
    <3>2. Cardinality(W) = 0
      BY <2>4, <3>1
    <3>3. 0 <= 0
      OBVIOUS
    <3> QED BY <2>7, <3>2, <3>3
  <2>8. CASE f > 0
    BY <2>6, <2>8
  <2> QED BY <2>5, <2>7, <2>8
<1>4. \A m \in Node : cl[m].prev_call = call[m].prev_call
  BY MarkedNodes DEF Alike
<1>5. PICK S \in SUBSET inedges[n] :
        /\ IsFiniteSet(S) /\ Cardinality(S) \in Nat /\ V \subseteq W \cup S /\ (s \in inedges[n] => s \in W \cup S)
        /\ f + Cardinality(S) <= cl[n].falsecount
  <2>1. CASE Root(s) # None /\ call[Root(s)].deleted
    <3>1. cl = call /\ s \in Goals /\ table[s] \in Node /\ call[table[s]].deleted
      BY <2>1, RootMarked DEF Root, IInv, Evaluation
    <3>2. call[table[s]].falsecount > 0
      <4>1. s \notin IncompleteGoals
        BY <3>1 DEF Marks, Unmarked
      <4>2. IsCompleted(s)
        BY <2>1, <3>1, <4>1 DEF IsCompleted, Root
      <4> QED BY <3>1, <4>2 DEF Marks, Counted
    <3>3. s \in inedges[n] => s \in W
      BY <3>1, <3>2 DEF Waits, Invalid
    <3>4. V \subseteq W
      BY <3>1
    <3>5. Cardinality({}) = 0 /\ IsFiniteSet({}) /\ 0 \in Nat /\ f + 0 <= cl[n].falsecount
      BY <1>1, <3>1, FS_EmptySet
    <3> HIDE DEF n, W, cl, f
    <3> WITNESS {} \in SUBSET inedges[n]
    <3> QED BY <3>3, <3>4, <3>5
  <2>2. CASE ~(Root(s) # None /\ call[Root(s)].deleted)
    <3>1. PICK A \in SUBSET Source : s \in A /\
            \A m \in Node :
               /\ IsFiniteSet(inedges[m] \cap A) /\ Cardinality(inedges[m] \cap A) \in Nat
               /\ inedges[m] \cap A = {} /\ m # Root(s) => cl[m] = call[m]
               /\ inedges[m] \cap A # {} \/ m = Root(s) =>
                    /\ cl[m].falsecount > 0 /\ cl[m].deleted
                    /\ cl[m].falsecount \in Nat
                    /\ call[m].falsecount + Cardinality(inedges[m] \cap A) <= cl[m].falsecount
                    /\ call[m].deleted \/ (~IncompleteNode(m) /\ (m = Root(s) \/ m[1] \in A))
      BY <2>2, Spread
    <3> DEFINE S == inedges[n] \cap A
    <3>2. \A m \in Node : inedges[m] \cap A = {} /\ m # Root(s) => cl[m] = call[m]
      BY <3>1
    <3>3. \A m \in Node : inedges[m] \cap A # {} \/ m = Root(s) =>
             call[m].deleted \/ (~IncompleteNode(m) /\ (m = Root(s) \/ m[1] \in A))
      BY <3>1
    <3>4. Waits(cl, n) \subseteq W \cup S
      <4> HIDE DEF n, cl
      <4> QED BY <1>1, <1>4, <3>1, <3>2, <3>3, WaitsSpread
    <3>5. f + Cardinality(S) <= cl[n].falsecount
      <4>1. CASE S = {} /\ n # Root(s)
        <5>1. cl[n] = call[n] /\ Cardinality(S) = 0
          BY <1>1, <3>2, <4>1, FS_EmptySet
        <5> QED BY <1>1, <5>1
      <4>2. CASE S # {} \/ n = Root(s)
        BY <1>1, <3>1, <4>2
      <4> QED BY <4>1, <4>2
    <3>6. IsFiniteSet(S) /\ Cardinality(S) \in Nat
      BY <1>1, <3>1
    <3>7. V \subseteq Waits(cl, n)
      OBVIOUS
    <3>8. S \in SUBSET inedges[n] /\ (s \in inedges[n] => s \in S)
      BY <3>1
    <3> HIDE DEF S, n, W, cl, f
    <3> QED BY <3>4, <3>5, <3>6, <3>7, <3>8
  <2> QED BY <2>1, <2>2
<1> DEFINE F == cl[n].falsecount
<1>6. F <= Cardinality(V) /\ F \in Nat
  BY <1>1
<1>7. s \in Reads(h) => s \in inedges[n]
  BY DEF Reads
<1>8. f <= Cardinality(W) => Untainted(h)
  BY DEF Untainted
<1> HIDE DEF F, f, W, n, cl
<1>9. /\ IsFiniteSet(W \cup S) /\ Cardinality(W \cup S) \in Nat /\ Cardinality(W \cap S) \in Nat
      /\ Cardinality(W \cup S) = Cardinality(W) + Cardinality(S) - Cardinality(W \cap S)
  <2>1. IsFiniteSet(W \cup S) /\ IsFiniteSet(W \cap S)
    BY <1>2, <1>5, FS_Union, FS_Intersection
  <2> QED BY <1>2, <1>5, <2>1, FS_Union, FS_CardinalityType
<1>10. Cardinality(V) \in Nat /\ Cardinality(V) <= Cardinality(W \cup S)
  BY <1>5, <1>9, FS_Subset, FS_CardinalityType
<1>11. f + Cardinality(S) <= Cardinality(V)
  BY <1>1, <1>5, <1>6, <1>10 DEF f, F
<1>12. f <= Cardinality(W) /\ Cardinality(V) = Cardinality(W \cup S)
  <2>1. f \in Nat
    BY <1>1 DEF f
  <2> QED BY <1>2, <1>3, <1>5, <1>9, <1>10, <1>11, <2>1
<1>13. V = W \cup S
  BY <1>5, <1>9, <1>12, FS_Subset
<1> QED BY <1>5, <1>7, <1>8, <1>12, <1>13

\* A valid table is counted as often as it waits, not at all.
LEMMA ValidWaitsNot ==
  ASSUME Marks(call)', completing' = <<>>, NEW g \in Goals, Valid(g)'
  PROVE  Untainted(g)' /\ Waits(call, table[g])' = {}
<1>1. Range1(completing)' = {}
  BY DEF Range1
<1>2. Waits(call, table[g])' = {} /\ call'[table'[g]].falsecount = 0
  BY <1>1 DEF Marks, Counted, Valid
<1>3. Cardinality({}) = 0 /\ 0 <= 0
  BY FS_EmptySet
<1> QED BY <1>2, <1>3 DEF Untainted

\* A step leads to a closed state again.
LEMMA LiveClosedNext == (IInv /\ SInv /\ Marks(call) => Closed)'
<1>1. IInv /\ SInv /\ Marks(call) => Closed
  BY LiveClosed
<1> QED BY <1>1, PTL

\* Steps that leave the tables, the evaluation, the edges and all answers alone.
LEMMA MeaningStays ==
  ASSUME IInv, SInv, IInv', SInv', Marks(call), Marks(call)', AnswersKept, Meaning, completing = <<>>,
         UNCHANGED <<table, stack, completing, called, inedges>>,
         \A n \in Node : /\ call'[n].prev_call = call[n].prev_call /\ call'[n].changed = call[n].changed
                         /\ call'[n].no_of_answers = call[n].no_of_answers,
         \A g \in Goals : Valid(g)' => Valid(g),
         \A g \in Goals : IsCompleted(g) /\ Untainted(g)' => Untainted(g),
         \A g \in Goals, f \in Facts : f \in Reads(g) /\ (g \in IncompleteGoals \/ (IsCompleted(g) /\ Untainted(g)')) =>
             (LiteralTrue(f)' <=> LiteralTrue(f))
  PROVE  Meaning'
<1>1. /\ Once /\ CalledRead /\ Compared /\ Follows /\ Backed /\ Right /\ Derived
      /\ Closed
  BY LiveClosed DEF Meaning
<1>2. /\ table' = table /\ stack' = stack /\ completing' = completing /\ called' = called /\ inedges' = inedges
      /\ IncompleteGoals' = IncompleteGoals /\ Range1(completing)' = Range1(completing)
      /\ IncompleteGoals \subseteq Goals /\ \A g \in IncompleteGoals : table[g] # None
  BY IncompleteAreGoals DEF IncompleteGoals, Range1, IInv, Stacks
<1>3. \A g \in Goals : (IsCompleted(g)' <=> IsCompleted(g)) /\ Reads(g)' = Reads(g)
  BY <1>2 DEF IsCompleted, Reads
<1>4. \A g \in Goals : table[g] # None =>
         /\ table[g] \in Node /\ call'[table[g]].prev_call = call[table[g]].prev_call
         /\ call'[table[g]].changed = call[table[g]].changed
         /\ call'[table[g]].no_of_answers = call[table[g]].no_of_answers
  BY DEF IInv, Evaluation
<1>5. \A g \in Goals : HasAnswer(g)' <=> HasAnswer(g)
  BY <1>2, <1>4 DEF HasAnswer
<1>6. \A g \in Goals : Again(g)' <=> Again(g)
  BY <1>2, <1>4 DEF Again
<1>7. ASSUME NEW g \in Goals, Again(g)
      PROVE  LET p == call[table[g]].prev_call
             IN  p \in Node /\ call'[table[g]].prev_call = p
                 /\ call'[p].changed = call[p].changed /\ call'[p].no_of_answers = call[p].no_of_answers
  <2>1. table[g] # None /\ table[g] \in Node
    BY <1>2, <1>4, <1>7 DEF Again
  <2>2. call[table[g]].prev_call \in Node
    BY <1>7, <2>1 DEF Again, IInv, Calls, NodeRecord
  <2> QED BY <1>4, <2>1, <2>2
<1>8. \A g \in Goals : Again(g) => (HadAnswer(g)' <=> HadAnswer(g))
  BY <1>2, <1>5, <1>7 DEF HadAnswer
<1>9. Once'
  BY <1>1, <1>2 DEF Once, Range1
<1>10. CalledRead'
  BY <1>1, <1>2, <1>3 DEF CalledRead, LiteralGoal
<1>11. Compared'
  <2> SUFFICES ASSUME NEW g \in Goals, table'[g] # None
               PROVE  /\ ~call'[table'[g]].changed
                      /\ Again(g)' => LET p == call'[call'[table'[g]].prev_call]
                                      IN  /\ p.changed => HasAnswer(g)' /\ p.no_of_answers = 0
                                          /\ p.no_of_answers > 0 => ~HasAnswer(g)'
    BY DEF Compared
  <2>1. table[g] # None /\ ~call[table[g]].changed /\ ~call'[table'[g]].changed
    BY <1>1, <1>2, <1>4 DEF Compared
  <2>2. ASSUME Again(g)'
        PROVE LET p == call'[call'[table'[g]].prev_call]
              IN  /\ p.changed => HasAnswer(g)' /\ p.no_of_answers = 0
                  /\ p.no_of_answers > 0 => ~HasAnswer(g)'
    <3>1. Again(g)
      BY <1>6, <2>2
    <3>2. LET p == call[call[table[g]].prev_call]
          IN  /\ p.changed => HasAnswer(g) /\ p.no_of_answers = 0
              /\ p.no_of_answers > 0 => ~HasAnswer(g)
      BY <1>1, <2>1, <3>1 DEF Compared
    <3> QED BY <1>2, <1>5, <1>7, <3>1, <3>2
  <2> QED BY <2>1, <2>2
<1>12. Follows'
  <2>1. \A i \in DOMAIN stack : stack[i].goal \in Goals
    BY <1>2 DEF IncompleteGoals
  <2>2. \A i \in DOMAIN stack', s \in IncompleteGoals' : s \in Reads(stack[i].goal)' =>
        \/ s \in Range1(completing)'
        \/ \E j \in DOMAIN stack' : stack'[i].leader <= j /\ stack'[j].goal = s
    BY <1>1, <1>2, <1>3, <2>1 DEF Follows
  <2>3. \A g \in Range1(completing)', s \in IncompleteGoals' : s \in Reads(g)' => s \in Range1(completing)'
    BY <1>2 DEF Range1
  <2>4. \A g \in Goals, s \in IncompleteGoals' : IsCompleted(g)' /\ s \in Reads(g)' =>
        s \in Range1(completing)' \/ Again(s)'
    BY <1>1, <1>2, <1>3, <1>6 DEF Follows
  <2> QED BY <2>2, <2>3, <2>4 DEF Follows
<1>13. \A g \in Goals : IF g \in IncompleteGoals THEN HasAnswer(g)' = HasAnswer(g) ELSE TRUE
  BY <1>5 DEF HasAnswer
<1>14. ASSUME NEW g \in Goals, g \in Live, g \in Live', NEW f \in Facts, f \in Reads(g)
       PROVE  LiteralTrue(f)' <=> LiteralTrue(f)
  <2>1. CASE g \in IncompleteGoals
    BY <1>14, <2>1
  <2>2. CASE g \notin IncompleteGoals
    <3>1. Valid(g)'
      BY <1>2, <1>14, <2>2 DEF Live
    <3>2. Untainted(g)'
      BY <3>1, ValidWaitsNot
    <3>3. IsCompleted(g)
      BY <1>3, <3>1 DEF Valid
    <3> QED BY <1>14, <3>2, <3>3
  <2> QED BY <2>1, <2>2
<1>15. ASSUME NEW g \in Goals, IsCompleted(g)', Untainted(g)', NEW d \in Reads(g)
       PROVE  d \in Held' <=> d \in Held
  <2>1. IsCompleted(g) /\ table[g] # None
    BY <1>3, <1>15 DEF IsCompleted
  <2>2. d \in Source
    BY <2>1, <1>15, ReadsTables
  <2>3. CASE d \in Facts
    <3>1. d \notin Goals /\ (LiteralTrue(d)' <=> LiteralTrue(d))
      BY <1>15, <2>1, <2>3, CallGraphAssumption
    <3> QED BY <2>2, <3>1 DEF Held
  <2>4. CASE d \notin Facts
    <3>1. d \in Goals /\ (LiteralTrue(d)' <=> LiteralTrue(d))
      BY <1>5, <2>2, <2>4 DEF Source, LiteralTrue
    <3> QED BY <1>6, <1>8, <2>2, <3>1 DEF Held
  <2> QED BY <2>3, <2>4
<1>16. Closed'
  BY LiveClosedNext
<1>17. ASSUME NEW g \in IncompleteGoals'
       PROVE  IF g \in IncompleteGoals THEN HasAnswer(g)' = HasAnswer(g) ELSE g \notin Live /\ ~HasAnswer(g)'
  <2>1. g \in IncompleteGoals /\ g \in Goals
    BY <1>2, <1>17
  <2> QED BY <1>2, <1>4, <2>1 DEF HasAnswer
<1>18. \A g \in Goals : IsCompleted(g)' => IsCompleted(g) /\ (Valid(g)' => Valid(g))
  BY <1>3
<1>19. \A g \in Goals : g \in Live /\ g \in Live' =>
             /\ Reads(g) \subseteq Reads(g)'
             /\ \A f \in Facts : f \in Reads(g) /\ LiteralTrue(f) => LiteralTrue(f)'
  BY <1>3, <1>14
<1>20. \A g \in Goals : IsCompleted(g)' /\ Untainted(g)' =>
             /\ Untainted(g) /\ Reads(g) \subseteq Reads(g)'
             /\ \A d \in Reads(g) : d \in Held' <=> d \in Held
  BY <1>3, <1>15
<1>21. completing = <<>> /\ completing' = <<>>
  BY <1>2
<1>22. Backed' /\ Right' /\ Derived'
  BY <1>1, <1>16, <1>17, <1>18, <1>19, <1>20, <1>21, Quiet
<1> QED BY <1>9, <1>10, <1>11, <1>12, <1>22 DEF Meaning

\* A node that an invalidation leaves at zero was there before.
LEMMA ZeroBefore ==
  ASSUME IInv, SInv, LInv, NoWrap, updates < MaxUpdates, NEW s \in Source, NEW o \in invalidate_call(s), ~o.thrown,
         NEW n \in Node, o.call[n].falsecount = 0
  PROVE  call[n].falsecount = 0
<1>1. CASE Root(s) # None /\ call[Root(s)].deleted
  BY <1>1, RootMarked
<1>2. CASE ~(Root(s) # None /\ call[Root(s)].deleted)
  <2>1. PICK A \in SUBSET Source : s \in A /\
            \A m \in Node :
               /\ IsFiniteSet(inedges[m] \cap A) /\ Cardinality(inedges[m] \cap A) \in Nat
               /\ inedges[m] \cap A = {} /\ m # Root(s) => o.call[m] = call[m]
               /\ inedges[m] \cap A # {} \/ m = Root(s) =>
                    /\ o.call[m].falsecount > 0 /\ o.call[m].deleted
                    /\ o.call[m].falsecount \in Nat
                    /\ call[m].falsecount + Cardinality(inedges[m] \cap A) <= o.call[m].falsecount
                    /\ call[m].deleted \/ (~IncompleteNode(m) /\ (m = Root(s) \/ m[1] \in A))
    BY <1>2, Spread
  <2>2. ~(inedges[n] \cap A # {} \/ n = Root(s))
    <3>1. ~(o.call[n].falsecount > 0)
      OBVIOUS
    <3> QED BY <2>1, <3>1
  <2> QED BY <2>1, <2>2
<1> QED BY <1>1, <1>2

\* An invalidation of the tables that depend on s, with an update of s if it is a fact.
LEMMA InvalidationMeans ==
  ASSUME IInv, SInv, LInv, NoWrap, updates < MaxUpdates, Marks(call), IInv', SInv', Marks(call)', AnswersKept,
         Meaning, completing = <<>>, UNCHANGED <<table, stack, completing, called, inedges>>,
         NEW s \in Source, s \in Goals => table[s] # None, NEW o \in invalidate_call(s), ~o.thrown, call' = o.call,
         \A f \in Facts : f # s => db'[f] = db[f]
  PROVE  Meaning'
<1>1. \A n \in Node : /\ call'[n].prev_call = call[n].prev_call /\ call'[n].changed = call[n].changed
                      /\ call'[n].no_of_answers = call[n].no_of_answers
  BY MarkedNodes, AnswersUntouched DEF Alike
<1>2. IncompleteGoals' = IncompleteGoals
  BY DEF IncompleteGoals, Range1
<1>3. ASSUME NEW g \in Goals, Valid(g)' PROVE Valid(g)
  <2>1. table[g] # None /\ table[g] \in Node /\ g \notin IncompleteGoals
    BY <1>2, <1>3 DEF Valid, IsCompleted, IInv, Evaluation
  <2>2. o.call[table[g]].falsecount = 0
    BY <1>3 DEF Valid
  <2>3. call[table[g]].falsecount = 0
    BY <2>1, <2>2, ZeroBefore
  <2> QED BY <2>1, <2>3 DEF Valid, IsCompleted
<1>4. ASSUME NEW g \in Goals, IsCompleted(g), Untainted(g)' PROVE Untainted(g) /\ (s \in Facts => s \notin Reads(g))
  <2> DEFINE V == Waits(o.call, table[g])
  <2>1. V = Waits(call, table[g])'
    BY <1>2 DEF Waits, Invalid
  <2>2. o.call[table[g]].falsecount <= Cardinality(V) /\ V \in SUBSET Waits(o.call, table[g])
    BY <1>4, <2>1 DEF Untainted
  <2>3. V \subseteq Goals
    BY DEF Waits
  <2> HIDE DEF V
  <2>4. Untainted(g) /\ (s \in Reads(g) => s \in V)
    BY <1>4, <2>2, SpreadTaints
  <2> QED BY <2>3, <2>4, CallGraphAssumption
<1>5. ASSUME NEW g \in IncompleteGoals, s \in Facts PROVE s \notin Reads(g)
  <2>1. Root(s) = None
    BY <1>5, CallGraphAssumption DEF Root
  <2> QED BY <2>1, SpreadStops
<1>6. ASSUME NEW g \in Goals, NEW f \in Facts, f \in Reads(g), g \in IncompleteGoals \/ (IsCompleted(g) /\ Untainted(g)')
      PROVE  LiteralTrue(f)' <=> LiteralTrue(f)
  <2>1. f # s
    BY <1>4, <1>5, <1>6
  <2> QED BY <2>1 DEF LiteralTrue
<1>7. \A g \in Goals : Valid(g)' => Valid(g)
  BY <1>3
<1>8. \A g \in Goals : IsCompleted(g) /\ Untainted(g)' => Untainted(g)
  BY <1>4
<1>9. \A g \in Goals, f \in Facts : f \in Reads(g) /\ (g \in IncompleteGoals \/ (IsCompleted(g) /\ Untainted(g)')) =>
             (LiteralTrue(f)' <=> LiteralTrue(f))
  BY <1>6
<1> QED BY <1>1, <1>7, <1>8, <1>9, MeaningStays

\* The meaning of the tables through a step: what it is before and what is known after.
Before == IInv /\ SInv /\ KInv /\ NoWrap /\ Undisturbed /\ Meaning
After == IInv' /\ SInv' /\ KInv' /\ Undisturbed' /\ AnswersKept

\* An update of a fact.
LEMMA UpdateMeans ==
  ASSUME Before, After, NEW f \in Facts, NEW d, NEW ch, UpdateFact(f, d, ch) PROVE Meaning'
<1>1. /\ IInv /\ SInv /\ LInv /\ NoWrap /\ Marks(call) /\ IInv' /\ SInv' /\ Marks(call)' /\ AnswersKept /\ Meaning
  BY DEF Before, After, KInv
<1>2. PICK o \in invalidate_call(f) :
        call' = o.call /\ db' = (IF o.thrown THEN db ELSE [db EXCEPT ![f] = d]) /\ Disturbs(o)
  BY DEF UpdateFact
<1>3. ~o.thrown
  BY <1>2 DEF Disturbs, After, Undisturbed
<1>4. /\ updates < MaxUpdates /\ completing = <<>> /\ UNCHANGED <<table, stack, completing, called, inedges>>
      /\ f \in Source /\ f \notin Goals
  BY CallGraphAssumption DEF UpdateFact, CanUpdate, evalVars, Source
<1>5. \A h \in Facts : h # f => db'[h] = db[h]
  BY <1>1, <1>2, <1>3 DEF IInv, Program
<1> QED BY <1>1, <1>2, <1>3, <1>4, <1>5, InvalidationMeans

\* incr_invalidate_call.
LEMMA InvalidateMeans ==
  ASSUME Before, After, NEW g \in Goals, incr_invalidate_call(g) PROVE Meaning'
<1>1. /\ IInv /\ SInv /\ LInv /\ NoWrap /\ Marks(call) /\ IInv' /\ SInv' /\ Marks(call)' /\ AnswersKept /\ Meaning
  BY DEF Before, After, KInv
<1>2. PICK o \in invalidate_call(g) : call' = o.call /\ Disturbs(o)
  BY DEF incr_invalidate_call
<1>3. ~o.thrown
  BY <1>2 DEF Disturbs, After, Undisturbed
<1>4. /\ updates < MaxUpdates /\ completing = <<>> /\ UNCHANGED <<table, stack, completing, called, inedges>>
      /\ g \in Source /\ table[g] # None /\ db' = db
  BY DEF incr_invalidate_call, CanUpdate, evalVars, Source
<1>5. \A h \in Facts : h # g => db'[h] = db[h]
  BY <1>4
<1> QED BY <1>1, <1>2, <1>3, <1>4, <1>5, InvalidationMeans

\* Steps that do not touch counts, answers and facts either.
LEMMA NothingMeans ==
  ASSUME Before, After, completing = <<>>, UNCHANGED <<table, stack, completing, called, inedges, db>>,
         \A n \in Node : /\ call'[n].prev_call = call[n].prev_call /\ call'[n].changed = call[n].changed
                         /\ call'[n].no_of_answers = call[n].no_of_answers
                         /\ call'[n].falsecount = call[n].falsecount
  PROVE  Meaning'
<1>1. /\ IInv /\ SInv /\ Marks(call) /\ IInv' /\ SInv' /\ Marks(call)' /\ AnswersKept /\ Meaning
  BY DEF Before, After, KInv
<1>2. IncompleteGoals' = IncompleteGoals
  BY DEF IncompleteGoals, Range1
<1>3. \A g \in Goals : table[g] # None =>
        /\ table[g] \in Node /\ call'[table[g]].falsecount = call[table[g]].falsecount
        /\ call'[table[g]].prev_call = call[table[g]].prev_call
  BY <1>1 DEF IInv, Evaluation
<1>4. \A g \in Goals : Valid(g)' => Valid(g)
  BY <1>2, <1>3 DEF Valid, IsCompleted
<1>5. \A g \in Goals : IsCompleted(g) /\ Untainted(g)' => Untainted(g)
  <2> SUFFICES ASSUME NEW g \in Goals, IsCompleted(g), Untainted(g)' PROVE Untainted(g)
    OBVIOUS
  <2>1. Waits(call, table[g])' = Waits(call, table[g])
    BY <1>2, <1>3 DEF Waits, Invalid
  <2> QED BY <1>3, <2>1 DEF Untainted, IsCompleted
<1>6. \A g \in Goals, f \in Facts : f \in Reads(g) /\ (g \in IncompleteGoals \/ (IsCompleted(g) /\ Untainted(g)')) =>
             (LiteralTrue(f)' <=> LiteralTrue(f))
  BY DEF LiteralTrue
<1> QED BY <1>1, <1>4, <1>5, <1>6, MeaningStays

\* The list of a lazy re-evaluation.
LEMMA LazyMeans ==
  ASSUME Before, After, completing = <<>>, NEW c, NEW d \in Goals, LazyReeval(c, d) PROVE Meaning'
<1>1. UNCHANGED <<table, stack, completing, called, inedges, db>>
  BY DEF LazyReeval
<1>2. \A n \in Node :
         /\ call'[n].prev_call = call[n].prev_call /\ call'[n].no_of_answers = call[n].no_of_answers
         /\ call'[n].falsecount = call[n].falsecount
  BY ListMarked DEF Before
<1>3. \A n \in Node : call'[n].changed = call[n].changed
  BY DirectNodes DEF Before, LazyReeval, Directed
<1> QED BY <1>1, <1>2, <1>3, NothingMeans

-----------------------------------------------------------------------------
(* Calls. *)

\* What is called is read.
LEMMA CallsRead ==
  ASSUME IInv, CalledRead, IncompleteGoals \subseteq IncompleteGoals',
         \A h \in IncompleteGoals : table'[h] = table[h] /\ inedges[table[h]] \subseteq inedges'[table[h]],
         \A h \in Goals : \/ called'[h] = called[h]
                          \/ /\ h \in IncompleteGoals
                             /\ \E l : /\ called'[h] = called[h] \cup {l}
                                       /\ LiteralGoal(h, l) \in inedges'[table[h]]
  PROVE  CalledRead'
<1> SUFFICES ASSUME NEW h \in Goals
             PROVE  IF h \in IncompleteGoals' THEN \A l \in called'[h] : LiteralGoal(h, l) \in Reads(h)'
                    ELSE called'[h] = {}
  BY DEF CalledRead, LiteralGoal
<1>1. CASE h \in IncompleteGoals
  <2>1. /\ h \in IncompleteGoals' /\ Reads(h)' = inedges'[table[h]]
        /\ \A l \in called[h] : LiteralGoal(h, l) \in inedges'[table[h]]
    BY <1>1 DEF CalledRead, Reads
  <2>2. CASE called'[h] = called[h]
    BY <2>1, <2>2
  <2>3. CASE \E l : called'[h] = called[h] \cup {l} /\ LiteralGoal(h, l) \in inedges'[table[h]]
    BY <2>1, <2>3
  <2> QED BY <1>1, <2>2, <2>3
<1>2. CASE h \notin IncompleteGoals
  <2>1. called[h] = {} /\ called'[h] = called[h]
    BY <1>2 DEF CalledRead
  <2> QED BY <2>1
<1> QED BY <1>1, <1>2

\* A goal on the stack is not there again.
LEMMA OncePushed ==
  ASSUME IInv, Once, completing = <<>>, completing' = completing, NEW d \in Goals, d \notin IncompleteGoals,
         stack' = Push(d)
  PROVE  Once'
<1> DEFINE f == [goal |-> d, leader |-> Len(stack) + 1]
           k == Len(stack) + 1
<1>1. stack \in Seq(Frames) /\ Len(stack) \in Nat /\ DOMAIN stack = 1 .. Len(stack)
  BY DEF IInv, Evaluation
<1>2. f \in Frames /\ f.goal = d /\ stack' = Append(stack, f)
  BY <1>1 DEF Frames, Push
<1> HIDE DEF f
<1>3. DOMAIN stack' = 1 .. k /\ stack'[k] = f /\ \A i \in 1 .. Len(stack) : stack'[i] = stack[i]
  BY <1>1, <1>2, AppendProperties
<1>4. Range1(completing)' = {} /\ DOMAIN completing' = {}
  BY DEF Range1
<1>5. \A i \in DOMAIN stack' : i = k \/ (i \in DOMAIN stack /\ stack'[i] = stack[i])
  BY <1>1, <1>3
<1>6. \A i \in DOMAIN stack : stack[i].goal # d
  BY DEF IncompleteGoals
<1> HIDE DEF k
<1>7. \A i, j \in DOMAIN stack' : stack'[i].goal = stack'[j].goal => i = j
  BY <1>2, <1>3, <1>5, <1>6 DEF Once
<1> QED BY <1>4, <1>7 DEF Once

\* The tables and what they read, when a producer is begun.
LEMMA Begun ==
  ASSUME IInv, SInv, NEW c, c \in Goals => c \in IncompleteGoals, NEW d \in Goals, NEW n \in Node,
         Produces(c, d, n)
  PROVE  /\ IncompleteGoals' = IncompleteGoals \cup {d} /\ d \notin IncompleteGoals
         /\ table'[d] = n /\ n # None /\ n # table[d] /\ Reads(d)' = {}
         /\ \A h \in Goals : h # d => table'[h] = table[h]
         /\ \A h \in Goals : h # d /\ table[h] # None =>
               /\ table[h] \in Node /\ call'[table[h]] = call[table[h]]
               /\ Reads(h) \subseteq Reads(h)' /\ Reads(h)' \subseteq Reads(h) \cup {d}
               /\ h \notin IncompleteGoals => Reads(h)' = Reads(h)
<1> USE DEF Produces
<1>1. /\ table \in [Goals -> Node \cup {None}] /\ Tables
  BY DEF IInv, Evaluation, SInv
<1>2. IncompleteGoals' = IncompleteGoals \cup {d}
  BY Pushed DEF IInv
<1>3. table'[d] = n /\ \A h \in Goals : h # d => table'[h] = table[h]
  BY <1>1
<1>4. n # None /\ n # table[d]
  BY FiniteGraph
<1>5. ASSUME NEW h \in Goals, h # d, table[h] # None
      PROVE  /\ table[h] \in Node /\ call'[table[h]] = call[table[h]]
             /\ Reads(h) \subseteq Reads(h)' /\ Reads(h)' \subseteq Reads(h) \cup {d}
             /\ h \notin IncompleteGoals => Reads(h)' = Reads(h)
  <2>1. Reads(h)' = inedges'[table[h]] /\ Reads(h) = inedges[table[h]]
    BY <1>3, <1>5 DEF Reads
  <2>2. table[h] \in Node /\ table[h] # n /\ table[h][1] = h
    BY <1>1, <1>5 DEF Tables
  <2>3. table[h] # table[d]
    BY <1>1, <1>5, <2>2 DEF Tables
  <2>4. h \notin IncompleteGoals => ~(c \in Goals /\ table[h] = table[c])
    BY <1>1, <1>5, <2>2 DEF Tables
  <2>5. call'[table[h]] = call[table[h]]
    BY <2>2, <2>3
  <2>6. \/ inedges'[table[h]] = inedges[table[h]]
        \/ c \in Goals /\ table[h] = table[c] /\ inedges'[table[h]] = inedges[table[h]] \cup {d}
    BY <2>2
  <2> QED BY <2>1, <2>2, <2>4, <2>5, <2>6
<1>6. Reads(d)' = {}
  <2>1. ~(c \in Goals /\ n = table[c])
    OBVIOUS
  <2>2. inedges'[n] = {}
    BY <2>1
  <2> QED BY <1>3, <2>2 DEF Reads
<1>7. d \notin IncompleteGoals
  OBVIOUS
<1> QED BY <1>2, <1>3, <1>4, <1>5, <1>6, <1>7

\* What depends on what, when a producer is begun.
LEMMA FollowsPushed ==
  ASSUME IInv, SInv, Follows, NEW c, c \in Goals => c \in IncompleteGoals, NEW d \in Goals, NEW n \in Node,
         Produces(c, d, n)
  PROVE  Follows'
<1> DEFINE f == [goal |-> d, leader |-> Len(stack) + 1]
           k == Len(stack) + 1
<1>1. /\ IncompleteGoals' = IncompleteGoals \cup {d} /\ d \notin IncompleteGoals
      /\ table'[d] = n /\ n # None /\ n # table[d] /\ Reads(d)' = {}
      /\ \A h \in Goals : h # d => table'[h] = table[h]
      /\ \A h \in Goals : h # d /\ table[h] # None =>
               /\ table[h] \in Node /\ call'[table[h]] = call[table[h]]
               /\ Reads(h) \subseteq Reads(h)' /\ Reads(h)' \subseteq Reads(h) \cup {d}
               /\ h \notin IncompleteGoals => Reads(h)' = Reads(h)
  BY Begun
<1>2. completing = <<>> /\ completing' = <<>> /\ stack' = Push(d) /\ call'[n].prev_call = table[d]
  BY DEF Produces
<1>3. /\ IncompleteGoals \subseteq Goals /\ \A h \in IncompleteGoals : table[h] # None
      /\ Range1(completing) = {} /\ Range1(completing)' = {}
  BY <1>2, IncompleteAreGoals DEF IInv, Stacks, Range1
<1>4. stack \in Seq(Frames) /\ Len(stack) \in Nat /\ DOMAIN stack = 1 .. Len(stack)
      /\ \A i \in DOMAIN stack : stack[i].leader \in 1 .. i
  BY DEF IInv, Evaluation, Stacks
<1>5. f \in Frames /\ f.goal = d /\ stack' = Append(stack, f)
  BY <1>2, <1>4 DEF Frames, Push
<1> HIDE DEF f
<1>6. DOMAIN stack' = 1 .. k /\ stack'[k] = f /\ \A i \in 1 .. Len(stack) : stack'[i] = stack[i]
  BY <1>4, <1>5, AppendProperties
<1>7. ASSUME NEW i \in DOMAIN stack', NEW s \in IncompleteGoals', s \in Reads(stack[i].goal)'
      PROVE  \E j \in DOMAIN stack' : stack'[i].leader <= j /\ stack'[j].goal = s
  <2>1. CASE i = k
    <3>1. stack'[i].goal = d
      BY <1>5, <1>6, <2>1
    <3>2. Reads(stack[i].goal)' = {}
      BY <1>1, <3>1 DEF Reads
    <3> QED BY <1>7, <3>2
  <2>2. CASE i # k
    <3>1. i \in DOMAIN stack /\ stack'[i] = stack[i] /\ i \in Nat /\ i <= k /\ stack[i].leader \in 1 .. i
      BY <1>4, <1>6, <2>2
    <3>2. PICK h \in IncompleteGoals : h = stack[i].goal
      BY <3>1 DEF IncompleteGoals
    <3>3. h \in Goals /\ h # d /\ table[h] # None
      BY <1>1, <1>3, <3>2
    <3>4. s \in Reads(h) \cup {d}
      <4>1. Reads(stack[i].goal)' = Reads(h)'
        BY <3>1, <3>2 DEF Reads
      <4> QED BY <1>1, <1>7, <3>3, <4>1
    <3>5. CASE s = d
      <4>1. k \in DOMAIN stack' /\ stack'[k].goal = s /\ stack'[i].leader <= k
        BY <1>4, <1>5, <1>6, <3>1, <3>5
      <4> QED BY <4>1
    <3>6. CASE s # d
      <4>1. s \in IncompleteGoals /\ s \in Reads(h)
        BY <1>1, <1>7, <3>4, <3>6
      <4>2. PICK j \in DOMAIN stack : stack[i].leader <= j /\ stack[j].goal = s
        BY <1>3, <3>1, <3>2, <4>1 DEF Follows
      <4>3. j \in DOMAIN stack' /\ stack'[j] = stack[j]
        BY <1>4, <1>6
      <4> QED BY <3>1, <4>2, <4>3
    <3> QED BY <3>5, <3>6
  <2> QED BY <2>1, <2>2
<1>8. ASSUME NEW g \in Goals, NEW s \in IncompleteGoals', IsCompleted(g)', s \in Reads(g)' PROVE Again(s)'
  <2>1. g # d /\ table[g] # None /\ g \notin IncompleteGoals
    BY <1>1, <1>8 DEF IsCompleted
  <2>2. IsCompleted(g) /\ s \in Reads(g)
    BY <1>1, <1>8, <2>1 DEF IsCompleted
  <2>3. CASE s = d
    <3>1. table[d] # None
      BY <2>1, <2>2, <2>3, ReadsTables
    <3> QED BY <1>1, <1>2, <2>3, <3>1 DEF Again
  <2>4. CASE s # d
    <3>1. s \in IncompleteGoals /\ s \in Goals
      BY <1>1, <1>3, <2>4
    <3>2. Again(s)
      BY <1>3, <2>2, <3>1 DEF Follows
    <3>3. table[s] # None /\ table'[s] = table[s] /\ call'[table[s]] = call[table[s]]
      BY <1>1, <1>3, <2>4, <3>1
    <3> QED BY <1>1, <3>1, <3>2, <3>3 DEF Again
  <2> QED BY <2>3, <2>4
<1> QED BY <1>3, <1>7, <1>8 DEF Follows

\* A producer is begun: what its table was for others it is still, until it is completed.
LEMMA ProducerMeans ==
  ASSUME Before, After, NEW c, c \in Goals => c \in IncompleteGoals, NEW d \in Goals, NEW n \in Node,
         Produces(c, d, n), db' = db, CalledRead'
  PROVE  Meaning'
<1>1. /\ IInv /\ SInv /\ Marks(call) /\ IInv' /\ SInv' /\ Marks(call)' /\ AnswersKept
      /\ Once /\ Compared /\ Follows /\ Backed /\ Right /\ Derived /\ Closed
  BY LiveClosed DEF Before, After, KInv, Meaning
<1>2. /\ IncompleteGoals' = IncompleteGoals \cup {d} /\ d \notin IncompleteGoals
      /\ table'[d] = n /\ n # None /\ n # table[d] /\ Reads(d)' = {}
      /\ \A h \in Goals : h # d => table'[h] = table[h]
      /\ \A h \in Goals : h # d /\ table[h] # None =>
               /\ table[h] \in Node /\ call'[table[h]] = call[table[h]]
               /\ Reads(h) \subseteq Reads(h)' /\ Reads(h)' \subseteq Reads(h) \cup {d}
               /\ h \notin IncompleteGoals => Reads(h)' = Reads(h)
  BY <1>1, Begun
<1>3. /\ completing = <<>> /\ completing' = completing /\ stack' = Push(d)
      /\ call'[n].prev_call = table[d] /\ call'[n].no_of_answers = 0 /\ ~call'[n].changed
      /\ call'[n].falsecount = 0
      /\ \A m \in Node \ {n} :
            /\ call'[m].no_of_answers = call[m].no_of_answers /\ call'[m].changed = call[m].changed
            /\ m = table[d] => call[m].falsecount # 0
  BY DEF Produces
<1>4. /\ IncompleteGoals \subseteq Goals /\ \A h \in IncompleteGoals : table[h] # None
      /\ table \in [Goals -> Node \cup {None}] /\ \A m \in Node : call[m] \in NodeRecord
      /\ \A m \in Node : call[m].falsecount \in Nat
      /\ \A m \in Node : call[m].prev_call # n
  BY <1>1, IncompleteAreGoals, Counts DEF IInv, Stacks, Evaluation, Calls, Produces
<1>5. Once'
  BY <1>1, <1>2, <1>3, OncePushed
<1>6. Follows'
  BY <1>1, FollowsPushed
<1>7. \A h \in Goals : h # d => (HasAnswer(h)' = HasAnswer(h))
  BY <1>2 DEF HasAnswer
<1>8. ~HasAnswer(d)' /\ (Again(d)' <=> table[d] # None) /\ ~Again(d)
  <2>1. ~(0 > 0)
    OBVIOUS
  <2> QED BY <1>2, <1>3, <2>1 DEF HasAnswer, Again
<1>9. \A h \in Goals : h # d => (Again(h)' <=> Again(h))
  <2> SUFFICES ASSUME NEW h \in Goals, h # d PROVE Again(h)' <=> Again(h)
    OBVIOUS
  <2>1. h \in IncompleteGoals' <=> h \in IncompleteGoals
    BY <1>2
  <2>2. h \in IncompleteGoals => table'[h] = table[h] /\ call'[table[h]] = call[table[h]]
    BY <1>2, <1>4
  <2> QED BY <2>1, <2>2 DEF Again
<1>10. ASSUME NEW h \in Goals, h # d, Again(h)
       PROVE  LET p == call[table[h]].prev_call
              IN  p \in Node /\ p # n /\ call'[table'[h]].prev_call = p
                  /\ call'[p].changed = call[p].changed /\ call'[p].no_of_answers = call[p].no_of_answers
  <2>1. table[h] # None /\ table[h] \in Node /\ table'[h] = table[h] /\ call'[table[h]] = call[table[h]]
    BY <1>2, <1>4, <1>10 DEF Again
  <2>2. call[table[h]].prev_call \in Node /\ call[table[h]].prev_call # n
    BY <1>4, <1>10, <2>1 DEF Again, NodeRecord
  <2> QED BY <1>3, <2>1, <2>2
<1>11. \A h \in Goals : h # d /\ Again(h) => (HadAnswer(h)' <=> HadAnswer(h))
  BY <1>7, <1>10 DEF HadAnswer
<1>12. ASSUME table[d] # None
       PROVE  /\ table[d] \in Node /\ call'[table[d]].no_of_answers = call[table[d]].no_of_answers
              /\ call'[table[d]].changed = call[table[d]].changed /\ ~call[table[d]].changed
              /\ call'[table'[d]].prev_call = table[d]
  BY <1>1, <1>2, <1>3, <1>4, <1>12 DEF Compared
<1>13. table[d] # None => (HadAnswer(d)' <=> HasAnswer(d))
  BY <1>8, <1>12 DEF HadAnswer, HasAnswer
<1>14. Compared'
  <2> SUFFICES ASSUME NEW g \in Goals, table'[g] # None
               PROVE  /\ ~call'[table'[g]].changed
                      /\ Again(g)' => LET p == call'[call'[table'[g]].prev_call]
                                      IN  /\ p.changed => HasAnswer(g)' /\ p.no_of_answers = 0
                                          /\ p.no_of_answers > 0 => ~HasAnswer(g)'
    BY DEF Compared
  <2>1. CASE g = d
    BY <1>2, <1>3, <1>8, <1>12, <2>1
  <2>2. CASE g # d
    <3>1. table[g] # None /\ table'[g] = table[g] /\ call'[table[g]] = call[table[g]]
      BY <1>2, <2>2
    <3>2. ~call[table[g]].changed
      BY <1>1, <3>1 DEF Compared
    <3>3. ASSUME Again(g)'
          PROVE  LET p == call'[call'[table'[g]].prev_call]
                 IN  /\ p.changed => HasAnswer(g)' /\ p.no_of_answers = 0
                     /\ p.no_of_answers > 0 => ~HasAnswer(g)'
      <4>1. Again(g)
        BY <1>9, <2>2, <3>3
      <4>2. LET p == call[call[table[g]].prev_call]
            IN  /\ p.changed => HasAnswer(g) /\ p.no_of_answers = 0
                /\ p.no_of_answers > 0 => ~HasAnswer(g)
        BY <1>1, <3>1, <4>1 DEF Compared
      <4> QED BY <1>7, <1>10, <2>2, <4>1, <4>2
    <3> QED BY <3>1, <3>2, <3>3
  <2> QED BY <2>1, <2>2
<1>15. d \notin Live
  <2>1. ~Valid(d)
    BY <1>3, <1>12, <1>2 DEF Valid, IsCompleted
  <2> QED BY <1>2, <2>1 DEF Live
<1>16. ASSUME NEW g \in Goals, IsCompleted(g)'
       PROVE  /\ g # d /\ table[g] # None /\ IsCompleted(g) /\ Reads(g)' = Reads(g)
              /\ table'[g] = table[g] /\ table[g] \in Node /\ call'[table[g]] = call[table[g]]
  BY <1>2, <1>16 DEF IsCompleted
<1>17. \A g \in Goals : IsCompleted(g)' => IsCompleted(g) /\ (Valid(g)' => Valid(g))
  BY <1>16 DEF Valid
<1>18. ASSUME NEW g \in IncompleteGoals'
       PROVE  IF g \in IncompleteGoals THEN HasAnswer(g)' = HasAnswer(g) ELSE g \notin Live /\ ~HasAnswer(g)'
  BY <1>2, <1>4, <1>7, <1>8, <1>15, <1>18
<1>19. \A g \in Goals : g \in Live /\ g \in Live' =>
             /\ Reads(g) \subseteq Reads(g)'
             /\ \A f \in Facts : f \in Reads(g) /\ LiteralTrue(f) => LiteralTrue(f)'
  <2> SUFFICES ASSUME NEW g \in Goals, g \in Live
               PROVE  /\ Reads(g) \subseteq Reads(g)'
                      /\ \A f \in Facts : LiteralTrue(f) => LiteralTrue(f)'
    OBVIOUS
  <2>1. g # d /\ table[g] # None
    BY <1>4, <1>15 DEF Live, Valid, IsCompleted
  <2> QED BY <1>2, <2>1 DEF LiteralTrue
<1>20. ASSUME NEW g \in Goals, IsCompleted(g)', Untainted(g)' PROVE Untainted(g)
  <2>1. Waits(call, table[g])' = Waits(call, table[g])
    <3>1. Waits(call, table[g])' = {s \in Reads(g)' \cap Goals : Invalid(call, s)'}
      BY DEF Waits, Reads
    <3>2. Waits(call, table[g]) = {s \in Reads(g) \cap Goals : Invalid(call, s)}
      BY DEF Waits, Reads
    <3>3. ASSUME NEW s \in Reads(g) \cap Goals PROVE Invalid(call, s)' <=> Invalid(call, s)
      <4>1. table[s] # None
        BY <1>1, <1>16, <1>20, <3>3, ReadsTables
      <4>2. CASE s = d
        <5>1. call[table[s]].falsecount > 0
          BY <1>3, <1>2, <1>4, <1>12, <4>1, <4>2
        <5>2. s \in IncompleteGoals' /\ table'[s] # None /\ call'[table'[s]].prev_call # None
          BY <1>2, <1>3, <4>1, <4>2
        <5> QED BY <4>1, <5>1, <5>2 DEF Invalid
      <4>3. CASE s # d
        BY <1>2, <4>1, <4>3 DEF Invalid
      <4> QED BY <4>2, <4>3
    <3>4. Reads(g)' = Reads(g)
      BY <1>16, <1>20
    <3> QED BY <3>1, <3>2, <3>3, <3>4
  <2> QED BY <1>16, <1>20, <2>1 DEF Untainted
<1>21. ASSUME NEW g \in Goals, IsCompleted(g)', NEW s \in Reads(g) PROVE s \in Held' <=> s \in Held
  <2>1. s \in Source /\ (s \in Goals => table[s] # None)
    BY <1>1, <1>16, <1>21, ReadsTables
  <2>2. CASE s \in Facts
    <3>1. s \notin Goals /\ (LiteralTrue(s)' <=> LiteralTrue(s))
      BY <2>2, CallGraphAssumption DEF LiteralTrue
    <3> QED BY <2>1, <3>1 DEF Held
  <2>3. CASE s \notin Facts
    <3>1. s \in Goals /\ table[s] # None
      BY <2>1, <2>3 DEF Source
    <3>2. CASE s = d
      <4>1. Again(s)' /\ ~Again(s) /\ (HadAnswer(s)' <=> HasAnswer(s)) /\ (LiteralTrue(s) <=> HasAnswer(s))
        BY <1>8, <1>13, <2>3, <3>1, <3>2 DEF LiteralTrue
      <4> QED BY <2>1, <3>1, <4>1 DEF Held
    <3>3. CASE s # d
      <4>1. (Again(s)' <=> Again(s)) /\ (Again(s) => (HadAnswer(s)' <=> HadAnswer(s)))
        BY <1>9, <1>11, <3>1, <3>3
      <4>2. LiteralTrue(s)' <=> LiteralTrue(s)
        BY <1>7, <2>3, <3>1, <3>3 DEF LiteralTrue
      <4> QED BY <2>1, <3>1, <4>1, <4>2 DEF Held
    <3> QED BY <3>2, <3>3
  <2> QED BY <2>2, <2>3
<1>22. \A g \in Goals : IsCompleted(g)' /\ Untainted(g)' =>
             /\ Untainted(g) /\ Reads(g) \subseteq Reads(g)'
             /\ \A s \in Reads(g) : s \in Held' <=> s \in Held
  BY <1>16, <1>20, <1>21
<1>23. Closed'
  BY <1>1, LiveClosedNext
<1>24. completing = <<>> /\ completing' = <<>>
  BY <1>3
<1>25. Backed' /\ Right' /\ Derived'
  BY <1>1, <1>17, <1>18, <1>19, <1>22, <1>23, <1>24, Quiet
<1> QED BY <1>5, <1>6, <1>14, <1>25 DEF Meaning

\* What depends on what, when an edge is added and levels are merged.
LEMMA FollowsMerged ==
  ASSUME IInv, SInv, Follows, Once, completing = <<>>, UNCHANGED <<table, call, completing>>,
         IncompleteGoals' = IncompleteGoals, DOMAIN stack' = DOMAIN stack,
         \A i \in DOMAIN stack : stack'[i].goal = stack[i].goal /\ stack'[i].leader <= stack[i].leader
                                 /\ stack'[i].leader \in Nat,
         NEW c \in Caller, c \in Goals => c \in IncompleteGoals, NEW d \in Source,
         \A m \in Node : \/ inedges'[m] = inedges[m]
                         \/ c \in Goals /\ m = table[c] /\ inedges'[m] = inedges[m] \cup {d},
         d \in IncompleteGoals => \E j \in DOMAIN stack : stack[j].goal = d /\ \A i \in DOMAIN stack : stack'[i].leader <= j
  PROVE  Follows' /\ Once'
<1>1. /\ IncompleteGoals \subseteq Goals /\ \A h \in IncompleteGoals : table[h] # None
      /\ Range1(completing) = {} /\ Range1(completing)' = {} /\ DOMAIN completing' = {}
      /\ table \in [Goals -> Node \cup {None}] /\ table' = table /\ Tables
  BY IncompleteAreGoals DEF IInv, Stacks, Range1, Evaluation, SInv
<1>2. stack \in Seq(Frames) /\ Len(stack) \in Nat /\ DOMAIN stack = 1 .. Len(stack)
      /\ \A i \in DOMAIN stack : stack[i].leader \in 1 .. i
  BY DEF IInv, Evaluation, Stacks
<1>3. ASSUME NEW h \in Goals, table[h] # None
      PROVE  Reads(h)' \subseteq Reads(h) \cup {d} /\ (h \notin IncompleteGoals => Reads(h)' = Reads(h))
  <2>1. Reads(h)' = inedges'[table[h]] /\ Reads(h) = inedges[table[h]]
    BY <1>1 DEF Reads
  <2>2. table[h] \in Node
    BY <1>1, <1>3
  <2>3. h \notin IncompleteGoals => ~(c \in Goals /\ table[h] = table[c])
    BY <1>1, <1>3 DEF Tables
  <2> QED BY <2>1, <2>2, <2>3
<1>4. ASSUME NEW i \in DOMAIN stack', NEW s \in IncompleteGoals', s \in Reads(stack[i].goal)'
      PROVE  \E j \in DOMAIN stack' : stack'[i].leader <= j /\ stack'[j].goal = s
  <2>1. PICK h \in IncompleteGoals : h = stack[i].goal /\ h = stack'[i].goal
    BY <1>4 DEF IncompleteGoals
  <2>2. s \in Reads(h) \cup {d}
    <3>1. Reads(stack[i].goal)' = Reads(h)'
      BY <2>1 DEF Reads
    <3> QED BY <1>1, <1>3, <1>4, <2>1, <3>1
  <2>3. CASE s = d
    BY <1>4, <2>3
  <2>4. CASE s # d
    <3>1. s \in IncompleteGoals /\ s \in Reads(h)
      BY <1>4, <2>2, <2>4
    <3>2. PICK j \in DOMAIN stack : stack[i].leader <= j /\ stack[j].goal = s
      BY <1>1, <1>4, <2>1, <3>1 DEF Follows
    <3>3. stack'[i].leader <= stack[i].leader /\ stack'[i].leader \in Nat /\ stack[i].leader \in Nat /\ j \in Nat
      BY <1>2, <1>4
    <3>4. stack'[i].leader <= j
      BY <3>2, <3>3
    <3> QED BY <3>2, <3>4
  <2> QED BY <2>3, <2>4
<1>5. ASSUME NEW g \in Goals, NEW s \in IncompleteGoals', IsCompleted(g)', s \in Reads(g)' PROVE Again(s)'
  <2>1. IsCompleted(g) /\ s \in Reads(g)
    BY <1>1, <1>3, <1>5 DEF IsCompleted
  <2>2. Again(s)
    BY <1>1, <1>5, <2>1 DEF Follows
  <2> QED BY <1>1, <2>2 DEF Again
<1>6. Follows'
  BY <1>1, <1>4, <1>5 DEF Follows
<1>7. Once'
  BY <1>1 DEF Once
<1> QED BY <1>6, <1>7

\* A table is read: nothing else happens.
LEMMA ReadMeans ==
  ASSUME Before, After, completing = <<>>, UNCHANGED <<table, call, completing, db>>,
         IncompleteGoals' = IncompleteGoals, NEW c \in Caller, c \in Goals => c \in IncompleteGoals, NEW d \in Source,
         \A m \in Node : \/ inedges'[m] = inedges[m]
                         \/ c \in Goals /\ m = table[c] /\ inedges'[m] = inedges[m] \cup {d},
         Once', CalledRead', Follows'
  PROVE  Meaning'
<1>1. /\ IInv /\ SInv /\ Marks(call) /\ IInv' /\ SInv' /\ Marks(call)' /\ AnswersKept
      /\ Compared /\ Backed /\ Right /\ Derived /\ Closed
  BY LiveClosed DEF Before, After, KInv, Meaning
<1>2. /\ IncompleteGoals \subseteq Goals /\ \A h \in IncompleteGoals : table[h] # None
      /\ table \in [Goals -> Node \cup {None}] /\ table' = table /\ call' = call /\ Tables
  BY <1>1, IncompleteAreGoals DEF IInv, Stacks, Evaluation, SInv
<1>3. ASSUME NEW h \in Goals, table[h] # None
      PROVE  Reads(h) \subseteq Reads(h)' /\ (h \notin IncompleteGoals => Reads(h)' = Reads(h))
  <2>1. Reads(h)' = inedges'[table[h]] /\ Reads(h) = inedges[table[h]]
    BY <1>2 DEF Reads
  <2>2. table[h] \in Node
    BY <1>2, <1>3
  <2>3. h \notin IncompleteGoals => ~(c \in Goals /\ table[h] = table[c])
    BY <1>2, <1>3 DEF Tables
  <2> QED BY <2>1, <2>2, <2>3
<1>4. \A g \in Goals : /\ HasAnswer(g)' = HasAnswer(g) /\ Again(g)' = Again(g) /\ HadAnswer(g)' = HadAnswer(g)
                       /\ IsCompleted(g)' = IsCompleted(g) /\ Valid(g)' = Valid(g)
  BY <1>2 DEF HasAnswer, Again, HadAnswer, IsCompleted, Valid
<1>5. Compared'
  BY <1>1, <1>2, <1>4 DEF Compared
<1>6. \A s : LiteralTrue(s)' = LiteralTrue(s)
  BY <1>2 DEF LiteralTrue, HasAnswer
<1>7. Held' = Held
  BY <1>4, <1>6 DEF Held
<1>8. \A g \in Goals : IsCompleted(g)' => IsCompleted(g) /\ (Valid(g)' => Valid(g))
  BY <1>4
<1>9. ASSUME NEW g \in IncompleteGoals'
      PROVE  IF g \in IncompleteGoals THEN HasAnswer(g)' = HasAnswer(g) ELSE g \notin Live /\ ~HasAnswer(g)'
  BY <1>2, <1>4, <1>9
<1>10. \A g \in Goals : g \in Live /\ g \in Live' =>
             /\ Reads(g) \subseteq Reads(g)'
             /\ \A f \in Facts : f \in Reads(g) /\ LiteralTrue(f) => LiteralTrue(f)'
  <2> SUFFICES ASSUME NEW g \in Goals, g \in Live PROVE Reads(g) \subseteq Reads(g)'
    BY <1>6
  <2>1. table[g] # None
    BY <1>2 DEF Live, Valid, IsCompleted
  <2> QED BY <1>3, <2>1
<1>11. ASSUME NEW g \in Goals, IsCompleted(g)', Untainted(g)'
       PROVE  /\ Untainted(g) /\ Reads(g) \subseteq Reads(g)'
              /\ \A s \in Reads(g) : s \in Held' <=> s \in Held
  <2>1. table[g] # None /\ g \notin IncompleteGoals
    BY <1>4, <1>11 DEF IsCompleted
  <2>2. Reads(g)' = Reads(g)
    BY <1>3, <2>1
  <2>3. Waits(call, table[g])' = Waits(call, table[g])
    BY <1>2, <2>2 DEF Waits, Reads, Invalid
  <2> QED BY <1>2, <1>7, <1>11, <2>2, <2>3 DEF Untainted
<1>12. Closed'
  BY <1>1, LiveClosedNext
<1>13. completing' = <<>> /\ completing = <<>>
  OBVIOUS
<1>14. Backed' /\ Right' /\ Derived'
  BY <1>1, <1>8, <1>9, <1>10, <1>11, <1>12, <1>13, Quiet
<1> QED BY <1>5, <1>14 DEF Meaning

\* A call that finds a valid or an incomplete table.
LEMMA ValidCallMeans ==
  ASSUME Before, After, completing = <<>>, completing' = completing, NEW c \in Caller,
         c = User \/ c \in IncompleteGoals, NEW d \in Goals, CallValidTable(c, d), db' = db, CalledRead'
  PROVE  Meaning'
<1>1. /\ IInv /\ SInv /\ LInv /\ Once /\ Follows
  BY DEF Before, KInv, Meaning
<1>2. c \in Goals => c \in IncompleteGoals
  BY CallGraphAssumption
<1>3. UNCHANGED <<table, call, completing>> /\ SetEdges(addcalledge(d, CallerNode(c), out, outcount, inedges))
  BY DEF CallValidTable
<1>4. \A m \in Node : \/ inedges'[m] = inedges[m]
                      \/ c \in Goals /\ m = table[c] /\ inedges'[m] = inedges[m] \cup {d}
  BY <1>1, <1>3, CallerLinked
<1>5. /\ DOMAIN stack' = DOMAIN stack
      /\ \A i \in DOMAIN stack : stack'[i].goal = stack[i].goal /\ stack'[i].leader <= stack[i].leader
                                /\ stack'[i].leader \in Nat
      /\ d \in IncompleteGoals => \E at \in DOMAIN stack : stack[at].goal = d /\ \A i \in DOMAIN stack : stack'[i].leader <= at
  BY <1>1, LevelsMerged DEF LInv
<1>6. IncompleteGoals' = IncompleteGoals
  BY <1>3, <1>5 DEF IncompleteGoals, Range1
<1>7. Follows' /\ Once'
  <2>1. d \in Source
    BY DEF Source
  <2> QED BY <1>1, <1>2, <1>3, <1>4, <1>5, <1>6, <2>1, FollowsMerged
<1>8. UNCHANGED <<table, call, completing, db>> /\ d \in Source
  BY <1>3 DEF Source
<1> QED BY <1>2, <1>4, <1>6, <1>7, <1>8, ReadMeans

\* A call of a tabled goal.
LEMMA CallMeans ==
  ASSUME Before, After, completing = <<>>, completing' = completing, NEW c \in Caller,
         c = User \/ c \in IncompleteGoals, NEW d \in Goals, CallTable(c, d), db' = db,
         \A h \in Goals : \/ called'[h] = called[h]
                          \/ h = c /\ \E l : called'[h] = called[h] \cup {l} /\ LiteralGoal(h, l) = d
  PROVE  Meaning'
<1>1. /\ IInv /\ SInv /\ LInv /\ Once /\ CalledRead /\ Follows
  BY DEF Before, KInv, Meaning
<1>2. c \in Goals => c \in IncompleteGoals
  BY CallGraphAssumption
<1>3. /\ IncompleteGoals \subseteq Goals /\ \A h \in IncompleteGoals : table[h] # None
      /\ table \in [Goals -> Node \cup {None}]
  BY <1>1, IncompleteAreGoals DEF IInv, Stacks, Evaluation
<1>4. CASE CallValidTable(c, d)
  <2>1. /\ UNCHANGED <<table, call>> /\ SetEdges(addcalledge(d, CallerNode(c), out, outcount, inedges))
    BY <1>4 DEF CallValidTable
  <2>2. \A m \in Node : \/ inedges'[m] = inedges[m]
                        \/ c \in Goals /\ m = table[c] /\ inedges'[m] = inedges[m] \cup {d}
    BY <1>1, <2>1, CallerLinked
  <2>3. c \in Goals => d \in inedges'[table[c]]
    <3>1. \A m \in Node : m \in out[d] => d \in inedges[m]
      BY <1>1 DEF IInv, Graph, Source
    <3> QED BY <1>1, <2>1, <3>1, EdgeThere
  <2>5. IncompleteGoals' = IncompleteGoals
    <3>1. /\ DOMAIN stack' = DOMAIN stack
          /\ \A i \in DOMAIN stack : stack'[i].goal = stack[i].goal
      BY <1>1, <1>4, LevelsMerged DEF LInv
    <3> QED BY <3>1 DEF IncompleteGoals, Range1
  <2>7. CalledRead'
    <3>1. \A h \in IncompleteGoals : table'[h] = table[h] /\ inedges[table[h]] \subseteq inedges'[table[h]]
      BY <1>3, <2>1, <2>2
    <3>2. \A h \in Goals : \/ called'[h] = called[h]
                          \/ /\ h \in IncompleteGoals
                             /\ \E l : /\ called'[h] = called[h] \cup {l}
                                       /\ LiteralGoal(h, l) \in inedges'[table[h]]
      BY <1>2, <2>3
    <3> QED BY <1>1, <2>5, <3>1, <3>2, CallsRead
  <2> QED BY <1>2, <1>4, <2>7, ValidCallMeans
<1>5. CASE \E n \in Node : Produces(c, d, n)
  <2>1. PICK n \in Node : Produces(c, d, n)
    BY <1>5
  <2>2. /\ IncompleteGoals' = IncompleteGoals \cup {d} /\ d \notin IncompleteGoals
        /\ \A h \in Goals : h # d => table'[h] = table[h]
        /\ \A h \in Goals : h # d /\ table[h] # None => Reads(h) \subseteq Reads(h)'
    BY <1>1, <1>2, <2>1, Begun
  <2>3. c \in Goals => d \in inedges'[table[c]]
    BY <2>1 DEF Produces
  <2>4. \A h \in IncompleteGoals : table'[h] = table[h] /\ inedges[table[h]] \subseteq inedges'[table[h]]
    <3> SUFFICES ASSUME NEW h \in IncompleteGoals
                 PROVE  table'[h] = table[h] /\ inedges[table[h]] \subseteq inedges'[table[h]]
      OBVIOUS
    <3>1. h \in Goals /\ h # d /\ table[h] # None /\ table'[h] = table[h]
      BY <1>3, <2>2
    <3>2. Reads(h) = inedges[table[h]] /\ Reads(h)' = inedges'[table[h]]
      BY <3>1 DEF Reads
    <3> QED BY <2>2, <3>1, <3>2
  <2>5. \A h \in Goals : \/ called'[h] = called[h]
                         \/ /\ h \in IncompleteGoals
                            /\ \E l : /\ called'[h] = called[h] \cup {l}
                                      /\ LiteralGoal(h, l) \in inedges'[table[h]]
    BY <1>2, <2>3
  <2>6. CalledRead'
    BY <1>1, <2>2, <2>4, <2>5, CallsRead
  <2> QED BY <1>2, <2>1, <2>6, ProducerMeans
<1> QED BY <1>1, <1>4, <1>5, CallCases

\* A call of a fact.
LEMMA FactMeans ==
  ASSUME Before, After, NEW g \in Goals, CallFact(g) PROVE Meaning'
<1>1. PICK l, d : l = NextLiteral(g) /\ d = LiteralGoal(g, l)
  OBVIOUS
<1>2. /\ Active(g) /\ d \in Facts /\ SetEdges(addcalledge(d, table[g], out, outcount, inedges))
      /\ UNCHANGED <<db, table, call, stack, completing>>
      /\ called' = [called EXCEPT ![g] = @ \cup {l}]
  BY <1>1 DEF CallFact, CallsLiteral
<1>3. IInv /\ SInv /\ Once /\ CalledRead /\ Follows
  BY DEF Before, Meaning
<1>4. g \in Caller /\ g # User /\ g \in IncompleteGoals /\ completing = <<>>
  <2>1. g \in Caller
    BY DEF Caller
  <2> QED BY <1>2, <1>3, <2>1, AtWork, CallGraphAssumption
<1>5. CallerNode(g) = table[g]
  BY <1>4 DEF CallerNode
<1>6. \A m \in Node : \/ inedges'[m] = inedges[m]
                      \/ g \in Goals /\ m = table[g] /\ inedges'[m] = inedges[m] \cup {d}
  BY <1>2, <1>3, <1>4, <1>5, CallerLinked
<1>7. d \in inedges'[table[g]]
  <2>1. \A m \in Node : m \in out[d] => d \in inedges[m]
    BY <1>2, <1>3 DEF IInv, Graph, Source
  <2> QED BY <1>2, <1>3, <1>4, <1>5, <2>1, EdgeThere
<1>8. IncompleteGoals' = IncompleteGoals
  BY <1>2 DEF IncompleteGoals, Range1
<1>9. /\ DOMAIN stack' = DOMAIN stack
      /\ \A i \in DOMAIN stack : stack'[i].goal = stack[i].goal /\ stack'[i].leader <= stack[i].leader
                                /\ stack'[i].leader \in Nat
  <2>1. \A i \in DOMAIN stack : stack[i].leader \in Nat
    BY <1>3 DEF IInv, Stacks, Evaluation
  <2> QED BY <1>2, <2>1
<1>10. d \notin IncompleteGoals /\ d \in Source
  BY <1>2, <1>3, IncompleteAreGoals, CallGraphAssumption DEF IInv, Source
<1>11. Follows' /\ Once'
  BY <1>2, <1>3, <1>4, <1>6, <1>8, <1>9, <1>10, FollowsMerged
<1>12. CalledRead'
  <2>1. \A h \in IncompleteGoals : table'[h] = table[h] /\ inedges[table[h]] \subseteq inedges'[table[h]]
    <3>1. \A h \in IncompleteGoals : table[h] \in Node
      BY <1>3, IncompleteAreGoals DEF IInv, Evaluation, Stacks
    <3> QED BY <1>2, <1>6, <3>1
  <2>2. \A h \in Goals : called'[h] = IF h = g THEN called[h] \cup {l} ELSE called[h]
    BY <1>2, <1>3 DEF IInv, Evaluation
  <2>3. LiteralGoal(g, l) \in inedges'[table[g]]
    BY <1>1, <1>7
  <2>4. \A h \in Goals : \/ called'[h] = called[h]
                         \/ /\ h \in IncompleteGoals
                            /\ \E k : /\ called'[h] = called[h] \cup {k}
                                      /\ LiteralGoal(h, k) \in inedges'[table[h]]
    BY <1>4, <2>2, <2>3
  <2> QED BY <1>3, <1>8, <2>1, <2>4, CallsRead
<1> QED BY <1>2, <1>4, <1>6, <1>8, <1>10, <1>11, <1>12, ReadMeans

-----------------------------------------------------------------------------
(* Tables that are dropped: exceptions and abolish_table_call. *)

\* A table that still waits for as many as it is counted for waits for all it did.
LEMMA StillWaits ==
  ASSUME IInv, Marks(call), completing = <<>>, NEW g \in Goals, IsCompleted(g),
         NEW V \in SUBSET Waits(call, table[g]), call[table[g]].falsecount <= Cardinality(V)
  PROVE  V = Waits(call, table[g]) /\ Untainted(g)
<1> DEFINE n == table[g]
           W == Waits(call, n)
           f == call[n].falsecount
<1>1. n \in Node /\ f \in Nat /\ f <= Cardinality(V) /\ V \in SUBSET W
  BY Counts DEF IInv, Evaluation, IsCompleted
<1>2. W \in SUBSET inedges[n]
  BY DEF Waits
<1>3. /\ f = 0 => W \subseteq Range1(completing)
      /\ f > 0 => Cardinality(W) <= f
  BY DEF Marks, Counted
<1>4. Range1(completing) = {}
  BY DEF Range1
<1>5. f <= Cardinality(W) => Untainted(g)
  BY DEF Untainted
<1> HIDE DEF n, W, f
<1>6. IsFiniteSet(W) /\ Cardinality(W) \in Nat /\ Cardinality(V) \in Nat /\ Cardinality(V) <= Cardinality(W)
  BY <1>1, <1>2, FewerWait
<1>7. V = W
  <2>1. CASE f = 0
    BY <1>1, <1>3, <1>4, <2>1
  <2>2. CASE f > 0
    <3>1. Cardinality(V) = Cardinality(W)
      BY <1>1, <1>3, <1>6, <2>2
    <3> QED BY <1>1, <1>6, <3>1, FS_Subset
  <2> QED BY <1>1, <2>1, <2>2
<1>8. f <= Cardinality(W)
  BY <1>1, <1>7
<1> QED BY <1>5, <1>7, <1>8 DEF W, n

\* The tables of the stack are gone.
LEMMA UnwindMeans ==
  ASSUME Before, After, completing = <<>>, Aborted PROVE Meaning'
<1>1. /\ IInv /\ SInv /\ Marks(call) /\ IInv' /\ SInv' /\ Marks(call)' /\ AnswersKept
      /\ Compared /\ Follows /\ Backed /\ Right /\ Derived /\ Closed
  BY LiveClosed DEF Before, After, KInv, Meaning
<1>2. Dropped /\ completing' = <<>>
  BY <1>1, TablesDropped DEF Dropped
<1> USE DEF Dropped, SameNode
<1>3. db' = db /\ called' = [g \in Goals |-> {}]
  BY DEF Aborted, Unwind
<1>4. Range1(completing) = {} /\ Range1(completing)' = {} /\ DOMAIN completing' = {} /\ DOMAIN stack' = {}
  BY <1>2 DEF Range1
<1>5. \A h \in Goals : table'[h] # None => Reads(h)' = Reads(h) \ IncompleteGoals
  <2> SUFFICES ASSUME NEW h \in Goals, table'[h] # None PROVE Reads(h)' = Reads(h) \ IncompleteGoals
    OBVIOUS
  <2> DEFINE G == {stack[i].goal : i \in DOMAIN stack}
             N == {table[g] : g \in G}
             n == table[h]
  <2>1. G = IncompleteGoals
    BY <1>1, OnStack DEF IInv
  <2>2. inedges' = [m \in Node |-> IF m \in N THEN {} ELSE inedges[m] \ {g \in G : m \in out[g]}]
    BY DEF Aborted, Unwind, Detach
  <2>3. n \in Node /\ h \notin IncompleteGoals /\ table'[h] = n /\ n # None
    BY <1>2
  <2>4. IncompleteGoals \subseteq Goals /\ \A g \in IncompleteGoals : table[g] # None
    BY <1>1, IncompleteAreGoals DEF IInv, Stacks
  <2>5. n \notin N
    BY <1>1, <2>1, <2>3, <2>4 DEF SInv, Tables
  <2>6. \A g \in G : n \in out[g] <=> g \in inedges[n]
    BY <1>1, <2>1, <2>3, <2>4 DEF IInv, Graph, Source
  <2> HIDE DEF G, N, n
  <2>7. inedges'[n] = inedges[n] \ IncompleteGoals
    BY <2>1, <2>2, <2>3, <2>5, <2>6
  <2> QED BY <2>3, <2>7 DEF Reads, n
<1>6. Once' /\ Follows'
  BY <1>2, <1>4 DEF Once, Follows
<1>7. CalledRead'
  BY <1>2, <1>3 DEF CalledRead
<1>8. Compared'
  BY <1>1, <1>2 DEF Compared, Again
<1>9. \A g \in Goals : IsCompleted(g)' => IsCompleted(g) /\ (Valid(g)' => Valid(g))
  BY <1>2 DEF IsCompleted, Valid
<1>10. ASSUME NEW g \in Goals, IsCompleted(g)', Untainted(g)'
       PROVE  /\ Untainted(g) /\ Reads(g) \subseteq Reads(g)'
              /\ \A d \in Reads(g) : d \in Held' <=> d \in Held
  <2> DEFINE V == Waits(call, table[g])'
  <2>1. /\ IsCompleted(g) /\ table'[g] # None /\ table'[g] = table[g] /\ SameNode(table[g])
        /\ Reads(g)' = Reads(g) \ IncompleteGoals
    BY <1>2, <1>5, <1>9, <1>10 DEF IsCompleted
  <2>2. V \in SUBSET Waits(call, table[g]) /\ V \cap IncompleteGoals = {}
    <3>1. ASSUME NEW s \in V PROVE s \in Waits(call, table[g]) /\ s \notin IncompleteGoals
      <4>1. s \in Goals /\ s \in Reads(g)' /\ Invalid(call, s)'
        BY DEF Waits, Reads
      <4>2. s \in Reads(g) /\ s \notin IncompleteGoals /\ Invalid(call, s)
        BY <1>2, <2>1, <4>1 DEF Invalid
      <4> QED BY <4>1, <4>2 DEF Waits, Reads
    <3> QED BY <3>1
  <2>3. call[table[g]].falsecount <= Cardinality(V)
    BY <1>10, <2>1 DEF Untainted
  <2> HIDE DEF V
  <2>4. V = Waits(call, table[g]) /\ Untainted(g)
    BY <1>1, <2>1, <2>2, <2>3, StillWaits
  <2>5. ASSUME NEW s \in Reads(g), s \in IncompleteGoals PROVE FALSE
    <3>1. s \in Goals /\ Again(s)
      BY <1>1, <1>4, <2>1, <2>5, IncompleteAreGoals DEF IInv, Follows
    <3>2. table[s] # None
      BY <1>1, <2>5 DEF IInv, Stacks
    <3>3. s \in Waits(call, table[g])
      BY <2>5, <3>1, <3>2 DEF Waits, Invalid, Again, Reads
    <3> QED BY <2>2, <2>4, <2>5, <3>3
  <2>6. Reads(g)' = Reads(g)
    BY <2>1, <2>5
  <2>7. ASSUME NEW d \in Reads(g) PROVE d \in Held' <=> d \in Held
    <3>1. d \in Source /\ d \notin IncompleteGoals
      BY <1>1, <2>1, <2>5, ReadsTables DEF IsCompleted
    <3>2. ~Again(d) /\ ~Again(d)'
      BY <1>2, <3>1 DEF Again
    <3>3. LiteralTrue(d)' <=> LiteralTrue(d)
      <4>1. CASE d \in Facts
        BY <1>3, <4>1 DEF LiteralTrue
      <4>2. CASE d \notin Facts
        <5>1. d \in Goals /\ table'[d] = table[d] /\ (table[d] # None => SameNode(table[d]))
          BY <1>2, <3>1, <4>2 DEF Source
        <5> QED BY <4>2, <5>1 DEF LiteralTrue, HasAnswer
      <4> QED BY <4>1, <4>2
    <3> QED BY <3>1, <3>2, <3>3 DEF Held
  <2> QED BY <2>4, <2>6, <2>7
<1>11. \A g \in Goals : g \in Live /\ g \in Live' =>
             /\ Reads(g) \subseteq Reads(g)'
             /\ \A f \in Facts : f \in Reads(g) /\ LiteralTrue(f) => LiteralTrue(f)'
  <2> SUFFICES ASSUME NEW g \in Goals, g \in Live'
               PROVE  /\ Reads(g) \subseteq Reads(g)'
                      /\ \A f \in Facts : LiteralTrue(f) => LiteralTrue(f)'
    OBVIOUS
  <2>1. Valid(g)'
    BY <1>2 DEF Live
  <2>2. Untainted(g)' /\ IsCompleted(g)'
    BY <1>1, <1>2, <2>1, ValidWaitsNot DEF Valid
  <2> QED BY <1>3, <1>10, <2>2 DEF LiteralTrue
<1>12. Closed'
  BY <1>1, LiveClosedNext
<1>13. \A g \in IncompleteGoals' :
             IF g \in IncompleteGoals THEN HasAnswer(g)' = HasAnswer(g) ELSE g \notin Live /\ ~HasAnswer(g)'
  BY <1>2
<1>14. Backed' /\ Right' /\ Derived'
  BY <1>1, <1>2, <1>9, <1>10, <1>11, <1>12, <1>13, Quiet
<1> QED BY <1>6, <1>7, <1>8, <1>14 DEF Meaning

\* A table that is abolished leaves those that depend on it counted for ever.
LEMMA AbolishMeans ==
  ASSUME Before, After, NEW g \in Goals, abolish_table_call(g) PROVE Meaning'
<1>1. /\ IInv /\ SInv /\ LInv /\ NoWrap /\ Marks(call) /\ IInv' /\ SInv' /\ Marks(call)' /\ AnswersKept
      /\ Once /\ CalledRead /\ Compared /\ Follows /\ Backed /\ Right /\ Derived /\ Closed
  BY LiveClosed DEF Before, After, KInv, Meaning
<1>2. PICK o \in invalidate_call(g) :
        /\ Disturbs(o)
        /\ IF o.thrown THEN call' = o.call /\ UNCHANGED <<table, out, outcount, inedges>>
           ELSE Detach({g}, o.call)
  BY DEF abolish_table_call
<1> DEFINE cl == o.call
<1>3. ~o.thrown /\ Detach({g}, cl)
  BY <1>2 DEF Disturbs, After, Undisturbed
<1>4. /\ UNCHANGED <<stack, completing, called, db>> /\ completing = <<>> /\ updates < MaxUpdates
      /\ IsCompleted(g) /\ table[g] # None /\ g \notin IncompleteGoals /\ g \in Source
  BY DEF abolish_table_call, CanUpdate, IsCompleted, evalVars, Source
<1>5. Alike(cl) /\ \A n \in Node : cl[n].no_of_answers = call[n].no_of_answers /\ cl[n].changed = call[n].changed
  BY <1>1, <1>3, <1>4, MarkedNodes, AnswersUntouched
<1>6. /\ table[g] \in Node /\ table[g][1] = g
      /\ \A h \in Goals : table'[h] = IF h = g THEN None ELSE table[h]
      /\ \A n \in Node \ {table[g]} : call'[n] = cl[n]
  <2>1. PICK c : c = cl
    OBVIOUS
  <2>2. Alike(c) /\ Detach({g}, c)
    BY <1>3, <1>5, <2>1
  <2> HIDE DEF cl
  <2>3. /\ table[g] \in Node /\ table[g][1] = g
        /\ \A h \in Goals : table'[h] = IF h = g THEN None ELSE table[h]
    BY <1>1, <1>4, <2>2, TableAbolished
  <2>4. \A n \in Node \ {table[g]} : call'[n] = c[n]
    BY <1>1, <1>4, <2>2, NodesAbolished
  <2> QED BY <2>1, <2>3, <2>4
<1>7. \A n \in Node \ {table[g]} : inedges'[n] = inedges[n] \ {g}
  <2>1. inedges' = [n \in Node |-> IF n \in {table[h] : h \in {g}} THEN {}
                                   ELSE inedges[n] \ {h \in {g} : n \in out[h]}]
    BY <1>3 DEF Detach
  <2>2. \A n \in Node : n \in out[g] <=> g \in inedges[n]
    BY <1>1, <1>4 DEF IInv, Graph
  <2> QED BY <2>1, <2>2
<1> HIDE DEF cl
<1>8. /\ IncompleteGoals' = IncompleteGoals /\ IncompleteGoals \subseteq Goals
      /\ \A h \in IncompleteGoals : h # g /\ table[h] # None
      /\ Range1(completing) = {} /\ Range1(completing)' = {}
      /\ table \in [Goals -> Node \cup {None}] /\ Tables
      /\ \A n \in Node : call[n] \in NodeRecord
  BY <1>1, <1>4, IncompleteAreGoals DEF IncompleteGoals, Range1, IInv, Stacks, Evaluation, SInv, Calls
<1>9. ASSUME NEW h \in Goals, h # g, table[h] # None
      PROVE  /\ table'[h] = table[h] /\ table[h] \in Node /\ table[h][1] = h /\ table[h] # table[g]
             /\ Reads(h)' = Reads(h) \ {g} /\ call'[table[h]] = cl[table[h]]
             /\ call'[table[h]].prev_call = call[table[h]].prev_call
             /\ call'[table[h]].changed = call[table[h]].changed
             /\ call'[table[h]].no_of_answers = call[table[h]].no_of_answers
  <2>1. /\ table'[h] = table[h] /\ table[h] \in Node /\ table[h][1] = h /\ table[h] # table[g]
    BY <1>6, <1>8, <1>9 DEF Tables
  <2>2. Reads(h)' = Reads(h) \ {g}
    BY <1>7, <2>1 DEF Reads
  <2> QED BY <1>5, <1>6, <2>1, <2>2 DEF Alike
<1>10. \A h \in Goals : h # g => /\ HasAnswer(h)' = HasAnswer(h) /\ Again(h)' = Again(h)
                                 /\ IsCompleted(h)' = IsCompleted(h)
  <2> SUFFICES ASSUME NEW h \in Goals, h # g
               PROVE  HasAnswer(h)' = HasAnswer(h) /\ Again(h)' = Again(h) /\ IsCompleted(h)' = IsCompleted(h)
    OBVIOUS
  <2>1. CASE table[h] = None
    <3>1. table'[h] = None /\ h \notin IncompleteGoals
      BY <1>6, <1>8, <2>1
    <3> QED BY <1>8, <2>1, <3>1 DEF HasAnswer, Again, IsCompleted
  <2>2. CASE table[h] # None
    BY <1>8, <1>9, <2>2 DEF HasAnswer, Again, IsCompleted
  <2> QED BY <2>1, <2>2
<1>11. ASSUME NEW h \in Goals, Again(h)
       PROVE  LET p == call[table[h]].prev_call
              IN  p \in Node /\ p # table[g] /\ h # g /\ call'[table'[h]].prev_call = p
                  /\ call'[p].changed = call[p].changed /\ call'[p].no_of_answers = call[p].no_of_answers
  <2>1. h # g /\ table[h] # None /\ table[h] \in Node /\ h \in IncompleteGoals /\ call[table[h]].prev_call # None
    BY <1>8, <1>11 DEF Again
  <2>2. call[table[h]].prev_call \in Node /\ call[table[h]].prev_call[1] = h
    <3>1. call[table[h]].prev_call[1] = table[h][1] /\ table[h][1] = h
      BY <1>1, <1>9, <2>1 DEF SInv, Previous
    <3> QED BY <1>8, <2>1, <3>1 DEF NodeRecord
  <2>3. call[table[h]].prev_call # table[g]
    BY <1>6, <2>1, <2>2
  <2> QED BY <1>5, <1>6, <1>9, <2>1, <2>2, <2>3
<1>12. \A h \in Goals : Again(h) => (HadAnswer(h)' <=> HadAnswer(h))
  BY <1>10, <1>11 DEF HadAnswer
<1>13. ASSUME NEW h \in IncompleteGoals PROVE g \notin Reads(h) /\ Reads(h)' = Reads(h)
  <2>1. h \in Goals /\ h # g /\ table[h] # None
    BY <1>8
  <2>2. g \notin Reads(h)
    <3>1. CASE call[table[g]].deleted
      <4>1. call[table[g]].falsecount > 0
        BY <1>1, <1>4, <3>1 DEF Marks, Counted
      <4>2. ~(0 > 0)
        OBVIOUS
      <4>3. g \notin Live /\ h \in Live
        BY <1>4, <2>1, <4>1, <4>2 DEF Live, Valid
      <4> QED BY <1>1, <4>3 DEF Closed
    <3>2. CASE ~call[table[g]].deleted
      <4>1. Root(g) = table[g]
        BY DEF Root
      <4> QED BY <1>1, <1>3, <1>4, <3>2, <4>1, SpreadStops
    <3> QED BY <3>1, <3>2
  <2>3. Reads(h)' = Reads(h) \ {g}
    BY <1>9, <2>1
  <2> QED BY <2>2, <2>3
<1>14. ASSUME NEW h \in Goals, IsCompleted(h)' PROVE h # g /\ table[h] # None /\ IsCompleted(h)
  <2>1. h # g
    BY <1>6, <1>14 DEF IsCompleted
  <2> QED BY <1>10, <1>14, <2>1 DEF IsCompleted
<1>15. ASSUME NEW h \in Goals, IsCompleted(h)', Untainted(h)' PROVE Untainted(h) /\ g \notin Reads(h)
  <2> DEFINE V == Waits(call, table[h])'
  <2>1. h # g /\ table[h] # None /\ IsCompleted(h)
    BY <1>14, <1>15
  <2>2. /\ table'[h] = table[h] /\ Reads(h)' = Reads(h) \ {g} /\ call'[table[h]] = cl[table[h]]
    BY <1>9, <2>1
  <2>3. V \in SUBSET Waits(cl, table[h]) /\ g \notin V
    <3>1. ASSUME NEW s \in V PROVE s \in Waits(cl, table[h]) /\ s # g
      <4>1. s \in Goals /\ s \in Reads(h)' /\ Invalid(call, s)'
        BY DEF Waits, Reads
      <4>2. s # g /\ s \in Reads(h)
        BY <2>2, <4>1
      <4>3. table[s] # None /\ table'[s] = table[s] /\ call'[table[s]] = cl[table[s]]
        <5>1. table[s] # None
          BY <1>6, <4>1, <4>2 DEF Invalid
        <5> QED BY <1>9, <4>1, <4>2, <5>1
      <4>4. Invalid(cl, s)
        BY <1>8, <4>1, <4>3 DEF Invalid
      <4> QED BY <4>1, <4>2, <4>4 DEF Waits, Reads
    <3> QED BY <3>1
  <2>4. cl[table[h]].falsecount <= Cardinality(V)
    BY <1>15, <2>2 DEF Untainted
  <2> HIDE DEF V
  <2>5. Untainted(h) /\ (g \in Reads(h) => g \in V)
    BY <1>1, <1>3, <1>4, <2>1, <2>3, <2>4, SpreadTaints DEF cl
  <2> QED BY <2>3, <2>5
<1>16. ASSUME NEW h \in Goals, IsCompleted(h)', Valid(h)' PROVE Valid(h)
  <2>1. /\ h # g /\ table[h] # None /\ IsCompleted(h) /\ table[h] \in Node
        /\ table'[h] = table[h] /\ call'[table[h]] = cl[table[h]]
    BY <1>9, <1>14, <1>16
  <2>2. o.call[table[h]].falsecount = 0
    BY <1>16, <2>1 DEF Valid, cl
  <2>3. call[table[h]].falsecount = 0
    BY <1>1, <1>3, <1>4, <2>1, <2>2, ZeroBefore
  <2> QED BY <2>1, <2>3 DEF Valid
<1>17. ASSUME NEW h \in Goals, IsCompleted(h)', Untainted(h)'
       PROVE  /\ Untainted(h) /\ Reads(h) \subseteq Reads(h)'
              /\ \A d \in Reads(h) : d \in Held' <=> d \in Held
  <2>1. h # g /\ table[h] # None /\ Untainted(h) /\ g \notin Reads(h) /\ Reads(h)' = Reads(h) \ {g}
    BY <1>9, <1>14, <1>15, <1>17
  <2>2. ASSUME NEW d \in Reads(h) PROVE d \in Held' <=> d \in Held
    <3>1. d \in Source /\ d # g
      BY <1>1, <2>1, ReadsTables
    <3>2. CASE d \in Facts
      <4>1. d \notin Goals /\ (LiteralTrue(d)' <=> LiteralTrue(d))
        BY <1>4, <3>2, CallGraphAssumption DEF LiteralTrue
      <4> QED BY <3>1, <4>1 DEF Held
    <3>3. CASE d \notin Facts
      <4>1. d \in Goals /\ (LiteralTrue(d)' <=> LiteralTrue(d))
        BY <1>10, <3>1, <3>3 DEF LiteralTrue, Source
      <4>2. (Again(d)' <=> Again(d)) /\ (Again(d) => (HadAnswer(d)' <=> HadAnswer(d)))
        BY <1>10, <1>12, <3>1, <4>1
      <4> QED BY <3>1, <4>1, <4>2 DEF Held
    <3> QED BY <3>2, <3>3
  <2> QED BY <2>1, <2>2
<1>18. Once'
  <2>1. stack' = stack /\ completing' = completing
    BY <1>4
  <2> QED BY <1>1, <2>1 DEF Once, Range1
<1>19. CalledRead'
  <2>1. called' = called
    BY <1>4
  <2> QED BY <1>1, <1>8, <1>13, <2>1 DEF CalledRead, LiteralGoal
<1>20. Compared'
  <2> SUFFICES ASSUME NEW h \in Goals, table'[h] # None
               PROVE  /\ ~call'[table'[h]].changed
                      /\ Again(h)' => LET p == call'[call'[table'[h]].prev_call]
                                      IN  /\ p.changed => HasAnswer(h)' /\ p.no_of_answers = 0
                                          /\ p.no_of_answers > 0 => ~HasAnswer(h)'
    BY DEF Compared
  <2>1. h # g /\ table[h] # None /\ ~call[table[h]].changed /\ ~call'[table'[h]].changed
    BY <1>1, <1>6, <1>9 DEF Compared
  <2>2. ASSUME Again(h)'
        PROVE LET p == call'[call'[table'[h]].prev_call]
              IN  /\ p.changed => HasAnswer(h)' /\ p.no_of_answers = 0
                  /\ p.no_of_answers > 0 => ~HasAnswer(h)'
    <3>1. Again(h)
      BY <1>10, <2>1, <2>2
    <3>2. LET p == call[call[table[h]].prev_call]
          IN  /\ p.changed => HasAnswer(h) /\ p.no_of_answers = 0
              /\ p.no_of_answers > 0 => ~HasAnswer(h)
      BY <1>1, <2>1, <3>1 DEF Compared
    <3> QED BY <1>10, <1>11, <2>1, <3>1, <3>2
  <2> QED BY <2>1, <2>2
<1>21. Follows'
  <2>1. stack' = stack /\ \A i \in DOMAIN stack : stack[i].goal \in IncompleteGoals
    BY <1>4 DEF IncompleteGoals
  <2>2. ASSUME NEW i \in DOMAIN stack', NEW s \in IncompleteGoals', s \in Reads(stack[i].goal)'
        PROVE  \E j \in DOMAIN stack' : stack'[i].leader <= j /\ stack'[j].goal = s
    <3>1. PICK h \in IncompleteGoals : h = stack[i].goal /\ h = stack'[i].goal
      BY <2>1, <2>2
    <3>2. Reads(stack[i].goal)' = Reads(h)'
      BY <3>1 DEF Reads
    <3>3. s \in Reads(h) /\ s \in IncompleteGoals
      BY <1>8, <1>13, <2>2, <3>1, <3>2
    <3> QED BY <1>1, <1>8, <2>1, <3>1, <3>3 DEF Follows
  <2>3. ASSUME NEW h \in Goals, NEW s \in IncompleteGoals', IsCompleted(h)', s \in Reads(h)' PROVE Again(s)'
    <3>1. IsCompleted(h) /\ s \in Reads(h) /\ s \in IncompleteGoals /\ s \in Goals /\ s # g
      BY <1>8, <1>9, <1>14, <2>3
    <3>2. Again(s)
      BY <1>1, <1>8, <3>1 DEF Follows
    <3> QED BY <1>10, <3>1, <3>2
  <2> QED BY <1>8, <2>2, <2>3 DEF Follows
<1>22. \A h \in Goals : h \in Live /\ h \in Live' =>
             /\ Reads(h) \subseteq Reads(h)'
             /\ \A f \in Facts : f \in Reads(h) /\ LiteralTrue(f) => LiteralTrue(f)'
  <2> SUFFICES ASSUME NEW h \in Goals, h \in Live'
               PROVE  /\ Reads(h) \subseteq Reads(h)'
                      /\ \A f \in Facts : LiteralTrue(f) => LiteralTrue(f)'
    OBVIOUS
  <2>1. CASE h \in IncompleteGoals
    BY <1>4, <1>13, <2>1 DEF LiteralTrue
  <2>2. CASE h \notin IncompleteGoals
    <3>1. Valid(h)' /\ IsCompleted(h)'
      BY <1>8, <2>2 DEF Live, Valid
    <3>2. Untainted(h)'
      BY <1>1, <1>4, <3>1, ValidWaitsNot
    <3> QED BY <1>4, <1>17, <3>1, <3>2 DEF LiteralTrue
  <2> QED BY <2>1, <2>2
<1>23. Closed'
  BY <1>1, LiveClosedNext
<1>24. \A h \in IncompleteGoals' :
             IF h \in IncompleteGoals THEN HasAnswer(h)' = HasAnswer(h) ELSE h \notin Live /\ ~HasAnswer(h)'
  BY <1>8, <1>10
<1>25. \A h \in Goals : IsCompleted(h)' => IsCompleted(h) /\ (Valid(h)' => Valid(h))
  BY <1>14, <1>16
<1>26. completing = <<>> /\ completing' = <<>>
  BY <1>4
<1>27. Backed' /\ Right' /\ Derived'
  BY <1>1, <1>17, <1>22, <1>23, <1>24, <1>25, <1>26, Quiet
<1> QED BY <1>18, <1>19, <1>20, <1>21, <1>27 DEF Meaning

-----------------------------------------------------------------------------
(* Calls, whatever they find. *)

\* A call of a tabled goal.
LEMMA CallGoalMeans == ASSUME Before, After, NEW g \in Goals, CallGoal(g) PROVE Meaning'
<1>0. PICK l : l = NextLiteral(g)
  OBVIOUS
<1>1. PICK d \in Goals :
        /\ LiteralGoal(g, l) = d
        /\ \/ /\ CallTable(g, d) /\ UNCHANGED <<db, completing>>
              /\ called' = [called EXCEPT ![g] = @ \cup {l}]
           \/ LazyReeval(g, d)
           \/ LazyError(d)
  BY <1>0 DEF CallGoal
<1>2. Active(g) /\ g \in Caller /\ IInv
  BY DEF CallGoal, CallsLiteral, Caller, Before
<1>3. completing = <<>> /\ (g = User \/ g \in IncompleteGoals)
  BY <1>2, AtWork
<1>4. CASE CallTable(g, d) /\ UNCHANGED <<db, completing>> /\ called' = [called EXCEPT ![g] = @ \cup {l}]
  <2>1. \A h \in Goals : called'[h] = IF h = g THEN called[h] \cup {l} ELSE called[h]
    BY <1>2, <1>4 DEF IInv, Evaluation
  <2>2. \A h \in Goals : \/ called'[h] = called[h]
                         \/ h = g /\ \E k : called'[h] = called[h] \cup {k} /\ LiteralGoal(h, k) = d
    BY <1>1, <2>1
  <2> QED BY <1>2, <1>3, <1>4, <2>2, CallMeans
<1>5. CASE LazyReeval(g, d)
  BY <1>3, <1>5, LazyMeans
<1>6. CASE LazyError(d)
  BY <1>1, <1>2, <1>3, <1>6, Aborts, UnwindMeans
<1> QED BY <1>1, <1>4, <1>5, <1>6

\* The call of the user.
LEMMA CallQueryMeans == ASSUME Before, After, CallQuery PROVE Meaning'
<1>1. User \in Caller /\ Active(User) /\ IInv
  BY DEF CallQuery, Caller, Before
<1>2. completing = <<>> /\ query \in Goals
  BY <1>1, AtWork
<1>3. CASE CallTable(User, query) /\ UNCHANGED <<db, completing, called>>
  BY <1>1, <1>2, <1>3, CallMeans
<1>4. CASE LazyReeval(User, query)
  BY <1>2, <1>4, LazyMeans
<1> QED BY <1>3, <1>4 DEF CallQuery

\* Nothing that matters here changes.
LEMMA StillMeans ==
  ASSUME Before, After, completing = <<>>, UNCHANGED <<graphVars, stack, completing, called, db>> PROVE Meaning'
<1>1. UNCHANGED <<table, call, inedges, stack, completing, called, db>>
  BY DEF graphVars
<1> QED BY <1>1, NothingMeans

\* A step of the handler of a lazy re-evaluation.
LEMMA HandlerMeans == ASSUME Before, After, NEW c \in Caller, RunHandler(c) PROVE Meaning'
<1> DEFINE d == Head(lazy[c])
<1>1. Active(c) /\ lazy[c] # <<>> /\ IInv
  BY DEF RunHandler, Before
<1>2. completing = <<>> /\ (c = User \/ c \in IncompleteGoals)
  BY <1>1, AtWork
<1>3. d \in Goals
  <2>1. lazy[c] \in Seq(Goals)
    BY <1>1 DEF IInv, Evaluation
  <2> QED BY <1>1, <2>1
<1>4. \/ UNCHANGED <<graphVars, stack, completing, called, db>>
      \/ CallInvalidTable(c, d) /\ UNCHANGED <<db, completing, called>>
      \/ LazyReeval(c, d)
      \/ LazyError(d)
  BY DEF RunHandler
<1> HIDE DEF d
<1>5. CASE UNCHANGED <<graphVars, stack, completing, called, db>>
  BY <1>2, <1>5, StillMeans
<1>6. CASE CallInvalidTable(c, d) /\ UNCHANGED <<db, completing, called>>
  BY <1>2, <1>3, <1>6, CallMeans DEF CallTable
<1>7. CASE LazyReeval(c, d)
  BY <1>2, <1>3, <1>7, LazyMeans
<1>8. CASE LazyError(d)
  BY <1>1, <1>2, <1>3, <1>8, Aborts, UnwindMeans
<1> QED BY <1>4, <1>5, <1>6, <1>7, <1>8

-----------------------------------------------------------------------------
(* A new answer. *)

\* An answer is counted down at the previous node that had it, and changes one that had not.
LEMMA AnswerMade ==
  ASSUME IInv, SInv, NEW g \in Goals, NewAnswer(g)
  PROVE  LET n == table[g]
             p == call[n].prev_call
         IN  /\ g \in IncompleteGoals /\ completing = <<>> /\ n \in Node /\ n # None /\ UNCHANGED <<db, called>>
             /\ call'[n].no_of_answers = 1 /\ call'[n].changed = call[n].changed
             /\ p # None => /\ p \in Node /\ p[1] = g /\ p # n
                            /\ IF call[p].no_of_answers > 0
                               THEN call'[p].no_of_answers = 0 /\ call'[p].changed = call[p].changed
                               ELSE call'[p].no_of_answers = 0 /\ call'[p].changed
             /\ \A m \in Node : m # n /\ m # p => call'[m] = call[m]
<1> DEFINE n == table[g]
           p == call[n].prev_call
           a == [call[p] EXCEPT !.no_of_answers = call[p].no_of_answers - 1]
           b == [call[p] EXCEPT !.changed = TRUE]
<1>1. UNCHANGED <<db, called>>
  BY DEF NewAnswer, evalVars
<1>2. /\ g \in IncompleteGoals /\ completing = <<>> /\ n \in Node /\ n # None
      /\ call[n] \in NodeRecord /\ call'[n] = [call[n] EXCEPT !.no_of_answers = 1]
      /\ p # None => /\ p \in Node /\ p[1] = g /\ p # n
                     /\ call[p] \in NodeRecord /\ call[p].no_of_answers \in 0 .. 1
                     /\ call'[p] = IF call[p].no_of_answers > 0 THEN a ELSE b
      /\ \A m \in Node : m # n /\ m # p => call'[m] = call[m]
  BY AnswerNoted
<1>3. call'[n].no_of_answers = 1 /\ call'[n].changed = call[n].changed
  BY <1>2 DEF NodeRecord
<1>4. ASSUME p # None
      PROVE  IF call[p].no_of_answers > 0
             THEN call'[p].no_of_answers = 0 /\ call'[p].changed = call[p].changed
             ELSE call'[p].no_of_answers = 0 /\ call'[p].changed
  <2>1. /\ a.no_of_answers = call[p].no_of_answers - 1 /\ a.changed = call[p].changed
        /\ b.no_of_answers = call[p].no_of_answers /\ b.changed = TRUE
    BY <1>2, <1>4 DEF NodeRecord
  <2> HIDE DEF a, b
  <2>2. /\ call[p].no_of_answers > 0 => call[p].no_of_answers - 1 = 0
        /\ ~(call[p].no_of_answers > 0) => call[p].no_of_answers = 0
    BY <1>2, <1>4
  <2> QED BY <1>2, <1>4, <2>1, <2>2
<1> HIDE DEF n, p
<1> QED BY <1>1, <1>2, <1>3, <1>4 DEF n, p

\* A clause whose literals have been called and hold.
LEMMA ClauseHolds ==
  ASSUME CalledRead, NEW g \in IncompleteGoals, g \in Goals, ReadyClauses(g) # {},
         Reads(g) \subseteq Source
  PROVE  Supported(g, Reads(g) \cap Holding)
<1>1. PICK k \in DOMAIN Clauses[g] :
        \A i \in DOMAIN Clauses[g][k] : <<k, i>> \in called[g] /\ LiteralTrue(Clauses[g][k][i])
  BY DEF ReadyClauses
<1>2. ASSUME NEW i \in DOMAIN Clauses[g][k] PROVE Clauses[g][k][i] \in Reads(g) \cap Holding
  <2>1. <<k, i>> \in called[g] /\ LiteralTrue(Clauses[g][k][i])
    BY <1>1
  <2>2. LiteralGoal(g, <<k, i>>) \in Reads(g)
    BY <2>1 DEF CalledRead
  <2>3. LiteralGoal(g, <<k, i>>) = Clauses[g][k][i]
    BY DEF LiteralGoal
  <2> QED BY <2>1, <2>2, <2>3 DEF Holding
<1> QED BY <1>2 DEF Supported

\* A valid table waits for nothing.
LEMMA ValidReads ==
  ASSUME IInv, SInv, Marks(call), Follows, completing = <<>>, NEW h \in Goals, Valid(h), NEW s \in IncompleteGoals
  PROVE  s \notin Reads(h)
<1>1. SUFFICES ASSUME s \in Reads(h) PROVE FALSE
  OBVIOUS
<1>2. Range1(completing) = {} /\ IncompleteGoals \subseteq Goals /\ \A i \in IncompleteGoals : table[i] # None
  BY IncompleteAreGoals DEF Range1, IInv, Stacks
<1>3. IsCompleted(h) /\ call[table[h]].falsecount = 0
  BY DEF Valid
<1>4. Again(s)
  BY <1>1, <1>2, <1>3 DEF Follows
<1>5. s \in Waits(call, table[h])
  BY <1>1, <1>2, <1>4 DEF Again, Waits, Invalid, Reads
<1>6. Waits(call, table[h]) = {}
  BY <1>2, <1>3 DEF Marks, Counted
<1> QED BY <1>5, <1>6

\* A new answer is derived from answers, and its table is completed with it.
LEMMA AnswerMeans ==
  ASSUME Before, After, NEW g \in Goals, NewAnswer(g) PROVE Meaning'
<1> DEFINE n == table[g]
           p == call[n].prev_call
<1>1. /\ IInv /\ SInv /\ Marks(call) /\ IInv' /\ SInv' /\ Marks(call)'
      /\ Once /\ CalledRead /\ Compared /\ Follows /\ Backed /\ Right /\ Derived /\ Closed
  BY LiveClosed DEF Before, After, KInv, Meaning
<1>2. /\ UNCHANGED <<table, inedges, stack, completing>>
      /\ \A m \in Node : call'[m].prev_call = call[m].prev_call /\ call'[m].falsecount = call[m].falsecount
  BY <1>1, AnswerCounted
<1>3. /\ g \in IncompleteGoals /\ completing = <<>> /\ n \in Node /\ n # None /\ UNCHANGED <<db, called>>
      /\ call'[n].no_of_answers = 1 /\ call'[n].changed = call[n].changed
      /\ p # None => /\ p \in Node /\ p[1] = g /\ p # n
                     /\ IF call[p].no_of_answers > 0
                        THEN call'[p].no_of_answers = 0 /\ call'[p].changed = call[p].changed
                        ELSE call'[p].no_of_answers = 0 /\ call'[p].changed
      /\ \A m \in Node : m # n /\ m # p => call'[m] = call[m]
  BY <1>1, AnswerMade
<1>4. ReadyClauses(g) # {} /\ ~HasAnswer(g)
  BY DEF NewAnswer, AnswerReady
<1>5. /\ IncompleteGoals' = IncompleteGoals /\ Range1(completing) = {} /\ Range1(completing)' = {}
      /\ IncompleteGoals \subseteq Goals /\ \A h \in IncompleteGoals : table[h] # None
  BY <1>1, <1>2, <1>3, IncompleteAreGoals DEF IncompleteGoals, Range1, IInv, Stacks
<1>6. \A h \in Goals : (IsCompleted(h)' <=> IsCompleted(h)) /\ Reads(h)' = Reads(h)
  BY <1>2, <1>5 DEF IsCompleted, Reads
<1>7. ASSUME NEW h \in Goals, table[h] # None
      PROVE  /\ table[h] \in Node /\ table[h][1] = h /\ call'[table[h]].prev_call = call[table[h]].prev_call
             /\ call'[table[h]].falsecount = call[table[h]].falsecount
             /\ call'[table[h]].changed = call[table[h]].changed
             /\ h # g => call'[table[h]] = call[table[h]]
  <2>1. table[h] \in Node /\ table[h][1] = h /\ n[1] = g
    BY <1>1, <1>3, <1>7 DEF IInv, SInv, Evaluation, Tables
  <2>2. h # g => call'[table[h]] = call[table[h]]
    <3>1. h # g => table[h] # n /\ table[h] # p
      BY <1>3, <2>1, FiniteGraph
    <3> QED BY <1>3, <2>1, <3>1
  <2> QED BY <1>2, <1>3, <2>1, <2>2
<1>8. \A h \in Goals : (HasAnswer(h)' <=> HasAnswer(h) \/ h = g) /\ (Again(h)' <=> Again(h))
  <2> SUFFICES ASSUME NEW h \in Goals PROVE (HasAnswer(h)' <=> HasAnswer(h) \/ h = g) /\ (Again(h)' <=> Again(h))
    OBVIOUS
  <2>1. CASE table[h] = None
    <3>1. h # g /\ table'[h] = None /\ h \notin IncompleteGoals
      BY <1>2, <1>3, <1>5, <2>1
    <3> QED BY <1>5, <2>1, <3>1 DEF HasAnswer, Again
  <2>2. CASE h = g
    <3>1. HasAnswer(h)'
      <4>1. 1 > 0
        OBVIOUS
      <4> QED BY <1>2, <1>3, <2>2, <4>1 DEF HasAnswer
    <3> QED BY <1>2, <1>3, <1>5, <2>2, <3>1 DEF Again
  <2>3. CASE table[h] # None /\ h # g
    BY <1>2, <1>5, <1>7, <2>3 DEF HasAnswer, Again
  <2> QED BY <2>1, <2>2, <2>3
<1>9. ASSUME NEW h \in Goals, Again(h)
      PROVE  /\ call'[table'[h]].prev_call = call[table[h]].prev_call
             /\ h # g => call'[call[table[h]].prev_call] = call[call[table[h]].prev_call]
             /\ h = g => p # None
  <2>1. table[h] # None /\ h \in IncompleteGoals /\ call[table[h]].prev_call # None
    BY <1>5, <1>9 DEF Again
  <2>2. call'[table'[h]].prev_call = call[table[h]].prev_call /\ table[h] \in Node /\ table[h][1] = h
    BY <1>2, <1>7, <2>1
  <2>3. ASSUME h # g PROVE call'[call[table[h]].prev_call] = call[call[table[h]].prev_call]
    <3>1. call[table[h]].prev_call \in Node
      BY <1>1, <2>1, <2>2 DEF IInv, Calls, NodeRecord
    <3>2. call[table[h]].prev_call[1] = h
      BY <1>1, <2>1, <2>2 DEF SInv, Previous
    <3>3. n[1] = g /\ (p # None => p[1] = g)
      BY <1>3, <1>7
    <3> QED BY <1>3, <2>3, <3>1, <3>2, <3>3, FiniteGraph
  <2> QED BY <2>1, <2>2, <2>3
<1> HIDE DEF n, p
<1>10. \A h \in Goals : Again(h) => (HadAnswer(h)' <=> HadAnswer(h))
  <2> SUFFICES ASSUME NEW h \in Goals, Again(h) PROVE HadAnswer(h)' <=> HadAnswer(h)
    OBVIOUS
  <2>1. CASE h # g
    BY <1>8, <1>9, <2>1 DEF HadAnswer
  <2>2. CASE h = g
    <3>1. p # None /\ call[table[h]].prev_call = p /\ call'[table'[h]].prev_call = p
      BY <1>9, <2>2 DEF p, n
    <3>2. call[p].changed => call[p].no_of_answers = 0
      BY <1>1, <1>5, <2>2, <3>1 DEF Compared, Again
    <3>3. HasAnswer(h)' /\ ~HasAnswer(h)
      BY <1>4, <1>8, <2>2
    <3>4. HadAnswer(h) <=> ~call[p].changed /\ call[p].no_of_answers > 0
      BY <3>1, <3>3 DEF HadAnswer
    <3>5. HadAnswer(h)' <=> ~call'[p].changed
      BY <3>1, <3>3 DEF HadAnswer
    <3>6. call[p].no_of_answers > 0 => ~call[p].changed
      <4>1. ~(0 > 0)
        OBVIOUS
      <4> QED BY <3>2, <4>1
    <3> QED BY <1>3, <3>1, <3>4, <3>5, <3>6
  <2> QED BY <2>1, <2>2
<1>11. \A d \in Source : LiteralTrue(d)' <=> LiteralTrue(d) \/ d = g
  <2>1. g \notin Facts
    BY CallGraphAssumption
  <2> QED BY <1>3, <1>8, <2>1 DEF LiteralTrue, Source
<1>12. Holding' = Holding \cup {g}
  <2>1. g \in Source
    BY DEF Source
  <2> QED BY <1>11, <2>1 DEF Holding
<1>13. \A d \in Source : (d = g => Again(g)) => (d \in Held' <=> d \in Held)
  <2> SUFFICES ASSUME NEW d \in Source, d = g => Again(g) PROVE d \in Held' <=> d \in Held
    OBVIOUS
  <2>1. CASE d \in Goals /\ Again(d)
    BY <1>8, <1>10, <2>1 DEF Held
  <2>2. CASE ~(d \in Goals /\ Again(d))
    BY <1>8, <1>11, <2>2 DEF Held
  <2> QED BY <2>1, <2>2
<1>14. Once' /\ CalledRead' /\ Follows'
  <2>1. stack' = stack /\ completing' = completing /\ called' = called
    BY <1>2, <1>3
  <2>2. Once'
    BY <1>1, <2>1 DEF Once, Range1
  <2>3. CalledRead'
    BY <1>1, <1>5, <1>6, <2>1 DEF CalledRead, LiteralGoal
  <2>4. \A i \in DOMAIN stack : stack[i].goal \in Goals
    BY <1>5 DEF IncompleteGoals
  <2>5. \A i \in DOMAIN stack', s \in IncompleteGoals' : s \in Reads(stack[i].goal)' =>
        \/ s \in Range1(completing)'
        \/ \E j \in DOMAIN stack' : stack'[i].leader <= j /\ stack'[j].goal = s
    BY <1>1, <1>5, <1>6, <2>1, <2>4 DEF Follows
  <2>6. \A h \in Range1(completing)', s \in IncompleteGoals' : s \in Reads(h)' => s \in Range1(completing)'
    BY <1>5
  <2>7. \A h \in Goals, s \in IncompleteGoals' : IsCompleted(h)' /\ s \in Reads(h)' =>
        s \in Range1(completing)' \/ Again(s)'
    BY <1>1, <1>5, <1>6, <1>8 DEF Follows
  <2> QED BY <2>2, <2>3, <2>5, <2>6, <2>7 DEF Follows
<1>15. Compared'
  <2> SUFFICES ASSUME NEW h \in Goals, table'[h] # None
               PROVE  /\ ~call'[table'[h]].changed
                      /\ Again(h)' => LET q == call'[call'[table'[h]].prev_call]
                                      IN  /\ q.changed => HasAnswer(h)' /\ q.no_of_answers = 0
                                          /\ q.no_of_answers > 0 => ~HasAnswer(h)'
    BY DEF Compared
  <2>1. table[h] # None /\ ~call[table[h]].changed /\ ~call'[table'[h]].changed
    BY <1>1, <1>2, <1>7 DEF Compared
  <2>2. ASSUME Again(h)'
        PROVE LET q == call'[call'[table'[h]].prev_call]
              IN  /\ q.changed => HasAnswer(h)' /\ q.no_of_answers = 0
                  /\ q.no_of_answers > 0 => ~HasAnswer(h)'
    <3>1. Again(h)
      BY <1>8, <2>2
    <3>2. CASE h # g
      <4>1. LET q == call[call[table[h]].prev_call]
            IN  /\ q.changed => HasAnswer(h) /\ q.no_of_answers = 0
                /\ q.no_of_answers > 0 => ~HasAnswer(h)
        BY <1>1, <2>1, <3>1 DEF Compared
      <4> QED BY <1>8, <1>9, <3>1, <3>2, <4>1
    <3>3. CASE h = g
      <4>1. p # None /\ call'[table'[h]].prev_call = p /\ HasAnswer(h)' /\ call'[p].no_of_answers = 0
        BY <1>3, <1>8, <1>9, <3>1, <3>3 DEF p, n
      <4>2. ~(0 > 0)
        OBVIOUS
      <4> QED BY <4>1, <4>2
    <3> QED BY <3>2, <3>3
  <2> QED BY <2>1, <2>2
<1>16. Reads(g) \subseteq Source
  BY <1>1, <1>5, <1>3, ReadsTables
<1>17. Supported(g, Reads(g) \cap Holding)
  BY <1>1, <1>3, <1>4, <1>16, ClauseHolds
<1>18. Backed'
  <2>1. ASSUME NEW h \in IncompleteGoals', HasAnswer(h)' PROVE Supported(h, Reads(h)' \cap Holding')
    <3>1. h \in IncompleteGoals /\ h \in Goals
      BY <1>5, <2>1
    <3>2. Supported(h, Reads(h) \cap Holding)
      BY <1>1, <1>8, <1>17, <2>1, <3>1 DEF Backed
    <3>3. Reads(h) \cap Holding \in SUBSET (Reads(h)' \cap Holding')
      BY <1>6, <1>12, <3>1
    <3> QED BY <3>2, <3>3, SupportedMore
  <2>2. \A h : Supported(h, Reads(h) \cap Holding)' <=> Supported(h, Reads(h)' \cap Holding')
    BY DEF Supported
  <2> QED BY <1>5, <2>1, <2>2 DEF Backed
<1>19. Right'
  <2> SUFFICES ASSUME NEW h \in Goals, IsCompleted(h)'
               PROVE  /\ Valid(h)' => Agrees(h, Holding)'
                      /\ ~Valid(h)' /\ Untainted(h)' => Agrees(h, Held)'
    BY DEF Right
  <2>1. IsCompleted(h) /\ h # g /\ table[h] # None /\ (HasAnswer(h)' <=> HasAnswer(h)) /\ Reads(h)' = Reads(h)
    BY <1>3, <1>6, <1>8 DEF IsCompleted
  <2>2. (Valid(h)' <=> Valid(h)) /\ Reads(h) \subseteq Source
    BY <1>1, <1>2, <1>6, <1>7, <2>1, ReadsTables DEF Valid
  <2>3. ASSUME NEW T, NEW S, T \cap Reads(h) = S \cap Reads(h), Agrees(h, T)
        PROVE  /\ HasAnswer(h)' => Supported(h, Reads(h)' \cap S)
               /\ ~HasAnswer(h)' => Blocked(h, Reads(h)' \ S)
    <3>1. Reads(h)' \cap S = Reads(h) \cap T /\ Reads(h)' \ S = Reads(h) \ T
      BY <2>1, <2>3
    <3> QED BY <2>1, <2>3, <3>1 DEF Agrees
  <2>4. ASSUME Valid(h)' PROVE Agrees(h, Holding)'
    <3>1. g \notin Reads(h)
      BY <1>1, <1>3, <2>2, <2>4, ValidReads
    <3>2. Holding \cap Reads(h) = Holding' \cap Reads(h)
      BY <1>12, <3>1
    <3>3. Agrees(h, Holding)
      BY <1>1, <2>1, <2>2, <2>4 DEF Right
    <3> QED BY <2>3, <3>2, <3>3 DEF Agrees, Supported, Blocked
  <2>5. ASSUME ~Valid(h)', Untainted(h)' PROVE Agrees(h, Held)'
    <3>1. Untainted(h)
      <4>1. Waits(call, table[h])' = Waits(call, table[h])
        <5>1. \A s \in Goals : s \in Reads(h) => (Invalid(call, s)' <=> Invalid(call, s))
          BY <1>2, <1>5, <1>7 DEF Invalid
        <5> QED BY <1>2, <2>1, <5>1 DEF Waits, Reads
      <4>2. call'[table'[h]].falsecount = call[table[h]].falsecount
        BY <1>2, <1>7, <2>1
      <4> QED BY <2>5, <4>1, <4>2 DEF Untainted
    <3>2. g \in Reads(h) => Again(g)
      BY <1>1, <1>3, <1>5, <2>1 DEF Follows
    <3>3. Held \cap Reads(h) = Held' \cap Reads(h)
      BY <1>13, <2>2, <3>2
    <3>4. Agrees(h, Held)
      BY <1>1, <2>1, <2>2, <2>5, <3>1 DEF Right
    <3> QED BY <2>3, <3>3, <3>4 DEF Agrees, Supported, Blocked
  <2> QED BY <2>4, <2>5
<1>20. Derived'
  <2>1. Live' = Live /\ g \in Live
    <3>1. \A h \in Goals : Valid(h)' <=> Valid(h)
      BY <1>2, <1>6, <1>7 DEF Valid, IsCompleted
    <3> QED BY <1>3, <1>5, <3>1 DEF Live
  <2>2. Proven' = Proven \cup {g}
    <3>1. Live \subseteq Goals
      BY DEF Live
    <3> QED BY <1>8, <2>1, <3>1 DEF Proven
  <2> SUFFICES ASSUME NEW M \in SUBSET Goals, Closing(M)' PROVE Proven' \subseteq M
    BY DEF Derived
  <2>3. \A h \in Proven' : Supported(h, (Reads(h) \cap Holding') \ (Goals \ M)) => h \in M
    <3> SUFFICES ASSUME NEW h \in Proven', Supported(h, (Reads(h) \cap Holding') \ (Goals \ M)) PROVE h \in M
      OBVIOUS
    <3>1. h \in Goals /\ Reads(h)' = Reads(h)
      BY <1>6, <2>2 DEF Proven, Live
    <3> QED BY <3>1 DEF Closing, Supported
  <2>4. Closing(M)
    <3> SUFFICES ASSUME NEW h \in Proven, Supported(h, (Reads(h) \cap Holding) \ (Goals \ M)) PROVE h \in M
      BY DEF Closing
    <3>1. (Reads(h) \cap Holding) \ (Goals \ M) \in SUBSET ((Reads(h) \cap Holding') \ (Goals \ M))
      BY <1>12
    <3> QED BY <2>2, <2>3, <3>1, SupportedMore
  <2>5. Proven \subseteq M
    BY <1>1, <2>4 DEF Derived
  <2>6. Reads(g) \cap Holding \in SUBSET ((Reads(g) \cap Holding') \ (Goals \ M))
    <3> SUFFICES ASSUME NEW d \in Reads(g) \cap Holding, d \in Goals PROVE d \in M
      BY <1>12
    <3>1. d \in Live
      BY <1>1, <2>1 DEF Closed
    <3>2. HasAnswer(d)
      <4>1. d \notin Facts
        BY CallGraphAssumption
      <4> QED BY <4>1 DEF Holding, LiteralTrue
    <3> QED BY <2>5, <3>1, <3>2 DEF Proven
  <2>7. g \in M
    BY <1>17, <2>2, <2>3, <2>6, SupportedMore
  <2> QED BY <2>2, <2>5, <2>7
<1> QED BY <1>14, <1>15, <1>18, <1>19, <1>20 DEF Meaning

-----------------------------------------------------------------------------
(* The topmost SCC has nothing left to do. *)

\* A goal with nothing left to do and without an answer has a false literal, called, in
\* each of its clauses.
LEMMA ExhaustedBlocked ==
  ASSUME IInv, CalledRead, NEW g \in IncompleteGoals, g \in Goals, Exhausted(g), ~HasAnswer(g)
  PROVE  Blocked(g, Reads(g) \ Holding)
<1>1. ReadyLiterals(g) = {} /\ ReadyClauses(g) = {}
  BY DEF Exhausted, AnswerReady
<1> SUFFICES ASSUME NEW k \in DOMAIN Clauses[g]
             PROVE  \E i \in DOMAIN Clauses[g][k] : Clauses[g][k][i] \in Reads(g) \ Holding
  BY DEF Blocked
<1> DEFINE body == Clauses[g][k]
           S == {i \in DOMAIN body : ~(<<k, i>> \in called[g] /\ LiteralTrue(body[i]))}
<1>2. DOMAIN body = 1 .. Len(body) /\ Len(body) \in Nat
  BY CallGraphAssumption
<1>3. S # {}
  BY <1>1 DEF ReadyClauses
<1>4. PICK m \in S : \A i \in S : m <= i
  <2>1. S \in SUBSET Nat
    BY <1>2
  <2> HIDE DEF S
  <2> QED BY <1>3, <2>1, LeastNatural
<1>5. <<k, m>> \in called[g]
  <2>1. SUFFICES ASSUME <<k, m>> \notin called[g] PROVE FALSE
    OBVIOUS
  <2>2. <<k, m>> \in Literals[g] \ called[g]
    BY <1>4, <2>1 DEF Literals
  <2>3. m = 1 \/ m - 1 \in DOMAIN body \ S
    BY <1>2, <1>4
  <2>4. m = 1 \/ (<<k, m - 1>> \in called[g] /\ LiteralTrue(body[m - 1]))
    BY <2>3
  <2>5. LiteralGoal(g, <<k, m - 1>>) = body[m - 1] /\ <<k, m>>[1] = k /\ <<k, m>>[2] = m
    BY DEF LiteralGoal
  <2>6. <<k, m>> \in ReadyLiterals(g)
    BY <2>2, <2>4, <2>5 DEF ReadyLiterals
  <2> QED BY <1>1, <2>6
<1>6. LiteralGoal(g, <<k, m>>) \in Reads(g) /\ LiteralGoal(g, <<k, m>>) = body[m]
  BY <1>5 DEF CalledRead, LiteralGoal
<1>7. body[m] \notin Holding /\ m \in DOMAIN body
  BY <1>4, <1>5 DEF Holding
<1> QED BY <1>6, <1>7

\* The topmost SCC is completed as a whole.
LEMMA SccGoals ==
  ASSUME IInv, Once, CompleteScc
  PROVE  /\ \A g \in Range1(completing)' : Exhausted(g)
         /\ Once' /\ UNCHANGED <<called, db>>
<1> DEFINE top == Len(stack)
           leader == stack[top].leader
<1>1. /\ completing = <<>> /\ stack # <<>> /\ UNCHANGED <<called, db>>
      /\ \A i \in leader .. top : Exhausted(stack[i].goal)
      /\ completing' = [i \in 1 .. top - leader + 1 |-> stack[leader + i - 1].goal]
      /\ stack' = SubSeq(stack, 1, leader - 1)
  BY DEF CompleteScc
<1>2. stack \in Seq(Frames) /\ DOMAIN stack = 1 .. top /\ top \in Nat \ {0} /\ leader \in 1 .. top
  BY <1>1 DEF IInv, Evaluation, Stacks
<1> HIDE DEF top, leader
<1>3. \A i \in DOMAIN completing' : /\ leader + i - 1 \in leader .. top
                                   /\ completing'[i] = stack[leader + i - 1].goal
  BY <1>1, <1>2
<1>4. DOMAIN stack' = 1 .. leader - 1 /\ \A i \in DOMAIN stack' : stack'[i] = stack[i]
  BY <1>1, <1>2
<1>5. \A g \in Range1(completing)' : Exhausted(g)
  BY <1>1, <1>3 DEF Range1
<1>6. \A i, j \in DOMAIN stack : stack[i].goal = stack[j].goal => i = j
  BY DEF Once
<1>7. \A i, j \in DOMAIN stack' : stack'[i].goal = stack'[j].goal => i = j
  BY <1>2, <1>4, <1>6
<1>8. \A i \in DOMAIN stack' : stack'[i].goal \notin Range1(completing)'
  <2> SUFFICES ASSUME NEW i \in DOMAIN stack', NEW j \in DOMAIN completing', stack'[i].goal = completing'[j]
               PROVE  FALSE
    BY DEF Range1
  <2>1. i \in DOMAIN stack /\ i < leader /\ stack[i].goal = stack[leader + j - 1].goal
    BY <1>2, <1>3, <1>4
  <2>2. leader + j - 1 \in DOMAIN stack /\ leader <= leader + j - 1
    BY <1>2, <1>3
  <2>3. i = leader + j - 1
    BY <1>6, <2>1, <2>2
  <2> QED BY <1>2, <2>1, <2>2, <2>3
<1>9. ASSUME NEW i \in DOMAIN completing', NEW j \in DOMAIN completing', completing'[i] = completing'[j] PROVE i = j
  <2>1. /\ leader + i - 1 \in DOMAIN stack /\ leader + j - 1 \in DOMAIN stack
        /\ stack[leader + i - 1].goal = stack[leader + j - 1].goal
        /\ i \in Int /\ j \in Int
    BY <1>1, <1>2, <1>3, <1>9
  <2>2. leader + i - 1 = leader + j - 1
    BY <1>6, <2>1
  <2> QED BY <1>2, <2>1, <2>2
<1> QED BY <1>1, <1>5, <1>7, <1>8, <1>9 DEF Once

\* Dependencies on the SCC that is to be completed.
LEMMA SccFollows ==
  ASSUME IInv, LInv, Follows, CompleteScc
  PROVE  Follows'
<1>1. /\ completing = <<>> /\ IncompleteGoals' = IncompleteGoals /\ Range1(completing) = {}
      /\ UNCHANGED <<table, call, inedges>>
  BY SccCut DEF Range1
<1>2. PICK leader \in Nat :
        /\ \E top \in DOMAIN stack : leader = stack[top].leader /\ \A i \in DOMAIN stack : i <= top
        /\ \A i \in DOMAIN stack : /\ i < leader => i \in DOMAIN stack' /\ stack'[i] = stack[i]
                                   /\ leader <= i => stack[i].goal \in Range1(completing)'
        /\ \A i \in DOMAIN stack' : i \in DOMAIN stack /\ i < leader
        /\ \A g \in Range1(completing)' : \E i \in DOMAIN stack : leader <= i /\ g = stack[i].goal
  BY SccCut
<1>3. /\ \A g : Reads(g)' = Reads(g)
      /\ \A g \in Goals : (IsCompleted(g)' <=> IsCompleted(g)) /\ (Again(g)' <=> Again(g))
      /\ IncompleteGoals \subseteq Goals
  BY <1>1, IncompleteAreGoals DEF Reads, IsCompleted, Again, IInv
<1>4. \A j \in DOMAIN stack : j \in Nat /\ stack[j].leader \in Nat
  BY DEF IInv, Evaluation, Stacks
<1>5. ASSUME NEW i \in DOMAIN stack', NEW s \in IncompleteGoals', s \in Reads(stack[i].goal)'
      PROVE  \/ s \in Range1(completing)'
             \/ \E j \in DOMAIN stack' : stack'[i].leader <= j /\ stack'[j].goal = s
  <2>1. i \in DOMAIN stack /\ stack'[i] = stack[i]
    BY <1>2
  <2>2. Reads(stack[i].goal)' = Reads(stack[i].goal)
    BY <1>1, <2>1 DEF Reads
  <2>3. PICK j \in DOMAIN stack : stack[i].leader <= j /\ stack[j].goal = s
    BY <1>1, <1>5, <2>1, <2>2 DEF Follows
  <2>4. CASE j < leader
    BY <1>2, <2>1, <2>3, <2>4
  <2>5. CASE leader <= j
    BY <1>2, <2>3, <2>5
  <2> QED BY <1>2, <1>4, <2>4, <2>5
<1>6. ASSUME NEW g \in Range1(completing)', NEW s \in IncompleteGoals', s \in Reads(g)'
      PROVE  s \in Range1(completing)'
  <2>1. PICK i \in DOMAIN stack : leader <= i /\ g = stack[i].goal
    BY <1>2
  <2>2. PICK j \in DOMAIN stack : stack[i].leader <= j /\ stack[j].goal = s
    BY <1>1, <1>3, <1>6, <2>1 DEF Follows
  <2>3. leader <= stack[i].leader
    BY <1>2, <1>4, <2>1 DEF LInv, Blocks
  <2>4. leader <= j
    BY <1>2, <1>4, <2>2, <2>3
  <2> QED BY <1>2, <2>2, <2>4
<1>7. ASSUME NEW g \in Goals, NEW s \in IncompleteGoals', IsCompleted(g)', s \in Reads(g)' PROVE Again(s)'
  BY <1>1, <1>3, <1>7 DEF Follows
<1> QED BY <1>5, <1>6, <1>7 DEF Follows

\* The topmost SCC is to be completed.
LEMMA SccMeans == ASSUME Before, After, CompleteScc PROVE Meaning'
<1>1. IInv /\ SInv /\ LInv /\ Once /\ CalledRead /\ Compared /\ Follows /\ Backed /\ Right /\ Derived
  BY DEF Before, KInv, Meaning
<1>2. /\ completing = <<>> /\ IncompleteGoals' = IncompleteGoals
      /\ UNCHANGED <<table, call, inedges>>
  BY <1>1, SccCut
<1>3. /\ \A g \in Range1(completing)' : Exhausted(g)
      /\ Once' /\ UNCHANGED <<called, db>>
  BY <1>1, SccGoals
<1>4. Follows'
  BY <1>1, SccFollows
<1>5. /\ \A g \in Goals : /\ Reads(g)' = Reads(g) /\ (HasAnswer(g)' <=> HasAnswer(g)) /\ (Again(g)' <=> Again(g))
                          /\ (HadAnswer(g)' <=> HadAnswer(g)) /\ (IsCompleted(g)' <=> IsCompleted(g))
                          /\ (Valid(g)' <=> Valid(g))
      /\ \A d : LiteralTrue(d)' <=> LiteralTrue(d)
  BY <1>2, <1>3 DEF Reads, HasAnswer, Again, HadAnswer, IsCompleted, Valid, LiteralTrue
<1>6. Holding' = Holding /\ Held' = Held /\ Live' = Live /\ Proven' = Proven
  <2>1. Live' = Live
    BY <1>2, <1>5 DEF Live
  <2>2. Live \subseteq Goals
    BY DEF Live
  <2> QED BY <1>5, <2>1, <2>2 DEF Holding, Held, Proven
<1>7. \A g \in Goals : Untainted(g)' <=> Untainted(g)
  <2>1. \A s \in Goals : Invalid(call, s)' <=> Invalid(call, s)
    BY <1>2 DEF Invalid
  <2>2. \A g \in Goals : Waits(call, table[g])' = Waits(call, table[g])
    BY <1>2, <2>1 DEF Waits
  <2> QED BY <1>2, <2>2 DEF Untainted
<1>8. /\ IncompleteGoals \subseteq Goals /\ Range1(completing)' \subseteq IncompleteGoals
      /\ \A g, R : Supported(g, R)' <=> Supported(g, R')
      /\ \A g, R : Blocked(g, R)' <=> Blocked(g, R')
  BY <1>1, <1>2, IncompleteAreGoals DEF IInv, IncompleteGoals
<1>9. CalledRead' /\ Compared'
  BY <1>1, <1>2, <1>3, <1>5 DEF CalledRead, Compared, LiteralGoal
<1>10. Backed'
  <2>1. \A g \in IncompleteGoals' : HasAnswer(g)' => Supported(g, Reads(g)' \cap Holding')
    BY <1>1, <1>2, <1>5, <1>6, <1>8 DEF Backed
  <2>2. \A g \in Range1(completing)' : ~HasAnswer(g)' => Blocked(g, Reads(g)' \ Holding')
    BY <1>1, <1>3, <1>5, <1>6, <1>8, ExhaustedBlocked
  <2> QED BY <2>1, <2>2 DEF Backed, Supported, Blocked
<1>11. Right'
  <2> SUFFICES ASSUME NEW g \in Goals, IsCompleted(g)'
               PROVE  /\ Valid(g)' => Agrees(g, Holding)'
                      /\ ~Valid(g)' /\ Untainted(g)' => Agrees(g, Held)'
    BY DEF Right
  <2>1. \A T : Agrees(g, T) => /\ HasAnswer(g)' => Supported(g, Reads(g)' \cap T)
                               /\ ~HasAnswer(g)' => Blocked(g, Reads(g)' \ T)
    BY <1>5 DEF Agrees
  <2>2. (Agrees(g, Holding) => Agrees(g, Holding)') /\ (Agrees(g, Held) => Agrees(g, Held)')
    BY <1>6, <2>1 DEF Agrees, Supported, Blocked
  <2> QED BY <1>1, <1>5, <1>7, <2>2 DEF Right
<1>12. Derived'
  <2> SUFFICES ASSUME NEW M \in SUBSET Goals, Closing(M)' PROVE Proven \subseteq M
    BY <1>6 DEF Derived
  <2>1. Closing(M)
    <3> SUFFICES ASSUME NEW g \in Proven, Supported(g, (Reads(g) \cap Holding) \ (Goals \ M)) PROVE g \in M
      BY DEF Closing
    <3>1. g \in Proven' /\ (Reads(g) \cap Holding)' = Reads(g) \cap Holding
      BY <1>5, <1>6 DEF Proven, Live
    <3> QED BY <3>1 DEF Closing, Supported
  <2> QED BY <1>1, <2>1 DEF Derived
<1> QED BY <1>3, <1>4, <1>9, <1>10, <1>11, <1>12 DEF Meaning

-----------------------------------------------------------------------------
(* Completion of a table, which may validate others. *)

\* The cleared nodes are the least set that holds every node whose count is taken back.
LEMMA ClearedLeast ==
  ASSUME Calls, NEW g, NEW Z \in SUBSET Cleared(g),
         \A m \in Cleared(g) : call[m].falsecount <= Hits(g, Z, m) => m \in Z
  PROVE  Cleared(g) \subseteq Z
<1> DEFINE invalid == {x \in Node : call[x].falsecount > 0}
           C == Cleared(g)
<1>1. C = {x \in invalid : \A Y \in SUBSET invalid :
             (\A y \in invalid : call[y].falsecount <= Hits(g, Y, y) => y \in Y) => x \in Y}
  BY DEF Cleared
<1>2. \A x \in Node : call[x].falsecount \in Nat
  <2> SUFFICES ASSUME NEW x \in Node PROVE call[x].falsecount \in Nat
    OBVIOUS
  <2>1. call[x] \in NodeRecord
    BY DEF Calls
  <2>2. call[x].falsecount \in 0 .. FalseMod - 1 /\ FalseMod \in Nat
    BY <2>1, NodeSet, NewNodes
  <2> QED BY <2>2
<1>3. Z \in SUBSET invalid
  BY <1>1
<1>4. ASSUME NEW y \in invalid, call[y].falsecount <= Hits(g, Z, y) PROVE y \in Z
  <2>1. y \in C
    <3>1. SUFFICES ASSUME y \notin C PROVE FALSE
      OBVIOUS
    <3>2. Hits(g, C, y) \in Nat /\ Hits(g, C, y) < call[y].falsecount
      BY <3>1, ClearedAll
    <3>3. Hits(g, Z, y) \in Nat /\ Hits(g, Z, y) <= Hits(g, C, y)
      BY HitsGrow
    <3> QED BY <1>2, <1>4, <3>2, <3>3
  <2> QED BY <1>4, <2>1
<1> HIDE DEF C
<1>5. C \subseteq Z
  BY <1>1, <1>3, <1>4
<1> QED BY <1>5 DEF C

\* The goals that are incomplete when the table of g is completed.
LEMMA EndedGoals ==
  ASSUME IInv, SInv, Once, NEW g \in Goals, NEW n, NEW p, NEW cl, Completes(g, n, p, cl)
  PROVE  /\ IncompleteGoals' = IncompleteGoals \ {g} /\ g \in IncompleteGoals
         /\ Range1(completing)' = Range1(completing) \ {g} /\ g \in Range1(completing)
         /\ Once' /\ stack' = stack
<1>1. /\ completing # <<>> /\ g = Head(completing) /\ completing' = Tail(completing) /\ stack' = stack
      /\ g \in Range1(completing) /\ g \in IncompleteGoals
      /\ IncompleteGoals' \subseteq IncompleteGoals /\ \A h \in IncompleteGoals : h # g => h \in IncompleteGoals'
      /\ Range1(completing)' \subseteq Range1(completing)
      /\ \A h \in Range1(completing) : h # g => h \in Range1(completing)'
  BY DEF Completes
<1>2. completing \in Seq(Goals)
  BY DEF IInv, Evaluation
<1>3. /\ DOMAIN completing' = 1 .. Len(completing) - 1 /\ DOMAIN completing = 1 .. Len(completing)
      /\ Len(completing) \in Nat \ {0} /\ g = completing[1]
      /\ \A i \in DOMAIN completing' : completing'[i] = completing[i + 1]
  BY <1>1, <1>2
<1>4. /\ \A i, j \in DOMAIN completing : completing[i] = completing[j] => i = j
      /\ \A i \in DOMAIN stack : stack[i].goal \notin Range1(completing)
      /\ \A i, j \in DOMAIN stack : stack[i].goal = stack[j].goal => i = j
  BY DEF Once
<1>5. \A i \in DOMAIN completing' : completing'[i] # g
  <2> SUFFICES ASSUME NEW i \in DOMAIN completing', completing[i + 1] = completing[1] PROVE FALSE
    BY <1>3
  <2>1. i + 1 \in DOMAIN completing /\ 1 \in DOMAIN completing /\ i + 1 # 1
    BY <1>3
  <2> QED BY <1>4, <2>1
<1>6. g \notin Range1(completing)'
  BY <1>5 DEF Range1
<1>7. g \notin IncompleteGoals'
  BY <1>1, <1>4, <1>6 DEF IncompleteGoals
<1>8. Once'
  <2>1. ASSUME NEW i \in DOMAIN completing', NEW j \in DOMAIN completing', completing'[i] = completing'[j] PROVE i = j
    <3>1. i + 1 \in DOMAIN completing /\ j + 1 \in DOMAIN completing /\ completing[i + 1] = completing[j + 1]
      BY <1>3, <2>1
    <3>2. i + 1 = j + 1
      BY <1>4, <3>1
    <3> QED BY <1>3, <3>2
  <2>2. \A i \in DOMAIN stack' : stack'[i].goal \notin Range1(completing)'
    BY <1>1, <1>4
  <2> QED BY <1>1, <1>4, <2>1, <2>2 DEF Once
<1> QED BY <1>1, <1>6, <1>7, <1>8

\* The tables when that of g is completed.
LEMMA EndedTables ==
  ASSUME IInv, SInv, Once, NEW g \in Goals, NEW n, NEW p, NEW cl, Completes(g, n, p, cl)
  PROVE  /\ \A h \in Goals : table[h] # None =>
               /\ table'[h] = table[h] /\ table[h] \in Node /\ table[h][1] = h /\ Reads(h)' = Reads(h)
               /\ call'[table[h]].changed = call[table[h]].changed
               /\ call'[table[h]].no_of_answers = call[table[h]].no_of_answers
               /\ h # g => call'[table[h]] = cl[table[h]] /\ call'[table[h]].prev_call = call[table[h]].prev_call
         /\ \A h \in Goals : (HasAnswer(h)' <=> HasAnswer(h)) /\ (Again(h)' <=> h # g /\ Again(h))
                             /\ (IsCompleted(h)' <=> h = g \/ IsCompleted(h))
         /\ \A h \in Goals : h # g /\ Again(h) =>
               /\ call'[table'[h]].prev_call = call[table[h]].prev_call
               /\ call'[call[table[h]].prev_call].no_of_answers = call[call[table[h]].prev_call].no_of_answers
               /\ call'[call[table[h]].prev_call].changed = call[call[table[h]].prev_call].changed
<1>1. /\ table' = table /\ n = table[g] /\ n \in Node /\ n[1] = g
      /\ p # None => p \in Node /\ p[1] = g /\ p # n
      /\ \A m \in Node :
            /\ cl[m].prev_call = call[m].prev_call /\ cl[m].no_of_answers = call[m].no_of_answers
            /\ cl[m].changed = call[m].changed
      /\ call'[n].no_of_answers = call[n].no_of_answers /\ call'[n].changed = call[n].changed
      /\ \A m \in Node \ {n, p} : call'[m] = cl[m]
      /\ \A m \in Node \ {p} : inedges'[m] = inedges[m]
  BY DEF Completes
<1>2. IncompleteGoals' = IncompleteGoals \ {g} /\ g \in IncompleteGoals
  BY EndedGoals
<1>3. /\ table \in [Goals -> Node \cup {None}] /\ Tables /\ None \notin Node
      /\ \A h \in IncompleteGoals : h \in Goals /\ table[h] # None
  BY FiniteGraph, IncompleteAreGoals DEF IInv, SInv, Evaluation, Stacks
<1>4. ASSUME NEW h \in Goals, table[h] # None
      PROVE  /\ table'[h] = table[h] /\ table[h] \in Node /\ table[h][1] = h /\ Reads(h)' = Reads(h)
             /\ call'[table[h]].changed = call[table[h]].changed
             /\ call'[table[h]].no_of_answers = call[table[h]].no_of_answers
             /\ h # g => call'[table[h]] = cl[table[h]] /\ call'[table[h]].prev_call = call[table[h]].prev_call
  <2>1. table[h] \in Node /\ table[h][1] = h /\ table'[h] = table[h]
    BY <1>1, <1>3, <1>4 DEF Tables
  <2>2. table[h] # p
    BY <1>1, <1>3, <2>1
  <2>3. Reads(h)' = Reads(h)
    BY <1>1, <2>1, <2>2 DEF Reads
  <2>4. h # g => call'[table[h]] = cl[table[h]]
    BY <1>1, <2>1, <2>2
  <2>5. h = g => table[h] = n
    BY <1>1
  <2> QED BY <1>1, <2>1, <2>3, <2>4, <2>5
<1>5. ASSUME NEW h \in Goals
      PROVE  (HasAnswer(h)' <=> HasAnswer(h)) /\ (Again(h)' <=> h # g /\ Again(h))
             /\ (IsCompleted(h)' <=> h = g \/ IsCompleted(h))
  <2>1. CASE table[h] = None
    BY <1>1, <1>2, <1>3, <2>1 DEF HasAnswer, Again, IsCompleted
  <2>2. CASE table[h] # None
    BY <1>2, <1>4, <2>2 DEF HasAnswer, Again, IsCompleted
  <2> QED BY <2>1, <2>2
<1>6. ASSUME NEW h \in Goals, h # g, Again(h)
      PROVE  /\ call'[table'[h]].prev_call = call[table[h]].prev_call
             /\ call'[call[table[h]].prev_call].no_of_answers = call[call[table[h]].prev_call].no_of_answers
             /\ call'[call[table[h]].prev_call].changed = call[call[table[h]].prev_call].changed
  <2>1. table[h] # None /\ call[table[h]].prev_call # None
    BY <1>3, <1>6 DEF Again
  <2>2. PICK q : q = call[table[h]].prev_call
    OBVIOUS
  <2>3. q \in Node /\ q[1] = h
    <3>1. table[h] \in Node /\ table[h][1] = h
      BY <1>4, <2>1
    <3>2. q \in Node
      BY <2>1, <2>2, <3>1 DEF IInv, Calls, NodeRecord
    <3> QED BY <2>1, <2>2, <3>1, <3>2 DEF SInv, Previous
  <2>4. q # n /\ q # p
    BY <1>1, <1>3, <1>6, <2>3
  <2>5. call'[q] = cl[q]
    BY <1>1, <2>3, <2>4
  <2> QED BY <1>1, <1>4, <1>6, <2>1, <2>2, <2>3, <2>5
<1> QED BY <1>4, <1>5, <1>6

\* What holds, when the table of g is completed; it held before as well if it is unchanged.
LEMMA EndedSources ==
  ASSUME IInv, SInv, Once, Compared, NEW g \in Goals, NEW n, NEW p, NEW cl, Completes(g, n, p, cl)
  PROVE  /\ Holding' = Holding
         /\ \A d \in Source : d # g => (d \in Held' <=> d \in Held)
         /\ Again(g) <=> p # None
         /\ p = None \/ Unchanged(p) => Held' = Held
<1>1. /\ \A h \in Goals : (HasAnswer(h)' <=> HasAnswer(h)) /\ (Again(h)' <=> h # g /\ Again(h))
      /\ \A h \in Goals : h # g /\ Again(h) =>
               /\ call'[table'[h]].prev_call = call[table[h]].prev_call
               /\ call'[call[table[h]].prev_call].no_of_answers = call[call[table[h]].prev_call].no_of_answers
               /\ call'[call[table[h]].prev_call].changed = call[call[table[h]].prev_call].changed
  BY EndedTables
<1>2. \A h \in Goals : h # g /\ Again(h) => (HadAnswer(h)' <=> HadAnswer(h))
  BY <1>1 DEF HadAnswer
<1>3. \A d \in Source : LiteralTrue(d)' <=> LiteralTrue(d)
  <2>1. db' = db
    BY DEF Completes
  <2> QED BY <1>1, <2>1 DEF LiteralTrue, Source
<1>4. Holding' = Holding
  BY <1>3 DEF Holding
<1>5. \A d \in Source : d # g => (d \in Held' <=> d \in Held)
  BY <1>1, <1>2, <1>3 DEF Held
<1>6. p = call[table[g]].prev_call /\ g \in IncompleteGoals /\ (Again(g) <=> p # None)
  BY DEF Completes, Again
<1>7. ASSUME p = None \/ Unchanged(p) PROVE Held' = Held
  <2>1. g \notin Facts /\ g \in Source
    BY CallGraphAssumption DEF Source
  <2>2. g \in Held' <=> HasAnswer(g)
    BY <1>1, <1>3, <2>1 DEF Held, LiteralTrue
  <2>3. g \in Held <=> HasAnswer(g)
    <3>1. CASE p = None
      BY <1>6, <2>1, <3>1 DEF Held, LiteralTrue
    <3>2. CASE p # None /\ Unchanged(p)
      <4>1. ~call[p].changed /\ ~(call[p].no_of_answers > 0)
        <5>1. ~(0 > 0)
          OBVIOUS
        <5> QED BY <3>2, <5>1 DEF Unchanged
      <4>2. HadAnswer(g) <=> HasAnswer(g)
        BY <1>6, <4>1 DEF HadAnswer
      <4> QED BY <1>6, <2>1, <3>2, <4>2 DEF Held
    <3> QED BY <1>7, <3>1, <3>2
  <2>4. \A d \in Source : d \in Held' <=> d \in Held
    BY <1>5, <2>2, <2>3
  <2> QED BY <2>4 DEF Held
<1> QED BY <1>4, <1>5, <1>6, <1>7

\* What a table has read whose count the unchanged table of g and the nodes Z take back.
LEMMA ClearedReads ==
  ASSUME IInv, SInv, Marks(call), NEW g \in Goals, Again(g), HadAnswer(g) <=> HasAnswer(g),
         NEW Z \in SUBSET Cleared(g), NEW h \in Goals, IsCompleted(h), call[table[h]].falsecount > 0,
         call[table[h]].falsecount <= Hits(g, Z, table[h])
  PROVE  /\ Untainted(h)
         /\ \A d \in Waits(call, table[h]) : d = g \/ (d \in Goals /\ table[d] \in Z)
         /\ \A d \in Reads(h) : d \in Held <=> d \in Holding
<1> DEFINE m == table[h]
           W == Waits(call, m)
           f == call[m].falsecount
<1>1. table[h] # None /\ m \in Node /\ W \in SUBSET inedges[m] /\ f \in Nat /\ Calls
  BY ReadsTables, Counts DEF IsCompleted, Waits, IInv
<1>2. Cardinality(W) <= f
  BY DEF Marks, Counted
<1>3. PICK H \in SUBSET W :
        /\ Hits(g, Z, m) = Cardinality(H)
        /\ \A s \in H : s = g \/ (s \in Goals /\ table[s] \in Z)
  BY <1>1, HitsAmong DEF Again
<1> HIDE DEF W, m
<1>4. /\ Cardinality(H) \in Nat /\ Cardinality(W) \in Nat
      /\ Cardinality(W) <= Cardinality(H) => W \ H = {}
  BY <1>1, TakenBack
<1>5. f <= Cardinality(H)
  BY <1>3 DEF m
<1>6. W = H
  BY <1>1, <1>2, <1>3, <1>4, <1>5
<1>7. Untainted(h)
  BY <1>5, <1>6 DEF Untainted, W, m
<1>8. \A d \in W : d = g \/ (d \in Goals /\ table[d] \in Z)
  BY <1>3, <1>6
<1>9. ASSUME NEW d \in Reads(h) PROVE d \in Held <=> d \in Holding
  <2>1. CASE d \notin W
    BY <1>1, <2>1, SameSources DEF W, m
  <2>2. CASE d = g
    <3>1. g \notin Facts
      BY CallGraphAssumption
    <3> QED BY <2>2, <3>1 DEF Held, Holding, LiteralTrue
  <2>3. CASE d \in Goals /\ table[d] \in Z
    <3>1. call[table[d]].falsecount > 0
      BY <1>1, <2>3, ClearedHit
    <3>2. ~Again(d)
      <4>1. ~(0 > 0)
        OBVIOUS
      <4> QED BY <3>1, <4>1 DEF Marks, Unmarked, Again
    <3> QED BY <2>3, <3>2 DEF Held, Holding
  <2> QED BY <1>8, <2>1, <2>2, <2>3
<1> QED BY <1>7, <1>8, <1>9 DEF W, m

\* The counts of the completed tables when the table of g is completed.
LEMMA EndedCounts ==
  ASSUME IInv, SInv, Marks(call), Once, NEW g \in Goals, NEW n, NEW p, NEW cl, Completes(g, n, p, cl)
  PROVE  /\ call'[table'[g]].falsecount = 0
         /\ \A h \in Goals : IsCompleted(h) => h # g /\ call'[table'[h]] = cl[table[h]]
         /\ \A h \in Goals : table[h] # None => Waits(call, table[h])' \subseteq Waits(call, table[h]) \ {g}
<1>1. /\ table' = table /\ n = table[g] /\ n \in Node
      /\ p # None => p \in Node /\ p[1] = g /\ p # n
      /\ cl = IF p # None /\ Unchanged(p) THEN propagate_no_change(g) ELSE call
      /\ \A m \in Node : /\ cl[m].prev_call = call[m].prev_call
                         /\ call[m].falsecount = 0 => cl[m] = call[m]
      /\ call'[n].falsecount = cl[n].falsecount /\ call'[n].prev_call = None
  BY DEF Completes
<1>2. IncompleteGoals' = IncompleteGoals \ {g} /\ g \in IncompleteGoals
  BY EndedGoals
<1>3. \A h \in Goals : table[h] # None =>
               /\ table'[h] = table[h] /\ table[h] \in Node /\ Reads(h)' = Reads(h)
               /\ h # g => call'[table[h]] = cl[table[h]]
  BY EndedTables
<1>4. call[n].falsecount = 0
  BY <1>1, <1>2 DEF Marks, Unmarked
<1>5. call'[table'[g]].falsecount = 0
  BY <1>1, <1>4
<1>6. ASSUME NEW h \in Goals, IsCompleted(h) PROVE h # g /\ call'[table'[h]] = cl[table[h]]
  BY <1>2, <1>3, <1>6 DEF IsCompleted
<1>7. ASSUME NEW m \in Node, cl[m].falsecount > 0 PROVE call[m].falsecount > 0
  <2>1. call[m].falsecount \in Nat
    BY Counts
  <2>2. call[m].falsecount # 0
    <3>1. ~(0 > 0)
      OBVIOUS
    <3> QED BY <1>1, <1>7, <3>1
  <2> QED BY <2>1, <2>2
<1>8. ASSUME NEW s \in Goals, Invalid(call, s)' PROVE s # g /\ Invalid(call, s)
  <2>1. table[s] # None /\ table[s] \in Node
    BY <1>1, <1>3, <1>8 DEF Invalid
  <2>2. s # g
    <3>1. ~(0 > 0)
      OBVIOUS
    <3>2. ~Invalid(call, g)'
      BY <1>1, <1>2, <1>5, <3>1 DEF Invalid
    <3> QED BY <1>8, <3>2
  <2>3. call'[table[s]] = cl[table[s]]
    BY <1>3, <2>1, <2>2
  <2>4. \/ cl[table[s]].falsecount > 0
        \/ s \in IncompleteGoals /\ cl[table[s]].prev_call # None
    BY <1>1, <1>2, <1>8, <2>3 DEF Invalid
  <2> QED BY <1>1, <1>7, <2>1, <2>2, <2>4 DEF Invalid
<1>9. ASSUME NEW h \in Goals, table[h] # None
      PROVE  Waits(call, table[h])' \subseteq Waits(call, table[h]) \ {g}
  <2>1. Reads(h)' = Reads(h)
    BY <1>3, <1>9
  <2> QED BY <1>8, <2>1 DEF Waits, Reads
<1> QED BY <1>5, <1>6, <1>9

\* The tables are right for the facts when one is completed.
LEMMA EndedRight ==
  ASSUME IInv, SInv, Marks(call), Once, Compared, Follows, Backed, Right,
         NEW g \in Goals, NEW n, NEW p, NEW cl, Completes(g, n, p, cl)
  PROVE  Right'
<1>1. /\ table' = table /\ n = table[g] /\ n \in Node
      /\ cl = IF p # None /\ Unchanged(p) THEN propagate_no_change(g) ELSE call
      /\ \A m \in Node : call[m].falsecount = 0 => cl[m] = call[m]
  BY DEF Completes
<1>2. /\ Holding' = Holding
      /\ \A d \in Source : d # g => (d \in Held' <=> d \in Held)
      /\ Again(g) <=> p # None
      /\ p = None \/ Unchanged(p) => Held' = Held
  BY EndedSources
<1>3. /\ \A h \in Goals : table[h] # None => Reads(h)' = Reads(h) /\ table[h] \in Node
      /\ \A h \in Goals : (HasAnswer(h)' <=> HasAnswer(h)) /\ (IsCompleted(h)' <=> h = g \/ IsCompleted(h))
  BY EndedTables
<1>4. /\ call'[table'[g]].falsecount = 0
      /\ \A h \in Goals : IsCompleted(h) => h # g /\ call'[table'[h]] = cl[table[h]]
      /\ \A h \in Goals : table[h] # None => Waits(call, table[h])' \subseteq Waits(call, table[h]) \ {g}
  BY EndedCounts
<1>5. /\ g \in Range1(completing) /\ g \in IncompleteGoals /\ table[g] # None
  <2>1. g \in Range1(completing) /\ g \in IncompleteGoals
    BY EndedGoals
  <2> QED BY <2>1 DEF IInv, Stacks
<1>6. ASSUME NEW h \in Goals, table[h] # None, NEW T,
             /\ HasAnswer(h) => Supported(h, Reads(h) \cap T)
             /\ ~HasAnswer(h) => Blocked(h, Reads(h) \ T)
      PROVE  /\ HasAnswer(h)' => Supported(h, Reads(h)' \cap T)
             /\ ~HasAnswer(h)' => Blocked(h, Reads(h)' \ T)
  BY <1>3, <1>6
<1> SUFFICES ASSUME NEW h \in Goals, IsCompleted(h)'
             PROVE  /\ Valid(h)' => Agrees(h, Holding)'
                    /\ ~Valid(h)' /\ Untainted(h)' => Agrees(h, Held)'
  BY DEF Right
<1>7. CASE h = g
  <2>1. Valid(h)'
    BY <1>4, <1>7 DEF Valid
  <2>2. /\ HasAnswer(h) => Supported(h, Reads(h) \cap Holding)
        /\ ~HasAnswer(h) => Blocked(h, Reads(h) \ Holding)
    BY <1>5, <1>7 DEF Backed
  <2>3. /\ HasAnswer(h)' => Supported(h, Reads(h)' \cap Holding')
        /\ ~HasAnswer(h)' => Blocked(h, Reads(h)' \ Holding')
    BY <1>2, <1>5, <1>6, <1>7, <2>2
  <2>4. Agrees(h, Holding)'
    BY <2>3 DEF Agrees, Supported, Blocked
  <2> QED BY <2>1, <2>4
<1>8. CASE h # g
  <2> DEFINE m == table[h]
             f == call[m].falsecount
             W == Waits(call, m)
             V == Waits(call, table[h])'
  <2>1. /\ IsCompleted(h) /\ h # g /\ table[h] # None /\ m \in Node /\ call'[table'[h]] = cl[m]
        /\ V \subseteq W \ {g} /\ Reads(h)' = Reads(h) /\ Reads(h) \subseteq Source
    <3>1. IsCompleted(h) /\ table[h] # None
      BY <1>3, <1>8 DEF IsCompleted
    <3> QED BY <1>3, <1>4, <3>1, ReadsTables
  <2>2. f \in Nat /\ W \in SUBSET inedges[m] /\ Calls
    BY <2>1, Counts DEF Waits, IInv
  <2>3. Valid(h) <=> f = 0
    BY <2>1 DEF Valid
  <2>4. Valid(h)' <=> cl[m].falsecount = 0
    BY <2>1 DEF Valid
  <2>5. f > 0 => Cardinality(W) <= f
    BY <2>1 DEF Marks, Counted
  <2>6. Untainted(h) <=> f <= Cardinality(W)
    BY DEF Untainted
  <2>7. Untainted(h)' <=> cl[m].falsecount <= Cardinality(V)
    BY <2>1 DEF Untainted
  <2>8. /\ Valid(h) => Agrees(h, Holding)
        /\ ~Valid(h) /\ Untainted(h) => Agrees(h, Held)
    BY <2>1 DEF Right
  <2>9. Agrees(h, Holding) => Agrees(h, Holding)'
    <3>1. ASSUME Agrees(h, Holding)
          PROVE /\ HasAnswer(h)' => Supported(h, Reads(h)' \cap Holding')
                /\ ~HasAnswer(h)' => Blocked(h, Reads(h)' \ Holding')
      BY <1>2, <1>6, <2>1, <3>1 DEF Agrees
    <3> QED BY <3>1 DEF Agrees, Supported, Blocked
  <2>10. Agrees(h, Held) /\ (\A d \in Reads(h) : d \in Held' <=> d \in Held) => Agrees(h, Held)'
    <3>1. ASSUME Agrees(h, Held), \A d \in Reads(h) : d \in Held' <=> d \in Held
          PROVE /\ HasAnswer(h)' => Supported(h, Reads(h)' \cap Held')
                /\ ~HasAnswer(h)' => Blocked(h, Reads(h)' \ Held')
      <4>1. Reads(h)' \cap Held' = Reads(h) \cap Held /\ Reads(h)' \ Held' = Reads(h) \ Held
        BY <2>1, <3>1
      <4> QED BY <1>3, <3>1, <4>1 DEF Agrees
    <3> QED BY <3>1 DEF Agrees, Supported, Blocked
  <2> HIDE DEF W, V, m
  <2>11. Cardinality(V) \in Nat /\ Cardinality(W) \in Nat /\ Cardinality(V) <= Cardinality(W)
    BY <2>1, <2>2, FewerWait
  <2>12. CASE f = 0
    <3>1. cl[m].falsecount = 0
      BY <1>1, <2>1, <2>12
    <3> QED BY <2>3, <2>4, <2>8, <2>9, <2>12, <3>1
  <2>13. CASE f > 0 /\ ~(p # None /\ Unchanged(p))
    <3>1. cl[m].falsecount = f /\ ~Valid(h)' /\ ~Valid(h)
      BY <1>1, <2>2, <2>3, <2>4, <2>13
    <3>2. ASSUME Untainted(h)' PROVE Agrees(h, Held)'
      <4>1. f <= Cardinality(V) /\ f <= Cardinality(W)
        BY <2>2, <2>7, <2>11, <3>1, <3>2
      <4>2. g \notin W
        <5>1. SUFFICES ASSUME g \in W PROVE FALSE
          OBVIOUS
        <5>2. {g} \in SUBSET W /\ V \in SUBSET (W \ {g})
          BY <2>1, <5>1
        <5>3. Cardinality(V) + Cardinality({g}) <= Cardinality(W)
          BY <2>1, <2>2, <5>2, TakenBack
        <5>4. Cardinality({g}) = 1
          BY FS_Singleton
        <5> QED BY <2>2, <2>5, <2>11, <2>13, <4>1, <5>3, <5>4
      <4>3. ASSUME NEW d \in Reads(h) PROVE d \in Held' <=> d \in Held
        <5>1. CASE d # g
          BY <1>2, <2>1, <5>1
        <5>2. CASE d = g
          <6>1. ~Again(g)
            BY <1>5, <4>2, <5>2 DEF W, m, Waits, Invalid, Again, Reads
          <6> QED BY <1>2, <6>1
        <5> QED BY <5>1, <5>2
      <4> QED BY <2>6, <2>8, <2>10, <3>1, <4>1, <4>3
    <3> QED BY <3>1, <3>2
  <2>14. CASE f > 0 /\ p # None /\ Unchanged(p)
    <3>1. cl = propagate_no_change(g) /\ Held' = Held /\ Again(g)
      BY <1>1, <1>2, <2>14
    <3>2. ~Valid(h)
      BY <2>2, <2>3, <2>14
    <3>3. CASE m \in Cleared(g)
      <4>1. Valid(h)'
        BY <2>1, <2>2, <2>4, <3>1, <3>3, Validated
      <4>2. f <= Hits(g, Cleared(g), m)
        BY <2>2, <3>3, ClearedHit
      <4>3. HadAnswer(g) <=> HasAnswer(g)
        <5>1. call[table[g]].prev_call = p
          BY DEF Completes
        <5>2. ~(0 > 0)
          OBVIOUS
        <5> QED BY <2>14, <5>1, <5>2 DEF HadAnswer, Unchanged
      <4>4. /\ Untainted(h)
            /\ \A d \in Reads(h) : d \in Held <=> d \in Holding
        <5>1. PICK Z \in SUBSET Cleared(g) : Z = Cleared(g)
          OBVIOUS
        <5>2. call[table[h]].falsecount > 0 /\ call[table[h]].falsecount <= Hits(g, Z, table[h])
          BY <2>14, <4>2, <5>1 DEF m
        <5> QED BY <2>1, <3>1, <4>3, <5>2, ClearedReads
      <4>5. Agrees(h, Held)
        BY <2>8, <3>2, <4>4
      <4>6. Reads(h) \cap Held = Reads(h) \cap Holding /\ Reads(h) \ Held = Reads(h) \ Holding
        BY <4>4
      <4>7. Agrees(h, Holding)
        BY <4>5, <4>6 DEF Agrees
      <4> QED BY <2>9, <4>1, <4>7
    <3>4. CASE m \notin Cleared(g)
      <4>1. cl[m].falsecount = f - Hits(g, Cleared(g), m)
        BY <2>1, <2>2, <2>14, <3>1, <3>4, Validated
      <4>2. Hits(g, Cleared(g), m) \in Nat /\ Hits(g, Cleared(g), m) < f
        BY <2>1, <2>2, <2>14, <3>4, ClearedAll
      <4>3. ~Valid(h)'
        BY <2>2, <2>4, <4>1, <4>2
      <4>4. ASSUME Untainted(h)' PROVE Agrees(h, Held)'
        <5>1. PICK H \in SUBSET Waits(call, m) :
                 /\ Hits(g, Cleared(g), m) = Cardinality(H)
                 /\ \A s \in H : s = g \/ (s \in Goals /\ table[s] \in Cleared(g))
          BY <1>5, <2>1, <3>1, HitsWaited DEF Again
        <5>2. H \in SUBSET W
          BY <5>1 DEF W
        <5>3. V \in SUBSET (W \ H)
          <6> SUFFICES ASSUME NEW s \in V, s \in H PROVE FALSE
            BY <2>1
          <6>1. s # g /\ s \in Goals /\ table[s] \in Cleared(g) /\ Invalid(call, s)'
            BY <2>1, <5>1 DEF V, Waits
          <6>2. table[s] \in Node /\ call[table[s]].falsecount > 0
            BY <2>2, <6>1, ClearedHit
          <6>3. s \notin IncompleteGoals
            <7>1. ~(0 > 0)
              OBVIOUS
            <7> QED BY <6>2, <7>1 DEF Marks, Unmarked
          <6>4. table[s] # None /\ IsCompleted(s)
            BY <1>1, <6>1, <6>3 DEF Invalid, IsCompleted
          <6>5. call'[table'[s]] = cl[table[s]] /\ cl[table[s]].falsecount = 0
            BY <1>4, <2>2, <3>1, <6>1, <6>2, <6>4, Validated
          <6>6. s \notin IncompleteGoals'
            BY <6>3, EndedGoals
          <6>7. ~(0 > 0)
            OBVIOUS
          <6> QED BY <6>1, <6>5, <6>6, <6>7 DEF Invalid
        <5>4. Cardinality(H) \in Nat /\ Cardinality(V) + Cardinality(H) <= Cardinality(W)
          BY <2>1, <2>2, <5>2, <5>3, TakenBack
        <5>5. f <= Cardinality(W)
          BY <2>2, <2>7, <2>11, <4>1, <4>4, <5>1, <5>4
        <5> QED BY <2>6, <2>8, <2>10, <3>1, <3>2, <5>5
      <4> QED BY <4>3, <4>4
    <3> QED BY <3>3, <3>4
  <2> QED BY <2>2, <2>12, <2>13, <2>14
<1> QED BY <1>7, <1>8

\* The tables that can be read when the table of g is completed: those that are validated
\* become so.
LEMMA EndedLive ==
  ASSUME IInv, SInv, Marks(call), Once, NEW g \in Goals, NEW n, NEW p, NEW cl, Completes(g, n, p, cl)
  PROVE  /\ g \in Live /\ Live \subseteq Live'
         /\ \A h \in Live' : h \in Live \/ (/\ p # None /\ Unchanged(p) /\ table[h] \in Cleared(g)
                                            /\ IsCompleted(h) /\ h # g)
         /\ \A h \in Goals : p # None /\ Unchanged(p) /\ IsCompleted(h) /\ table[h] \in Cleared(g) => h \in Live'
<1>1. /\ cl = IF p # None /\ Unchanged(p) THEN propagate_no_change(g) ELSE call
      /\ \A m \in Node : call[m].falsecount = 0 => cl[m] = call[m]
  BY DEF Completes
<1>2. /\ IncompleteGoals' = IncompleteGoals \ {g} /\ g \in IncompleteGoals
  BY EndedGoals
<1>3. /\ \A h \in Goals : table[h] # None => table[h] \in Node
      /\ \A h \in Goals : IsCompleted(h)' <=> h = g \/ IsCompleted(h)
  BY EndedTables
<1>4. /\ call'[table'[g]].falsecount = 0
      /\ \A h \in Goals : IsCompleted(h) => h # g /\ call'[table'[h]] = cl[table[h]]
  BY EndedCounts
<1>5. Calls /\ \A m \in Node : call[m].falsecount \in Nat
  BY Counts DEF IInv
<1>6. g \in Live /\ g \in Live'
  BY <1>2, <1>3, <1>4 DEF Live, Valid
<1>7. ASSUME NEW h \in Goals, IsCompleted(h), call[table[h]].falsecount = 0 PROVE h \in Live'
  BY <1>1, <1>3, <1>4, <1>7 DEF Live, Valid, IsCompleted
<1>8. Live \subseteq Live'
  <2> SUFFICES ASSUME NEW h \in Live PROVE h \in Live'
    OBVIOUS
  <2>1. CASE h \in IncompleteGoals
    BY <1>2, <1>6, <2>1 DEF Live
  <2>2. CASE h \notin IncompleteGoals
    BY <1>7, <2>2 DEF Live, Valid
  <2> QED BY <2>1, <2>2
<1>9. ASSUME NEW h \in Live', h \notin Live
      PROVE  p # None /\ Unchanged(p) /\ table[h] \in Cleared(g) /\ IsCompleted(h) /\ h # g
  <2>1. h \in Goals /\ h # g /\ h \notin IncompleteGoals /\ Valid(h)'
    BY <1>2, <1>6, <1>9 DEF Live
  <2>2. IsCompleted(h) /\ table[h] \in Node /\ call'[table'[h]] = cl[table[h]]
    BY <1>3, <1>4, <2>1 DEF Valid, IsCompleted
  <2>3. cl[table[h]].falsecount = 0
    BY <2>1, <2>2 DEF Valid
  <2>4. call[table[h]].falsecount # 0
    BY <1>9, <2>1, <2>2 DEF Live, Valid
  <2>5. p # None /\ Unchanged(p) /\ cl = propagate_no_change(g)
    BY <1>1, <2>3, <2>4
  <2>6. ASSUME table[h] \notin Cleared(g) PROVE FALSE
    <3>1. call[table[h]].falsecount > 0 /\ call[table[h]].falsecount \in Nat
      BY <1>5, <2>2, <2>4
    <3>2. cl[table[h]].falsecount = call[table[h]].falsecount - Hits(g, Cleared(g), table[h])
      BY <1>5, <2>2, <2>5, <2>6, <3>1, Validated
    <3>3. Hits(g, Cleared(g), table[h]) \in Nat /\ Hits(g, Cleared(g), table[h]) < call[table[h]].falsecount
      BY <1>5, <2>2, <2>6, <3>1, ClearedAll
    <3> QED BY <2>3, <3>1, <3>2, <3>3
  <2> QED BY <2>1, <2>2, <2>5, <2>6
<1>10. ASSUME NEW h \in Goals, p # None, Unchanged(p), IsCompleted(h), table[h] \in Cleared(g) PROVE h \in Live'
  <2>1. table[h] \in Node /\ call'[table'[h]] = cl[table[h]] /\ cl = propagate_no_change(g)
    BY <1>1, <1>3, <1>4, <1>10 DEF IsCompleted
  <2>2. cl[table[h]].falsecount = 0
    BY <1>5, <1>10, <2>1, Validated
  <2> QED BY <1>3, <1>10, <2>1, <2>2 DEF Live, Valid
<1> QED BY <1>6, <1>8, <1>9, <1>10

\* No answer of a table that has become valid depends on itself only.
LEMMA EndedDerived ==
  ASSUME IInv, SInv, Marks(call), Closed, Once, Compared, Right, Derived,
         NEW g \in Goals, NEW n, NEW p, NEW cl, Completes(g, n, p, cl), ~crashed'
  PROVE  Derived'
<1>1. /\ g \in Live /\ Live \subseteq Live'
      /\ \A h \in Live' : h \in Live \/ (/\ p # None /\ Unchanged(p) /\ table[h] \in Cleared(g)
                                         /\ IsCompleted(h) /\ h # g)
      /\ \A h \in Goals : p # None /\ Unchanged(p) /\ IsCompleted(h) /\ table[h] \in Cleared(g) => h \in Live'
  BY EndedLive
<1>2. /\ Holding' = Holding /\ (Again(g) <=> p # None)
  BY EndedSources
<1>3. /\ \A h \in Goals : table[h] # None => Reads(h)' = Reads(h) /\ table[h] \in Node /\ table[h][1] = h
      /\ \A h \in Goals : HasAnswer(h)' <=> HasAnswer(h)
  BY EndedTables
<1>4. Calls /\ \A m \in Node : call[m].falsecount \in Nat
  BY Counts DEF IInv
<1>5. Live \subseteq Goals /\ Live' \subseteq Goals /\ Proven \subseteq Proven'
      /\ \A h \in Goals : HasAnswer(h) => table[h] # None
  BY <1>1, <1>3 DEF Live, Proven, HasAnswer
<1> SUFFICES ASSUME NEW M \in SUBSET Goals, Closing(M)' PROVE Proven' \subseteq M
  BY DEF Derived
<1>6. \A h \in Proven' : Supported(h, (Reads(h) \cap Holding) \ (Goals \ M)) => h \in M
  <2> SUFFICES ASSUME NEW h \in Proven', Supported(h, (Reads(h) \cap Holding) \ (Goals \ M)) PROVE h \in M
    OBVIOUS
  <2>1. h \in Goals /\ HasAnswer(h)'
    BY <1>5 DEF Proven
  <2>2. Reads(h)' = Reads(h)
    BY <1>3, <1>5, <2>1
  <2>3. (Reads(h)' \cap Holding') \ (Goals \ M) = (Reads(h) \cap Holding) \ (Goals \ M)
    BY <1>2, <2>2
  <2> QED BY <2>3 DEF Closing, Supported
<1>7. Proven \subseteq M
  <2>1. Closing(M)
    BY <1>5, <1>6 DEF Closing
  <2> QED BY <2>1 DEF Derived
<1> SUFFICES ASSUME NEW h \in Proven', h \notin Proven PROVE h \in M
  BY <1>7
<1>8. /\ p # None /\ Unchanged(p) /\ table[h] \in Cleared(g) /\ IsCompleted(h) /\ h \in Goals /\ HasAnswer(h)
      /\ table[h][1] = h
  BY <1>1, <1>3, <1>5 DEF Proven
<1> DEFINE Z == {m \in Cleared(g) : HasAnswer(m[1]) => m[1] \in M}
<1>9. HadAnswer(g) <=> HasAnswer(g)
  <2>1. call[table[g]].prev_call = p
    BY DEF Completes
  <2>2. ~(0 > 0)
    OBVIOUS
  <2> QED BY <1>8, <2>1, <2>2 DEF HadAnswer, Unchanged
<1>10. \A m \in Cleared(g) : call[m].outedges
  BY <1>8 DEF Completes
<1>11. ASSUME NEW m \in Cleared(g), call[m].falsecount <= Hits(g, Z, m) PROVE m \in Z
  <2> SUFFICES ASSUME HasAnswer(m[1]) PROVE m[1] \in M
    OBVIOUS
  <2>1. m \in Node /\ call[m].falsecount > 0 /\ call[m].outedges
    BY <1>4, <1>10, ClearedHit
  <2>2. PICK d \in Goals : d = m[1] /\ table[d] = m /\ table[d] # None
    <3>1. m[1] \in Goals /\ m # None
      BY <2>1, FiniteGraph DEF Node
    <3> QED BY <2>1, <3>1 DEF Marks, Current
  <2>3. IsCompleted(d)
    <3>1. ~(0 > 0)
      OBVIOUS
    <3> QED BY <2>1, <2>2, <3>1 DEF Marks, Unmarked, IsCompleted
  <2>4. /\ Untainted(d)
        /\ \A s \in Waits(call, table[d]) : s = g \/ (s \in Goals /\ table[s] \in Z)
        /\ \A s \in Reads(d) : s \in Held <=> s \in Holding
    <3>1. Z \in SUBSET Cleared(g)
      OBVIOUS
    <3> HIDE DEF Z
    <3>2. call[table[d]].falsecount > 0 /\ call[table[d]].falsecount <= Hits(g, Z, table[d])
      BY <1>11, <2>1, <2>2
    <3> QED BY <1>2, <1>8, <1>9, <2>3, <3>1, <3>2, ClearedReads
  <2>5. Supported(d, Reads(d) \cap Held)
    <3>1. ~Valid(d)
      <4>1. ~(0 > 0)
        OBVIOUS
      <4> QED BY <2>1, <2>2, <4>1 DEF Valid
    <3> QED BY <2>2, <2>3, <2>4, <3>1 DEF Right, Agrees
  <2>6. ASSUME NEW s \in Reads(d) \cap Held, s \in Goals PROVE s \in Holding /\ s \in M
    <3>1. s \in Holding /\ HasAnswer(s)
      <4>1. s \in Holding /\ s \notin Facts
        BY <2>4, <2>6, CallGraphAssumption
      <4> QED BY <2>6, <4>1 DEF Holding, LiteralTrue
    <3>2. table[s] # None /\ table[s] \in Node /\ table[s][1] = s
      BY <1>3, <1>5, <2>6, <3>1
    <3>3. CASE s = g
      BY <1>1, <1>7, <3>1, <3>3 DEF Proven
    <3>4. CASE table[s] \in Z
      BY <3>1, <3>2, <3>4
    <3>5. CASE s \notin Waits(call, table[d])
      <4>1. ~(call[table[s]].falsecount > 0) /\ call[table[s]].falsecount \in Nat
        BY <1>4, <2>6, <3>2, <3>5 DEF Waits, Invalid, Reads
      <4>2. call[table[s]].falsecount = 0
        BY <4>1
      <4>3. s \in Live
        BY <2>6, <3>2, <4>2 DEF Live, Valid, IsCompleted
      <4> QED BY <1>7, <3>1, <4>3 DEF Proven
    <3> QED BY <2>4, <3>1, <3>3, <3>4, <3>5
  <2>7. Reads(d) \cap Held \in SUBSET ((Reads(d) \cap Holding) \ (Goals \ M))
    BY <2>4, <2>6
  <2>8. Supported(d, (Reads(d) \cap Holding) \ (Goals \ M))
    BY <2>5, <2>7, SupportedMore
  <2>9. d \in Proven'
    <3>1. d \in Live'
      BY <1>1, <1>8, <1>11, <2>2, <2>3
    <3> QED BY <1>3, <2>2, <3>1 DEF Proven
  <2> QED BY <1>6, <2>2, <2>8, <2>9
<1>12. Cleared(g) \subseteq Z
  <2>1. Z \in SUBSET Cleared(g)
    OBVIOUS
  <2> HIDE DEF Z
  <2> QED BY <1>4, <1>11, <2>1, ClearedLeast
<1> QED BY <1>8, <1>12

\* The completion of a table.
LEMMA CompletedMeans ==
  ASSUME Before, After, CompleteTable, ~crashed' PROVE Meaning'
<1>1. /\ IInv /\ SInv /\ Marks(call) /\ Closed
      /\ Once /\ CalledRead /\ Compared /\ Follows /\ Backed /\ Right /\ Derived
  BY LiveClosed DEF Before, KInv, Meaning
<1>2. PICK g \in Goals : \E n, p, cl : Completes(g, n, p, cl)
  BY <1>1, TableCompleted
<1>3. PICK n, p, cl : Completes(g, n, p, cl)
  BY <1>2
<1>4. /\ IncompleteGoals' = IncompleteGoals \ {g} /\ g \in IncompleteGoals
      /\ Range1(completing)' = Range1(completing) \ {g} /\ g \in Range1(completing)
      /\ Once' /\ stack' = stack
  BY <1>1, <1>3, EndedGoals
<1>5. /\ \A h \in Goals : table[h] # None =>
               /\ table'[h] = table[h] /\ Reads(h)' = Reads(h)
               /\ call'[table[h]].changed = call[table[h]].changed
      /\ \A h \in Goals : (HasAnswer(h)' <=> HasAnswer(h)) /\ (Again(h)' <=> h # g /\ Again(h))
                          /\ (IsCompleted(h)' <=> h = g \/ IsCompleted(h))
      /\ \A h \in Goals : h # g /\ Again(h) =>
            /\ call'[table'[h]].prev_call = call[table[h]].prev_call
            /\ call'[call[table[h]].prev_call].no_of_answers = call[call[table[h]].prev_call].no_of_answers
            /\ call'[call[table[h]].prev_call].changed = call[call[table[h]].prev_call].changed
  BY <1>1, <1>3, EndedTables
<1>6. Holding' = Holding
  BY <1>1, <1>3, EndedSources
<1>7. /\ IncompleteGoals \subseteq Goals /\ \A h \in IncompleteGoals : table[h] # None
      /\ Range1(completing) \subseteq IncompleteGoals
      /\ \A i \in DOMAIN stack : stack[i].goal \in IncompleteGoals
  BY <1>1, IncompleteAreGoals DEF IInv, Stacks, IncompleteGoals
<1>8. CalledRead'
  <2>1. \A h \in Goals : called'[h] = IF h = g THEN {} ELSE called[h]
    BY <1>1, <1>3 DEF Completes, IInv, Evaluation
  <2> SUFFICES ASSUME NEW h \in Goals
               PROVE  IF h \in IncompleteGoals' THEN \A l \in called'[h] : LiteralGoal(h, l) \in Reads(h)'
                      ELSE called'[h] = {}
    BY DEF CalledRead, LiteralGoal
  <2>2. CASE h \in IncompleteGoals'
    <3>1. h \in IncompleteGoals /\ h # g /\ Reads(h)' = Reads(h) /\ called'[h] = called[h]
      BY <1>4, <1>5, <1>7, <2>1, <2>2
    <3> QED BY <1>1, <2>2, <3>1 DEF CalledRead
  <2>3. CASE h \notin IncompleteGoals'
    BY <1>1, <1>4, <2>1, <2>3 DEF CalledRead
  <2> QED BY <2>2, <2>3
<1>9. Compared'
  <2> SUFFICES ASSUME NEW h \in Goals, table'[h] # None
               PROVE  /\ ~call'[table'[h]].changed
                      /\ Again(h)' => LET q == call'[call'[table'[h]].prev_call]
                                      IN  /\ q.changed => HasAnswer(h)' /\ q.no_of_answers = 0
                                          /\ q.no_of_answers > 0 => ~HasAnswer(h)'
    BY DEF Compared
  <2>1. table[h] # None /\ ~call[table[h]].changed /\ ~call'[table'[h]].changed
    <3>1. table' = table
      BY <1>3 DEF Completes
    <3> QED BY <1>1, <1>5, <3>1 DEF Compared
  <2>2. ASSUME Again(h)'
        PROVE LET q == call'[call'[table'[h]].prev_call]
              IN  /\ q.changed => HasAnswer(h)' /\ q.no_of_answers = 0
                  /\ q.no_of_answers > 0 => ~HasAnswer(h)'
    <3>1. Again(h) /\ h # g
      BY <1>5, <2>2
    <3>2. LET q == call[call[table[h]].prev_call]
          IN  /\ q.changed => HasAnswer(h) /\ q.no_of_answers = 0
              /\ q.no_of_answers > 0 => ~HasAnswer(h)
      BY <1>1, <2>1, <3>1 DEF Compared
    <3> QED BY <1>5, <3>1, <3>2
  <2> QED BY <2>1, <2>2
<1>10. Follows'
  <2>1. ASSUME NEW i \in DOMAIN stack', NEW s \in IncompleteGoals', s \in Reads(stack[i].goal)'
        PROVE  \/ s \in Range1(completing)'
               \/ \E j \in DOMAIN stack' : stack'[i].leader <= j /\ stack'[j].goal = s
    <3>1. PICK h \in Goals : h = stack[i].goal /\ h = stack'[i].goal /\ table[h] # None /\ i \in DOMAIN stack
      BY <1>4, <1>7, <2>1
    <3>2. Reads(stack[i].goal)' = Reads(h)'
      BY <3>1 DEF Reads
    <3>3. s \in Reads(h) /\ s \in IncompleteGoals /\ s # g
      BY <1>4, <1>5, <2>1, <3>1, <3>2
    <3> QED BY <1>1, <1>4, <3>1, <3>3 DEF Follows
  <2>2. ASSUME NEW h \in Range1(completing)', NEW s \in IncompleteGoals', s \in Reads(h)'
        PROVE  s \in Range1(completing)'
    <3>1. h \in Range1(completing) /\ h \in Goals /\ table[h] # None /\ s \in IncompleteGoals /\ s # g
      BY <1>4, <1>7, <2>2
    <3>2. s \in Reads(h)
      BY <1>5, <2>2, <3>1
    <3> QED BY <1>1, <1>4, <3>1, <3>2 DEF Follows
  <2>3. ASSUME NEW h \in Goals, NEW s \in IncompleteGoals', IsCompleted(h)', s \in Reads(h)'
        PROVE  s \in Range1(completing)' \/ Again(s)'
    <3>1. s \in IncompleteGoals /\ s # g /\ s \in Goals /\ (h = g \/ IsCompleted(h)) /\ table[h] # None
      BY <1>4, <1>5, <1>7, <2>3 DEF IsCompleted
    <3>2. s \in Reads(h)
      BY <1>5, <2>3, <3>1
    <3>3. s \in Range1(completing) \/ Again(s)
      BY <1>1, <1>4, <3>1, <3>2 DEF Follows
    <3> QED BY <1>4, <1>5, <3>1, <3>3
  <2> QED BY <2>1, <2>2, <2>3 DEF Follows
<1>11. Backed'
  <2>1. ASSUME NEW h \in IncompleteGoals', HasAnswer(h)' PROVE Supported(h, Reads(h)' \cap Holding')
    <3>1. h \in IncompleteGoals /\ Reads(h)' = Reads(h) /\ HasAnswer(h)
      BY <1>4, <1>5, <1>7, <2>1
    <3>2. Reads(h)' \cap Holding' = Reads(h) \cap Holding
      BY <1>6, <3>1
    <3> QED BY <1>1, <3>1, <3>2 DEF Backed
  <2>2. ASSUME NEW h \in Range1(completing)', ~HasAnswer(h)' PROVE Blocked(h, Reads(h)' \ Holding')
    <3>1. h \in Range1(completing) /\ Reads(h)' = Reads(h) /\ ~HasAnswer(h)
      BY <1>4, <1>5, <1>7, <2>2
    <3>2. Reads(h)' \ Holding' = Reads(h) \ Holding
      BY <1>6, <3>1
    <3> QED BY <1>1, <3>1, <3>2 DEF Backed
  <2> QED BY <2>1, <2>2 DEF Backed, Supported, Blocked
<1>12. Right'
  BY <1>1, <1>3, EndedRight
<1>13. Derived'
  BY <1>1, <1>3, EndedDerived
<1> QED BY <1>4, <1>8, <1>9, <1>10, <1>11, <1>12, <1>13 DEF Meaning

-----------------------------------------------------------------------------
(* Every step. *)

\* There is no table at first.
LEMMA InitMeans == Init => Meaning
<1> SUFFICES ASSUME Init PROVE Meaning
  OBVIOUS
<1>1. /\ stack = <<>> /\ completing = <<>> /\ called = [g \in Goals |-> {}]
      /\ \A g \in Goals : table[g] = None
      /\ IncompleteGoals = {} /\ Range1(completing) = {} /\ DOMAIN stack = {} /\ DOMAIN completing = {}
  BY DEF Init, IncompleteGoals, Range1
<1>2. Once /\ CalledRead /\ Compared /\ Follows
  BY <1>1 DEF Once, CalledRead, Compared, Follows, IsCompleted
<1>3. Backed /\ Right
  BY <1>1 DEF Backed, Right, IsCompleted
<1>4. Proven = {}
  BY <1>1 DEF Proven, Live, HasAnswer
<1>5. Derived
  BY <1>4 DEF Derived
<1> QED BY <1>2, <1>3, <1>5 DEF Meaning

\* A disturbance and a crash are for ever, and a step changes one fact at most.
OneFact == db' = db \/ \E f \in Facts : \E v \in {db[f] + 1, db[f] - 1, 0} : db' = [db EXCEPT ![f] = v]

LEMMA HistoryGoesOn ==
  ASSUME IInv, [Next]_vars
  PROVE  (Undisturbed' => Undisturbed) /\ (~crashed' => ~crashed) /\ OneFact
<1> DEFINE Onward == (Undisturbed' => Undisturbed) /\ (~crashed' => ~crashed) /\ OneFact
<1>1. cut \in BOOLEAN /\ overlapped \in BOOLEAN /\ crashed \in BOOLEAN
  BY DEF IInv, Program
<1>2. ASSUME UNCHANGED <<cut, overlapped, crashed, db>> PROVE Onward
  BY <1>2 DEF Undisturbed, OneFact
<1>3. ASSUME NEW o, Disturbs(o), UNCHANGED crashed, OneFact PROVE Onward
  BY <1>3 DEF Undisturbed, Disturbs
<1>4. ASSUME NEW c, NEW d, LazyReeval(c, d) \/ LazyError(d) PROVE UNCHANGED <<cut, overlapped, crashed, db>>
  BY <1>4 DEF LazyReeval, LazyError, Unwind, histVars
<1>5. ASSUME NEW g \in Goals, NewAnswer(g) \/ CallFact(g) \/ CallGoal(g)
      PROVE  UNCHANGED <<cut, overlapped, crashed, db>>
  BY <1>4, <1>5 DEF NewAnswer, CallFact, CallGoal, histVars
<1>6. ASSUME NEW c \in Caller, RunHandler(c) PROVE UNCHANGED <<cut, overlapped, crashed, db>>
  BY <1>4, <1>6 DEF RunHandler, histVars
<1>7. CallQuery \/ CompleteScc \/ Abort => UNCHANGED <<cut, overlapped, crashed, db>>
  BY <1>4 DEF CallQuery, CompleteScc, Abort, Unwind, histVars
<1>8. CASE CompleteTable
  <2>1. ~crashed
    BY <1>8 DEF CompleteTable
  <2>2. UNCHANGED histVars /\ db' = db
    BY <1>8 DEF CompleteTable
  <2> QED BY <2>1, <2>2 DEF Undisturbed, histVars, OneFact
<1>9. ASSUME NEW d \in Goals, Query(d) PROVE UNCHANGED <<cut, overlapped, crashed, db>>
  BY <1>9 DEF Query, histVars
<1>10. ASSUME NEW d \in Goals, incr_invalidate_call(d) \/ abolish_table_call(d)
       PROVE  \E o : Disturbs(o) /\ UNCHANGED crashed /\ OneFact
  <2>1. CASE incr_invalidate_call(d)
    BY <2>1 DEF incr_invalidate_call, OneFact
  <2>2. CASE abolish_table_call(d)
    <3>1. PICK o \in invalidate_call(d) : Disturbs(o)
      BY <2>2 DEF abolish_table_call
    <3>2. UNCHANGED crashed /\ OneFact
      BY <2>2 DEF abolish_table_call, OneFact
    <3> QED BY <3>1, <3>2
  <2> QED BY <1>10, <2>1, <2>2
<1>11. ASSUME NEW f \in Facts, NEW d, NEW ch, UpdateFact(f, d, ch)
       PROVE  \E o : Disturbs(o) /\ UNCHANGED crashed /\ (db' = db \/ db' = [db EXCEPT ![f] = d])
  BY <1>11 DEF UpdateFact
<1>12. ASSUME NEW f \in Facts, incr_assert(f) \/ incr_retract(f) \/ incr_retractall(f)
       PROVE  \E o : Disturbs(o) /\ UNCHANGED crashed /\ OneFact
  BY <1>11, <1>12 DEF incr_assert, incr_retract, incr_retractall, OneFact
<1>13. ASSUME NEW f \in Facts, RetryRetract(f) PROVE Onward
  BY <1>13 DEF RetryRetract, Undisturbed, OneFact
<1>14. UNCHANGED vars => UNCHANGED <<cut, overlapped, crashed, db>>
  BY DEF vars, histVars
<1> QED BY <1>2, <1>3, <1>5, <1>6, <1>7, <1>8, <1>9, <1>10, <1>12, <1>13, <1>14 DEF Next, Evaluate

\* What has been answered means, up to a disturbance or a crash.
MInv == Undisturbed /\ ~crashed => Meaning

\* Every step keeps the meaning of the answers.
LEMMA StepMeans == ASSUME IInv, SInv, KInv, NoWrap, MInv, [Next]_vars PROVE MInv'
<1> SUFFICES ASSUME Undisturbed', ~crashed' PROVE Meaning'
  BY DEF MInv
<1>0. Before /\ After
  BY StepInv, StepKeeps, StepCounts, HistoryGoesOn DEF Before, After, MInv
<1>1. ASSUME NEW g \in Goals, NewAnswer(g) PROVE Meaning'
  BY <1>0, <1>1, AnswerMeans
<1>2. ASSUME NEW g \in Goals, CallFact(g) PROVE Meaning'
  BY <1>0, <1>2, FactMeans
<1>3. ASSUME NEW g \in Goals, CallGoal(g) PROVE Meaning'
  BY <1>0, <1>3, CallGoalMeans
<1>4. ASSUME NEW c \in Caller, RunHandler(c) PROVE Meaning'
  BY <1>0, <1>4, HandlerMeans
<1>5. CASE CallQuery
  BY <1>0, <1>5, CallQueryMeans
<1>6. CASE CompleteScc
  BY <1>0, <1>6, SccMeans
<1>7. CASE CompleteTable
  BY <1>0, <1>7, CompletedMeans
<1>8. CASE Abort
  BY <1>0, <1>8, Aborts, UnwindMeans DEF Abort
<1>9. ASSUME NEW d \in Goals, Query(d) PROVE Meaning'
  <2>1. completing = <<>> /\ UNCHANGED <<graphVars, stack, completing, called, db>>
    BY <1>9 DEF Query, Idle
  <2> QED BY <1>0, <2>1, StillMeans
<1>10. ASSUME NEW d \in Goals, incr_invalidate_call(d) PROVE Meaning'
  BY <1>0, <1>10, InvalidateMeans
<1>11. ASSUME NEW d \in Goals, abolish_table_call(d) PROVE Meaning'
  BY <1>0, <1>11, AbolishMeans
<1>12. ASSUME NEW f \in Facts, incr_assert(f) \/ incr_retract(f) \/ incr_retractall(f) PROVE Meaning'
  <2>1. PICK d, ch : UpdateFact(f, d, ch)
    BY <1>12 DEF incr_assert, incr_retract, incr_retractall
  <2> QED BY <1>0, <2>1, UpdateMeans
<1>13. ASSUME NEW f \in Facts, RetryRetract(f) PROVE Meaning'
  BY <1>13 DEF RetryRetract, Undisturbed
<1>14. CASE UNCHANGED vars
  <2>1. Meaning
    BY <1>0 DEF Before
  <2>2. UNCHANGED <<db, table, call, inedges, stack, completing, called>>
    BY <1>14 DEF vars, graphVars, evalVars
  <2>3. IncompleteGoals' = IncompleteGoals /\ Range1(completing)' = Range1(completing)
    BY <2>2 DEF IncompleteGoals, Range1
  <2>4. Once' /\ CalledRead' /\ Compared'
    BY <2>1, <2>2, <2>3
       DEF Meaning, Once, CalledRead, Compared, Again, HasAnswer, Reads, LiteralGoal
  <2>5. Follows'
    BY <2>1, <2>2, <2>3 DEF Meaning, Follows, Again, IsCompleted, Reads
  <2>6. Holding' = Holding /\ Held' = Held
    BY <2>2, <2>3 DEF Holding, Held, LiteralTrue, HasAnswer, HadAnswer, Again
  <2>7. Backed'
    BY <2>1, <2>2, <2>3, <2>6 DEF Meaning, Backed, Supported, Blocked, Reads, HasAnswer
  <2>8. Right'
    BY <2>1, <2>2, <2>3, <2>6
       DEF Meaning, Right, Agrees, Supported, Blocked, Untainted, Waits, Invalid, Reads, HasAnswer, Valid, IsCompleted
  <2>9. Live' = Live /\ Proven' = Proven
    BY <2>2, <2>3 DEF Live, Proven, HasAnswer, Valid, IsCompleted
  <2>10. \A M : Closing(M)' <=> Closing(M)
    BY <2>2, <2>6, <2>9 DEF Closing, Supported, Reads
  <2>11. Derived'
    BY <2>1, <2>9, <2>10 DEF Meaning, Derived
  <2> QED BY <2>4, <2>5, <2>7, <2>8, <2>11 DEF Meaning
<1> QED BY <1>1, <1>2, <1>3, <1>4, <1>5, <1>6, <1>7, <1>8, <1>9, <1>10, <1>11, <1>12, <1>13, <1>14
        DEF Next, Evaluate

-----------------------------------------------------------------------------
(* Valid tables are right. *)

\* The facts that hold.
Given == {f \in Facts : db[f] > 0}

\* What is answered follows from the facts.
LEMMA AnswersFollow ==
  ASSUME Derived, NEW M \in SUBSET Goals, Views!Closed(Given, M)
  PROVE  Proven \subseteq M
<1>1. ASSUME NEW g \in Proven, Supported(g, (Reads(g) \cap Holding) \ (Goals \ M)) PROVE g \in M
  <2>1. (Reads(g) \cap Holding) \ (Goals \ M) \subseteq Given \cup M
    BY DEF Holding, LiteralTrue, Given, Source
  <2>2. g \in Goals
    BY <1>1 DEF Proven, Live
  <2>3. \E k \in DOMAIN Clauses[g] : \A i \in DOMAIN Clauses[g][k] : Clauses[g][k][i] \in Given \cup M
    BY <1>1, <2>1 DEF Supported
  <2> QED BY <2>2, <2>3 DEF Views!Closed
<1> QED BY <1>1 DEF Closing, Derived

\* Goals that have an answer, or may still get one.
Open == {g \in Goals : HasAnswer(g) \/ ~(Valid(g) \/ g \in Range1(completing))}

\* What a valid table has not answered does not follow from the facts.
LEMMA UnansweredClosed ==
  ASSUME IInv, SInv, Marks(call), Meaning
  PROVE  Views!Closed(Given, Open)
<1>1. Closed /\ Follows /\ Backed /\ Right /\ Range1(completing) \subseteq IncompleteGoals
      /\ IncompleteGoals \subseteq Goals /\ \A h \in IncompleteGoals : table[h] # None
  BY LiveClosed, IncompleteAreGoals DEF Meaning, IInv, Stacks, IncompleteGoals
<1> SUFFICES ASSUME NEW g \in Goals, NEW k \in DOMAIN Clauses[g],
                    \A i \in DOMAIN Clauses[g][k] : Clauses[g][k][i] \in Given \cup Open,
                    g \notin Open
             PROVE  FALSE
  BY DEF Views!Closed
<1>2. ~HasAnswer(g) /\ (Valid(g) \/ g \in Range1(completing)) /\ table[g] # None /\ g \in Live
  BY <1>1 DEF Open, Valid, IsCompleted, Live
<1>3. Blocked(g, Reads(g) \ Holding)
  BY <1>1, <1>2 DEF Backed, Right, Agrees, Valid
<1>4. PICK i \in DOMAIN Clauses[g][k] : Clauses[g][k][i] \in Reads(g) \ Holding
  BY <1>3 DEF Blocked
<1>5. PICK s : s = Clauses[g][k][i]
  OBVIOUS
<1>6. s \in Reads(g) /\ s \in Source /\ ~LiteralTrue(s) /\ s \in Given \cup Open
  BY <1>2, <1>4, <1>5, ReadsTables DEF Holding
<1>7. s \in Goals /\ ~HasAnswer(s) /\ s \in Open
  BY <1>6, CallGraphAssumption DEF Given, Open, LiteralTrue, Source
<1>8. s \in IncompleteGoals /\ s \notin Range1(completing)
  BY <1>1, <1>2, <1>6, <1>7 DEF Closed, Live, Open
<1>9. CASE g \in Range1(completing)
  BY <1>1, <1>6, <1>8, <1>9 DEF Follows
<1>10. CASE Valid(g)
  <2>1. Again(s)
    BY <1>1, <1>6, <1>8, <1>10 DEF Follows, Valid
  <2>2. s \in Waits(call, table[g])
    BY <1>1, <1>6, <1>7, <1>8, <2>1 DEF Waits, Invalid, Again, Reads
  <2>3. Waits(call, table[g]) \subseteq Range1(completing)
    BY <1>10 DEF Marks, Counted, Valid
  <2> QED BY <1>8, <2>2, <2>3
<1> QED BY <1>2, <1>9, <1>10

\* Valid tables are right for the facts.
LEMMA ViewsRight ==
  IInv /\ SInv /\ KInv /\ MInv =>
      \A g \in Goals : Undisturbed /\ ~crashed /\ Valid(g) => (HasAnswer(g) = (g \in Views!LeastModel(db)))
<1> SUFFICES ASSUME IInv, SInv, KInv, MInv, NEW g \in Goals, Undisturbed, ~crashed, Valid(g)
             PROVE  HasAnswer(g) = (g \in Views!LeastModel(db))
  OBVIOUS
<1>1. Meaning /\ Marks(call) /\ Derived
  BY DEF MInv, KInv, Meaning
<1>2. Views!LeastModel(db) = {h \in Goals : \A M \in SUBSET Goals : Views!Closed(Given, M) => h \in M}
  <2>1. Given \in SUBSET Facts
    BY DEF Given
  <2> QED BY <2>1 DEF Views!LeastModel, Views!Models, Given
<1>3. ASSUME HasAnswer(g) PROVE g \in Views!LeastModel(db)
  <2>1. g \in Proven
    BY <1>3 DEF Proven, Live
  <2> QED BY <1>1, <1>2, <2>1, AnswersFollow
<1>4. ASSUME g \in Views!LeastModel(db) PROVE HasAnswer(g)
  <2>1. Open \in SUBSET Goals /\ Views!Closed(Given, Open)
    BY <1>1, UnansweredClosed DEF Open
  <2>2. g \in Open
    BY <1>2, <1>4, <2>1
  <2> QED BY <2>2 DEF Open
<1>5. HasAnswer(g) \in BOOLEAN
  BY DEF HasAnswer
<1> QED BY <1>3, <1>4, <1>5

-----------------------------------------------------------------------------
\* Incremental tabling implements materialised views of the facts (TableViews), for
\* every program: whatever is updated, called, computed again, validated, abolished or
\* aborted, each step leaves only tables that are right for the facts, as long as
\* falsecount cannot wrap, up to the first disturbance or crash (incr_xsb.c,
\* call_graph_xsb.c, increval.P).
THEOREM ViewsImplemented == ASSUME NoWrap PROVE Spec => ImplementsViews
<1>1. IInv /\ SInv /\ KInv /\ MInv /\ [Next]_vars => (IInv /\ SInv /\ KInv /\ MInv)'
  BY StepInv, StepKeeps, StepCounts, StepMeans
<1>2. Init => IInv /\ SInv /\ KInv /\ MInv /\ Views!ViewInit
  <2>1. Init => IInv /\ SInv /\ KInv /\ MInv
    BY InitInv, InitUnlinked, InitCounts, InitMeans DEF MInv
  <2>2. Init => Views!ViewInit
    <3> SUFFICES ASSUME Init PROVE Views!ViewInit
      OBVIOUS
    <3>1. \A g \in Goals : ~Valid(g)
      BY DEF Init, Valid, IsCompleted
    <3>2. {0, MaxClauses} \subseteq Nat
      BY CallGraphAssumption
    <3>3. db \in [Facts -> Nat]
      BY <3>2 DEF Init
    <3> QED BY <3>1, <3>3 DEF Views!ViewInit
  <2> QED BY <2>1, <2>2
<1>3. IInv /\ SInv /\ KInv /\ MInv /\ [Next]_vars => [Views!ViewNext]_(Views!viewVars)
  <2> SUFFICES ASSUME IInv, SInv, KInv, MInv, [Next]_vars PROVE Views!ViewNext
    OBVIOUS
  <2>1. IInv' /\ SInv' /\ KInv' /\ MInv'
    BY <1>1
  <2>2. (IInv /\ SInv /\ KInv /\ MInv =>
           \A g \in Goals : Undisturbed /\ ~crashed /\ Valid(g) => (HasAnswer(g) = (g \in Views!LeastModel(db))))'
    BY ViewsRight, PTL
  <2>3. \A g \in Goals : Undisturbed' /\ ~crashed' /\ Valid(g)' => (HasAnswer(g)' = (g \in Views!LeastModel(db')))
    BY <2>1, <2>2
  <2> QED BY <2>3, HistoryGoesOn DEF Views!ViewNext, OneFact
<1> QED BY <1>1, <1>2, <1>3, PTL DEF Spec, ImplementsViews, Views!ViewSpec
==============================================================================
