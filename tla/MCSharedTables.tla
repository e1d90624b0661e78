--------------------------- MODULE MCSharedTables ---------------------------
(***************************************************************************)
(* Instances of SharedTables.                                              *)
(***************************************************************************)
EXTENDS SharedTables, TLC

CONSTANTS t1, t2, t3, ga, gb, gc, gd, gm, gp

\* Four mutually dependent tables, and two that are completed by themselves: gp while a
\* thread that called it may still be on its way out of its wait, gm while a leader that
\* called it has not come to all the tables it has usurped.
SixTables == {ga, gb, gc, gd, gm, gp}
SixCalls ==
    (ga :> <<gb, gm>>) @@ (gb :> <<ga, gp, gc>>) @@ (gc :> <<gp, gd>>) @@ (gd :> <<gb>>)
    @@ (gm :> <<>>) @@ (gp :> <<>>)

\* The calls with which the three threads begin.
ThreeGoals == (t1 :> {ga}) @@ (t2 :> {gd}) @@ (t3 :> {gm, gc})

\* Two cycles of two tables, called by threads that are interchangeable.
FourTables == {ga, gb, gc, gd}
TwoCycles == (ga :> <<gb>>) @@ (gb :> <<ga>>) @@ (gc :> <<gd>>) @@ (gd :> <<gc>>)
AnyGoal == [t \in Thread |-> Table]

Interchangeable == Permutations(Thread)
=============================================================================
