----------------------------- MODULE MCCallGraph -----------------------------
(***************************************************************************)
(* Instances of CallGraph: one fact ff and three goals that depend on it   *)
(* along several paths.  A second clause of ff changes no answer, which is *)
(* when an invalidation is taken back.                                     *)
(***************************************************************************)
EXTENDS CallGraph, TLC

CONSTANTS ff, gx, gp, gs

MCFacts == {ff}
MCGoals == {gx, gp, gs}

\* An SCC of gx and gs below gp, which depends on gs only while gx has an answer;
\* gs depends on gx only while ff is there, so that a completed gx can be found to
\* depend on a gs that is being evaluated again.
SccBelow == (gx :> << <<ff>>, <<gs>> >>) @@ (gs :> << <<ff, gx>> >>) @@ (gp :> << <<gx, gs>> >>)
=============================================================================
