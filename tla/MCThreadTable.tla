--------------------------- MODULE MCThreadTable ----------------------------
(***************************************************************************)
(* Instances of ThreadTable.  The threads that are still to be created are  *)
(* interchangeable.  A disturbed table is not followed any further: the     *)
(* properties speak of the time before.                                     *)
(***************************************************************************)
EXTENDS TLC, ThreadTable

Interchangeable == Permutations(Thread \ {Main, Past})

Undisturbed == ~disturbed
=============================================================================
