--------------------------- MODULE MCMessageQueue ---------------------------
(***************************************************************************)
(* Instances of MessageQueue.  Threads are interchangeable.                 *)
(***************************************************************************)
EXTENDS TLC, MessageQueue

Interchangeable == Permutations(Thread)
=============================================================================
