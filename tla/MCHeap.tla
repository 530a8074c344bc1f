------------------------------- MODULE MCHeap -------------------------------
(* The heap on an arena of eleven aligned cells, the first one reserved. *)
EXTENDS Heap
=============================================================================
