--------------------------- MODULE MCHostRegistry ---------------------------
(* An instance of the host registry for TLC: a Go function, which may be
   registered as a function and as an object, so that an object with an address
   and an entry that never owns that address share it. *)
EXTENDS HostRegistry, TLC

CONSTANTS fn, fnAddress

Identity == fn :> fnAddress

(* A bound: only the descriptors of objects change. *)
ObjectsChange == [object |-> 2, function |-> 1]
=============================================================================
