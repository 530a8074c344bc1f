------------------------------ MODULE Liveness ------------------------------
(***************************************************************************)
(* The live slots of a prototype, by going over its instructions until     *)
(* nothing changes.                                                        *)
(***************************************************************************)
EXTENDS Bytecode

RECURSIVE LiveFrom(_, _)
LiveFrom(p, live) ==
  LET next == [pc \in 0..Size(p) |->
                 IF pc = Size(p) \/ At(p, pc).op = "EXTRA" THEN NothingLive
                 ELSE Transfer(p, pc, live)]
  IN IF next = live THEN live ELSE LiveFrom(p, next)

(* At first nothing is live. *)
LiveSlotSets(p) == LiveFrom(p, [pc \in 0..Size(p) |-> NothingLive])
=============================================================================
