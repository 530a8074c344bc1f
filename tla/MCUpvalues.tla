----------------------------- MODULE MCUpvalues -----------------------------
(* An instance of the open upvalue lists for TLC: three registers on one thread
   and one on a second thread. *)
EXTENDS Upvalues, TLC

CONSTANTS t1, t2

TwoThreads == (t1 :> 3) @@ (t2 :> 1)

(* A bound: the third cell is there to make a list of three, with a cell that
   goes between two others; behaviours of several frames, of a second thread
   or of closed cells do with two. *)
ThirdCellInList ==
  cells[3].state # "free" =>
    /\ cells[3].state = "open" /\ Len(frames) < 2 /\ closures = {}
    /\ \A i \in DOMAIN frames : frames[i].thread = t1
    /\ \A c \in Cells : cells[c].thread # t2
=============================================================================
