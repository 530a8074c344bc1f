-------------------------------- MODULE Calls --------------------------------
(***************************************************************************)
(* What a call promises, however it is executed: a stack of activations,   *)
(* each at an instruction of its function.  An instruction is executed     *)
(* once, a call invokes its callee once and continues when the callee      *)
(* returns, and an error takes activations off the stack one by one until  *)
(* a host function that protected its call, or the host, has it.           *)
(***************************************************************************)
EXTENDS Naturals, Sequences

CONSTANTS Functions, Programs

VARIABLES program, stack, failing

Ops == {"access", "meta", "closure", "close", "loop", "setupval", "call", "tailcall", "host"}
Instruction == [op : Ops, callee : Functions]

Frame == [fn : Functions, pc : Nat \ {0}]

Code(frame) == program[frame.fn]
AtEnd(frame) == frame.pc > Len(Code(frame))
OpOf(frame) == Code(frame)[frame.pc].op
IsAt(frame, ops) == ~AtEnd(frame) /\ OpOf(frame) \in ops

Start(g) == [fn |-> g, pc |-> 1]
Past(frame) == [frame EXCEPT !.pc = @ + 1]
Ended(frame) == [frame EXCEPT !.pc = Len(Code(frame)) + 1]

\* The caller once its callee has returned: a tail call returns in its turn, a
\* host function goes on running.
Resumed(caller) ==
  CASE IsAt(caller, {"tailcall"}) -> Ended(caller)
    [] IsAt(caller, {"host"}) -> caller
    [] OTHER -> Past(caller)

Depth == Len(stack)
Callers == SubSeq(stack, 1, Depth - 1)

TypeOK == program \in Programs /\ stack \in Seq(Frame) /\ failing \in BOOLEAN

Init == program \in Programs /\ stack = <<>> /\ failing = FALSE

Begin == stack = <<>> /\ \E g \in Functions : stack' = <<Start(g)>>

Invoke ==
  /\ stack # <<>>
  /\ \/ /\ IsAt(stack[Depth], {"call", "tailcall", "meta"})
        /\ stack' = Append(stack, Start(Code(stack[Depth])[stack[Depth].pc].callee))
     \/ /\ IsAt(stack[Depth], {"host"})
        /\ \E g \in Functions : stack' = Append(stack, Start(g))

Advance ==
  /\ stack # <<>>
  /\ IsAt(stack[Depth], Ops \ {"call", "tailcall", "meta"})
  /\ stack' = [stack EXCEPT ![Depth] = Past(@)]

Return ==
  /\ stack # <<>>
  /\ AtEnd(stack[Depth])
  /\ stack' = IF Depth = 1 THEN <<>>
              ELSE [Callers EXCEPT ![Depth - 1] = Resumed(@)]

\* An instruction fails, or the collector's work after it.
Fail ==
  /\ ~failing
  /\ stack # <<>>
  /\ failing' = TRUE
  /\ UNCHANGED <<program, stack>>

\* The caller cannot take the results; its call has failed.
Reject ==
  /\ ~failing
  /\ Depth > 1
  /\ AtEnd(stack[Depth])
  /\ IsAt(stack[Depth - 1], {"call", "meta"})
  /\ stack' = Callers
  /\ failing' = TRUE
  /\ UNCHANGED program

Unwind == failing /\ stack # <<>> /\ stack' = Callers /\ UNCHANGED <<program, failing>>

Caught ==
  /\ failing
  /\ stack = <<>> \/ IsAt(stack[Depth], {"host"})
  /\ failing' = FALSE
  /\ UNCHANGED <<program, stack>>

Step == ~failing /\ (Begin \/ Invoke \/ Advance \/ Return) /\ UNCHANGED <<program, failing>>

Next == Step \/ Fail \/ Reject \/ Unwind \/ Caught

Spec == Init /\ [][Next]_<<program, stack, failing>>
=============================================================================
