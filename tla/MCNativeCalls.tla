--------------------------- MODULE MCNativeCalls ---------------------------
(* Instances of the call boundary for TLC: functions that call one another, with
   every kind of exit behind and below the calls. *)
EXTENDS NativeCalls

MCFunctions == {"main", "mid", "leaf", "plain"}

I(op, g) == [op |-> op, callee |-> g]

\* plain is left to the interpreter.
Program(c, d, g, y, z) ==
  [main |-> <<I(c, "mid"), I("closure", "leaf")>>,
   mid |-> <<I(d, g), I(y, "leaf")>>,
   leaf |-> <<I("access", "plain"), I(z, "plain")>>,
   plain |-> <<I(d, "leaf"), I("closure", "leaf")>>]

Calls == {"call", "tailcall"}
Others == {"closure", "close", "loop", "setupval", "host"}

MCPrograms ==
  {Program(c, d, g, y, z) :
     c \in Calls, d \in Calls, g \in {"leaf", "plain"},
     y \in {"closure", "meta"}, z \in Others}
=============================================================================
