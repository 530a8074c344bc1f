---------------------------- MODULE MCCollector -----------------------------
(* An instance of the collector for TLC: the clear program with the history  *)
(* of what was garbage and with the pacing of the collector's steps.         *)
EXTENDS CollectorInvariant, Pacing

\* Bound: closures, whose cells need one other object, meet two spans, and
\* tables, strings and arrays three.
ClosuresBelow == spanCount <= 2 \/ Live("closure") = {}

\* Bound: an assisted engine, whose behaviours are some of those of an engine
\* without one, carves two spans and makes no closure.
AssistedBelow == ~Assisted \/ (spanCount <= 2 /\ Live("closure") = {})
=============================================================================
