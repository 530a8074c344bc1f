-------------------------- MODULE CollectorGarbage --------------------------
(***************************************************************************)
(* The collector with a history variable: doomed, the objects that were    *)
(* already unreachable when the cycle in progress shaded its roots.  It    *)
(* bounds how much garbage an incremental cycle may leave behind: what     *)
(* dies during the cycle may float to the next one, what was dead before   *)
(* the cycle marked must not.                                              *)
(***************************************************************************)
EXTENDS Collector

VARIABLE doomed

garbageVars == <<vars, doomed>>

GarbageInit == Init /\ doomed = {}

\* Interning a doomed string brings it back, which clear programs can only do
\* before the atomic step; any offset a sweep frees is no longer doomed.
Reprieved == doomed \ (roots' \cup {o \in Offsets : kind'[o] = "free"})

Remember == doomed' = IF phase = "pause" /\ phase' = "mark" THEN Objects \ Reachable ELSE Reprieved

GarbageNext == ClearNext /\ Remember

GarbageSpec == GarbageInit /\ [][GarbageNext]_garbageVars

\* One cycle is enough: an object that was unreachable when the roots were
\* shaded is freed before the collector pauses again, even though the program
\* ran, allocated into recycled offsets and fired barriers in between
\* (stepOnce, RunAtomic, sweepSpansStep).
GarbageFreed == phase = "pause" => doomed = {}
=============================================================================
