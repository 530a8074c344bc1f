------------------------- MODULE CollectorInvariant -------------------------
(***************************************************************************)
(* Why the collector is safe for clear programs: the inductive invariant,  *)
(* in parts.  CollectorProofs shows that every step preserves it and that  *)
(* it implies the safety properties of Collector.                          *)
(***************************************************************************)
EXTENDS Collector

Sweeping == phase \in {"sweepStrings", "sweepObjects"}

\* The objects the cycle in progress will not free.
Kept == {o \in Offsets : IsObject(o) /\ (Sweeping => ~Dead(o))}

SweepBegun == phase = "sweepObjects" /\ walk.active

\* Spans the sweep has yet to visit.
Ahead(o) == SweepBegun => walk.cursor < o /\ o <= walk.limit

Bookkeeping ==
  /\ \A o \in Offsets : kind[o] # "free" => o <= spanCount
  /\ \A o \in Offsets : ~IsObject(o) => strong[o] = None /\ cell[o] = None /\ data[o] = None
  /\ walk.limit <= spanCount
  /\ phase \notin {"pause", "sweepObjects"} => walk = Idle
  /\ ~SweepBegun => sweepPending = {}

\* Which marks an object may carry in each phase: gray objects are queued, and
\* after the flip an object that the sweep has passed has the current white.
Marks ==
  \A o \in Offsets : IsObject(o) =>
    /\ phase = "pause" => mark[o] = {currentWhite}
    /\ phase = "mark" => mark[o] = {currentWhite} \/ (mark[o] = {"gray"} /\ o \in gray)
    /\ phase = "atomic" => \/ mark[o] \in {{currentWhite}, {"black"}}
                           \/ mark[o] = {"gray"} /\ o \in grayAgain
    /\ Sweeping => mark[o] \in {{currentWhite}, {OtherWhite}, {"black"}}
    /\ SweepBegun /\ ~Ahead(o) => mark[o] = {currentWhite}

\* The kept objects contain the roots and are closed under references, and
\* while the program runs between mark and atomic no black object refers to a
\* white one.
Graph ==
  /\ roots \subseteq Kept
  /\ \A o \in Kept : Children(o) \subseteq Kept
  /\ phase = "atomic" =>
       \A o \in Offsets : IsObject(o) /\ mark[o] = {"black"} =>
         \A c \in Children(o) : mark[c] # {currentWhite}

\* A kept closure's cell holds an object; one the sweep will free is held only
\* by closures that the scrub will visit before anything is freed.
Cells ==
  \A o \in Kept : kind[o] = "closure" /\ cell[o] # None =>
    /\ IsObject(cell[o])
    /\ phase = "atomic" /\ mark[o] = {"black"} => o \in weakOwners
    /\ Sweeping => cell[o] \in Kept \/ (o \in weakOwners /\ ~SweepBegun)

\* The intern table and the kept strings determine each other, and once the
\* dead entries are swept the table holds kept strings only.
Strings ==
  /\ InternedLive
  /\ \A o \in Kept : kind[o] = "string" => text[o] \in Texts /\ interned[text[o]] = o
  /\ phase = "sweepObjects" => \A t \in Texts : interned[t] # None => interned[t] \in Kept

\* Payloads the sweep will free when it reaches them.
Condemned(d) ==
  d \in sweepPending \/ \E x \in Offsets : IsObject(x) /\ Dead(x) /\ d \in sweepPayloads[x]

\* A kept table and its array refer to each other; any other payload is still
\* ahead of the sweep and condemned; and what is condemned ahead of the sweep
\* is no kept table's array, whoever has its owner's offset now.
Arrays ==
  /\ \A o \in Kept : data[o] # None => kind[data[o]] = "payload" /\ owner[data[o]] = o
  /\ \A d \in Offsets : kind[d] = "payload" =>
       /\ owner[d] # None
       /\ \/ owner[d] \in Kept /\ data[owner[d]] = d
          \/ /\ Sweeping /\ Ahead(d)
             /\ \/ SweepBegun /\ d \in sweepPending
                \/ /\ IsObject(owner[d]) /\ Dead(owner[d])
                   /\ SweepBegun => d \in sweepPayloads[owner[d]]
  /\ SweepBegun => \A d \in Offsets : Condemned(d) /\ Ahead(d) =>
       kind[d] = "payload" /\ (owner[d] \in Kept => data[owner[d]] # d)

IInv == TypeOK /\ Bookkeeping /\ Marks /\ Graph /\ Cells /\ Strings /\ Arrays
=============================================================================
