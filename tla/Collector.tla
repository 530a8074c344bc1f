------------------------------ MODULE Collector ------------------------------
(***************************************************************************)
(* The incremental tri-colour collector of internal/runtime/gc, the heap's *)
(* write barrier and queues, and the program that runs between two steps   *)
(* of it: Go runtime code, which calls the barrier, and native code, which *)
(* decides from a flag in the VM header whether it has to.                 *)
(*                                                                         *)
(* An offset is a position in the heap's walk order (module Heap shows that*)
(* the order enumerates the spans, each once).  An object has at most one  *)
(* strong reference, standing for a table's metatable, array and hash      *)
(* slots or a closure's environment, prototype and upvalues; a closure has *)
(* one feedback cell, a weak reference; a table has at most one payload    *)
(* span, its array.  The roots are the offsets the scanner visits:         *)
(* external roots, frames, open upvalues, descriptors and prototypes.      *)
(*                                                                         *)
(* The steps of the collector visit one span at a time; a chunk of the     *)
(* budgeted walk is several such steps with no program step in between.    *)
(***************************************************************************)
EXTENDS Naturals, FiniteSets

CONSTANTS
  MaxSpans,    \* bound on the spans the heap ever carves
  MaxClosures, \* bound on the closures alive at once
  MaxArrays,   \* bound on the array payloads alive at once
  Kinds,       \* the kinds of object the program allocates
  Texts,       \* the texts the program interns
  NoText

ASSUME CollectorAssumption ==
  /\ MaxSpans \in Nat /\ MaxClosures \in Nat /\ MaxArrays \in Nat
  /\ Kinds \subseteq {"table", "closure"}
  /\ NoText \notin Texts

Offsets == 1..MaxSpans
None == 0
Ref == Offsets \cup {None}

Phases == {"pause", "mark", "atomic", "sweepStrings", "sweepObjects"}
Whites == {"white0", "white1"}

VARIABLES
  kind,          \* kind of the live span at an offset, or "free"
  mark,          \* mark bits of the object header
  strong,        \* the object's strong reference
  cell,          \* the closure's feedback cell
  data,          \* the table's array payload
  owner,         \* owner recorded in a payload's span metadata
  text,          \* the text of a string object
  interned,      \* InternTable.refs
  roots,         \* what the scanner will visit
  spanCount,     \* spans carved so far
  phase, currentWhite,
  gray, grayAgain,
  weakOwners,    \* weak queue, with the owners of the recorded weak edges
  walk,          \* cursor of the mark reset (pause) or of the sweep
  sweepPayloads, \* payloads each owner had when the sweep began
  sweepPending   \* payloads of owners this sweep has freed

spanVars == <<kind, mark, strong, cell, data, owner, text, spanCount>>
gcVars == <<phase, currentWhite, gray, grayAgain, weakOwners, walk,
            sweepPayloads, sweepPending>>
vars == <<spanVars, interned, roots, gcVars>>

IsObject(o) == kind[o] \in {"table", "closure", "string"}
Objects == {o \in Offsets : IsObject(o)}

OtherWhite == IF currentWhite = "white1" THEN "white0" ELSE "white1"

Idle == [active |-> FALSE, cursor |-> 0, limit |-> 0]

TypeOK ==
  /\ kind \in [Offsets -> {"free", "table", "closure", "string", "payload"}]
  /\ mark \in [Offsets -> SUBSET (Whites \cup {"gray", "black"})]
  /\ strong \in [Offsets -> Ref]
  /\ cell \in [Offsets -> Ref]
  /\ data \in [Offsets -> Ref]
  /\ owner \in [Offsets -> Ref]
  /\ text \in [Offsets -> Texts \cup {NoText}]
  /\ interned \in [Texts -> Ref]
  /\ roots \subseteq Offsets
  /\ spanCount \in 0..MaxSpans
  /\ phase \in Phases
  /\ currentWhite \in Whites
  /\ gray \subseteq Offsets
  /\ grayAgain \subseteq Offsets
  /\ weakOwners \subseteq Offsets
  /\ walk \in [active : BOOLEAN, cursor : 0..MaxSpans, limit : 0..MaxSpans]
  /\ sweepPayloads \in [Offsets -> SUBSET Offsets]
  /\ sweepPending \subseteq Offsets

Init ==
  /\ kind = [o \in Offsets |-> "free"]
  /\ mark = [o \in Offsets |-> {}]
  /\ strong = [o \in Offsets |-> None]
  /\ cell = [o \in Offsets |-> None]
  /\ data = [o \in Offsets |-> None]
  /\ owner = [o \in Offsets |-> None]
  /\ text = [o \in Offsets |-> NoText]
  /\ interned = [t \in Texts |-> None]
  /\ roots = {}
  /\ spanCount = 0
  /\ phase = "pause"
  /\ currentWhite = "white0"
  /\ gray = {}
  /\ grayAgain = {}
  /\ weakOwners = {}
  /\ walk = Idle
  /\ sweepPayloads = [o \in Offsets |-> {}]
  /\ sweepPending = {}

-----------------------------------------------------------------------------
(* The program between two collector steps                                 *)

\* An allocation takes a free span that fits or carves a new one at the end
\* of the walk order; sizes are left to module Heap.
Allocatable == {o \in Offsets : o <= spanCount + 1 /\ kind[o] = "free"}
Carve(o) == spanCount' = IF o = spanCount + 1 THEN o ELSE spanCount

\* A new object is white with the current white, and is published (to a
\* register or the external roots) before the collector may run again.
PlaceObject(o, k, t) ==
  /\ o \in Allocatable
  /\ Carve(o)
  /\ kind' = [kind EXCEPT ![o] = k]
  /\ mark' = [mark EXCEPT ![o] = {currentWhite}]
  /\ text' = [text EXCEPT ![o] = t]
  /\ roots' = roots \cup {o}
  /\ UNCHANGED <<strong, cell, data, owner, gcVars>>

Live(k) == {o \in Offsets : kind[o] = k}

NewObject ==
  \E o \in Offsets, k \in Kinds :
    /\ k = "closure" => Cardinality(Live(k)) < MaxClosures
    /\ PlaceObject(o, k, NoText)
    /\ UNCHANGED interned

\* Interning a known text hands out the table's string as it stands.
InternExisting(t) ==
  /\ interned[t] # None
  /\ IsObject(interned[t])
  /\ roots' = roots \cup {interned[t]}
  /\ UNCHANGED <<spanVars, interned, gcVars>>

InternNew(t) ==
  /\ interned[t] = None
  /\ \E o \in Offsets : /\ PlaceObject(o, "string", t)
                        /\ interned' = [interned EXCEPT ![t] = o]

\* A register is overwritten, a frame returns, an external root is released.
DropRoot ==
  \E o \in roots :
    /\ roots' = roots \ {o}
    /\ UNCHANGED <<spanVars, interned, gcVars>>

Load ==
  \E o \in roots :
    /\ strong[o] # None
    /\ roots' = roots \cup {strong[o]}
    /\ UNCHANGED <<spanVars, interned, gcVars>>

\* Slip: the barrier is thought to matter while the mark phase lasts only.
BarrierFiresInMark(p, c) ==
  phase = "mark" /\ c # None /\ "black" \in mark[p] /\ currentWhite \in mark[c]

\* Heap.writeBarrier: a black parent that gets a white child while marking is
\* regrayed and queued for the atomic step.
BarrierFires(p, c) ==
  /\ phase \in {"mark", "atomic"}
  /\ c # None
  /\ "black" \in mark[p]
  /\ currentWhite \in mark[c]

WriteBarrier(p, c) ==
  IF BarrierFires(p, c)
  THEN /\ mark' = [mark EXCEPT ![p] = (@ \cup {"gray"}) \ {"black"}]
       /\ grayAgain' = grayAgain \cup {p}
  ELSE UNCHANGED <<mark, grayAgain>>

Mutable(p) == p \in roots /\ kind[p] \in {"table", "closure"}

StoreField(p, c) ==
  /\ Mutable(p)
  /\ c \in roots \cup {None}
  /\ strong' = [strong EXCEPT ![p] = c]
  /\ UNCHANGED <<kind, cell, data, owner, text, spanCount, interned, roots, phase,
                 currentWhite, gray, weakOwners, walk, sweepPayloads, sweepPending>>

\* Go code: table Set, closure SetEnv, upvalue Set, wrapper SetEnv.
Store == \E p \in Offsets, c \in Ref : StoreField(p, c) /\ WriteBarrier(p, c)

\* syncHeader refreshes the flag each time native code is entered, and the
\* collector does not step while native code runs.
GCMarkingFlag == phase = "mark"

\* A cached native store: with the flag set it leaves for the Go runtime,
\* without it it writes the slot and calls no barrier.
NativeStore(p, c) ==
  /\ StoreField(p, c)
  /\ IF GCMarkingFlag THEN WriteBarrier(p, c) ELSE UNCHANGED <<mark, grayAgain>>

\* A table outgrows its array: a new payload is written and linked, and the
\* old one is released, in one call.
GrowArray ==
  \E p \in roots, d \in Offsets :
    /\ kind[p] = "table"
    /\ d \in Allocatable
    /\ Cardinality(Live("payload")) < MaxArrays
    /\ Carve(d)
    /\ kind' = [o \in Offsets |-> IF o = d THEN "payload"
                                  ELSE IF o = data[p] THEN "free" ELSE kind[o]]
    /\ owner' = [o \in Offsets |-> IF o = d THEN p
                                   ELSE IF o = data[p] THEN None ELSE owner[o]]
    /\ data' = [data EXCEPT ![p] = d]
    /\ UNCHANGED <<mark, strong, cell, text, interned, roots, gcVars>>

WriteCell(o, c) ==
  /\ o \in roots /\ kind[o] = "closure"
  /\ c \in roots
  /\ cell' = [cell EXCEPT ![o] = c]
  /\ UNCHANGED <<kind, mark, strong, data, owner, text, spanCount, interned, roots, phase,
                 currentWhite, gray, grayAgain, walk, sweepPayloads, sweepPending>>

\* Store.WriteFeedbackCell remembers the closure during a cycle.
UpdateCell ==
  \E o, c \in Offsets :
    /\ WriteCell(o, c)
    /\ weakOwners' = IF phase = "pause" THEN weakOwners ELSE weakOwners \cup {o}

\* The native inline caches write the cell and remember nothing.
NativeUpdateCell(o, c) == WriteCell(o, c) /\ UNCHANGED weakOwners

\* Steps of the program with nothing held back: the code as it is.
Intern == \E t \in Texts : InternExisting(t) \/ InternNew(t)
StoreNatively == \E p \in Offsets, c \in Ref : NativeStore(p, c)
UpdateCellNatively == \E o, c \in Offsets : NativeUpdateCell(o, c)

-----------------------------------------------------------------------------
(* Tracing                                                                 *)

Children(o) == {c \in {strong[o]} : c # None /\ IsObject(o)}

\* shadeGray does nothing to an object that is already gray or black.
Shadeable(o) == currentWhite \in mark[o] /\ "gray" \notin mark[o] /\ "black" \notin mark[o]

\* T contains what a propagation from the queue q blackens: the gray objects
\* of q and, from each object traced, the white ones it refers to.
TraceClosed(q, T) ==
  /\ \A o \in q : "gray" \in mark[o] \/ Shadeable(o) => o \in T
  /\ \A o \in T : \A c \in Children(o) : Shadeable(c) => c \in T

Traced(q) == {o \in Offsets : \A T \in SUBSET Offsets : TraceClosed(q, T) => o \in T}

\* Tracing a closure records it when its feedback cell holds a reference.
Blacken(T) ==
  /\ mark' = [o \in Offsets |-> IF o \in T THEN {"black"} ELSE mark[o]]
  /\ weakOwners' = weakOwners \cup {o \in T : kind[o] = "closure" /\ cell[o] # None}

-----------------------------------------------------------------------------
(* Collector.stepOnce, one action per phase                                *)

\* SeedRoots: the scanner shades the white objects among the roots.
Seeded(marks) ==
  {o \in roots : currentWhite \in marks[o] /\ "gray" \notin marks[o] /\ "black" \notin marks[o]}

\* Pause: the marks of all live objects are reset to the current white, span
\* by span; with the last one the phase becomes mark and the roots are shaded.
PrepareStep ==
  LET w == IF walk.active THEN walk
           ELSE [active |-> TRUE, cursor |-> 0, limit |-> spanCount]
      next == IF w.cursor < w.limit THEN w.cursor + 1 ELSE w.limit
      reset == [o \in Offsets |-> IF o = next /\ IsObject(o) THEN {currentWhite} ELSE mark[o]]
      seeded == Seeded(reset)
  IN  /\ phase = "pause"
      /\ grayAgain' = {}
      /\ weakOwners' = IF walk.active THEN weakOwners ELSE {}
      /\ IF next < w.limit
         THEN /\ mark' = reset
              /\ walk' = [w EXCEPT !.cursor = next]
              /\ gray' = {}
              /\ UNCHANGED phase
         ELSE /\ mark' = [o \in Offsets |-> IF o \in seeded THEN {"gray"} ELSE reset[o]]
              /\ walk' = Idle
              /\ gray' = seeded
              /\ phase' = "mark"
      /\ UNCHANGED <<kind, strong, cell, data, owner, text, spanCount, interned, roots,
                     currentWhite, sweepPayloads, sweepPending>>

\* Mark: the gray queue is emptied in one step.
MarkStep ==
  /\ phase = "mark"
  /\ Blacken(Traced(gray))
  /\ gray' = {}
  /\ phase' = "atomic"
  /\ UNCHANGED <<kind, strong, cell, data, owner, text, spanCount, interned, roots,
                 currentWhite, grayAgain, walk, sweepPayloads, sweepPending>>

\* RunAtomic: the roots are scanned again, the regrayed parents traced again,
\* and what is still white becomes the dead white.  The rounds of its loop
\* blacken together what one propagation from all the queues does.
AtomicStep ==
  /\ phase = "atomic"
  /\ Blacken(Traced(roots \cup gray \cup grayAgain))
  /\ gray' = {}
  /\ grayAgain' = {}
  /\ currentWhite' = OtherWhite
  /\ phase' = "sweepStrings"
  /\ UNCHANGED <<kind, strong, cell, data, owner, text, spanCount, interned, roots,
                 walk, sweepPayloads, sweepPending>>

\* Slip: strings are left to the intern table.
DeadUnlessString(o) ==
  OtherWhite \in mark[o] /\ "gray" \notin mark[o] /\ "black" \notin mark[o] /\ kind[o] # "string"

\* Once the white has flipped, a dead object is one still in the other white.
Dead(o) == OtherWhite \in mark[o] /\ "gray" \notin mark[o] /\ "black" \notin mark[o]
DeadOrStale(o) == ~IsObject(o) \/ Dead(o)

\* Slip: an entry survives only if this cycle marked its string.
SweepUnmarkedStrings ==
  /\ phase = "sweepStrings"
  /\ interned' = [t \in Texts |-> IF interned[t] # None /\ "black" \notin mark[interned[t]]
                                  THEN None ELSE interned[t]]
  /\ phase' = "sweepObjects"
  /\ UNCHANGED <<spanVars, roots, currentWhite, gray, grayAgain, weakOwners, walk,
                 sweepPayloads, sweepPending>>

\* Slip: the table is left to the object sweep.
SweepNoStrings ==
  /\ phase = "sweepStrings"
  /\ phase' = "sweepObjects"
  /\ UNCHANGED <<spanVars, interned, roots, currentWhite, gray, grayAgain, weakOwners, walk,
                 sweepPayloads, sweepPending>>

SweepStringsStep ==
  /\ phase = "sweepStrings"
  /\ interned' = [t \in Texts |-> IF interned[t] # None /\ Dead(interned[t])
                                  THEN None ELSE interned[t]]
  /\ phase' = "sweepObjects"
  /\ UNCHANGED <<spanVars, roots, currentWhite, gray, grayAgain, weakOwners, walk,
                 sweepPayloads, sweepPending>>

\* Slip: the scrub looks for freed targets only, not for those about to be freed.
ScrubbedStale(cells, owners) ==
  [o \in Offsets |-> IF o \in owners /\ kind[o] = "closure" /\ cells[o] # None
                        /\ ~IsObject(cells[o])
                     THEN None ELSE cells[o]]

\* scrubWeakEdges: a cell of a remembered closure that holds a dead or stale
\* reference is reset.
Scrubbed(cells, owners) ==
  [o \in Offsets |-> IF o \in owners /\ kind[o] = "closure" /\ cells[o] # None
                        /\ DeadOrStale(cells[o])
                     THEN None ELSE cells[o]]

\* Slip: a payload survives only if the sweep has already whitened its owner.
DiesUnlessWhite(o) ==
  \/ IsObject(o) /\ Dead(o)
  \/ kind[o] = "payload" /\ (\/ o \in sweepPending
                             \/ owner[o] # None /\ currentWhite \notin mark[owner[o]])

\* Slip: a payload is judged by its owner's offset alone.
DiesWithOwner(o) ==
  \/ IsObject(o) /\ Dead(o)
  \/ kind[o] = "payload" /\ owner[o] # None /\ DeadOrStale(owner[o])

\* What the visit of a live span frees: dead objects, payloads whose owner is
\* dead or gone, and payloads an owner freed earlier in this sweep left behind.
Dies(o) ==
  \/ IsObject(o) /\ Dead(o)
  \/ kind[o] = "payload" /\ (\/ o \in sweepPending
                             \/ owner[o] # None /\ DeadOrStale(owner[o]))

\* SweepObjects: a span is freed or, when its object survives, whitened for the
\* next cycle.  The first step scrubs the weak edges and snapshots the payloads;
\* the last one scrubs again and ends the cycle.
SweepStep ==
  LET begin == ~walk.active
      w == IF begin THEN [active |-> TRUE, cursor |-> 0, limit |-> spanCount] ELSE walk
      payloads == IF begin
                  THEN [o \in Offsets |-> {d \in Offsets : kind[d] = "payload" /\ owner[d] = o}]
                  ELSE sweepPayloads
      cells == IF begin THEN Scrubbed(cell, weakOwners) ELSE cell
      remembered == IF begin THEN {} ELSE weakOwners
      next == IF w.cursor < w.limit THEN w.cursor + 1 ELSE w.limit
      visited == IF w.cursor < w.limit THEN {next} ELSE {}
      freed == {o \in visited : Dies(o)}
      kept == {o \in visited \ freed : IsObject(o)}
      done == next >= w.limit
      \* The late scrub finds what this step has just freed stale as well.
      late == [o \in Offsets |->
                 IF done /\ o \in remembered /\ kind[o] = "closure" /\ cells[o] # None
                    /\ (DeadOrStale(cells[o]) \/ cells[o] \in freed)
                 THEN None ELSE cells[o]]
  IN  /\ phase = "sweepObjects"
      /\ kind' = [o \in Offsets |-> IF o \in freed THEN "free" ELSE kind[o]]
      /\ mark' = [o \in Offsets |-> IF o \in freed THEN {}
                                    ELSE IF o \in kept THEN {currentWhite} ELSE mark[o]]
      /\ strong' = [o \in Offsets |-> IF o \in freed THEN None ELSE strong[o]]
      /\ cell' = [o \in Offsets |-> IF o \in freed THEN None ELSE late[o]]
      /\ data' = [o \in Offsets |-> IF o \in freed THEN None ELSE data[o]]
      /\ owner' = [o \in Offsets |-> IF o \in freed THEN None ELSE owner[o]]
      /\ text' = [o \in Offsets |-> IF o \in freed THEN NoText ELSE text[o]]
      /\ IF done
         THEN /\ walk' = Idle
              /\ sweepPayloads' = [o \in Offsets |-> {}]
              /\ sweepPending' = {}
              /\ weakOwners' = {}
              /\ gray' = {}
              /\ grayAgain' = {}
              /\ phase' = "pause"
         ELSE /\ walk' = [w EXCEPT !.cursor = next]
              /\ sweepPayloads' = [o \in Offsets |-> IF o \in freed /\ IsObject(o) THEN {}
                                                     ELSE payloads[o]]
              /\ sweepPending' = (sweepPending \ freed)
                                   \cup UNION {payloads[o] : o \in freed \cap Objects}
              /\ weakOwners' = remembered
              /\ UNCHANGED <<phase, gray, grayAgain>>
      /\ UNCHANGED <<spanCount, interned, roots, currentWhite>>
CollectorStep == PrepareStep \/ MarkStep \/ AtomicStep \/ SweepStringsStep \/ SweepStep

SafeProgram == NewObject \/ DropRoot \/ Load \/ Store \/ GrowArray \/ UpdateCell

Next == SafeProgram \/ Intern \/ StoreNatively \/ UpdateCellNatively \/ CollectorStep

Spec == Init /\ [][Next]_vars

-----------------------------------------------------------------------------
(* Three windows of a cycle are open to steps the collector does not see:  *)
(* between MarkStep and AtomicStep a native store that should have fired   *)
(* the barrier and a native update of a traced closure's cell, and between *)
(* AtomicStep and SweepStringsStep the interning of a dead string.  What   *)
(* the collector guarantees, it guarantees to a program that avoids them;  *)
(* the runs on Spec show what happens to one that does not.                *)

InternClear == \E t \in Texts :
  \/ InternExisting(t) /\ ~(phase = "sweepStrings" /\ Dead(interned[t]))
  \/ InternNew(t)

StoreNativelyClear == \E p \in Offsets, c \in Ref :
  NativeStore(p, c) /\ ~(phase = "atomic" /\ BarrierFires(p, c))

UpdateCellNativelyClear == \E o, c \in Offsets :
  /\ NativeUpdateCell(o, c)
  /\ ~(phase = "atomic" /\ "black" \in mark[o] /\ o \notin weakOwners)

ClearProgram == SafeProgram \/ InternClear \/ StoreNativelyClear \/ UpdateCellNativelyClear

ClearNext == ClearProgram \/ CollectorStep

ClearSpec == Init /\ [][ClearNext]_vars

-----------------------------------------------------------------------------
(* Properties                                                              *)

Reachable ==
  {o \in Offsets : \A T \in SUBSET Offsets :
     (roots \subseteq T /\ \A p \in T : Children(p) \subseteq T) => o \in T}

\* Nothing the program can still reach is ever swept: whatever it did between
\* the steps of a cycle, every reachable offset holds an object.
ReachableLive == \A o \in Reachable : IsObject(o)

\* The array of a reachable table is a live payload recorded as its own; no
\* sweep frees it for an owner that had the table's offset before.
ArraysLive ==
  \A o \in Reachable : data[o] # None => kind[data[o]] = "payload" /\ owner[data[o]] = o

\* An inline cache of a reachable closure never holds a reference to a freed
\* span, which a later object could take over and be mistaken for.
CellsFresh ==
  \A o \in Reachable : kind[o] = "closure" /\ cell[o] # None => IsObject(cell[o])

\* Two reachable strings with the same text are the same object, so comparing
\* references compares strings (Intern, SweepDead).
InternIdentity ==
  \A a, b \in Reachable : kind[a] = "string" /\ kind[b] = "string" /\ text[a] = text[b]
                           => a = b

\* The intern table never refers to a recycled span.
InternedLive ==
  \A t \in Texts : interned[t] # None => kind[interned[t]] = "string" /\ text[interned[t]] = t

\* Between two cycles every live payload is the array of the object it is
\* recorded for: no dead owner's payload outlives the sweep, not even when the
\* owner's offset was reused before the payload was visited.
NoOrphanPayload ==
  phase = "pause" => \A d \in Offsets : kind[d] = "payload" =>
    owner[d] # None /\ data[owner[d]] = d
=============================================================================
