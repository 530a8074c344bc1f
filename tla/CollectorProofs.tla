-------------------------- MODULE CollectorProofs --------------------------
(***************************************************************************)
(* The collector is safe for clear programs, for every number of spans,    *)
(* every set of texts and every bound: the invariant of CollectorInvariant *)
(* is inductive and implies the safety properties of Collector.            *)
(***************************************************************************)
EXTENDS CollectorInvariant, Pacing, FiniteSetTheorems, TLAPS

USE CollectorAssumption DEF Offsets, None, Ref

\* A child is an offset (TraceObject).
LEMMA ChildOffset ==
  ASSUME TypeOK, NEW o \in Offsets, NEW c \in Children(o)
  PROVE  c \in Offsets /\ c = strong[o] /\ IsObject(o)
  BY DEF TypeOK, Children

\* Traced(q) is itself closed, and so the least closed set.
LEMMA TracedClosed ==
  ASSUME TypeOK, NEW q, q \subseteq Offsets
  PROVE  TraceClosed(q, Traced(q)) /\ Traced(q) \subseteq Offsets
<1>1. \A o \in q : ("gray" \in mark[o] \/ Shadeable(o)) => o \in Traced(q)
  BY DEF Traced, TraceClosed
<1>2. ASSUME NEW o \in Traced(q), NEW c \in Children(o), Shadeable(c)
      PROVE  c \in Traced(q)
  BY <1>2, ChildOffset DEF Traced, TraceClosed
<1> QED
  BY <1>1, <1>2 DEF TraceClosed, Traced

\* The mark sets the invariant distinguishes are distinct, and the two whites
\* swap (otherWhite).
LEMMA MarkBits ==
  ASSUME TypeOK
  PROVE  /\ currentWhite \notin {"gray", "black"} /\ OtherWhite \notin {"gray", "black"}
         /\ currentWhite # OtherWhite
         /\ {"gray"} # {"black"} /\ {"gray"} # {currentWhite} /\ {"black"} # {currentWhite}
         /\ {"gray"} # {OtherWhite} /\ {"black"} # {OtherWhite} /\ {currentWhite} # {OtherWhite}
<1>1. /\ currentWhite \notin {"gray", "black"} /\ OtherWhite \notin {"gray", "black"}
      /\ currentWhite # OtherWhite
  BY DEF TypeOK, Whites, OtherWhite
<1> QED
  BY <1>1

\* A new collector satisfies the invariant (NewCollector).
LEMMA InitIInv == Init => IInv
  BY DEF Init, IInv, TypeOK, Bookkeeping, Marks, Graph, Cells, Strings, Arrays, Kept,
      InternedLive, Ahead, SweepBegun, Condemned, IsObject, Idle,
      Phases, Whites, Sweeping, Children

-----------------------------------------------------------------------------
(* Allocation                                                              *)

\* What allocation does to the offset p, and what it leaves alone.
Placed(p, k, t) ==
  /\ kind[p] = "free" /\ IsObject(p)' /\ ~IsObject(p)
  /\ \A o \in Offsets : o # p => /\ kind'[o] = kind[o] /\ mark'[o] = mark[o]
                                 /\ text'[o] = text[o]
  /\ mark'[p] = {currentWhite} /\ text'[p] = t /\ kind'[p] = k
  /\ strong[p] = None /\ cell[p] = None /\ data[p] = None
  /\ UNCHANGED <<strong, cell, data, owner, phase, currentWhite, gray, grayAgain, weakOwners,
                 walk, sweepPayloads, sweepPending, OtherWhite>>
  /\ (Sweeping' <=> Sweeping) /\ (SweepBegun' <=> SweepBegun)
  /\ roots' = roots \cup {p}
  /\ \A o \in Offsets : (Ahead(o)' <=> Ahead(o))
  /\ \A o \in Offsets : Children(o)' = IF o = p THEN {} ELSE Children(o)
  /\ Kept' = Kept \cup {p} /\ p \notin Kept
  /\ ~Dead(p)'
  /\ \A o \in Offsets : o # p => (Dead(o)' <=> Dead(o))

\* What an allocation changes (AllocObject).
LEMMA PlaceObjectEffect ==
  ASSUME IInv, NEW p \in Offsets, NEW k \in {"table", "closure", "string"}, NEW t \in Texts \cup {NoText},
         PlaceObject(p, k, t)
  PROVE  Placed(p, k, t)
<1> USE DEF IInv, PlaceObject, Allocatable
<1>1. /\ kind[p] = "free" /\ kind'[p] = k /\ mark'[p] = {currentWhite} /\ text'[p] = t
      /\ roots' = roots \cup {p}
      /\ \A o \in Offsets : o # p => /\ kind'[o] = kind[o] /\ mark'[o] = mark[o]
                                     /\ text'[o] = text[o]
  BY DEF TypeOK
<1>2. IsObject(p)' /\ ~IsObject(p) /\ \A o \in Offsets : o # p => (IsObject(o)' <=> IsObject(o))
  BY <1>1 DEF IsObject
<1>3. strong[p] = None /\ cell[p] = None /\ data[p] = None
  BY <1>2 DEF Bookkeeping
<1>4. /\ UNCHANGED <<strong, cell, data, owner, phase, currentWhite, gray, grayAgain, weakOwners,
                     walk, sweepPayloads, sweepPending, OtherWhite>>
      /\ (Sweeping' <=> Sweeping) /\ (SweepBegun' <=> SweepBegun)
  BY DEF gcVars, OtherWhite, Sweeping, SweepBegun
<1>5. \A o \in Offsets : (Ahead(o)' <=> Ahead(o))
  BY <1>4 DEF Ahead
<1>6. \A o \in Offsets : Children(o)' = IF o = p THEN {} ELSE Children(o)
  BY <1>2, <1>3, <1>4 DEF Children
<1>7. ~Dead(p)' /\ \A o \in Offsets : o # p => (Dead(o)' <=> Dead(o))
  BY <1>1, <1>4 DEF Dead, TypeOK, OtherWhite, Whites
<1>8. Kept' = Kept \cup {p} /\ p \notin Kept
  BY <1>2, <1>4, <1>7 DEF Kept
<1> QED
  BY <1>1, <1>2, <1>3, <1>4, <1>5, <1>6, <1>7, <1>8 DEF Placed

\* Placing a white object in a free span preserves all but the strings part of
\* the invariant (AllocObject).
LEMMA PlaceObjectPreserves ==
  ASSUME IInv, NEW p \in Offsets, NEW k \in {"table", "closure", "string"}, NEW t \in Texts \cup {NoText},
         PlaceObject(p, k, t)
  PROVE  Bookkeeping' /\ Marks' /\ Graph' /\ Cells' /\ Arrays'
<1>0. Placed(p, k, t)
  BY PlaceObjectEffect
<1> USE <1>0 DEF Placed
<1>1. Bookkeeping'
  BY DEF Bookkeeping, IInv, TypeOK, IsObject, PlaceObject, Allocatable, Carve
<1>2. Marks'
  BY DEF Marks, IInv, IsObject
<1>3. Graph'
  <2>1. p \in Kept' /\ \A o \in Kept : o # p
    OBVIOUS
  <2>2. \A o \in Kept' : Children(o)' \subseteq Kept'
    BY DEF Graph, IInv, Kept
  <2>3. ASSUME phase = "atomic", NEW o \in Offsets, IsObject(o)', mark'[o] = {"black"}, NEW c \in Children(o)'
        PROVE  mark'[c] # {currentWhite}
    <3>1. o # p
      BY <2>3 DEF IInv, TypeOK, Whites
    <3>2. IsObject(o) /\ c \in Children(o) /\ mark[o] = {"black"}
      BY <2>3, <3>1 DEF IsObject
    <3>3. o \in Kept
      BY <3>2, <2>3 DEF Kept, Sweeping
    <3>4. c \in Kept
      BY <3>2, <3>3 DEF IInv, Graph
    <3> QED
      BY <2>3, <3>2, <3>4 DEF IInv, Graph, Kept
  <2> QED
    BY <2>1, <2>2, <2>3 DEF IInv, Graph
<1>4. Cells'
  <2> SUFFICES ASSUME NEW o \in Kept', kind'[o] = "closure", cell'[o] # None
               PROVE  /\ IsObject(cell[o])'
                      /\ phase = "atomic" /\ mark'[o] = {"black"} => o \in weakOwners
                      /\ Sweeping => cell[o] \in Kept' \/ (o \in weakOwners /\ ~SweepBegun)
    BY DEF Cells
  <2>1. o \in Kept /\ o # p /\ kind[o] = "closure" /\ mark'[o] = mark[o]
    BY DEF Kept
  <2>2. cell[o] \in Offsets /\ IsObject(cell[o]) /\ cell[o] # p
    BY <2>1 DEF Cells, IInv, TypeOK, Kept
  <2> QED
    BY <2>1, <2>2 DEF Cells, IInv, IsObject
<1>5. Arrays'
  <2>1. ASSUME NEW o \in Kept', data'[o] # None
        PROVE  kind'[data[o]] = "payload" /\ owner[data[o]] = o
    <3>1. o \in Kept /\ o # p /\ data[o] # None
      BY <2>1
    <3>2. kind[data[o]] = "payload" /\ owner[data[o]] = o
      BY <3>1 DEF Arrays, IInv
    <3>3. data[o] \in Offsets /\ data[o] # p
      BY <3>1, <3>2 DEF IInv, TypeOK, Kept
    <3> QED
      BY <3>2, <3>3
  <2>2. ASSUME NEW d \in Offsets, kind'[d] = "payload"
        PROVE  /\ owner[d] # None
               /\ \/ owner[d] \in Kept' /\ data[owner[d]] = d
                  \/ /\ Sweeping /\ Ahead(d)
                     /\ \/ SweepBegun /\ d \in sweepPending
                        \/ /\ IsObject(owner[d])' /\ Dead(owner[d])'
                           /\ SweepBegun => d \in sweepPayloads[owner[d]]
    BY <2>2 DEF Arrays, IInv, TypeOK, IsObject
  <2>3. ASSUME SweepBegun, NEW d \in Offsets, Condemned(d)', Ahead(d)
        PROVE  kind'[d] = "payload" /\ (owner[d] \in Kept' => data[owner[d]] # d)
    <3>1. Condemned(d)
      BY <2>3 DEF Condemned, IsObject
    <3> QED
      BY <2>3, <3>1 DEF Arrays, IInv
  <2> QED
    BY <2>1, <2>2, <2>3 DEF Arrays
<1> QED
  BY <1>1, <1>2, <1>3, <1>4, <1>5

-----------------------------------------------------------------------------
(* Types                                                                   *)

\* A new object keeps the types (AllocObject).
LEMMA PlaceObjectTypes ==
  ASSUME TypeOK, NEW o \in Offsets, NEW k \in {"table", "closure", "string"},
         NEW t \in Texts \cup {NoText}, PlaceObject(o, k, t), interned' \in [Texts -> Ref]
  PROVE  TypeOK'
<1>1. kind' \in [Offsets -> {"free", "table", "closure", "string", "payload"}]
  BY DEF PlaceObject, TypeOK
<1>2. mark' \in [Offsets -> SUBSET (Whites \cup {"gray", "black"})]
  <2>1. {currentWhite} \in SUBSET (Whites \cup {"gray", "black"})
    BY DEF TypeOK
  <2> QED
    BY <2>1 DEF PlaceObject, TypeOK
<1>3. text' \in [Offsets -> Texts \cup {NoText}]
  BY DEF PlaceObject, TypeOK
<1>4. spanCount' \in 0..MaxSpans
  BY DEF PlaceObject, Carve, TypeOK, Offsets
<1>5. roots' \subseteq Offsets
  BY DEF PlaceObject, TypeOK
<1> QED
  BY <1>1, <1>2, <1>3, <1>4, <1>5 DEF TypeOK, PlaceObject, gcVars

\* Every step keeps the types.
LEMMA TypeStep == TypeOK /\ [ClearNext]_vars => TypeOK'
<1> SUFFICES ASSUME TypeOK, [ClearNext]_vars PROVE TypeOK'
  OBVIOUS
<1>1. CASE NewObject
  <2>1. PICK o \in Offsets, k \in Kinds : PlaceObject(o, k, NoText) /\ UNCHANGED interned
    BY <1>1 DEF NewObject
  <2>2. k \in {"table", "closure", "string"} /\ interned' \in [Texts -> Ref]
    BY <2>1, CollectorAssumption DEF TypeOK
  <2> QED
    BY <2>1, <2>2, PlaceObjectTypes
<1>2. CASE InternClear
  <2>1. ASSUME NEW t \in Texts, InternExisting(t) PROVE TypeOK'
    <3>1. interned[t] \in Offsets
      BY <2>1 DEF TypeOK, InternExisting, Ref
    <3>2. roots' \subseteq Offsets
      BY <2>1, <3>1 DEF TypeOK, InternExisting
    <3> QED
      BY <2>1, <3>2 DEF TypeOK, InternExisting, spanVars, gcVars
  <2>2. ASSUME NEW t \in Texts, InternNew(t) PROVE TypeOK'
    <3>1. PICK o \in Offsets : PlaceObject(o, "string", t) /\ interned' = [interned EXCEPT ![t] = o]
      BY <2>2 DEF InternNew
    <3>2. interned' \in [Texts -> Ref]
      BY <3>1 DEF TypeOK, Ref
    <3> QED
      BY <3>1, <3>2, PlaceObjectTypes
  <2> QED
    BY <1>2, <2>1, <2>2 DEF InternClear
<1>3. CASE DropRoot \/ Load
  <2>1. CASE DropRoot
    BY <2>1 DEF TypeOK, DropRoot, spanVars, gcVars
  <2>2. CASE Load
    <3>1. PICK o \in roots : /\ strong[o] # None /\ roots' = roots \cup {strong[o]}
                             /\ UNCHANGED <<spanVars, interned, gcVars>>
      BY <2>2 DEF Load
    <3>2. strong[o] \in Offsets
      BY <3>1 DEF TypeOK, Ref
    <3> QED
      BY <3>1, <3>2 DEF TypeOK, spanVars, gcVars
  <2> QED
    BY <1>3, <2>1, <2>2
<1>4. CASE Store \/ StoreNativelyClear
  <2>1. PICK p \in Offsets, c \in Ref :
          StoreField(p, c) /\ (WriteBarrier(p, c) \/ UNCHANGED <<mark, grayAgain>>)
    BY <1>4 DEF Store, StoreNativelyClear, NativeStore
  <2>2. mark' \in [Offsets -> SUBSET (Whites \cup {"gray", "black"})]
    BY <2>1 DEF TypeOK, WriteBarrier
  <2>3. grayAgain' \subseteq Offsets
    <3>1. grayAgain \subseteq Offsets
      BY DEF TypeOK
    <3> QED
      BY <2>1, <3>1 DEF WriteBarrier
  <2> QED
    BY <2>1, <2>2, <2>3 DEF TypeOK, StoreField
<1>5. CASE GrowArray
  <2>1. PICK p \in Offsets, d \in Offsets :
          /\ Carve(d)
          /\ kind' = [o \in Offsets |-> IF o = d THEN "payload"
                                        ELSE IF o = data[p] THEN "free" ELSE kind[o]]
          /\ owner' = [o \in Offsets |-> IF o = d THEN p
                                         ELSE IF o = data[p] THEN None ELSE owner[o]]
          /\ data' = [data EXCEPT ![p] = d]
          /\ UNCHANGED <<mark, strong, cell, text, interned, roots, gcVars>>
    BY <1>5 DEF GrowArray, TypeOK
  <2>2. kind' \in [Offsets -> {"free", "table", "closure", "string", "payload"}]
    BY <2>1 DEF TypeOK
  <2>3. owner' \in [Offsets -> Ref] /\ data' \in [Offsets -> Ref]
    BY <2>1 DEF TypeOK, Ref
  <2>4. spanCount' \in 0..MaxSpans
    BY <2>1 DEF Carve, TypeOK, Offsets
  <2> QED
    BY <2>1, <2>2, <2>3, <2>4 DEF TypeOK, gcVars
<1>6. CASE UpdateCell \/ UpdateCellNativelyClear
  <2>1. PICK o \in Offsets, c \in Offsets :
          WriteCell(o, c) /\ (weakOwners' = weakOwners \/ weakOwners' = weakOwners \cup {o})
    BY <1>6 DEF UpdateCell, UpdateCellNativelyClear, NativeUpdateCell
  <2> QED
    BY <2>1 DEF TypeOK, WriteCell
<1>7. CASE PrepareStep
  <2> DEFINE w == IF walk.active THEN walk
                  ELSE [active |-> TRUE, cursor |-> 0, limit |-> spanCount]
             next == IF w.cursor < w.limit THEN w.cursor + 1 ELSE w.limit
             reset == [o \in Offsets |-> IF o = next /\ IsObject(o) THEN {currentWhite} ELSE mark[o]]
             seeded == {o \in roots : currentWhite \in reset[o] /\ "gray" \notin reset[o]
                                                                /\ "black" \notin reset[o]}
  <2>0. /\ mark' = reset \/ mark' = [o \in Offsets |-> IF o \in seeded THEN {"gray"} ELSE reset[o]]
        /\ walk' = Idle \/ walk' = [w EXCEPT !.cursor = next]
        /\ gray' \in {{}, seeded} /\ phase' \in {phase, "mark"}
        /\ grayAgain' = {} /\ weakOwners' \in {weakOwners, {}}
        /\ UNCHANGED <<kind, strong, cell, data, owner, text, spanCount, interned, roots,
                       currentWhite, sweepPayloads, sweepPending>>
    BY <1>7 DEF PrepareStep, Seeded
  <2>1. mark' \in [Offsets -> SUBSET (Whites \cup {"gray", "black"})]
    <3>1. reset \in [Offsets -> SUBSET (Whites \cup {"gray", "black"})]
      BY DEF TypeOK
    <3> QED
      BY <2>0, <3>1
  <2>2. walk' \in [active : BOOLEAN, cursor : 0..MaxSpans, limit : 0..MaxSpans]
    <3>1. w \in [active : BOOLEAN, cursor : 0..MaxSpans, limit : 0..MaxSpans]
      BY DEF TypeOK
    <3>2. next \in 0..MaxSpans
      BY <3>1
    <3>3. Idle \in [active : BOOLEAN, cursor : 0..MaxSpans, limit : 0..MaxSpans]
      BY DEF Idle
    <3>4. walk' = Idle \/ walk' = [w EXCEPT !.cursor = next]
      BY <2>0
    <3> HIDE DEF w, next
    <3> QED
      BY <3>1, <3>2, <3>3, <3>4
  <2>3. gray' \subseteq Offsets /\ grayAgain' \subseteq Offsets /\ weakOwners' \subseteq Offsets
    BY <2>0 DEF TypeOK
  <2>4. phase' \in Phases
    BY <2>0 DEF TypeOK, Phases
  <2> QED
    BY <2>0, <2>1, <2>2, <2>3, <2>4 DEF TypeOK
<1>8. CASE MarkStep
  <2>1. phase' \in Phases
    BY <1>8 DEF MarkStep, Phases
  <2>2. mark' \in [Offsets -> SUBSET (Whites \cup {"gray", "black"})]
    BY <1>8 DEF TypeOK, MarkStep, Blacken
  <2>3. weakOwners' \subseteq Offsets
    BY <1>8 DEF TypeOK, MarkStep, Blacken, Traced
  <2> QED
    BY <1>8, <2>1, <2>2, <2>3 DEF TypeOK, MarkStep
<1>9. CASE AtomicStep
  <2>1. phase' \in Phases /\ currentWhite' \in Whites
    BY <1>9 DEF AtomicStep, Phases, OtherWhite, Whites
  <2>2. mark' \in [Offsets -> SUBSET (Whites \cup {"gray", "black"})]
    BY <1>9 DEF TypeOK, AtomicStep, Blacken
  <2>3. weakOwners' \subseteq Offsets
    BY <1>9 DEF TypeOK, AtomicStep, Blacken, Traced
  <2> QED
    BY <1>9, <2>1, <2>2, <2>3 DEF TypeOK, AtomicStep
<1>10. CASE SweepStringsStep
  BY <1>10 DEF TypeOK, SweepStringsStep, spanVars, Phases
<1>11. CASE SweepStep
  <2> DEFINE w == IF ~walk.active THEN [active |-> TRUE, cursor |-> 0, limit |-> spanCount]
                  ELSE walk
             payloads == IF ~walk.active
                         THEN [o \in Offsets |-> {d \in Offsets : kind[d] = "payload" /\ owner[d] = o}]
                         ELSE sweepPayloads
             next == IF w.cursor < w.limit THEN w.cursor + 1 ELSE w.limit
             freed == {o \in (IF w.cursor < w.limit THEN {next} ELSE {}) : Dies(o)}
  <2>0. /\ phase' \in {phase, "pause"} /\ gray' \in {gray, {}} /\ grayAgain' \in {grayAgain, {}}
        /\ weakOwners' \in {weakOwners, {}}
        /\ walk' = Idle \/ walk' = [w EXCEPT !.cursor = next]
        /\ \/ sweepPayloads' = [o \in Offsets |-> {}]
           \/ sweepPayloads' = [o \in Offsets |-> IF o \in freed /\ IsObject(o) THEN {}
                                                  ELSE payloads[o]]
        /\ \/ sweepPending' = {}
           \/ sweepPending' = (sweepPending \ freed)
                                 \cup UNION {payloads[o] : o \in freed \cap Objects}
        /\ UNCHANGED <<spanCount, interned, roots, currentWhite>>
    BY <1>11 DEF SweepStep
  <2>1. kind' \in [Offsets -> {"free", "table", "closure", "string", "payload"}]
    BY <1>11 DEF SweepStep, TypeOK
  <2>2. mark' \in [Offsets -> SUBSET (Whites \cup {"gray", "black"})]
    BY <1>11 DEF SweepStep, TypeOK
  <2>3. /\ strong' \in [Offsets -> Ref] /\ data' \in [Offsets -> Ref]
        /\ owner' \in [Offsets -> Ref] /\ text' \in [Offsets -> Texts \cup {NoText}]
    BY <1>11 DEF SweepStep, TypeOK
  <2>4. cell' \in [Offsets -> Ref]
    BY <1>11 DEF SweepStep, TypeOK, Scrubbed
  <2>5. walk' \in [active : BOOLEAN, cursor : 0..MaxSpans, limit : 0..MaxSpans]
    <3>1. w \in [active : BOOLEAN, cursor : 0..MaxSpans, limit : 0..MaxSpans]
      BY DEF TypeOK
    <3>2. next \in 0..MaxSpans
      BY <3>1
    <3>3. Idle \in [active : BOOLEAN, cursor : 0..MaxSpans, limit : 0..MaxSpans]
      BY DEF Idle
    <3>4. walk' = Idle \/ walk' = [w EXCEPT !.cursor = next]
      BY <2>0
    <3> HIDE DEF w, next
    <3> QED
      BY <3>1, <3>2, <3>3, <3>4
  <2>6. /\ phase' \in Phases /\ gray' \subseteq Offsets /\ grayAgain' \subseteq Offsets
        /\ weakOwners' \subseteq Offsets
    BY <2>0 DEF TypeOK, Phases
  <2>7. payloads \in [Offsets -> SUBSET Offsets]
    BY DEF TypeOK
  <2>8. sweepPayloads' \in [Offsets -> SUBSET Offsets]
    <3> HIDE DEF payloads, freed
    <3> QED
      BY <2>0, <2>7
  <2>9. sweepPending' \subseteq Offsets
    <3>1. sweepPending \subseteq Offsets
      BY DEF TypeOK
    <3> HIDE DEF payloads, freed
    <3> QED
      BY <2>0, <2>7, <3>1 DEF Objects
  <2> QED
    BY <2>0, <2>1, <2>2, <2>3, <2>4, <2>5, <2>6, <2>8, <2>9 DEF TypeOK
<1>12. CASE UNCHANGED vars
  BY <1>12 DEF TypeOK, vars, spanVars, gcVars
<1> QED
  BY <1>1, <1>2, <1>3, <1>4, <1>5, <1>6, <1>7, <1>8, <1>9, <1>10, <1>11, <1>12
  DEF ClearNext, ClearProgram, SafeProgram, CollectorStep

-----------------------------------------------------------------------------
(* The program                                                             *)

\* The definitions the parts of the invariant rest on, for steps that leave
\* the heap alone.
LEMMA RootsStep ==
  ASSUME IInv, TypeOK', roots' \subseteq Kept, UNCHANGED <<spanVars, interned, gcVars>>
  PROVE  IInv'
<1> USE DEF IInv, spanVars, gcVars
<1>1. Kept' = Kept /\ \A o \in Offsets : Children(o)' = Children(o)
  BY DEF Kept, Children, IsObject, Dead, OtherWhite, Sweeping
<1>2. Bookkeeping'
  BY DEF Bookkeeping, IsObject, SweepBegun, Idle
<1>3. Marks'
  BY DEF Marks, IsObject, Sweeping, SweepBegun, Ahead, OtherWhite
<1>4. Graph'
  BY <1>1 DEF Graph, IsObject, Kept
<1>5. Cells'
  BY <1>1 DEF Cells, IsObject, Sweeping, SweepBegun
<1>6. Strings'
  BY <1>1 DEF Strings, InternedLive
<1>7. Arrays'
  BY <1>1 DEF Arrays, Condemned, IsObject, Dead, Sweeping, SweepBegun, Ahead, OtherWhite
<1> QED
  BY <1>2, <1>3, <1>4, <1>5, <1>6, <1>7

\* Allocating a table or a closure preserves the invariant (NewTable, NewClosure).
LEMMA NewObjectStep == IInv /\ TypeOK' /\ NewObject => IInv'
<1> SUFFICES ASSUME IInv, TypeOK', NewObject PROVE IInv'
  OBVIOUS
<1>1. PICK p \in Offsets, k \in Kinds : PlaceObject(p, k, NoText) /\ UNCHANGED interned
  BY DEF NewObject
<1>2. k \in {"table", "closure"}
  OBVIOUS
<1>3. Placed(p, k, NoText) /\ Bookkeeping' /\ Marks' /\ Graph' /\ Cells' /\ Arrays'
  BY <1>1, <1>2, PlaceObjectEffect, PlaceObjectPreserves
<1>4. Strings'
  <2>1. InternedLive'
    BY <1>1, <1>2, <1>3 DEF IInv, TypeOK, Strings, InternedLive, Placed
  <2>2. ASSUME NEW o \in Kept', kind'[o] = "string"
        PROVE  text'[o] \in Texts /\ interned[text'[o]] = o
    BY <1>2, <1>3, <2>2 DEF IInv, Strings, Placed, Kept
  <2>3. phase = "sweepObjects" => \A t \in Texts : interned[t] # None => interned[t] \in Kept'
    BY <1>3 DEF IInv, Strings, Placed
  <2> QED
    BY <1>1, <1>3, <2>1, <2>2, <2>3 DEF Strings, Placed
<1> QED
  BY <1>3, <1>4 DEF IInv

\* Interning outside the window preserves the invariant (Intern).
LEMMA InternStep == IInv /\ TypeOK' /\ InternClear => IInv'
<1> SUFFICES ASSUME IInv, TypeOK', InternClear PROVE IInv'
  OBVIOUS
<1>1. ASSUME NEW t \in Texts, InternExisting(t), ~(phase = "sweepStrings" /\ Dead(interned[t]))
      PROVE  IInv'
  <2>1. interned[t] \in Kept
    BY <1>1 DEF InternExisting, IInv, TypeOK, Strings, Kept, Sweeping
  <2>2. roots' \subseteq Kept
    BY <1>1, <2>1 DEF InternExisting, IInv, Graph
  <2> QED
    BY <1>1, <2>2, RootsStep DEF InternExisting
<1>2. ASSUME NEW t \in Texts, InternNew(t)
      PROVE  IInv'
  <2>1. PICK p \in Offsets : PlaceObject(p, "string", t) /\ interned' = [interned EXCEPT ![t] = p]
    BY <1>2 DEF InternNew
  <2>2. Placed(p, "string", t) /\ Bookkeeping' /\ Marks' /\ Graph' /\ Cells' /\ Arrays'
    BY <2>1, PlaceObjectEffect, PlaceObjectPreserves
  <2>3. interned[t] = None
    BY <1>2 DEF InternNew
  <2>4. Strings'
    <3>1. InternedLive'
      BY <2>1, <2>2, <2>3 DEF IInv, TypeOK, Strings, InternedLive, Placed
    <3>2. ASSUME NEW o \in Kept', kind'[o] = "string"
          PROVE  text'[o] \in Texts /\ interned'[text'[o]] = o
      <4>1. CASE o = p
        BY <2>1, <2>2, <4>1 DEF IInv, TypeOK, Placed
      <4>2. CASE o # p
        <5>1. text'[o] = text[o] /\ text[o] \in Texts /\ interned[text[o]] = o
          BY <2>2, <3>2, <4>2 DEF IInv, Strings, Placed, Kept
        <5>2. text[o] # t
          BY <2>3, <5>1 DEF Kept
        <5> QED
          BY <2>1, <5>1, <5>2 DEF IInv, TypeOK
      <4> QED
        BY <4>1, <4>2
    <3>3. phase = "sweepObjects" => \A s \in Texts : interned'[s] # None => interned'[s] \in Kept'
      BY <2>1, <2>2 DEF IInv, TypeOK, Strings, Placed
    <3> QED
      BY <2>2, <3>1, <3>2, <3>3 DEF Strings, Placed
  <2> QED
    BY <2>2, <2>4 DEF IInv
<1> QED
  BY <1>1, <1>2 DEF InternClear

\* Dropping a root preserves the invariant (ReleaseRef).
LEMMA DropRootStep == IInv /\ TypeOK' /\ DropRoot => IInv'
<1> SUFFICES ASSUME IInv, TypeOK', DropRoot PROVE IInv'
  OBVIOUS
<1>1. roots' \subseteq Kept /\ UNCHANGED <<spanVars, interned, gcVars>>
  BY DEF DropRoot, IInv, Graph
<1> QED
  BY <1>1, RootsStep

\* Loading a reference into a register preserves the invariant (Get).
LEMMA LoadStep == IInv /\ TypeOK' /\ Load => IInv'
<1> SUFFICES ASSUME IInv, TypeOK', Load PROVE IInv'
  OBVIOUS
<1>1. roots' \subseteq Kept /\ UNCHANGED <<spanVars, interned, gcVars>>
  BY DEF Load, IInv, Graph, Children, Kept
<1> QED
  BY <1>1, RootsStep

\* A store either regrays a black parent in the atomic window or leaves the
\* marks alone, and then it makes no black object refer to a white one.
Stored(p, c) ==
  /\ StoreField(p, c)
  /\ \/ /\ phase = "atomic" /\ mark[p] = {"black"}
        /\ mark' = [mark EXCEPT ![p] = {"gray"}]
        /\ grayAgain' = grayAgain \cup {p}
     \/ /\ UNCHANGED <<mark, grayAgain>>
        /\ ~(phase = "atomic" /\ BarrierFires(p, c))

\* Both kinds of store have the effect the barrier is about (writeBarrier).
LEMMA StoreIsStored ==
  ASSUME IInv, NEW p \in Offsets, NEW c \in Ref, StoreField(p, c),
         \/ WriteBarrier(p, c)
         \/ UNCHANGED <<mark, grayAgain>> /\ ~(phase = "atomic" /\ BarrierFires(p, c))
  PROVE  Stored(p, c)
<1>1. CASE BarrierFires(p, c) /\ WriteBarrier(p, c)
  <2>1. IsObject(p) /\ "black" \in mark[p] /\ phase \in {"mark", "atomic"}
    BY <1>1 DEF BarrierFires, StoreField, Mutable, IsObject
  <2>2. phase = "atomic" /\ mark[p] = {"black"}
    <3>1. /\ phase = "mark" => mark[p] = {currentWhite} \/ mark[p] = {"gray"}
          /\ phase = "atomic" => mark[p] = {currentWhite} \/ mark[p] = {"black"} \/ mark[p] = {"gray"}
      BY <2>1 DEF IInv, Marks
    <3> QED
      BY <2>1, <3>1, MarkBits DEF IInv
  <2>3. /\ mark' = [mark EXCEPT ![p] = (@ \cup {"gray"}) \ {"black"}]
        /\ grayAgain' = grayAgain \cup {p}
    BY <1>1 DEF WriteBarrier
  <2>4. (mark[p] \cup {"gray"}) \ {"black"} = {"gray"}
    BY <2>2
  <2> QED
    BY <2>2, <2>3, <2>4 DEF Stored
<1>2. CASE ~BarrierFires(p, c) \/ ~WriteBarrier(p, c)
  BY <1>2 DEF WriteBarrier, Stored
<1> QED
  BY <1>1, <1>2

\* A store with that effect preserves the invariant (writeBarrier).
LEMMA StoredStep ==
  ASSUME IInv, TypeOK', NEW p \in Offsets, NEW c \in Ref, Stored(p, c)
  PROVE  IInv'
<1>1. /\ strong' = [strong EXCEPT ![p] = c] /\ p \in roots /\ c \in roots \cup {None}
      /\ UNCHANGED <<kind, cell, data, owner, text, spanCount, interned, roots, phase,
                     currentWhite, gray, weakOwners, walk, sweepPayloads, sweepPending>>
  BY DEF Stored, StoreField, Mutable
<1>2. \A o \in Offsets : IsObject(o)' <=> IsObject(o)
  BY <1>1 DEF IsObject
<1>3. (Sweeping' <=> Sweeping) /\ (SweepBegun' <=> SweepBegun) /\ OtherWhite' = OtherWhite
  BY <1>1 DEF Sweeping, SweepBegun, OtherWhite
<1>4. Sweeping => mark' = mark
  BY DEF Stored, Sweeping
<1>5. \A o \in Offsets : Sweeping => (Dead(o)' <=> Dead(o))
  BY <1>3, <1>4 DEF Dead
<1>6. Kept' = Kept /\ p \in Kept /\ (c # None => c \in Kept)
  BY <1>1, <1>2, <1>3, <1>5 DEF Kept, IInv, Graph
<1>7. \A o \in Offsets : Ahead(o)' <=> Ahead(o)
  BY <1>1, <1>3 DEF Ahead
<1>8. \A o \in Offsets : o # p => mark'[o] = mark[o] /\ strong'[o] = strong[o]
  BY <1>1 DEF Stored, IInv, TypeOK
<1>9. Bookkeeping'
  BY <1>1, <1>3, <1>6, <1>8 DEF IInv, TypeOK, Bookkeeping, IsObject, Idle, Kept
<1>10. Marks'
  <2>1. /\ Marks /\ mark \in [Offsets -> SUBSET (Whites \cup {"gray", "black"})]
        /\ phase' = phase /\ currentWhite' = currentWhite /\ walk' = walk
    BY <1>1 DEF IInv, TypeOK
  <2> QED
    BY <1>1, <1>2, <1>3, <1>7, <1>8, <2>1 DEF Marks, Stored, Sweeping, SweepBegun
<1>11. Graph'
  <2>1. ASSUME NEW o \in Kept
        PROVE  Children(o)' \subseteq Kept
    <3>1. CASE o = p
      BY <1>1, <1>6, <3>1 DEF Children, IInv, TypeOK
    <3>2. CASE o # p
      BY <1>2, <1>8, <2>1, <3>2 DEF Children, IInv, Graph, Kept
    <3> QED
      BY <3>1, <3>2
  <2>2. ASSUME phase = "atomic", NEW o \in Offsets, IsObject(o), mark'[o] = {"black"},
               NEW d \in Children(o)'
        PROVE  mark'[d] # {currentWhite}
    <3>1. mark[o] = {"black"} /\ (o = p => mark' = mark /\ ~BarrierFires(p, c))
      <4>1. CASE UNCHANGED <<mark, grayAgain>> /\ ~BarrierFires(p, c)
        BY <2>2, <4>1
      <4>2. CASE mark' = [mark EXCEPT ![p] = {"gray"}]
        <5>1. o # p
          <6>1. mark \in [Offsets -> SUBSET (Whites \cup {"gray", "black"})] /\ {"gray"} # {"black"}
            BY MarkBits DEF IInv, TypeOK
          <6> QED
            BY <2>2, <4>2, <6>1
        <5> QED
          BY <2>2, <4>2, <5>1 DEF IInv, TypeOK
      <4> QED
        BY <2>2, <4>1, <4>2 DEF Stored
    <3>2. d \in Offsets /\ d = strong'[o] /\ d # None
      BY <2>2, <1>2 DEF Children, TypeOK
    <3>3. mark[d] # {currentWhite}
      <4>1. CASE o = p
        BY <1>1, <2>2, <3>1, <3>2, <4>1 DEF BarrierFires, IInv, TypeOK
      <4>2. CASE o # p
        BY <1>2, <1>8, <2>2, <3>1, <4>2 DEF Children, IInv, Graph
      <4> QED
        BY <4>1, <4>2
    <3> QED
      BY <3>2, <3>3, MarkBits DEF Stored, IInv, TypeOK
  <2> QED
    BY <1>1, <1>2, <1>6, <2>1, <2>2 DEF Graph, IInv
<1>12. Cells'
  <2>1. ASSUME NEW o \in Kept, phase = "atomic", mark'[o] = {"black"} PROVE mark[o] = {"black"}
    BY <2>1, <1>8 DEF Stored, IInv, TypeOK, Kept
  <2> QED
    BY <1>1, <1>2, <1>3, <1>6, <2>1 DEF Cells, IInv, TypeOK, Kept
<1>13. Strings'
  BY <1>1, <1>6 DEF Strings, InternedLive, IInv
<1>14. Arrays'
  <2>1. \A d \in Offsets : SweepBegun => (Condemned(d)' <=> Condemned(d))
    BY <1>1, <1>2, <1>5 DEF Condemned, Sweeping, SweepBegun
  <2> QED
    BY <1>1, <1>2, <1>3, <1>5, <1>6, <1>7, <2>1 DEF Arrays, IInv, TypeOK
<1> QED
  BY <1>9, <1>10, <1>11, <1>12, <1>13, <1>14 DEF IInv

\* Go stores, and native stores outside the window, preserve the invariant.
LEMMA StoreStep == IInv /\ TypeOK' /\ (Store \/ StoreNativelyClear) => IInv'
<1> SUFFICES ASSUME IInv, TypeOK', Store \/ StoreNativelyClear PROVE IInv'
  OBVIOUS
<1>1. PICK p \in Offsets, c \in Ref :
        /\ StoreField(p, c)
        /\ \/ WriteBarrier(p, c)
           \/ UNCHANGED <<mark, grayAgain>> /\ ~(phase = "atomic" /\ BarrierFires(p, c))
  BY DEF Store, StoreNativelyClear, NativeStore
<1> QED
  BY <1>1, StoreIsStored, StoredStep

\* Growing a table's array preserves the invariant (ensureArrayCapacity,
\* releaseDetachedPayloads).
LEMMA GrowArrayStep == IInv /\ TypeOK' /\ GrowArray => IInv'
<1> SUFFICES ASSUME IInv, TypeOK', GrowArray PROVE IInv'
  OBVIOUS
<1>1. PICK p \in roots, d \in Offsets :
        /\ kind[p] = "table" /\ kind[d] = "free" /\ d <= spanCount + 1
        /\ spanCount' = IF d = spanCount + 1 THEN d ELSE spanCount
        /\ kind' = [o \in Offsets |-> IF o = d THEN "payload"
                                      ELSE IF o = data[p] THEN "free" ELSE kind[o]]
        /\ owner' = [o \in Offsets |-> IF o = d THEN p
                                       ELSE IF o = data[p] THEN None ELSE owner[o]]
        /\ data' = [data EXCEPT ![p] = d]
        /\ UNCHANGED <<mark, strong, cell, text, interned, roots, gcVars>>
  BY DEF GrowArray, Allocatable, Carve
<1>2. UNCHANGED <<phase, currentWhite, gray, grayAgain, weakOwners, walk, sweepPayloads, sweepPending>>
  BY <1>1 DEF gcVars
<1>3. p \in Kept /\ p \in Offsets
  BY <1>1 DEF IInv, Graph, Kept
<1>4. data[p] # None => kind[data[p]] = "payload" /\ owner[data[p]] = p /\ data[p] \in Offsets
  BY <1>3 DEF IInv, Arrays, TypeOK
<1>5. \A o \in Offsets : IsObject(o)' <=> IsObject(o)
  BY <1>1, <1>4 DEF IsObject
<1>6. \A o \in Offsets : IsObject(o) => kind'[o] = kind[o]
  BY <1>1, <1>4 DEF IsObject
<1>7. (Sweeping' <=> Sweeping) /\ (SweepBegun' <=> SweepBegun) /\ OtherWhite' = OtherWhite
  BY <1>2 DEF Sweeping, SweepBegun, OtherWhite
<1>8. \A o \in Offsets : (Dead(o)' <=> Dead(o)) /\ (Ahead(o)' <=> Ahead(o))
  BY <1>1, <1>2, <1>7 DEF Dead, Ahead
<1>9. Kept' = Kept
  BY <1>5, <1>7, <1>8 DEF Kept
<1>10. \A o \in Offsets : Children(o)' = Children(o)
  BY <1>1, <1>5 DEF Children
<1>11. Bookkeeping'
  <2>1. ASSUME NEW o \in Offsets, kind'[o] # "free" PROVE o <= spanCount'
    <3>1. o = d \/ kind[o] # "free"
      BY <1>1, <2>1
    <3> QED
      BY <1>1, <3>1 DEF IInv, Bookkeeping, TypeOK
  <2>2. ASSUME NEW o \in Offsets, ~IsObject(o) PROVE strong'[o] = None /\ cell'[o] = None /\ data'[o] = None
    <3>1. o # p
      BY <1>3, <2>2 DEF Kept
    <3> QED
      BY <1>1, <2>2, <3>1 DEF IInv, Bookkeeping, TypeOK
  <2>3. spanCount <= spanCount'
    BY <1>1 DEF IInv, TypeOK
  <2>4. walk'.limit <= spanCount'
    BY <1>2, <2>3 DEF IInv, Bookkeeping, TypeOK
  <2> QED
    BY <1>2, <1>5, <1>7, <2>1, <2>2, <2>4 DEF Bookkeeping, IInv, Idle
<1>12. Marks'
  BY <1>1, <1>2, <1>5, <1>7, <1>8 DEF IInv, Marks
<1>13. Graph'
  <2>1. \A o \in Kept : o \in Offsets
    BY DEF Kept
  <2> QED
    BY <1>1, <1>2, <1>5, <1>9, <1>10, <2>1 DEF IInv, Graph
<1>14. Cells'
  <2>1. \A o \in Kept : kind'[o] = kind[o]
    BY <1>6 DEF Kept
  <2>2. \A o \in Kept : cell[o] \in Ref
    BY DEF IInv, TypeOK, Kept
  <2> QED
    BY <1>1, <1>2, <1>5, <1>7, <1>9, <2>1, <2>2 DEF IInv, Cells
<1>15. Strings'
  <2>1. \A o \in Offsets : kind'[o] = "string" <=> kind[o] = "string"
    BY <1>1, <1>4
  <2>2. \A t \in Texts : interned[t] \in Ref
    BY DEF IInv, TypeOK
  <2> QED
    BY <1>1, <1>2, <1>9, <2>1, <2>2 DEF IInv, Strings, InternedLive, Kept
<1>16. Arrays'
  <2>1. ASSUME NEW o \in Kept, data'[o] # None PROVE kind'[data'[o]] = "payload" /\ owner'[data'[o]] = o
    <3>1. o \in Offsets
      BY <2>1 DEF Kept
    <3>2. CASE o = p
      BY <1>1, <1>3, <3>2 DEF IInv, TypeOK
    <3>3. CASE o # p
      <4>1. data'[o] = data[o] /\ data[o] \in Offsets
        BY <1>1, <2>1, <3>1, <3>3 DEF IInv, TypeOK
      <4>2. kind[data[o]] = "payload" /\ owner[data[o]] = o
        BY <2>1, <4>1 DEF IInv, Arrays
      <4>3. data[o] # d /\ data[o] # data[p]
        BY <1>1, <1>4, <3>3, <4>1, <4>2
      <4> QED
        BY <1>1, <4>1, <4>2, <4>3
    <3> QED
      BY <3>2, <3>3
  <2>2. ASSUME NEW e \in Offsets, kind'[e] = "payload"
        PROVE  /\ owner'[e] # None
               /\ \/ owner'[e] \in Kept /\ data'[owner'[e]] = e
                  \/ /\ Sweeping /\ Ahead(e)
                     /\ \/ SweepBegun /\ e \in sweepPending
                        \/ /\ IsObject(owner'[e]) /\ Dead(owner'[e])
                           /\ SweepBegun => e \in sweepPayloads[owner'[e]]
    <3>1. CASE e = d
      BY <1>1, <1>3, <3>1 DEF IInv, TypeOK
    <3>2. CASE e # d
      <4>1. kind[e] = "payload" /\ e # data[p] /\ owner'[e] = owner[e]
        BY <1>1, <2>2, <3>2
      <4>2. owner[e] \in Kept /\ data[owner[e]] = e => data'[owner[e]] = e
        BY <1>1, <4>1 DEF IInv, TypeOK, Kept
      <4> QED
        BY <4>1, <4>2 DEF IInv, Arrays
    <3> QED
      BY <3>1, <3>2
  <2>3. ASSUME SweepBegun, NEW e \in Offsets, Condemned(e)', Ahead(e)
        PROVE  kind'[e] = "payload" /\ (owner'[e] \in Kept => data'[owner'[e]] # e)
    <3>1. Condemned(e)
      BY <1>2, <1>5, <1>8, <2>3 DEF Condemned
    <3>2. kind[e] = "payload" /\ (owner[e] \in Kept => data[owner[e]] # e)
      BY <2>3, <3>1 DEF IInv, Arrays
    <3>3. e # d /\ e # data[p]
      BY <1>1, <1>3, <1>4, <3>2
    <3>4. kind'[e] = "payload" /\ owner'[e] = owner[e]
      BY <1>1, <3>2, <3>3
    <3>5. owner[e] \in Kept => data'[owner[e]] \in {data[owner[e]], d}
      BY <1>1 DEF IInv, TypeOK, Kept
    <3> QED
      BY <3>2, <3>3, <3>4, <3>5
  <2>4. \A e \in Offsets : kind'[e] = "payload" => owner'[e] \in Ref
    BY DEF TypeOK
  <2> QED
    BY <1>2, <1>5, <1>7, <1>8, <1>9, <2>1, <2>2, <2>3, <2>4 DEF Arrays
<1> QED
  BY <1>11, <1>12, <1>13, <1>14, <1>15, <1>16 DEF IInv

\* Updating an inline cache, natively only outside the window, preserves the
\* invariant (WriteFeedbackCell).
LEMMA CellStep == IInv /\ TypeOK' /\ (UpdateCell \/ UpdateCellNativelyClear) => IInv'
<1> SUFFICES ASSUME IInv, TypeOK', UpdateCell \/ UpdateCellNativelyClear PROVE IInv'
  OBVIOUS
<1>1. PICK p \in Offsets, c \in Offsets :
        /\ WriteCell(p, c)
        /\ weakOwners \subseteq weakOwners'
        /\ phase = "atomic" /\ mark[p] = {"black"} => p \in weakOwners'
  BY DEF UpdateCell, UpdateCellNativelyClear, NativeUpdateCell
<1>2. /\ p \in roots /\ c \in roots /\ cell' = [cell EXCEPT ![p] = c]
      /\ UNCHANGED <<kind, mark, strong, data, owner, text, spanCount, interned, roots, phase,
                     currentWhite, gray, grayAgain, walk, sweepPayloads, sweepPending>>
  BY <1>1 DEF WriteCell
<1>3. \A o \in Offsets : /\ IsObject(o)' <=> IsObject(o)
                         /\ Dead(o)' <=> Dead(o)
                         /\ Ahead(o)' <=> Ahead(o)
                         /\ Children(o)' = Children(o)
  BY <1>2 DEF IsObject, Dead, OtherWhite, Ahead, SweepBegun, Children
<1>4. (Sweeping' <=> Sweeping) /\ (SweepBegun' <=> SweepBegun) /\ OtherWhite' = OtherWhite
  BY <1>2 DEF Sweeping, SweepBegun, OtherWhite
<1>5. Kept' = Kept /\ p \in Kept /\ c \in Kept
  BY <1>2, <1>3, <1>4 DEF Kept, IInv, Graph
<1>6. Bookkeeping'
  BY <1>2, <1>3, <1>4, <1>5 DEF IInv, TypeOK, Bookkeeping, Idle, Kept
<1>7. Marks'
  BY <1>2, <1>3, <1>4 DEF IInv, Marks
<1>8. Graph'
  <2>1. \A o \in Kept : o \in Offsets
    BY DEF Kept
  <2> QED
    BY <1>2, <1>3, <1>5, <2>1 DEF IInv, Graph
<1>9. Cells'
  <2> SUFFICES ASSUME NEW o \in Kept, kind[o] = "closure", cell'[o] # None
               PROVE  /\ IsObject(cell'[o])
                      /\ phase = "atomic" /\ mark[o] = {"black"} => o \in weakOwners'
                      /\ Sweeping => cell'[o] \in Kept \/ (o \in weakOwners' /\ ~SweepBegun)
    BY <1>2, <1>3, <1>4, <1>5 DEF Cells, IsObject
  <2>1. CASE o = p
    BY <1>1, <1>2, <1>5, <2>1 DEF IInv, TypeOK, Kept
  <2>2. CASE o # p
    BY <1>1, <1>2, <2>2 DEF IInv, TypeOK, Cells, Kept
  <2> QED
    BY <2>1, <2>2
<1>10. Strings'
  BY <1>2, <1>5 DEF IInv, Strings, InternedLive
<1>11. Arrays'
  <2>1. \A d \in Offsets : Condemned(d)' <=> Condemned(d)
    BY <1>2, <1>3 DEF Condemned
  <2> QED
    BY <1>2, <1>3, <1>4, <1>5, <2>1 DEF IInv, TypeOK, Arrays
<1> QED
  BY <1>6, <1>7, <1>8, <1>9, <1>10, <1>11 DEF IInv

-----------------------------------------------------------------------------
(* The collector                                                           *)

\* Resetting marks and shading the roots preserves the invariant
\* (resetObjectMarksStep, SeedRoots).
LEMMA PrepareStepInv == IInv /\ TypeOK' /\ PrepareStep => IInv'
<1> SUFFICES ASSUME IInv, TypeOK', PrepareStep PROVE IInv'
  OBVIOUS
<1> DEFINE w == IF walk.active THEN walk
                ELSE [active |-> TRUE, cursor |-> 0, limit |-> spanCount]
           next == IF w.cursor < w.limit THEN w.cursor + 1 ELSE w.limit
           reset == [o \in Offsets |-> IF o = next /\ IsObject(o) THEN {currentWhite} ELSE mark[o]]
           seeded == {o \in roots : currentWhite \in reset[o] /\ "gray" \notin reset[o]
                                                              /\ "black" \notin reset[o]}
<1>1. /\ phase = "pause"
      /\ \/ phase' = "pause" /\ walk' = [w EXCEPT !.cursor = next] /\ mark' = reset
         \/ /\ phase' = "mark" /\ walk' = Idle /\ gray' = seeded
            /\ mark' = [o \in Offsets |-> IF o \in seeded THEN {"gray"} ELSE reset[o]]
      /\ UNCHANGED <<kind, strong, cell, data, owner, text, spanCount, interned, roots,
                     currentWhite, sweepPayloads, sweepPending>>
  BY DEF PrepareStep, Seeded
<1>2. \A o \in Offsets : (IsObject(o)' <=> IsObject(o)) /\ Children(o)' = Children(o)
  BY <1>1 DEF IsObject, Children
<1>3. ~Sweeping /\ ~Sweeping' /\ ~SweepBegun /\ ~SweepBegun'
  BY <1>1 DEF Sweeping, SweepBegun
<1>4. Kept' = Kept
  BY <1>2, <1>3 DEF Kept
<1>5. walk'.limit <= spanCount
  <2>1. w \in [active : BOOLEAN, cursor : Nat, limit : Nat] /\ w.limit <= spanCount
    BY DEF IInv, TypeOK, Bookkeeping
  <2>2. Idle.limit <= spanCount
    BY DEF Idle, IInv, TypeOK
  <2>3. walk' = [w EXCEPT !.cursor = next] \/ walk' = Idle
    BY <1>1
  <2> HIDE DEF w, next
  <2> QED
    BY <2>1, <2>2, <2>3
<1>6. Bookkeeping'
  BY <1>1, <1>2, <1>3, <1>5 DEF IInv, Bookkeeping
<1>7. Marks'
  <2>1. \A o \in Offsets : IsObject(o) => reset[o] = {currentWhite}
    BY <1>1 DEF IInv, Marks
  <2> HIDE DEF reset
  <2>2. ASSUME NEW o \in Offsets, IsObject(o)
        PROVE  /\ phase' = "pause" => mark'[o] = {currentWhite}
               /\ phase' = "mark" => mark'[o] = {currentWhite} \/ (mark'[o] = {"gray"} /\ o \in gray')
    BY <1>1, <2>1, <2>2
  <2> QED
    BY <1>1, <1>2, <1>3, <2>2 DEF Marks
<1>8. Graph'
  <2>1. phase' # "atomic"
    BY <1>1
  <2> QED
    BY <1>1, <1>2, <1>4, <2>1 DEF IInv, Graph, Kept
<1>9. Cells'
  <2>1. phase' # "atomic"
    BY <1>1
  <2>2. \A o \in Kept : cell[o] \in Ref
    BY DEF IInv, TypeOK, Kept
  <2> QED
    BY <1>1, <1>2, <1>3, <1>4, <2>1, <2>2 DEF IInv, Cells
<1>10. Strings'
  <2>1. phase' # "sweepObjects"
    BY <1>1
  <2> QED
    BY <1>1, <1>4, <2>1 DEF IInv, Strings, InternedLive
<1>11. Arrays'
  BY <1>1, <1>3, <1>4 DEF IInv, Arrays
<1> QED
  BY <1>6, <1>7, <1>8, <1>9, <1>10, <1>11 DEF IInv

\* Emptying the gray queue preserves the invariant (Propagate).
LEMMA MarkStepInv == IInv /\ TypeOK' /\ MarkStep => IInv'
<1> SUFFICES ASSUME IInv, TypeOK', MarkStep PROVE IInv'
  OBVIOUS
<1> DEFINE T == Traced(gray)
<1>1. /\ phase = "mark" /\ phase' = "atomic"
      /\ mark' = [o \in Offsets |-> IF o \in T THEN {"black"} ELSE mark[o]]
      /\ weakOwners' = weakOwners \cup {o \in T : kind[o] = "closure" /\ cell[o] # None}
      /\ UNCHANGED <<kind, strong, cell, data, owner, text, spanCount, interned, roots,
                     currentWhite, grayAgain, walk, sweepPayloads, sweepPending>>
  BY DEF MarkStep, Blacken
<1>2. TraceClosed(gray, T) /\ T \subseteq Offsets
  BY TracedClosed DEF IInv, TypeOK
<1> HIDE DEF T
<1>3. \A o \in Offsets : (IsObject(o)' <=> IsObject(o)) /\ Children(o)' = Children(o)
  BY <1>1 DEF IsObject, Children
<1>4. ~Sweeping /\ ~Sweeping' /\ ~SweepBegun /\ ~SweepBegun'
  BY <1>1 DEF Sweeping, SweepBegun
<1>5. Kept' = Kept
  BY <1>3, <1>4 DEF Kept
<1>6. Bookkeeping'
  BY <1>1, <1>3, <1>4 DEF IInv, Bookkeeping, Idle
\* What stays outside T is white, since gray objects are in the queue.
<1>7. \A o \in Offsets : IsObject(o) /\ o \notin T => mark[o] = {currentWhite} /\ mark'[o] = mark[o]
  BY <1>1, <1>2 DEF IInv, Marks, TraceClosed
<1>8. \A o \in T : mark'[o] = {"black"}
  BY <1>1, <1>2
<1>9. Marks'
  BY <1>1, <1>3, <1>4, <1>7, <1>8 DEF Marks
<1>10. Graph'
  <2>1. ASSUME NEW o \in Offsets, IsObject(o), mark'[o] = {"black"}, NEW c \in Children(o)
        PROVE  mark'[c] # {currentWhite}
    <3>1. o \in T
      BY <1>7, <2>1, MarkBits DEF IInv
    <3>2. c \in Offsets /\ IsObject(c)
      BY <2>1, <1>4, ChildOffset DEF IInv, Graph, Kept
    <3>3. c \in T
      <4>1. SUFFICES ASSUME c \notin T PROVE FALSE
        OBVIOUS
      <4>2. Shadeable(c)
        BY <1>7, <3>2, <4>1, MarkBits DEF Shadeable, IInv
      <4> QED
        BY <1>2, <2>1, <3>1, <4>1, <4>2 DEF TraceClosed
    <3> QED
      BY <1>8, <3>3, MarkBits DEF IInv
  <2>2. \A o \in Kept : o \in Offsets
    BY DEF Kept
  <2> QED
    BY <1>1, <1>3, <1>5, <2>1, <2>2 DEF IInv, Graph
<1>11. Cells'
  <2>1. ASSUME NEW o \in Kept, kind[o] = "closure", cell[o] # None, mark'[o] = {"black"}
        PROVE  o \in weakOwners'
    <3>1. o \in T
      BY <1>7, <2>1, MarkBits DEF IInv, Kept
    <3> QED
      BY <1>1, <2>1, <3>1
  <2>2. \A o \in Kept : cell[o] \in Ref
    BY DEF IInv, TypeOK, Kept
  <2> QED
    BY <1>1, <1>3, <1>4, <1>5, <2>1, <2>2 DEF IInv, Cells
<1>12. Strings'
  BY <1>1, <1>5 DEF IInv, Strings, InternedLive
<1>13. Arrays'
  BY <1>1, <1>4, <1>5 DEF IInv, Arrays
<1> QED
  BY <1>6, <1>9, <1>10, <1>11, <1>12, <1>13 DEF IInv

\* The atomic step establishes what the sweep relies on (RunAtomic).
LEMMA AtomicStepInv == IInv /\ TypeOK' /\ AtomicStep => IInv'
<1> SUFFICES ASSUME IInv, TypeOK', AtomicStep PROVE IInv'
  OBVIOUS
<1> DEFINE q == roots \cup gray \cup grayAgain
           T == Traced(q)
<1>1. /\ phase = "atomic" /\ phase' = "sweepStrings" /\ currentWhite' = OtherWhite
      /\ mark' = [o \in Offsets |-> IF o \in T THEN {"black"} ELSE mark[o]]
      /\ weakOwners' = weakOwners \cup {o \in T : kind[o] = "closure" /\ cell[o] # None}
      /\ UNCHANGED <<kind, strong, cell, data, owner, text, spanCount, interned, roots,
                     walk, sweepPayloads, sweepPending>>
  BY DEF AtomicStep, Blacken
<1>2. TraceClosed(q, T) /\ T \subseteq Offsets
  BY TracedClosed DEF IInv, TypeOK
<1> HIDE DEF T
<1>3. \A o \in Offsets : (IsObject(o)' <=> IsObject(o)) /\ Children(o)' = Children(o)
  BY <1>1 DEF IsObject, Children
<1>4. ~Sweeping /\ Sweeping' /\ ~SweepBegun /\ ~SweepBegun'
  BY <1>1 DEF Sweeping, SweepBegun
<1>5. OtherWhite' = currentWhite
  BY <1>1 DEF OtherWhite, IInv, TypeOK, Whites
\* What the atomic step does not blacken it leaves black or, unreached, white.
<1>6. \A o \in Offsets : IsObject(o) /\ o \notin T =>
        mark[o] \in {{currentWhite}, {"black"}} /\ mark'[o] = mark[o]
  BY <1>1, <1>2 DEF IInv, Marks, TraceClosed
<1>7. \A o \in T : mark'[o] = {"black"}
  BY <1>1, <1>2
<1>8. \A o \in Offsets : IsObject(o) => (Dead(o)' <=> mark'[o] # {"black"})
  BY <1>5, <1>6, <1>7, MarkBits DEF Dead, IInv
<1>9. Kept' = {o \in Offsets : IsObject(o) /\ mark'[o] = {"black"}}
  BY <1>3, <1>4, <1>8 DEF Kept
<1>10. Bookkeeping'
  BY <1>1, <1>3, <1>4 DEF IInv, Bookkeeping, Idle
<1>11. Marks'
  BY <1>1, <1>3, <1>4, <1>5, <1>6, <1>7 DEF Marks
<1>12. Graph'
  <2>1. roots' \subseteq Kept'
    <3> SUFFICES ASSUME NEW o \in roots PROVE IsObject(o) /\ o \in Offsets /\ mark'[o] = {"black"}
      BY <1>1, <1>9
    <3>1. IsObject(o) /\ o \in Offsets
      BY DEF IInv, Graph, Kept
    <3>2. ~Shadeable(o) \/ o \in T
      BY <1>2 DEF TraceClosed
    <3>3. mark[o] = {currentWhite} => Shadeable(o)
      BY MarkBits DEF Shadeable, IInv
    <3> QED
      BY <1>6, <1>7, <3>1, <3>2, <3>3
  <2>2. ASSUME NEW o \in Kept', NEW c \in Children(o)
        PROVE  c \in Kept'
    <3>1. o \in Offsets /\ IsObject(o) /\ mark'[o] = {"black"}
      BY <1>9
    <3>2. c \in Offsets /\ IsObject(c)
      BY <1>4, <3>1, ChildOffset DEF IInv, Graph, Kept
    <3>3. mark[c] = {currentWhite} => Shadeable(c)
      BY MarkBits DEF Shadeable, IInv
    <3>4. mark[c] = {currentWhite} => c \in T
      <4>1. CASE o \in T
        BY <1>2, <3>3, <4>1 DEF TraceClosed
      <4>2. CASE o \notin T
        BY <1>1, <1>6, <3>1, <4>2 DEF IInv, Graph
      <4> QED
        BY <4>1, <4>2
    <3> QED
      BY <1>6, <1>7, <1>9, <3>2, <3>4
  <2>3. \A o \in Kept' : o \in Offsets /\ Children(o)' \subseteq Kept'
    BY <1>3, <1>9, <2>2
  <2> QED
    BY <1>1, <2>1, <2>3 DEF Graph
<1>13. Cells'
  <2> SUFFICES ASSUME NEW o \in Kept', kind[o] = "closure", cell[o] # None
               PROVE  IsObject(cell[o]) /\ o \in weakOwners'
    <3>1. \A o \in Kept' : cell[o] \in Ref
      BY <1>9 DEF IInv, TypeOK
    <3> QED
      BY <1>1, <1>3, <1>4, <3>1 DEF Cells
  <2>1. o \in Kept
    BY <1>4, <1>9 DEF Kept
  <2>2. o \in T \/ mark[o] = {"black"}
    BY <1>6, <1>9
  <2> QED
    BY <1>1, <2>1, <2>2 DEF IInv, Cells
<1>14. Strings'
  <2>1. Kept' \subseteq Kept
    BY <1>4, <1>9 DEF Kept
  <2> QED
    BY <1>1, <2>1 DEF IInv, Strings, InternedLive
<1>15. Arrays'
  <2>1. Kept' \subseteq Kept
    BY <1>4, <1>9 DEF Kept
  <2>2. ASSUME NEW d \in Offsets, kind[d] = "payload"
        PROVE  /\ owner[d] # None
               /\ \/ owner[d] \in Kept' /\ data[owner[d]] = d
                  \/ IsObject(owner[d])' /\ Dead(owner[d])'
    <3>1. owner[d] \in Kept /\ owner[d] # None /\ data[owner[d]] = d
      BY <1>4, <2>2 DEF IInv, Arrays
    <3>2. owner[d] \in Offsets /\ IsObject(owner[d])
      BY <3>1 DEF Kept
    <3> QED
      BY <1>1, <1>3, <1>8, <1>9, <3>1, <3>2
  <2>3. \A d \in Offsets : Ahead(d)'
    BY <1>4 DEF Ahead
  <2> QED
    BY <1>1, <1>4, <2>1, <2>2, <2>3 DEF IInv, Arrays
<1> QED
  BY <1>10, <1>11, <1>12, <1>13, <1>14, <1>15 DEF IInv

\* Sweeping the intern table preserves the invariant (SweepDead).
LEMMA SweepStringsStepInv == IInv /\ TypeOK' /\ SweepStringsStep => IInv'
<1> SUFFICES ASSUME IInv, TypeOK', SweepStringsStep PROVE IInv'
  OBVIOUS
<1>1. /\ phase = "sweepStrings" /\ phase' = "sweepObjects"
      /\ interned' = [t \in Texts |-> IF interned[t] # None /\ Dead(interned[t])
                                      THEN None ELSE interned[t]]
      /\ UNCHANGED <<kind, mark, strong, cell, data, owner, text, spanCount, roots, currentWhite,
                     gray, grayAgain, weakOwners, walk, sweepPayloads, sweepPending>>
  BY DEF SweepStringsStep, spanVars
<1>2. walk = Idle /\ ~walk.active
  BY <1>1 DEF IInv, Bookkeeping, Idle
<1>3. Sweeping /\ Sweeping' /\ ~SweepBegun /\ ~SweepBegun' /\ OtherWhite' = OtherWhite
  BY <1>1, <1>2 DEF Sweeping, SweepBegun, OtherWhite
<1>4. \A o \in Offsets : /\ IsObject(o)' <=> IsObject(o)
                         /\ Dead(o)' <=> Dead(o)
                         /\ Ahead(o) /\ Ahead(o)'
                         /\ Children(o)' = Children(o)
  BY <1>1, <1>3 DEF IsObject, Dead, Ahead, Children, OtherWhite
<1>5. Kept' = Kept
  BY <1>3, <1>4 DEF Kept
<1>6. Bookkeeping'
  BY <1>1, <1>3, <1>4 DEF IInv, Bookkeeping
<1>7. Marks'
  BY <1>1, <1>3, <1>4 DEF IInv, Marks
<1>8. Graph'
  BY <1>1, <1>4, <1>5 DEF IInv, Graph, Kept
<1>9. Cells'
  <2>1. \A o \in Kept : cell[o] \in Ref
    BY DEF IInv, TypeOK, Kept
  <2> QED
    BY <1>1, <1>3, <1>4, <1>5, <2>1 DEF IInv, Cells
<1>10. Strings'
  <2>1. InternedLive'
    BY <1>1 DEF IInv, Strings, InternedLive
  <2>2. ASSUME NEW o \in Kept, kind[o] = "string" PROVE text[o] \in Texts /\ interned'[text[o]] = o
    BY <1>1, <1>3, <2>2 DEF IInv, Strings, Kept
  <2>3. ASSUME NEW t \in Texts, interned'[t] # None PROVE interned'[t] \in Kept
    <3>1. interned'[t] = interned[t] /\ ~Dead(interned[t]) /\ interned[t] \in Offsets
      BY <1>1, <2>3 DEF IInv, TypeOK
    <3>2. kind[interned[t]] = "string"
      BY <2>3, <3>1 DEF IInv, Strings, InternedLive
    <3> QED
      BY <3>1, <3>2 DEF Kept, IsObject
  <2> QED
    BY <1>1, <1>5, <2>1, <2>2, <2>3 DEF Strings
<1>11. Arrays'
  <2>1. \A d \in Offsets : kind[d] = "payload" => owner[d] \in Ref
    BY DEF IInv, TypeOK
  <2> QED
    BY <1>1, <1>3, <1>4, <1>5, <2>1 DEF IInv, Arrays
<1> QED
  BY <1>6, <1>7, <1>8, <1>9, <1>10, <1>11 DEF IInv

\* Visiting a span preserves the invariant (sweepSpansStep, finishSweepPhase).
LEMMA SweepStepInv == IInv /\ TypeOK' /\ SweepStep => IInv'
<1> SUFFICES ASSUME IInv, TypeOK', SweepStep PROVE IInv'
  OBVIOUS
<1> DEFINE w == IF ~walk.active THEN [active |-> TRUE, cursor |-> 0, limit |-> spanCount]
                ELSE walk
           payloads == IF ~walk.active
                       THEN [o \in Offsets |-> {d \in Offsets : kind[d] = "payload" /\ owner[d] = o}]
                       ELSE sweepPayloads
           cells == IF ~walk.active THEN Scrubbed(cell, weakOwners) ELSE cell
           next == IF w.cursor < w.limit THEN w.cursor + 1 ELSE w.limit
           visited == IF w.cursor < w.limit THEN {next} ELSE {}
           freed == {o \in visited : Dies(o)}
           kept == {o \in visited \ freed : IsObject(o)}
           ahead(o) == w.cursor < o /\ o <= w.limit
           condemned(d) == \/ d \in sweepPending
                           \/ \E x \in Offsets : IsObject(x) /\ Dead(x) /\ d \in payloads[x]
<1>1. /\ phase = "sweepObjects"
      /\ kind' = [o \in Offsets |-> IF o \in freed THEN "free" ELSE kind[o]]
      /\ mark' = [o \in Offsets |-> IF o \in freed THEN {}
                                    ELSE IF o \in kept THEN {currentWhite} ELSE mark[o]]
      /\ strong' = [o \in Offsets |-> IF o \in freed THEN None ELSE strong[o]]
      /\ data' = [o \in Offsets |-> IF o \in freed THEN None ELSE data[o]]
      /\ owner' = [o \in Offsets |-> IF o \in freed THEN None ELSE owner[o]]
      /\ text' = [o \in Offsets |-> IF o \in freed THEN NoText ELSE text[o]]
      /\ UNCHANGED <<spanCount, interned, roots, currentWhite>>
  BY DEF SweepStep
<1>2. \A o \in Offsets : cell'[o] \in (IF o \in freed THEN {None} ELSE {cells[o], None})
  BY DEF SweepStep
<1>3. \/ /\ next >= w.limit /\ phase' = "pause" /\ walk' = Idle /\ sweepPending' = {}
      \/ /\ ~(next >= w.limit) /\ phase' = "sweepObjects" /\ walk' = [w EXCEPT !.cursor = next]
         /\ sweepPayloads' = [o \in Offsets |-> IF o \in freed /\ IsObject(o) THEN {}
                                                ELSE payloads[o]]
         /\ sweepPending' = (sweepPending \ freed)
                              \cup UNION {payloads[o] : o \in freed \cap Objects}
  BY DEF SweepStep
\* The walk: what is ahead of it is the next span and what is ahead after it.
<1>4. /\ w \in [active : BOOLEAN, cursor : Nat, limit : Nat] /\ w.active
      /\ w.limit <= spanCount /\ next \in Nat
  BY DEF IInv, TypeOK, Bookkeeping
<1>5. \A o \in Offsets : ahead(o) => o = next \/ (next < o /\ ~(next >= w.limit))
  BY <1>4
<1>6. \A o \in visited : o = next /\ ahead(o)
  BY <1>4
<1>7. \A o \in Offsets : ahead(o) /\ o = next => o \in visited
  BY <1>4
<1>8. \A o \in Offsets : SweepBegun => (ahead(o) <=> Ahead(o))
  BY DEF SweepBegun, Ahead
<1>9. \A o \in Offsets : kind[o] # "free" /\ ~SweepBegun => ahead(o)
  BY <1>1 DEF IInv, Bookkeeping, SweepBegun, TypeOK
<1>10. phase' = "sweepObjects" =>
         SweepBegun' /\ walk'.cursor = next /\ walk'.limit = w.limit
  <2> HIDE DEF w, next
  <2> QED
    BY <1>3, <1>4 DEF SweepBegun
<1>11. phase' = "pause" => ~SweepBegun' /\ ~Sweeping'
  BY DEF SweepBegun, Sweeping
<1>12. Sweeping /\ OtherWhite' = OtherWhite
  BY <1>1 DEF Sweeping, OtherWhite
<1>13. payloads \in [Offsets -> SUBSET Offsets]
  BY DEF IInv, TypeOK
<1>14. \A d, x \in Offsets : /\ kind[d] = "payload" /\ owner[d] = x /\ ~SweepBegun
                            => d \in payloads[x]
  BY <1>1 DEF SweepBegun
\* A condemned payload that is still ahead is no kept table's array.
<1>15. \A d \in Offsets : condemned(d) /\ ahead(d) =>
         kind[d] = "payload" /\ (owner[d] \in Kept => data[owner[d]] # d)
  <2>1. CASE SweepBegun
    <3>1. payloads = sweepPayloads
      BY <2>1 DEF SweepBegun
    <3> QED
      BY <1>8, <2>1, <3>1 DEF IInv, Arrays, Condemned
  <2>2. CASE ~SweepBegun
    <3>1. sweepPending = {}
      BY <2>2 DEF IInv, Bookkeeping
    <3>2. \A d, x \in Offsets : d \in payloads[x] => kind[d] = "payload" /\ owner[d] = x
      BY <1>1, <2>2 DEF SweepBegun
    <3> QED
      BY <1>12, <3>1, <3>2 DEF Kept
  <2> QED
    BY <2>1, <2>2
<1>16. \A o \in Kept : cells[o] = None \/ kind[o] # "closure" \/ cells[o] \in Kept
  <2>1. CASE SweepBegun
    BY <1>12, <2>1 DEF IInv, Cells, SweepBegun
  <2>2. CASE ~SweepBegun
    <3>1. \A o \in Offsets : cells[o] = Scrubbed(cell, weakOwners)[o]
      BY <1>1, <2>2 DEF SweepBegun
    <3>2. \A o \in Kept : kind[o] = "closure" /\ cell[o] # None =>
            cell[o] \in Offsets /\ IsObject(cell[o]) /\ (cell[o] \in Kept \/ o \in weakOwners)
      BY <1>12, <2>2 DEF IInv, Cells, TypeOK, Kept
    <3> QED
      BY <1>12, <3>1, <3>2 DEF Scrubbed, DeadOrStale, Kept
  <2> QED
    BY <2>1, <2>2
<1>17. freed \subseteq visited /\ kept \subseteq visited /\ \A o \in visited : o \in freed <=> Dies(o)
  OBVIOUS
<1>18. \A o \in kept : IsObject(o) /\ o \notin freed
  OBVIOUS
<1>19. \A o \in visited \ freed : IsObject(o) => o \in kept
  OBVIOUS
<1>20. visited \subseteq Offsets
  BY <1>4 DEF IInv, TypeOK
<1> HIDE DEF w, payloads, cells, next, visited, freed, kept, ahead
<1>21. \A o \in Offsets : IsObject(o)' <=> IsObject(o) /\ o \notin freed
  BY <1>1 DEF IsObject
<1>22. \A o \in Offsets : o \in freed /\ IsObject(o) => Dead(o)
  BY <1>17 DEF Dies, IsObject
<1>23. \A o \in Offsets : IsObject(o) /\ Dead(o) /\ o \in visited => o \in freed
  BY <1>17 DEF Dies
<1>24. \A o \in Offsets : IsObject(o)' /\ o \notin visited => mark'[o] = mark[o]
  BY <1>1, <1>17
<1>25. \A o \in Offsets : IsObject(o)' /\ o \in visited => mark'[o] = {currentWhite} /\ ~Dead(o)
  BY <1>1, <1>19, <1>21, <1>23
<1>26. \A o \in Offsets : IsObject(o) /\ ~ahead(o) => mark[o] = {currentWhite}
  BY <1>8, <1>9 DEF IInv, Marks, IsObject
\* No object is dead any more once the sweep is done.
<1>27. \A o \in Offsets : IsObject(o)' /\ phase' = "pause" => mark'[o] = {currentWhite}
  BY <1>3, <1>5, <1>7, <1>21, <1>24, <1>25, <1>26
<1>28. \A o \in Offsets : mark[o] = {currentWhite} => ~Dead(o)
  BY MarkBits DEF Dead, IInv
<1>29. \A o \in Offsets : mark'[o] = {currentWhite} => ~Dead(o)'
  BY <1>1, <1>12, MarkBits DEF Dead, IInv
<1>30. \A o \in Offsets : IsObject(o)' => (Dead(o)' <=> Dead(o) /\ o \notin visited)
  BY <1>12, <1>24, <1>25, <1>29 DEF Dead
<1>31. \A o \in Kept : o \in Offsets /\ IsObject(o) /\ ~Dead(o) /\ o \notin freed
  BY <1>12, <1>22 DEF Kept
<1>32. Kept' = Kept
  <2>1. ASSUME NEW o \in Kept PROVE o \in Kept'
    BY <1>21, <1>30, <1>31 DEF Kept
  <2>2. ASSUME NEW o \in Kept' PROVE o \in Kept
    <3>1. o \in Offsets /\ IsObject(o)' /\ (Sweeping' => ~Dead(o)')
      BY DEF Kept
    <3>2. ~Dead(o)
      <4>1. CASE phase' = "pause"
        BY <1>24, <1>25, <1>27, <1>28, <3>1, <4>1
      <4>2. CASE phase' = "sweepObjects"
        BY <1>25, <1>30, <3>1, <4>2 DEF Sweeping
      <4> QED
        BY <1>3, <4>1, <4>2
    <3> QED
      BY <1>21, <3>1, <3>2 DEF Kept
  <2> QED
    BY <2>1, <2>2
<1>33. \A o \in Offsets : o \notin freed =>
         /\ kind'[o] = kind[o] /\ strong'[o] = strong[o] /\ data'[o] = data[o]
         /\ owner'[o] = owner[o] /\ text'[o] = text[o]
  BY <1>1
<1>34. Bookkeeping'
  <2>1. ASSUME NEW o \in Offsets, kind'[o] # "free" PROVE o <= spanCount
    BY <1>1, <2>1 DEF IInv, Bookkeeping
  <2>2. ASSUME NEW o \in Offsets, ~IsObject(o)'
        PROVE  strong'[o] = None /\ cell'[o] = None /\ data'[o] = None
    <3>1. CASE o \in freed
      BY <1>1, <1>2, <3>1
    <3>2. CASE o \notin freed
      <4>1. strong[o] = None /\ cell[o] = None /\ data[o] = None
        BY <1>21, <2>2, <3>2 DEF IInv, Bookkeeping
      <4>2. cells[o] = None
        BY <4>1 DEF cells, Scrubbed
      <4> QED
        BY <1>2, <1>33, <3>2, <4>1, <4>2
    <3> QED
      BY <3>1, <3>2
  <2>3. walk'.limit <= spanCount
    BY <1>3, <1>4, <1>10 DEF Idle, IInv, TypeOK
  <2> QED
    BY <1>1, <1>3, <1>10, <2>1, <2>2, <2>3 DEF Bookkeeping
<1>35. Marks'
  <2> SUFFICES ASSUME NEW o \in Offsets, IsObject(o)', phase' = "sweepObjects"
               PROVE  /\ mark'[o] \in {{currentWhite}, {OtherWhite}, {"black"}}
                      /\ ~Ahead(o)' => mark'[o] = {currentWhite}
    BY <1>1, <1>3, <1>11, <1>12, <1>27 DEF Marks
  <2>1. IsObject(o) /\ mark[o] \in {{currentWhite}, {OtherWhite}, {"black"}}
    BY <1>12, <1>21 DEF IInv, Marks
  <2>2. mark'[o] = mark[o] \/ mark'[o] = {currentWhite}
    BY <1>24, <1>25
  <2>3. ASSUME ~Ahead(o)' PROVE mark'[o] = {currentWhite}
    <3>1. ~(next < o /\ o <= w.limit)
      BY <1>10, <2>3 DEF Ahead
    <3>2. ~ahead(o) \/ o \in visited
      BY <1>5, <1>7, <3>1 DEF ahead
    <3> QED
      BY <1>24, <1>25, <1>26, <2>1, <3>2
  <2> QED
    BY <2>1, <2>2, <2>3
<1>36. Graph'
  <2>1. \A o \in Kept : Children(o)' = Children(o)
    BY <1>21, <1>31, <1>33 DEF Children
  <2>2. phase' # "atomic"
    BY <1>3
  <2> QED
    BY <1>1, <1>32, <2>1, <2>2 DEF IInv, Graph
<1>37. Cells'
  <2> SUFFICES ASSUME NEW o \in Kept, kind'[o] = "closure", cell'[o] # None
               PROVE  IsObject(cell[o])' /\ cell'[o] \in Kept
    BY <1>3, <1>32 DEF Cells
  <2>1. kind[o] = "closure" /\ cell'[o] = cells[o]
    BY <1>2, <1>31, <1>33
  <2>2. cell'[o] \in Kept
    BY <1>16, <2>1
  <2>3. \A c \in Kept : kind'[c] = kind[c] /\ IsObject(c)
    BY <1>31, <1>33
  <2> QED
    BY <2>2, <2>3 DEF IsObject
<1>38. Strings'
  <2>1. \A t \in Texts : interned[t] # None => interned[t] \in Kept
    BY <1>1 DEF IInv, Strings
  <2>2. InternedLive'
    BY <1>1, <1>31, <1>33, <2>1 DEF IInv, Strings, InternedLive
  <2> QED
    BY <1>1, <1>31, <1>32, <1>33, <2>1, <2>2 DEF IInv, Strings
<1>39. Arrays'
  <2>1. ASSUME NEW o \in Kept, data'[o] # None
        PROVE  kind'[data'[o]] = "payload" /\ owner'[data'[o]] = o
    <3>1. data'[o] = data[o] /\ data[o] \in Offsets
      BY <1>31, <1>33, <2>1 DEF IInv, TypeOK
    <3>2. kind[data[o]] = "payload" /\ owner[data[o]] = o /\ o # None
      BY <1>31, <2>1, <3>1 DEF IInv, Arrays
    <3>3. data[o] \notin freed
      <4> SUFFICES ASSUME data[o] \in freed PROVE FALSE
        OBVIOUS
      <4>1. ahead(data[o]) /\ Dies(data[o])
        BY <1>6, <1>17
      <4>2. data[o] \notin sweepPending
        BY <1>15, <3>1, <3>2, <4>1
      <4> QED
        BY <1>31, <3>2, <4>1, <4>2 DEF Dies, DeadOrStale, IsObject
    <3> QED
      BY <1>33, <3>1, <3>2, <3>3
  <2>2. ASSUME NEW d \in Offsets, kind'[d] = "payload"
        PROVE  /\ owner'[d] # None
               /\ \/ owner'[d] \in Kept /\ data'[owner'[d]] = d
                  \/ /\ Sweeping' /\ Ahead(d)'
                     /\ \/ SweepBegun' /\ d \in sweepPending'
                        \/ /\ IsObject(owner[d])' /\ Dead(owner[d])'
                           /\ SweepBegun' => d \in sweepPayloads'[owner'[d]]
    <3>1. d \notin freed /\ kind[d] = "payload" /\ owner'[d] = owner[d]
      BY <1>1, <2>2
    <3>2. owner[d] # None /\ owner[d] \in Offsets
      BY <3>1 DEF IInv, Arrays, TypeOK
    <3>3. CASE owner[d] \in Kept /\ data[owner[d]] = d
      BY <1>31, <1>33, <3>1, <3>2, <3>3
    <3>4. CASE ~(owner[d] \in Kept /\ data[owner[d]] = d)
      <4>1. /\ Ahead(d)
            /\ \/ SweepBegun /\ d \in sweepPending
               \/ /\ IsObject(owner[d]) /\ Dead(owner[d])
                  /\ SweepBegun => d \in sweepPayloads[owner[d]]
        BY <3>1, <3>4 DEF IInv, Arrays
      <4>2. ahead(d)
        BY <1>8, <1>9, <3>1, <4>1
      <4>3. d \in sweepPending \/ (IsObject(owner[d]) /\ Dead(owner[d]) /\ d \in payloads[owner[d]])
        BY <1>14, <3>1, <3>2, <4>1 DEF payloads, SweepBegun
      <4>4. Dies(d)
        BY <3>1, <3>2, <4>3 DEF Dies, DeadOrStale
      <4>5. d \notin visited
        BY <1>17, <3>1, <4>4
      <4>6. next < d /\ ~(next >= w.limit)
        BY <1>5, <1>7, <4>2, <4>5
      <4>7. phase' = "sweepObjects" /\ Sweeping' /\ SweepBegun' /\ Ahead(d)'
        BY <1>3, <1>10, <4>2, <4>6 DEF Sweeping, Ahead, ahead
      <4>8. CASE d \in sweepPending
        BY <1>3, <3>1, <3>2, <4>6, <4>7, <4>8
      <4>9. CASE IsObject(owner[d]) /\ Dead(owner[d]) /\ d \in payloads[owner[d]]
        <5>1. CASE owner[d] \in freed
          <6>1. owner[d] \in freed \cap Objects
            BY <3>2, <4>9, <5>1 DEF Objects
          <6> QED
            BY <1>3, <3>1, <3>2, <4>6, <4>7, <4>9, <6>1
        <5>2. CASE owner[d] \notin freed
          <6>1. IsObject(owner[d])' /\ Dead(owner[d])' /\ owner'[d] = owner[d]
            BY <1>21, <1>23, <1>30, <3>1, <3>2, <4>9, <5>2
          <6>2. d \in sweepPayloads'[owner[d]]
            BY <1>3, <3>2, <4>6, <4>9, <5>2
          <6> QED
            BY <3>2, <4>7, <6>1, <6>2
        <5> QED
          BY <5>1, <5>2
      <4> QED
        BY <4>3, <4>8, <4>9
    <3> QED
      BY <3>3, <3>4
  <2>3. ASSUME SweepBegun', NEW d \in Offsets, Condemned(d)', Ahead(d)'
        PROVE  kind'[d] = "payload" /\ (owner'[d] \in Kept => data'[owner'[d]] # d)
    <3>1. phase' = "sweepObjects" /\ ~(next >= w.limit)
      BY <1>3, <2>3 DEF SweepBegun
    <3>2. next < d /\ d <= w.limit
      BY <1>10, <2>3, <3>1 DEF Ahead
    <3>3. ahead(d) /\ d \notin visited
      BY <1>4, <1>6, <3>2 DEF ahead, next
    <3>4. condemned(d)
      <4>1. CASE d \in sweepPending'
        <5>1. d \in sweepPending \/ \E x \in freed \cap Objects : d \in payloads[x]
          BY <1>3, <3>1, <4>1
        <5> QED
          BY <1>22, <5>1 DEF Objects
      <4>2. CASE \E x \in Offsets : IsObject(x)' /\ Dead(x)' /\ d \in sweepPayloads'[x]
        BY <1>3, <1>21, <1>30, <3>1, <4>2
      <4> QED
        BY <2>3, <4>1, <4>2 DEF Condemned
    <3>5. kind[d] = "payload" /\ (owner[d] \in Kept => data[owner[d]] # d)
      BY <1>15, <3>3, <3>4
    <3>6. d \notin freed
      BY <1>17, <3>3
    <3> QED
      BY <1>31, <1>33, <3>5, <3>6
  <2> QED
    BY <1>32, <2>1, <2>2, <2>3 DEF Arrays
<1> QED
  BY <1>34, <1>35, <1>36, <1>37, <1>38, <1>39 DEF IInv

-----------------------------------------------------------------------------
(* The theorems                                                            *)

\* Every step of a clear program and of the collector preserves the invariant.
LEMMA InvariantStep == IInv /\ [ClearNext]_vars => IInv'
<1> SUFFICES ASSUME IInv, [ClearNext]_vars PROVE IInv'
  OBVIOUS
<1>1. TypeOK'
  BY TypeStep DEF IInv
<1>2. CASE ClearProgram
  BY <1>1, <1>2, NewObjectStep, InternStep, DropRootStep, LoadStep, StoreStep, GrowArrayStep, CellStep
  DEF ClearProgram, SafeProgram
<1>3. CASE CollectorStep
  BY <1>1, <1>3, PrepareStepInv, MarkStepInv, AtomicStepInv, SweepStringsStepInv, SweepStepInv
  DEF CollectorStep
<1>4. CASE UNCHANGED vars
  <2>1. roots' \subseteq Kept /\ UNCHANGED <<spanVars, interned, gcVars>>
    BY <1>4 DEF vars, IInv, Graph
  <2> QED
    BY <1>1, <2>1, RootsStep
<1> QED
  BY <1>2, <1>3, <1>4 DEF ClearNext

\* The invariant of CollectorInvariant holds in every state a clear program
\* reaches, however the steps of a cycle fall between its own.
THEOREM CollectorInductive == ClearSpec => []IInv
<1>1. Init => IInv
  BY InitIInv
<1>2. IInv /\ [ClearNext]_vars => IInv'
  BY InvariantStep
<1> QED
  BY <1>1, <1>2, PTL DEF ClearSpec

\* The kept objects are one of the closed sets that reachability intersects.
LEMMA ReachableKept ==
  ASSUME IInv
  PROVE  Reachable \subseteq Kept /\ \A o \in Kept : o \in Offsets /\ IsObject(o)
<1>1. Kept \in SUBSET Offsets /\ roots \subseteq Kept /\ \A p \in Kept : Children(p) \subseteq Kept
  BY DEF Kept, IInv, Graph
<1> QED
  BY <1>1 DEF Reachable, Kept

\* The state of the collector, its queues and marks and the program's heap,
\* stays well typed.
THEOREM TypeCorrect == ClearSpec => []TypeOK
<1>1. IInv => TypeOK
  BY DEF IInv
<1> QED
  BY <1>1, CollectorInductive, PTL

\* No object that the program can reach is ever swept: the marking, the write
\* barrier, the second root scan of the atomic step and the white flip together
\* hide nothing from the sweep (RunAtomic, writeBarrier, sweepSpansStep).
THEOREM ReachableNeverFreed == ClearSpec => []ReachableLive
<1>1. IInv => ReachableLive
  BY ReachableKept DEF ReachableLive
<1> QED
  BY <1>1, CollectorInductive, PTL

\* A reachable table keeps its array payload through sweeps that free and
\* recycle the spans around it (markSweepPayloads, ownerIsDead).
THEOREM ArraysNeverFreed == ClearSpec => []ArraysLive
<1>1. IInv => ArraysLive
  BY ReachableKept DEF ArraysLive, IInv, Arrays
<1> QED
  BY <1>1, CollectorInductive, PTL

\* The cells of reachable closures never refer to freed spans: what the cycle
\* remembers as weak owners suffices for the scrub (RememberWeakOwner,
\* scrubWeakEdges).
THEOREM CellsNeverStale == ClearSpec => []CellsFresh
<1>1. IInv => CellsFresh
  BY ReachableKept DEF CellsFresh, IInv, Cells
<1> QED
  BY <1>1, CollectorInductive, PTL

\* The intern table has no dangling entry, and reachable strings with the same
\* text are the same object (Intern, SweepDead).
THEOREM InterningSound == ClearSpec => [](InternedLive /\ InternIdentity)
<1>1. IInv => InternedLive
  BY DEF IInv, Strings
<1>2. IInv => InternIdentity
  BY ReachableKept DEF InternIdentity, IInv, Strings
<1> QED
  BY <1>1, <1>2, CollectorInductive, PTL

\* When the collector pauses, every payload is the array of a live object: a
\* sweep leaves no payload of a dead owner behind (snapshotSweepPayloads).
THEOREM NoPayloadLeaks == ClearSpec => []NoOrphanPayload
<1>1. IInv => NoOrphanPayload
  <2> SUFFICES ASSUME IInv, phase = "pause", NEW d \in Offsets, kind[d] = "payload"
               PROVE  owner[d] # None /\ data[owner[d]] = d
    BY DEF NoOrphanPayload
  <2>1. ~Sweeping
    BY DEF Sweeping
  <2> QED
    BY <2>1 DEF IInv, Arrays
<1> QED
  BY <1>1, CollectorInductive, PTL
-----------------------------------------------------------------------------
(* One cycle is enough                                                     *)

\* Where the doomed objects are: while the cycle marks, in nobody's reach but their own, white,
\* and in no queue; from the flip on, dead.
Doomed ==
  /\ doomed \subseteq Objects /\ doomed \cap roots = {}
  /\ phase = "pause" => doomed = {}
  /\ phase \in {"mark", "atomic"} =>
       /\ \A o \in doomed : mark[o] = {currentWhite}
       /\ doomed \cap (gray \cup grayAgain) = {}
       /\ \A o \in Offsets \ doomed : Children(o) \cap doomed = {}
  /\ Sweeping => \A o \in doomed : Dead(o)

\* A string refers to nothing, so that interning a doomed one brings nothing else back.
StringsAreLeaves == \A o \in Offsets : kind[o] = "string" => strong[o] = None

GInv == IInv /\ Doomed /\ StringsAreLeaves

\* What a step of the program does to doomed objects that it does not publish: nothing.
PassesBy ==
  /\ UNCHANGED <<phase, currentWhite, gray>>
  /\ \A o \in doomed : IsObject(o)' /\ mark'[o] = mark[o] /\ o \notin grayAgain' \ grayAgain
  /\ phase \in {"mark", "atomic"} =>
       /\ \A o \in Offsets \ doomed : Children(o)' \cap doomed = {}
       /\ \A o \in doomed \cap roots' : Children(o)' = {}

\* Such a step leaves the doomed objects where they are.
LEMMA PassingBy ==
  ASSUME GInv, PassesBy, doomed' = Reprieved
  PROVE  Doomed'
<1>1. /\ doomed' = doomed \ (roots' \cup {o \in Offsets : kind'[o] = "free"})
      /\ doomed \subseteq Offsets /\ \A o \in doomed : IsObject(o)
  BY DEF Reprieved, GInv, Doomed, Objects
<1>2. phase' = phase /\ currentWhite' = currentWhite /\ gray' = gray /\ OtherWhite' = OtherWhite
  BY DEF PassesBy, OtherWhite
<1>3. doomed' \subseteq Objects' /\ doomed' \cap roots' = {}
  BY <1>1 DEF PassesBy, Objects
<1>4. phase' = "pause" => doomed' = {}
  BY <1>1, <1>2 DEF GInv, Doomed
<1>5. ASSUME phase' \in {"mark", "atomic"}
      PROVE  /\ \A o \in doomed' : mark'[o] = {currentWhite'}
             /\ doomed' \cap (gray' \cup grayAgain') = {}
             /\ \A o \in Offsets \ doomed' : Children(o)' \cap doomed' = {}
  <2>1. \A o \in doomed' : o \in doomed
    BY <1>1
  <2>2. \A o \in doomed : mark[o] = {currentWhite} /\ o \notin gray /\ o \notin grayAgain
    BY <1>2, <1>5 DEF GInv, Doomed
  <2>3. \A o \in doomed' : mark'[o] = {currentWhite'} /\ o \notin gray' /\ o \notin grayAgain'
    BY <1>2, <2>1, <2>2 DEF PassesBy
  <2>4. ASSUME NEW o \in Offsets \ doomed' PROVE Children(o)' \cap doomed' = {}
    <3>1. CASE o \in doomed
      <4>1. o \in roots' \/ kind'[o] = "free"
        BY <1>1, <2>4, <3>1
      <4>2. o \in doomed \cap roots'
        BY <3>1, <4>1 DEF PassesBy, IsObject
      <4> QED
        BY <1>2, <1>5, <4>2 DEF PassesBy
    <3>2. CASE o \notin doomed
      BY <1>2, <1>5, <2>1, <2>4, <3>2 DEF PassesBy
    <3> QED
      BY <3>1, <3>2
  <2> QED
    BY <2>3, <2>4
<1>6. Sweeping' => \A o \in doomed' : Dead(o)'
  BY <1>1, <1>2 DEF GInv, Doomed, PassesBy, Sweeping, Dead
<1> QED
  BY <1>3, <1>4, <1>5, <1>6 DEF Doomed

\* Steps that change roots only: what they publish is not doomed, or is a string.
LEMMA RootsPassBy ==
  ASSUME GInv, UNCHANGED <<spanVars, interned, gcVars>>,
         \A o \in doomed \cap roots' : phase \in {"mark", "atomic"} => kind[o] = "string"
  PROVE  PassesBy
<1>1. /\ UNCHANGED <<phase, currentWhite, gray, grayAgain, mark, kind, strong>>
      /\ doomed \subseteq Offsets /\ \A o \in doomed : IsObject(o)
  BY DEF spanVars, gcVars, GInv, Doomed, Objects
<1>2. \A o \in Offsets : (IsObject(o)' <=> IsObject(o)) /\ Children(o)' = Children(o)
  BY <1>1 DEF IsObject, Children
<1>3. \A o \in Offsets : kind[o] = "string" => Children(o) = {}
  BY DEF GInv, StringsAreLeaves, Children
<1> QED
  BY <1>1, <1>2, <1>3 DEF PassesBy, GInv, Doomed

\* A new object refers to nothing (AllocObject).
LEMMA PlacedPassesBy ==
  ASSUME GInv, NEW p \in Offsets, NEW k \in {"table", "closure", "string"}, NEW t \in Texts \cup {NoText},
         PlaceObject(p, k, t)
  PROVE  PassesBy
<1>1. Placed(p, k, t)
  BY PlaceObjectEffect DEF GInv
<1>2. /\ doomed \subseteq Offsets /\ p \notin doomed /\ \A o \in doomed : IsObject(o)
      /\ doomed \cap roots = {}
  BY <1>1 DEF GInv, Doomed, Objects, Placed
<1>3. \A o \in doomed : IsObject(o)' /\ mark'[o] = mark[o]
  BY <1>1, <1>2 DEF Placed, IsObject
<1>4. doomed \cap roots' = {}
  BY <1>1, <1>2 DEF Placed
<1>5. phase \in {"mark", "atomic"} => \A o \in Offsets \ doomed : Children(o)' \cap doomed = {}
  BY <1>1 DEF Placed, GInv, Doomed
<1> QED
  BY <1>1, <1>3, <1>4, <1>5 DEF PassesBy, Placed

\* A store joins two roots, which are not doomed (writeBarrier).
LEMMA StoredPassesBy ==
  ASSUME GInv, NEW p \in Offsets, NEW c \in Ref, Stored(p, c)
  PROVE  PassesBy
<1>1. /\ strong' = [strong EXCEPT ![p] = c] /\ p \in roots /\ c \in roots \cup {None}
      /\ UNCHANGED <<kind, roots, phase, currentWhite, gray>>
      /\ \/ mark' = [mark EXCEPT ![p] = {"gray"}] /\ grayAgain' = grayAgain \cup {p}
         \/ UNCHANGED <<mark, grayAgain>>
  BY DEF Stored, StoreField, Mutable
<1>2. /\ doomed \subseteq Offsets /\ \A o \in doomed : IsObject(o) /\ o # p /\ o # c /\ o # None
      /\ doomed \cap roots = {}
  BY <1>1 DEF GInv, Doomed, Objects, IInv, TypeOK
<1>3. /\ mark \in [Offsets -> SUBSET (Whites \cup {"gray", "black"})] /\ strong \in [Offsets -> Ref]
  BY DEF GInv, IInv, TypeOK
<1>4. \A o \in doomed : IsObject(o)' /\ mark'[o] = mark[o] /\ o \notin grayAgain' \ grayAgain
  BY <1>1, <1>2, <1>3 DEF IsObject
<1>5. ASSUME phase \in {"mark", "atomic"}, NEW o \in Offsets \ doomed
      PROVE  Children(o)' \cap doomed = {}
  <2>1. CASE o = p
    BY <1>1, <1>2, <1>3, <2>1 DEF Children
  <2>2. CASE o # p
    <3>1. Children(o)' = Children(o)
      BY <1>1, <1>3, <2>2 DEF Children, IsObject
    <3> QED
      BY <1>5, <3>1 DEF GInv, Doomed
  <2> QED
    BY <2>1, <2>2
<1> QED
  BY <1>1, <1>2, <1>4, <1>5 DEF PassesBy

\* Payloads are no objects (ensureArrayCapacity).
LEMMA GrowPassesBy ==
  ASSUME GInv, GrowArray
  PROVE  PassesBy
<1>1. PICK p \in roots, d \in Offsets :
        /\ kind[p] = "table" /\ kind[d] = "free"
        /\ kind' = [o \in Offsets |-> IF o = d THEN "payload"
                                      ELSE IF o = data[p] THEN "free" ELSE kind[o]]
        /\ UNCHANGED <<mark, strong, cell, text, interned, roots, gcVars>>
  BY DEF GrowArray, Allocatable, Carve
<1>2. UNCHANGED <<phase, currentWhite, gray, grayAgain>>
  BY <1>1 DEF gcVars
<1>3. p \in Kept /\ p \in Offsets
  BY <1>1 DEF GInv, IInv, Graph, Kept
<1>4. data[p] # None => kind[data[p]] = "payload"
  BY <1>3 DEF GInv, IInv, Arrays
<1>5. \A o \in Offsets : IsObject(o)' <=> IsObject(o)
  BY <1>1, <1>4 DEF IsObject
<1>6. \A o \in Offsets : Children(o)' = Children(o)
  BY <1>1, <1>5 DEF Children
<1>7. doomed \subseteq Offsets /\ \A o \in doomed : IsObject(o) /\ o \notin roots
  BY DEF GInv, Doomed, Objects
<1> QED
  BY <1>1, <1>2, <1>5, <1>6, <1>7 DEF PassesBy, GInv, Doomed

\* Cells are weak (WriteFeedbackCell).
LEMMA CellPassesBy ==
  ASSUME GInv, UpdateCell \/ UpdateCellNativelyClear
  PROVE  PassesBy
<1>1. UNCHANGED <<kind, mark, strong, roots, phase, currentWhite, gray, grayAgain>>
  BY DEF UpdateCell, UpdateCellNativelyClear, NativeUpdateCell, WriteCell
<1>2. \A o \in Offsets : (IsObject(o)' <=> IsObject(o)) /\ Children(o)' = Children(o)
  BY <1>1 DEF IsObject, Children
<1>3. doomed \subseteq Offsets /\ \A o \in doomed : IsObject(o) /\ o \notin roots
  BY DEF GInv, Doomed, Objects
<1> QED
  BY <1>1, <1>2, <1>3 DEF PassesBy, GInv, Doomed

\* So do all steps of a clear program.
LEMMA ProgramPassesBy ==
  ASSUME GInv, ClearProgram
  PROVE  PassesBy
<1>1. doomed \subseteq Offsets /\ \A o \in doomed : IsObject(o) /\ o \notin roots
  BY DEF GInv, Doomed, Objects
<1>2. CASE NewObject
  <2>1. PICK p \in Offsets, k \in Kinds : PlaceObject(p, k, NoText)
    BY <1>2 DEF NewObject
  <2> QED
    BY <2>1, PlacedPassesBy
<1>3. CASE InternClear
  <2>1. PICK t \in Texts : InternExisting(t) \/ InternNew(t)
    BY <1>3 DEF InternClear
  <2>2. CASE InternExisting(t)
    <3>1. /\ roots' = roots \cup {interned[t]} /\ interned[t] # None
          /\ UNCHANGED <<spanVars, interned, gcVars>>
      BY <2>2 DEF InternExisting
    <3>2. kind[interned[t]] = "string"
      BY <3>1 DEF GInv, IInv, Strings, InternedLive
    <3>3. \A o \in doomed \cap roots' : kind[o] = "string"
      BY <1>1, <3>1, <3>2
    <3> QED
      BY <3>1, <3>3, RootsPassBy
  <2>3. CASE InternNew(t)
    <3>1. PICK p \in Offsets : PlaceObject(p, "string", t)
      BY <2>3 DEF InternNew
    <3> QED
      BY <3>1, PlacedPassesBy
  <2> QED
    BY <2>1, <2>2, <2>3
<1>4. CASE DropRoot
  <2>1. roots' \subseteq roots /\ UNCHANGED <<spanVars, interned, gcVars>>
    BY <1>4 DEF DropRoot
  <2> QED
    BY <1>1, <2>1, RootsPassBy
<1>5. CASE Load
  <2>1. PICK o \in roots : /\ strong[o] # None /\ roots' = roots \cup {strong[o]}
                           /\ UNCHANGED <<spanVars, interned, gcVars>>
    BY <1>5 DEF Load
  <2>2. o \in Offsets /\ IsObject(o) /\ o \notin doomed
    BY <1>1, <2>1 DEF GInv, IInv, Graph, Kept
  <2>3. phase \in {"mark", "atomic"} => strong[o] \notin doomed
    BY <2>1, <2>2 DEF GInv, Doomed, Children
  <2> QED
    BY <1>1, <2>1, <2>3, RootsPassBy
<1>6. CASE Store \/ StoreNativelyClear
  <2>1. PICK p \in Offsets, c \in Ref :
          /\ StoreField(p, c)
          /\ \/ WriteBarrier(p, c)
             \/ UNCHANGED <<mark, grayAgain>> /\ ~(phase = "atomic" /\ BarrierFires(p, c))
    BY <1>6 DEF Store, StoreNativelyClear, NativeStore
  <2>2. Stored(p, c)
    BY <2>1, StoreIsStored DEF GInv
  <2> QED
    BY <2>2, StoredPassesBy
<1> QED
  BY <1>2, <1>3, <1>4, <1>5, <1>6, GrowPassesBy, CellPassesBy DEF ClearProgram, SafeProgram

\* When the roots are shaded, the doomed are what no root reaches (PrepareStep).
LEMMA PrepareDooms ==
  ASSUME GInv, PrepareStep,
         doomed' = IF phase = "pause" /\ phase' = "mark" THEN Objects \ Reachable ELSE Reprieved
  PROVE  Doomed'
<1>1. phase = "pause" /\ phase' \in {"pause", "mark"} /\ grayAgain' = {}
      /\ UNCHANGED <<kind, strong, roots, currentWhite>>
  BY DEF PrepareStep
<1>2. CASE phase' = "pause"
  <2>1. doomed' = {}
    BY <1>1, <1>2 DEF GInv, Doomed, Reprieved
  <2> QED
    BY <1>2, <2>1 DEF Doomed, Sweeping
<1>3. CASE phase' = "mark"
  <2> DEFINE R == Reachable
  <2>1. doomed' = Objects \ R
    BY <1>1, <1>3
  <2>2. roots \subseteq R /\ \A p \in R : Children(p) \subseteq R
    <3>1. roots \subseteq R
      BY DEF Reachable, GInv, IInv, TypeOK
    <3>2. ASSUME NEW p \in R, NEW c \in Children(p) PROVE c \in R
      <4>1. p \in Offsets /\ c \in Offsets
        BY <3>2, ChildOffset DEF Reachable, GInv, IInv
      <4> QED
        BY <3>2, <4>1 DEF Reachable
    <3> QED
      BY <3>1, <3>2
  <2> HIDE DEF R
  <2>3. \A o \in Offsets : (IsObject(o)' <=> IsObject(o)) /\ Children(o)' = Children(o)
    BY <1>1 DEF IsObject, Children
  <2>4. Objects' = Objects /\ doomed' \subseteq Objects' /\ doomed' \cap roots' = {}
    BY <1>1, <2>1, <2>2, <2>3 DEF Objects
  <2>5. \A o \in Objects : mark[o] = {currentWhite}
    BY <1>1 DEF GInv, IInv, Marks, Objects
  <2>6. PICK reset, seeded :
          /\ \A o \in Offsets : reset[o] = {currentWhite} \/ reset[o] = mark[o]
          /\ seeded \subseteq roots /\ gray' = seeded
          /\ mark' = [o \in Offsets |-> IF o \in seeded THEN {"gray"} ELSE reset[o]]
    <3> DEFINE w == IF walk.active THEN walk
                    ELSE [active |-> TRUE, cursor |-> 0, limit |-> spanCount]
               next == IF w.cursor < w.limit THEN w.cursor + 1 ELSE w.limit
               r == [o \in Offsets |-> IF o = next /\ IsObject(o) THEN {currentWhite} ELSE mark[o]]
               s == Seeded(r)
    <3>1. /\ gray' = s
          /\ mark' = [o \in Offsets |-> IF o \in s THEN {"gray"} ELSE r[o]]
      BY <1>1, <1>3 DEF PrepareStep
    <3>2. s \subseteq roots
      BY DEF Seeded
    <3>3. \A o \in Offsets : r[o] = {currentWhite} \/ r[o] = mark[o]
      OBVIOUS
    <3> HIDE DEF r, s
    <3> QED
      BY <3>1, <3>2, <3>3
  <2>7. \A o \in doomed' : o \in Objects /\ o \in Offsets /\ o \notin roots
    BY <2>1, <2>2 DEF Objects
  <2>8. \A o \in doomed' : mark'[o] = {currentWhite'} /\ o \notin gray' /\ o \notin grayAgain'
    BY <1>1, <2>5, <2>6, <2>7
  <2>9. ASSUME NEW o \in Offsets \ doomed' PROVE Children(o)' \cap doomed' = {}
    BY <2>1, <2>2, <2>3, <2>9 DEF Objects, Children
  <2> QED
    BY <1>3, <2>4, <2>8, <2>9 DEF Doomed, Sweeping
<1> QED
  BY <1>1, <1>2, <1>3

\* A propagation from a queue without doomed objects blackens none.
LEMMA DoomedNotTraced ==
  ASSUME GInv, phase \in {"mark", "atomic"}, NEW q, q \subseteq Offsets, q \cap doomed = {}
  PROVE  Traced(q) \cap doomed = {}
<1> DEFINE T == Offsets \ doomed
<1>1. \A o \in T : Children(o) \subseteq T
  BY ChildOffset DEF GInv, IInv, Doomed
<1>2. T \in SUBSET Offsets /\ TraceClosed(q, T)
  BY <1>1 DEF TraceClosed
<1> QED
  BY <1>2 DEF Traced

\* The mark step and the atomic step pass them by (MarkStep, RunAtomic).
LEMMA MarkingLeavesDoomed ==
  ASSUME GInv, MarkStep \/ AtomicStep, doomed' = Reprieved
  PROVE  Doomed'
<1>1. PICK q : /\ q = IF phase = "mark" THEN gray ELSE roots \cup gray \cup grayAgain
               /\ mark' = [o \in Offsets |-> IF o \in Traced(q) THEN {"black"} ELSE mark[o]]
  BY DEF MarkStep, AtomicStep, Blacken
<1>2. /\ doomed \subseteq Offsets /\ doomed \cap roots = {}
      /\ doomed \cap (gray \cup grayAgain) = {} /\ \A o \in doomed : IsObject(o)
      /\ \A o \in doomed : mark[o] = {currentWhite}
      /\ \A o \in Offsets \ doomed : Children(o) \cap doomed = {}
      /\ phase \in {"mark", "atomic"}
  BY DEF GInv, Doomed, Objects, MarkStep, AtomicStep
<1>3. Traced(q) \cap doomed = {}
  <2>1. q \subseteq Offsets /\ q \cap doomed = {}
    BY <1>1, <1>2 DEF GInv, IInv, TypeOK
  <2> QED
    BY <1>2, <2>1, DoomedNotTraced
<1>4. UNCHANGED <<kind, strong, roots>>
  BY DEF MarkStep, AtomicStep
<1>5. \A o \in Offsets : (IsObject(o)' <=> IsObject(o)) /\ Children(o)' = Children(o)
  BY <1>4 DEF IsObject, Children
<1>6. doomed' = doomed /\ doomed' \subseteq Objects' /\ doomed' \cap roots' = {}
  BY <1>2, <1>4, <1>5 DEF Reprieved, Objects, IsObject
<1>7. \A o \in doomed : mark'[o] = {currentWhite}
  BY <1>1, <1>2, <1>3
<1>8. CASE MarkStep
  <2>1. phase' = "atomic" /\ gray' = {} /\ UNCHANGED <<currentWhite, grayAgain>>
    BY <1>8 DEF MarkStep
  <2> QED
    BY <1>2, <1>5, <1>6, <1>7, <2>1 DEF Doomed, Sweeping
<1>9. CASE AtomicStep
  <2>1. phase' = "sweepStrings" /\ currentWhite' = OtherWhite
    BY <1>9 DEF AtomicStep
  <2>2. OtherWhite' = currentWhite /\ currentWhite \notin {"gray", "black"}
    BY <2>1 DEF OtherWhite, GInv, IInv, TypeOK, Whites
  <2>3. \A o \in doomed : Dead(o)'
    BY <1>7, <2>2 DEF Dead
  <2> QED
    BY <1>6, <2>1, <2>3 DEF Doomed
<1> QED
  BY <1>8, <1>9

\* So does the sweep of the intern table (RunSweepStrings).
LEMMA StringSweepLeavesDoomed ==
  ASSUME GInv, SweepStringsStep, doomed' = Reprieved
  PROVE  Doomed'
<1>1. /\ phase = "sweepStrings" /\ phase' = "sweepObjects"
      /\ UNCHANGED <<kind, mark, roots, currentWhite>>
  BY DEF SweepStringsStep, spanVars
<1>2. \A o \in Offsets : (IsObject(o)' <=> IsObject(o)) /\ (Dead(o)' <=> Dead(o))
  BY <1>1 DEF IsObject, Dead, OtherWhite
<1>3. doomed \subseteq Objects /\ doomed \cap roots = {} /\ \A o \in doomed : Dead(o)
  BY <1>1 DEF GInv, Doomed, Sweeping
<1>4. doomed' = doomed /\ Objects' = Objects /\ doomed \subseteq Offsets
  BY <1>1, <1>2, <1>3 DEF Reprieved, Objects, IsObject
<1> QED
  BY <1>1, <1>2, <1>3, <1>4 DEF Doomed

\* The sweep frees each as it comes to it, and comes to all (sweepSpansStep).
LEMMA SweepFreesDoomed ==
  ASSUME GInv, SweepStep, doomed' = Reprieved
  PROVE  Doomed'
<1> DEFINE w == IF ~walk.active THEN [active |-> TRUE, cursor |-> 0, limit |-> spanCount]
                ELSE walk
           next == IF w.cursor < w.limit THEN w.cursor + 1 ELSE w.limit
           visited == IF w.cursor < w.limit THEN {next} ELSE {}
           freed == {o \in visited : Dies(o)}
           kept == {o \in visited \ freed : IsObject(o)}
<1>1. /\ phase = "sweepObjects"
      /\ kind' = [o \in Offsets |-> IF o \in freed THEN "free" ELSE kind[o]]
      /\ mark' = [o \in Offsets |-> IF o \in freed THEN {}
                                    ELSE IF o \in kept THEN {currentWhite} ELSE mark[o]]
      /\ UNCHANGED <<roots, currentWhite>>
  BY DEF SweepStep
<1>2. \/ next >= w.limit /\ phase' = "pause"
      \/ ~(next >= w.limit) /\ phase' = "sweepObjects"
  BY DEF SweepStep
<1>3. w \in [active : BOOLEAN, cursor : Nat, limit : Nat] /\ next \in Nat
  BY DEF GInv, IInv, TypeOK
<1>4. /\ doomed \subseteq Offsets /\ doomed \cap roots = {}
      /\ \A o \in doomed : IsObject(o) /\ Dead(o) /\ o \in Nat
  BY <1>1 DEF GInv, Doomed, Objects, Sweeping
<1>5. ASSUME NEW o \in doomed PROVE w.cursor < o /\ o <= w.limit
  <2>1. CASE walk.active
    <3>1. SweepBegun /\ Sweeping /\ w = walk
      BY <1>1, <2>1 DEF SweepBegun, Sweeping
    <3>2. Ahead(o)
      <4> SUFFICES ASSUME ~Ahead(o) PROVE FALSE
        OBVIOUS
      <4>1. mark[o] = {currentWhite}
        BY <1>4, <1>5, <3>1 DEF GInv, IInv, Marks
      <4>2. OtherWhite \in mark[o]
        BY <1>4, <1>5 DEF Dead
      <4> QED
        BY <4>1, <4>2, MarkBits DEF GInv, IInv
    <3> QED
      BY <3>1, <3>2 DEF Ahead
  <2>2. CASE ~walk.active
    <3>1. w.cursor = 0 /\ w.limit = spanCount
      BY <2>2
    <3>2. kind[o] # "free" /\ o \in Offsets
      BY <1>4, <1>5 DEF IsObject
    <3>3. o <= spanCount
      BY <3>2 DEF GInv, IInv, Bookkeeping
    <3> QED
      BY <3>1, <3>2, <3>3
  <2> QED
    BY <2>1, <2>2
<1>6. \A o \in doomed : o # next => next < o /\ ~(next >= w.limit) /\ o \notin visited
  BY <1>3, <1>4, <1>5
<1>7. \A o \in doomed : o = next => o \in freed
  <2>1. \A o \in doomed : o = next => o \in visited
    BY <1>5
  <2> QED
    BY <1>4, <2>1 DEF Dies
<1> HIDE DEF w, next, visited
<1>8. doomed' = doomed \ {next}
  <2>1. \A o \in doomed : kind'[o] = "free" <=> o = next
    BY <1>1, <1>4, <1>6, <1>7 DEF IsObject
  <2> QED
    BY <1>1, <1>4, <2>1 DEF Reprieved
<1>9. \A o \in doomed' : kind'[o] = kind[o] /\ mark'[o] = mark[o]
  BY <1>1, <1>4, <1>6, <1>8
<1>10. doomed' \subseteq Objects' /\ doomed' \cap roots' = {}
  BY <1>1, <1>4, <1>8, <1>9 DEF Objects, IsObject
<1>11. \A o \in doomed' : Dead(o)'
  BY <1>1, <1>4, <1>8, <1>9 DEF Dead, OtherWhite
<1>12. phase' = "pause" => doomed' = {}
  BY <1>2, <1>6, <1>8
<1> QED
  BY <1>2, <1>10, <1>11, <1>12 DEF Doomed

\* Strings never come to refer to anything.
LEMMA LeavesStep ==
  ASSUME GInv, TypeOK', [ClearNext]_vars
  PROVE  StringsAreLeaves'
<1>1. ASSUME UNCHANGED strong, \A o \in Offsets : kind'[o] = "string" => kind[o] = "string"
      PROVE  StringsAreLeaves'
  BY <1>1 DEF GInv, StringsAreLeaves
<1>2. ASSUME NEW p \in Offsets, NEW k \in {"table", "closure", "string"}, NEW t \in Texts \cup {NoText},
             PlaceObject(p, k, t)
      PROVE  StringsAreLeaves'
  <2>1. Placed(p, k, t)
    BY <1>2, PlaceObjectEffect DEF GInv
  <2> QED
    BY <2>1 DEF GInv, StringsAreLeaves, Placed
<1>3. CASE NewObject
  <2>1. PICK p \in Offsets, k \in Kinds : PlaceObject(p, k, NoText)
    BY <1>3 DEF NewObject
  <2> QED
    BY <1>2, <2>1
<1>4. CASE InternClear
  <2>1. PICK t \in Texts : InternExisting(t) \/ InternNew(t)
    BY <1>4 DEF InternClear
  <2>2. CASE InternExisting(t)
    BY <1>1, <2>2 DEF InternExisting, spanVars
  <2>3. CASE InternNew(t)
    <3>1. PICK p \in Offsets : PlaceObject(p, "string", t)
      BY <2>3 DEF InternNew
    <3> QED
      BY <1>2, <3>1
  <2> QED
    BY <2>1, <2>2, <2>3
<1>5. CASE DropRoot \/ Load \/ SweepStringsStep \/ UNCHANGED vars
  BY <1>1, <1>5 DEF DropRoot, Load, SweepStringsStep, vars, spanVars
<1>6. CASE Store \/ StoreNativelyClear
  <2>1. PICK p \in Offsets, c \in Ref : StoreField(p, c)
    BY <1>6 DEF Store, StoreNativelyClear, NativeStore
  <2> QED
    BY <2>1 DEF StoreField, Mutable, GInv, StringsAreLeaves, IInv, TypeOK
<1>7. CASE GrowArray
  <2>1. UNCHANGED strong /\ \A o \in Offsets : kind'[o] \in {"payload", "free", kind[o]}
    BY <1>7 DEF GrowArray
  <2> QED
    BY <1>1, <2>1
<1>8. CASE UpdateCell \/ UpdateCellNativelyClear
  BY <1>1, <1>8 DEF UpdateCell, UpdateCellNativelyClear, NativeUpdateCell, WriteCell
<1>9. CASE PrepareStep \/ MarkStep \/ AtomicStep
  BY <1>1, <1>9 DEF PrepareStep, MarkStep, AtomicStep
<1>10. CASE SweepStep
  <2> DEFINE w == IF ~walk.active THEN [active |-> TRUE, cursor |-> 0, limit |-> spanCount]
                  ELSE walk
             next == IF w.cursor < w.limit THEN w.cursor + 1 ELSE w.limit
             visited == IF w.cursor < w.limit THEN {next} ELSE {}
             freed == {o \in visited : Dies(o)}
  <2>1. /\ kind' = [o \in Offsets |-> IF o \in freed THEN "free" ELSE kind[o]]
        /\ strong' = [o \in Offsets |-> IF o \in freed THEN None ELSE strong[o]]
    BY <1>10 DEF SweepStep
  <2> HIDE DEF freed
  <2> QED
    BY <2>1 DEF GInv, StringsAreLeaves
<1> QED
  BY <1>3, <1>4, <1>5, <1>6, <1>7, <1>8, <1>9, <1>10
  DEF ClearNext, ClearProgram, SafeProgram, CollectorStep

\* Every step keeps the doomed objects on their way to the sweep.
LEMMA GarbageStep == GInv /\ [GarbageNext]_garbageVars => GInv'
<1> SUFFICES ASSUME GInv, [GarbageNext]_garbageVars PROVE GInv'
  OBVIOUS
<1>1. [ClearNext]_vars
  BY DEF GarbageNext, garbageVars
<1>2. IInv' /\ TypeOK'
  BY <1>1, InvariantStep DEF GInv, IInv
<1>3. StringsAreLeaves'
  BY <1>1, <1>2, LeavesStep
<1>4. Doomed'
  <2>1. CASE UNCHANGED garbageVars
    <3>1. UNCHANGED <<phase, currentWhite, gray, grayAgain, mark, kind, strong, roots, doomed>>
      BY <2>1 DEF garbageVars, vars, spanVars, gcVars
    <3>2. \A o \in Offsets : (IsObject(o)' <=> IsObject(o)) /\ Children(o)' = Children(o)
                             /\ (Dead(o)' <=> Dead(o))
      BY <3>1 DEF IsObject, Children, Dead, OtherWhite
    <3> QED
      BY <3>1, <3>2 DEF GInv, Doomed, Objects, Sweeping
  <2>2. CASE GarbageNext
    <3>1. /\ ClearNext
          /\ doomed' = IF phase = "pause" /\ phase' = "mark" THEN Objects \ Reachable ELSE Reprieved
      BY <2>2 DEF GarbageNext, Remember
    <3>2. CASE ClearProgram
      <4>1. PassesBy
        BY <3>2, ProgramPassesBy
      <4>2. doomed' = Reprieved
        BY <3>1, <4>1 DEF PassesBy
      <4> QED
        BY <4>1, <4>2, PassingBy
    <3>3. CASE PrepareStep
      BY <3>1, <3>3, PrepareDooms
    <3>4. CASE MarkStep \/ AtomicStep
      <4>1. doomed' = Reprieved
        BY <3>1, <3>4 DEF MarkStep, AtomicStep
      <4> QED
        BY <3>4, <4>1, MarkingLeavesDoomed
    <3>5. CASE SweepStringsStep
      <4>1. doomed' = Reprieved
        BY <3>1, <3>5 DEF SweepStringsStep
      <4> QED
        BY <3>5, <4>1, StringSweepLeavesDoomed
    <3>6. CASE SweepStep
      <4>1. phase = "sweepObjects"
        BY <3>6 DEF SweepStep
      <4>2. doomed' = Reprieved
        BY <3>1, <4>1
      <4> QED
        BY <3>6, <4>2, SweepFreesDoomed
    <3> QED
      BY <3>1, <3>2, <3>3, <3>4, <3>5, <3>6 DEF ClearNext, CollectorStep
  <2> QED
    BY <2>1, <2>2
<1> QED
  BY <1>2, <1>3, <1>4 DEF GInv

\* One cycle is enough: what no root reached when the cycle shaded its roots is freed before the
\* collector pauses again, unless the program interned it in between (stepOnce, sweepSpansStep).
THEOREM GarbageIsFreed == GarbageSpec => []GarbageFreed
<1>1. GarbageInit => GInv
  BY InitIInv DEF GarbageInit, GInv, Doomed, StringsAreLeaves, Init, Sweeping
<1>2. GInv /\ [GarbageNext]_garbageVars => GInv'
  BY GarbageStep
<1>3. GInv => GarbageFreed
  BY DEF GInv, Doomed, GarbageFreed
<1> QED
  BY <1>1, <1>2, <1>3, PTL DEF GarbageSpec

-----------------------------------------------------------------------------
(* Pacing                                                                  *)

\* Spans are counted in natural numbers (LiveBytes).
LEMMA SpansCount ==
  ASSUME NEW S \in SUBSET Offsets
  PROVE  Cardinality(S) \in Nat
<1>1. IsFiniteSet(1..MaxSpans)
  BY CollectorAssumption, FS_Interval
<1>2. IsFiniteSet(S)
  BY <1>1, FS_Subset
<1> QED
  BY <1>2, FS_CardinalityType

\* No step of the program moves the cycle (SetGCPhase is called by the collector alone).
LEMMA ProgramLeavesPhase == ClearProgram => UNCHANGED phase
<1> USE DEF gcVars
<1>1. NewObject \/ InternClear => UNCHANGED phase
  BY DEF NewObject, PlaceObject, InternClear, InternExisting, InternNew
<1>2. DropRoot \/ Load \/ GrowArray => UNCHANGED phase
  BY DEF DropRoot, Load, GrowArray
<1>3. Store \/ StoreNativelyClear => UNCHANGED phase
  BY DEF Store, StoreNativelyClear, NativeStore, StoreField
<1>4. UpdateCell \/ UpdateCellNativelyClear => UNCHANGED phase
  BY DEF UpdateCell, UpdateCellNativelyClear, NativeUpdateCell, WriteCell
<1> QED
  BY <1>1, <1>2, <1>3, <1>4 DEF ClearProgram, SafeProgram

\* Every step of the collector takes the cycle further: another phase, a walk begun or a span
\* visited (stepOnce).
LEMMA StepAdvances ==
  ASSUME TypeOK, CollectorStep
  PROVE  Advances
<1> SUFFICES ASSUME UNCHANGED <<phase, walk>> PROVE FALSE
  BY DEF Advances
<1>1. walk \in [active : BOOLEAN, cursor : 0..MaxSpans, limit : 0..MaxSpans]
  BY DEF TypeOK
<1>2. ~MarkStep /\ ~AtomicStep /\ ~SweepStringsStep
  BY DEF MarkStep, AtomicStep, SweepStringsStep
<1>3. ASSUME NEW w, NEW next, walk' = [w EXCEPT !.cursor = next],
             w = IF walk.active THEN walk ELSE [active |-> TRUE, cursor |-> 0, limit |-> spanCount],
             next = IF w.cursor < w.limit THEN w.cursor + 1 ELSE w.limit,
             next < w.limit
      PROVE  FALSE
  <2>1. CASE walk.active
    BY <1>1, <1>3, <2>1, CollectorAssumption
  <2>2. CASE ~walk.active
    BY <1>1, <1>3, <2>2
  <2> QED
    BY <2>1, <2>2
<1>4. ~PrepareStep
  <2> SUFFICES ASSUME PrepareStep PROVE FALSE
    OBVIOUS
  <2> DEFINE w == IF walk.active THEN walk
                  ELSE [active |-> TRUE, cursor |-> 0, limit |-> spanCount]
             next == IF w.cursor < w.limit THEN w.cursor + 1 ELSE w.limit
  <2>1. next < w.limit /\ walk' = [w EXCEPT !.cursor = next]
    BY DEF PrepareStep
  <2> HIDE DEF next
  <2> QED
    BY <1>3, <2>1 DEF next
<1>5. ~SweepStep
  <2> SUFFICES ASSUME SweepStep PROVE FALSE
    OBVIOUS
  <2> DEFINE w == IF ~walk.active THEN [active |-> TRUE, cursor |-> 0, limit |-> spanCount]
                  ELSE walk
             next == IF w.cursor < w.limit THEN w.cursor + 1 ELSE w.limit
  <2>1. ~(next >= w.limit) /\ walk' = [w EXCEPT !.cursor = next]
    BY DEF SweepStep
  <2>2. w.limit \in Nat /\ w.cursor \in Nat
    BY <1>1, CollectorAssumption DEF TypeOK
  <2>3. next \in Nat
    BY <2>2
  <2>4. next < w.limit
    BY <2>1, <2>2, <2>3
  <2> HIDE DEF next
  <2> QED
    BY <1>3, <2>1, <2>4 DEF next
<1> QED
  BY <1>2, <1>4, <1>5 DEF CollectorStep

\* A boundary adds to what is unpaid no more than to the debt, and leaves a step to make when the
\* debt has reached the budget (AssistAllocation).
LEMMA BoundaryPaces == PaceInv /\ Boundary => PaceInv'
<1> SUFFICES ASSUME PaceInv, Boundary PROVE PaceInv'
  OBVIOUS
<1>1. UNCHANGED phase /\ UNCHANGED budget /\ left = 0
  BY ProgramLeavesPhase DEF Boundary
<1>2. (Assisted' <=> Assisted) /\ budget' \in StepBudgets \cup {NoAssistant}
  BY <1>1 DEF Assisted, PaceInv
<1>3. CASE ~(Assisted /\ Growth > 0)
  <2>1. UNCHANGED <<allocDebt, left, unpaid>>
    BY <1>3 DEF Boundary, AssistAllocation
  <2> QED
    BY <1>1, <1>2, <2>1 DEF PaceInv
<1>4. CASE Assisted /\ Growth > 0
  <2> DEFINE g == Growth
  <2>1. g \in Nat
    <3>1. LiveBytes \in Nat
      BY SpansCount DEF LiveBytes
    <3>2. LiveBytes' \in Nat
      BY SpansCount DEF LiveBytes
    <3>3. \A a, b \in Nat : a - b > 0 => a - b \in Nat
      OBVIOUS
    <3> QED
      BY <1>4, <3>1, <3>2, <3>3, Zenon DEF Growth
  <2>2. /\ allocDebt' = allocDebt + g
        /\ phase = "pause" => UNCHANGED <<left, unpaid>>
        /\ phase # "pause" =>
             /\ unpaid' = unpaid + g
             /\ left' = IF budget # 0 /\ allocDebt' < budget THEN 0 ELSE Chunk
    BY <1>4 DEF Boundary, AssistAllocation
  <2> HIDE DEF g
  <2>3. budget \in Nat
    BY <1>4, PacingAssumption DEF Assisted, PaceInv
  <2>4. Chunk \in Nat /\ Chunk > 0
    <3>1. budget = 0 \/ budget > 0
      BY <2>3
    <3> QED
      BY <2>3, <3>1, CollectorAssumption DEF Chunk
  <2>5. CASE phase = "pause"
    BY <1>1, <1>2, <2>1, <2>2, <2>5 DEF PaceInv
  <2>6. CASE phase # "pause"
    <3>1. unpaid' <= allocDebt' /\ unpaid' \in Nat /\ allocDebt' \in Nat
      BY <1>4, <2>1, <2>2, <2>6 DEF PaceInv
    <3>2. left' \in Nat /\ (left' = 0 => allocDebt' < budget)
      BY <2>2, <2>3, <2>4, <2>6
    <3> QED
      BY <1>1, <1>2, <1>4, <2>6, <3>1, <3>2 DEF PaceInv
  <2> QED
    BY <2>5, <2>6
<1> QED
  BY <1>3, <1>4

\* A step of the collector, made by the assistant or at a safepoint, pays for all that was unpaid
\* (AssistAllocation, AssistSafepoint).
LEMMA StepPaces == TypeOK /\ PaceInv /\ (AssistStep \/ AssistSafepoint) => PaceInv'
<1> SUFFICES ASSUME TypeOK, PaceInv, AssistStep \/ AssistSafepoint PROVE PaceInv'
  OBVIOUS
<1>1. unpaid' = 0 /\ UNCHANGED budget
  BY StepAdvances DEF AssistStep, AssistSafepoint, StepOnce
<1>2. (Assisted' <=> Assisted) /\ budget' \in StepBudgets \cup {NoAssistant}
  BY <1>1 DEF Assisted, PaceInv
<1>3. CASE AssistStep
  <2>1. left \in Nat /\ left > 0 /\ Assisted /\ allocDebt \in Nat
    BY <1>3 DEF AssistStep, PaceInv
  <2>2. budget \in Nat
    BY <2>1, PacingAssumption DEF Assisted, PaceInv
  <2>3. CASE StepEnds
    <3>1. left' = 0 /\ allocDebt' \in Nat
      BY <1>3, <2>1, <2>2, <2>3 DEF AssistStep
    <3> QED
      BY <1>1, <1>2, <3>1 DEF PaceInv
  <2>4. CASE ~StepEnds
    <3>1. left' = left - 1 /\ allocDebt' = allocDebt /\ phase' # "pause"
      BY <1>3, <2>4 DEF AssistStep, StepEnds
    <3> QED
      BY <1>1, <1>2, <2>1, <3>1 DEF PaceInv
  <2> QED
    BY <2>3, <2>4
<1>4. CASE AssistSafepoint
  <2>1. left' = 0 /\ allocDebt' \in {0, allocDebt}
    BY <1>4 DEF AssistSafepoint
  <2> QED
    BY <1>1, <1>2, <2>1 DEF PaceInv
<1> QED
  BY <1>3, <1>4

\* A paced engine is a collector with a clear program, so all that is proved of one holds of it.
LEMMA PacedIsClear ==
  ASSUME [PacedNext]_pacedVars
  PROVE  [GarbageNext]_garbageVars
  BY DEF PacedNext, Boundary, AssistStep, AssistSafepoint, StepOnce, pacedVars, GarbageNext, ClearNext

THEOREM PacedRefinesGarbage == PacedSpec => GarbageSpec
<1>1. PacedInit => GarbageInit
  BY DEF PacedInit
<1>2. [PacedNext]_pacedVars => [GarbageNext]_garbageVars
  BY PacedIsClear
<1> QED
  BY <1>1, <1>2, PTL DEF PacedSpec, GarbageSpec

\* Between two steps of an assisted cycle less than a budget is unpaid, for every budget, however
\* much a boundary allocates (AssistAllocation, AssistSafepoint).
THEOREM CyclesKeepPace == PacedSpec => []PaceKept
<1>1. PacedInit => GInv /\ PaceInv
  <2>1. GarbageInit => GInv
    BY InitIInv DEF GarbageInit, GInv, Doomed, StringsAreLeaves, Init, Sweeping
  <2> QED
    BY <2>1 DEF PacedInit, PaceInv, GarbageInit, Init
<1>2. GInv /\ PaceInv /\ [PacedNext]_pacedVars => (GInv /\ PaceInv)'
  <2> SUFFICES ASSUME GInv, PaceInv, [PacedNext]_pacedVars PROVE (GInv /\ PaceInv)'
    OBVIOUS
  <2>1. GInv'
    BY PacedIsClear, GarbageStep
  <2>2. TypeOK
    BY DEF GInv, IInv
  <2>3. CASE PacedNext
    BY <2>1, <2>2, <2>3, BoundaryPaces, StepPaces DEF PacedNext
  <2>4. CASE UNCHANGED pacedVars
    BY <2>1, <2>4 DEF pacedVars, paceVars, garbageVars, vars, gcVars, PaceInv, Assisted
  <2> QED
    BY <2>3, <2>4
<1>3. PaceInv => PaceKept
  <2> SUFFICES ASSUME PaceInv, Assisted, phase # "pause", left = 0, unpaid # 0
               PROVE  unpaid < budget
    BY DEF PaceKept
  <2>1. unpaid <= allocDebt /\ allocDebt < budget /\ unpaid \in Nat /\ allocDebt \in Nat
    BY DEF PaceInv
  <2>2. budget \in Nat
    BY PacingAssumption DEF PaceInv, Assisted
  <2> QED
    BY <2>1, <2>2
<1> QED
  BY <1>1, <1>2, <1>3, PTL DEF PacedSpec
=============================================================================
