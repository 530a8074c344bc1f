------------------------- MODULE HostRegistryProofs -------------------------
(***************************************************************************)
(* The counts of the host registry are exact and a wrapper can be read for *)
(* as long as it is on the heap, for every number of targets, handles and  *)
(* spans and wherever the collector steps in.  The argument is that what   *)
(* Go code or the registry refers to is never among the objects a sweep    *)
(* has yet to free.                                                        *)
(***************************************************************************)
EXTENDS HostRegistry, FiniteSetTheorems, TLAPS

\* No reference is none of the handles or spans.
LEMMA NoneApart == None \notin Handles /\ None \notin Offsets
BY DEF None, Handles, Offsets

\* A wrapper has a handle.
WrappersBound == \A o \in Offsets : spans[o].form = "wrapper" => spans[o].handle \in Handles

\* The descriptor of a known handle is on the heap, and no sweep will free it.
DescriptorsKept ==
  \A h \in Handles : Known(h) =>
    /\ entries[h].nativeMeta \in Offsets \ dead
    /\ spans[entries[h].nativeMeta].form = "descriptor"
    /\ spans[entries[h].nativeMeta].kind = entries[h].kind

\* Nor will it free what Go code or the Lua state refers to.
VisibleKept == Visible \subseteq Live \ dead

\* A registration that is under way is counted.
PendingHeld == pending # None => held[pending] > 0

\* Handles and spans are used in order.
HandlesInOrder == \A h \in Handles : h >= nextHandle => ~Known(h)
SpansInOrder == \A o \in Offsets : o > spanCount => spans[o].form = "free"

IInv ==
  /\ TypeOK
  /\ HandlesExact /\ WrappersReadable /\ MetatablesKept
  /\ WrappersBound /\ DescriptorsKept /\ VisibleKept /\ PendingHeld
  /\ HandlesInOrder /\ SpansInOrder

-----------------------------------------------------------------------------
(* Spans                                                                   *)

\* The number of wrappers of a handle is a number.
LEMMA WrappersFinite ==
  ASSUME NEW h \in Handles
  PROVE  IsFiniteSet(WrappersOf(h)) /\ Cardinality(WrappersOf(h)) \in Nat
<1>1. IsFiniteSet(Offsets)
  BY HostAssumption, FS_Interval DEF Offsets
<1>2. WrappersOf(h) \in SUBSET Offsets
  BY DEF WrappersOf
<1> QED
  BY <1>1, <1>2, FS_Subset, FS_CardinalityType

\* An allocation is served by a span that holds nothing (reuseFreeSpan, carveSpan).
LEMMA VacantIsFree ==
  ASSUME IInv, NEW o \in Offsets, Vacant(o) \/ VacantForTable(o)
  PROVE  /\ spans[o].form = "free" /\ o \notin Live
         /\ o \notin Visible /\ o \notin dead
         /\ Carved(o) \in 0..MaxSpans /\ spanCount <= Carved(o) /\ o <= Carved(o)
<1>1. MaxSpans \in Nat /\ spanCount \in 0..MaxSpans /\ o \in 1..MaxSpans
  BY HostAssumption DEF IInv, TypeOK, Offsets
<1>2. spans[o].form = "free"
  BY <1>1 DEF Vacant, VacantForTable, Freed, Live, IInv, SpansInOrder
<1>3. o \notin Live
  BY <1>2 DEF Live
<1>4. o \notin Visible /\ o \notin dead
  BY <1>3 DEF IInv, VisibleKept, TypeOK
<1>5. o > spanCount => o = spanCount + 1
  BY <1>1 DEF Vacant, VacantForTable, Freed
<1> QED
  BY <1>1, <1>2, <1>3, <1>4, <1>5 DEF Carved

\* What becomes of the heap when an object is placed on it.
Placed(o, span) ==
  /\ spans' \in [Offsets -> Span] /\ spanCount' \in 0..MaxSpans
  /\ spans'[o] = span /\ \A p \in Offsets : p # o => spans'[p] = spans[p]
  /\ Live' = Live \cup {o}
  /\ SpansInOrder'

\* An object that is placed on a free span is on the heap, and the rest stays.
LEMMA PlacesObject ==
  ASSUME IInv, NEW o \in Offsets, Vacant(o) \/ VacantForTable(o),
         NEW span \in Span, span.form # "free", Places(o, span)
  PROVE  Placed(o, span)
<1>1. spans' = [spans EXCEPT ![o] = span] /\ spanCount' = Carved(o)
  BY DEF Places
<1>2. spans' \in [Offsets -> Span] /\ spanCount' \in 0..MaxSpans
  BY <1>1, VacantIsFree DEF IInv, TypeOK
<1>3. spans'[o] = span /\ \A p \in Offsets : p # o => spans'[p] = spans[p]
  BY <1>1 DEF IInv, TypeOK
<1>4. Live' = Live \cup {o}
  BY <1>3 DEF Live
<1>5. SpansInOrder'
  <2> SUFFICES ASSUME NEW p \in Offsets, p > Carved(o) PROVE spans'[p].form = "free"
    BY <1>1 DEF SpansInOrder
  <2>1. spanCount <= Carved(o) /\ o <= Carved(o) /\ Carved(o) \in 0..MaxSpans
    BY VacantIsFree
  <2>2. p > spanCount /\ p # o
    BY HostAssumption, <2>1 DEF IInv, TypeOK, Offsets
  <2> QED
    BY <1>3, <2>2 DEF IInv, SpansInOrder
<1> QED
  BY <1>2, <1>3, <1>4, <1>5 DEF Placed

\* Only a wrapper changes the number of wrappers, of its own handle and by one.
LEMMA PlacedCount ==
  ASSUME IInv, NEW o \in Offsets, spans[o].form = "free", NEW span \in Span, Placed(o, span),
         NEW h \in Handles
  PROVE  Cardinality(WrappersOf(h))' =
           IF span.form = "wrapper" /\ span.handle = h THEN Cardinality(WrappersOf(h)) + 1
                                                       ELSE Cardinality(WrappersOf(h))
<1>1. /\ spans'[o] = span /\ \A p \in Offsets : p # o => spans'[p] = spans[p]
  BY DEF Placed
<1>2. o \notin WrappersOf(h)
  BY DEF WrappersOf
<1>3. CASE span.form = "wrapper" /\ span.handle = h
  <2>1. WrappersOf(h)' = WrappersOf(h) \cup {o}
    BY <1>1, <1>3 DEF WrappersOf
  <2> QED
    BY <1>2, <1>3, <2>1, WrappersFinite, FS_AddElement
<1>4. CASE ~(span.form = "wrapper" /\ span.handle = h)
  <2>1. WrappersOf(h)' = WrappersOf(h)
    BY <1>1, <1>2, <1>4 DEF WrappersOf
  <2> QED
    BY <1>4, <2>1
<1> QED
  BY <1>3, <1>4

-----------------------------------------------------------------------------
(* Objects and entries that stay as they are                               *)

WrapperReadable(o) ==
  spans[o].form = "wrapper" =>
    /\ spans[o].handle \in Handles
    /\ Readable(o)
    /\ entries[spans[o].handle].nativeMeta = spans[o].nativeMeta
    /\ spans[o].version <= spans[spans[o].nativeMeta].version

\* What the invariant says of wrappers, one by one.
LEMMA WrappersReadableEach ==
  (WrappersReadable /\ WrappersBound) <=> \A o \in Offsets : WrapperReadable(o)
BY DEF WrappersReadable, WrappersBound, WrapperReadable

SameEntry(h) ==
  /\ entries'[h].target = entries[h].target /\ entries'[h].kind = entries[h].kind
  /\ entries'[h].nativeMeta = entries[h].nativeMeta

DescriptorKept(h) ==
  Known(h) => /\ entries[h].nativeMeta \in Offsets \ dead
              /\ spans[entries[h].nativeMeta].form = "descriptor"
              /\ spans[entries[h].nativeMeta].kind = entries[h].kind

\* Where objects and known entries stay, so do wrappers and descriptors.
LEMMA Growth ==
  ASSUME IInv, \A o \in Live : spans'[o] = spans[o],
         \A h \in Handles : Known(h) => SameEntry(h),
         dead' = dead
  PROVE  /\ \A o \in Live : WrapperReadable(o)'
         /\ \A h \in Handles : Known(h) => DescriptorKept(h)'
<1>1. \A h \in Handles : Known(h) => /\ entries[h].nativeMeta \in Live \ dead
                                    /\ spans[entries[h].nativeMeta].form = "descriptor"
                                    /\ spans[entries[h].nativeMeta].kind = entries[h].kind
  BY DEF IInv, DescriptorsKept, Live
<1>2. ASSUME NEW h \in Handles, Known(h) PROVE DescriptorKept(h)'
  BY <1>1, <1>2 DEF DescriptorKept, SameEntry, Live
<1>3. ASSUME NEW o \in Live PROVE WrapperReadable(o)'
  <2> SUFFICES ASSUME spans[o].form = "wrapper" PROVE WrapperReadable(o)'
    BY DEF WrapperReadable
  <2>1. WrapperReadable(o)
    BY WrappersReadableEach DEF IInv, Live
  <2>2. /\ spans[o].handle \in Handles /\ Known(spans[o].handle)
        /\ spans[o].nativeMeta \in Live
    BY <1>1, <2>1 DEF WrapperReadable, Readable, Described
  <2>3. SameEntry(spans[o].handle) /\ spans'[spans[o].nativeMeta] = spans[spans[o].nativeMeta]
        /\ spans'[o] = spans[o]
    BY <2>2
  <2> QED
    BY <2>1, <2>2, <2>3 DEF WrapperReadable, Readable, Described, Known, SameEntry
<1> QED
  BY <1>2, <1>3

-----------------------------------------------------------------------------
(* Counts                                                                  *)

Recount(e, h, n) == [e EXCEPT ![h].refCount = n]

\* A count that changes leaves the rest of the entry, and the other entries.
LEMMA Recounted ==
  ASSUME NEW e \in [Handles -> Entry], NEW h \in Handles, NEW n \in Nat
  PROVE  /\ Recount(e, h, n) \in [Handles -> Entry] /\ Recount(e, h, n)[h].refCount = n
         /\ \A g \in Handles : /\ Recount(e, h, n)[g].target = e[g].target
                               /\ Recount(e, h, n)[g].kind = e[g].kind
                               /\ Recount(e, h, n)[g].nativeMeta = e[g].nativeMeta
                               /\ g # h => Recount(e, h, n)[g] = e[g]
<1> DEFINE f == Recount(e, h, n)
<1>1. f = [e EXCEPT ![h] = [e[h] EXCEPT !.refCount = n]]
  BY DEF Recount
<1>2. e[h] \in Entry
  OBVIOUS
<1>3. PICK target \in Targets \cup {NoTarget}, kind \in Kinds, c \in Nat, m \in Offsets \cup {None} :
        e[h] = [target |-> target, kind |-> kind, refCount |-> c, nativeMeta |-> m]
  BY <1>2 DEF Entry
<1>4. [e[h] EXCEPT !.refCount = n]
        = [target |-> target, kind |-> kind, refCount |-> n, nativeMeta |-> m]
  BY <1>3
<1>5. [e[h] EXCEPT !.refCount = n] \in Entry
  BY <1>4 DEF Entry
<1> HIDE DEF f
<1>6. f[h] = [target |-> target, kind |-> kind, refCount |-> n, nativeMeta |-> m]
  BY <1>1, <1>4
<1>7. /\ f \in [Handles -> Entry] /\ f[h].refCount = n
      /\ \A g \in Handles : /\ f[g].target = e[g].target /\ f[g].kind = e[g].kind
                            /\ f[g].nativeMeta = e[g].nativeMeta
                            /\ g # h => f[g] = e[g]
  BY <1>1, <1>3, <1>5, <1>6
<1> QED
  BY <1>7 DEF f

\* Another reference to a handle is counted (Registry.Retain).
LEMMA RetainCounts ==
  ASSUME NEW e \in [Handles -> Entry], NEW h \in Handles
  PROVE  /\ Retain(e, h) \in [Handles -> Entry]
         /\ e[h].refCount \in Nat /\ Retain(e, h)[h].refCount = e[h].refCount + 1
         /\ \A g \in Handles : /\ Retain(e, h)[g].target = e[g].target
                               /\ Retain(e, h)[g].kind = e[g].kind
                               /\ Retain(e, h)[g].nativeMeta = e[g].nativeMeta
                               /\ g # h => Retain(e, h)[g] = e[g]
<1>1. e[h].refCount \in Nat /\ e[h].refCount + 1 \in Nat
  BY DEF Entry
<1>2. Retain(e, h) = Recount(e, h, e[h].refCount + 1)
  BY DEF Retain, Recount
<1>3. PICK n \in Nat : n = e[h].refCount + 1 /\ Retain(e, h) = Recount(e, h, n)
  BY <1>1, <1>2
<1> QED
  BY <1>1, <1>3, Recounted

\* A reference that is given back is no longer counted, and the last one takes
\* the entry with it (Registry.Release).
LEMMA ReleaseCounts ==
  ASSUME NEW e \in [Handles -> Entry], NEW h \in Handles
  PROVE  /\ Release(e, h) \in [Handles -> Entry]
         /\ e[h].refCount \in Nat /\ (Gone(e, h) <=> e[h].refCount <= 1)
         /\ Gone(e, h) => Release(e, h)[h] = NoEntry
         /\ ~Gone(e, h) => /\ Release(e, h)[h].refCount = e[h].refCount - 1
                           /\ Release(e, h)[h].target = e[h].target
                           /\ Release(e, h)[h].kind = e[h].kind
                           /\ Release(e, h)[h].nativeMeta = e[h].nativeMeta
         /\ \A g \in Handles : g # h => Release(e, h)[g] = e[g]
<1>1. e[h].refCount \in Nat /\ (Gone(e, h) <=> e[h].refCount <= 1)
  BY DEF Entry, Gone
<1>2. CASE Gone(e, h)
  <2>1. Release(e, h) = [e EXCEPT ![h] = NoEntry]
    BY <1>2 DEF Release
  <2>2. NoEntry \in Entry
    BY DEF NoEntry, Entry, Kinds
  <2> QED
    BY <1>1, <1>2, <2>1, <2>2
<1>3. CASE ~Gone(e, h)
  <2>1. e[h].refCount - 1 \in Nat
    BY <1>1, <1>3
  <2>2. Release(e, h) = Recount(e, h, e[h].refCount - 1)
    BY <1>3 DEF Release, Recount
  <2>3. PICK n \in Nat : n = e[h].refCount - 1 /\ Release(e, h) = Recount(e, h, n)
    BY <2>1, <2>2
  <2> QED
    BY <1>1, <1>3, <2>3, Recounted
<1> QED
  BY <1>2, <1>3

\* What IInv says of the count of an entry.
LEMMA Counts ==
  ASSUME IInv, NEW h \in Handles
  PROVE  /\ entries[h].refCount \in Nat /\ held[h] \in Nat
         /\ entries[h].refCount = held[h] + Cardinality(WrappersOf(h))
         /\ Known(h) <=> entries[h].refCount > 0
         /\ Cardinality(WrappersOf(h)) \in Nat
BY WrappersFinite DEF IInv, HandlesExact, EntriesCounted, TypeOK, Entry

-----------------------------------------------------------------------------
(* Roots                                                                   *)

RefsCounted ==
  \A o \in Offsets : refs[o] = retained[o] + Cardinality({k \in TypeKinds : typeMeta[k] = o})
TypesHaveTables == \A k \in TypeKinds : typeMeta[k] # None => spans[typeMeta[k]].form = "table"

\* Objects that come to a free place leave the metatables where they are.
LEMMA MetatablesStay ==
  ASSUME IInv, \A o \in Live : spans'[o] = spans[o], UNCHANGED typeMeta
  PROVE  TypesHaveTables'
BY NoneApart DEF IInv, MetatablesKept, TypesHaveTables, TypeOK, Live

\* The roots stay as they are.
LEMMA RootsStay ==
  ASSUME IInv, Live \subseteq Live', UNCHANGED <<refs, retained, typeMeta, referenced, dead>>
  PROVE  RefsCounted' /\ VisibleKept'
<1>1. RefsCounted'
  BY DEF IInv, MetatablesKept, RefsCounted
<1>2. Visible' = Visible /\ dead' = dead
  BY DEF Visible
<1> QED
  BY <1>1, <1>2 DEF IInv, VisibleKept

\* An object on the heap becomes a root once more (ExternalRootTable.RetainRef).
LEMMA RootRetained ==
  ASSUME IInv, NEW o \in Offsets, refs' = RetainRef(refs, o), retained' = RetainRef(retained, o),
         UNCHANGED <<typeMeta, referenced, dead>>, Live \subseteq Live', o \in Live' \ dead
  PROVE  /\ refs' \in [Offsets -> Nat] /\ retained' \in [Offsets -> Nat]
         /\ RefsCounted' /\ VisibleKept'
<1>0. refs \in [Offsets -> Nat] /\ retained \in [Offsets -> Nat]
  BY DEF IInv, TypeOK
<1>1. refs' = [refs EXCEPT ![o] = @ + 1] /\ retained' = [retained EXCEPT ![o] = @ + 1]
  BY NoneApart DEF RetainRef
<1>2. /\ refs' \in [Offsets -> Nat] /\ retained' \in [Offsets -> Nat]
      /\ refs'[o] = refs[o] + 1 /\ retained'[o] = retained[o] + 1
      /\ \A p \in Offsets : p # o => refs'[p] = refs[p] /\ retained'[p] = retained[p]
  BY <1>0, <1>1
<1>3. RefsCounted'
  <2> SUFFICES ASSUME NEW p \in Offsets
               PROVE  refs'[p] = retained'[p] + Cardinality({k \in TypeKinds : typeMeta'[k] = p})
    BY DEF RefsCounted
  <2> DEFINE n == Cardinality({k \in TypeKinds : typeMeta[k] = p})
  <2>1. refs[p] = retained[p] + n /\ refs'[p] \in Nat /\ refs[p] \in Nat /\ retained[p] \in Nat
    BY <1>0, <1>2 DEF IInv, MetatablesKept
  <2>2. Cardinality({k \in TypeKinds : typeMeta'[k] = p}) = n
    OBVIOUS
  <2>3. n \in Nat
    <3>1. {k \in TypeKinds : typeMeta[k] = p} \in SUBSET TypeKinds
      OBVIOUS
    <3> QED
      BY <3>1, HostAssumption, FS_Subset, FS_CardinalityType
  <2> HIDE DEF n
  <2>4. refs'[p] = retained'[p] + n
    BY <1>2, <2>1, <2>3
  <2> QED
    BY <2>2, <2>4
<1>4. Visible' = Visible \cup {o}
  <2>1. \A p \in Offsets : refs'[p] > 0 <=> (refs[p] > 0 \/ p = o)
    BY <1>0, <1>2
  <2> QED
    BY <2>1 DEF Visible
<1> QED
  BY <1>2, <1>3, <1>4 DEF IInv, VisibleKept

-----------------------------------------------------------------------------
(* Registrations                                                           *)

\* A registration of a known target counts it once more (registerObjectHandle).
LEMMA RegisterAgainStep ==
  ASSUME IInv, NEW t \in Targets, NEW k \in Kinds, NEW h \in Handles,
         Registers(t, k, h), RegisterAgain(t, k, h), pending' \in {None, h}
  PROVE  IInv'
<1>1. /\ entries' = Retain(entries, h)
      /\ held' = [held EXCEPT ![h] = @ + 1]
      /\ UNCHANGED <<spans, spanCount, byTarget, nextHandle, refs, retained, typeMeta, referenced,
                     bridge, phase, cursor, limit, dead>>
  BY DEF Registers, RegisterAgain, heapVars, rootVars, gcVars
<1>2. Known(h)
  BY HostAssumption DEF RegisterAgain, Existing, IInv, TypeOK, HandlesExact, TargetsKnown, Known
<1>3. /\ entries' \in [Handles -> Entry] /\ held' \in [Handles -> Nat]
      /\ \A g \in Handles : SameEntry(g)
      /\ entries'[h].refCount = entries[h].refCount + 1 /\ held'[h] = held[h] + 1
      /\ \A g \in Handles : g # h => entries'[g] = entries[g] /\ held'[g] = held[g]
  <2>1. entries \in [Handles -> Entry] /\ held \in [Handles -> Nat]
    BY DEF IInv, TypeOK
  <2>3. /\ entries' \in [Handles -> Entry] /\ \A g \in Handles : SameEntry(g)
        /\ entries'[h].refCount = entries[h].refCount + 1
        /\ \A g \in Handles : g # h => entries'[g] = entries[g]
    BY <1>1, <2>1, RetainCounts DEF SameEntry
  <2>4. /\ held' \in [Handles -> Nat] /\ held'[h] = held[h] + 1
        /\ \A g \in Handles : g # h => held'[g] = held[g]
    BY <1>1, <2>1
  <2> QED
    BY <2>3, <2>4
<1>4. TypeOK'
  BY <1>1, <1>3 DEF IInv, TypeOK, Live
<1>5. HandlesExact'
  <2>1. ASSUME NEW g \in Handles
        PROVE  /\ entries'[g].refCount = held'[g] + Cardinality(WrappersOf(g)')
               /\ Known(g)' <=> entries'[g].refCount > 0
    <3>1. WrappersOf(g)' = WrappersOf(g)
      BY <1>1 DEF WrappersOf
    <3>2. Known(g)' <=> Known(g)
      BY <1>3 DEF SameEntry, Known
    <3>3. CASE g = h
      <4>1. /\ entries[h].refCount \in Nat /\ held[h] \in Nat
            /\ entries[h].refCount = held[h] + Cardinality(WrappersOf(h))
            /\ Cardinality(WrappersOf(h)) \in Nat
        BY Counts
      <4> QED
        BY <1>2, <1>3, <3>1, <3>2, <3>3, <4>1
    <3>4. CASE g # h
      BY <1>3, <3>1, <3>2, <3>4, Counts
    <3> QED
      BY <3>3, <3>4
  <2>2. TargetsKnown'
    <3>1. byTarget' = byTarget /\ \A a \in Addresses : byTarget[a] \in Handles \cup {None}
      BY <1>1 DEF IInv, TypeOK
    <3> QED
      BY <1>3, <3>1 DEF IInv, HandlesExact, TargetsKnown, SameEntry
  <2> QED
    BY <2>1, <2>2 DEF HandlesExact, EntriesCounted
<1>6. WrappersReadable' /\ WrappersBound' /\ DescriptorsKept'
  <2>1. /\ \A o \in Live : WrapperReadable(o)'
        /\ \A g \in Handles : Known(g) => DescriptorKept(g)'
    BY <1>1, <1>3, Growth
  <2>2. \A o \in Offsets : WrapperReadable(o)'
    BY <1>1, <2>1 DEF Live, WrapperReadable
  <2>3. \A g \in Handles : DescriptorKept(g)'
    BY <1>3, <2>1 DEF DescriptorKept, SameEntry, Known
  <2> QED
    BY <2>2, <2>3, WrappersReadableEach DEF DescriptorsKept, DescriptorKept, WrappersReadable, WrappersBound, WrapperReadable
<1>7. MetatablesKept' /\ VisibleKept' /\ SpansInOrder'
  BY <1>1 DEF IInv, MetatablesKept, VisibleKept, Visible, Live, SpansInOrder
<1>8. PendingHeld' /\ HandlesInOrder'
  BY <1>1, <1>3 DEF IInv, TypeOK, PendingHeld, HandlesInOrder, Known, SameEntry
<1> QED
  BY <1>4, <1>5, <1>6, <1>7, <1>8 DEF IInv

\* A registration of a new target takes the next handle, which nothing counts
\* yet (registerObjectHandle, registerFunctionHandle).
LEMMA RegisterNewStep ==
  ASSUME IInv, NEW t \in Targets, NEW k \in Kinds, NEW h \in Handles,
         Registers(t, k, h), RegisterNew(t, k, h), pending' \in {None, h}
  PROVE  IInv'
<1>1. PICK d \in Offsets :
        /\ Vacant(d) /\ Places(d, Descriptor(k))
        /\ entries' = [entries EXCEPT ![h] = NewEntry(t, k, d)]
  BY DEF RegisterNew
<1>2. /\ h = nextHandle /\ nextHandle' = nextHandle + 1
      /\ byTarget' = IF k = "object" /\ Address[t] # NoAddress
                     THEN [byTarget EXCEPT ![Address[t]] = h] ELSE byTarget
      /\ held' = [held EXCEPT ![h] = @ + 1]
      /\ UNCHANGED <<refs, retained, typeMeta, referenced, bridge, phase, cursor, limit, dead>>
  BY DEF RegisterNew, Registers, rootVars, gcVars
<1>3. h \in 1..MaxHandle /\ MaxHandle \in Nat /\ nextHandle \in Nat
  BY <1>2, HostAssumption DEF Handles
<1>4. ~Known(h) /\ entries[h].refCount = 0 /\ held[h] = 0 /\ Cardinality(WrappersOf(h)) = 0
  <2>1. ~Known(h)
    BY <1>2, <1>3 DEF IInv, HandlesInOrder
  <2> QED
    BY <2>1, Counts
<1>5. Placed(d, Descriptor(k)) /\ spans[d].form = "free" /\ d \notin dead
  <2>1. Descriptor(k) \in Span /\ Descriptor(k).form = "descriptor"
    BY NoneApart DEF Descriptor, Free, Span
  <2>2. Descriptor(k).form # "free"
    BY <2>1
  <2> QED
    BY <1>1, <2>1, <2>2, PlacesObject, VacantIsFree
<1>6. /\ spans'[d] = Descriptor(k) /\ \A p \in Live : spans'[p] = spans[p]
      /\ Live' = Live \cup {d} /\ d \notin Live
      /\ Descriptor(k).form = "descriptor" /\ Descriptor(k).kind = k
  BY <1>5 DEF Placed, Live, Descriptor, Free
<1>7. /\ entries' \in [Handles -> Entry] /\ held' \in [Handles -> Nat]
      /\ entries'[h] = NewEntry(t, k, d) /\ held'[h] = 1
      /\ \A g \in Handles : g # h => entries'[g] = entries[g] /\ held'[g] = held[g]
  <2>1. NewEntry(t, k, d) \in Entry
    BY DEF NewEntry, Entry
  <2>2. entries \in [Handles -> Entry] /\ held \in [Handles -> Nat]
    BY DEF IInv, TypeOK
  <2>3. held'[h] = 1
    BY <1>2, <1>4, <2>2
  <2> QED
    BY <1>1, <1>2, <2>1, <2>2, <2>3
<1>8. /\ NewEntry(t, k, d).target = t /\ NewEntry(t, k, d).kind = k
      /\ NewEntry(t, k, d).refCount = 1 /\ NewEntry(t, k, d).nativeMeta = d /\ t # NoTarget
  BY HostAssumption DEF NewEntry
<1>9. \A a \in Addresses : byTarget'[a] = IF k = "object" /\ Address[t] = a THEN h ELSE byTarget[a]
  BY <1>2, HostAssumption DEF IInv, TypeOK
<1>10. TypeOK'
  <2>1. byTarget' \in [Addresses -> Handles \cup {None}]
    BY <1>2, HostAssumption DEF IInv, TypeOK
  <2>2. nextHandle' \in 1..MaxHandle + 1
    BY <1>2, <1>3
  <2>3. dead' \subseteq Live'
    BY <1>2, <1>6 DEF IInv, TypeOK
  <2> QED
    BY <1>2, <1>5, <1>7, <2>1, <2>2, <2>3 DEF IInv, TypeOK, Placed
<1>11. EntriesCounted'
  <2> SUFFICES ASSUME NEW g \in Handles
               PROVE  /\ entries'[g].refCount = held'[g] + Cardinality(WrappersOf(g))'
                      /\ Known(g)' <=> entries'[g].refCount > 0
    BY DEF EntriesCounted
  <2>1. Cardinality(WrappersOf(g))' = Cardinality(WrappersOf(g))
    BY <1>5, <1>6, PlacedCount DEF Placed
  <2>2. CASE g = h
    BY <1>4, <1>7, <1>8, <2>1, <2>2 DEF Known
  <2>3. CASE g # h
    <3>1. Known(g)' <=> Known(g)
      BY <1>7, <2>3 DEF Known
    <3> QED
      BY <1>7, <2>1, <2>3, <3>1, Counts
  <2> QED
    BY <2>2, <2>3
<1>12. TargetsKnown'
  <2> SUFFICES ASSUME NEW a \in Addresses, byTarget'[a] # None
               PROVE  LET e == entries'[byTarget'[a]]
                      IN  e.target # NoTarget /\ e.kind = "object" /\ Address[e.target] = a
    BY DEF TargetsKnown
  <2>1. CASE k = "object" /\ Address[t] = a
    BY <1>7, <1>8, <1>9, <2>1
  <2>2. CASE ~(k = "object" /\ Address[t] = a)
    <3>1. byTarget'[a] = byTarget[a] /\ byTarget[a] \in Handles
      BY <1>9, <2>2 DEF IInv, TypeOK
    <3>2. byTarget[a] # h
      BY <1>4, <3>1 DEF IInv, HandlesExact, TargetsKnown, Known
    <3> QED
      BY <1>7, <3>1, <3>2 DEF IInv, HandlesExact, TargetsKnown
  <2> QED
    BY <2>1, <2>2
<1>13. WrappersReadable' /\ WrappersBound' /\ DescriptorsKept'
  <2>1. \A g \in Handles : Known(g) => SameEntry(g)
    BY <1>4, <1>7 DEF SameEntry
  <2>2. /\ \A o \in Live : WrapperReadable(o)'
        /\ \A g \in Handles : Known(g) => DescriptorKept(g)'
    BY <1>2, <1>6, <2>1, Growth
  <2>3. \A o \in Offsets : WrapperReadable(o)'
    BY <1>6, <2>2 DEF Live, WrapperReadable
  <2>4. DescriptorKept(h)'
    BY <1>2, <1>5, <1>6, <1>7, <1>8 DEF DescriptorKept
  <2>5. \A g \in Handles : g # h => (Known(g)' <=> Known(g))
    BY <1>7 DEF Known
  <2>6. \A g \in Handles : DescriptorKept(g)'
    BY <2>2, <2>4, <2>5 DEF DescriptorKept
  <2> QED
    BY <2>3, <2>6, WrappersReadableEach
       DEF DescriptorsKept, DescriptorKept, WrappersReadable, WrappersBound, WrapperReadable
<1>14. MetatablesKept' /\ VisibleKept'
  BY <1>2, <1>6, MetatablesStay, RootsStay DEF MetatablesKept, RefsCounted, TypesHaveTables
<1>15. PendingHeld' /\ HandlesInOrder' /\ SpansInOrder'
  <2>1. PendingHeld'
    BY <1>7 DEF PendingHeld
  <2>2. HandlesInOrder'
    <3> SUFFICES ASSUME NEW g \in Handles, g >= nextHandle' PROVE ~Known(g)'
      BY DEF HandlesInOrder
    <3>1. g >= nextHandle /\ g # h
      BY <1>2, <1>3 DEF Handles
    <3> QED
      BY <1>7, <3>1 DEF IInv, HandlesInOrder, Known
  <2> QED
    BY <1>5, <2>1, <2>2 DEF Placed
<1> QED
  BY <1>10, <1>11, <1>12, <1>13, <1>14, <1>15 DEF IInv, HandlesExact

\* A registration whose descriptor cannot be made spends a handle only.
LEMMA RegisterFailsStep ==
  ASSUME IInv, NEW t \in Targets, NEW k \in Kinds, RegisterFails(t, k)
  PROVE  IInv'
<1>1. /\ nextHandle <= MaxHandle /\ nextHandle' = nextHandle + 1
      /\ UNCHANGED <<spans, spanCount, entries, byTarget, held, refs, retained, typeMeta, referenced,
                     bridge, pending, phase, cursor, limit, dead>>
  BY DEF RegisterFails, heapVars, rootVars, gcVars
<1>2. MaxHandle \in Nat /\ nextHandle \in 1..MaxHandle + 1
  BY HostAssumption DEF IInv, TypeOK
<1>3. TypeOK'
  <2>1. nextHandle' \in 1..MaxHandle + 1
    BY <1>1, <1>2
  <2> QED
    BY <1>1, <2>1 DEF IInv, TypeOK, Live
<1>4. HandlesInOrder'
  <2>1. \A h \in Handles : h >= nextHandle' => h >= nextHandle
    BY <1>1, <1>2 DEF Handles
  <2> QED
    BY <1>1, <2>1 DEF IInv, HandlesInOrder, Known
<1>5. HandlesExact'
  BY <1>1 DEF IInv, HandlesExact, EntriesCounted, TargetsKnown, Known, WrappersOf
<1>6. WrappersReadable' /\ WrappersBound' /\ DescriptorsKept'
  BY <1>1 DEF IInv, WrappersReadable, WrappersBound, DescriptorsKept, Known, Readable, Described
<1>7. MetatablesKept' /\ VisibleKept' /\ PendingHeld' /\ SpansInOrder'
  BY <1>1 DEF IInv, MetatablesKept, VisibleKept, Visible, Live, PendingHeld, SpansInOrder
<1> QED
  BY <1>3, <1>4, <1>5, <1>6, <1>7 DEF IInv

-----------------------------------------------------------------------------
(* Wrappers                                                                *)

\* A wrapper that is made with the descriptor of its handle, and counted.
LEMMA WrapperPlaced ==
  ASSUME IInv, NEW h \in Handles, NEW o \in Offsets, Wraps(h, o),
         entries' \in [Handles -> Entry], held' \in [Handles -> Nat],
         \A g \in Handles : SameEntry(g),
         \A g \in Handles :
           entries'[g].refCount = held'[g] + Cardinality(WrappersOf(g)) + (IF g = h THEN 1 ELSE 0),
         \A g \in Handles : entries'[g].refCount > 0 <=> entries[g].refCount > 0,
         UNCHANGED <<byTarget, nextHandle, dead>>
  PROVE  /\ spans' \in [Offsets -> Span] /\ spanCount' \in 0..MaxSpans
         /\ \A p \in Live : spans'[p] = spans[p]
         /\ Live' = Live \cup {o} /\ o \notin dead
         /\ HandlesExact' /\ WrappersReadable' /\ WrappersBound' /\ DescriptorsKept'
         /\ HandlesInOrder' /\ SpansInOrder'
<1> DEFINE e == entries[h]
           w == Wrapper(e.kind, h, e.nativeMeta, spans[e.nativeMeta].version)
<1>1. Described(h, e.kind) /\ Vacant(o) /\ Places(o, w)
  BY DEF Wraps
<1>2. /\ Known(h) /\ e.nativeMeta \in Live
      /\ e.kind \in Kinds /\ e.nativeMeta \in Offsets \cup {None}
      /\ spans[e.nativeMeta].version \in Nat
  <2>1. Known(h) /\ e.nativeMeta \in Offsets /\ spans[e.nativeMeta].form = "descriptor"
    BY <1>1 DEF Described
  <2>2. e \in Entry /\ spans[e.nativeMeta] \in Span
    BY <2>1 DEF IInv, TypeOK
  <2> QED
    BY <2>1, <2>2 DEF Live, Entry, Span
<1>3. /\ w \in Span /\ w.form = "wrapper" /\ w.handle = h /\ w.kind = e.kind
      /\ w.nativeMeta = e.nativeMeta /\ w.version = spans[e.nativeMeta].version
  BY <1>2 DEF Wrapper, Span
<1> HIDE DEF w
<1>4. Placed(o, w) /\ spans[o].form = "free" /\ o \notin dead
  <2>1. w.form # "free"
    BY <1>3
  <2> QED
    BY <1>1, <1>3, <2>1, PlacesObject, VacantIsFree
<1>5. spans'[o] = w /\ \A p \in Live : spans'[p] = spans[p]
  BY <1>4 DEF Placed, Live
<1>6. Live' = Live \cup {o} /\ o \notin Live
  BY <1>4 DEF Placed, Live
<1>7. EntriesCounted'
  <2> SUFFICES ASSUME NEW g \in Handles
               PROVE  /\ entries'[g].refCount = held'[g] + Cardinality(WrappersOf(g))'
                      /\ Known(g)' <=> entries'[g].refCount > 0
    BY DEF EntriesCounted
  <2>1. Cardinality(WrappersOf(g))' = IF g = h THEN Cardinality(WrappersOf(g)) + 1
                                              ELSE Cardinality(WrappersOf(g))
    BY <1>3, <1>4, PlacedCount
  <2>2. Known(g)' <=> Known(g)
    BY DEF Known, SameEntry
  <2>3. Known(g) <=> entries[g].refCount > 0
    BY Counts
  <2>4. Known(g)' <=> entries'[g].refCount > 0
    BY <2>2, <2>3
  <2>5. PICK n \in Nat : n = Cardinality(WrappersOf(g))
    BY WrappersFinite
  <2>6. /\ entries'[g].refCount = held'[g] + n + (IF g = h THEN 1 ELSE 0)
        /\ entries'[g].refCount \in Nat /\ held'[g] \in Nat
    BY <2>5 DEF Entry
  <2>7. Cardinality(WrappersOf(g))' = n + (IF g = h THEN 1 ELSE 0)
    BY <2>1, <2>5
  <2> QED
    BY <2>4, <2>6, <2>7
<1>8. TargetsKnown'
  <2>1. byTarget' = byTarget /\ \A a \in Addresses : byTarget[a] \in Handles \cup {None}
    BY DEF IInv, TypeOK
  <2> QED
    BY <2>1 DEF IInv, HandlesExact, TargetsKnown, SameEntry
<1>9. WrappersReadable' /\ WrappersBound' /\ DescriptorsKept'
  <2>1. /\ \A p \in Live : WrapperReadable(p)'
        /\ \A g \in Handles : Known(g) => DescriptorKept(g)'
    BY <1>5, Growth
  <2>2. WrapperReadable(o)'
    <3>1. DescriptorKept(h) /\ DescriptorKept(h)'
      BY <1>2, <2>1 DEF IInv, DescriptorsKept, DescriptorKept
    <3>2. spans'[e.nativeMeta] = spans[e.nativeMeta]
      BY <1>2, <1>5
    <3>3. SameEntry(h)
      OBVIOUS
    <3>4. spans'[e.nativeMeta].form = "descriptor" /\ spans'[e.nativeMeta].kind = e.kind
      BY <1>1, <3>2 DEF Described
    <3>5. /\ entries'[h].nativeMeta = e.nativeMeta /\ entries'[h].target # NoTarget
      BY <1>2, <3>3 DEF SameEntry, Known
    <3>6. Readable(o)'
      BY <1>2, <1>3, <1>5, <3>4, <3>5 DEF Readable, Described, Known, Live
    <3>7. spans'[o].version <= spans'[spans'[o].nativeMeta].version
      BY <1>2, <1>3, <1>5, <3>2
    <3> QED
      BY <1>3, <1>5, <3>5, <3>6, <3>7 DEF WrapperReadable
  <2>3. \A p \in Offsets : WrapperReadable(p)'
    BY <1>6, <2>1, <2>2 DEF Live, WrapperReadable
  <2>4. \A g \in Handles : DescriptorKept(g)'
    BY <2>1 DEF DescriptorKept, SameEntry, Known
  <2> QED
    BY <2>3, <2>4, WrappersReadableEach
       DEF DescriptorsKept, DescriptorKept, WrappersReadable, WrappersBound, WrapperReadable
<1>10. HandlesInOrder'
  BY DEF IInv, HandlesInOrder, Known, SameEntry
<1> QED
  BY <1>4, <1>5, <1>6, <1>7, <1>8, <1>9, <1>10 DEF Placed, HandlesExact

\* Go code wraps a handle it holds (WrapObject, WrapFunction).
LEMMA WrapStep ==
  ASSUME IInv, NEW h \in Handles, NEW o \in Offsets, NEW retain \in BOOLEAN, Wrap(h, o, retain)
  PROVE  IInv'
<1>1. /\ Wraps(h, o) /\ entries' = Retain(entries, h) /\ held' = held
      /\ UNCHANGED <<byTarget, nextHandle, typeMeta, referenced, bridge, pending,
                     phase, cursor, limit, dead>>
  BY DEF Wrap, gcVars
<1>2. entries \in [Handles -> Entry] /\ held' \in [Handles -> Nat]
  BY <1>1 DEF IInv, TypeOK
<1>3. /\ entries' \in [Handles -> Entry] /\ \A g \in Handles : SameEntry(g)
      /\ entries'[h].refCount = entries[h].refCount + 1
      /\ \A g \in Handles : g # h => entries'[g] = entries[g]
  BY <1>1, <1>2, RetainCounts DEF SameEntry
<1>4. Known(h)
  BY <1>1 DEF Wraps, Described
<1>5. ASSUME NEW g \in Handles
      PROVE  /\ entries'[g].refCount
                  = held'[g] + Cardinality(WrappersOf(g)) + (IF g = h THEN 1 ELSE 0)
             /\ entries'[g].refCount > 0 <=> entries[g].refCount > 0
  BY <1>1, <1>3, <1>4, Counts
<1>6. /\ spans' \in [Offsets -> Span] /\ spanCount' \in 0..MaxSpans
      /\ \A p \in Live : spans'[p] = spans[p]
      /\ Live' = Live \cup {o} /\ o \notin dead
      /\ HandlesExact' /\ WrappersReadable' /\ WrappersBound' /\ DescriptorsKept'
      /\ HandlesInOrder' /\ SpansInOrder'
  BY <1>1, <1>2, <1>3, <1>5, WrapperPlaced
<1>7. /\ refs' \in [Offsets -> Nat] /\ retained' \in [Offsets -> Nat]
      /\ RefsCounted' /\ VisibleKept'
  <2>1. CASE retain
    <3>1. refs' = RetainRef(refs, o) /\ retained' = RetainRef(retained, o)
      BY <2>1 DEF Wrap
    <3> QED
      BY <1>1, <1>6, <3>1, RootRetained
  <2>2. CASE ~retain
    <3>1. refs' = refs /\ retained' = retained
      BY <2>2 DEF Wrap
    <3> QED
      BY <1>1, <1>6, <3>1, RootsStay DEF IInv, TypeOK
  <2> QED
    BY <2>1, <2>2
<1>8. TypeOK'
  <2>1. dead' \subseteq Live'
    BY <1>1, <1>6 DEF IInv, TypeOK
  <2> QED
    BY <1>1, <1>3, <1>6, <1>7, <2>1 DEF IInv, TypeOK
<1>9. MetatablesKept'
  BY <1>1, <1>6, <1>7, MetatablesStay DEF MetatablesKept, RefsCounted, TypesHaveTables
<1>10. PendingHeld'
  BY <1>1 DEF IInv, PendingHeld
<1> QED
  BY <1>6, <1>7, <1>8, <1>9, <1>10 DEF IInv

\* A host registration wraps its handle before it gives the handle back, so the
\* entry is never without a reference (RegisterHostObject, RegisterHostFunction).
LEMMA HostRegisteredStep ==
  ASSUME IInv, NEW o \in Offsets, HostRegistered(o)
  PROVE  IInv'
<1> DEFINE h == pending
           wrapped == Retain(entries, h)
<1>1. /\ h # None /\ Wraps(h, o)
      /\ entries' = Release(wrapped, h) /\ byTarget' = Forget(wrapped, byTarget, h)
      /\ held' = [held EXCEPT ![h] = @ - 1]
      /\ refs' = RetainRef(refs, o) /\ retained' = RetainRef(retained, o)
      /\ bridge' = (bridge \/ entries[h].kind = "object") /\ pending' = None
      /\ UNCHANGED <<nextHandle, typeMeta, referenced, phase, cursor, limit, dead>>
  BY DEF HostRegistered, Idle, gcVars
<1>2. h \in Handles /\ entries \in [Handles -> Entry] /\ held \in [Handles -> Nat]
  BY <1>1 DEF IInv, TypeOK
<1>3. held[h] > 0
  BY <1>1 DEF IInv, PendingHeld
<1> HIDE DEF h
<1>4. entries[h].refCount \in Nat /\ entries[h].refCount >= held[h]
  BY <1>2, Counts
<1>5. /\ wrapped \in [Handles -> Entry] /\ wrapped[h].refCount = entries[h].refCount + 1
      /\ \A g \in Handles : /\ wrapped[g].target = entries[g].target
                            /\ wrapped[g].kind = entries[g].kind
                            /\ wrapped[g].nativeMeta = entries[g].nativeMeta
                            /\ g # h => wrapped[g] = entries[g]
  BY <1>2, RetainCounts
<1> HIDE DEF wrapped
<1>6. ~Gone(wrapped, h)
  BY <1>2, <1>3, <1>4, <1>5, ReleaseCounts
<1>7. /\ entries' \in [Handles -> Entry]
      /\ entries'[h].refCount = wrapped[h].refCount - 1
      /\ entries'[h].target = wrapped[h].target /\ entries'[h].kind = wrapped[h].kind
      /\ entries'[h].nativeMeta = wrapped[h].nativeMeta
      /\ \A g \in Handles : g # h => entries'[g] = wrapped[g]
  BY <1>1, <1>2, <1>5, <1>6, ReleaseCounts
<1>8. /\ \A g \in Handles : SameEntry(g)
      /\ entries'[h].refCount = entries[h].refCount
      /\ \A g \in Handles : g # h => entries'[g].refCount = entries[g].refCount
  BY <1>2, <1>4, <1>5, <1>7 DEF SameEntry
<1>9. byTarget' = byTarget
  BY <1>1, <1>6 DEF Forget
<1>10. /\ held' \in [Handles -> Nat] /\ held'[h] = held[h] - 1
       /\ \A g \in Handles : g # h => held'[g] = held[g]
  BY <1>1, <1>2, <1>3
<1>11. ASSUME NEW g \in Handles
       PROVE  /\ entries'[g].refCount
                   = held'[g] + Cardinality(WrappersOf(g)) + (IF g = h THEN 1 ELSE 0)
              /\ entries'[g].refCount > 0 <=> entries[g].refCount > 0
  BY <1>8, <1>10, Counts
<1>12. /\ spans' \in [Offsets -> Span] /\ spanCount' \in 0..MaxSpans
       /\ \A p \in Live : spans'[p] = spans[p]
       /\ Live' = Live \cup {o} /\ o \notin dead
       /\ HandlesExact' /\ WrappersReadable' /\ WrappersBound' /\ DescriptorsKept'
       /\ HandlesInOrder' /\ SpansInOrder'
  BY <1>1, <1>2, <1>7, <1>8, <1>9, <1>10, <1>11, WrapperPlaced
<1>13. /\ refs' \in [Offsets -> Nat] /\ retained' \in [Offsets -> Nat]
       /\ RefsCounted' /\ VisibleKept'
  BY <1>1, <1>12, RootRetained
<1>14. TypeOK'
  <2>1. dead' \subseteq Live' /\ bridge' \in BOOLEAN /\ pending' \in Handles \cup {None}
    BY <1>1, <1>12 DEF IInv, TypeOK
  <2> QED
    BY <1>1, <1>7, <1>9, <1>10, <1>12, <1>13, <2>1 DEF IInv, TypeOK
<1>15. MetatablesKept'
  BY <1>1, <1>12, <1>13, MetatablesStay DEF MetatablesKept, RefsCounted, TypesHaveTables
<1>16. PendingHeld'
  BY <1>1 DEF PendingHeld
<1> QED
  BY <1>12, <1>13, <1>14, <1>15, <1>16 DEF IInv

-----------------------------------------------------------------------------
(* References given back                                                   *)

\* One of what an entry counts goes away: the entry stays with the others, or
\* goes when there is none and takes the address of its target with it.
LEMMA EntryReleased ==
  ASSUME IInv, NEW h \in Handles, Known(h),
         entries' = Release(entries, h), byTarget' = Forget(entries, byTarget, h),
         held' \in [Handles -> Nat],
         \A g \in Handles : Cardinality(WrappersOf(g))' \in Nat,
         \A g \in Handles : g # h => /\ held'[g] = held[g]
                                    /\ WrappersOf(g)' = WrappersOf(g),
         held'[h] + Cardinality(WrappersOf(h))' + 1 = held[h] + Cardinality(WrappersOf(h))
  PROVE  /\ entries' \in [Handles -> Entry]
         /\ byTarget' \in [Addresses -> Handles \cup {None}]
         /\ HandlesExact'
         /\ \A g \in Handles : Known(g)' => Known(g) /\ SameEntry(g)
         /\ \A g \in Handles : ~Known(g)' => ~Known(g) \/ g = h
         /\ ~Known(h)' => Cardinality(WrappersOf(h))' = 0
<1>1. /\ entries \in [Handles -> Entry] /\ byTarget \in [Addresses -> Handles \cup {None}]
  BY DEF IInv, TypeOK
<1>2. /\ entries[h].refCount \in Nat /\ held[h] \in Nat
      /\ entries[h].refCount = held[h] + Cardinality(WrappersOf(h))
      /\ entries[h].refCount > 0 /\ Cardinality(WrappersOf(h)) \in Nat
  BY Counts
<1>3. /\ entries' \in [Handles -> Entry] /\ (Gone(entries, h) <=> entries[h].refCount <= 1)
      /\ Gone(entries, h) => entries'[h] = NoEntry
      /\ ~Gone(entries, h) => /\ entries'[h].refCount = entries[h].refCount - 1
                              /\ SameEntry(h)
      /\ \A g \in Handles : g # h => entries'[g] = entries[g]
  BY <1>1, ReleaseCounts DEF SameEntry
<1>4. NoEntry.target = NoTarget /\ NoEntry.refCount = 0
  BY DEF NoEntry
<1>5. \A g \in Handles : g # h => (Known(g)' <=> Known(g)) /\ SameEntry(g)
  BY <1>3 DEF Known, SameEntry
<1>6. Known(h)' <=> ~Gone(entries, h)
  BY <1>3, <1>4 DEF Known, SameEntry
<1>7. EntriesCounted'
  <2> SUFFICES ASSUME NEW g \in Handles
               PROVE  /\ entries'[g].refCount = held'[g] + Cardinality(WrappersOf(g))'
                      /\ Known(g)' <=> entries'[g].refCount > 0
    BY DEF EntriesCounted
  <2>1. CASE g # h
    BY <1>3, <1>5, <2>1, Counts
  <2>2. CASE g = h
    <3>1. PICK n \in Nat : n = Cardinality(WrappersOf(h))'
      OBVIOUS
    <3>2. held'[h] \in Nat /\ held'[h] + n + 1 = entries[h].refCount
      BY <1>2, <3>1
    <3>3. entries'[h].refCount = held'[h] + n
      BY <1>2, <1>3, <1>4, <3>2
    <3>4. Known(h)' <=> entries'[h].refCount > 0
      BY <1>2, <1>3, <1>4, <1>6
    <3> QED
      BY <2>2, <3>1, <3>3, <3>4
  <2> QED
    BY <2>1, <2>2
<1>8. \A a \in Addresses :
        byTarget'[a] = IF Gone(entries, h) /\ Address[entries[h].target] = a THEN None ELSE byTarget[a]
  <2>1. NoAddress \notin Addresses
    BY HostAssumption
  <2> QED
    BY <1>1, <2>1 DEF Forget
<1>9. byTarget' \in [Addresses -> Handles \cup {None}]
  BY <1>1 DEF Forget
<1>10. TargetsKnown'
  <2> SUFFICES ASSUME NEW a \in Addresses, byTarget'[a] # None
               PROVE  LET e == entries'[byTarget'[a]]
                      IN  e.target # NoTarget /\ e.kind = "object" /\ Address[e.target] = a
    BY DEF TargetsKnown
  <2>1. /\ byTarget'[a] = byTarget[a] /\ byTarget[a] \in Handles
        /\ ~(Gone(entries, h) /\ Address[entries[h].target] = a)
    BY <1>1, <1>8
  <2>2. /\ entries[byTarget[a]].target # NoTarget /\ entries[byTarget[a]].kind = "object"
        /\ Address[entries[byTarget[a]].target] = a
    BY <2>1 DEF IInv, HandlesExact, TargetsKnown
  <2>3. byTarget[a] = h => ~Gone(entries, h)
    BY <2>1, <2>2
  <2>4. SameEntry(byTarget[a])
    BY <1>3, <1>5, <2>1, <2>3
  <2> QED
    BY <2>1, <2>2, <2>4 DEF SameEntry
<1>11. ~Known(h)' => Cardinality(WrappersOf(h))' = 0
  <2>1. PICK n \in Nat : n = Cardinality(WrappersOf(h))'
    OBVIOUS
  <2>2. held'[h] \in Nat /\ held'[h] + n + 1 = entries[h].refCount
    BY <1>2, <2>1
  <2> QED
    BY <1>3, <1>6, <2>1, <2>2
<1> QED
  BY <1>3, <1>5, <1>6, <1>7, <1>9, <1>10, <1>11 DEF HandlesExact

\* Where the entries of the wrappers that are left stay, and only what was dead is
\* freed, wrappers and descriptors stay.
LEMMA Shrink ==
  ASSUME IInv, \A o \in Offsets : spans'[o] = spans[o] \/ (o \in dead /\ spans'[o].form = "free"),
         dead' \subseteq dead,
         \A h \in Handles : Known(h)' => Known(h) /\ SameEntry(h),
         \A o \in Offsets : spans'[o].form = "wrapper" => Known(spans[o].handle)'
  PROVE  WrappersReadable' /\ WrappersBound' /\ DescriptorsKept'
<1>1. ASSUME NEW h \in Handles, Known(h)'
      PROVE  /\ DescriptorKept(h)' /\ SameEntry(h) /\ Known(h)
             /\ entries[h].nativeMeta \in Offsets
             /\ spans'[entries[h].nativeMeta] = spans[entries[h].nativeMeta]
  <2>1. /\ Known(h) /\ SameEntry(h)
        /\ entries[h].nativeMeta \in Offsets \ dead
        /\ spans[entries[h].nativeMeta].form = "descriptor"
        /\ spans[entries[h].nativeMeta].kind = entries[h].kind
    BY <1>1 DEF IInv, DescriptorsKept
  <2>2. spans'[entries[h].nativeMeta] = spans[entries[h].nativeMeta]
    BY <2>1
  <2> QED
    BY <2>1, <2>2 DEF DescriptorKept, SameEntry
<1>2. ASSUME NEW o \in Offsets PROVE WrapperReadable(o)'
  <2> SUFFICES ASSUME spans'[o].form = "wrapper" PROVE WrapperReadable(o)'
    BY DEF WrapperReadable
  <2>1. spans'[o] = spans[o]
    OBVIOUS
  <2>2. WrapperReadable(o) /\ spans[o].handle \in Handles /\ Known(spans[o].handle)'
    BY <2>1, WrappersReadableEach DEF IInv, WrapperReadable
  <2>3. /\ SameEntry(spans[o].handle)
        /\ entries[spans[o].handle].nativeMeta \in Offsets
        /\ spans'[entries[spans[o].handle].nativeMeta] = spans[entries[spans[o].handle].nativeMeta]
    BY <1>1, <2>2
  <2> QED
    BY <2>1, <2>2, <2>3 DEF WrapperReadable, Readable, Described, SameEntry
<1>3. \A h \in Handles : DescriptorKept(h)'
  BY <1>1 DEF DescriptorKept
<1> QED
  BY <1>2, <1>3, WrappersReadableEach
     DEF DescriptorsKept, DescriptorKept, WrappersReadable, WrappersBound, WrapperReadable

\* Go code, or a host registration that fails, gives a handle back.
LEMMA HeldReleased ==
  ASSUME IInv, NEW h \in Handles, held[h] > 0,
         entries' = Release(entries, h), byTarget' = Forget(entries, byTarget, h),
         held' = [held EXCEPT ![h] = @ - 1],
         UNCHANGED <<spans, spanCount, nextHandle, refs, retained, typeMeta, referenced,
                     phase, cursor, limit, dead>>,
         bridge' \in BOOLEAN, pending' \in {None, pending}, pending' # None => Idle
  PROVE  IInv'
<1>1. Known(h)
  BY Counts
<1>2. /\ held' \in [Handles -> Nat] /\ held'[h] = held[h] - 1 /\ held[h] \in Nat
      /\ \A g \in Handles : g # h => held'[g] = held[g]
  BY DEF IInv, TypeOK
<1>3. \A g \in Handles : WrappersOf(g)' = WrappersOf(g)
  BY DEF WrappersOf
<1>4. \A g \in Handles : Cardinality(WrappersOf(g))' \in Nat
  BY <1>3, WrappersFinite
<1>5. held'[h] + Cardinality(WrappersOf(h))' + 1 = held[h] + Cardinality(WrappersOf(h))
  BY <1>2, <1>3, WrappersFinite
<1>6. /\ entries' \in [Handles -> Entry]
      /\ byTarget' \in [Addresses -> Handles \cup {None}]
      /\ HandlesExact'
      /\ \A g \in Handles : Known(g)' => Known(g) /\ SameEntry(g)
      /\ \A g \in Handles : ~Known(g)' => ~Known(g) \/ g = h
      /\ ~Known(h)' => Cardinality(WrappersOf(h))' = 0
  BY <1>1, <1>2, <1>3, <1>4, <1>5, EntryReleased
<1>7. \A o \in Offsets : spans'[o].form = "wrapper" => Known(spans[o].handle)'
  <2> SUFFICES ASSUME NEW o \in Offsets, spans[o].form = "wrapper"
               PROVE  Known(spans[o].handle)'
    OBVIOUS
  <2>1. spans[o].handle \in Handles /\ Known(spans[o].handle)
    BY WrappersReadableEach DEF IInv, WrapperReadable, Readable, Described
  <2>2. CASE spans[o].handle # h
    BY <1>6, <2>1, <2>2
  <2>3. CASE spans[o].handle = h
    <3>1. o \in WrappersOf(h)
      BY <2>3 DEF WrappersOf
    <3>2. Cardinality(WrappersOf(h)) # 0
      BY <3>1, WrappersFinite, FS_EmptySet
    <3> QED
      BY <1>3, <1>6, <2>3, <3>2
  <2> QED
    BY <2>2, <2>3
<1>8. WrappersReadable' /\ WrappersBound' /\ DescriptorsKept'
  BY <1>6, <1>7, Shrink
<1>9. TypeOK'
  BY <1>2, <1>6 DEF IInv, TypeOK, Live
<1>10. MetatablesKept' /\ VisibleKept' /\ SpansInOrder'
  BY DEF IInv, MetatablesKept, VisibleKept, Visible, Live, SpansInOrder
<1>11. PendingHeld' /\ HandlesInOrder'
  <2>1. PendingHeld'
    BY DEF PendingHeld, Idle
  <2> QED
    BY <1>6, <2>1 DEF IInv, HandlesInOrder
<1> QED
  BY <1>6, <1>8, <1>9, <1>10, <1>11 DEF IInv

\* Registry.Release.
LEMMA ReleaseHandleStep ==
  ASSUME IInv, NEW h \in Handles, ReleaseHandle(h)
  PROVE  IInv'
<1>1. /\ Idle /\ held[h] > 0
      /\ entries' = Release(entries, h) /\ byTarget' = Forget(entries, byTarget, h)
      /\ held' = [held EXCEPT ![h] = @ - 1]
      /\ UNCHANGED <<spans, spanCount, nextHandle, refs, retained, typeMeta, referenced,
                     bridge, pending, phase, cursor, limit, dead>>
  BY DEF ReleaseHandle, heapVars, rootVars, gcVars
<1>2. bridge' \in BOOLEAN
  BY <1>1 DEF IInv, TypeOK
<1> QED
  BY <1>1, <1>2, HeldReleased

\* A host registration that fails.
LEMMA HostFailsStep ==
  ASSUME IInv, HostFails
  PROVE  IInv'
<1>1. /\ pending # None
      /\ entries' = Release(entries, pending) /\ byTarget' = Forget(entries, byTarget, pending)
      /\ held' = [held EXCEPT ![pending] = @ - 1]
      /\ pending' = None
      /\ UNCHANGED <<spans, spanCount, nextHandle, refs, retained, typeMeta, referenced,
                     phase, cursor, limit, dead>>
  BY DEF HostFails, Idle, heapVars, rootVars, gcVars
<1>2. pending \in Handles /\ held[pending] > 0 /\ bridge \in BOOLEAN
  BY <1>1 DEF IInv, TypeOK, PendingHeld
<1>3. bridge' \in BOOLEAN
  BY <1>2 DEF HostFails
<1> QED
  BY <1>1, <1>2, <1>3, HeldReleased

-----------------------------------------------------------------------------
(* Versions, values and metatables                                         *)

\* What an object is, apart from its version.
SameObject(o) ==
  /\ spans'[o].form = spans[o].form /\ spans'[o].kind = spans[o].kind
  /\ spans'[o].handle = spans[o].handle /\ spans'[o].nativeMeta = spans[o].nativeMeta

\* A version that changes leaves the rest of the object, and the other objects.
LEMMA VersionChanged ==
  ASSUME NEW o \in Offsets, NEW v \in Nat, spans \in [Offsets -> Span],
         spans' = [spans EXCEPT ![o].version = v]
  PROVE  /\ spans' \in [Offsets -> Span] /\ spans'[o].version = v
         /\ \A p \in Offsets : SameObject(p) /\ (p # o => spans'[p] = spans[p])
<1>1. spans' = [spans EXCEPT ![o] = [spans[o] EXCEPT !.version = v]]
  OBVIOUS
<1>2. PICK f \in {"free", "wrapper", "descriptor", "table"}, k \in Kinds,
           h \in Handles \cup {None}, m \in Offsets \cup {None}, w \in Nat :
        spans[o] = [form |-> f, kind |-> k, handle |-> h, nativeMeta |-> m, version |-> w]
  BY DEF Span
<1>3. [spans[o] EXCEPT !.version = v]
        = [form |-> f, kind |-> k, handle |-> h, nativeMeta |-> m, version |-> v]
  BY <1>2
<1>4. [spans[o] EXCEPT !.version = v] \in Span
  BY <1>3 DEF Span
<1>5. spans'[o] = [form |-> f, kind |-> k, handle |-> h, nativeMeta |-> m, version |-> v]
  BY <1>1, <1>3
<1>6. spans' \in [Offsets -> Span] /\ \A p \in Offsets : p # o => spans'[p] = spans[p]
  BY <1>1, <1>4
<1> QED
  BY <1>2, <1>5, <1>6 DEF SameObject

\* An object whose version changes is what it was otherwise; a descriptor's version
\* may only grow, and a wrapper's follows it.
LEMMA VersionStep ==
  ASSUME IInv, \A p \in Offsets : SameObject(p), spans' \in [Offsets -> Span],
         \A p \in Offsets : spans[p].form = "wrapper" =>
           spans'[p].version <= spans'[spans[p].nativeMeta].version,
         UNCHANGED <<spanCount, entries, byTarget, nextHandle, held, refs, retained, typeMeta,
                     referenced, bridge, pending, phase, cursor, limit, dead>>
  PROVE  IInv'
<1>1. Live' = Live /\ Visible' = Visible /\ \A h \in Handles : WrappersOf(h)' = WrappersOf(h)
  BY DEF Live, Visible, WrappersOf, SameObject
<1>2. TypeOK'
  BY <1>1 DEF IInv, TypeOK
<1>3. HandlesExact'
  BY <1>1 DEF IInv, HandlesExact, EntriesCounted, TargetsKnown, Known
<1>4. WrappersReadable' /\ WrappersBound' /\ DescriptorsKept'
  <2>1. DescriptorsKept'
    BY DEF IInv, DescriptorsKept, SameObject, Known
  <2>2. WrappersBound'
    BY DEF IInv, WrappersBound, SameObject
  <2>3. ASSUME NEW o \in Offsets, spans'[o].form = "wrapper"
        PROVE  /\ Readable(o)' /\ entries'[spans'[o].handle].nativeMeta = spans'[o].nativeMeta
               /\ spans'[o].version <= spans'[spans'[o].nativeMeta].version
    BY <2>3 DEF IInv, WrappersReadable, Readable, Described, Known, SameObject
  <2> QED
    BY <2>1, <2>2, <2>3 DEF WrappersReadable
<1>5. MetatablesKept' /\ VisibleKept' /\ PendingHeld' /\ HandlesInOrder' /\ SpansInOrder'
  <2>1. MetatablesKept'
    BY NoneApart DEF IInv, TypeOK, MetatablesKept, SameObject
  <2>2. VisibleKept' /\ PendingHeld'
    BY <1>1 DEF IInv, VisibleKept, PendingHeld
  <2>3. HandlesInOrder' /\ SpansInOrder'
    BY DEF IInv, HandlesInOrder, SpansInOrder, Known, SameObject
  <2> QED
    BY <2>1, <2>2, <2>3
<1> QED
  BY <1>2, <1>3, <1>4, <1>5 DEF IInv

\* BumpDescriptorVersion.
LEMMA BumpStep ==
  ASSUME IInv, NEW h \in Handles, BumpDescriptorVersion(h)
  PROVE  IInv'
<1> DEFINE d == entries[h].nativeMeta
<1>1. /\ d \in Offsets /\ spans[d].form = "descriptor" /\ spans \in [Offsets -> Span]
      /\ spans' = [spans EXCEPT ![d].version = @ + 1]
      /\ UNCHANGED <<spanCount, entries, byTarget, nextHandle, held, refs, retained, typeMeta,
                     referenced, bridge, pending, phase, cursor, limit, dead>>
  BY DEF BumpDescriptorVersion, Described, IInv, TypeOK, registryVars, rootVars, gcVars
<1> HIDE DEF d
<1>2. \A p \in Offsets : spans[p].version \in Nat
  BY <1>1 DEF Span
<1>3. PICK v \in Nat : v = spans[d].version + 1 /\ spans' = [spans EXCEPT ![d].version = v]
  <2>1. spans[d].version + 1 \in Nat
    BY <1>1, <1>2
  <2>2. spans' = [spans EXCEPT ![d].version = spans[d].version + 1]
    BY <1>1
  <2> QED
    BY <2>1, <2>2
<1>4. /\ spans' \in [Offsets -> Span] /\ spans'[d].version = v
      /\ \A p \in Offsets : SameObject(p) /\ (p # d => spans'[p] = spans[p])
  BY <1>1, <1>3, VersionChanged
<1>5. ASSUME NEW p \in Offsets, spans[p].form = "wrapper"
      PROVE  spans'[p].version <= spans'[spans[p].nativeMeta].version
  <2>1. /\ spans[p].version <= spans[spans[p].nativeMeta].version
        /\ spans[p].nativeMeta \in Offsets /\ p # d
    BY <1>1, <1>5 DEF IInv, WrappersReadable, Readable, Described
  <2> QED
    BY <1>2, <1>3, <1>4, <2>1
<1> QED
  BY <1>1, <1>4, <1>5, VersionStep

\* A use of a wrapper (resolveHostDescriptor, RefreshWrapper).
LEMMA UseWrapperStep ==
  ASSUME IInv, NEW o \in Offsets, UseWrapper(o)
  PROVE  IInv'
<1> DEFINE d == entries[spans[o].handle].nativeMeta
<1>1. /\ spans[o].form = "wrapper" /\ Readable(o) /\ spans \in [Offsets -> Span]
      /\ spans' = [spans EXCEPT ![o].version = spans[d].version]
      /\ UNCHANGED <<spanCount, entries, byTarget, nextHandle, held, refs, retained, typeMeta,
                     referenced, bridge, pending, phase, cursor, limit, dead>>
  BY DEF UseWrapper, IInv, TypeOK, registryVars, rootVars, gcVars
<1>2. d \in Offsets /\ d = spans[o].nativeMeta /\ spans[d].form = "descriptor"
  BY <1>1 DEF IInv, WrappersReadable, Readable, Described
<1> HIDE DEF d
<1>3. \A p \in Offsets : spans[p].version \in Nat
  BY <1>1 DEF Span
<1>4. PICK v \in Nat : v = spans[d].version
  BY <1>2, <1>3
<1>5. /\ spans' \in [Offsets -> Span] /\ spans'[o].version = v
      /\ \A p \in Offsets : SameObject(p) /\ (p # o => spans'[p] = spans[p])
  BY <1>1, <1>4, VersionChanged
<1>6. ASSUME NEW p \in Offsets, spans[p].form = "wrapper"
      PROVE  spans'[p].version <= spans'[spans[p].nativeMeta].version
  <2>1. /\ spans[p].version <= spans[spans[p].nativeMeta].version
        /\ spans[p].nativeMeta \in Offsets /\ spans[p].nativeMeta # o
    BY <1>1, <1>6 DEF IInv, WrappersReadable, Readable, Described
  <2>2. d # o
    BY <1>1, <1>2
  <2> QED
    BY <1>2, <1>3, <1>4, <1>5, <2>1, <2>2
<1> QED
  BY <1>1, <1>5, <1>6, VersionStep

\* A table is made and retained (Engine.NewTable).
LEMMA NewTableStep ==
  ASSUME IInv, NEW o \in Offsets, NewTable(o)
  PROVE  IInv'
<1> DEFINE table == [Free EXCEPT !.form = "table"]
<1>1. /\ VacantForTable(o) /\ Places(o, table)
      /\ refs' = RetainRef(refs, o) /\ retained' = RetainRef(retained, o)
      /\ UNCHANGED <<entries, byTarget, nextHandle, held, typeMeta, referenced, bridge, pending,
                     phase, cursor, limit, dead>>
  BY DEF NewTable, registryVars, gcVars
<1>2. table \in Span /\ table.form = "table"
  BY DEF Free, Span, Kinds
<1> HIDE DEF table
<1>3. Placed(o, table) /\ spans[o].form = "free" /\ o \notin dead
  <2>1. table.form # "free"
    BY <1>2
  <2> QED
    BY <1>1, <1>2, <2>1, PlacesObject, VacantIsFree
<1>4. /\ \A p \in Live : spans'[p] = spans[p]
      /\ spans'[o].form = "table" /\ Live' = Live \cup {o}
      /\ spans' \in [Offsets -> Span] /\ spanCount' \in 0..MaxSpans /\ SpansInOrder'
  BY <1>2, <1>3 DEF Placed, Live
<1>5. /\ refs' \in [Offsets -> Nat] /\ retained' \in [Offsets -> Nat]
      /\ RefsCounted' /\ VisibleKept'
  BY <1>1, <1>3, <1>4, RootRetained
<1>6. TypeOK'
  <2>1. dead' \subseteq Live'
    BY <1>1, <1>4 DEF IInv, TypeOK
  <2> QED
    BY <1>1, <1>4, <1>5, <2>1 DEF IInv, TypeOK
<1>7. HandlesExact'
  <2>1. \A h \in Handles : Cardinality(WrappersOf(h))' = Cardinality(WrappersOf(h))
    BY <1>2, <1>3, PlacedCount
  <2> QED
    BY <1>1, <2>1 DEF IInv, HandlesExact, EntriesCounted, TargetsKnown, Known
<1>8. WrappersReadable' /\ WrappersBound' /\ DescriptorsKept'
  <2>1. \A h \in Handles : SameEntry(h)
    BY <1>1 DEF SameEntry
  <2>2. /\ \A p \in Live : WrapperReadable(p)'
        /\ \A h \in Handles : Known(h) => DescriptorKept(h)'
    BY <1>1, <1>4, <2>1, Growth
  <2>3. \A p \in Offsets : WrapperReadable(p)'
    BY <1>4, <2>2 DEF Live, WrapperReadable
  <2>4. \A h \in Handles : DescriptorKept(h)'
    BY <1>1, <2>2 DEF DescriptorKept, Known
  <2> QED
    BY <2>3, <2>4, WrappersReadableEach
       DEF DescriptorsKept, DescriptorKept, WrappersReadable, WrappersBound, WrapperReadable
<1>9. MetatablesKept'
  BY <1>1, <1>4, <1>5, MetatablesStay DEF MetatablesKept, RefsCounted, TypesHaveTables
<1>10. PendingHeld' /\ HandlesInOrder'
  BY <1>1 DEF IInv, PendingHeld, HandlesInOrder, Known
<1> QED
  BY <1>4, <1>5, <1>6, <1>7, <1>8, <1>9, <1>10 DEF IInv

\* What no object, entry or collection changes.
LEMMA HeapAndEntriesStay ==
  ASSUME IInv, UNCHANGED <<spans, spanCount, entries, byTarget, nextHandle, held, bridge, pending>>
  PROVE  /\ Live' = Live /\ HandlesExact' /\ PendingHeld' /\ HandlesInOrder' /\ SpansInOrder'
         /\ WrappersBound' /\ WrappersReadable'
<1>1. /\ Live' = Live /\ \A h \in Handles : WrappersOf(h)' = WrappersOf(h)
      /\ \A h \in Handles : Known(h)' <=> Known(h)
  BY DEF Live, WrappersOf, Known
<1>2. HandlesExact'
  BY <1>1 DEF IInv, HandlesExact, EntriesCounted, TargetsKnown
<1>3. PendingHeld' /\ HandlesInOrder' /\ SpansInOrder' /\ WrappersBound'
  BY <1>1 DEF IInv, PendingHeld, HandlesInOrder, SpansInOrder, WrappersBound
<1>4. WrappersReadable'
  BY DEF IInv, WrappersReadable, Readable, Described, Known
<1> QED
  BY <1>1, <1>2, <1>3, <1>4

\* A value Go code can name is retained once more (External.RetainValue).
LEMMA RetainValueStep ==
  ASSUME IInv, NEW o \in Offsets, RetainValue(o)
  PROVE  IInv'
<1>1. /\ o \in Visible /\ refs' = RetainRef(refs, o) /\ retained' = RetainRef(retained, o)
      /\ UNCHANGED <<spans, spanCount, entries, byTarget, nextHandle, held, typeMeta, referenced,
                     bridge, pending, phase, cursor, limit, dead>>
  BY DEF RetainValue, heapVars, registryVars, gcVars
<1>2. /\ Live' = Live /\ HandlesExact' /\ PendingHeld' /\ HandlesInOrder' /\ SpansInOrder'
      /\ WrappersBound' /\ WrappersReadable'
  BY <1>1, HeapAndEntriesStay
<1>3. o \in Live' \ dead
  BY <1>1, <1>2 DEF IInv, VisibleKept
<1>4. /\ refs' \in [Offsets -> Nat] /\ retained' \in [Offsets -> Nat]
      /\ RefsCounted' /\ VisibleKept'
  BY <1>1, <1>2, <1>3, RootRetained
<1>5. TypeOK' /\ DescriptorsKept' /\ MetatablesKept'
  <2>1. TypeOK'
    BY <1>1, <1>2, <1>4 DEF IInv, TypeOK
  <2>2. DescriptorsKept'
    BY <1>1 DEF IInv, DescriptorsKept, Known
  <2>3. TypesHaveTables'
    BY <1>1, MetatablesStay
  <2> QED
    BY <1>4, <2>1, <2>2, <2>3 DEF MetatablesKept, RefsCounted, TypesHaveTables
<1> QED
  BY <1>2, <1>4, <1>5 DEF IInv

\* A reference Go code gives back is one it has, and the root is counted once less.
LEMMA RootReleased ==
  ASSUME NEW r \in [Offsets -> Nat], NEW o \in Offsets, r[o] > 0
  PROVE  /\ ReleaseRef(r, o) \in [Offsets -> Nat] /\ ReleaseRef(r, o)[o] = r[o] - 1
         /\ \A p \in Offsets : p # o => ReleaseRef(r, o)[p] = r[p]
<1>1. o # None
  BY NoneApart
<1>2. r[o] \in Nat /\ r[o] - 1 \in Nat
  OBVIOUS
<1>3. ReleaseRef(r, o) = [r EXCEPT ![o] = r[o] - 1]
  <2>1. ReleaseRef(r, o) = [r EXCEPT ![o] = IF r[o] <= 1 THEN 0 ELSE r[o] - 1]
    BY <1>1 DEF ReleaseRef
  <2>2. (IF r[o] <= 1 THEN 0 ELSE r[o] - 1) = r[o] - 1
    BY <1>2
  <2> QED
    BY <2>1, <2>2
<1> QED
  BY <1>2, <1>3

\* Go code gives a value back (External.ReleaseValue).
LEMMA ReleaseValueStep ==
  ASSUME IInv, NEW o \in Offsets, ReleaseValue(o)
  PROVE  IInv'
<1>1. /\ retained[o] > 0 /\ refs' = ReleaseRef(refs, o) /\ retained' = ReleaseRef(retained, o)
      /\ UNCHANGED <<spans, spanCount, entries, byTarget, nextHandle, held, typeMeta, referenced,
                     bridge, pending, phase, cursor, limit, dead>>
  BY DEF ReleaseValue, heapVars, registryVars, gcVars
<1>2. /\ Live' = Live /\ HandlesExact' /\ PendingHeld' /\ HandlesInOrder' /\ SpansInOrder'
      /\ WrappersBound' /\ WrappersReadable'
  BY <1>1, HeapAndEntriesStay
<1>3. refs \in [Offsets -> Nat] /\ retained \in [Offsets -> Nat]
  BY DEF IInv, TypeOK
<1>4. ASSUME NEW p \in Offsets
      PROVE  Cardinality({k \in TypeKinds : typeMeta[k] = p}) \in Nat
  <2>1. {k \in TypeKinds : typeMeta[k] = p} \in SUBSET TypeKinds
    OBVIOUS
  <2> QED
    BY <2>1, HostAssumption, FS_Subset, FS_CardinalityType
<1>5. \A p \in Offsets : refs[p] = retained[p] + Cardinality({k \in TypeKinds : typeMeta[k] = p})
  BY DEF IInv, MetatablesKept
<1>6. refs[o] > 0
  <2>1. PICK n \in Nat : n = Cardinality({k \in TypeKinds : typeMeta[k] = o})
    BY <1>4
  <2>2. refs[o] = retained[o] + n /\ retained[o] \in Nat
    BY <1>3, <1>5, <2>1
  <2> QED
    BY <1>1, <2>2
<1>7. /\ refs' \in [Offsets -> Nat] /\ refs'[o] = refs[o] - 1
      /\ retained' \in [Offsets -> Nat] /\ retained'[o] = retained[o] - 1
      /\ \A p \in Offsets : p # o => refs'[p] = refs[p] /\ retained'[p] = retained[p]
  BY <1>1, <1>3, <1>6, RootReleased
<1>8. RefsCounted'
  <2> SUFFICES ASSUME NEW p \in Offsets
               PROVE  refs'[p] = retained'[p] + Cardinality({k \in TypeKinds : typeMeta'[k] = p})
    BY DEF RefsCounted
  <2>1. PICK n \in Nat : n = Cardinality({k \in TypeKinds : typeMeta[k] = p})
    BY <1>4
  <2>2. Cardinality({k \in TypeKinds : typeMeta'[k] = p}) = n
    BY <1>1, <2>1
  <2>3. refs[p] = retained[p] + n /\ refs[p] \in Nat /\ retained[p] \in Nat
    BY <1>3, <1>5, <2>1
  <2>4. refs'[p] = retained'[p] + n
    BY <1>1, <1>7, <2>3
  <2> QED
    BY <2>2, <2>4
<1>9. VisibleKept'
  <2>1. Visible' \subseteq Visible
    BY <1>1, <1>3, <1>6, <1>7 DEF Visible
  <2> QED
    BY <1>1, <1>2, <2>1 DEF IInv, VisibleKept
<1>10. TypeOK' /\ DescriptorsKept' /\ MetatablesKept'
  <2>1. TypeOK'
    BY <1>1, <1>2, <1>7 DEF IInv, TypeOK
  <2>2. DescriptorsKept'
    BY <1>1 DEF IInv, DescriptorsKept, Known
  <2>3. TypesHaveTables'
    BY <1>1, MetatablesStay
  <2> QED
    BY <1>8, <2>1, <2>2, <2>3 DEF MetatablesKept, RefsCounted, TypesHaveTables
<1> QED
  BY <1>2, <1>9, <1>10 DEF IInv

\* The Lua state comes to refer to an object, or no longer does.
LEMMA ReferenceStep ==
  ASSUME IInv, NEW o \in Offsets, Refer(o) \/ Drop(o)
  PROVE  IInv'
<1>1. /\ referenced' \subseteq Visible
      /\ UNCHANGED <<spans, spanCount, entries, byTarget, nextHandle, held, refs, retained, typeMeta,
                     bridge, pending, phase, cursor, limit, dead>>
  BY DEF Refer, Drop, Visible, heapVars, registryVars, gcVars
<1>2. /\ Live' = Live /\ HandlesExact' /\ PendingHeld' /\ HandlesInOrder' /\ SpansInOrder'
      /\ WrappersBound' /\ WrappersReadable'
  BY <1>1, HeapAndEntriesStay
<1>3. VisibleKept'
  <2>1. Visible' \subseteq Visible
    BY <1>1 DEF Visible
  <2> QED
    BY <1>1, <1>2, <2>1 DEF IInv, VisibleKept
<1>4. TypeOK' /\ DescriptorsKept' /\ MetatablesKept'
  <2>1. referenced' \subseteq Offsets
    BY <1>1 DEF IInv, TypeOK, Visible
  <2>2. TypeOK'
    BY <1>1, <1>2, <2>1 DEF IInv, TypeOK
  <2>3. DescriptorsKept'
    BY <1>1 DEF IInv, DescriptorsKept, Known
  <2>4. MetatablesKept'
    BY <1>1 DEF IInv, MetatablesKept
  <2> QED
    BY <2>2, <2>3, <2>4
<1> QED
  BY <1>2, <1>3, <1>4 DEF IInv

\* The types an object is the metatable of.
TypesOf(o) == {k \in TypeKinds : typeMeta[k] = o}

\* The number of types an object is the metatable of is a number.
LEMMA TypesFinite ==
  ASSUME NEW o
  PROVE  IsFiniteSet(TypesOf(o)) /\ Cardinality(TypesOf(o)) \in Nat
<1>1. TypesOf(o) \in SUBSET TypeKinds
  BY DEF TypesOf
<1> QED
  BY <1>1, HostAssumption, FS_Subset, FS_CardinalityType

\* The metatable of a type is a root.
LEMMA TypeMetaVisible ==
  ASSUME IInv, NEW k \in TypeKinds, typeMeta[k] # None
  PROVE  typeMeta[k] \in Offsets /\ refs[typeMeta[k]] > 0 /\ typeMeta[k] \in Visible
<1> DEFINE o == typeMeta[k]
<1>1. o \in Offsets
  BY DEF IInv, TypeOK
<1>2. k \in TypesOf(o)
  BY DEF TypesOf
<1>3. PICK n \in Nat : n = Cardinality(TypesOf(o))
  BY TypesFinite
<1>4. n # 0
  BY <1>2, <1>3, TypesFinite, FS_EmptySet
<1>5. refs[o] = retained[o] + n /\ retained[o] \in Nat
  BY <1>1, <1>3 DEF IInv, MetatablesKept, TypeOK, TypesOf
<1> QED
  BY <1>1, <1>4, <1>5 DEF Visible

\* A type is given another metatable, which is retained before the one it had is
\* given back (SetValueMetatableBoundary).
LEMMA SetTypeMetatableStep ==
  ASSUME IInv, NEW k \in TypeKinds, NEW m \in Offsets \cup {None}, SetTypeMetatable(k, m)
  PROVE  IInv'
<1> DEFINE old == typeMeta[k]
<1>1. /\ m = None \/ (m \in Visible /\ spans[m].form = "table")
      /\ m # old
      /\ typeMeta' = [typeMeta EXCEPT ![k] = m]
      /\ refs' = ReleaseRef(RetainRef(refs, m), old)
      /\ UNCHANGED <<spans, spanCount, entries, byTarget, nextHandle, held, retained, referenced,
                     bridge, pending, phase, cursor, limit, dead>>
  BY DEF SetTypeMetatable, heapVars, registryVars, gcVars
<1>2. /\ Live' = Live /\ HandlesExact' /\ PendingHeld' /\ HandlesInOrder' /\ SpansInOrder'
      /\ WrappersBound' /\ WrappersReadable'
  BY <1>1, HeapAndEntriesStay
<1>3. /\ refs \in [Offsets -> Nat] /\ retained \in [Offsets -> Nat]
      /\ typeMeta \in [TypeKinds -> Offsets \cup {None}]
  BY DEF IInv, TypeOK
<1>4. old # None => old \in Offsets /\ refs[old] > 0
  BY TypeMetaVisible
<1>5. typeMeta' \in [TypeKinds -> Offsets \cup {None}] /\ typeMeta'[k] = m
      /\ \A j \in TypeKinds : j # k => typeMeta'[j] = typeMeta[j]
  BY <1>1, <1>3
<1> HIDE DEF old
<1> DEFINE r == RetainRef(refs, m)
<1>6. /\ r \in [Offsets -> Nat]
      /\ \A p \in Offsets : r[p] = IF p = m THEN refs[p] + 1 ELSE refs[p]
  BY <1>3, NoneApart DEF RetainRef
<1> HIDE DEF r
<1>7. /\ refs' \in [Offsets -> Nat]
      /\ \A p \in Offsets : refs'[p] = IF p = m THEN refs[p] + 1
                                        ELSE IF p = old THEN refs[p] - 1 ELSE refs[p]
  <2>1. refs' = ReleaseRef(r, old)
    BY <1>1 DEF r
  <2>2. CASE old = None
    <3>1. refs' = r
      BY <2>1, <2>2 DEF ReleaseRef
    <3> QED
      BY <1>6, <2>2, <3>1, NoneApart
  <2>3. CASE old # None
    <3>1. old \in Offsets /\ r[old] = refs[old] /\ r[old] > 0
      BY <1>1, <1>4, <1>6, <2>3
    <3>2. /\ refs' \in [Offsets -> Nat] /\ refs'[old] = r[old] - 1
          /\ \A p \in Offsets : p # old => refs'[p] = r[p]
      BY <1>6, <2>1, <3>1, RootReleased
    <3> QED
      BY <1>1, <1>6, <3>1, <3>2
  <2> QED
    BY <2>2, <2>3
<1>8. RefsCounted'
  <2> SUFFICES ASSUME NEW p \in Offsets
               PROVE  refs'[p] = retained'[p] + Cardinality(TypesOf(p)')
    BY DEF RefsCounted, TypesOf
  <2>1. PICK n \in Nat : n = Cardinality(TypesOf(p))
    BY TypesFinite
  <2>2. refs[p] = retained[p] + n /\ refs[p] \in Nat /\ retained[p] \in Nat
    BY <1>3, <2>1 DEF IInv, MetatablesKept, TypesOf
  <2>3. CASE p = m
    <3>1. TypesOf(p)' = TypesOf(p) \cup {k} /\ k \notin TypesOf(p)
      BY <1>1, <1>5, <2>3 DEF TypesOf, old
    <3>2. Cardinality(TypesOf(p)') = n + 1
      BY <2>1, <3>1, TypesFinite, FS_AddElement
    <3> QED
      BY <1>1, <1>7, <2>2, <2>3, <3>2
  <2>4. CASE p = old
    <3>1. TypesOf(p)' = TypesOf(p) \ {k} /\ k \in TypesOf(p)
      BY <1>1, <1>5, <2>4 DEF TypesOf, old
    <3>2. Cardinality(TypesOf(p)') = n - 1
      BY ZenonT(60), <2>1, <3>1, TypesFinite, FS_RemoveElement
    <3> QED
      BY <1>1, <1>7, <2>2, <2>4, <3>2
  <2>5. CASE p # m /\ p # old
    <3>1. TypesOf(p)' = TypesOf(p)
      BY <1>5, <2>5 DEF TypesOf, old
    <3> QED
      BY <1>1, <1>7, <2>1, <2>2, <2>5, <3>1
  <2> QED
    BY <2>3, <2>4, <2>5
<1>9. TypesHaveTables'
  BY <1>1, <1>5 DEF IInv, MetatablesKept, TypesHaveTables
<1>10. VisibleKept'
  <2>1. \A p \in Offsets : refs'[p] > 0 => refs[p] > 0 \/ (p = m /\ m # None)
    BY <1>3, <1>7, NoneApart
  <2>2. Visible' \subseteq Visible
    BY <1>1, <2>1 DEF Visible
  <2> QED
    BY <1>1, <1>2, <2>2 DEF IInv, VisibleKept
<1>11. TypeOK' /\ DescriptorsKept'
  <2>1. TypeOK'
    BY <1>1, <1>2, <1>5, <1>7 DEF IInv, TypeOK
  <2>2. DescriptorsKept'
    BY <1>1 DEF IInv, DescriptorsKept, Known
  <2> QED
    BY <2>1, <2>2
<1> QED
  BY <1>2, <1>8, <1>9, <1>10, <1>11 DEF IInv, MetatablesKept, RefsCounted, TypesHaveTables

-----------------------------------------------------------------------------
(* The collector                                                           *)

\* The mark spares what Go code can name and the descriptors of known handles,
\* wherever an earlier step of it left black.
LEMMA MarkStep ==
  ASSUME IInv, Mark
  PROVE  IInv'
<1>1. PICK black \in SUBSET Live : Roots \subseteq black /\ dead' = Live \ black
  BY DEF Mark
<1>2. /\ phase' = "sweep" /\ cursor' = 1 /\ limit' = spanCount
      /\ UNCHANGED <<spans, spanCount, entries, byTarget, nextHandle, held, refs, retained,
                     typeMeta, referenced, bridge, pending>>
  BY DEF Mark, heapVars, registryVars, rootVars
<1>3. /\ Live' = Live /\ HandlesExact' /\ PendingHeld' /\ HandlesInOrder' /\ SpansInOrder'
      /\ WrappersBound' /\ WrappersReadable'
  BY <1>2, HeapAndEntriesStay
<1>4. VisibleKept'
  <2>1. Visible' = Visible /\ Visible \subseteq black
    BY <1>1, <1>2 DEF Visible, Roots
  <2> QED
    BY <1>1, <1>3, <2>1 DEF VisibleKept
<1>5. DescriptorsKept'
  <2>1. \A h \in Handles : Known(h) => /\ entries[h].nativeMeta \in Offsets \ dead'
                                      /\ spans[entries[h].nativeMeta].form = "descriptor"
                                      /\ spans[entries[h].nativeMeta].kind = entries[h].kind
    BY <1>1, NoneApart DEF Roots, IInv, DescriptorsKept
  <2> QED
    BY <1>2, <2>1 DEF DescriptorsKept, Known
<1>6. TypeOK'
  <2>1. MaxSpans \in Nat /\ spanCount \in 0..MaxSpans
    BY HostAssumption DEF IInv, TypeOK
  <2>2. cursor' \in 1..MaxSpans + 1 /\ limit' \in 0..MaxSpans
    BY <1>2, <2>1
  <2> QED
    BY <1>1, <1>2, <1>3, <2>2 DEF IInv, TypeOK
<1>7. MetatablesKept'
  BY <1>2 DEF IInv, MetatablesKept
<1> QED
  BY <1>3, <1>4, <1>5, <1>6, <1>7 DEF IInv

\* The sweep frees a dead object, and a dead wrapper is finalized first: its entry
\* loses the reference the wrapper was (sweepStep, finalizeHost).
LEMMA SweepStep ==
  ASSUME IInv, Sweep
  PROVE  IInv'
<1>1. /\ phase = "sweep" /\ cursor <= limit /\ cursor' = cursor + 1
      /\ UNCHANGED <<spanCount, nextHandle, held, refs, retained, typeMeta, referenced,
                     bridge, pending, phase, limit>>
  BY DEF Sweep, rootVars
<1>2. cursor' \in 1..MaxSpans + 1
  <2>1. MaxSpans \in Nat /\ cursor \in 1..MaxSpans + 1 /\ limit \in 0..MaxSpans
    BY HostAssumption DEF IInv, TypeOK
  <2> QED
    BY <1>1, <2>1
<1>3. CASE cursor \notin dead
  <2>1. UNCHANGED <<entries, byTarget, spans, dead>>
    BY <1>3 DEF Sweep
  <2>2. /\ Live' = Live /\ HandlesExact' /\ PendingHeld' /\ HandlesInOrder' /\ SpansInOrder'
        /\ WrappersBound' /\ WrappersReadable'
    BY <1>1, <2>1, HeapAndEntriesStay
  <2>3. TypeOK'
    BY <1>1, <1>2, <2>1, <2>2 DEF IInv, TypeOK
  <2>4. DescriptorsKept'
    BY <2>1 DEF IInv, DescriptorsKept, Known
  <2>5. MetatablesKept' /\ VisibleKept'
    BY <1>1, <2>1 DEF IInv, MetatablesKept, VisibleKept, Visible, Live
  <2> QED
    BY <2>2, <2>3, <2>4, <2>5 DEF IInv
<1>4. CASE cursor \in dead
  <2>0. PICK o \in Offsets : o = cursor
    BY <1>4 DEF IInv, TypeOK, Live
  <2>1. /\ Finalized(o) /\ spans' = [spans EXCEPT ![o] = Free] /\ dead' = dead \ {o}
        /\ o \in Live /\ o \in dead /\ spans \in [Offsets -> Span]
        /\ held \in [Handles -> Nat]
    BY <1>4, <2>0 DEF Sweep, IInv, TypeOK
  <2>2. Free \in Span /\ Free.form = "free"
    BY DEF Free, Span, Kinds
  <2>3. /\ spans' \in [Offsets -> Span] /\ spans'[o].form = "free"
        /\ \A p \in Offsets : p # o => spans'[p] = spans[p]
    BY <2>1, <2>2
  <2>4. Live' = Live \ {o} /\ Visible' = Visible
    BY <1>1, <2>3 DEF Live, Visible
  <2>5. /\ entries' \in [Handles -> Entry]
        /\ byTarget' \in [Addresses -> Handles \cup {None}]
        /\ HandlesExact'
        /\ \A g \in Handles : Known(g)' => Known(g) /\ SameEntry(g)
        /\ \A p \in Offsets : spans'[p].form = "wrapper" => Known(spans[p].handle)'
    <3>1. CASE spans[o].form = "wrapper"
      <4>0. PICK h \in Handles : h = spans[o].handle
        BY <3>1 DEF IInv, WrappersBound
      <4>1. /\ Known(h)
            /\ entries' = Release(entries, h) /\ byTarget' = Forget(entries, byTarget, h)
        BY <2>1, <3>1, <4>0 DEF Finalized, Readable, Described
      <4>2. \A g \in Handles : g # h => WrappersOf(g)' = WrappersOf(g)
        BY <2>3, <4>0 DEF WrappersOf
      <4>3. WrappersOf(h)' = WrappersOf(h) \ {o} /\ o \in WrappersOf(h)
        BY <2>1, <2>3, <3>1, <4>0 DEF WrappersOf
      <4>4. Cardinality(WrappersOf(h))' = Cardinality(WrappersOf(h)) - 1
        BY <4>1, <4>3, WrappersFinite, FS_RemoveElement
      <4>5. IsFiniteSet(WrappersOf(h)') /\ Cardinality(WrappersOf(h))' \in Nat
        BY <4>1, <4>3, WrappersFinite, FS_Subset, FS_CardinalityType
      <4>6. \A g \in Handles : Cardinality(WrappersOf(g))' \in Nat
        BY <4>2, <4>5, WrappersFinite
      <4>7. held' = held /\ held[h] \in Nat /\ Cardinality(WrappersOf(h)) \in Nat
        BY <1>1, <2>1, <4>1, WrappersFinite
      <4>8. held'[h] + Cardinality(WrappersOf(h))' + 1 = held[h] + Cardinality(WrappersOf(h))
        BY <4>4, <4>7
      <4>9. /\ entries' \in [Handles -> Entry]
            /\ byTarget' \in [Addresses -> Handles \cup {None}]
            /\ HandlesExact'
            /\ \A g \in Handles : Known(g)' => Known(g) /\ SameEntry(g)
            /\ \A g \in Handles : ~Known(g)' => ~Known(g) \/ g = h
            /\ ~Known(h)' => Cardinality(WrappersOf(h))' = 0
        BY <2>1, <4>1, <4>2, <4>6, <4>7, <4>8, EntryReleased
      <4>10. ASSUME NEW p \in Offsets, spans'[p].form = "wrapper" PROVE Known(spans[p].handle)'
        <5>1. spans'[p] = spans[p]
          BY <2>3, <4>10
        <5>2. spans[p].handle \in Handles /\ Known(spans[p].handle)
          BY <4>10, <5>1, WrappersReadableEach DEF IInv, WrapperReadable, Readable, Described
        <5>3. CASE spans[p].handle # h
          BY <4>9, <5>1, <5>2, <5>3
        <5>4. CASE spans[p].handle = h
          <6>1. p \in WrappersOf(h)'
            BY <4>10, <5>1, <5>4 DEF WrappersOf
          <6>2. Cardinality(WrappersOf(h)') # 0
            BY <4>5, <6>1, FS_EmptySet
          <6> QED
            BY <4>9, <5>1, <5>4, <6>2
        <5> QED
          BY <5>3, <5>4
      <4> QED
        BY <4>9, <4>10
    <3>2. CASE spans[o].form # "wrapper"
      <4>1. entries' = entries /\ byTarget' = byTarget
        BY <2>1, <3>2 DEF Finalized
      <4>2. \A g \in Handles : WrappersOf(g)' = WrappersOf(g)
        BY <2>3, <3>2 DEF WrappersOf
      <4>3. HandlesExact'
        BY <1>1, <4>1, <4>2 DEF IInv, HandlesExact, EntriesCounted, TargetsKnown, Known
      <4>4. \A g \in Handles : SameEntry(g) /\ (Known(g)' <=> Known(g))
        BY <4>1 DEF SameEntry, Known
      <4>5. ASSUME NEW p \in Offsets, spans'[p].form = "wrapper" PROVE Known(spans[p].handle)'
        <5>1. spans'[p] = spans[p]
          BY <2>3, <4>5
        <5>2. spans[p].handle \in Handles /\ Known(spans[p].handle)
          BY <4>5, <5>1, WrappersReadableEach DEF IInv, WrapperReadable, Readable, Described
        <5> QED
          BY <4>4, <5>1, <5>2
      <4> QED
        BY <4>1, <4>3, <4>4, <4>5 DEF IInv, TypeOK
    <3> QED
      BY <3>1, <3>2
  <2>6. WrappersReadable' /\ WrappersBound' /\ DescriptorsKept'
    <3>1. \A p \in Offsets : spans'[p] = spans[p] \/ (p \in dead /\ spans'[p].form = "free")
      BY <2>1, <2>3
    <3> QED
      BY <2>1, <2>5, <3>1, Shrink
  <2>7. VisibleKept'
    BY <2>1, <2>4 DEF IInv, VisibleKept
  <2>8. TypeOK'
    <3>1. dead' \subseteq Live'
      BY <2>1, <2>4 DEF IInv, TypeOK
    <3> QED
      BY <1>1, <1>2, <2>3, <2>5, <3>1 DEF IInv, TypeOK
  <2>9. MetatablesKept'
    <3>1. \A k \in TypeKinds : typeMeta[k] # None => /\ typeMeta[k] \in Offsets
                                                    /\ typeMeta[k] \notin dead
      BY TypeMetaVisible DEF IInv, VisibleKept
    <3>2. \A k \in TypeKinds : typeMeta[k] # None => spans'[typeMeta[k]] = spans[typeMeta[k]]
      BY <2>1, <2>3, <3>1
    <3> QED
      BY <1>1, <3>2 DEF IInv, MetatablesKept
  <2>10. PendingHeld' /\ HandlesInOrder' /\ SpansInOrder'
    <3>1. PendingHeld' /\ HandlesInOrder'
      BY <1>1, <2>5 DEF IInv, PendingHeld, HandlesInOrder
    <3>2. SpansInOrder'
      BY <1>1, <2>3 DEF IInv, SpansInOrder
    <3> QED
      BY <3>1, <3>2
  <2> QED
    BY <2>5, <2>6, <2>7, <2>8, <2>9, <2>10 DEF IInv
<1> QED
  BY <1>3, <1>4

\* A cycle ends.
LEMMA EndCycleStep ==
  ASSUME IInv, EndCycle
  PROVE  IInv'
<1>1. /\ phase' = "pause" /\ cursor' = 1 /\ limit' = 0 /\ dead' = {}
      /\ UNCHANGED <<spans, spanCount, entries, byTarget, nextHandle, held, refs, retained,
                     typeMeta, referenced, bridge, pending>>
  BY DEF EndCycle, heapVars, registryVars, rootVars
<1>2. /\ Live' = Live /\ HandlesExact' /\ PendingHeld' /\ HandlesInOrder' /\ SpansInOrder'
      /\ WrappersBound' /\ WrappersReadable'
  BY <1>1, HeapAndEntriesStay
<1>3. VisibleKept' /\ MetatablesKept'
  BY <1>1, <1>2 DEF IInv, VisibleKept, Visible, MetatablesKept
<1>4. DescriptorsKept'
  BY <1>1 DEF IInv, DescriptorsKept, Known
<1>5. TypeOK'
  <2>1. cursor' \in 1..MaxSpans + 1 /\ limit' \in 0..MaxSpans
    BY <1>1, HostAssumption
  <2> QED
    BY <1>1, <1>2, <2>1 DEF IInv, TypeOK
<1> QED
  BY <1>2, <1>3, <1>4, <1>5 DEF IInv

-----------------------------------------------------------------------------
(* The theorems                                                            *)

\* The invariant holds of the registry as it is made.
LEMMA InitIInv == Init => IInv
<1> SUFFICES ASSUME Init PROVE IInv
  OBVIOUS
<1>1. /\ spans = [o \in Offsets |-> Free] /\ spanCount = 0
      /\ entries = [h \in Handles |-> NoEntry]
      /\ byTarget = [a \in Addresses |-> None] /\ nextHandle = 1
      /\ held = [h \in Handles |-> 0]
      /\ refs = [o \in Offsets |-> 0] /\ retained = [o \in Offsets |-> 0]
      /\ typeMeta = [k \in TypeKinds |-> None] /\ referenced = {}
      /\ bridge = FALSE /\ pending = None
      /\ phase = "pause" /\ cursor = 1 /\ limit = 0 /\ dead = {}
  BY DEF Init
<1>2. /\ Free \in Span /\ Free.form = "free" /\ NoEntry \in Entry
      /\ NoEntry.target = NoTarget /\ NoEntry.refCount = 0
  BY DEF Free, Span, Kinds, NoEntry, Entry
<1>3. TypeOK
  <2>1. MaxSpans \in Nat /\ MaxHandle \in Nat
    BY HostAssumption
  <2>2. spanCount \in 0..MaxSpans /\ nextHandle \in 1..MaxHandle + 1
        /\ cursor \in 1..MaxSpans + 1 /\ limit \in 0..MaxSpans
    BY <1>1, <2>1
  <2> QED
    BY <1>1, <1>2, <2>2 DEF TypeOK
<1>4. \A o \in Offsets : spans[o].form = "free"
  BY <1>1, <1>2
<1>5. \A h \in Handles : ~Known(h) /\ WrappersOf(h) = {}
  BY <1>1, <1>2, <1>4 DEF Known, WrappersOf
<1>6. HandlesExact
  <2>1. Cardinality({}) = 0
    BY FS_EmptySet
  <2>2. \A h \in Handles : Cardinality(WrappersOf(h)) = 0
    BY <1>5, <2>1
  <2>3. EntriesCounted
    BY <1>1, <1>2, <1>5, <2>2 DEF EntriesCounted
  <2> QED
    BY <1>1, <2>3 DEF HandlesExact, TargetsKnown
<1>7. WrappersReadable /\ WrappersBound /\ DescriptorsKept /\ HandlesInOrder /\ SpansInOrder
  BY <1>4, <1>5 DEF WrappersReadable, WrappersBound, DescriptorsKept, HandlesInOrder, SpansInOrder
<1>8. MetatablesKept /\ VisibleKept /\ PendingHeld
  <2>1. \A o \in Offsets : {k \in TypeKinds : typeMeta[k] = o} = {}
    BY <1>1, NoneApart
  <2>2. Cardinality({}) = 0
    BY FS_EmptySet
  <2>3. \A o \in Offsets : Cardinality({k \in TypeKinds : typeMeta[k] = o}) = 0
    BY <2>1, <2>2
  <2>4. MetatablesKept
    BY <1>1, <2>3 DEF MetatablesKept
  <2>5. Visible = {}
    BY <1>1 DEF Visible
  <2> QED
    BY <1>1, <2>4, <2>5 DEF VisibleKept, PendingHeld
<1> QED
  BY <1>3, <1>6, <1>7, <1>8 DEF IInv

\* Every step of Go code, of the Lua state and of the collector keeps it.
LEMMA NextIInv == IInv /\ [Next]_vars => IInv'
<1> SUFFICES ASSUME IInv, [Next]_vars PROVE IInv'
  OBVIOUS
<1>1. ASSUME NEW t \in Targets, NEW k \in Kinds, NEW h \in Handles,
             Register(t, k, h) \/ RegisterHost(t, k, h)
      PROVE  IInv'
  <2>1. Registers(t, k, h) /\ pending' \in {None, h}
    BY <1>1 DEF Register, RegisterHost
  <2>2. RegisterAgain(t, k, h) \/ RegisterNew(t, k, h)
    BY <2>1 DEF Registers
  <2> QED
    BY <2>1, <2>2, RegisterAgainStep, RegisterNewStep
<1>2. CASE Program
  BY <1>1, <1>2, RegisterFailsStep, HostRegisteredStep, HostFailsStep, WrapStep, ReleaseHandleStep,
     BumpStep, UseWrapperStep, NewTableStep, RetainValueStep, ReleaseValueStep, ReferenceStep,
     SetTypeMetatableStep
     DEF Program, HostReturns
<1>3. CASE Collect
  BY <1>3, MarkStep, SweepStep, EndCycleStep DEF Collect
<1>4. CASE UNCHANGED vars
  <2>1. UNCHANGED <<spans, spanCount, entries, byTarget, nextHandle, held, refs, retained, typeMeta,
                    referenced, bridge, pending, phase, cursor, limit, dead>>
    BY <1>4 DEF vars, heapVars, registryVars, rootVars, gcVars
  <2>2. /\ Live' = Live /\ HandlesExact' /\ PendingHeld' /\ HandlesInOrder' /\ SpansInOrder'
        /\ WrappersBound' /\ WrappersReadable'
    BY <2>1, HeapAndEntriesStay
  <2>3. TypeOK'
    BY <2>1, <2>2 DEF IInv, TypeOK
  <2>4. DescriptorsKept' /\ MetatablesKept' /\ VisibleKept'
    BY <2>1, <2>2 DEF IInv, DescriptorsKept, Known, MetatablesKept, VisibleKept, Visible
  <2> QED
    BY <2>2, <2>3, <2>4 DEF IInv
<1> QED
  BY <1>2, <1>3, <1>4 DEF Next

\* The invariant holds of every reachable state.
THEOREM Invariance == Spec => []IInv
BY InitIInv, NextIInv, PTL DEF Spec

\* Every variable keeps its type.
THEOREM TypeCorrect == Spec => []TypeOK
<1>1. IInv => TypeOK
  BY DEF IInv
<1> QED
  BY <1>1, Invariance, PTL

\* An entry is counted once for each registration Go code holds and each wrapper
\* that has not been finalized, and is gone when nothing is counted: a handle is
\* never released twice, and none that is gone is found by its address.
THEOREM HandlesAreExact == Spec => []HandlesExact
<1>1. IInv => HandlesExact
  BY DEF IInv
<1> QED
  BY <1>1, Invariance, PTL

\* A wrapper can be read for as long as it is on the heap, garbage or not: its
\* finalizer never finds the entry or the descriptor gone.
THEOREM WrappersStayReadable == Spec => []WrappersReadable
<1>1. IInv => WrappersReadable
  BY DEF IInv
<1> QED
  BY <1>1, Invariance, PTL

\* Roots are counted exactly, and the metatable of a type is never freed.
THEOREM MetatablesAreKept == Spec => []MetatablesKept
<1>1. IInv => MetatablesKept
  BY DEF IInv
<1> QED
  BY <1>1, Invariance, PTL

\* What Go code retains or the Lua state refers to is on the heap, and no sweep that
\* is under way will free it.
THEOREM NamedValuesStay == Spec => []VisibleKept
<1>1. IInv => VisibleKept
  BY DEF IInv
<1> QED
  BY <1>1, Invariance, PTL
=============================================================================
