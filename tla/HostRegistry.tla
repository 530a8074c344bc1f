---------------------------- MODULE HostRegistry ----------------------------
(***************************************************************************)
(* Go values in Lua: the registry's entries, counted by the registrations  *)
(* Go code holds and by the wrapper objects on the heap; the external      *)
(* roots, counted by the values Go code retains and by the metatables of   *)
(* types; and the collector, which decides which wrappers are garbage and  *)
(* finalizes them one span at a time, between any two operations and       *)
(* within the one that creates the bridge metatable.                       *)
(*                                                                         *)
(* Go code is taken to release what it registered or retained, once.       *)
(* Names, accessors, arities and flags of a descriptor are left out, and   *)
(* so are a wrapper's environment and metatable (module Collector has the  *)
(* barrier they need).                                                     *)
(***************************************************************************)
EXTENDS Naturals, FiniteSets

CONSTANTS
  Targets,     \* the Go values to register
  Functions,   \* those that are Go functions
  Addresses,   \* the addresses that identify targets
  Address,     \* hostIdentity of each target, or NoAddress
  NoAddress, NoTarget,
  TypeKinds,   \* the types that share a metatable
  MaxSpans,    \* bound on the spans ever carved
  MaxHandle,   \* bound on the handles ever given
  MaxCount,    \* bound on the registrations and on the retentions of one
  MaxVersion   \* bound on the version of the descriptors of a kind

ASSUME HostAssumption ==
  /\ Functions \subseteq Targets /\ NoTarget \notin Targets
  /\ NoAddress \notin Addresses
  /\ Address \in [Targets -> Addresses \cup {NoAddress}]
  /\ MaxSpans \in Nat /\ MaxHandle \in Nat
  /\ MaxCount \in Nat /\ MaxVersion \in [{"object", "function"} -> Nat \ {0}]
  /\ IsFiniteSet(TypeKinds)

None == 0
Offsets == 1..MaxSpans
Handles == 1..MaxHandle
Kinds == {"object", "function"}

Entry == [target : Targets \cup {NoTarget}, kind : Kinds, refCount : Nat,
          nativeMeta : Offsets \cup {None}]
NoEntry == [target |-> NoTarget, kind |-> "object", refCount |-> 0,
            nativeMeta |-> None]

(* An object: a wrapper of a handle (its kind, handle, descriptor and the
   descriptor version it has seen), a native descriptor (the kind it
   describes and its version), or a table. *)
Span == [form : {"free", "wrapper", "descriptor", "table"}, kind : Kinds,
         handle : Handles \cup {None}, nativeMeta : Offsets \cup {None},
         version : Nat]
Free == [form |-> "free", kind |-> "object", handle |-> None,
         nativeMeta |-> None, version |-> 0]

VARIABLES
  spans, spanCount,
  entries, byTarget, nextHandle,
  held,        \* registrations Go code has and will release
  refs,        \* ExternalRootTable.refs
  retained,    \* retentions Go code has and will release
  typeMeta,    \* metatable of each type
  referenced,  \* objects the Lua state refers to
  bridge,      \* the bridge metatable of host objects exists
  pending,     \* handle of a registration that is creating it
  phase, cursor, limit,
  dead         \* objects the mark left white

heapVars == <<spans, spanCount>>
registryVars == <<entries, byTarget, nextHandle>>
rootVars == <<refs, retained, typeMeta, referenced>>
gcVars == <<phase, cursor, limit, dead>>
vars == <<heapVars, registryVars, held, rootVars, bridge, pending, gcVars>>

Live == {o \in Offsets : spans[o].form # "free"}
Known(h) == entries[h].target # NoTarget
WrappersOf(h) == {o \in Offsets : spans[o].form = "wrapper" /\ spans[o].handle = h}

-----------------------------------------------------------------------------
(* The registry. *)

Descriptor(k) == [Free EXCEPT !.form = "descriptor", !.kind = k, !.version = 1]
Wrapper(k, h, meta, v) ==
  [form |-> "wrapper", kind |-> k, handle |-> h, nativeMeta |-> meta, version |-> v]

(* The span that serves an allocation: a freed one if one is large enough, or
   a new one.  Wrappers and descriptors are the smallest objects there are; a
   table may find the freed spans too small. *)
Freed == 1..spanCount \ Live
Vacant(o) == o \in Freed \/ (Freed = {} /\ o = spanCount + 1 /\ o \in Offsets)
VacantForTable(o) == o \in Freed \/ (o = spanCount + 1 /\ o \in Offsets)
Carved(o) == IF o > spanCount THEN o ELSE spanCount

Places(o, span) ==
  /\ spans' = [spans EXCEPT ![o] = span]
  /\ spanCount' = Carved(o)

NewEntry(t, k, meta) ==
  [target |-> t, kind |-> k, refCount |-> 1, nativeMeta |-> meta]
Retain(e, h) == [e EXCEPT ![h].refCount = @ + 1]

(* Registry.Release *)
Gone(e, h) == e[h].refCount <= 1
Release(e, h) ==
  IF Gone(e, h) THEN [e EXCEPT ![h] = NoEntry] ELSE [e EXCEPT ![h].refCount = @ - 1]
Forget(e, b, h) ==
  IF Gone(e, h) /\ Address[e[h].target] # NoAddress
    THEN [b EXCEPT ![Address[e[h].target]] = None]
    ELSE b

(* ExternalRootTable.RetainRef and ReleaseRef; None is no reference. *)
RetainRef(r, o) == IF o = None THEN r ELSE [r EXCEPT ![o] = @ + 1]
ReleaseRef(r, o) ==
  IF o = None THEN r ELSE [r EXCEPT ![o] = IF @ <= 1 THEN 0 ELSE @ - 1]

(* readEntryNativeDescriptor, and the check of the kind both readers make. *)
Described(h, k) ==
  /\ Known(h)
  /\ entries[h].nativeMeta \in Offsets
  /\ spans[entries[h].nativeMeta].form = "descriptor"
  /\ spans[entries[h].nativeMeta].kind = k

(* ReadHostObject and ReadHostFunction succeed. *)
Readable(o) == Described(spans[o].handle, spans[o].kind)

-----------------------------------------------------------------------------
(* Go code.  The machine has one thread, so while a registration is pending
   nothing else runs but what it runs itself. *)

Idle == pending = None

(* The handle an object's target has already, if any; a function is never
   looked up by its address. *)
Existing(t, k) ==
  IF k = "object" /\ Address[t] # NoAddress THEN byTarget[Address[t]] ELSE None

(* Slip: a target that is known already is not counted again. *)
RegisterShared(t, k, h) ==
  /\ h = Existing(t, k) /\ h # None
  /\ UNCHANGED <<entries, heapVars, byTarget, nextHandle>>

(* A registration of t is given the handle it has, counted once more. *)
RegisterAgain(t, k, h) ==
  /\ h = Existing(t, k) /\ h # None
  /\ entries' = Retain(entries, h)
  /\ UNCHANGED <<heapVars, byTarget, nextHandle>>

(* A registration of t is given a new handle and a descriptor. *)
RegisterNew(t, k, h) ==
  /\ Existing(t, k) = None
  /\ k = "function" => t \in Functions
  /\ h = nextHandle /\ h <= MaxHandle
  /\ nextHandle' = nextHandle + 1
  /\ \E d \in Offsets :
       /\ Vacant(d) /\ Places(d, Descriptor(k))
       /\ entries' = [entries EXCEPT ![h] = NewEntry(t, k, d)]
  /\ byTarget' = IF k = "object" /\ Address[t] # NoAddress
                   THEN [byTarget EXCEPT ![Address[t]] = h] ELSE byTarget

Registers(t, k, h) ==
  /\ Idle
  /\ held[h] < MaxCount
  /\ RegisterAgain(t, k, h) \/ RegisterNew(t, k, h)
  /\ held' = [held EXCEPT ![h] = @ + 1]
  /\ UNCHANGED <<rootVars, bridge, gcVars>>

(* RegisterObject and RegisterFunction, called by Go code. *)
Register(t, k, h) == Registers(t, k, h) /\ pending' = None

(* The descriptor of a registration cannot be allocated: the handle is spent. *)
RegisterFails(t, k) ==
  /\ Idle
  /\ Existing(t, k) = None
  /\ nextHandle <= MaxHandle
  /\ nextHandle' = nextHandle + 1
  /\ UNCHANGED <<heapVars, entries, byTarget, held, rootVars, bridge, pending, gcVars>>

(* RegisterHostObject and RegisterHostFunction begin. *)
RegisterHost(t, k, h) == Registers(t, k, h) /\ pending' = h

(* WrapObject and WrapFunction. *)
Wraps(h, o) ==
  LET e == entries[h]
  IN  /\ Described(h, e.kind)
      /\ Vacant(o)
      /\ Places(o, Wrapper(e.kind, h, e.nativeMeta, spans[e.nativeMeta].version))

(* Go code that holds h wraps it, and retains the wrapper or not.  A wrapper
   that cannot be allocated leaves the registry as it was. *)
Wrap(h, o, retain) ==
  /\ Idle /\ held[h] > 0
  /\ Wraps(h, o)
  /\ entries' = Retain(entries, h)
  /\ refs' = IF retain THEN RetainRef(refs, o) ELSE refs
  /\ retained' = IF retain THEN RetainRef(retained, o) ELSE retained
  /\ UNCHANGED <<byTarget, nextHandle, held, typeMeta, referenced, bridge, pending, gcVars>>

(* Registry.Release, called by Go code that holds h. *)
ReleaseHandle(h) ==
  /\ Idle /\ held[h] > 0
  /\ entries' = Release(entries, h)
  /\ byTarget' = Forget(entries, byTarget, h)
  /\ held' = [held EXCEPT ![h] = @ - 1]
  /\ UNCHANGED <<heapVars, nextHandle, rootVars, bridge, pending, gcVars>>

(* Slip: the registration is given back before the wrapper is counted. *)
HostRegisteredEarly(o) ==
  /\ ~Idle
  /\ Wraps(pending, o)
  /\ entries' = Release(entries, pending)
  /\ byTarget' = Forget(entries, byTarget, pending)
  /\ held' = [held EXCEPT ![pending] = @ - 1]
  /\ refs' = RetainRef(refs, o) /\ retained' = RetainRef(retained, o)
  /\ bridge' = (bridge \/ entries[pending].kind = "object")
  /\ pending' = None
  /\ UNCHANGED <<nextHandle, typeMeta, referenced, gcVars>>

(* RegisterHostObject, once it has the bridge metatable, and RegisterHostFunction
   wrap the handle, give the registration back and retain the wrapper. *)
HostRegistered(o) ==
  /\ ~Idle
  /\ Wraps(pending, o)
  /\ LET wrapped == Retain(entries, pending)
     IN  /\ entries' = Release(wrapped, pending)
         /\ byTarget' = Forget(wrapped, byTarget, pending)
  /\ held' = [held EXCEPT ![pending] = @ - 1]
  /\ refs' = RetainRef(refs, o) /\ retained' = RetainRef(retained, o)
  /\ bridge' = (bridge \/ entries[pending].kind = "object")
  /\ pending' = None
  /\ UNCHANGED <<nextHandle, typeMeta, referenced, gcVars>>

(* They fail: the bridge or the wrapper cannot be made. *)
HostFails ==
  /\ ~Idle
  /\ Known(pending)
  /\ entries' = Release(entries, pending)
  /\ byTarget' = Forget(entries, byTarget, pending)
  /\ held' = [held EXCEPT ![pending] = @ - 1]
  /\ bridge' \in {bridge, bridge \/ entries[pending].kind = "object"}
  /\ pending' = None
  /\ UNCHANGED <<heapVars, nextHandle, rootVars, gcVars>>

HostReturns == (\E o \in Offsets : HostRegistered(o)) \/ HostFails

(* BumpDescriptorVersion *)
BumpDescriptorVersion(h) ==
  /\ Idle
  /\ Described(h, entries[h].kind)
  /\ spans[entries[h].nativeMeta].version < MaxVersion[entries[h].kind]
  /\ spans' = [spans EXCEPT ![entries[h].nativeMeta].version = @ + 1]
  /\ UNCHANGED <<spanCount, registryVars, held, rootVars, bridge, pending, gcVars>>

-----------------------------------------------------------------------------
(* Values: what Go code can name it retains or finds in the Lua state. *)

Visible == referenced \cup {o \in Offsets : refs[o] > 0}

(* A use of a wrapper refreshes the version it carries (resolveHostDescriptor,
   RefreshWrapper). *)
UseWrapper(o) ==
  /\ Idle
  /\ o \in Visible /\ spans[o].form = "wrapper"
  /\ Readable(o)
  /\ spans' = [spans EXCEPT ![o].version =
                 spans[entries[spans[o].handle].nativeMeta].version]
  /\ UNCHANGED <<spanCount, registryVars, held, rootVars, bridge, pending, gcVars>>

(* Engine.NewTable *)
NewTable(o) ==
  /\ Idle
  /\ VacantForTable(o)
  /\ Places(o, [Free EXCEPT !.form = "table"])
  /\ refs' = RetainRef(refs, o) /\ retained' = RetainRef(retained, o)
  /\ UNCHANGED <<registryVars, held, typeMeta, referenced, bridge, pending, gcVars>>

RetainValue(o) ==
  /\ Idle
  /\ o \in Visible /\ retained[o] < MaxCount
  /\ refs' = RetainRef(refs, o) /\ retained' = RetainRef(retained, o)
  /\ UNCHANGED <<heapVars, registryVars, held, typeMeta, referenced, bridge, pending, gcVars>>

ReleaseValue(o) ==
  /\ Idle
  /\ retained[o] > 0
  /\ refs' = ReleaseRef(refs, o) /\ retained' = ReleaseRef(retained, o)
  /\ UNCHANGED <<heapVars, registryVars, held, typeMeta, referenced, bridge, pending, gcVars>>

(* The Lua state comes to refer to an object, or no longer does. *)
Refer(o) ==
  /\ Idle
  /\ o \in Visible \ referenced
  /\ referenced' = referenced \cup {o}
  /\ UNCHANGED <<heapVars, registryVars, held, refs, retained, typeMeta, bridge, pending, gcVars>>

Drop(o) ==
  /\ Idle
  /\ o \in referenced
  /\ referenced' = referenced \ {o}
  /\ UNCHANGED <<heapVars, registryVars, held, refs, retained, typeMeta, bridge, pending, gcVars>>

(* Slip: the type's metatable is not retained. *)
SetTypeMetatableBare(k, m) ==
  /\ Idle
  /\ m = None \/ (m \in Visible /\ spans[m].form = "table")
  /\ m # typeMeta[k]
  /\ typeMeta' = [typeMeta EXCEPT ![k] = m]
  /\ refs' = ReleaseRef(refs, typeMeta[k])
  /\ UNCHANGED <<heapVars, registryVars, held, retained, referenced, bridge, pending, gcVars>>

(* SetValueMetatableBoundary for a value whose type shares a metatable. *)
SetTypeMetatable(k, m) ==
  /\ Idle
  /\ m = None \/ (m \in Visible /\ spans[m].form = "table")
  /\ m # typeMeta[k]
  /\ typeMeta' = [typeMeta EXCEPT ![k] = m]
  /\ refs' = ReleaseRef(RetainRef(refs, m), typeMeta[k])
  /\ UNCHANGED <<heapVars, registryVars, held, retained, referenced, bridge, pending, gcVars>>

-----------------------------------------------------------------------------
(* The collector runs between two operations, and within a registration of an
   object as long as the bridge metatable is being made (the two functions
   and the table of the bridge itself are left out). *)

MayCollect ==
  ~Idle => (Known(pending) /\ entries[pending].kind = "object" /\ ~bridge)

(* Slip: the descriptors are left to the wrappers to reach. *)
RootsOfProgram == Visible

Roots == Visible \cup ({entries[h].nativeMeta : h \in Handles} \ {None})

Traced(o) == {o} \cup (IF spans[o].form = "wrapper" THEN {spans[o].nativeMeta} ELSE {})

(* The mark, up to the end of the atomic phase: what the roots reach is black
   then, and so may be what they reached at an earlier step of the mark.  A
   wrapper that cannot be read stops it. *)
Mark ==
  /\ MayCollect /\ phase = "pause"
  /\ \E black \in SUBSET Live :
       /\ \A o \in black : Traced(o) \subseteq black
       /\ Roots \subseteq black
       /\ \A o \in black : spans[o].form = "wrapper" => Readable(o)
       /\ dead' = Live \ black
  /\ phase' = "sweep"
  /\ cursor' = 1 /\ limit' = spanCount
  /\ UNCHANGED <<heapVars, registryVars, held, rootVars, bridge, pending>>

(* The sweep visits a span.  It finalizes a dead wrapper before it frees it; a
   finalizer that fails leaves the cursor where it is. *)
Finalized(o) ==
  IF spans[o].form = "wrapper"
    THEN /\ Readable(o)
         /\ entries' = Release(entries, spans[o].handle)
         /\ byTarget' = Forget(entries, byTarget, spans[o].handle)
    ELSE UNCHANGED <<entries, byTarget>>

Sweep ==
  /\ MayCollect /\ phase = "sweep" /\ cursor <= limit
  /\ IF cursor \in dead
       THEN /\ Finalized(cursor)
            /\ spans' = [spans EXCEPT ![cursor] = Free]
            /\ dead' = dead \ {cursor}
       ELSE UNCHANGED <<entries, byTarget, spans, dead>>
  /\ cursor' = cursor + 1
  /\ UNCHANGED <<spanCount, nextHandle, held, rootVars, bridge, pending, phase, limit>>

EndCycle ==
  /\ MayCollect /\ phase = "sweep" /\ cursor > limit
  /\ phase' = "pause" /\ cursor' = 1 /\ limit' = 0 /\ dead' = {}
  /\ UNCHANGED <<heapVars, registryVars, held, rootVars, bridge, pending>>

Collect == Mark \/ Sweep \/ EndCycle

-----------------------------------------------------------------------------
Init ==
  /\ spans = [o \in Offsets |-> Free] /\ spanCount = 0
  /\ entries = [h \in Handles |-> NoEntry]
  /\ byTarget = [a \in Addresses |-> None]
  /\ nextHandle = 1
  /\ held = [h \in Handles |-> 0]
  /\ refs = [o \in Offsets |-> 0] /\ retained = [o \in Offsets |-> 0]
  /\ typeMeta = [k \in TypeKinds |-> None]
  /\ referenced = {}
  /\ bridge = FALSE /\ pending = None
  /\ phase = "pause" /\ cursor = 1 /\ limit = 0 /\ dead = {}

Program ==
  \/ \E t \in Targets, k \in Kinds, h \in Handles : Register(t, k, h)
  \/ \E t \in Targets, k \in Kinds, h \in Handles : RegisterHost(t, k, h)
  \/ \E t \in Targets, k \in Kinds : RegisterFails(t, k)
  \/ HostReturns
  \/ \E h \in Handles, o \in Offsets, retain \in BOOLEAN : Wrap(h, o, retain)
  \/ \E h \in Handles : ReleaseHandle(h)
  \/ \E h \in Handles : BumpDescriptorVersion(h)
  \/ \E o \in Offsets : UseWrapper(o)
  \/ \E o \in Offsets : NewTable(o)
  \/ \E o \in Offsets : RetainValue(o)
  \/ \E o \in Offsets : ReleaseValue(o)
  \/ \E o \in Offsets : Refer(o)
  \/ \E o \in Offsets : Drop(o)
  \/ \E k \in TypeKinds, m \in Offsets \cup {None} : SetTypeMetatable(k, m)

Next == Program \/ Collect

Spec == Init /\ [][Next]_vars

(* A registration that has begun returns, and a program that goes on
   allocating lets the collector step: an allocation boundary pays its debt
   before the program goes on. *)
FairSpec == Spec /\ WF_vars(HostReturns) /\ SF_vars(Collect)

-----------------------------------------------------------------------------
TypeOK ==
  /\ spans \in [Offsets -> Span] /\ spanCount \in 0..MaxSpans
  /\ entries \in [Handles -> Entry]
  /\ byTarget \in [Addresses -> Handles \cup {None}]
  /\ nextHandle \in 1..MaxHandle + 1
  /\ held \in [Handles -> Nat]
  /\ refs \in [Offsets -> Nat] /\ retained \in [Offsets -> Nat]
  /\ typeMeta \in [TypeKinds -> Offsets \cup {None}]
  /\ referenced \subseteq Offsets
  /\ bridge \in BOOLEAN /\ pending \in Handles \cup {None}
  /\ phase \in {"pause", "sweep"}
  /\ cursor \in 1..MaxSpans + 1 /\ limit \in 0..MaxSpans
  /\ dead \subseteq Live

(* An entry is counted exactly: once for each registration Go code still has
   and once for each wrapper of its handle that has not been finalized.  It is
   gone when nothing is counted, and no target is found under a handle that is
   gone or of another target. *)
EntriesCounted ==
  \A h \in Handles :
    /\ entries[h].refCount = held[h] + Cardinality(WrappersOf(h))
    /\ Known(h) <=> entries[h].refCount > 0

TargetsKnown ==
  \A a \in Addresses :
    byTarget[a] # None =>
      LET e == entries[byTarget[a]]
      IN  e.target # NoTarget /\ e.kind = "object" /\ Address[e.target] = a

HandlesExact == EntriesCounted /\ TargetsKnown

(* Every wrapper that has not been finalized can be read, whether it is
   garbage or not: its handle is known and has the descriptor the wrapper was
   made with, which has not been freed nor its span given to another. *)
WrappersReadable ==
  \A o \in Offsets :
    spans[o].form = "wrapper" =>
      /\ Readable(o)
      /\ entries[spans[o].handle].nativeMeta = spans[o].nativeMeta
      /\ spans[o].version <= spans[spans[o].nativeMeta].version

(* A root is counted once for each retention Go code still has and once for
   each type it is the metatable of; the metatable of a type is a table that
   has not been freed. *)
MetatablesKept ==
  /\ \A o \in Offsets :
       refs[o] = retained[o] + Cardinality({k \in TypeKinds : typeMeta[k] = o})
  /\ \A k \in TypeKinds :
       typeMeta[k] # None => spans[typeMeta[k]].form = "table"

(* Cycles begin and end for ever: no wrapper stops the mark or the sweep. *)
CyclesGoOn == []<>(phase = "sweep") /\ []<>(phase = "pause")
=============================================================================
