----------------------------- MODULE CallCaches -----------------------------
(* The inline cache of one call site.  A feedback cell remembers what the    *)
(* site called: nothing, one callee, two in a payload of the closure, or     *)
(* several in a larger payload of which the oldest entry is dropped.  An     *)
(* entry for a value that is not a function holds the metamethod it was      *)
(* resolved to and the versions this depended on.  The interpreter writes    *)
(* the cell, native code reads and writes it, the stub behind native code    *)
(* does both, the program changes metatables, and the collector scrubs the   *)
(* cell before it gives the place of a dead object to a new one.             *)
EXTENDS Integers, Sequences, FiniteSetsExt, Functions

CONSTANTS Closures, HostFunctions,  \* places of functions
          Tables,                   \* places of tables that are called
          Numbers, Zero,            \* numbers that are called; the one whose bits are 0
          Metatables,
          MegamorphicEntries,       \* CallMegamorphicEntryCount
          MaxVersion,               \* bound
          None

\* Values of different kinds are different words (value.TValue).
CallCachesAssumption ==
  /\ Zero \in Numbers
  /\ MegamorphicEntries \in Nat \ {0}
  /\ (Closures \cup HostFunctions) \cap (Tables \cup Numbers) = {}
  /\ Tables \cap Numbers = {}
  /\ "number" \notin Closures \cup HostFunctions \cup Tables
  /\ None \notin Closures \cup HostFunctions \cup Metatables
ASSUME CallCachesAssumption

Callable == Closures \cup HostFunctions
Callees == Callable \cup Tables \cup Numbers
\* What a metatable hangs on: a table, or the type of all numbers.
Holders == Tables \cup {"number"}
HolderOf(c) == IF c \in Tables THEN c ELSE "number"

VARIABLES
  holders,   \* version and metatable of each holder
  metas,     \* version and __call of each metatable
  cell,      \* the feedback cell: state, the entry in it, the payload it names
  payloads,  \* the allocated payloads with their entries
  served     \* the last step, if it was a call: callee, function run, callee passed

vars == <<holders, metas, cell, payloads, served>>
world == <<holders, metas>>

\* A word of zeros is the callee of a blank entry.
Blank == [callee |-> Zero, target |-> None, shape |-> <<>>]
Generic == [state |-> "generic", entry |-> Blank, sidecar |-> 0]
Holding(state, e) == [state |-> state, entry |-> e, sidecar |-> 0]
BlankMegamorphic == Holding("megamorphic", Blank)

FreshTable == [version |-> 1, metatable |-> None]
Init ==
  /\ holders = [h \in Holders |-> IF h \in Tables THEN FreshTable
                                  ELSE [version |-> 0, metatable |-> None]]
  /\ metas = [m \in Metatables |-> [version |-> 1, call |-> None]]
  /\ cell = Generic
  /\ payloads = <<>>
  /\ served = None

-----------------------------------------------------------------------------
(* Resolving and describing a callee. *)

\* resolveCallBoundary: a function is called itself, anything else through __call.
Resolve(c) ==
  LET m == holders[HolderOf(c)].metatable
  IN CASE c \in Callable -> c
       [] c \notin Callable /\ m = None -> None
       [] OTHER -> metas[m].call

\* describeCallShape: the versions a resolution depends on.
Shape(c) ==
  LET h == holders[HolderOf(c)]
  IN IF c \in Callable THEN <<>>
     ELSE <<h.version, IF h.metatable = None THEN 0 ELSE metas[h.metatable].version>>

Candidate(c) == [callee |-> c, target |-> Resolve(c), shape |-> Shape(c)]

IsResolved(e) == e.callee \notin Callable

\* matchCallFeedbackEntry
Matches(e, c) == e.target # None /\ e.callee = c /\ e.shape = Shape(c)

\* The entries of a sequence that are in a set, in their order.
Only(es, good) ==
  LET kept[n \in 0 .. Len(es)] ==
        IF n = 0 THEN <<>>
        ELSE IF es[n] \in good THEN Append(kept[n - 1], es[n]) ELSE kept[n - 1]
  IN kept[Len(es)]

\* compactCallEntries: a zero word is taken for no entry.
Kept(es) == Only(es, {e \in Range(es) : e.callee # Zero})

HasSidecar(k) == k.sidecar # 0
\* The entries Go code reads from a cell.
EntriesOf(k) ==
  IF ~HasSidecar(k) THEN <<k.entry>>
  ELSE IF k.state = "polymorphic" THEN payloads[k.sidecar]
  ELSE Kept(payloads[k.sidecar])

-----------------------------------------------------------------------------
(* Recording a call. *)

\* nextMegamorphicCallEntries: the newest first, the oldest dropped.
NextMegamorphic(es, e) ==
  LET all == <<e>> \o Only(Kept(es), {o \in Range(es) : o.callee # e.callee})
  IN SubSeq(all, 1, Min({Len(all), MegamorphicEntries}))

\* Slip: a payload the cell no longer names is not given back.
WriteCellOnly(k, new, data) ==
  /\ cell' = new
  /\ payloads' = data

\* Store.WriteFeedbackCell frees the payload of the cell it replaces.
WriteCell(k, new, data) ==
  /\ cell' = new
  /\ payloads' = IF HasSidecar(k) /\ new.sidecar # k.sidecar
                 THEN Restrict(data, DOMAIN data \ {k.sidecar}) ELSE data

\* The cell k becomes one with a payload, in place if it has one of the state.
\* When no payload can be allocated the cell stays as it is.
WriteEntries(k, state, es) ==
  IF HasSidecar(k) /\ k.state = state
  THEN WriteCell(k, k, [payloads EXCEPT ![k.sidecar] = es])
  ELSE LET id == Min((1 .. 2) \ DOMAIN payloads)
       IN \/ WriteCell(k, [state |-> state, entry |-> Blank, sidecar |-> id],
                       [i \in DOMAIN payloads \cup {id} |->
                          IF i = id THEN es ELSE payloads[i]])
          \/ cell' = k /\ UNCHANGED payloads

\* UpdateCallFeedbackAtSlot with NextCallTransition, for a callee that resolves.
UpdateCall(k, c) ==
  LET new == Candidate(c)
      es == EntriesOf(k)
      known == {i \in DOMAIN es : es[i].callee = c}
  IN CASE k.state = "generic" -> WriteCell(k, Holding("monomorphic", new), payloads)
       [] k.state = "monomorphic" ->
            IF known # {} THEN WriteCell(k, Holding("monomorphic", new), payloads)
            ELSE WriteEntries(k, "polymorphic", <<k.entry, new>>)
       [] k.state = "polymorphic" ->
            IF known # {} THEN WriteEntries(k, "polymorphic", [es EXCEPT ![Min(known)] = new])
            ELSE WriteEntries(k, "megamorphic", NextMegamorphic(es, new))
       [] OTHER ->
            IF ~HasSidecar(k) /\ known # {}
            THEN WriteCell(k, Holding("megamorphic", new), payloads)
            ELSE IF NextMegamorphic(es, new) = es THEN cell' = k /\ UNCHANGED payloads
            ELSE WriteEntries(k, "megamorphic", NextMegamorphic(es, new))

\* emitUpdateCallFeedbackEligible: native code makes the cell of a closure
\* monomorphic, and a monomorphic cell of another function blank.
AfterNativeUpdate(c) ==
  CASE c \notin Closures -> cell
    [] c \in Closures /\ cell.state = "generic" -> Holding("monomorphic", Candidate(c))
    [] c \in Closures /\ cell.state = "monomorphic" /\ ~IsResolved(cell.entry)
       /\ cell.entry.callee # c -> BlankMegamorphic
    [] OTHER -> cell

-----------------------------------------------------------------------------
(* Calls. *)

Serve(c, f, self) == served' = [callee |-> c, target |-> f, self |-> self]

\* The interpreter records the call and resolves it anew.
Interpret(c) ==
  /\ Resolve(c) # None
  /\ UpdateCall(cell, c)
  /\ Serve(c, Resolve(c), c \notin Callable)
  /\ UNCHANGED world

\* emitMatchResolvedLuaClosureFeedback and its siblings compare the entries of
\* the cell one after the other; a match of the last of a megamorphic payload
\* is not used.
NativeEntries ==
  IF ~HasSidecar(cell) THEN {cell.entry}
  ELSE LET es == payloads[cell.sidecar]
       IN {es[i] : i \in IF cell.state = "polymorphic" THEN DOMAIN es
                         ELSE DOMAIN es \ {MegamorphicEntries}}
NativeHits(c) == {e \in NativeEntries : Matches(e, c)}

\* The built-in call: a closure is called as it is, anything else on a match.
CallNatively(c) ==
  /\ \/ c \in Closures /\ Serve(c, c, FALSE)
     \/ c \notin Closures /\ \E e \in NativeHits(c) : Serve(c, e.target, IsResolved(e))
  /\ cell' = AfterNativeUpdate(c)
  /\ UNCHANGED <<holders, metas, payloads>>

\* What the stub finds, in the order of the entries.
StubHit(k, c) ==
  LET es == EntriesOf(k)
      hits == {i \in DOMAIN es : Matches(es[i], c)}
  IN IF hits = {} THEN Blank ELSE es[Min(hits)]

\* handleCallStub: native code has missed, or has found a closure it cannot
\* enter.  On a match matchCallFeedbackCell puts the callee before the
\* arguments if the cell says that it was resolved, which a cell with a
\* payload never says.
CallThroughStub(c) ==
  LET k == AfterNativeUpdate(c)
      e == StubHit(k, c)
  IN /\ \A n \in NativeHits(c) : n.target \in Closures
     /\ \/ /\ e.target # None
           /\ Serve(c, e.target, ~HasSidecar(k) /\ IsResolved(e))
           /\ cell' = k
           /\ UNCHANGED payloads
        \/ /\ e.target = None
           /\ Resolve(c) # None
           /\ Serve(c, Resolve(c), c \notin Callable)
           /\ UpdateCall(k, c)
     /\ UNCHANGED world

-----------------------------------------------------------------------------
(* The program changes what a call resolves to. *)

\* SetMetatable of a table, Registry.Set of a type: every change counts.
SetMetatable(h, m) ==
  /\ holders[h].metatable # m
  /\ holders[h].version < MaxVersion
  /\ holders' = [holders EXCEPT ![h] = [version |-> @.version + 1, metatable |-> m]]
  /\ served' = None
  /\ UNCHANGED <<metas, cell, payloads>>

\* Table.Set of __call, a key whose every change counts.
SetCall(m, f) ==
  /\ metas[m].call # f
  /\ metas[m].version < MaxVersion
  /\ metas' = [metas EXCEPT ![m] = [version |-> @.version + 1, call |-> f]]
  /\ served' = None
  /\ UNCHANGED <<holders, cell, payloads>>

\* A native store into an entry the table has: the version stays.
ReplaceCallNatively(m, f) ==
  /\ metas[m].call \notin {None, f}
  /\ metas' = [metas EXCEPT ![m].call = f]
  /\ served' = None
  /\ UNCHANGED <<holders, cell, payloads>>

-----------------------------------------------------------------------------
(* The collector. *)

\* Slip: only the function is looked at, not the value it was called through.
EntryDeadByTarget(e, dead) == e.target \in dead

\* callPolymorphicEntryDead, feedbackCellDead
EntryDead(e, dead) == e.target \in dead \/ e.callee \in dead

\* ScrubDeadFeedbackCells: a payload with one live entry gives way to it.
Scrub(dead) ==
  LET es == EntriesOf(cell)
      live == Only(es, {e \in Range(es) : ~EntryDead(e, dead)})
  IN CASE Len(live) = Len(es) -> UNCHANGED <<cell, payloads>>
       [] live = <<>> /\ es # <<>> -> WriteCell(cell, Generic, payloads)
       [] Len(live) = 1 /\ Len(es) > 1 ->
            WriteCell(cell, Holding("monomorphic", live[1]), payloads)
       [] OTHER -> WriteEntries(cell, "megamorphic", live)

\* A cycle: nothing refers to the dead any more, the cell forgets them, and
\* new objects come to their places.
Collect(dead) ==
  /\ dead # {}
  /\ \A m \in Metatables : metas[m].call \notin dead
  /\ Scrub(dead)
  /\ holders' = [h \in Holders |-> IF h \in dead THEN FreshTable ELSE holders[h]]
  /\ served' = None
  /\ UNCHANGED metas

-----------------------------------------------------------------------------
Call(c) == Interpret(c) \/ CallNatively(c) \/ CallThroughStub(c)

Change ==
  \/ \E h \in Holders, m \in Metatables \cup {None} : SetMetatable(h, m)
  \/ \E m \in Metatables, f \in Callable \cup {None} : SetCall(m, f)
  \/ \E dead \in SUBSET (Callable \cup Tables) : Collect(dead)

Next ==
  \/ \E c \in Callees : Call(c)
  \/ \E m \in Metatables, f \in Callable : ReplaceCallNatively(m, f)
  \/ Change

Spec == Init /\ [][Next]_vars

\* Spec has two mistakes that are known of it.  In the first of these
\* specifications every change of a metamethod raises a version: native code
\* replaces none in place.  In the second, too, the stub matches no resolved
\* entry in a payload.
VersionedNext == (\E c \in Callees : Call(c)) \/ Change
VersionedSpec == Init /\ [][VersionedNext]_vars

LosesSelf(c) ==
  LET k == AfterNativeUpdate(c)
  IN HasSidecar(k) /\ StubHit(k, c).target # None /\ c \notin Callable
ClearNext ==
  \/ \E c \in Callees : Interpret(c) \/ CallNatively(c) \/ (CallThroughStub(c) /\ ~LosesSelf(c))
  \/ Change
ClearSpec == Init /\ [][ClearNext]_vars

-----------------------------------------------------------------------------
\* Whoever serves a call runs the function the callee resolves to at that
\* moment, and passes the callee in front of the arguments exactly when the
\* function was found through a metatable: whatever metatables have changed
\* since the entry was made, and whatever lives at the callee's place now.
ServedRight ==
  served # None =>
    /\ served.target = Resolve(served.callee)
    /\ served.self <=> served.callee \notin Callable

\* The payloads that are allocated are those the cell names, through every
\* change of state, failed allocation and scrub.  A polymorphic one has the two
\* entries readCallPolymorphicEntries expects, a megamorphic one no more than its
\* limit, and no callee has two: a stale entry never stands beside the new one.
SidecarsExact ==
  /\ DOMAIN payloads = {cell.sidecar} \ {0}
  /\ HasSidecar(cell) =>
       LET es == payloads[cell.sidecar]
       IN /\ IF cell.state = "polymorphic" THEN Len(es) = 2
             ELSE Len(es) \in 1 .. MegamorphicEntries
          /\ \A i, j \in DOMAIN es : es[i].callee = es[j].callee => i = j

=============================================================================
