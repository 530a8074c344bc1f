# A verification project for VexLua

VexLua (`src/`, module `vexlua`) is a Lua 5.1 virtual machine in Go: a front end
that compiles Lua source or loads binary chunks, a register interpreter, a baseline
JIT that emits amd64 code, and a runtime with its own heap, an incremental
tri-colour collector and a registry that exposes Go values to Lua.  The machine is
single threaded.  What makes it hard is not parallel threads but three actors that
take turns on the same memory: Go runtime code, generated native code that checks
flags instead of calling the runtime, and a collector that does a bounded piece of
its cycle at allocation boundaries and safepoints, between any two steps of the
other two.

All offsets of source files below are relative to `src/internal/`.

## 1. Inventory

### 1.1 Memory

| component | state it keeps | operations | depends on |
|---|---|---|---|
| span allocator (`runtime/heap/heap.go`, `span.go`) | spans by offset with size, kind, state, owner; the walk order; pages with a bump pointer; next page start; live bytes | `AllocObject`, `AllocPayload`, `SetSpanOwner`, `FreeSpan`, `WalkSpansChunk` | arena |
| native arena (`native_arena*.go`) | reserved and committed bytes | `EnsureCommitted` | OS |
| GC controller (`gc_controller.go`) | phase, current white, gray, gray-again and weak queues, live bytes, trigger, debt, budget | `writeBarrier`, queue and pacing operations | allocator |
| collector (`runtime/gc/`) | cursors of the mark reset and of the sweep, payload snapshots | `AssistAllocation`, `AssistSafepoint`, `stepOnce`, `RunAtomic`, `RunSweepStrings`, sweep chunks | controller, root scanner, every layout |
| string interning (`runtime/string/`) | table from text to string object | `Intern`, `SweepDead` | allocator, collector |
| external roots (`runtime/state/external_roots.go`) | reference counts of values held by Go | `PinRef`, `ReleaseRef`, ... | collector |

Correct means: no two spans overlap, every span resolves to a page, nothing
reachable is freed, nothing unreachable survives the cycle that could see it, no
weak reference (inline cache, intern table, payload owner) outlives its target, and
a cycle that begins ends.

### 1.2 Objects

| component | state | operations |
|---|---|---|
| table store (`runtime/table/`) | array and hash payload of each table, control bytes, tombstones, metatable, version | `Get`, `Set`, `SetListArray`, growth and rehash |
| upvalue manager (`runtime/upvalue/`) | per thread a list of open upvalues by descending slot; closed values | `FindOrCreateOpen`, `CloseAtOrAbove`, `CloseInRange`, `Get`, `Set` |
| closure store (`runtime/closure/`) | upvalue cells, environment, feedback vector | `New`, `SetUpvalue`, `WriteFeedbackCell` |
| prototype store (`runtime/proto/`) | descriptors and shadow objects of prototypes | `Intern`, `Lookup` |
| feedback (`runtime/feedback/`, `interp/feedback.go`) | inline-cache cells: generic, monomorphic, polymorphic, megamorphic | update per site |
| host registry (`runtime/host/`) | entries with reference counts by handle; wrapper objects | `RegisterObject`, `RegisterFunction`, `Wrap*`, `Release`, finalization |
| metatable registry (`runtime/meta/`) | metatable by type | `Get`, `Set` |

Correct means: a table behaves as a finite map, an upvalue is one cell shared by
exactly the closures of one activation, feedback only ever describes what was seen,
and a handle lives exactly as long as something refers to it.

### 1.3 Execution

| component | state | operations |
|---|---|---|
| threads and frames (`runtime/state/`) | register stack, frame stack, native mirror, status flags | `NewThread`, `PushFrame`, `PopFrame`, `Close` |
| interpreter (`interp/`) | program counter and the frame stack | instructions, call boundary, `ProtectedCall` and its unwinding |
| baseline compiler and liveness (`vexarc/baseline/compiler.go`, `liveness.go`) | code per prototype, root maps per site | `CompileRef` |
| baseline runtime and stubs (`vexarc/baseline/runtime*.go`, `stub_manager.go`) | compiled-code table, call block | `callCompiled`, `resumeCompiledFrame`, `handleStub`, deoptimization |
| native built-ins (`vexarc/baseline/native_builtin.go`) | none of its own: writes frames, stack, feedback natively | Lua-to-Lua calls, tail calls, loops |
| assembler and code cache (`vexarc/amd64`, `codecache`, `abi`) | executable blocks | `Allocate`, `Release` |

Correct means: the three execution modes leave the same frames, registers, open
upvalues and results; every exit, normal or by error, restores the caller.

### 1.4 Front end

Lexer, parser, resolver and emitter (`frontend/`), bytecode format and validator
(`bytecode/`), chunk loader (`frontend/chunk/`).  They are sequential.  Correct means:
every emitted jump lands inside the function, registers stay within the frame the
prototype declares, captured locals are closed when their block ends, and a loaded
chunk is validated before it runs.

### 1.5 How they interact

* Every allocation goes through a boundary that first adds to the collector's debt and
  may run collector steps (`runtime/gc/collector.go` `AssistAllocation`).  The object is
  published in a root before the next boundary.
* The Go runtime stores references through `writeBarrier`; native code stores directly
  and leaves for the runtime only if `VMFlagGCMarking` is set (`runtime/state/vm.go`).
  The flag is recomputed each time native code is entered or a stub returns to it.
* Safepoint stubs let the collector step in the middle of compiled code; the roots of a
  compiled frame come from the liveness map of the site.
* Calls cross between interpreter, compiled code and host functions in both directions
  with one shared frame stack; errors unwind it with `restoreSnapshot`.

### 1.6 What is hard

The list of hazards with their lines is in `PROJECT.json`.  In short: what happens
between two steps of an incremental cycle; a flag or a cache that is stale by the time
it is used; offsets that are recycled while something still knows them by number;
frames and open upvalues left behind by one of several exits; and counters and
capacities at their limits.

## 2. The modules

| module | what it is | extends / instantiates |
|---|---|---|
| `Heap` | the span allocator | |
| `Collector` | the incremental collector, the barrier, interning, payload ownership and the program between two collector steps | |
| `CollectorGarbage` | `Collector` with a history variable for what was garbage when a cycle began | `Collector` |
| `CollectorInvariant` | the inductive invariant of the collector | `Collector` |
| `Pacing` | when the collector is stepped: allocation debt, step budget, safepoints | `CollectorGarbage` |
| `Calls` | abstract: what a call promises | |
| `NativeCalls` | the call boundary of the baseline JIT | instantiates `Calls` |
| `Variables` | abstract: what captured local variables promise | |
| `Upvalues` | register windows and the open upvalue lists | instantiates `Variables` |
| `TableStore` | one table: both parts, the version, the caches | |
| `CallCaches` | the inline cache of a call site: its states, payloads and shapes | |
| `HostRegistry` | Go values handed to Lua: handles, wrappers, metatables, finalizers in the sweep | |
| `Syntax` | the abstract syntax of the programs | |
| `Text` | abstract: the text a program is written as | |
| `Parser` | the parser, over the tokens of a text | |
| `Resolve`, `Lower`, `Emit` | the stages of the compiler: scopes and captures, lowering, code | `Syntax`, `Bytecode` |
| `Bytecode` | instructions, the validator, what the liveness analysis of the baseline compiler says of one instruction | |
| `Liveness` | the analysis of a whole prototype | `Bytecode` |
| `Values`, `Meaning` | values and their operators; abstract: what a program means | `Syntax` |
| `Machine` | a program through all stages and then one instruction at a time | the stages are CONSTANTs |
| `Discipline` | how prototypes treat their registers, and the inductive invariant of the machine | `Machine` |
| `HeapProofs`, `CollectorProofs`, `HostRegistryProofs`, `CallCachesProofs`, `NativeCallsProofs`, `UpvaluesProofs`, `TableStoreProofs`, `MachineProofs` | theorems and proofs | `Heap`, `CollectorInvariant`, `Pacing`, `HostRegistry`, `CallCaches`, `NativeCalls`, `Upvalues`, `TableStore`, `Discipline` |
| `MCHeap`, `MCCollector`, `MCCallCaches`, `MCNativeCalls`, `MCUpvalues`, `MCTableStore`, `MCHostRegistry`, `MCMachine` | instances for TLC | |

Operators whose comment begins with "Slip:" are not part of a specification.  Each is
a definition with one plausible mistake in it; putting it in the place of the
definition that follows it makes one of the properties fail, which shows that the
property depends on that line of the code.  `PROJECT.json` lists the pairs under
`mutants`.

### 2.1 `Heap`

`spans`, `spanOrder`, `pages`, `nextPage` and `liveBytes` are `heap.allocations`,
`heap.spanOrder`, `heap.pages`, `heap.nextPageOffset` and `gc.liveBytes`.  The actions are
`AllocObject` and `AllocPayload` with both ways to serve a request (best fit of a free
span, or the bump pointer of the first page with room, or a new page), their
failures after the page was opened, `SetSpanOwner`, and `FreeSpan`.  Sizes are bytes
and alignment is modelled; contents of spans are not.

### 2.2 `Collector`

A span is a position of the walk order, which `Heap` shows to enumerate the spans.  An
object has one strong reference, a closure one feedback cell, a table one array.  These
stand for the many the code has: the properties are about which object a reference
keeps alive and never about which of its fields held it.  Roots are a set.

The actions of the collector are the phases of `Collector.stepOnce`: `PrepareStep` (Pause),
`MarkStep` (Mark), `AtomicStep` (`RunAtomic`), `SweepStringsStep` (`RunSweepStrings`),
`SweepStep` (SweepObjects with `scrubWeakEdges` on its first and its last step).  Prepare
and sweep visit one span per step, the finest chunk a budget allows.  The actions of
the program are those of Go code (`Store`, `UpdateCell`, `GrowArray`, `NewObject`,
`Intern`, `Load`, `DropRoot`) and of native code (`StoreNatively`, `UpdateCellNatively`).

`Spec` is the code as it is.  Three of its windows are open to native code and to
interning; `store_window` shows the first, and TLC finds the others the same way
(section 5).  `ClearSpec` is `Spec` without the program
steps that fall into one of these windows, and everything the collector guarantees is
stated of it: the guards of `InternClear`, `StoreNativelyClear` and
`UpdateCellNativelyClear` say exactly which steps are left out.

`Pacing` says when those steps happen.  `Boundary` is a step of the program with what a boundary does at its
end, `advanceGCAfterBoundary` and `AssistAllocation` up to its step: `Growth` is by how much the live bytes grew,
`allocDebt` what has been run up, and a step of the cycle is due (`left`) when the debt is not below
`budget`.  `AssistStep` is that step, span by span where a sweep has a chunk, and the payment at its end;
`AssistSafepoint` is a step at a safepoint, which pays nothing.  `unpaid` is a history variable: what has
been allocated in the cycle since it last advanced.  `GCTargetReached` is left open, so a cycle may begin in any
pause; that step is taken to be one of `AssistSafepoint`, which does the same to the heap.
Only tests set an assistant (`SetAllocationAssistant`), so that `NoAssistant` is the engine as the rest of the
code builds it: there, the collector is stepped by whoever owns it, whenever that is.
The code promises nothing to a cycle whose program neither allocates nor passes a safepoint: `AssistAllocation`
returns while the debt is below the budget (`collector.go:137`), and the cycle stays where it is.  What it
promises is a pace, which is `PaceKept`.

### 2.3 `Calls` and `NativeCalls`

`frames` is the thread's frame stack up to `CurrentFrame`; `control` is the stack of those
who execute, the Go loops `callCompiled` ("compiled") and `finishNestedCompiledCall`
("nested"), native activations, interpreter activations, deoptimised frames and host
functions; `ctx` is the status and the execution context with which native code left;
`flags` are the VM flags as native code last saw them.  An instruction stands for those
with the same exits.  A native callee that leaves takes its native callers with it:
`Published` is what the execution context holds after each of them has written to it.

`Calls` is the abstract specification: a plain stack of activations, each instruction
done once.  `CallsOnce` is `C!Spec` under the identity on programs, frames and `failing`.

`ClearSpec` restricts compiled calls to one native level and to callees that do not leave
with a GC flag; `RejectStub`, the error return of `handleStub`, is in `Next` and not in
`ClearNext`, so that the deadlock check of the run shows that every stub such programs
reach is served.  A call may fail after its callee has returned, because the caller cannot store the results
(`NotStored`, `storeFrameCallResults`) or the collector's step at the boundary fails; making and closing upvalues
may fail before or after the list of open upvalues has changed (`UpvaluesFail`); a safepoint may fail.
`Calls` has the same: `Reject` is a return that its caller does not take, and an instruction may fail when it is done.

### 2.4 `Variables` and `Upvalues`

`stack` and `frames` are the slots and the frames of each thread, `head` is
`OpenUpvalueHead`, `cells` are the upvalue objects with their list links.  `Walk` follows a
list the way `FindOrCreateOpen` and `CloseInRange` do, and stops where they stop, so that
the order of the list matters.  A compiled frame reserves its results between the
registers and the extra arguments; the model leaves that area out, as it leaves out
open result lists that run past the registers.

`Variables` knows no slots: a register holds a value or a captured variable, and a
closure is the set of variables it captured.  `VariablesShared` is `V!Spec` with each
register mapped to the open upvalue on its slot.  Because an implementation may stutter,
it does not say that an instruction does anything; `OperandsKept` says instruction by
instruction which abstract step it must be, with which operands.

### 2.5 `TableStore`

`array` and `slots` are the two payloads of a table with their capacities, `count` is
`HashCount`, `metatable` the field that blocks the fast paths.  `cells` are the inline caches
of the instructions that access the table, `target` is the metamethod a call cache keeps
when the table is a metatable.  `FindEntry`, `Rehash`, `Length` and `DescribeFast` are the
functions of the store of these names; `Set` is its `Set` with everything it calls.

The table is changed in five ways, and each says what it does to the version: `Set` (the
runtime, the interpreter, the slow path of compiled code), `SetNatively` (the stub for
string keys), `SetThroughCell` (compiled code that trusts its cache), `SetListArray` and
`SetListNatively` (constructors).  The version itself is a flag in each cache, "has not moved
since": its value means nothing else, and the state space stays finite.  `assigned` is a
history variable, the map the assignments so far have made; it is the abstract
specification of the table, and `MapKept` ties every read to it.

`Spec` is the code; `ClearSpec`, which the run uses, leaves out two steps which break what the table promises:
an array that grows over an entry of the hash part (`GrowsOverEntry`) and a native store that
replaces a metamethod (`OverwritesMetamethod`).  Each breaks something else, so that the proofs leave out one at
a time (`EntriesKeptSpec`, `MetamethodsKeptSpec`) or none.

### 2.6 `CallCaches`

`cell` is the feedback cell of one call site and `payloads` are the spans of entries it may name
(`sidecar`); an entry is a `CallPolymorphicEntry` with its access kind read off the callee and the
target.  `holders` and `metas` give a table, or the type of all numbers, its metatable and version, and a
metatable its `__call` and version: what `Resolve` follows and `Shape` records.  A callee is a
place in memory; `Collect` frees a set of them and puts new objects there, a new table with the
version every table begins with.  `served` is the last call: who was called, what ran, and whether the
callee was put before the arguments.

A site is executed in three ways: `Interpret` (the interpreter records, then resolves
anew), `CallNatively` (the built-in compares entries; it updates the cell only for closures) and
`CallThroughStub` (Go code behind the built-in, which matches again and records on a miss).  A word of zeros
means "no entry" in a payload and is also the number 0, so that a site which calls 0 through the
metatable of numbers loses its entry; `Zero` is that number.

`ServedRight` compares each call with what a resolution at that moment gives.  `Spec` is the code;
`ClearSpec` leaves out the two steps by which TLC refutes `ServedRight` for `Spec`: a stub's match through a
payload, which forgets the callee's place among the arguments (`LosesSelf`), and the native store that
replaces a `__call` without a new version (`ReplaceCallNatively`, the step `TableStore` calls
`OverwritesMetamethod`); `VersionedSpec` leaves out the second alone.  Host objects, whose shape is made the same way from a table of their
descriptor, and tail calls, whose built-in and stub do the same with a slot kind of their own, are left out.

### 2.7 The front end and the machine

A behaviour of `Machine` is one program on its way: `phase` goes from `text` to `source`
(`Parser`), `bound` (`Resolve`), `lowered` (`Lower`), `emitted` (`Emit` and the validator of `Bytecode`), `running`
and `done` or `failed`; a program the code refuses ends in `rejected` (parser or resolver),
`unemitted` (emitter) or `invalid` (validator).  While it runs there are frames with
windows on one register stack, cells of captured locals, closures, tables and the log of
what the program handed to the host function `out`.  The stages are CONSTANT operators
(`Reader`, `Binder`, `Lowerer`, `Emitter`, `Liveness`, `Reference`), which `MCMachine` binds to the modules, because
they are recursive over syntax or go over the code until nothing changes: `Machine` itself then reaches no
RECURSIVE operator.  The emitter's tree of functions becomes a function from paths to prototypes: the path of a
function says which child to take at each level, and a closure of the machine is a path and its upvalues.

A program begins as a text: tokens with the line each is on.  `Text` writes a syntax tree as
Lua's grammar has it, with parentheses only where the levels of the operators ask for them,
so that a parser with a wrong priority or a wrong associativity reads another program.  `Parser` is
recursive descent with the place in the text as its state; an error is on its way
(`raised`) until the block around it takes it and looks for the next statement, and the text is
refused if one was found at all (`diagnosed`).

`Meaning` is the abstract specification: an evaluator over syntax, written from what Lua 5.1
promises of its constructs and knowing neither tokens nor registers.  `MeaningKept` says that
what the code the emitter made does on the machine is what the evaluator says, in its log, its
results and whether it fails, and that a text that is no program is refused before it runs.  `OperandsVisited` joins the machine with the liveness analysis: `skipped` holds
the registers that the root scan would have passed over at a point where the collector may
run, and no instruction reads one of them before it is written.  In native code these are
the registers the liveness map calls dead, in the interpreter those above the frame's top.  The
points are NEWTABLE, CONCAT, CLOSURE and host calls, in native code also the return of any
call and the jump back of a loop.

`ProtosSound` is about prototypes alone, when they are made: the validator refuses none of them, and each is
`Disciplined`.  Discipline says of each position a path leads to which registers were assigned there on every
path, below the frame's top, and which may be captured there by an open upvalue (`Facts`, a CONSTANT; `MCMachine`
computes the facts from the code), and demands of each instruction that it reads only assigned registers,
writes inside its window, is followed by positions whose facts it establishes, and that the live slots cover what it reads
and pass on what the next position needs; that a list that ends at the top is taken by the instruction right
behind the one that made it; and that captured registers are locals in scope.  Each demand is about one instruction and its
successors, so TLC can check it on every prototype the emitter makes, without running it.

Programs come in families, each built around what is hard in one part of the compiler:
`LoopPrograms` (captures in loop bodies, breaks across blocks that close), `OperandPrograms`
(comparisons and `and`/`or` as values and conditions, with operands in every kind of
place), `CallPrograms` (open argument and result lists, tail calls, methods, varargs),
`TablePrograms` (constructors, assignment lists), `NestedPrograms` (upvalues through two levels),
`Faults` (run-time errors), `Misplaced` (texts that must be refused: a `break` without a loop, `...`
without varying parameters, arguments on a line of their own, statements behind the end of a
block), `Damaged` (texts of `NestedPrograms` in which one delimiter is missing).

Left out: the lexer, line tables and names of variables in prototypes, size hints of NEWTABLE, texts
of errors, metamethods, coercion of strings to numbers, the limit of the thread's stack.
Numbers are integers.  TESTSET is in no program because the emitter never makes one.

### 2.8 `HostRegistry`

`entries`, `byTarget` and `nextHandle` are the fields of `host.Registry`; `held` counts what Go
code has registered and not yet released, `refs` are the counted external roots, `retained`
the pins of the bridge, `typeMeta` the metatable of each Go type.  A wrapper is a span with the
handle it was made for; `referenced` is what Lua code reaches.  The collector is the last
part: `Mark` chooses as black any set that is closed under references and contains what is
reachable, so it stands for everything a cycle may keep; `Sweep` visits one span, runs the
finalizer of a dead wrapper and frees the span, and a finalizer that fails leaves the cursor
where it was.  `pending` is the call of Go code that is under way: it may register, wrap and
release between two steps of the sweep, which is how a cycle in progress meets the registry.

Go code releases what it holds once.  The functions and the table the bridge makes for
itself at the start are left out.

## 3. The runs

| run | instance | distinct states | what it shows |
|---|---|---|---|
| `heap` | 48-byte pages, 176 reserved bytes, requests of 24, 40 and 56 bytes | 73,336 | placement, reuse, exhaustion, the walk order and the accounting |
| `collector` | 3 spans: tables and their arrays, closures, 1 text; step budgets 0, 1 and 2, or no assistant | 308,592 | reachability, interning, payload ownership, inline caches, garbage freed within one cycle, cycles keep pace with allocation, the inductive invariant |
| `native_calls` | 4 functions in 80 programs, 4 frames | 721,296 | the call boundary |
| `upvalues` | threads of 3 slots and 1 slot, 3 cells, 2 frames | 143,216 | open lists, shared variables, operands across threads |
| `table_store` | 2 names, 3 indices, parts of 4 slots | 119,818 | the table is a map, its length a border, its caches sound |
| `call_caches` | 5 callees, 2 metatables, a site that remembers 3 | 143,922 | a call from the cache does what a resolution would do; payloads |
| `programs` | 656 texts | 27,897 | parser and compiler keep the meaning, prototypes are disciplined, the roots of a frame suffice, captures are closed |
| `host` | one Go function in two roles, 3 spans, 2 handles | 436,897 | handles and wrappers, metatables, cycles through finalizers |
| `store_window` | `Spec` of `Collector` | | a native store in the window |
| `calls_not_repeated` | `Spec` of `NativeCalls` | | a GC flag lost between two native levels |
| `entry_kept` | `Spec` of `TableStore` | | an entry the array grows over |
| `miscompiled` | 8 programs | | programs whose code does something else than Lua 5.1 |

Why the bounds are enough.  `heap`: a page holds one, two or three spans, one request is
larger than a page, and the arena ends in the middle of a page, so that every branch of the
placement and every failure is reached.  `collector`: a lost object needs a parent, a
child and something to keep the parent alive until it is traced; a recycled offset needs
an owner, its payload and a new object; both fit in three spans, and a closure, whose cell needs
one other object, in two: the constraint `ClosuresBelow` of `MCCollector` follows closures only where two
spans exist.  A budget is met by one allocation or by two, or lies below every one, and a debt run up in the pause
comes on top, all of which two spans that are freed and carved again reach: `AssistedBelow` keeps engines with an
assistant to two, and to tables, arrays and strings.  Their behaviours are some of those of an engine without one, which has three.  `native_calls`: four frames are a Go loop, a native chain of two
below which a third call reaches the limit; the programs put every kind of exit below and
behind a call.  `upvalues`: three cells on one thread are the least that make a list with
something before and after the place of insertion; two frames are a caller and a callee
on the slots the caller's earlier callee had.  Slot 1 exists on both
threads, slots 2 and 3 on one, so that a confusion of threads reads or writes elsewhere; the
constraint `ThirdCellInList` follows a third cell only where it stands in the list of the long thread.

`table_store`: three of the five keys have the same home slot, a part of four slots is full with
three of them, so that probes wrap, pass deleted slots and meet the load limit, and a fourth
entry rehashes; indices 1 to 3 reach an empty array, its growth to two and to four slots and
the hash part, so that the length search takes every branch; only `__call` needs two values.
The constants 16, 1024 and 1/8 of the code are parameters (`FirstArray`, `DenseArray`,
`LoadShare`, `MinHashCapacity`) so that small tables meet them.  So is 2^31-1, from where the length
is counted instead of sought by doubling (`MaxLenSearchIndex`): with 5, a doubling that
starts behind a full array of two slots and finds index 3 passes half of it.

`call_caches`: a payload of three entries is one more than the two of a polymorphic cell, and five callees
are one more than it takes to drop the oldest of them and to have it come back; the callees are one of each kind that is matched
differently, with the number whose word is zero and one whose word is not.  `FewChanges` allows at most
five changes of version to be in force at a time, enough for two changes of a holder and two of each metatable
in any order but not all at once.

`programs`: each family is the product of small sets of the constructs it is about, so that each
pair of them meets; every stage is deterministic, and the states are those of 656 executions.
The delimiters of which `Damaged` leaves out one, at each of its places, are those whose number
others decide, so that no text without one is another program.
`host`: one Go function that is registered as a function and as an object is the least in which two
targets share an identity; three spans are two wrappers and a metatable, or a wrapper and what its
metatable was before; the second handle is what a premature release gives away.

Bounds with a name: `MaxSpans`, `MaxHandle`, `MaxCount` and `MaxVersion` in `HostRegistry`; `ThirdCellInList` in `Upvalues`; `ValuesOf`, `Starts` and `ListLengths` in `TableStore`; `MaxSpans`, `MaxClosures`, `MaxArrays` in `Collector`, `StepBudgets` in `Pacing`, `ClosuresBelow` and `AssistedBelow` in `MCCollector`; `MaxVersion` in `CallCaches`, `FewChanges` in `MCCallCaches`; `MaxFrames` in
`NativeCalls` (the thread's frame capacity) and in `Upvalues` (frames of all threads);
`MaxClosures` and `Cells` in `Upvalues`.

Fairness is assumed in one run.  In `host`: weak fairness of `HostReturns`, because Go code that was called returns,
and strong fairness of `Collect`, because the collector works at boundaries which come again
and again but not during a call of Go code; `CyclesGoOn` would fail if a finalizer could fail
for ever, which is what makes it a statement about the counts of handles.

Deadlock is checked in every run.

## 4. What is proved

All theorems are checked by TLAPS for every value of the constants, under the named
assumptions of the modules: `HeapAssumption`, `CollectorAssumption`, `HostAssumption`,
`CallCachesAssumption`, `NativeCallsAssumption`, `UpvaluesAssumption`, `TableAssumption` and, of `Bytecode`, `FlushAssumption`.  They say of which kind the constants are
(sizes and bounds are numbers, a page is not empty, programs are sequences of instructions), in `CallCaches`
that a value is of one kind, a closure is no table and no number, and in `Upvalues` that a value is not an upvalue
and that there are finitely many upvalues, and in `TableStore` that a name is not a
number, that a hash part of the least size has a slot the load limit keeps free, that a constructor's list stores at
indices, and that some index below 2^31-1 is never used: the arena reserves 1 GiB, and a table with all of them takes more.
An invariant that a run checks is rarely
inductive; each module begins with the one that is.

`HeapProofs`: `HInv` = `TypeOK`, `Layout`, `SpansDisjoint`, `SpansResolvable`,
`OrderEnumeratesSpans` is inductive.  `Layout` (pages are aligned, follow one another and end at
`nextPage`) is what the others need: a new span lies behind everything its page has handed
out, and a new page behind every page.  From it follow `HeapTypeCorrect`, `NoSharedMemory`,
`EverySpanResolves`, `WalkIsComplete`, and for steps `LiveSpansKept`.  `TInv` adds that every byte below a page's
bump pointer belongs to a span (`BytesCovered`), from which `NoMemoryLost` follows, and that the counter is the
sum of the live spans (`LiveBytesAreExact`).

`CollectorProofs`: `IInv` of `CollectorInvariant` is inductive for `ClearSpec`.
 * `Bookkeeping` and `Marks` say which marks an object may carry in each phase and what the
   sweep has passed;
 * `Graph`: the objects the cycle will keep contain the roots and are closed under
   references; between mark and atomic step no black object refers to a white one.  This is
   the tri-colour invariant in the form the sweep needs;
 * `Cells`: a kept closure's cell holds a kept object, or the closure is in the weak queue
   and the scrub is still to come;
 * `Strings`: the intern table and the kept strings determine each other;
 * `Arrays`: a table and its array refer to each other; any other payload is ahead of the sweep
   and condemned, and nothing condemned belongs to a kept table, whoever has its owner's
   offset now.
From it follow `TypeCorrect`, `ReachableNeverFreed`, `ArraysNeverFreed`, `CellsNeverStale`,
`InterningSound` and `NoPayloadLeaks`.
`GarbageIsFreed` is about `GarbageSpec` and is the opposite direction: nothing doomed survives.  `GInv` adds to `IInv`
where the doomed objects are (`Doomed`): until the flip white, in no queue and in no reference from an object that is
not doomed, so that a program, which handles only what it holds, passes them by (`ProgramPassesBy`) and a propagation
from the queues blackens none of them (`DoomedNotTraced`); from the flip on dead, and therefore ahead of the sweep, which
ends only behind the last (`SweepFreesDoomed`).  Interning can publish a doomed string; that it brings nothing else
back is `StringsAreLeaves`.
`CyclesKeepPace` is about `PacedSpec`: `PaceInv` adds that in an assisted cycle the debt covers what is unpaid and that
only a step in progress leaves a budget of both; that a step in progress ends with an advance is `StepAdvances`, for
which the walk is shown to move.  `PacedRefinesGarbage` says that a paced collector only takes steps of the one the other
theorems are about, so that they hold of it.

`HostRegistryProofs`: `IInv` is inductive for `Spec`.  The counts (`HandlesExact`, `MetatablesKept`) are not
enough by themselves, because a wrapper counts until its finalizer has run and the sweep may be anywhere:
`VisibleKept` says that what Go code or the Lua state refers to is never among the objects a sweep has
yet to free, `DescriptorsKept` the same of the descriptors of known handles, `PendingHeld` that the
registration under way is counted, and `HandlesInOrder` and `SpansInOrder` that a new handle or span is
nobody's.  From it follow `TypeCorrect`, `HandlesAreExact`, `WrappersStayReadable`, `MetatablesAreKept` and
`NamedValuesStay`.

`CallCachesProofs`: `BaseInv` is inductive for `Spec`, and `CInv`, which adds `EntriesInv`, for `VersionedSpec`.  `CellOK` relates the state of the cell to the payload
it names and says that a payload holds each callee once and as many entries as its state allows;
`Sound` says of an entry that its versions have not been exceeded since it was made, and that it names
what the callee resolves to for as long as they are in force.  It is the comparison "not newer" that makes
this inductive: versions only grow, so an entry that does not match now will never match again.  From the first
follows `SidecarsAreExact`, whatever native code does behind the versions.  From the second follow `CachedTargetsAreRight`
(the function that runs is right even where the stub forgets the receiver) and, for `ClearSpec`, `CachedCallsAreRight`:
for any number of callees and any capacity of a site.

`NativeCallsProofs`: `NInv` is inductive for `ClearSpec`.
 * `Stack`: which activation may stand above which in the control stack (`Link`), whose frame it executes,
   and that the one below stands at a call (`CallOps`); native activations are on top, at most two;
 * `Core`: the frames with open upvalues are frames of the thread, and none of them belongs to a native
   callee, which native code would pop without closing anything;
 * the number of frames is the height of the control stack, and one more exactly when an exit has left
   a callee behind (`"nested" \in ctx.flags`);
 * `ExitSound`: what the execution context says of the frame that was left and of the callee behind
   it: the site is where the frame stopped, or one before it at a safepoint, and the stub is the one of the
   instruction there.
From it follow `TypeCorrect`, `FramesHaveOwners`, `OpenUpvaluesHaveFrames` and `ExitsAreServedInPlace`; and, as each
step of `ClearNext` is a step of `Calls` or none of the program's business, the refinement
`CallsAreMadeOnce`: `ClearSpec` implements the abstract call stack for all programs, not only the 80 of
the run.

`UpvaluesProofs`: `UInv` is inductive for `Spec`.
 * `Lists`: the property `OpenListSorted` speaks of neighbours, and of neighbours alone it does not follow that a list
   contains every open upvalue.  `List` says it globally: the head is the highest open slot of the thread, the next
   of an upvalue is the next lower one, and no two are on one slot.  Inserting at the place `Walk` finds (`Insertion`)
   and cutting out what `Chain` passes (`Closing`) keep it;
 * `WindowsApart`: windows of one thread lie one behind the other, so that what a call clears, and what a return closes,
   is nobody else's;
 * `HeldAllocated`: what a closure or a frame refers to is allocated.
`Walk` and `Chain` are recursive functions over links; links go down (`LinksDescend`), and that is why there is a function that
satisfies their equation (`DescentEnds`, `DescentPasses`).  A CLOSURE instruction is followed capture by capture:
`Behind` says what holds after k of them.  From `UInv` follow `TypeCorrect`, `OpenListsSorted` and `OpenUpvaluesInWindows`.
On top of it the refinement: `VariablesAreShared` says that every step of the stack, the frames and the lists is a step
of `Variables` or none of the program's business.  Each action has a lemma that names the abstract one (`CallMaps`, `PopMaps`
for a return and for a panic, `SetUpvalueMaps`, `CloseMaps`, `CaptureMaps`, `CollectMaps`); what they share is
that an action changes nothing in a window it is not about (`WindowSame`, `OthersSame`), which `WindowsApart` and
`OpenNotExtra` give, and that a slot holds the one open upvalue on it (`HoldsUpvalue`).  `OperandsAreKept` follows from the same
lemmas.

`TableStoreProofs`: `TabInv` is inductive for `Spec`, for every hash function.
 * `Sound`: each entry is reached by the probes of its own key, which pass full and deleted slots but never a free
   one.  Deleting keeps it because a tombstone is not free, inserting because it takes the first tombstone or the free slot
   the probes stop at; `RehashIs` builds it anew, by induction over the slots of the old part;
 * `HashOK`: with it, the load limit (`MaxLoad`) keeps one slot free, which is where the search for an absent key stops;
 * `CellsHold`: a cache that is current names the slot of its key; every step that moves an entry, or removes it, first clears
   `current` (`Stale`).
From it follow `TypeCorrect`, `EveryEntryIsFound` and `CachesAreRight` for the code as it is, and `NamesFindAssignments`: a
string key reads as what was last assigned to it, since the array takes numbers alone.  For numbers there must be, besides,
no key in both parts (`Apart`).  That is what `GrowsOverEntry` breaks, so `ReadsFindAssignments` (both parts together
are `assigned`: `IsMap`) and `LengthsAreBorders` are about `EntriesKeptSpec`; and that a kept call target is the table's `__call` (`Calls`,
`CallTargetsAreRight`) is about `MetamethodsKeptSpec`.
`LengthsAreBorders` needs no more than that a number is present when the table maps it to a value (`PresentIs`): what the
halving, the doubling and the counting keep is that the lower end is present, or zero, and the upper end absent.

`MachineProofs`: the theorems are about every program, every frontend and every liveness analysis, and have a hypothesis
instead of an assumption: `[]ProtosSound`, the property that `programs` checks.  What the emitter makes of every
program is an induction over syntax and out of the prover's reach; what the machine does with what was made is not.  So TLC
finds that the prototypes of the 656 texts are disciplined, one instruction at a time, and the theorems say
that nothing more is needed: whatever path a run takes through disciplined prototypes, and whatever it calls, `OperandsVisited` and
`CapturesClosed` hold.  `MachineInv` is the inductive invariant; once a program runs it is `StateOK`:
 * `Window` and `HeapOK`: the registers of a frame are its window and its extra arguments, and every value in a register, an
   upvalue or a table refers to a closure or table that exists.  Without it the machine could call or read
   what is not there, and the next state would not be determined;
 * `NothingLost`: where a frame stands, the assigned registers are below its top, none of them was passed over by the scan of
   an interpreted frame, and what the scan by live slots passed over is neither live there nor behind the start of an open
   list.  Liveness is passed on from each position to the next (`StepDisciplined`), so that a register passed over is written
   before it is read (`GotoSteps`, `StoredSteps`), and a scan adds only what is of no use (`ScannedFrames`);
 * `CellOK`: an open upvalue is on a register that may be captured where its frame is.  CLOSE, RETURN and the return of
   a chain of tail calls (`DeliverOK`) close those that would not be; a CLOSURE is followed capture by capture (`CaptureStep`);
 * `Waits`: every frame but the running one is at a call, which is where its results are stored.
From it follow `Visits` and `Captures`.  The programs of §5 for which TLC refutes `OperandsVisited` are not disciplined: after
`a = f()` with locals above `a`, the top is below registers that are assigned and still in use, and there are no facts that
say so.  TLC evaluated `MachineInv` on 19,000 of the states of `programs` and found it true; it is not a property of the run
because the facts are computed again in each state.

How the models are written for this.  The library's induction theorems take an operator and cannot be
used; `NatSetInduction` states induction for sets, derived from the well-foundedness of numbers, at the head of each module
that needs it, and the facts about sums and loops follow from it.  tlapm knows nothing of `SelectSeq`, `:>` and `@@`, so the
models use set-builder and function notation where a theorem depends on them (`Only` in `CallCaches`,
`FramesAccounted` in `NativeCalls`).  A loop of the code is a recursive function over its variables; `LoopDefined` shows that
there is one when each turn comes closer to an end, and `LoopEnds` that what the turns keep holds where it ends
(`NextPowerOfTwo`, and the two searches in `Length`).

Only model-checked: `CyclesGoOn`, because liveness is out of the prover's reach; `ProtosSound` and
`MeaningKept`, because they are about what the stages of the front end compute, which are recursive over syntax: for every program
that is an induction over data.  All findings are about instances and stay with TLC.

## 5. Findings

| run | what happens |
|---|---|
| `store_window` | The flag that tells native code to call the barrier covers the mark phase and not the wait for the atomic step; a native store in between hides a reachable child. |
| `calls_not_repeated` | The native caller overwrites the GC flag of its callee's exit; a call that has returned is made a second time, and a loop or SETUPVAL exit asks for a stub that does not exist. |
| `entry_kept` | The array grows over an index that has an entry in the hash part; set to nil later, the index reads as the old entry. |
| `miscompiled` | An assignment to a local computes its value in the local's own register while operands still to come read the local there; the eight programs of the run are variants of this with `and`, `or`, calls, tables and assignment lists. |

The details and the lines are in `PROJECT.json`.  What follows is left out of the clear
specifications or of the programs for the same kind of reason and has no run of its own.

* With `Spec` instead of `ClearSpec` TLC refutes `InternIdentity` (between the atomic step and the
  string sweep `Intern` hands out a dead string, whose entry is then dropped) and `CellsFresh`
  (a native cache update in the wait for the atomic step is not remembered, and the scrub
  misses a reference that dies).
* In `NativeCalls`, of a chain of native calls the execution context keeps two sites, so that an
  exit two calls deep is served in the wrong frame: `ServedWhereStopped` fails with `Spec`.
* In `TableStore`, native stores replace an entry without moving the version, whatever its name
  (`native_builtin.go:2023`): a call cache that trusts the metatable's version calls the old `__call`,
  and `TargetSound` fails with `Spec`.
* In `CallCaches`, `Spec` violates `ServedRight`: the stub decides by the cell whether the callee goes before
  the arguments (`runtime_stubs.go:630`), and a polymorphic cell or one with a payload does not say it.  A site
  that has called a closure and a table with `__call` calls the metamethod without the table when native
  code leaves the call to the stub.
* The interpreter lowers a frame's top to the end of a call's results (`execute.go:806`), and the root
  scan stops there: a local above is not seen.  With
  `local a,h,b,f = nil,nil,{},function() return 1 end; a = f(); h = function() end; out(b)` in the
  programs TLC refutes `OperandsVisited` (compare `runtime/gc/root_scan_test.go:213`), and before that
  `ProtosSound`: the prototype reads a register that is not known to lie below the top.
* A recursive `local function f` ends in `unemitted`: the emitter asks for the slot of a symbol
  that is not active yet (`emitter.go:189`).
* The validator counts one register too many for VARARG (`bytecode/validate.go:251`) and refuses
  `local x, y = ...` at the end of the window.

Seen by reading only, with no run: after the last entry of a megamorphic payload has matched there is no
jump (`native_builtin.go:1316`, and in the two siblings), so that the entry is not used and the code of the
polymorphic case looks for a payload behind the target; `CallCaches` takes this for a miss.  The native SETLIST
stores the version it has counted up only when it is zero (`native_builtin.go:463`), so that it never moves the version
(`SetListNatively` has it so).  An extra word after SETLIST is validated as an instruction;
`a[i], i = 20, i+1` stores at the new `i`.  `hostIdentity` (`host/registry.go:535`) ignores the type, so a
pointer to a struct and one to its first field, two slices of one array, or two closures of one
literal share a handle.  The `Release` of a function deletes the `byTarget` entry of an object with the same
code address, after which that target may get a second handle.  A test
(`interp/host_bridge_test.go:763`) releases the wrapper's own count by hand; a finalizer that runs
after that fails, and every later cycle stops at its span.  The pin of `retainRef` stays if `RegisterHostObject`
fails after it.  `ensureConstantData` (`proto/store.go:572`) makes the constants of a prototype when it
is first used and stores them without a barrier: a prototype that is black by then is not
traced again, and its strings live only as long as something else holds them.

## 6. What is not modelled, and the plan

Not modelled because there is nothing a model checker adds: the arena (OS calls), the
assembler and the code cache (layout of bytes), conversion and reflection of host values,
the disassembler and the command line.

Planned, in this order:

1. The trigger of a cycle (`rearmThreshold`, its saturation); a rehash that fails half-way.
2. The chunk loader, a sequential decoder; and the lexer, as far as a table of tokens can
   be wrong in a way that its tests do not show.
3. Proofs: `OpenInFrames` and
   `TypeOK` of `NativeCalls` for `Spec` (TLC finds them there as well).
