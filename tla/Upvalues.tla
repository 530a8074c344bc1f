------------------------------ MODULE Upvalues ------------------------------
(***************************************************************************)
(* Register windows and upvalues.  Each thread has a stack of slots on     *)
(* which frames have windows, and a doubly linked list of open upvalues by *)
(* descending slot.  An open upvalue is a reference to a slot; it is       *)
(* closed, with the slot's value, when its block or its frame ends.  A     *)
(* closure may be called on another thread than the one it captured from.  *)
(***************************************************************************)
EXTENDS Naturals, Sequences, FiniteSets

CONSTANTS
  Threads,
  Slots,        \* stack slots of each thread
  Registers,    \* register counts of the prototypes
  Extras,       \* numbers of extra arguments of a call
  Captures,     \* numbers of upvalues of the prototypes
  Cells,        \* heap offsets an upvalue may have
  Values, Nil,
  MaxFrames,    \* bound on the frames of all threads together
  MaxClosures   \* bound on the closures the program keeps

None == 0

ASSUME UpvaluesAssumption ==
  /\ Slots \in [Threads -> Nat] /\ MaxFrames \in Nat /\ MaxClosures \in Nat
  /\ Registers \subseteq Nat \ {0} /\ Extras \subseteq Nat
  /\ Captures \subseteq Nat /\ 0 \in Captures
  /\ Cells \subseteq Nat \ {None} /\ IsFiniteSet(Cells)
  /\ Nil \notin Values /\ (Values \cup {Nil}) \cap Cells = {}

VARIABLES
  stack,     \* the slots of each thread
  frames,    \* the frames of all threads, in the order they were pushed
  head,      \* the first open upvalue of each thread
  cells,     \* the upvalue objects
  closures   \* the closures the program can call, each by its upvalues

vars == <<stack, frames, head, cells, closures>>

Ref == Cells \cup {None}
Content == Values \cup {Nil}
Tuples == UNION {[1..n -> Cells] : n \in Captures}
Blank == [state |-> "free", thread |-> Nil, slot |-> 0, value |-> Nil, next |-> None, prev |-> None]

\* Behind a frame's registers, its results and its extra arguments.
End(f) == f.base + f.count + f.extra

TypeOK ==
  /\ stack \in [Threads -> Seq(Content)] /\ \A t \in Threads : Len(stack[t]) = Slots[t]
  /\ frames \in Seq([thread : Threads, base : Nat, count : Registers, extra : Extras,
                     up : Tuples])
  /\ head \in [Threads -> Ref]
  /\ cells \in [Cells -> [state : {"free", "open", "closed"}, thread : Threads \cup {Nil},
                          slot : Nat, value : Content, next : Ref, prev : Ref]]
  /\ closures \subseteq Tuples
  /\ \A i \in DOMAIN frames :
       End(frames[i]) <= Slots[frames[i].thread]

Init ==
  /\ stack = [t \in Threads |-> [s \in 1..Slots[t] |-> Nil]]
  /\ frames = <<>>
  /\ head = [t \in Threads |-> None]
  /\ cells = [c \in Cells |-> Blank]
  /\ closures = {}

Depth == Len(frames)
Frame == frames[Depth]
Thread == Frame.thread
SlotOf(r) == Frame.base + r

FramesOf(t) == {i \in DOMAIN frames : frames[i].thread = t}

\* The thread's last frame is its current one.
NextRegisterBase(t) ==
  IF FramesOf(t) = {} THEN 0
  ELSE End(frames[CHOOSE i \in FramesOf(t) : \A j \in FramesOf(t) : j <= i])

-----------------------------------------------------------------------------
(* The open list                                                           *)

\* Follow the list from the cell c, the one behind p, to the first that is not
\* above the slot s.
Walk(cs, p, c, s) ==
  LET walk[q \in Ref \X Ref] ==
        IF q[2] = None \/ cs[q[2]].slot <= s THEN q ELSE walk[<<q[2], cs[q[2]].next>>]
  IN  walk[<<p, c>>]

\* Slip: the upvalue behind the new one keeps its old link.
LinkForward(o, s) ==
  LET at == Walk(o.cells, None, o.head, s)
      previous == at[1]
      current == at[2]
      new == CHOOSE c \in Cells : o.cells[c].state = "free"
      cell == [Blank EXCEPT !.state = "open", !.thread = Thread, !.slot = s,
                            !.next = current, !.prev = previous]
  IN  IF current # None /\ o.cells[current].slot = s
      THEN [o EXCEPT !.refs = Append(@, current)]
      ELSE [cells |-> [c \in Cells |-> IF c = new THEN cell
                                       ELSE IF c = previous THEN [o.cells[c] EXCEPT !.next = new]
                                       ELSE o.cells[c]],
            head |-> IF previous = None THEN new ELSE o.head,
            refs |-> Append(o.refs, new)]

\* The open upvalue of the slot s, a new one if there is none.
FindOrCreateOpen(o, s) ==
  LET at == Walk(o.cells, None, o.head, s)
      previous == at[1]
      current == at[2]
      new == CHOOSE c \in Cells : o.cells[c].state = "free"
      cell == [Blank EXCEPT !.state = "open", !.thread = Thread, !.slot = s,
                            !.next = current, !.prev = previous]
  IN  IF current # None /\ o.cells[current].slot = s
      THEN [o EXCEPT !.refs = Append(@, current)]
      ELSE [cells |-> [c \in Cells |-> IF c = new THEN cell
                                       ELSE IF c = previous THEN [o.cells[c] EXCEPT !.next = new]
                                       ELSE IF c = current THEN [o.cells[c] EXCEPT !.prev = new]
                                       ELSE o.cells[c]],
            head |-> IF previous = None THEN new ELSE o.head,
            refs |-> Append(o.refs, new)]

\* The cells of a list from the cell c on that are above the slot s.
Chain(cs, c, s) ==
  LET chain[d \in Ref] ==
        IF d = None \/ cs[d].slot <= s THEN {} ELSE {d} \cup chain[cs[d].next]
  IN  chain[c]

\* Slip: the upvalue on the lowest slot of the range stays open.
CloseAbove(t, lower, upper) ==
  LET at == Walk(cells, None, head[t], upper)
      end == Walk(cells, at[1], at[2], lower + 1)
      closed == Chain(cells, at[2], lower + 1)
  IN  /\ cells' = [c \in Cells |->
                     IF c \in closed
                     THEN [cells[c] EXCEPT !.state = "closed", !.value = stack[t][cells[c].slot],
                                           !.next = None, !.prev = None]
                     ELSE IF c = at[1] THEN [cells[c] EXCEPT !.next = end[2]]
                     ELSE IF c = end[2] THEN [cells[c] EXCEPT !.prev = at[1]]
                     ELSE cells[c]]
      /\ head' = IF at[1] = None THEN [head EXCEPT ![t] = end[2]] ELSE head

\* Close the open upvalues of the thread t on slots above lower, up to upper.
CloseInRange(t, lower, upper) ==
  LET at == Walk(cells, None, head[t], upper)
      end == Walk(cells, at[1], at[2], lower)
      closed == Chain(cells, at[2], lower)
  IN  /\ cells' = [c \in Cells |->
                     IF c \in closed
                     THEN [cells[c] EXCEPT !.state = "closed", !.value = stack[t][cells[c].slot],
                                           !.next = None, !.prev = None]
                     ELSE IF c = at[1] THEN [cells[c] EXCEPT !.next = end[2]]
                     ELSE IF c = end[2] THEN [cells[c] EXCEPT !.prev = at[1]]
                     ELSE cells[c]]
      /\ head' = IF at[1] = None THEN [head EXCEPT ![t] = end[2]] ELSE head

\* Get, Set: an open upvalue lives on the stack of the thread it was captured on.
Get(c) == IF cells[c].state = "closed" THEN cells[c].value ELSE stack[cells[c].thread][cells[c].slot]

\* Slip: the slot is taken for one of the running thread.
SetHere(c, v) ==
  IF cells[c].state = "closed"
  THEN cells' = [cells EXCEPT ![c].value = v] /\ UNCHANGED stack
  ELSE stack' = [stack EXCEPT ![Thread][cells[c].slot] = v] /\ UNCHANGED cells

Set(c, v) ==
  IF cells[c].state = "closed"
  THEN cells' = [cells EXCEPT ![c].value = v] /\ UNCHANGED stack
  ELSE stack' = [stack EXCEPT ![cells[c].thread][cells[c].slot] = v] /\ UNCHANGED cells

-----------------------------------------------------------------------------
(* Calls                                                                   *)

Cleared(slots, from, count) ==
  [s \in DOMAIN slots |-> IF from < s /\ s <= from + count THEN Nil ELSE slots[s]]

\* Slip: only the registers are checked for room.
CallUnchecked ==
  \E t \in Threads, up \in closures \cup {<<>>}, n \in Registers, x \in Extras, v \in Values :
    LET base == NextRegisterBase(t) IN
    /\ Depth < MaxFrames
    /\ base + n <= Slots[t]
    /\ frames' = Append(frames, [thread |-> t, base |-> base, count |-> n, extra |-> x, up |-> up])
    /\ stack' = [stack EXCEPT ![t] =
                   [s \in 1..Slots[t] |-> IF s = base + 1 \/ (s > base + n /\ s <= base + n + x) THEN v
                                          ELSE Cleared(@, base, n + x)[s]]]
    /\ UNCHANGED <<head, cells, closures>>

\* The callee's window begins behind the current one and is cleared for it.
Call ==
  \E t \in Threads, up \in closures \cup {<<>>}, n \in Registers, x \in Extras, v \in Values :
    LET base == NextRegisterBase(t) IN
    /\ Depth < MaxFrames
    /\ base + n + x <= Slots[t]
    /\ frames' = Append(frames, [thread |-> t, base |-> base, count |-> n, extra |-> x, up |-> up])
    /\ stack' = [stack EXCEPT ![t] =
                   [s \in 1..Slots[t] |-> IF s = base + 1 \/ (s > base + n /\ s <= base + n + x) THEN v
                                          ELSE Cleared(@, base, n + x)[s]]]
    /\ UNCHANGED <<head, cells, closures>>

\* Slip: a frame is popped without closing.
ReturnBare ==
  /\ Depth > 0
  /\ frames' = SubSeq(frames, 1, Depth - 1)
  /\ stack' = [stack EXCEPT ![Thread] = Cleared(@, Frame.base, Frame.count + Frame.extra)]
  /\ UNCHANGED <<head, cells, closures>>

\* The frame returns or is cleaned up after an error.
Return ==
  /\ Depth > 0
  /\ CloseInRange(Thread, Frame.base, Frame.base + Frame.count)
  /\ frames' = SubSeq(frames, 1, Depth - 1)
  /\ stack' = [stack EXCEPT ![Thread] = Cleared(@, Frame.base, Frame.count + Frame.extra)]
  /\ UNCHANGED closures

\* A turn of restoreSnapshot's loop, after a panic: the frame entry is erased
\* before its size is read, so that one slot is cleared.
RestoreSnapshot ==
  /\ Depth > 0
  /\ CloseInRange(Thread, Frame.base, Frame.base + Frame.count)
  /\ frames' = SubSeq(frames, 1, Depth - 1)
  /\ stack' = [stack EXCEPT ![Thread] = Cleared(@, Frame.base, 1)]
  /\ UNCHANGED closures

-----------------------------------------------------------------------------
(* Instructions                                                            *)

SetRegister(r, v) ==
  /\ stack' = [stack EXCEPT ![Thread][SlotOf(r)] = v]
  /\ UNCHANGED <<frames, head, cells, closures>>

Move == Depth > 0 /\ \E r \in 1..Frame.count, v \in Values : SetRegister(r, v)

Vararg ==
  /\ Depth > 0 /\ Frame.extra > 0
  /\ \E r \in 1..Frame.count, x \in 1..Frame.extra :
       SetRegister(r, stack[Thread][SlotOf(Frame.count + x)])

GetUpvalue(r, i) == SetRegister(r, Get(Frame.up[i]))

SetUpvalue(r, i) ==
  /\ Set(Frame.up[i], stack[Thread][SlotOf(r)])
  /\ UNCHANGED <<frames, head, closures>>

\* What a CLOSURE instruction may capture: registers and the upvalues it runs with.
Sources == {<<"local", r>> : r \in 1..Frame.count} \cup {<<"upvalue", i>> : i \in DOMAIN Frame.up}

Captured(o, source) ==
  IF source[1] = "upvalue" THEN [o EXCEPT !.refs = Append(@, Frame.up[source[2]])]
                           ELSE FindOrCreateOpen(o, SlotOf(source[2]))

Opened(captures) ==
  LET start == [cells |-> cells, head |-> head[Thread], refs |-> <<>>]
      after[i \in 0..Len(captures)] == IF i = 0 THEN start ELSE Captured(after[i - 1], captures[i])
  IN  after[Len(captures)]

Room == Cardinality({c \in Cells : cells[c].state = "free"})

Capture(captures) ==
  /\ Len(captures) <= Room
  /\ cells' = Opened(captures).cells
  /\ head' = [head EXCEPT ![Thread] = Opened(captures).head]
  /\ UNCHANGED <<stack, frames>>

\* The new closure, which another register keeps.
Closure(captures) ==
  /\ Capture(captures)
  /\ closures' = closures \cup {Opened(captures).refs}
  /\ Cardinality(closures') <= MaxClosures

\* The closure cannot be allocated: its upvalues stay open.
ClosureFails ==
  /\ Depth > 0
  /\ \E r \in 1..Frame.count : Capture(<<<<"local", r>>>>)
  /\ UNCHANGED closures

Close(r) ==
  /\ CloseInRange(Thread, Frame.base + r - 1, Frame.base + Frame.count)
  /\ UNCHANGED <<stack, frames, closures>>

Instruction ==
  /\ Depth > 0
  /\ \/ \E r \in 1..Frame.count, i \in DOMAIN Frame.up : GetUpvalue(r, i) \/ SetUpvalue(r, i)
     \/ \E n \in Captures \ {0} : \E captures \in [1..n -> Sources] : Closure(captures)
     \/ \E r \in 1..Frame.count : Close(r)

-----------------------------------------------------------------------------
(* The program lets go of a closure; the collector frees an upvalue that   *)
(* neither a closure nor an open list refers to.                           *)

Members(seq) == {seq[i] : i \in DOMAIN seq}
Held == UNION ({Members(u) : u \in closures} \cup {Members(frames[i].up) : i \in DOMAIN frames})

DropClosure == \E u \in closures : closures' = closures \ {u} /\ UNCHANGED <<stack, frames, head, cells>>

Collect ==
  /\ \E c \in Cells \ Held : cells[c].state = "closed" /\ cells' = [cells EXCEPT ![c] = Blank]
  /\ UNCHANGED <<stack, frames, head, closures>>

Next ==
  \/ Call \/ Return \/ RestoreSnapshot
  \/ Move \/ Vararg \/ Instruction \/ ClosureFails
  \/ DropClosure \/ Collect

Spec == Init /\ [][Next]_vars

-----------------------------------------------------------------------------
(* Properties                                                              *)

Open == {c \in Cells : cells[c].state = "open"}

\* The open list of a thread holds its open upvalues, each once, by descending
\* slot, and can be walked both ways: FindOrCreateOpen and CloseInRange stop
\* early on that.
OpenListSorted ==
  /\ \A t \in Threads : head[t] # None => head[t] \in Open /\ cells[head[t]].thread = t
  /\ \A c \in Open :
       /\ cells[c].prev = None <=> head[cells[c].thread] = c
       /\ cells[c].prev # None => cells[c].prev \in Open /\ cells[cells[c].prev].next = c
       /\ cells[c].next # None =>
            LET n == cells[cells[c].next] IN
            /\ n.state = "open" /\ n.thread = cells[c].thread /\ n.slot < cells[c].slot
            /\ n.prev = c

\* Every open upvalue is on a register of a frame that is still there: a slot
\* handed to a new frame is never shared with a closure made before
\* (callLuaClosure, callCompiled, finishNestedCompiledCall, restoreSnapshot).
OpenInWindow ==
  \A c \in Open : \E i \in DOMAIN frames :
    /\ frames[i].thread = cells[c].thread
    /\ frames[i].base < cells[c].slot /\ cells[c].slot <= frames[i].base + frames[i].count

\* What a register holds for the program: the open upvalue on it, or its value.
Holds(t, s) ==
  LET on == {c \in Open : cells[c].thread = t /\ cells[c].slot = s} IN
  IF on = {} THEN stack[t][s] ELSE CHOOSE c \in on : TRUE

Activation(f) ==
  [regs |-> [r \in 1..f.count |-> Holds(f.thread, f.base + r)],
   extra |-> [x \in 1..f.extra |-> stack[f.thread][f.base + f.count + x]],
   up |-> Members(f.up)]

Activations == [i \in DOMAIN frames |-> Activation(frames[i])]
Contents == [c \in Cells |-> IF cells[c].state = "free" THEN Nil ELSE Get(c)]
CapturedSets == {Members(u) : u \in closures}

V == INSTANCE Variables WITH calls <- Activations, content <- Contents, closures <- CapturedSets

\* Slots, windows and open lists implement captured variables: each activation
\* has its own, closures that capture one share it, and it outlives its frame.
VariablesShared == V!Spec

\* An instruction does to the program's variables what its operands name: the
\* variable read or written through an upvalue is the one captured, also on a
\* thread that has another one on the same slot, and a new closure has the
\* variables of the registers listed, in that order.
OperandsKept ==
  [][Depth > 0 =>
       /\ \A r \in 1..Frame.count, i \in DOMAIN Frame.up :
            /\ GetUpvalue(r, i) => V!SetRegister(r, Get(Frame.up[i]))
            /\ SetUpvalue(r, i) => V!SetUpvalue(Frame.up[i], r)
       /\ \A r \in 1..Frame.count : Close(r) => V!EndBlock(r)
       /\ \A n \in Captures \ {0} : \A captures \in [1..n -> Sources] :
            Closure(captures) => \A i \in 1..n :
              Opened(captures).refs[i] =
                IF captures[i][1] = "upvalue" THEN Frame.up[captures[i][2]]
                ELSE Activation(Frame)'.regs[captures[i][2]]]_vars
=============================================================================
