------------------------------ MODULE Machine ------------------------------
(***************************************************************************)
(* From text to results: a program is parsed, bound, lowered, emitted and  *)
(* run, and while it runs the collector looks at the registers of its      *)
(* frames.                                                                 *)
(*                                                                         *)
(* A frame is a closure, the position of its next instruction, a window of *)
(* registers, the top below which registers were written, the arguments of *)
(* a vararg function and the registers the collector has passed over, with *)
(* each of its ways to find them: the top of an interpreted frame and the  *)
(* live slots of a frame of native code.  The window of a vararg function  *)
(* goes on with its arguments.                                             *)
(*                                                                         *)
(* While a frame waits for a call, its position is the call's.             *)
(***************************************************************************)
EXTENDS Bytecode, Values, SequencesExt

CONSTANTS Programs,      \* what is written and run
          Reader(_),     \* the stages of the frontend, from the text of a program on
          Binder(_),
          Lowerer(_),
          Emitter(_),
          Liveness(_),   \* the live slots of a prototype
          Reference(_)   \* what a program means

VARIABLES program,   \* what is written
          phase,     \* how far the program has come
          unit,      \* the tree, the bound or lowered chunk or its prototypes by path
          frames,    \* the frames of the thread, the running one last
          cells,     \* upvalues: the frame and register while open, the value after that
          closures,  \* prototype, as the path to it, and upvalues
          tables,    \* the first one holds the globals
          log,       \* what the host was shown
          results    \* what the program returned

heap == <<cells, closures, tables>>
vars == <<program, phase, unit, frames, cells, closures, tables, log, results>>

Init ==
  /\ program \in Programs
  /\ phase = "text"
  /\ unit = <<>> /\ frames = <<>> /\ cells = <<>> /\ closures = <<>>
  /\ tables = <<[k \in {<<"str", <<"out">>>>} |-> <<"host", 0>>]>>
  /\ log = <<>> /\ results = <<>>

(***************************************************************************)
(* The frontend.                                                           *)
(***************************************************************************)
ParseText ==
  /\ phase = "text"
  /\ unit' = Reader(program)
  /\ phase' = IF unit'.error THEN "rejected" ELSE "source"
  /\ UNCHANGED <<program, frames, heap, log, results>>

BindSource ==
  /\ phase = "source"
  /\ unit' = Binder(unit.stats)
  /\ phase' = IF unit'.error THEN "rejected" ELSE "bound"
  /\ UNCHANGED <<program, frames, heap, log, results>>

LowerBound ==
  /\ phase = "bound"
  /\ unit' = Lowerer(unit)
  /\ phase' = "lowered"
  /\ UNCHANGED <<program, frames, heap, log, results>>

(* A prototype with the live slots the code generator notes for it. *)
WithLive(p) == [live |-> Liveness(p)] @@ p

EmitLowered ==
  /\ phase = "lowered"
  /\ LET chunk == Emitter(unit)
         protos == chunk.protos
     IN IF chunk.error THEN unit' = unit /\ phase' = "unemitted"
        ELSE IF \E path \in DOMAIN protos : ~ValidPrototype(protos[path])
        THEN unit' = protos /\ phase' = "invalid"
        ELSE unit' = [path \in DOMAIN protos |-> WithLive(protos[path])] /\ phase' = "emitted"
  /\ UNCHANGED <<program, frames, heap, log, results>>

(***************************************************************************)
(* Frames.                                                                 *)
(***************************************************************************)
Proto(c) == unit[closures[c].path]

(* The ways the collector finds the registers of a frame. *)
Everywhere == {"native", "interpreted"}

NothingSkipped == [way \in Everywhere |-> {}]

(* The frame of a function that is called.  Registers from the first
   argument on are nil; the arguments past the parameters lie behind them. *)
Activate(c, args) ==
  LET p == Proto(c)
      extra == IF p.vararg THEN SubSeq(args, p.params + 1, Len(args)) ELSE <<>>
  IN [closure |-> c, pc |-> 0, varargs |-> extra, skipped |-> NothingSkipped,
      top |-> IF p.params > Len(args) THEN p.params ELSE Min({Len(args), p.max}),
      regs |-> [r \in 0..(p.max + Len(extra) - 1) |->
                  CASE r < p.params -> Nth(args, r + 1)
                    [] r >= p.max -> extra[r - p.max + 1]
                    [] OTHER -> Nil]]

Start ==
  /\ phase = "emitted"
  /\ closures' = <<[path |-> <<>>, ups |-> <<>>]>>
  /\ frames' = <<[closure |-> 1, pc |-> 0, varargs |-> <<>>,
                  skipped |-> NothingSkipped, top |-> 0,
                  regs |-> [r \in 0..(unit[<<>>].max - 1) |-> Nil]]>>
  /\ phase' = "running"
  /\ UNCHANGED <<program, unit, cells, tables, log, results>>

Fits(f, a, n) == a + n <= Cardinality(DOMAIN f.regs)

(* Values are written from register a on; the top is never lowered by it. *)
Stored(f, a, vs) ==
  LET written == a..(a + Len(vs) - 1)
  IN [f EXCEPT !.regs = [r \in DOMAIN @ |-> IF r \in written THEN vs[r - a + 1] ELSE @[r]],
               !.top = IF vs = <<>> THEN @ ELSE Max({@, a + Len(vs)}),
               !.skipped = [way \in Everywhere |-> @[way] \ written]]

Next1(f) == [f EXCEPT !.pc = @ + 1]

Goto(f, target) == [f EXCEPT !.pc = target]

(* The jump behind a test, taken or skipped. *)
Decide(f, taken) ==
  Goto(f, f.pc + 2 + IF taken THEN At(Proto(f.closure), f.pc + 1).b ELSE 0)

Open(d, cs) == {cs[c].reg : c \in {c \in DOMAIN cs : cs[c].frame = d}}

(* The registers of an interpreted frame the collector visits. *)
InterpretedRoots(f) == 0..(f.top - 1)

(* The collector looks at every frame.  A register it does not visit is of
   no use to the frame any more, unless an open upvalue shows it. *)
Scanned(frs, cs, ways) ==
  [d \in DOMAIN frs |->
     LET f == frs[d]
         holding == {r \in DOMAIN f.regs : IsReference(f.regs[r]) /\ r \notin Open(d, cs)}
         visited(way) == IF way = "interpreted" THEN InterpretedRoots(f)
                         ELSE CompiledRoots(Proto(f.closure).live, f.pc, f.top)
         window == {r \in holding : r < Proto(f.closure).max}
     IN [f EXCEPT !.skipped = [way \in Everywhere |->
           IF way \in ways THEN @[way] \cup (window \ visited(way)) ELSE @[way]]]]

(* The upvalues of frame d from register a on take their values along. *)
CloseFrom(frs, cs, d, a) ==
  [c \in DOMAIN cs |->
     IF cs[c].frame = d /\ cs[c].reg >= a
     THEN [frame |-> 0, reg |-> 0, value |-> frs[d].regs[cs[c].reg]] ELSE cs[c]]

(***************************************************************************)
(* Results reach the instruction the last of the frames waits at.  Those   *)
(* that wait at a tail call are left with them, their upvalues closed; the *)
(* outermost frame's results are the program's.                            *)
(***************************************************************************)
Adjusted(vs, n) == [i \in 1..n |-> Nth(vs, i)]

Arrived(frs, cs, how, vs) == [frames |-> frs, cells |-> cs, how |-> how, results |-> vs]

Broken(cs) == Arrived(<<>>, cs, "failed", <<>>)

(* At a call: as many as wanted, or all of them below the new top. *)
ToCall(frs, cs, i, vs) ==
  LET f == Last(frs)
      list == IF i.c = 0 THEN vs ELSE Adjusted(vs, i.c - 1)
      done == [Stored(f, i.a, list) EXCEPT !.top = i.a + Len(list), !.pc = @ + 1]
  IN IF ~Fits(f, i.a, Len(list)) THEN Broken(cs)
     ELSE Arrived(Scanned(Append(Front(frs), done), cs, {"native"}), cs, "running", <<>>)

(* At the head of a loop over an iterator: the loop goes on unless the
   first result is nil. *)
ToLoop(frs, cs, i, vs) ==
  LET f == Last(frs)
      list == Adjusted(vs, i.c)
      given == Stored(f, i.a + 3, list)
      done == IF list[1] = Nil THEN Decide(given, FALSE)
              ELSE Decide(Stored(given, i.a + 2, <<list[1]>>), TRUE)
  IN Arrived(Scanned(Append(Front(frs), done), cs, {"native"}), cs, "running", <<>>)

(* The last frame that waits for results of its own, if there is one. *)
Receiver(frs) ==
  Max({0} \cup {d \in DOMAIN frs : At(Proto(frs[d].closure), frs[d].pc).op # "TAILCALL"})

(* The upvalues of the frames behind frame d take their values along. *)
CloseBehind(frs, cs, d) ==
  [c \in DOMAIN cs |->
     IF cs[c].frame > d
     THEN [frame |-> 0, reg |-> 0, value |-> frs[cs[c].frame].regs[cs[c].reg]] ELSE cs[c]]

Deliver(frs, cs, vs) ==
  LET d == Receiver(frs)
      kept == SubSeq(frs, 1, d)
      closed == CloseBehind(frs, cs, d)
      i == At(Proto(frs[d].closure), frs[d].pc)
  IN IF d = 0 THEN Arrived(kept, closed, "done", [j \in DOMAIN vs |-> Shown(vs[j])])
     ELSE IF i.op = "CALL" THEN ToCall(kept, closed, i, vs)
     ELSE ToLoop(kept, closed, i, vs)

Settle(to) ==
  /\ frames' = to.frames
  /\ cells' = to.cells
  /\ phase' = to.how
  /\ results' = to.results

(***************************************************************************)
(* The instruction at the top of the frames and what it reads.             *)
(***************************************************************************)
F == Last(frames)
P == Proto(F.closure)
I == At(P, F.pc)

Running(ops) == phase = "running" /\ I.op \in ops

(* The value of an operand. *)
RK(x) == IF IsConstantRK(x) THEN P.consts[x - RKBase + 1] ELSE F.regs[x]

CellValue(c) ==
  IF cells[c].frame = 0 THEN cells[c].value ELSE frames[cells[c].frame].regs[cells[c].reg]

Upvalue(n) == closures[F.closure].ups[n + 1]

(* An open list ends below the top. *)
Listed(start, n) == [j \in 1..n |-> F.regs[start + j - 1]]
UpToTop(start) == Listed(start, Max({0, F.top - start}))

Callee == F.regs[I.a]

Arguments ==
  IF I.op = "TFORLOOP" THEN Listed(I.a + 1, 2)
  ELSE IF I.b = 0 THEN UpToTop(I.a + 1) ELSE Listed(I.a + 1, I.b - 1)

Return == IF I.b = 0 THEN UpToTop(I.a) ELSE Listed(I.a, I.b - 1)

Items == IF I.b = 0 THEN UpToTop(I.a + 1) ELSE Listed(I.a + 1, I.b)

IsNumber(v) == v[1] = "num"

(* What the instruction cannot do: its operands are of the wrong type, or
   an open list of arguments does not fit in the window. *)
Fails ==
  CASE I.op \in {"GETTABLE", "SELF"} -> F.regs[I.b][1] # "table"
    [] I.op = "SETTABLE" -> F.regs[I.a][1] # "table" \/ RK(I.b) = Nil
    [] I.op \in Arithmetic \cup {"LT", "LE"} -> ~IsNumber(RK(I.b)) \/ ~IsNumber(RK(I.c))
    [] I.op = "UNM" -> ~IsNumber(F.regs[I.b])
    [] I.op = "LEN" -> F.regs[I.b][1] \notin {"table", "str"}
    [] I.op = "CONCAT" -> \E r \in I.b..I.c : ~IsText(F.regs[r])
    [] I.op \in {"CALL", "TAILCALL", "TFORLOOP"} -> Callee[1] \notin {"function", "host"}
    [] I.op = "FORPREP" -> \E r \in I.a..(I.a + 2) : ~IsNumber(F.regs[r])
    [] I.op = "VARARG" -> I.b = 0 /\ ~Fits(F, I.a, Len(F.varargs))
    [] OTHER -> FALSE

Runs(ops) == Running(ops) /\ ~Fails

(* An error ends the program; every frame is left. *)
Raise ==
  /\ phase = "running" /\ Fails
  /\ Settle(Broken(cells))
  /\ UNCHANGED <<program, unit, closures, tables, log>>

Continue(f) == frames' = Append(Front(frames), f)

Set(a, v) == Next1(Stored(F, a, <<v>>))

(* The instruction allocates: the collector may run behind it. *)
Allocated(f, cs) == frames' = Scanned(Append(Front(frames), f), cs, Everywhere)

Quiet == UNCHANGED <<program, phase, unit, log, results>>

(***************************************************************************)
(* Instructions.                                                           *)
(***************************************************************************)
Move ==
  /\ Running({"MOVE", "LOADK"})
  /\ Continue(Set(I.a, IF I.op = "MOVE" THEN F.regs[I.b] ELSE P.consts[I.b + 1]))
  /\ Quiet /\ UNCHANGED heap

LoadBool ==
  /\ Running({"LOADBOOL"})
  /\ Continue(Goto(Stored(F, I.a, <<Bool(I.b # 0)>>), F.pc + IF I.c # 0 THEN 2 ELSE 1))
  /\ Quiet /\ UNCHANGED heap

LoadNil ==
  /\ Running({"LOADNIL"})
  /\ Continue(Next1(Stored(F, I.a, Adjusted(<<>>, I.b - I.a + 1))))
  /\ Quiet /\ UNCHANGED heap

GetUpvalue ==
  /\ Running({"GETUPVAL"})
  /\ Continue(Set(I.a, CellValue(Upvalue(I.b))))
  /\ Quiet /\ UNCHANGED heap

(* An open upvalue is a register of a frame further down. *)
SetUpvalue ==
  /\ Running({"SETUPVAL"})
  /\ LET c == Upvalue(I.b)
         v == F.regs[I.a]
         after == Append(Front(frames), Next1(F))
     IN IF cells[c].frame = 0
        THEN /\ cells' = [cells EXCEPT ![c].value = v]
             /\ frames' = after
        ELSE /\ frames' = [after EXCEPT ![cells[c].frame].regs[cells[c].reg] = v]
             /\ cells' = cells
  /\ Quiet /\ UNCHANGED <<closures, tables>>

GetGlobal ==
  /\ Running({"GETGLOBAL"})
  /\ Continue(Set(I.a, ReadTable(tables[1], P.consts[I.b + 1])))
  /\ Quiet /\ UNCHANGED heap

SetGlobal ==
  /\ Running({"SETGLOBAL"})
  /\ tables' = [tables EXCEPT ![1] = WriteTable(@, P.consts[I.b + 1], F.regs[I.a])]
  /\ Continue(Next1(F))
  /\ Quiet /\ UNCHANGED <<cells, closures>>

GetTable ==
  /\ Runs({"GETTABLE"})
  /\ Continue(Set(I.a, ReadTable(tables[F.regs[I.b][2]], RK(I.c))))
  /\ Quiet /\ UNCHANGED heap

(* The receiver is written before the key is read. *)
Self ==
  /\ Runs({"SELF"})
  /\ LET receiver == F.regs[I.b]
         given == Stored(F, I.a + 1, <<receiver>>)
         key == IF IsConstantRK(I.c) THEN RK(I.c) ELSE given.regs[I.c]
     IN Continue(Next1(Stored(given, I.a, <<ReadTable(tables[receiver[2]], key)>>)))
  /\ Quiet /\ UNCHANGED heap

SetTable ==
  /\ Runs({"SETTABLE"})
  /\ tables' = [tables EXCEPT ![F.regs[I.a][2]] = WriteTable(@, RK(I.b), RK(I.c))]
  /\ Continue(Next1(F))
  /\ Quiet /\ UNCHANGED <<cells, closures>>

NewTable ==
  /\ Running({"NEWTABLE"})
  /\ tables' = Append(tables, EmptyTable)
  /\ Allocated(Set(I.a, <<"table", Len(tables')>>), cells)
  /\ Quiet /\ UNCHANGED <<cells, closures>>

(* The items of a constructor, after those of the blocks before. *)
SetList ==
  /\ Running({"SETLIST"})
  /\ LET block == IF I.c = 0 THEN At(P, F.pc + 1).a ELSE I.c
         base == (block - 1) * FieldsPerFlush
     IN tables' = [tables EXCEPT ![F.regs[I.a][2]] = WriteList(@, base, Items)]
  /\ Continue(Goto(F, F.pc + IF I.c = 0 THEN 2 ELSE 1))
  /\ Quiet /\ UNCHANGED <<cells, closures>>

Operate ==
  /\ Runs(Arithmetic)
  /\ Continue(Set(I.a, ArithmeticOf(I.op, RK(I.b), RK(I.c))))
  /\ Quiet /\ UNCHANGED heap

Unary ==
  /\ Runs({"UNM", "NOT", "LEN"})
  /\ LET v == F.regs[I.b]
     IN Continue(Set(I.a, CASE I.op = "UNM" -> Num(0 - v[2])
                            [] I.op = "NOT" -> Bool(IsFalse(v))
                            [] v[1] = "table" -> Num(LengthOf(tables[v[2]]))
                            [] OTHER -> Num(Len(v[2]))))
  /\ Quiet /\ UNCHANGED heap

Concat ==
  /\ Runs({"CONCAT"})
  /\ Allocated(Set(I.a, <<"str", FlattenSeq([j \in 1..(I.c - I.b + 1) |->
                                               Text(F.regs[I.b + j - 1])])>>), cells)
  /\ Quiet /\ UNCHANGED heap

Jump ==
  /\ Running({"JMP"})
  /\ Continue(Goto(F, F.pc + 1 + I.b))
  /\ Quiet /\ UNCHANGED heap

Compare ==
  /\ Runs(Comparing)
  /\ Continue(Decide(F, CompareOf(I.op, RK(I.b), RK(I.c)) = (I.a # 0)))
  /\ Quiet /\ UNCHANGED heap

Test ==
  /\ Running({"TEST"})
  /\ Continue(Decide(F, IsFalse(F.regs[I.a]) # (I.c # 0)))
  /\ Quiet /\ UNCHANGED heap

CallFunction ==
  /\ Runs({"CALL", "TAILCALL", "TFORLOOP"}) /\ Callee[1] = "function"
  /\ frames' = Append(frames, Activate(Callee[2], Arguments))
  /\ Quiet /\ UNCHANGED heap

(* The host notes its arguments, allocates and returns them. *)
CallHost ==
  /\ Runs({"CALL", "TAILCALL", "TFORLOOP"}) /\ Callee[1] = "host"
  /\ log' = Append(log, [j \in DOMAIN Arguments |-> Shown(Arguments[j])])
  /\ Settle(Deliver(Scanned(frames, cells, Everywhere), cells, Arguments))
  /\ UNCHANGED <<program, unit, closures, tables>>

ReturnFrom ==
  /\ Running({"RETURN"})
  /\ Settle(Deliver(Front(frames), CloseFrom(frames, cells, Len(frames), 0), Return))
  /\ UNCHANGED <<program, unit, closures, tables, log>>

(* The index starts a step behind, the loop instruction adds the step. *)
ForPrep ==
  /\ Runs({"FORPREP"})
  /\ LET index == Num(F.regs[I.a][2] - F.regs[I.a + 2][2])
     IN Continue(Goto(Stored(F, I.a, <<index, F.regs[I.a + 1], F.regs[I.a + 2]>>), F.pc + 1 + I.b))
  /\ Quiet /\ UNCHANGED heap

ForLoop ==
  /\ Running({"FORLOOP"})
  /\ LET step == F.regs[I.a + 2][2]
         index == F.regs[I.a][2] + step
         limit == F.regs[I.a + 1][2]
         on == IF step > 0 THEN index <= limit ELSE limit <= index
         read == Stored(F, I.a, Listed(I.a, 3))
         given == Stored(Stored(read, I.a, <<Num(index)>>), I.a + 3, <<Num(index)>>)
     IN IF on
        THEN frames' = Scanned(Append(Front(frames), Goto(given, F.pc + 1 + I.b)), cells, {"native"})
        ELSE Continue(Next1(read))
  /\ Quiet /\ UNCHANGED heap

Close ==
  /\ Running({"CLOSE"})
  /\ cells' = CloseFrom(frames, cells, Len(frames), I.a)
  /\ Continue(Next1(F))
  /\ Quiet /\ UNCHANGED <<closures, tables>>

(* The instructions that follow say what is captured: a register, by the
   upvalue that is open on it or by a new one, or an upvalue of this closure. *)
Capture(acc, i) ==
  LET d == Len(frames)
      same == {c \in DOMAIN acc.cells : acc.cells[c].frame = d /\ acc.cells[c].reg = i.b}
  IN CASE i.op = "GETUPVAL" -> [acc EXCEPT !.ups = Append(@, Upvalue(i.b))]
       [] i.op # "GETUPVAL" /\ same # {} -> [acc EXCEPT !.ups = Append(@, CHOOSE c \in same : TRUE)]
       [] OTHER -> [cells |-> Append(acc.cells, [frame |-> d, reg |-> i.b, value |-> Nil]),
                    ups |-> Append(acc.ups, Len(acc.cells) + 1)]

(* The cells and the upvalues after the first j captures of n. *)
Captured(n) ==
  LET after[j \in 0..n] == IF j = 0 THEN [cells |-> cells, ups |-> <<>>]
                           ELSE Capture(after[j - 1], At(P, F.pc + j))
  IN after

MakeClosure ==
  /\ Running({"CLOSURE"})
  /\ LET n == P.protos[I.b + 1].ups
         made == Captured(n)[n]
     IN /\ cells' = made.cells
        /\ closures' = Append(closures, [path |-> Append(closures[F.closure].path, I.b + 1),
                                         ups |-> made.ups])
        /\ Allocated(Goto(Stored(F, I.a, <<<<"function", Len(closures')>>>>), F.pc + 1 + n), cells')
  /\ Quiet /\ UNCHANGED tables

Vararg ==
  /\ Runs({"VARARG"})
  /\ LET list == IF I.b = 0 THEN F.varargs ELSE Adjusted(F.varargs, I.b - 1)
         stored == Stored(F, I.a, list)
     IN Continue(Next1(IF I.b = 0 THEN [stored EXCEPT !.top = I.a + Len(list)] ELSE stored))
  /\ Quiet /\ UNCHANGED heap

Instruction ==
  \/ Move \/ LoadBool \/ LoadNil \/ GetUpvalue \/ SetUpvalue \/ GetGlobal \/ SetGlobal
  \/ GetTable \/ Self \/ SetTable \/ NewTable \/ SetList \/ Operate \/ Unary \/ Concat
  \/ Jump \/ Compare \/ Test \/ CallFunction \/ CallHost \/ ReturnFrom
  \/ ForPrep \/ ForLoop \/ Close \/ MakeClosure \/ Vararg

(* The program has ended or was refused. *)
Finished ==
  /\ phase \in {"rejected", "unemitted", "invalid", "done", "failed"}
  /\ UNCHANGED vars

Next == ParseText \/ BindSource \/ LowerBound \/ EmitLowered \/ Start \/ Instruction \/ Raise \/ Finished

Spec == Init /\ [][Next]_vars

(***************************************************************************)
(* What is checked of a run.                                               *)
(***************************************************************************)
(* A text that is no program is refused, wherever the parser finds its
   error and however it goes on from there (frontend/parser/parser.go), and
   no other text is.  A program shows the host what its source means, ends
   the way its source ends and returns the same: registers that are shared by temporaries,
   operands read where they lie, upvalues closed by blocks and breaks, and
   calls that pass open lists through the window of a frame
   (frontend/compiler/emitter.go, interp/execute.go) cannot be seen. *)
MeaningKept ==
  phase \in {"rejected", "done", "failed"} =>
    LET m == Reference(program)
    IN /\ (phase = "rejected") = m.refused
       /\ log = m.log
       /\ (phase = "failed") = m.bad
       /\ results = m.results

(* The registers an instruction reads. *)
Operands ==
  CASE I.op \in {"MOVE", "UNM", "NOT", "LEN"} -> {I.b}
    [] I.op \in {"SETGLOBAL", "SETUPVAL", "TEST"} -> {I.a}
    [] I.op \in {"GETTABLE", "SELF"} -> {I.b, I.c}
    [] I.op = "SETTABLE" -> {I.a, I.b, I.c}
    [] I.op \in Arithmetic \cup Comparing -> {I.b, I.c}
    [] I.op = "CONCAT" -> I.b..I.c
    [] I.op \in {"CALL", "TAILCALL", "TFORLOOP"} -> I.a..(I.a + Len(Arguments))
    [] I.op = "RETURN" -> I.a..(I.a + Len(Return) - 1)
    [] I.op = "SETLIST" -> I.a..(I.a + Len(Items))
    [] OTHER -> {}

(* No instruction reads a register that held a reference when the collector
   last looked at the frame and was passed over then: it would read a freed
   object.  The live slots of native code (vexarc/baseline/liveness.go) and
   the top of interpreted frames (interp/execute.go setFrameTop) decide what
   is passed over, instruction by instruction, over loops and calls. *)
OperandsVisited ==
  phase = "running" => \A way \in Everywhere : Operands \cap F.skipped[way] = {}

(* The locals of a function in whose scope a position is. *)
InScope(p, pc) ==
  {s \in DOMAIN p.locvars : p.locvars[s].start <= pc /\ pc < p.locvars[s].end}

(* A register an open upvalue shows holds a local in scope: what leaves a
   scope, be it the end of a block, a round of a loop or a break, closes the
   captured variables first (frontend/compiler/emitter.go emitScopeClose,
   breakNeedsClose), or the next owner of the register would be shared. *)
CapturesClosed ==
  phase = "running" =>
    \A c \in DOMAIN cells : cells[c].frame # 0 =>
      LET f == frames[cells[c].frame]
          p == Proto(f.closure)
      IN At(p, f.pc).op # "RETURN" => cells[c].reg < Cardinality(InScope(p, f.pc))
=============================================================================
