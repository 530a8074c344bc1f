----------------------------- MODULE Discipline -----------------------------
(***************************************************************************)
(* How prototypes treat their registers, and the invariant of the machine  *)
(* for prototypes that treat them so.                                      *)
(*                                                                         *)
(* Facts about a prototype are given for the positions a path leads to:    *)
(* the registers that are assigned there on every path, below the top of   *)
(* the frame, and those that may be captured there by an open upvalue.     *)
(***************************************************************************)
EXTENDS Machine

CONSTANT Facts(_)

(* Written on the way from a position to the next one. *)
Gains(p, pc, next) ==
  LET i == At(p, pc)
  IN CASE i.op = "FORLOOP" -> IF next = pc + 1 THEN {} ELSE {i.a + 3}
       [] i.op = "TFORLOOP" -> (i.a + 3)..(i.a + 2 + i.c)
       [] OTHER -> Kills(p, pc)

(* The top may come to lie lower, at the end of a list. *)
SetsTop(i) == i.op = "CALL" \/ (i.op = "VARARG" /\ i.b = 0)

Keeps(p, pc, assigned) ==
  IF SetsTop(At(p, pc)) THEN {r \in assigned : r < At(p, pc).a} ELSE assigned

(* The registers the words behind a CLOSURE capture. *)
CapturedAt(p, pc) == IF At(p, pc).op = "CLOSURE" THEN Uses(p, pc) ELSE {}

ClosedAt(p, pc, captured) ==
  IF At(p, pc).op = "CLOSE" THEN {r \in captured : r >= At(p, pc).a} ELSE {}

(* A list that ends at the top is made by the instruction before: it and
   what lies before it in the list are all the instruction reads. *)
TakesList(i) == i.op \in {"CALL", "TAILCALL", "SETLIST", "RETURN"} /\ i.b = 0
MakesList(i) == (i.op = "CALL" /\ i.c = 0) \/ (i.op = "VARARG" /\ i.b = 0)

ListStart(i) == IF i.op = "RETURN" THEN i.a ELSE i.a + 1

ListMade(p, facts, pc, next) ==
  LET start == ListStart(At(p, next))
  IN /\ MakesList(At(p, pc))
     /\ start <= At(p, pc).a
     /\ start..(At(p, pc).a - 1) \subseteq facts[pc].assigned

WindowOf(p) == 0..(p.max - 1)

(* What holds of the instruction at a position. *)
PositionDisciplined(p, facts, pc) ==
  LET i == At(p, pc)
  IN /\ pc \in 0..(Size(p) - 1)
     /\ i.op \notin {"EXTRA", "TESTSET"}
     /\ i.a \in Nat /\ i.b \in Int /\ i.c \in Nat
     /\ i.op \notin {"JMP", "FORPREP", "FORLOOP"} => i.b \in Nat
     /\ i.op = "FORLOOP" => i.a + 3 \in WindowOf(p)
     /\ i.op = "TFORLOOP" => i.c >= 1
     /\ i.op = "LOADNIL" => i.a <= i.b
     /\ i.op = "VARARG" => i.b # 1
     /\ i.op = "LOADK" => i.b + 1 \in DOMAIN p.consts
     /\ i.op = "SETTABLE" /\ IsConstantRK(i.c) => i.c - RKBase + 1 \in DOMAIN p.consts
     /\ i.op = "SETLIST" /\ i.c = 0 => At(p, pc + 1).a \in Nat
     /\ facts[pc].assigned \subseteq WindowOf(p)
     /\ facts[pc].captured \subseteq WindowOf(p)
     /\ p.live[pc].registers \subseteq WindowOf(p)
     /\ p.live[pc].dynamicTopStart \in Nat
     /\ Kills(p, pc) \cup Uses(p, pc) \subseteq WindowOf(p)
     /\ i.op # "CLOSURE" => Uses(p, pc) \subseteq facts[pc].assigned
     /\ Uses(p, pc) \subseteq p.live[pc].registers
     /\ TakesList(i) => p.live[pc].dynamicTopStart <= ListStart(i)
     /\ i.op # "RETURN" =>
          \A r \in facts[pc].captured : r < Cardinality(InScope(p, pc))

(* What holds of a step to the next position. *)
StepDisciplined(p, facts, pc, next) ==
  /\ next \in DOMAIN facts
  /\ Gains(p, pc, next) \subseteq WindowOf(p)
  /\ facts[next].assigned \subseteq Keeps(p, pc, facts[pc].assigned) \cup Gains(p, pc, next)
  /\ p.live[next].registers \subseteq p.live[pc].registers \cup Kills(p, pc)
  /\ p.live[pc].dynamicTopStart <= p.live[next].dynamicTopStart
  /\ (facts[pc].captured \ ClosedAt(p, pc, facts[pc].captured)) \cup CapturedAt(p, pc)
       \subseteq facts[next].captured
  /\ TakesList(At(p, next)) => ListMade(p, facts, pc, next)

(* What the words behind a CLOSURE name exists. *)
ClosureDisciplined(protos, path, pc) ==
  LET p == protos[path]
      i == At(p, pc)
      n == p.protos[i.b + 1].ups
  IN /\ i.b + 1 \in DOMAIN p.protos
     /\ Append(path, i.b + 1) \in DOMAIN protos
     /\ protos[Append(path, i.b + 1)].ups = n
     /\ n \in Nat
     /\ \A j \in 1..n : /\ At(p, pc + j).op \in {"MOVE", "GETUPVAL"}
                        /\ At(p, pc + j).op = "GETUPVAL" => At(p, pc + j).b \in 0..(p.ups - 1)

Disciplined(protos, path) ==
  LET p == protos[path]
      facts == Facts(p)
  IN /\ p.params \in 0..p.max /\ p.max \in 0..RKBase /\ p.ups \in Nat
     /\ \A k \in DOMAIN p.consts : p.consts[k][1] \notin {"function", "table"}
     /\ 0 \in DOMAIN facts
     /\ facts[0].assigned \subseteq 0..(p.params - 1)
     /\ ~TakesList(At(p, 0))
     /\ \A pc \in DOMAIN facts :
          /\ PositionDisciplined(p, facts, pc)
          /\ \A next \in Successors(p, pc) : StepDisciplined(p, facts, pc, next)
          /\ At(p, pc).op = "CLOSURE" => ClosureDisciplined(protos, path, pc)
          /\ At(p, pc).op \in {"GETUPVAL", "SETUPVAL"} => At(p, pc).b \in 0..(p.ups - 1)

AllDisciplined(protos) ==
  /\ <<>> \in DOMAIN protos
  /\ protos[<<>>].ups = 0 /\ protos[<<>>].params = 0
  /\ \A path \in DOMAIN protos : Disciplined(protos, path)

(* No prototype the emitter makes is refused by the validator: registers
   within the declared window, constants and functions that exist, jumps
   that land in the function, and tests followed by the jump they decide
   (frontend/compiler/proto_builder.go Finish, bytecode/validate.go).  And
   none that is accepted reads a register no path to the instruction has
   assigned, lets a list that ends at the top pass over another
   instruction, or leaves a scope with a captured local open
   (frontend/compiler/emitter.go); the live slots noted for it cover every
   step it can take (vexarc/baseline/liveness.go). *)
ProtosSound ==
  /\ phase # "invalid"
  /\ phase = "emitted" => AllDisciplined(unit)

(***************************************************************************)
(* The invariant of a program that runs.                                   *)
(***************************************************************************)
IsSeq(s) == Len(s) \in Nat /\ s = [i \in 1..Len(s) |-> s[i]]

(* What a value refers to is there. *)
Exists(v, cls, tbs) ==
  /\ v[1] = "function" => v[2] \in 1..Len(cls)
  /\ v[1] = "table" => v[2] \in 1..Len(tbs)

AllExist(vs, cls, tbs) == \A j \in 1..Len(vs) : Exists(vs[j], cls, tbs)

ProtoOf(u, cls, c) == u[cls[c].path]

IsFrame(f) ==
  f = [closure |-> f.closure, pc |-> f.pc, varargs |-> f.varargs, skipped |-> f.skipped,
       top |-> f.top, regs |-> f.regs]

Slots(p, f) == p.max + Len(f.varargs)

Window(p, f, cls, tbs) ==
  /\ IsSeq(f.varargs) /\ AllExist(f.varargs, cls, tbs)
  /\ DOMAIN f.regs = 0..(Slots(p, f) - 1)
  /\ \A r \in DOMAIN f.regs : Exists(f.regs[r], cls, tbs)
  /\ f.top \in 0..Slots(p, f)
  /\ f.skipped \in [Everywhere -> SUBSET WindowOf(p)]

(* The registers the collector has passed over are of no use from here on. *)
NothingLost(p, f) ==
  LET assigned == Facts(p)[f.pc].assigned
      live == p.live[f.pc]
  IN /\ assigned \subseteq 0..(f.top - 1)
     /\ f.skipped["interpreted"] \cap assigned = {}
     /\ f.skipped["native"] \cap live.registers = {}
     /\ \A r \in f.skipped["native"] \cap assigned : r < live.dynamicTopStart
     /\ TakesList(At(p, f.pc)) =>
          \A way \in Everywhere : f.skipped[way] \cap ListStart(At(p, f.pc))..(f.top - 1) = {}

FrameOK(u, f, cls, tbs) ==
  /\ IsFrame(f)
  /\ f.closure \in 1..Len(cls)
  /\ f.pc \in DOMAIN Facts(ProtoOf(u, cls, f.closure))
  /\ Window(ProtoOf(u, cls, f.closure), f, cls, tbs)
  /\ NothingLost(ProtoOf(u, cls, f.closure), f)

(* Every frame but the running one waits for a call. *)
Waits(u, f, cls) == At(ProtoOf(u, cls, f.closure), f.pc).op \in {"CALL", "TAILCALL", "TFORLOOP"}

(* An open upvalue is on a register that may be captured where its frame is. *)
CapturedIn(u, f, cls) == Facts(ProtoOf(u, cls, f.closure))[f.pc].captured

CellOK(u, cell, frs, cls, tbs) ==
  /\ cell = [frame |-> cell.frame, reg |-> cell.reg, value |-> cell.value]
  /\ cell.frame \in 0..Len(frs)
  /\ cell.frame = 0 => Exists(cell.value, cls, tbs)
  /\ cell.frame # 0 => cell.reg \in CapturedIn(u, frs[cell.frame], cls)

CellsOK(u, cs, frs, cls, tbs) ==
  IsSeq(cs) /\ \A c \in 1..Len(cs) : CellOK(u, cs[c], frs, cls, tbs)

ClosureOK(u, closure, cs) ==
  /\ closure.path \in DOMAIN u
  /\ IsSeq(closure.ups) /\ Len(closure.ups) = u[closure.path].ups
  /\ \A n \in 1..Len(closure.ups) : closure.ups[n] \in 1..Len(cs)

ClosuresOK(u, cls, cs) == IsSeq(cls) /\ \A c \in 1..Len(cls) : ClosureOK(u, cls[c], cs)

TableOK(table, cls, tbs) == \A k \in DOMAIN table : Exists(table[k], cls, tbs)

TablesOK(tbs, cls) ==
  IsSeq(tbs) /\ Len(tbs) >= 1 /\ \A t \in 1..Len(tbs) : TableOK(tbs[t], cls, tbs)

FramesOK(u, frs, cls, tbs) == IsSeq(frs) /\ \A d \in 1..Len(frs) : FrameOK(u, frs[d], cls, tbs)

HeapOK(u, frs, cs, cls, tbs) ==
  /\ FramesOK(u, frs, cls, tbs)
  /\ CellsOK(u, cs, frs, cls, tbs)
  /\ ClosuresOK(u, cls, cs)
  /\ TablesOK(tbs, cls)

StateOK(u, frs, cs, cls, tbs) ==
  /\ HeapOK(u, frs, cs, cls, tbs)
  /\ Len(frs) >= 1
  /\ \A d \in 1..(Len(frs) - 1) : Waits(u, frs[d], cls)

MachineInv ==
  /\ phase \in {"emitted", "running"} => AllDisciplined(unit)
  /\ phase \in {"text", "source", "bound", "lowered", "emitted"} =>
       cells = <<>> /\ TablesOK(tables, <<>>)
  /\ phase = "running" => StateOK(unit, frames, cells, closures, tables)
=============================================================================
