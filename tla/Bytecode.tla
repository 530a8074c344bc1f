------------------------------ MODULE Bytecode ------------------------------
(***************************************************************************)
(* What is demanded of a prototype and what is derived from it: the        *)
(* validator every prototype passes before it is used, and the register    *)
(* liveness the native code generator hands to the collector.              *)
(*                                                                         *)
(* A prototype is the record the emitter makes; positions count from 0.    *)
(* Of the functions it contains a prototype knows the number of upvalues.  *)
(***************************************************************************)
EXTENDS Integers, Sequences, FiniteSets, FiniteSetsExt

CONSTANT FieldsPerFlush  \* values a SETLIST stores at most (50)

ASSUME FlushAssumption == FieldsPerFlush \in Nat \ {0}

RKBase == 256

IsConstantRK(operand) == operand >= RKBase

(* The instruction at a position. *)
At(p, pc) == p.code[pc + 1]

Size(p) == Len(p.code)

(***************************************************************************)
(* The validator.  The count that follows a SETLIST is read as an          *)
(* instruction too: its low six bits as an opcode, the next eight as A.    *)
(***************************************************************************)
OpcodeNames ==
  <<"MOVE", "LOADK", "LOADBOOL", "LOADNIL", "GETUPVAL", "GETGLOBAL", "GETTABLE", "SETGLOBAL",
    "SETUPVAL", "SETTABLE", "NEWTABLE", "SELF", "ADD", "SUB", "MUL", "DIV", "MOD", "POW", "UNM",
    "NOT", "LEN", "CONCAT", "JMP", "EQ", "LT", "LE", "TEST", "TESTSET", "CALL", "TAILCALL",
    "RETURN", "FORLOOP", "FORPREP", "TFORLOOP", "SETLIST", "CLOSE", "CLOSURE", "VARARG">>

Arithmetic == {"ADD", "SUB", "MUL", "DIV", "MOD", "POW"}
Comparing == {"EQ", "LT", "LE"}

SetsA ==
  {"MOVE", "LOADK", "LOADBOOL", "LOADNIL", "GETUPVAL", "GETGLOBAL", "GETTABLE", "NEWTABLE",
   "SELF", "UNM", "NOT", "LEN", "CONCAT", "TEST", "CALL", "TAILCALL", "FORLOOP", "FORPREP",
   "CLOSURE", "VARARG"} \cup Arithmetic

Read(word) ==
  IF word.op # "EXTRA" THEN word
  ELSE [op |-> IF word.a % 64 < Len(OpcodeNames) THEN OpcodeNames[(word.a % 64) + 1] ELSE "invalid",
        a |-> (word.a \div 64) % 256, b |-> 0, c |-> 0]

ValidRegister(p, r) == r \in 0..(p.max - 1)

ValidOperand(p, x) ==
  IF IsConstantRK(x) THEN x - RKBase < Len(p.consts) ELSE ValidRegister(p, x)

ValidTarget(p, pc) == pc \in 0..(Size(p) - 1)

(* A test is followed by the jump it takes or skips. *)
ValidTest(p, pc) ==
  /\ pc + 1 < Size(p)
  /\ At(p, pc + 1).op = "JMP"
  /\ ValidTarget(p, pc + 2 + At(p, pc + 1).b)

ValidInstruction(p, pc) ==
  LET i == Read(At(p, pc))
  IN /\ i.op # "invalid"
     /\ i.op \in SetsA \cup {"SETTABLE", "RETURN", "CLOSE"} => ValidRegister(p, i.a)
     /\ i.op \in {"MOVE", "LOADNIL", "GETTABLE", "SELF", "UNM", "NOT", "LEN", "CONCAT"}
          => ValidRegister(p, i.b)
     /\ i.op \in {"LOADK", "GETGLOBAL", "SETGLOBAL"} => i.b < Len(p.consts)
     /\ i.op \in {"GETGLOBAL", "SETGLOBAL"} => p.consts[i.b + 1][1] = "str"
     /\ i.op \in {"GETUPVAL", "SETUPVAL"} => i.b < p.ups
     /\ i.op = "LOADNIL" => i.a <= i.b
     /\ i.op = "CONCAT" => i.b <= i.c /\ ValidRegister(p, i.c)
     /\ i.op \in {"SETTABLE"} \cup Arithmetic \cup Comparing => ValidOperand(p, i.b)
     /\ i.op \in {"GETTABLE", "SETTABLE", "SELF"} \cup Arithmetic \cup Comparing
          => ValidOperand(p, i.c)
     /\ i.op = "SELF" => ValidRegister(p, i.a + 1)
     /\ i.op \in {"TEST", "TFORLOOP"} \cup Comparing => ValidTest(p, pc)
     /\ i.op \in {"JMP", "FORLOOP", "FORPREP"} => ValidTarget(p, pc + 1 + i.b)
     /\ i.op = "TEST" => i.c <= 1
     /\ i.op \in {"CALL", "TAILCALL"} => /\ i.b > 0 => ValidRegister(p, i.a + i.b - 1)
                                         /\ i.c > 1 => ValidRegister(p, i.a + i.c - 2)
     /\ i.op = "RETURN" /\ i.b > 1 => ValidRegister(p, i.a + i.b - 2)
     /\ i.op \in {"FORLOOP", "FORPREP"} => ValidRegister(p, i.a + 3)
     /\ i.op = "TFORLOOP" => ValidRegister(p, i.a + 2 + i.c)
     /\ i.op = "SETLIST" => /\ i.b > 0 => ValidRegister(p, i.a + i.b)
                            /\ i.c = 0 => pc + 1 < Size(p)
     /\ i.op = "CLOSURE" => i.b < Len(p.protos)
     /\ i.op = "VARARG" /\ i.b > 0 => ValidRegister(p, i.a + i.b - 1)

ValidPrototype(p) ==
  /\ \A s \in DOMAIN p.locvars :
       LET v == p.locvars[s] IN 0 <= v.start /\ v.start <= v.end /\ v.end <= Size(p)
  /\ \A pc \in 0..(Size(p) - 1) : ValidInstruction(p, pc)

(***************************************************************************)
(* Liveness.  At each position: the registers some path on reads before it *)
(* writes them, and the first register of an open list some path on reads  *)
(* up to the top of the frame.                                             *)
(***************************************************************************)
NoDynamicTop == 256

NothingLive == [registers |-> {}, dynamicTopStart |-> NoDynamicTop]

Successors(p, pc) ==
  LET i == At(p, pc)
  IN CASE i.op \in {"RETURN", "TAILCALL"} -> {}
       [] i.op \in {"JMP", "FORPREP"} -> {pc + 1 + i.b}
       [] i.op = "FORLOOP" -> {pc + 1 + i.b, pc + 1}
       [] i.op = "LOADBOOL" -> {IF i.c # 0 THEN pc + 2 ELSE pc + 1}
       [] i.op \in {"TEST", "TFORLOOP"} \cup Comparing -> {pc + 2 + At(p, pc + 1).b, pc + 2}
       [] i.op = "SETLIST" -> {IF i.c = 0 THEN pc + 2 ELSE pc + 1}
       [] i.op = "CLOSURE" -> {pc + 1 + p.protos[i.b + 1].ups}
       [] OTHER -> {pc + 1}

RegisterOperands(xs) == {x \in xs : ~IsConstantRK(x)}

Uses(p, pc) ==
  LET i == At(p, pc)
  IN CASE i.op \in {"MOVE", "UNM", "NOT", "LEN"} -> {i.b}
       [] i.op \in {"GETTABLE", "SELF"} -> {i.b} \cup RegisterOperands({i.c})
       [] i.op \in {"SETGLOBAL", "SETUPVAL", "TEST"} -> {i.a}
       [] i.op = "SETTABLE" -> {i.a} \cup RegisterOperands({i.b, i.c})
       [] i.op \in Arithmetic \cup Comparing -> RegisterOperands({i.b, i.c})
       [] i.op = "CONCAT" -> i.b..i.c
       [] i.op \in {"CALL", "TAILCALL"} -> IF i.b = 0 THEN {i.a} ELSE i.a..(i.a + i.b - 1)
       [] i.op = "RETURN" -> IF i.b = 0 THEN {} ELSE i.a..(i.a + i.b - 2)
       [] i.op = "SETLIST" -> IF i.b = 0 THEN {i.a} ELSE i.a..(i.a + i.b)
       [] i.op \in {"FORPREP", "FORLOOP", "TFORLOOP"} -> i.a..(i.a + 2)
       [] i.op = "CLOSURE" -> {At(p, q).b : q \in {q \in (pc + 1)..(pc + p.protos[i.b + 1].ups) :
                                                     At(p, q).op = "MOVE"}}
       [] OTHER -> {}

Kills(p, pc) ==
  LET i == At(p, pc)
  IN CASE i.op \in {"MOVE", "LOADK", "LOADBOOL", "NEWTABLE", "GETUPVAL", "GETGLOBAL", "GETTABLE",
                    "UNM", "NOT", "LEN", "CONCAT", "FORLOOP", "CLOSURE"} \cup Arithmetic -> {i.a}
       [] i.op = "LOADNIL" -> i.a..i.b
       [] i.op = "VARARG" -> IF i.b = 1 THEN {i.a} ELSE i.a..(i.a + i.b - 2)
       [] i.op = "SELF" -> {i.a, i.a + 1}
       [] i.op = "CALL" -> i.a..(i.a + i.c - 2)
       [] i.op = "FORPREP" -> i.a..(i.a + 2)
       [] OTHER -> {}

(* Slip: the open list of a return is not a use. *)
DynamicUseCalls(p, pc) ==
  LET i == At(p, pc)
  IN IF i.op \in {"CALL", "TAILCALL", "SETLIST"} /\ i.b = 0 THEN i.a + 1 ELSE NoDynamicTop

DynamicUse(p, pc) ==
  LET i == At(p, pc)
  IN CASE i.op \in {"CALL", "TAILCALL", "SETLIST"} /\ i.b = 0 -> i.a + 1
       [] i.op = "RETURN" /\ i.b = 0 -> i.a
       [] OTHER -> NoDynamicTop

Transfer(p, pc, live) ==
  LET after == {live[s] : s \in Successors(p, pc)}
      out == UNION {s.registers : s \in after}
  IN [registers |-> (out \ Kills(p, pc)) \cup Uses(p, pc),
      dynamicTopStart |-> Min({DynamicUse(p, pc)} \cup {s.dynamicTopStart : s \in after})]

(* The registers of a compiled frame the collector visits. *)
CompiledRoots(live, pc, top) ==
  live[pc].registers \cup live[pc].dynamicTopStart..(top - 1)
=============================================================================
