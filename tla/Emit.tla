-------------------------------- MODULE Emit --------------------------------
(***************************************************************************)
(* The emitter: a lowered function becomes a prototype, instructions over  *)
(* a window of registers.                                                  *)
(*                                                                         *)
(* The parameters take the first registers, the locals in scope the next   *)
(* ones, temporaries those above: em.temp is the first register that is    *)
(* neither.  An operator takes the state of the emitter, em, and returns   *)
(* the next one.  An instruction is a record of its opcode and operands; a *)
(* jump offset and a wide operand are its b, as they overlay B and C in    *)
(* the word.  An operand from RKBase on names a constant.                  *)
(***************************************************************************)
EXTENDS Lower, Bytecode

CONSTANTS NoReg,          \* registers a function may have (255)
          MaxIndexRK,     \* last constant an operand can name (255)
          MaxArgC         \* largest C operand (511)

ASSUME EmitAssumption ==
  /\ NoReg \in Nat /\ NoReg < 256
  /\ MaxIndexRK \in Nat /\ MaxArgC \in Nat

NewFunction(f) ==
  LET n == Len(f.params)
      captured == {f.captures[i].symbol : i \in DOMAIN f.captures}
  IN [code |-> <<>>, consts |-> <<>>, protos |-> <<>>,
      slots |-> [p \in {f.params[i] : i \in 1..n} |-> (CHOOSE i \in 1..n : f.params[i] = p) - 1],
      ups |-> [c \in captured |-> (CHOOSE i \in DOMAIN f.captures : f.captures[i].symbol = c) - 1],
      debug |-> [p \in {f.params[i] : i \in 1..n} |-> [start |-> 0, end |-> -1]],
      locals |-> <<>>, scopes |-> <<>>, loops |-> <<>>, params |-> n,
      temp |-> n, max |-> Max({2, n}), error |-> FALSE]

Put(em, op, a, b, c) ==
  [em EXCEPT !.code = Append(@, [op |-> op, a |-> a, b |-> b, c |-> c])]

(* The position of the next instruction, counted from 0. *)
Pc(em) == Len(em.code)

PutJump(em) == Put(em, "JMP", 0, 0, 0)

Patch(em, pc, target) == [em EXCEPT !.code[pc + 1].b = target - (pc + 1)]

PatchAll(em, pcs, target) == FoldSet(LAMBDA pc, acc : Patch(acc, pc, target), em, pcs)

AddConstant(em, v) ==
  IF \E i \in DOMAIN em.consts : em.consts[i] = v THEN em
  ELSE [em EXCEPT !.consts = Append(@, v)]

ConstantIndex(em, v) == (CHOOSE i \in DOMAIN em.consts : em.consts[i] = v) - 1

Name(name) == <<"str", <<name>>>>

(***************************************************************************)
(* Registers.                                                              *)
(***************************************************************************)
ActiveBase(em) == em.params + Len(em.locals)

EnsureRegister(em, limit) ==
  [em EXCEPT !.error = @ \/ limit > NoReg, !.max = Max({@, limit})]

(* Slip: the window ends one register short. *)
ReserveTempsShort(em, n) == [EnsureRegister(em, em.temp + n - 1) EXCEPT !.temp = @ + n]

ReserveTemps(em, n) == [EnsureRegister(em, em.temp + n) EXCEPT !.temp = @ + n]

ReleaseTemps(em, mark) == [em EXCEPT !.temp = Max({mark, ActiveBase(em)})]

(* The n registers from start on stay reserved. *)
ReleaseTempsPreserving(em, mark, start, n) ==
  [em EXCEPT !.temp = Max({mark, start + n, ActiveBase(em)})]

AllocateLocals(em, symbols) ==
  LET base == ActiveBase(em)
      n == Len(symbols)
      slot(s) == base + (CHOOSE i \in 1..n : symbols[i] = s) - 1
  IN [EnsureRegister(em, base + n) EXCEPT
        !.locals = @ \o symbols,
        !.slots = [s \in ToSet(symbols) |-> slot(s)] @@ @,
        !.debug = [s \in ToSet(symbols) |-> [start |-> -1, end |-> -1]] @@ @,
        !.temp = Max({@, base + n})]

(* From here on the debug information shows the locals. *)
ActivateLocals(em, symbols) ==
  [em EXCEPT !.debug = [s \in DOMAIN @ |->
     IF s \in ToSet(symbols) /\ @[s].start < 0 THEN [@[s] EXCEPT !.start = Pc(em)] ELSE @[s]]]

CloseLocals(em, symbols) ==
  [em EXCEPT !.debug = [s \in DOMAIN @ |->
     IF s \notin symbols THEN @[s]
     ELSE [start |-> IF @[s].start < 0 THEN Pc(em) ELSE @[s].start,
           end |-> IF @[s].end < 0 THEN Pc(em) ELSE @[s].end]]]

(***************************************************************************)
(* Scopes and loops.  A loop remembers the first register to close when it *)
(* is left by break, and the jumps to patch.                               *)
(***************************************************************************)
EnterScope(em, chunk, scope, persistent) ==
  [em EXCEPT !.scopes = Append(@, [base |-> Len(em.locals),
     up |-> chunk.scopes[scope].hasUpvalues /\ ~persistent])]

LeaveScope(em) ==
  LET base == Last(em.scopes).base
      gone == {em.locals[i] : i \in (base + 1)..Len(em.locals)}
      closed == CloseLocals(em, gone)
  IN ReleaseTemps([closed EXCEPT !.scopes = Front(@), !.locals = SubSeq(@, 1, base),
                     !.slots = [s \in DOMAIN @ \ gone |-> @[s]]], 0)

(* Slip: the first local of the scope stays open. *)
EmitScopeCloseAbove(em) ==
  IF Last(em.scopes).up THEN Put(em, "CLOSE", em.params + Last(em.scopes).base + 1, 0, 0) ELSE em

EmitScopeClose(em) ==
  IF Last(em.scopes).up THEN Put(em, "CLOSE", em.params + Last(em.scopes).base, 0, 0) ELSE em

PushLoop(em, depth) ==
  [em EXCEPT !.loops = Append(@, [depth |-> depth, breaks |-> {},
     close |-> em.params + em.scopes[depth].base])]

(* The loop ends: its breaks land at target. *)
PopLoop(em, breaks, target) == PatchAll([em EXCEPT !.loops = Front(@)], breaks, target)

Breaks(em) == Last(em.loops).breaks

(* Slip: the scope of the loop's body itself is forgotten. *)
BreakNeedsCloseInner(em) ==
  \E i \in (Last(em.loops).depth + 1)..Len(em.scopes) : em.scopes[i].up

BreakNeedsClose(em) ==
  \E i \in Last(em.loops).depth..Len(em.scopes) : em.scopes[i].up

EmitBreak(em) ==
  LET closed == IF BreakNeedsClose(em) THEN Put(em, "CLOSE", Last(em.loops).close, 0, 0) ELSE em
  IN [PutJump(closed) EXCEPT !.loops[Len(em.loops)].breaks = @ \cup {Pc(closed)}]

(***************************************************************************)
(* What can be said of an expression without emitting it.                  *)
(***************************************************************************)
IsConstant(e) == e.k \in {"nil", "true", "false", "num", "str"}

ConstantFor(e) ==
  CASE e.k = "nil" -> <<"nil">>
    [] e.k = "true" -> <<"bool", TRUE>>
    [] e.k = "false" -> <<"bool", FALSE>>
    [] OTHER -> <<e.k, e.v>>

(* A parameter or local is read where it lies. *)
IsRegister(e) == e.k = "name" /\ e.ref.kind \in {"param", "local"}

SlotOf(em, e) == em.slots[e.ref.symbol]

IsMultiResult(e) == e.k \in {"call", "vararg"} /\ e.mode # "single"

RECURSIVE ConcatParts(_)
ConcatParts(e) == IF e.k = "bin" /\ e.op = ".." THEN ConcatParts(e.left) \o ConcatParts(e.right)
                  ELSE <<e>>

ArithmeticOpcode ==
  ("+" :> "ADD") @@ ("-" :> "SUB") @@ ("*" :> "MUL") @@ ("/" :> "DIV") @@ ("%" :> "MOD") @@ ("^" :> "POW")

(* Greater than is less than with its operands swapped, unequal is equal
   with its outcome negated. *)
CompareOpcode(op) == CASE op \in {"==", "~="} -> "EQ" [] op \in {"<", ">"} -> "LT" [] OTHER -> "LE"

EmitNilRange(em, start, n) == IF n <= 0 THEN em ELSE Put(em, "LOADNIL", start, start + n - 1, 0)

(* A test and the jump it takes or skips; the jump is the last instruction. *)
EmitTestJump(em, register, flag) == PutJump(Put(em, "TEST", register, 0, flag))

(* An operand that needs no instruction: a constant low enough in the
   table, or a parameter or local.  The constant is added in any case. *)
TryRK(em, e) ==
  LET added == IF IsConstant(e) THEN AddConstant(em, ConstantFor(e)) ELSE em
  IN IF IsConstant(e) /\ ConstantIndex(added, ConstantFor(e)) <= MaxIndexRK
     THEN [em |-> added, ok |-> TRUE, rk |-> RKBase + ConstantIndex(added, ConstantFor(e))]
     ELSE IF IsRegister(e)
     THEN [em |-> added, ok |-> TRUE, rk |-> SlotOf(em, e)]
     ELSE [em |-> added, ok |-> FALSE, rk |-> 0]

(* The operand that names a string; the constant may be out of reach. *)
EmitStringOperand(em, name) ==
  LET added == AddConstant(em, Name(name))
      index == ConstantIndex(added, Name(name))
  IN IF index <= MaxIndexRK THEN [em |-> added, rk |-> RKBase + index]
     ELSE [em |-> Put(ReserveTemps(added, 1), "LOADK", added.temp, index, 0), rk |-> added.temp]

RECURSIVE EmitExpr(_, _, _, _, _), EmitFunction(_, _), EmitStats(_, _, _)

EmitBlock(em, chunk, block) ==
  LeaveScope(EmitScopeClose(EmitStats(EnterScope(em, chunk, block.scope, FALSE),
                                      chunk, block.stats)))

(* An operand, in a temporary when it has to be computed. *)
EmitRK(em, chunk, e) ==
  LET t == TryRK(em, e)
  IN IF t.ok THEN [em |-> t.em, rk |-> t.rk]
     ELSE [em |-> EmitExpr(ReserveTemps(t.em, 1), chunk, e, t.em.temp, 1), rk |-> t.em.temp]

(* A receiver: where it lies, or at the register given. *)
EmitReceiver(em, chunk, e, at) ==
  IF IsRegister(e) THEN [em |-> em, reg |-> SlotOf(em, e)]
  ELSE [em |-> EmitExpr(em, chunk, e, at, 1), reg |-> at]

EmitSymbol(em, ref, dest) ==
  CASE ref.kind \in {"param", "local"} ->
         IF em.slots[ref.symbol] = dest THEN em ELSE Put(em, "MOVE", dest, em.slots[ref.symbol], 0)
    [] ref.kind = "upvalue" -> Put(em, "GETUPVAL", dest, em.ups[ref.symbol], 0)
    [] ref.kind = "global" ->
         LET added == AddConstant(em, Name(ref.name))
         IN Put(added, "GETGLOBAL", dest, ConstantIndex(added, Name(ref.name)), 0)

UnaryOpcode == ("-" :> "UNM") @@ ("not" :> "NOT") @@ ("#" :> "LEN")

EmitUnary(em, chunk, e, dest) ==
  Put(EmitExpr(em, chunk, e.value, dest, 1), UnaryOpcode[e.op], dest, dest, 0)

(* An operand that has to be computed goes to the destination, unless the
   other one lies there. *)
EmitArithmetic(em, chunk, e, dest) ==
  LET left == TryRK(em, e.left)
      right == TryRK(left.em, e.right)
      op == ArithmeticOpcode[e.op]
      leftTemp == EmitRK(right.em, chunk, e.left)
      rightTemp == EmitRK(right.em, chunk, e.right)
      leftDone == EmitExpr(right.em, chunk, e.left, dest, 1)
      rightDone == EmitExpr(right.em, chunk, e.right, dest, 1)
      rightAfter == EmitRK(leftDone, chunk, e.right)
  IN ReleaseTempsPreserving(
       CASE left.ok /\ right.ok -> Put(right.em, op, dest, left.rk, right.rk)
         [] ~left.ok /\ right.ok ->
              IF right.rk = dest THEN Put(leftTemp.em, op, dest, leftTemp.rk, right.rk)
              ELSE Put(leftDone, op, dest, dest, right.rk)
         [] left.ok /\ ~right.ok ->
              IF left.rk = dest THEN Put(rightTemp.em, op, dest, left.rk, rightTemp.rk)
              ELSE Put(rightDone, op, dest, left.rk, dest)
         [] ~left.ok /\ ~right.ok -> Put(rightAfter.em, op, dest, dest, rightAfter.rk),
       em.temp, dest, 1)

(* The parts of a chain of concatenations lie in consecutive temporaries. *)
EmitConcat(em, chunk, e, dest) ==
  LET parts == ConcatParts(e)
      start == em.temp
      done == FoldLeftDomain(LAMBDA acc, i : EmitExpr(acc, chunk, parts[i], start + i - 1, 1),
                             ReserveTemps(em, Len(parts)), parts)
  IN ReleaseTempsPreserving(Put(done, "CONCAT", dest, start, start + Len(parts) - 1),
                            em.temp, dest, 1)

(* The right operand replaces the left one unless the left one decides. *)
EmitLogical(em, chunk, e, dest) ==
  LET left == EmitExpr(em, chunk, e.left, dest, 1)
      test == EmitTestJump(left, dest, IF e.op = "or" THEN 1 ELSE 0)
      right == EmitExpr(test, chunk, e.right, dest, 1)
  IN Patch(right, Pc(test) - 1, Pc(right))

(* A comparison whose jump, the last instruction, is taken when it is false. *)
EmitCompareJump(em, chunk, e) ==
  LET swapped == e.op \in {">", ">="}
      left == EmitRK(em, chunk, IF swapped THEN e.right ELSE e.left)
      right == EmitRK(left.em, chunk, IF swapped THEN e.left ELSE e.right)
      a == IF e.op = "~=" THEN 1 ELSE 0
  IN ReleaseTemps(PutJump(Put(right.em, CompareOpcode(e.op), a, left.rk, right.rk)), em.temp)

EmitCompare(em, chunk, e, dest) ==
  LET jump == EmitCompareJump(em, chunk, e)
      yes == Put(jump, "LOADBOOL", dest, 1, 1)
  IN Patch(Put(yes, "LOADBOOL", dest, 0, 0), Pc(jump) - 1, Pc(yes))

(* The jump, the last instruction, is taken when the condition is false. *)
EmitConditionFalseJump(em, chunk, e) ==
  IF e.k = "compare" THEN EmitCompareJump(em, chunk, e)
  ELSE ReleaseTemps(EmitTestJump(EmitExpr(ReserveTemps(em, 1), chunk, e, em.temp, 1), em.temp, 0),
                    em.temp)

(***************************************************************************)
(* Table constructors: values without a key wait in the registers behind   *)
(* the table and are stored by blocks.                                     *)
(***************************************************************************)
FlushArray(acc, table, open) ==
  LET block == (acc.total - 1) \div FieldsPerFlush + 1
      n == IF open THEN 0 ELSE acc.pending
      stored == IF block <= MaxArgC THEN Put(acc.em, "SETLIST", table, n, block)
                ELSE Put(Put(acc.em, "SETLIST", table, n, 0), "EXTRA", block, 0, 0)
  IN IF acc.pending = 0 THEN acc ELSE [acc EXCEPT !.em = stored, !.pending = 0]

EmitItem(acc, chunk, value, table, last) ==
  LET reg == table + 1 + acc.pending
      open == last /\ IsMultiResult(value)
      done == EmitExpr(EnsureRegister(acc.em, reg + 1), chunk, value, reg, IF open THEN 0 ELSE 1)
      next == [em |-> done, pending |-> acc.pending + 1, total |-> acc.total + 1]
  IN IF next.pending = FieldsPerFlush \/ open THEN FlushArray(next, table, open) ELSE next

EmitPair(acc, chunk, field, table) ==
  LET flushed == FlushArray(acc, table, FALSE)
      key == IF field.kind = "named" THEN EmitStringOperand(flushed.em, field.name)
             ELSE EmitRK(flushed.em, chunk, field.key)
      value == EmitRK(key.em, chunk, field.value)
  IN [flushed EXCEPT !.em = Put(value.em, "SETTABLE", table, key.rk, value.rk)]

EmitTable(em, chunk, e, dest) ==
  LET table == em.temp
      opened == Put(ReserveTemps(em, 1), "NEWTABLE", table, 0, 0)
      fields == FoldLeftDomain(LAMBDA acc, i :
                    IF e.fields[i].kind = "item"
                    THEN EmitItem(acc, chunk, e.fields[i].value, table, i = Len(e.fields))
                    ELSE EmitPair(acc, chunk, e.fields[i], table),
                  [em |-> opened, pending |-> 0, total |-> 0], e.fields)
      done == FlushArray(fields, table, FALSE).em
  IN ReleaseTempsPreserving(IF table = dest THEN done ELSE Put(done, "MOVE", dest, table, 0),
                            em.temp, dest, 1)

(* The captures of a closure follow its instruction, a pseudo instruction
   each: a register of this function or an upvalue of it. *)
EmitCapture(em, capture) ==
  IF capture.source = "upvalue" THEN Put(em, "GETUPVAL", 0, em.ups[capture.symbol], 0)
  ELSE IF capture.symbol \in DOMAIN em.slots THEN Put(em, "MOVE", 0, em.slots[capture.symbol], 0)
  ELSE [em EXCEPT !.error = TRUE]

EmitClosure(em, chunk, f, dest) ==
  LET child == EmitFunction(chunk, f)
      added == [em EXCEPT !.protos = Append(@, child), !.error = @ \/ child.error]
  IN FoldLeft(EmitCapture, Put(added, "CLOSURE", dest, Len(em.protos), 0), f.captures)

EmitIndex(em, chunk, e, dest) ==
  LET receiver == EmitReceiver(em, chunk, e.receiver, dest)
      key == IF e.k = "field" THEN EmitStringOperand(receiver.em, e.name)
             ELSE EmitRK(receiver.em, chunk, e.index)
  IN ReleaseTempsPreserving(Put(key.em, "GETTABLE", dest, receiver.reg, key.rk),
                            receiver.em.temp, dest, 1)

(***************************************************************************)
(* A call: the callee at dest, its arguments behind it, the results from   *)
(* dest on.  A method call has its receiver as the first argument.  No     *)
(* count of results (0) leaves all of them below the top of the frame.     *)
(***************************************************************************)
EmitCall(em, chunk, e, dest, count, tail) ==
  LET method == "receiver" \in DOMAIN e
      receiver == EmitReceiver(em, chunk, e.receiver, dest + 1)
      key == EmitStringOperand(receiver.em, e.name)
      callee == IF method THEN Put(key.em, "SELF", dest, receiver.reg, key.rk)
                ELSE EmitExpr(em, chunk, e.callee, dest, 1)
      fixed == IF method THEN 2 ELSE 1
      argStart == dest + fixed
      top == argStart + Len(e.args)
      area == [EnsureRegister(callee, top) EXCEPT !.temp = Max({@, top})]
      open == e.args # <<>> /\ IsMultiResult(Last(e.args))
      args == FoldLeftDomain(LAMBDA acc, i :
                  EmitExpr(acc, chunk, e.args[i], argStart + i - 1,
                           IF open /\ i = Len(e.args) THEN 0 ELSE 1), area, e.args)
      b == IF open THEN 0 ELSE fixed + Len(e.args)
  IN IF tail THEN ReleaseTemps(Put(args, "TAILCALL", dest, b, 0), em.temp)
     ELSE ReleaseTempsPreserving(Put(args, "CALL", dest, b, IF count = 0 THEN 0 ELSE count + 1),
                                 em.temp, dest, Max({1, count}))

(* One value at dest. *)
EmitOne(em, chunk, e, dest) ==
  CASE e.k \in {"true", "false"} -> Put(em, "LOADBOOL", dest, IF e.k = "true" THEN 1 ELSE 0, 0)
    [] e.k \in {"num", "str"} ->
         LET added == AddConstant(em, ConstantFor(e))
         IN Put(added, "LOADK", dest, ConstantIndex(added, ConstantFor(e)), 0)
    [] e.k = "name" -> EmitSymbol(em, e.ref, dest)
    [] e.k = "un" -> EmitUnary(em, chunk, e, dest)
    [] e.k = "bin" -> IF e.op = ".." THEN EmitConcat(em, chunk, e, dest)
                      ELSE EmitArithmetic(em, chunk, e, dest)
    [] e.k = "logical" -> EmitLogical(em, chunk, e, dest)
    [] e.k = "compare" -> EmitCompare(em, chunk, e, dest)
    [] e.k = "table" -> EmitTable(em, chunk, e, dest)
    [] e.k = "function" -> EmitClosure(em, chunk, e, dest)
    [] e.k \in {"index", "field"} -> EmitIndex(em, chunk, e, dest)

(* count values from dest on: only calls and ... deliver more than one. *)
EmitExpr(em, chunk, e, dest, count) ==
  CASE em.error -> em
    [] e.k = "call" -> EmitCall(em, chunk, e, dest, count, FALSE)
    [] e.k = "vararg" -> Put(em, "VARARG", dest, IF count = 0 THEN 0 ELSE count + 1, 0)
    [] e.k = "nil" -> EmitNilRange(em, dest, Max({1, count}))
    [] OTHER -> EmitNilRange(EmitOne(em, chunk, e, dest), dest + 1, count - 1)

EmitDiscard(em, chunk, e) ==
  ReleaseTemps(EmitExpr(ReserveTemps(em, 1), chunk, e, em.temp, 1), em.temp)

(* As many values as wanted from dest on, whatever the number of expressions. *)
EmitAdjusted(em, chunk, exprs, dest, wanted) ==
  LET n == Len(exprs)
      open == n > 0 /\ n <= wanted /\ IsMultiResult(exprs[n])
      done == FoldLeftDomain(LAMBDA acc, i :
                  IF i > wanted THEN EmitDiscard(acc, chunk, exprs[i])
                  ELSE EmitExpr(acc, chunk, exprs[i], dest + i - 1,
                                IF open /\ i = n THEN wanted - i + 1 ELSE 1), em, exprs)
  IN IF open THEN done ELSE EmitNilRange(done, dest + n, wanted - n)

(***************************************************************************)
(* Statements.                                                             *)
(***************************************************************************)
EmitLocalDecl(em, chunk, s) ==
  LET start == ActiveBase(em)
      ready == [EnsureRegister(em, start + Len(s.names)) EXCEPT !.temp = start]
      valued == EmitAdjusted(ready, chunk, s.values, start, Len(s.names))
      declared == AllocateLocals(valued, s.names)
  IN ReleaseTemps(ActivateLocals(declared, s.names), em.temp)

(* Where a table target is to be stored: its receiver and key are computed
   before the values. *)
PrepareTarget(acc, chunk, target) ==
  LET at == acc.em.temp
      ready == IF IsRegister(target.receiver) THEN acc.em ELSE ReserveTemps(acc.em, 1)
      receiver == EmitReceiver(ready, chunk, target.receiver, at)
      key == IF target.k = "field" THEN EmitStringOperand(receiver.em, target.name)
             ELSE EmitRK(receiver.em, chunk, target.index)
  IN IF target.k = "name" THEN [acc EXCEPT !.targets = Append(@, target)]
     ELSE [em |-> key.em, targets |-> Append(acc.targets,
             [k |-> "table", receiver |-> receiver.reg, key |-> key.rk])]

StorePreparedTarget(em, target, source) ==
  CASE target.k = "table" -> Put(em, "SETTABLE", target.receiver, target.key, source)
    [] IsRegister(target) -> IF SlotOf(em, target) = source THEN em
                             ELSE Put(em, "MOVE", SlotOf(em, target), source, 0)
    [] OTHER -> IF target.ref.kind = "upvalue"
                THEN Put(em, "SETUPVAL", source, em.ups[target.ref.symbol], 0)
                ELSE LET added == AddConstant(em, Name(target.ref.name))
                     IN Put(added, "SETGLOBAL", source,
                            ConstantIndex(added, Name(target.ref.name)), 0)

(* One value for one local goes straight to it; else all values are
   computed before the first is stored, the last target first. *)
EmitAssign(em, chunk, s) ==
  LET n == Len(s.targets)
      prepared == FoldLeft(LAMBDA acc, t : PrepareTarget(acc, chunk, t),
                           [em |-> em, targets |-> <<>>], s.targets)
      start == prepared.em.temp
      valued == EmitAdjusted(ReserveTemps(prepared.em, n), chunk, s.values, start, n)
      stored == FoldLeftDomain(LAMBDA acc, i :
                    StorePreparedTarget(acc, prepared.targets[n + 1 - i], start + n - i),
                  valued, s.targets)
  IN IF n = 1 /\ Len(s.values) = 1 /\ IsRegister(s.targets[1])
     THEN EmitExpr(em, chunk, s.values[1], SlotOf(em, s.targets[1]), 1)
     ELSE ReleaseTemps(stored, em.temp)

EmitCallStat(em, chunk, s) ==
  ReleaseTemps(EmitCall(ReserveTemps(em, 1), chunk, s.call, em.temp, 0, FALSE), em.temp)

EmitIf(em, chunk, s) ==
  LET clause(acc, i) ==
        LET cond == EmitConditionFalseJump(acc.em, chunk, s.clauses[i].cond)
            body == EmitBlock(cond, chunk, s.clauses[i].body)
            more == s.otherwise # <<>> \/ i < Len(s.clauses)
            left == IF more THEN PutJump(body) ELSE body
        IN [em |-> Patch(left, Pc(cond) - 1, Pc(left)),
            exits |-> IF more THEN acc.exits \cup {Pc(body)} ELSE acc.exits]
      clauses == FoldLeftDomain(clause, [em |-> em, exits |-> {}], s.clauses)
      done == FoldLeft(LAMBDA acc, b : EmitBlock(acc, chunk, b), clauses.em, s.otherwise)
  IN PatchAll(done, clauses.exits, Pc(done))

EmitWhile(em, chunk, s) ==
  LET cond == EmitConditionFalseJump(em, chunk, s.cond)
      opened == EnterScope(cond, chunk, s.body.scope, FALSE)
      body == EmitStats(PushLoop(opened, Len(opened.scopes)), chunk, s.body.stats)
      closed == EmitScopeClose(body)
      back == Patch(PutJump(closed), Pc(closed), Pc(em))
      done == LeaveScope(PopLoop(back, Breaks(body), Pc(back)))
  IN Patch(done, Pc(cond) - 1, Pc(done))

(* The scope is closed on both ways on from the condition. *)
EmitRepeat(em, chunk, s) ==
  LET opened == EnterScope(em, chunk, s.body.scope, FALSE)
      body == EmitStats(PushLoop(opened, Len(opened.scopes)), chunk, s.body.stats)
      cond == EmitConditionFalseJump(body, chunk, s.cond)
      exit == PutJump(EmitScopeClose(cond))
      closed == EmitScopeClose(exit)
      back == Patch(PutJump(closed), Pc(closed), Pc(em))
      done == LeaveScope(PopLoop(back, Breaks(body), Pc(back)))
  IN Patch(Patch(done, Pc(cond) - 1, Pc(exit)), Pc(exit) - 1, Pc(done))

(* The body of a loop over a range or an iterator, in a scope of its own
   above the one of the hidden locals. *)
EmitLoopBody(em, chunk, body) ==
  LET looped == EmitStats(PushLoop(em, Len(em.scopes) - 1), chunk, body.stats)
      popped == [looped EXCEPT !.loops = Front(@)]
  IN [em |-> LeaveScope(EmitScopeClose(popped)), breaks |-> Breaks(looped)]

EmitNumericFor(em, chunk, s) ==
  LET opened == AllocateLocals(EnterScope(em, chunk, s.body.scope, TRUE), s.hidden)
      base == opened.slots[s.hidden[1]]
      range == FoldLeftDomain(LAMBDA acc, i : EmitExpr(acc, chunk, s.range[i], base + i - 1, 1),
                              opened, s.range)
      step == IF Len(s.range) = 3 THEN range
              ELSE LET added == AddConstant(range, <<"num", 1>>)
                   IN Put(added, "LOADK", base + 2, ConstantIndex(added, <<"num", 1>>), 0)
      prep == Put(ActivateLocals(step, s.hidden), "FORPREP", base, 0, 0)
      inner == AllocateLocals(EnterScope(prep, chunk, s.body.scope, FALSE), <<s.counter>>)
      body == EmitLoopBody(ActivateLocals(inner, <<s.counter>>), chunk, s.body)
      loop == Put(body.em, "FORLOOP", base, 0, 0)
      patched == Patch(Patch(loop, Pc(step), Pc(body.em)), Pc(body.em), Pc(prep))
  IN PatchAll(LeaveScope(patched), body.breaks, Pc(patched))

EmitGenericFor(em, chunk, s) ==
  LET opened == AllocateLocals(EnterScope(em, chunk, s.body.scope, TRUE), s.hidden)
      base == opened.slots[s.hidden[1]]
      init == EmitAdjusted(opened, chunk, s.values, base, 3)
      entered == EnterScope(ActivateLocals(init, s.hidden), chunk, s.body.scope, FALSE)
      prep == PutJump(AllocateLocals(entered, s.names))
      body == EmitLoopBody(ActivateLocals(prep, s.names), chunk, s.body)
      loop == PutJump(Put(body.em, "TFORLOOP", base, 0, Len(s.names)))
      patched == Patch(Patch(loop, Pc(prep) - 1, Pc(body.em)), Pc(loop) - 1, Pc(prep))
  IN PatchAll(LeaveScope(patched), body.breaks, Pc(patched))

(* A single local is returned where it lies, a single call is a tail call. *)
EmitReturn(em, chunk, s) ==
  LET n == Len(s.values)
      base == em.temp
      open == IsMultiResult(s.values[n])
      call == EmitCall(ReserveTemps(em, 1), chunk, s.values[1], base, 0, TRUE)
      valued == FoldLeftDomain(LAMBDA acc, i :
                    EmitExpr(acc, chunk, s.values[i], base + i - 1,
                             IF open /\ i = n THEN 0 ELSE 1), ReserveTemps(em, n), s.values)
  IN CASE n = 0 -> Put(em, "RETURN", 0, 1, 0)
       [] n = 1 /\ IsRegister(s.values[1]) -> Put(em, "RETURN", SlotOf(em, s.values[1]), 2, 0)
       [] n = 1 /\ s.values[1].k = "call" -> Put(call, "RETURN", base, 0, 0)
       [] OTHER -> Put(valued, "RETURN", base, IF open THEN 0 ELSE n + 1, 0)

EmitStat(em, chunk, s) ==
  CASE s.k = "local" -> EmitLocalDecl(em, chunk, s)
    [] s.k = "assign" -> EmitAssign(em, chunk, s)
    [] s.k = "callstat" -> EmitCallStat(em, chunk, s)
    [] s.k = "if" -> EmitIf(em, chunk, s)
    [] s.k = "while" -> EmitWhile(em, chunk, s)
    [] s.k = "repeat" -> EmitRepeat(em, chunk, s)
    [] s.k = "fornum" -> EmitNumericFor(em, chunk, s)
    [] s.k = "forin" -> EmitGenericFor(em, chunk, s)
    [] s.k = "do" -> EmitBlock(em, chunk, s.body)
    [] s.k = "break" -> EmitBreak(em)
    [] s.k = "return" -> EmitReturn(em, chunk, s)

(* The statements of a scope that is entered.  No temporary outlives its
   statement. *)
EmitStats(em, chunk, stats) ==
  IF em.error \/ stats = <<>> THEN em
  ELSE EmitStats(ReleaseTemps(EmitStat(em, chunk, Head(stats)), 0), chunk, Tail(stats))

(* The prototype of a function; its parent is told of an error. *)
EmitFunction(chunk, f) ==
  LET opened == EnterScope(NewFunction(f), chunk, f.body.scope, FALSE)
      body == LeaveScope(EmitStats(opened, chunk, f.body.stats))
      closed == CloseLocals(body, DOMAIN body.slots)
      done == Put(closed, "RETURN", 0, 1, 0)
  IN [code |-> done.code, consts |-> done.consts, protos |-> done.protos,
      params |-> done.params, vararg |-> f.vararg, ups |-> Len(f.captures),
      max |-> done.max, locvars |-> done.debug,
      error |-> done.error]

(* Where the functions of a function are: each a path of positions. *)
RECURSIVE Paths(_)
Paths(p) == {<<>>} \cup UNION {{<<i>> \o path : path \in Paths(p.protos[i])} : i \in DOMAIN p.protos}

(* Every function of the chunk by its path; of the functions within it each
   keeps how many variables they capture. *)
EmitChunk(chunk) ==
  LET main == EmitFunction(chunk, chunk.main)
      within(path) == FoldLeft(LAMBDA p, i : p.protos[i], main, path)
  IN [error |-> main.error,
      protos |-> [path \in Paths(main) |->
                    [within(path) EXCEPT !.protos = [i \in DOMAIN @ |-> [ups |-> @[i].ups]]]]]
=============================================================================
