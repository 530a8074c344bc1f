------------------------------- MODULE Lower -------------------------------
(***************************************************************************)
(* Lowering: the sugar of a bound tree becomes the forms the emitter       *)
(* knows.  And and or become logical expressions, comparisons expressions  *)
(* of their own, a method call a call with a receiver; every call and      *)
(* every ... learns whether one, all or a tail call's results are wanted;  *)
(* loops get the hidden locals that hold their state.                      *)
(***************************************************************************)
EXTENDS Resolve

(* A hidden local of the loop whose body has this scope.  The code appends
   a fresh symbol to the chunk; here its name is a number no declared symbol
   has. *)
Hidden(scope, role) == 0 - (3 * scope + role)

Logical == {"and", "or"}
Comparisons == {"==", "~=", "<", "<=", ">", ">="}

RECURSIVE LowerExpr(_, _), LowerBlock(_)

(* Only the last expression of a list can deliver more than one result. *)
LowerExprList(exprs, tailMode) ==
  [i \in DOMAIN exprs |-> LowerExpr(exprs[i], IF i = Len(exprs) THEN tailMode ELSE "single")]

LowerField(fields, i) ==
  LET field == fields[i]
      last == field.kind = "item" /\ i = Len(fields)
      value == LowerExpr(field.value, IF last THEN "multi" ELSE "single")
  IN IF field.kind = "keyed"
     THEN [field EXCEPT !.key = LowerExpr(field.key, "single"), !.value = value]
     ELSE [field EXCEPT !.value = value]

LowerCall(e, mode) ==
  LET args == LowerExprList(e.args, "multi")
  IN IF e.k = "call"
     THEN [k |-> "call", mode |-> mode, callee |-> LowerExpr(e.callee, "single"), args |-> args]
     ELSE [k |-> "call", mode |-> mode, receiver |-> LowerExpr(e.receiver, "single"),
           name |-> e.name, args |-> args]

LowerExpr(e, mode) ==
  CASE e.k \in {"nil", "true", "false", "num", "str", "name"} -> e
    [] e.k = "vararg" -> [k |-> "vararg", mode |-> mode]
    [] e.k = "un" -> [e EXCEPT !.value = LowerExpr(e.value, "single")]
    [] e.k = "bin" ->
         [k |-> CASE e.op \in Logical -> "logical"
                  [] e.op \in Comparisons -> "compare"
                  [] OTHER -> "bin",
          op |-> e.op, left |-> LowerExpr(e.left, "single"),
          right |-> LowerExpr(e.right, "single")]
    [] e.k = "table" -> [e EXCEPT !.fields = [i \in DOMAIN e.fields |-> LowerField(e.fields, i)]]
    [] e.k = "function" -> [e EXCEPT !.body = LowerBlock(e.body)]
    [] e.k = "index" -> [e EXCEPT !.receiver = LowerExpr(e.receiver, "single"),
                                  !.index = LowerExpr(e.index, "single")]
    [] e.k = "field" -> [e EXCEPT !.receiver = LowerExpr(e.receiver, "single")]
    [] e.k \in {"call", "methodcall"} -> LowerCall(e, mode)

LowerTargets(targets) == LowerExprList(targets, "single")

LowerClause(clause) ==
  [cond |-> LowerExpr(clause.cond, "single"), body |-> LowerBlock(clause.body)]

LowerStat(s) ==
  CASE s.k = "local" -> [s EXCEPT !.values = LowerExprList(s.values, "multi")]
    [] s.k = "assign" -> [s EXCEPT !.targets = LowerTargets(s.targets),
                                   !.values = LowerExprList(s.values, "multi")]
    [] s.k = "callstat" -> [s EXCEPT !.call = LowerExpr(s.call, "single")]
    [] s.k = "if" ->
         [s EXCEPT !.clauses = [i \in DOMAIN s.clauses |-> LowerClause(s.clauses[i])],
                   !.otherwise = [i \in DOMAIN s.otherwise |-> LowerBlock(s.otherwise[i])]]
    [] s.k \in {"while", "repeat"} -> [s EXCEPT !.cond = LowerExpr(s.cond, "single"),
                                                !.body = LowerBlock(s.body)]
    [] s.k = "fornum" ->
         [k |-> "fornum", counter |-> s.counter, range |-> LowerExprList(s.range, "single"),
          body |-> LowerBlock(s.body),
          hidden |-> [role \in 1..3 |-> Hidden(s.body.scope, role - 1)]]
    [] s.k = "forin" ->
         [k |-> "forin", names |-> s.names, values |-> LowerExprList(s.values, "multi"),
          body |-> LowerBlock(s.body),
          hidden |-> [role \in 1..3 |-> Hidden(s.body.scope, role - 1)]]
    [] s.k = "do" -> [s EXCEPT !.body = LowerBlock(s.body)]
    [] s.k = "break" -> s
    [] s.k = "return" -> [s EXCEPT !.values = LowerExprList(s.values, "tail")]

LowerBlock(block) ==
  [block EXCEPT !.stats = [i \in DOMAIN block.stats |-> LowerStat(block.stats[i])]]

LowerChunk(chunk) == [chunk EXCEPT !.main.body = LowerBlock(chunk.main.body)]
=============================================================================
