------------------------------ MODULE Resolve ------------------------------
(***************************************************************************)
(* The binder of the source frontend: names of the syntax tree become      *)
(* symbols, upvalues or globals, and every block gets a scope.             *)
(*                                                                         *)
(* A syntax tree is made of records with a field k, the kind of the node;  *)
(* the else block of an if is a sequence of at most one block.             *)
(* The state of the binder is a record: the symbols and the scopes of the  *)
(* chunk, which the later stages read too, and the stack of the functions  *)
(* being bound.  Binding returns the state and the bound tree.             *)
(***************************************************************************)
EXTENDS Integers, Sequences, FiniteSets, TLC, SequencesExt

Top == [symbols |-> <<>>, scopes |-> <<>>, functions |-> <<>>, error |-> FALSE]

Current(st) == Last(st.functions)

PushFunction(st, vararg) ==
  [st EXCEPT !.functions = Append(@, [vararg |-> vararg, chain |-> <<>>,
     params |-> <<>>, captures |-> <<>>])]

PopFunction(st) == [st EXCEPT !.functions = Front(@)]

PushScope(st, breakable) ==
  [st EXCEPT !.scopes = Append(@, [hasUpvalues |-> FALSE]),
             !.functions[Len(st.functions)].chain =
                Append(@, [id |-> Len(st.scopes) + 1, breakable |-> breakable,
                           bindings |-> <<>>])]

PopScope(st) == [st EXCEPT !.functions[Len(st.functions)].chain = Front(@)]

(* The last scope of the chain is the innermost one. *)
Declare(st, name, kind) ==
  LET id == Len(st.symbols) + 1
      scope == Last(Current(st).chain)
      inner == [st EXCEPT
        !.symbols = Append(@, [kind |-> kind, scope |-> scope.id]),
        !.functions[Len(st.functions)].chain[Len(Current(st).chain)].bindings =
             (name :> id) @@ @]
  IN IF kind = "local" THEN inner
     ELSE [inner EXCEPT !.functions[Len(st.functions)].params = Append(@, id)]

DeclareAll(st, names, kind) == FoldLeft(LAMBDA s, n : Declare(s, n, kind), st, names)

(* The symbols the last n declarations made. *)
Declared(st, n) == [i \in 1..n |-> Len(st.symbols) - n + i]

InBreakableScope(st) ==
  \E i \in 1..Len(Current(st).chain) : Current(st).chain[i].breakable

Fail(st, broken) == [st EXCEPT !.error = @ \/ broken]

MarkCaptured(st, symbol) ==
  [st EXCEPT !.scopes[st.symbols[symbol].scope].hasUpvalues = TRUE]

(* The symbol a name stands for in function number f, or 0. *)
LookupLocal(st, f, name) ==
  LET chain == st.functions[f].chain
      having == {i \in 1..Len(chain) : name \in DOMAIN chain[i].bindings}
  IN IF having = {} THEN 0
     ELSE chain[CHOOSE i \in having : \A j \in having : j <= i].bindings[name]

AddCapture(st, f, ref) ==
  IF \E i \in 1..Len(st.functions[f].captures) :
        st.functions[f].captures[i].symbol = ref.symbol
  THEN st
  ELSE [st EXCEPT !.functions[f].captures = Append(@,
          [symbol |-> ref.symbol,
           source |-> IF ref.kind = "upvalue" THEN "upvalue" ELSE "local"])]

(* What a name means in function number f; forChild when an inner function
   asks, which makes a captured variable of a local one. *)
RECURSIVE ResolveName(_, _, _, _)
ResolveName(st, f, name, forChild) ==
  LET symbol == LookupLocal(st, f, name)
      above == ResolveName(st, f - 1, name, TRUE)
  IN IF symbol # 0
     THEN [st |-> IF forChild THEN MarkCaptured(st, symbol) ELSE st,
           ref |-> [kind |-> st.symbols[symbol].kind, symbol |-> symbol, name |-> name]]
     ELSE IF f = 1
     THEN [st |-> st, ref |-> [kind |-> "global", symbol |-> 0, name |-> name]]
     ELSE IF above.ref.kind = "global" THEN above
     ELSE [st |-> AddCapture(above.st, f, above.ref),
           ref |-> [above.ref EXCEPT !.kind = "upvalue"]]

Resolved(st, name) == ResolveName(st, Len(st.functions), name, FALSE)

RECURSIVE BindExpr(_, _), BindStat(_, _)

(* How many results an expression is asked for is noted by lowering, which
   sets the mode of every expression anew. *)
BindExprList(st, exprs) ==
  FoldLeft(LAMBDA acc, e :
      LET b == BindExpr(acc.st, e)
      IN IF acc.st.error THEN acc ELSE [st |-> b.st, e |-> Append(acc.e, b.e)],
    [st |-> st, e |-> <<>>], exprs)

(* Two operands, in the order they are written. *)
BindPair(st, left, right) == BindExprList(st, <<left, right>>)

BindStatList(st, stats) ==
  FoldLeft(LAMBDA acc, s :
      LET b == BindStat(acc.st, s)
      IN IF acc.st.error \/ s.k = "empty" THEN acc
         ELSE [st |-> b.st, e |-> Append(acc.e, b.e)],
    [st |-> st, e |-> <<>>], stats)

(* A block: its scope is the one just pushed, and names are declared in it
   before its statements are bound. *)
BindScopedBlock(st, stats, breakable, names) ==
  LET opened == DeclareAll(PushScope(st, breakable), names, "local")
      bound == BindStatList(opened, stats)
  IN [st |-> PopScope(bound.st), names |-> Declared(opened, Len(names)),
      e |-> [scope |-> Len(st.scopes) + 1, stats |-> bound.e]]

(* The condition of a repeat sees the locals of its body. *)
BindRepeatBlock(st, stats, condition) ==
  LET bound == BindStatList(PushScope(st, TRUE), stats)
      cond == BindExpr(bound.st, condition)
  IN [st |-> PopScope(cond.st), cond |-> cond.e,
      e |-> [scope |-> Len(st.scopes) + 1, stats |-> bound.e]]

BindFunctionBody(st, f, includeSelf) ==
  LET opened == DeclareAll(PushScope(PushFunction(st, f.vararg), FALSE),
                           IF includeSelf THEN <<"self">> \o f.params ELSE f.params, "param")
      bound == BindStatList(opened, f.body)
      function == Current(bound.st)
  IN [st |-> PopFunction(bound.st),
      e |-> [k |-> "function", params |-> function.params,
             captures |-> function.captures, vararg |-> f.vararg,
             body |-> [scope |-> Len(st.scopes) + 1, stats |-> bound.e]]]

BindField(acc, field) ==
  LET pair == BindPair(acc.st, field.key, field.value)
      one == BindExpr(acc.st, field.value)
  IN IF field.kind = "keyed"
     THEN [st |-> pair.st,
           e |-> Append(acc.e, [field EXCEPT !.key = pair.e[1], !.value = pair.e[2]])]
     ELSE [st |-> one.st, e |-> Append(acc.e, [field EXCEPT !.value = one.e])]

BindExpr(st, e) ==
  CASE e.k \in {"nil", "true", "false", "num", "str"} -> [st |-> st, e |-> e]
    [] e.k = "vararg" -> [st |-> Fail(st, ~Current(st).vararg),
                          e |-> e]
    [] e.k = "name" -> LET r == Resolved(st, e.name)
                       IN [st |-> r.st, e |-> [k |-> "name", ref |-> r.ref]]
    [] e.k = "un" -> LET b == BindExpr(st, e.value)
                     IN [st |-> b.st, e |-> [e EXCEPT !.value = b.e]]
    [] e.k = "bin" -> LET b == BindPair(st, e.left, e.right)
                      IN [st |-> b.st, e |-> [e EXCEPT !.left = b.e[1], !.right = b.e[2]]]
    [] e.k = "table" -> LET b == FoldLeft(BindField, [st |-> st, e |-> <<>>], e.fields)
                        IN [st |-> b.st, e |-> [e EXCEPT !.fields = b.e]]
    [] e.k = "function" -> BindFunctionBody(st, e, FALSE)
    [] e.k = "index" -> LET b == BindPair(st, e.receiver, e.index)
                        IN [st |-> b.st, e |-> [e EXCEPT !.receiver = b.e[1], !.index = b.e[2]]]
    [] e.k = "field" -> LET b == BindExpr(st, e.receiver)
                        IN [st |-> b.st, e |-> [e EXCEPT !.receiver = b.e]]
    [] e.k = "call" -> LET callee == BindExpr(st, e.callee)
                           args == BindExprList(callee.st, e.args)
                       IN [st |-> args.st, e |-> [k |-> "call",
                                                  callee |-> callee.e, args |-> args.e]]
    [] e.k = "methodcall" -> LET receiver == BindExpr(st, e.receiver)
                                 args == BindExprList(receiver.st, e.args)
                             IN [st |-> args.st,
                                 e |-> [k |-> "methodcall", name |-> e.name,
                                        receiver |-> receiver.e, args |-> args.e]]
    [] e.k = "paren" -> BindExpr(st, e.inner)

(* Targets are bound like expressions: a name, an index or a field. *)
BindTargets(st, targets) == BindExprList(st, targets)

(* The target of function a.b.c() and of function a.b.c:m(). *)
FunctionTarget(path) ==
  FoldLeft(LAMBDA e, n : [k |-> "field", receiver |-> e, name |-> n],
           [k |-> "name", name |-> Head(path)], Tail(path))

BindNamedFunction(st, path, f, includeSelf) ==
  LET target == BindExpr(st, FunctionTarget(path))
      function == BindFunctionBody(target.st, f, includeSelf)
  IN [st |-> function.st,
      e |-> [k |-> "assign", targets |-> <<target.e>>, values |-> <<function.e>>]]

BindClause(acc, clause) ==
  LET cond == BindExpr(acc.st, clause.cond)
      body == BindScopedBlock(cond.st, clause.body, FALSE, <<>>)
  IN [st |-> body.st, e |-> Append(acc.e, [cond |-> cond.e, body |-> body.e])]

BindLoop(st, s) ==
  CASE s.k = "while" ->
         LET cond == BindExpr(st, s.cond)
             body == BindScopedBlock(cond.st, s.body, TRUE, <<>>)
         IN [st |-> body.st, e |-> [k |-> "while", cond |-> cond.e, body |-> body.e]]
    [] s.k = "repeat" ->
         LET body == BindRepeatBlock(st, s.body, s.cond)
         IN [st |-> body.st, e |-> [k |-> "repeat", cond |-> body.cond, body |-> body.e]]
    [] s.k = "fornum" ->
         LET range == BindExprList(st, s.range)
             body == BindScopedBlock(range.st, s.body, TRUE, <<s.name>>)
         IN [st |-> body.st, e |-> [k |-> "fornum", counter |-> body.names[1],
                                    range |-> range.e, body |-> body.e]]
    [] s.k = "forin" ->
         LET iterators == BindExprList(st, s.values)
             body == BindScopedBlock(iterators.st, s.body, TRUE, s.names)
         IN [st |-> body.st, e |-> [k |-> "forin", names |-> body.names,
                                    values |-> iterators.e, body |-> body.e]]

BindStat(st, s) ==
  CASE s.k = "empty" -> [st |-> st, e |-> s]
    [] s.k = "local" ->
         LET values == BindExprList(st, s.values)
             after == DeclareAll(values.st, s.names, "local")
         IN [st |-> after, e |-> [k |-> "local", names |-> Declared(after, Len(s.names)),
                                  values |-> values.e]]
    [] s.k = "localfunction" ->
         LET named == Declare(st, s.name, "local")
             function == BindFunctionBody(named, s.function, FALSE)
         IN [st |-> function.st,
             e |-> [k |-> "local", names |-> Declared(named, 1), values |-> <<function.e>>]]
    [] s.k = "assign" ->
         LET targets == BindTargets(st, s.targets)
             values == BindExprList(targets.st, s.values)
         IN [st |-> values.st, e |-> [k |-> "assign", targets |-> targets.e, values |-> values.e]]
    [] s.k = "function" -> BindNamedFunction(st, s.path, s.function, FALSE)
    [] s.k = "method" -> BindNamedFunction(st, Append(s.path, s.name), s.function, TRUE)
    [] s.k = "callstat" ->
         LET call == BindExpr(st, s.call)
         IN [st |-> call.st, e |-> [k |-> "callstat", call |-> call.e]]
    [] s.k = "if" ->
         LET clauses == FoldLeft(BindClause, [st |-> st, e |-> <<>>], s.clauses)
             otherwise == FoldLeft(LAMBDA acc, body :
                 LET b == BindScopedBlock(acc.st, body, FALSE, <<>>)
                 IN [st |-> b.st, e |-> <<b.e>>], [st |-> clauses.st, e |-> <<>>], s.otherwise)
         IN [st |-> otherwise.st,
             e |-> [k |-> "if", clauses |-> clauses.e, otherwise |-> otherwise.e]]
    [] s.k \in {"while", "repeat", "fornum", "forin"} -> BindLoop(st, s)
    [] s.k = "do" ->
         LET body == BindScopedBlock(st, s.body, FALSE, <<>>)
         IN [st |-> body.st, e |-> [k |-> "do", body |-> body.e]]
    [] s.k = "break" -> [st |-> Fail(st, ~InBreakableScope(st)), e |-> s]
    [] s.k = "return" ->
         LET values == BindExprList(st, s.values)
         IN [st |-> values.st, e |-> [k |-> "return", values |-> values.e]]

(* The bound chunk: the main function, a vararg function without captures,
   and the tables of symbols and scopes. *)
BindChunk(stats) ==
  LET bound == BindFunctionBody(Top, [params |-> <<>>, vararg |-> TRUE, body |-> stats], FALSE)
  IN [symbols |-> bound.st.symbols, scopes |-> bound.st.scopes,
      error |-> bound.st.error, main |-> bound.e]
=============================================================================
