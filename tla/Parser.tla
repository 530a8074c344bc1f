------------------------------- MODULE Parser -------------------------------
(***************************************************************************)
(* The parser of the source frontend: recursive descent over the tokens of *)
(* a text, with a table of priorities for the operators.                   *)
(*                                                                         *)
(* A token has a kind, a value when it is a name, a number or a string,    *)
(* and the line it is on; the last token of a text is the end of file.     *)
(* The state of the parser is its place in the text, whether a function of *)
(* varying arguments is being read and how many loops are open, and two    *)
(* marks: an error is on its way to the block around it (raised), and some *)
(* error was found (diagnosed).  A block takes an error, looks for the     *)
(* next statement and goes on; nothing is read while an error is raised.   *)
(***************************************************************************)
EXTENDS Integers, Sequences

Beginning(text) ==
  [text |-> text, at |-> 1, vararg |-> TRUE, loops |-> 0, raised |-> FALSE, diagnosed |-> FALSE]

Got(st, e) == [st |-> st, e |-> e]

Token(st) == st.text[st.at]
Kind(st) == Token(st).kind
Sees(st, kinds) == ~st.raised /\ Kind(st) \in kinds

Advance(st) == [st EXCEPT !.at = IF @ < Len(st.text) THEN @ + 1 ELSE @]

Raise(st) == [st EXCEPT !.raised = TRUE]

Expect(st, kind) ==
  IF st.raised THEN st ELSE IF Kind(st) # kind THEN Raise(st) ELSE Advance(st)

(* Skip a token that may be there. *)
Optional(st, kind) == IF Sees(st, {kind}) THEN Advance(st) ELSE st

BlockFollow == {"else", "elseif", "end", "until", "eof"}
StatementStart ==
  {";", "if", "while", "do", "for", "repeat", "function", "local", "return", "break", "name", "("}
FuncArgStart == {"(", "{", "string"}
UnaryOperators == {"not", "-", "#"}

(* How strongly an operator holds the operand on its left and on its right. *)
BinaryPriority(op) ==
  CASE op \in {"+", "-"} -> <<6, 6>>
    [] op \in {"*", "/", "%"} -> <<7, 7>>
    [] op = "^" -> <<10, 9>>
    [] op = ".." -> <<5, 4>>
    [] op \in {"~=", "==", "<", "<=", ">", ">="} -> <<3, 3>>
    [] op = "and" -> <<2, 2>>
    [] op = "or" -> <<1, 1>>
    [] OTHER -> <<0, 0>>

UnaryPriority == 8

ParseName(st) ==
  IF Sees(st, {"name"}) THEN Got(Advance(st), Token(st).value) ELSE Got(Raise(st), "")

RECURSIVE MoreNames(_, _, _)
MoreNames(st, separator, names) ==
  LET name == ParseName(Advance(st))
  IN IF Sees(st, {separator}) THEN MoreNames(name.st, separator, Append(names, name.e))
     ELSE Got(st, names)

ParseNames(st, separator) ==
  LET first == ParseName(st) IN MoreNames(first.st, separator, <<first.e>>)

RECURSIVE ParseSubexpression(_, _), ParseStats(_, _)

ParseExpression(st) == ParseSubexpression(st, 0)

RECURSIVE MoreExpressions(_, _)
MoreExpressions(st, exprs) ==
  LET e == ParseExpression(Advance(st))
  IN IF Sees(st, {","}) THEN MoreExpressions(e.st, Append(exprs, e.e)) ELSE Got(st, exprs)

ParseExpressionList(st) ==
  LET first == ParseExpression(st) IN MoreExpressions(first.st, <<first.e>>)

(***************************************************************************)
(* Functions.  A body is read with the loops around it out of sight.       *)
(***************************************************************************)
RECURSIVE ParseParams(_, _)
ParseParams(st, params) ==
  LET name == ParseName(st)
      dots == Advance(st)
  IN CASE Sees(st, {"..."}) -> [st |-> IF Sees(dots, {","}) THEN Raise(dots) ELSE dots,
                                e |-> params, vararg |-> TRUE]
       [] Sees(name.st, {","}) -> ParseParams(Advance(name.st), Append(params, name.e))
       [] OTHER -> [st |-> name.st, e |-> Append(params, name.e), vararg |-> FALSE]

ParseFunctionBody(st) ==
  LET opened == Expect(st, "(")
      params == IF Sees(opened, {")"}) THEN [st |-> opened, e |-> <<>>, vararg |-> FALSE]
                ELSE ParseParams(opened, <<>>)
      head == Expect(params.st, ")")
      body == ParseStats([head EXCEPT !.vararg = params.vararg, !.loops = 0], <<>>)
      after == [body.st EXCEPT !.vararg = st.vararg, !.loops = st.loops]
  IN Got(Expect(after, "end"),
         [k |-> "function", params |-> params.e, vararg |-> params.vararg, body |-> body.e])

(***************************************************************************)
(* Tables and calls.                                                       *)
(***************************************************************************)
(* Only the token after a name tells a named field from an item. *)
ParseTableField(st) ==
  LET key == ParseExpression(Advance(st))
      keyed == ParseExpression(Expect(Expect(key.st, "]"), "="))
      named == ParseExpression(Advance(Advance(st)))
      item == ParseExpression(st)
  IN CASE Kind(st) = "[" -> Got(keyed.st, [kind |-> "keyed", key |-> key.e, value |-> keyed.e])
       [] Kind(st) = "name" /\ Kind(Advance(st)) = "=" ->
            Got(named.st, [kind |-> "named", name |-> Token(st).value, value |-> named.e])
       [] OTHER -> Got(item.st, [kind |-> "item", value |-> item.e])

RECURSIVE ParseFields(_, _)
ParseFields(st, fields) ==
  LET field == ParseTableField(st)
      longer == Append(fields, field.e)
  IN IF st.raised \/ Kind(st) \in {"}", "eof"} THEN Got(st, fields)
     ELSE IF Sees(field.st, {",", ";"}) THEN ParseFields(Advance(field.st), longer)
     ELSE IF Sees(field.st, {"}"}) THEN Got(field.st, longer)
     ELSE Got(Raise(field.st), longer)

ParseTableConstructor(st) ==
  LET fields == ParseFields(Expect(st, "{"), <<>>)
  IN Got(Expect(fields.st, "}"), [k |-> "table", fields |-> fields.e])

(* Arguments in parentheses begin on the line the function ends on. *)
ParseFuncArgs(st) ==
  LET table == ParseTableConstructor(st)
      list == ParseExpressionList(Advance(st))
  IN CASE ~Sees(st, FuncArgStart) -> Got(Raise(st), <<>>)
       [] Kind(st) = "string" -> Got(Advance(st), <<[k |-> "str", v |-> Token(st).value]>>)
       [] Kind(st) = "{" -> Got(table.st, <<table.e>>)
       [] Token(st).line # st.text[st.at - 1].line -> Got(Raise(st), <<>>)
       [] Kind(Advance(st)) = ")" -> Got(Advance(Advance(st)), <<>>)
       [] OTHER -> Got(Expect(list.st, ")"), list.e)

(***************************************************************************)
(* Expressions.                                                            *)
(***************************************************************************)
RECURSIVE ParseSuffixes(_, _)
ParseSuffixes(st, e) ==
  LET name == ParseName(Advance(st))
      index == ParseExpression(Advance(st))
      sent == ParseFuncArgs(name.st)
      args == ParseFuncArgs(st)
  IN CASE Sees(st, {"."}) ->
            ParseSuffixes(name.st, [k |-> "field", receiver |-> e, name |-> name.e])
       [] Sees(st, {"["}) ->
            ParseSuffixes(Expect(index.st, "]"), [k |-> "index", receiver |-> e, index |-> index.e])
       [] Sees(st, {":"}) ->
            ParseSuffixes(sent.st, [k |-> "methodcall", receiver |-> e, name |-> name.e,
                                    args |-> sent.e])
       [] Sees(st, FuncArgStart) ->
            ParseSuffixes(args.st, [k |-> "call", callee |-> e, args |-> args.e])
       [] OTHER -> Got(st, e)

ParsePrefixExpr(st) ==
  LET inner == ParseExpression(Advance(st))
  IN CASE Sees(st, {"name"}) ->
            ParseSuffixes(Advance(st), [k |-> "name", name |-> Token(st).value])
       [] Sees(st, {"("}) ->
            ParseSuffixes(Expect(inner.st, ")"), [k |-> "paren", inner |-> inner.e])
       [] OTHER -> Got(Raise(st), <<>>)

ParseSimpleExpr(st) ==
  CASE Sees(st, {"nil", "true", "false"}) -> Got(Advance(st), [k |-> Kind(st)])
    [] Sees(st, {"number"}) -> Got(Advance(st), [k |-> "num", v |-> Token(st).value])
    [] Sees(st, {"string"}) -> Got(Advance(st), [k |-> "str", v |-> Token(st).value])
    [] Sees(st, {"..."}) -> Got(IF st.vararg THEN Advance(st) ELSE Raise(Advance(st)),
                                [k |-> "vararg"])
    [] Sees(st, {"{"}) -> ParseTableConstructor(st)
    [] Sees(st, {"function"}) -> ParseFunctionBody(Advance(st))
    [] OTHER -> ParsePrefixExpr(st)

RECURSIVE ParseOperators(_, _, _)
ParseOperators(st, left, limit) ==
  LET right == ParseSubexpression(Advance(st), BinaryPriority(Kind(st))[2])
  IN IF st.raised \/ BinaryPriority(Kind(st))[1] <= limit THEN Got(st, left)
     ELSE ParseOperators(right.st, [k |-> "bin", op |-> Kind(st), left |-> left, right |-> right.e],
                         limit)

ParseSubexpression(st, limit) ==
  LET value == ParseSubexpression(Advance(st), UnaryPriority)
      simple == ParseSimpleExpr(st)
  IN IF Sees(st, UnaryOperators)
     THEN ParseOperators(value.st, [k |-> "un", op |-> Kind(st), value |-> value.e], limit)
     ELSE ParseOperators(simple.st, simple.e, limit)

(***************************************************************************)
(* Statements.  The place is that of the first token of the statement.     *)
(***************************************************************************)
ParseBlock(st) == ParseStats(st, <<>>)

ParseLoopBlock(st) ==
  LET body == ParseBlock([st EXCEPT !.loops = @ + 1])
  IN Got([body.st EXCEPT !.loops = st.loops], body.e)

(* The clauses of an if, from the token before a condition on. *)
RECURSIVE ParseClauses(_, _)
ParseClauses(st, clauses) ==
  LET cond == ParseExpression(Advance(st))
      body == ParseBlock(Expect(cond.st, "then"))
      longer == Append(clauses, [cond |-> cond.e, body |-> body.e])
  IN IF Sees(body.st, {"elseif"}) THEN ParseClauses(body.st, longer) ELSE Got(body.st, longer)

ParseIfStat(st) ==
  LET clauses == ParseClauses(st, <<>>)
      other == ParseBlock(Advance(clauses.st))
      hasElse == Sees(clauses.st, {"else"})
  IN Got(Expect(IF hasElse THEN other.st ELSE clauses.st, "end"),
         [k |-> "if", clauses |-> clauses.e, otherwise |-> IF hasElse THEN <<other.e>> ELSE <<>>])

ParseWhileStat(st) ==
  LET cond == ParseExpression(Advance(st))
      body == ParseLoopBlock(Expect(cond.st, "do"))
  IN Got(Expect(body.st, "end"), [k |-> "while", cond |-> cond.e, body |-> body.e])

ParseDoStat(st) ==
  LET body == ParseBlock(Advance(st))
  IN Got(Expect(body.st, "end"), [k |-> "do", body |-> body.e])

ParseRepeatStat(st) ==
  LET body == ParseLoopBlock(Advance(st))
      cond == ParseExpression(Expect(body.st, "until"))
  IN Got(cond.st, [k |-> "repeat", body |-> body.e, cond |-> cond.e])

(* One name and an equals sign make it a numeric loop, of two or three
   expressions. *)
ParseForStat(st) ==
  LET names == ParseNames(Advance(st), ",")
      numeric == Kind(Advance(Advance(st))) = "="
      initial == ParseExpression(Advance(Advance(Advance(st))))
      limit == ParseExpression(Expect(initial.st, ","))
      step == ParseExpression(Advance(limit.st))
      range == IF Sees(limit.st, {","}) THEN Got(step.st, <<initial.e, limit.e, step.e>>)
               ELSE Got(limit.st, <<initial.e, limit.e>>)
      values == ParseExpressionList(Expect(names.st, "in"))
      body == ParseLoopBlock(Expect(IF numeric THEN range.st ELSE values.st, "do"))
  IN IF ~Sees(Advance(st), {"name"}) THEN Got(Raise(Advance(st)), <<>>)
     ELSE Got(Expect(body.st, "end"),
              IF numeric THEN [k |-> "fornum", name |-> names.e[1], range |-> range.e,
                               body |-> body.e]
              ELSE [k |-> "forin", names |-> names.e, values |-> values.e, body |-> body.e])

ParseFunctionStat(st) ==
  LET path == ParseNames(Advance(st), ".")
      isMethod == Sees(path.st, {":"})
      method == ParseName(Advance(path.st))
      body == ParseFunctionBody(IF isMethod THEN method.st ELSE path.st)
  IN Got(body.st, IF isMethod
                  THEN [k |-> "method", path |-> path.e, name |-> method.e, function |-> body.e]
                  ELSE [k |-> "function", path |-> path.e, function |-> body.e])

ParseLocalStat(st) ==
  LET name == ParseName(Advance(Advance(st)))
      body == ParseFunctionBody(name.st)
      names == ParseNames(Advance(st), ",")
      values == ParseExpressionList(Advance(names.st))
  IN IF Kind(Advance(st)) = "function"
     THEN Got(body.st, [k |-> "localfunction", name |-> name.e, function |-> body.e])
     ELSE IF Sees(names.st, {"="})
     THEN Got(values.st, [k |-> "local", names |-> names.e, values |-> values.e])
     ELSE Got(names.st, [k |-> "local", names |-> names.e, values |-> <<>>])

ParseReturnStat(st) ==
  LET values == ParseExpressionList(Advance(st))
  IN IF Kind(Advance(st)) \in BlockFollow \cup {";"}
     THEN Got(Advance(st), [k |-> "return", values |-> <<>>])
     ELSE Got(values.st, [k |-> "return", values |-> values.e])

Assignable(e) == e.k \in {"name", "index", "field"}

(* The targets of an assignment, the first of them read. *)
RECURSIVE MoreTargets(_, _)
MoreTargets(st, targets) ==
  LET next == ParsePrefixExpr(Advance(st))
  IN CASE st.raised -> Got(st, targets)
       [] ~Assignable(targets[Len(targets)]) -> Got(Raise(st), targets)
       [] Sees(st, {","}) ->
            IF next.st.raised THEN next ELSE MoreTargets(next.st, Append(targets, next.e))
       [] OTHER -> Got(st, targets)

ParseAssignmentOrCallStat(st) ==
  LET first == ParsePrefixExpr(st)
      targets == MoreTargets(first.st, <<first.e>>)
      values == ParseExpressionList(Expect(targets.st, "="))
  IN IF Sees(first.st, {"=", ","})
     THEN Got(values.st, [k |-> "assign", targets |-> targets.e, values |-> values.e])
     ELSE IF first.st.raised \/ first.e.k \notin {"call", "methodcall"}
     THEN Got(Raise(first.st), <<>>)
     ELSE Got(first.st, [k |-> "callstat", call |-> first.e])

ParseStatement(st) ==
  CASE Kind(st) = ";" -> Got(Advance(st), [k |-> "empty"])
    [] Kind(st) = "if" -> ParseIfStat(st)
    [] Kind(st) = "while" -> ParseWhileStat(st)
    [] Kind(st) = "do" -> ParseDoStat(st)
    [] Kind(st) = "for" -> ParseForStat(st)
    [] Kind(st) = "repeat" -> ParseRepeatStat(st)
    [] Kind(st) = "function" -> ParseFunctionStat(st)
    [] Kind(st) = "local" -> ParseLocalStat(st)
    [] Kind(st) = "return" -> ParseReturnStat(st)
    [] Kind(st) = "break" -> Got(IF st.loops = 0 THEN Raise(Advance(st)) ELSE Advance(st),
                                 [k |-> "break"])
    [] OTHER -> ParseAssignmentOrCallStat(st)

(* To where a statement may begin or a block may end, or past a semicolon. *)
RECURSIVE Seek(_)
Seek(st) == IF Kind(st) \in BlockFollow \cup StatementStart THEN st ELSE Seek(Advance(st))

SynchronizeStatement(st) == IF Kind(st) = ";" THEN Advance(st) ELSE Seek(st)

(* An error leaves the functions and loops it was found in. *)
Recovered(st, outer) ==
  SynchronizeStatement([st EXCEPT !.raised = FALSE, !.diagnosed = TRUE,
                                  !.vararg = outer.vararg, !.loops = outer.loops])

ParseStats(st, stats) ==
  LET stat == ParseStatement(st)
  IN IF st.raised \/ Kind(st) \in BlockFollow THEN Got(st, stats)
     ELSE IF stat.st.raised THEN ParseStats(Recovered(stat.st, st), stats)
     ELSE IF stat.e.k \in {"return", "break"} THEN Got(Optional(stat.st, ";"), Append(stats, stat.e))
     ELSE ParseStats(stat.st, Append(stats, stat.e))

(* A text is refused for any error found in it, and for tokens behind the
   end of its block. *)
ParseChunk(text) ==
  LET block == ParseBlock(Beginning(text))
  IN [error |-> block.st.diagnosed \/ Kind(block.st) # "eof", stats |-> block.e]
=============================================================================
