-------------------------------- MODULE Text --------------------------------
(***************************************************************************)
(* The text a program is written as, by the grammar of the Lua manual: the *)
(* tokens of a syntax tree, a line to each statement, with parentheses     *)
(* where the levels of the operators ask for them.  It knows nothing of    *)
(* the parser.                                                             *)
(***************************************************************************)
EXTENDS Integers, Sequences, SequencesExt

(* A piece of text: its tokens, and how many lines it goes down. *)
LOCAL Piece(tokens, down) == [tokens |-> tokens, down |-> down]
LOCAL With(kind, value) == Piece(<<[kind |-> kind, value |-> value, line |-> 1]>>, 0)
LOCAL T(kind) == With(kind, "")
LOCAL NameT(name) == With("name", name)
LOCAL Nothing == Piece(<<>>, 0)
LOCAL NewLine == Piece(<<>>, 1)

(* The second piece goes on where the first one ends. *)
LOCAL p ++ q ==
  Piece(p.tokens \o (IF p.down = 0 THEN q.tokens
                     ELSE [i \in DOMAIN q.tokens |-> [q.tokens[i] EXCEPT !.line = @ + p.down]]),
        p.down + q.down)

(* Pieces with a separator between them. *)
LOCAL Joined(texts, separator) ==
  FoldLeftDomain(LAMBDA acc, i : acc ++ (IF i = 1 THEN Nothing ELSE separator) ++ texts[i],
                 Nothing, texts)

(* From the weakest operators to names and calls. *)
LOCAL Level(e) ==
  CASE e.k = "bin" ->
         (CASE e.op = "or" -> 1 [] e.op = "and" -> 2
            [] e.op \in {"<", ">", "<=", ">=", "~=", "=="} -> 3
            [] e.op = ".." -> 4 [] e.op \in {"+", "-"} -> 5
            [] e.op \in {"*", "/", "%"} -> 6 [] e.op = "^" -> 8)
    [] e.k = "un" \/ (e.k = "num" /\ e.v < 0) -> 7
    [] e.k \in {"name", "index", "field", "call", "methodcall", "paren"} -> 10
    [] OTHER -> 9

RECURSIVE Expr(_), Stats(_)

LOCAL At(e, level) == IF Level(e) >= level THEN Expr(e) ELSE T("(") ++ Expr(e) ++ T(")")
LOCAL Exprs(es) == Joined([i \in DOMAIN es |-> Expr(es[i])], T(","))
LOCAL Names(ns, separator) ==
  IF ns = <<>> THEN Nothing
  ELSE Piece([i \in 1..(2 * Len(ns) - 1) |->
                (IF i % 2 = 1 THEN NameT(ns[(i + 1) \div 2]) ELSE T(separator)).tokens[1]], 0)

LOCAL Body(f) ==
  T("(") ++ Names(f.params, ",") ++
  (IF ~f.vararg THEN Nothing ELSE IF f.params = <<>> THEN T("...") ELSE T(",") ++ T("...")) ++
  T(")") ++ Stats(f.body) ++ T("end")

LOCAL Field(f) ==
  CASE f.kind = "item" -> Expr(f.value) ++ T(",")
    [] f.kind = "named" -> NameT(f.name) ++ T("=") ++ Expr(f.value) ++ T(";")
    [] f.kind = "keyed" -> T("[") ++ Expr(f.key) ++ T("]") ++ T("=") ++ Expr(f.value) ++ T(",")

(* One string or table needs no parentheses. *)
LOCAL Args(args) ==
  IF Len(args) = 1 /\ args[1].k \in {"str", "table"} THEN Expr(args[1])
  ELSE T("(") ++ Exprs(args) ++ T(")")

Expr(e) ==
  CASE e.k \in {"nil", "true", "false"} -> T(e.k)
    [] e.k = "vararg" -> T("...")
    [] e.k = "num" -> IF e.v < 0 THEN T("-") ++ With("number", 0 - e.v) ELSE With("number", e.v)
    [] e.k = "str" -> With("string", e.v)
    [] e.k = "name" -> NameT(e.name)
    [] e.k = "un" -> T(e.op) ++ At(e.value, 7)
    [] e.k = "bin" ->
         LET level == Level(e)
         IN CASE e.op = ".." -> At(e.left, 5) ++ T("..") ++ At(e.right, 4)
              [] e.op = "^" -> At(e.left, 9) ++ T("^") ++ At(e.right, 7)
              [] OTHER -> At(e.left, level) ++ T(e.op) ++ At(e.right, level + 1)
    [] e.k = "table" -> T("{") ++ Joined([i \in DOMAIN e.fields |-> Field(e.fields[i])], Nothing) ++ T("}")
    [] e.k = "function" -> T("function") ++ Body(e)
    [] e.k = "index" -> At(e.receiver, 10) ++ T("[") ++ Expr(e.index) ++ T("]")
    [] e.k = "field" -> At(e.receiver, 10) ++ T(".") ++ NameT(e.name)
    [] e.k = "call" -> At(e.callee, 10) ++ Args(e.args)
    [] e.k = "methodcall" -> At(e.receiver, 10) ++ T(":") ++ NameT(e.name) ++ Args(e.args)
    [] e.k = "paren" -> T("(") ++ Expr(e.inner) ++ T(")")

LOCAL Clauses(s) ==
  Joined([i \in DOMAIN s.clauses |->
            T(IF i = 1 THEN "if" ELSE "elseif") ++ Expr(s.clauses[i].cond) ++ T("then") ++
            Stats(s.clauses[i].body)], Nothing)

LOCAL Stat(s) ==
  CASE s.k = "empty" -> T(";")
    [] s.k = "local" -> T("local") ++ Names(s.names, ",") ++
         (IF s.values = <<>> THEN Nothing ELSE T("=") ++ Exprs(s.values))
    [] s.k = "localfunction" -> T("local") ++ T("function") ++ NameT(s.name) ++ Body(s.function)
    [] s.k = "assign" -> Exprs(s.targets) ++ T("=") ++ Exprs(s.values)
    [] s.k = "function" -> T("function") ++ Names(s.path, ".") ++ Body(s.function)
    [] s.k = "method" ->
         T("function") ++ Names(s.path, ".") ++ T(":") ++ NameT(s.name) ++ Body(s.function)
    [] s.k = "callstat" -> Expr(s.call)
    [] s.k = "if" -> Clauses(s) ++
         (IF s.otherwise = <<>> THEN Nothing ELSE T("else") ++ Stats(s.otherwise[1])) ++ T("end")
    [] s.k = "while" -> T("while") ++ Expr(s.cond) ++ T("do") ++ Stats(s.body) ++ T("end")
    [] s.k = "repeat" -> T("repeat") ++ Stats(s.body) ++ T("until") ++ Expr(s.cond)
    [] s.k = "fornum" ->
         T("for") ++ NameT(s.name) ++ T("=") ++ Exprs(s.range) ++ T("do") ++ Stats(s.body) ++ T("end")
    [] s.k = "forin" ->
         T("for") ++ Names(s.names, ",") ++ T("in") ++ Exprs(s.values) ++ T("do") ++
         Stats(s.body) ++ T("end")
    [] s.k = "do" -> T("do") ++ Stats(s.body) ++ T("end")
    [] s.k = "break" -> T("break")
    [] s.k = "return" -> T("return") ++ Exprs(s.values) ++ T(";")

Stats(stats) == Joined([i \in DOMAIN stats |-> NewLine ++ Stat(stats[i])], Nothing)

Written(stats) == (Stats(stats) ++ T("eof")).tokens

(* Tokens that come in pairs, or in a number that others decide: a text with
   one of them missing is no program. *)
Delimiters == {"(", ")", "{", "}", "[", "]", "function", "then", "do", "end", "repeat", "until"}
=============================================================================
