------------------------------ MODULE Meaning ------------------------------
(***************************************************************************)
(* What a program means, told from its source alone: an evaluator in which *)
(* a variable is a cell of its own, an expression its list of values and a *)
(* block an environment, and which knows nothing of registers, scopes to   *)
(* close or prototypes.                                                    *)
(*                                                                         *)
(* The state holds the cells, tables and functions made so far and what    *)
(* the host was shown; once an error is raised it shows nothing more.      *)
(***************************************************************************)
EXTENDS Values, SequencesExt

LOCAL OpcodeOf ==
  ("+" :> "ADD") @@ ("-" :> "SUB") @@ ("*" :> "MUL") @@ ("/" :> "DIV") @@ ("%" :> "MOD") @@
  ("^" :> "POW") @@ ("==" :> "EQ") @@ ("<" :> "LT") @@ ("<=" :> "LE")

RECURSIVE Eval(_, _, _, _), ExecStats(_, _, _, _), ExecStat(_, _, _, _)

(* An evaluation: the state after it and the values it delivers. *)
Give(st, vs) == [st |-> st, vs |-> vs]
First(ev) == Nth(ev.vs, 1)

Need(st, holds) == [st EXCEPT !.bad = @ \/ ~holds]

(* A fresh cell for each name, in an environment that hides older ones. *)
Bind(st, env, names, vs) ==
  FoldLeftDomain(LAMBDA acc, i :
      [st |-> [acc.st EXCEPT !.cells = Append(@, Nth(vs, i))],
       env |-> (names[i] :> Len(acc.st.cells) + 1) @@ acc.env],
    [st |-> st, env |-> env], names)

(* Every expression but the last delivers one value. *)
EvalList(st, env, rest, es) ==
  FoldLeftDomain(LAMBDA acc, i :
      LET ev == Eval(acc.st, env, rest, es[i])
      IN IF acc.st.bad THEN acc
         ELSE Give(ev.st, acc.vs \o (IF i = Len(es) THEN ev.vs ELSE <<First(ev)>>)),
    Give(st, <<>>), es)

Call(st, callee, args) ==
  LET f == st.functions[callee[2]]
      bound == Bind(st, f.env, f.params, args)
      run == ExecStats(bound.st, bound.env,
                       IF f.vararg THEN SubSeq(args, Len(f.params) + 1, Len(args)) ELSE <<>>, f.body)
  IN CASE st.bad -> Give(st, <<>>)
       [] callee[1] = "host" ->
            Give([st EXCEPT !.log = Append(@, [i \in DOMAIN args |-> Shown(args[i])])], args)
       [] callee[1] = "function" -> Give(run.st, run.vs)
       [] OTHER -> Give(Need(st, FALSE), <<>>)

Index(ev, key) ==
  LET t == First(ev)
  IN IF t[1] = "table" THEN Give(ev.st, <<ReadTable(ev.st.tables[t[2]], key)>>)
     ELSE Give(Need(ev.st, FALSE), <<Nil>>)

Store(st, t, key, v) ==
  IF st.bad \/ t[1] # "table" \/ key = Nil THEN Need(st, FALSE)
  ELSE [st EXCEPT !.tables[t[2]] = WriteTable(@, key, v)]

ReadName(st, env, name) ==
  IF name \in DOMAIN env THEN st.cells[env[name]]
  ELSE ReadTable(st.tables[1], <<"str", <<name>>>>)

EvalOperator(st, env, rest, e) ==
  LET x == Eval(st, env, rest, e.left)
      y == Eval(x.st, env, rest, e.right)
      l == First(x)
      r == First(y)
      numbers == l[1] = "num" /\ r[1] = "num"
  IN CASE e.op = "and" -> IF IsFalse(l) THEN Give(x.st, <<l>>) ELSE Give(y.st, <<r>>)
       [] e.op = "or" -> IF IsFalse(l) THEN Give(y.st, <<r>>) ELSE Give(x.st, <<l>>)
       [] e.op = "==" -> Give(y.st, <<Bool(l = r)>>)
       [] e.op = "~=" -> Give(y.st, <<Bool(l # r)>>)
       [] e.op = ".." -> IF IsText(l) /\ IsText(r) THEN Give(y.st, <<<<"str", Text(l) \o Text(r)>>>>)
                         ELSE Give(Need(y.st, FALSE), <<Nil>>)
       [] e.op \in {"<", "<="} -> IF numbers THEN Give(y.st, <<Bool(CompareOf(OpcodeOf[e.op], l, r))>>)
                                  ELSE Give(Need(y.st, FALSE), <<Nil>>)
       [] e.op = ">" -> IF numbers THEN Give(y.st, <<Bool(l[2] > r[2])>>)
                        ELSE Give(Need(y.st, FALSE), <<Nil>>)
       [] e.op = ">=" -> IF numbers THEN Give(y.st, <<Bool(l[2] >= r[2])>>)
                         ELSE Give(Need(y.st, FALSE), <<Nil>>)
       [] OTHER -> IF numbers THEN Give(y.st, <<ArithmeticOf(OpcodeOf[e.op], l, r)>>)
                   ELSE Give(Need(y.st, FALSE), <<Nil>>)

EvalUnary(st, env, rest, e) ==
  LET x == Eval(st, env, rest, e.value)
      v == First(x)
      bad == Give(Need(x.st, FALSE), <<Nil>>)
  IN CASE e.op = "not" -> Give(x.st, <<Bool(IsFalse(v))>>)
       [] e.op = "-" -> IF v[1] = "num" THEN Give(x.st, <<Num(0 - v[2])>>) ELSE bad
       [] e.op = "#" -> CASE v[1] = "table" -> Give(x.st, <<Num(LengthOf(x.st.tables[v[2]]))>>)
                          [] v[1] = "str" -> Give(x.st, <<Num(Len(v[2]))>>)
                          [] OTHER -> bad

(* Values without a key are numbered; the last one may be a whole list. *)
EvalTable(st, env, rest, e) ==
  LET t == <<"table", Len(st.tables) + 1>>
      made == [st EXCEPT !.tables = Append(@, EmptyTable)]
      field(acc, i) ==
        LET f == e.fields[i]
            key == IF f.kind = "keyed" THEN Eval(acc.st, env, rest, f.key)
                   ELSE Give(acc.st, <<IF f.kind = "named" THEN <<"str", <<f.name>>>>
                                       ELSE Num(acc.n + 1)>>)
            ev == Eval(key.st, env, rest, f.value)
            vs == IF f.kind = "item" /\ i = Len(e.fields) THEN ev.vs ELSE <<First(ev)>>
        IN IF f.kind = "item"
           THEN [st |-> FoldLeftDomain(LAMBDA s, j : Store(s, t, Num(acc.n + j), vs[j]), ev.st, vs),
                 n |-> acc.n + Len(vs)]
           ELSE [acc EXCEPT !.st = Store(ev.st, t, First(key), vs[1])]
  IN Give(FoldLeftDomain(field, [st |-> made, n |-> 0], e.fields).st, <<t>>)

EvalCall(st, env, rest, e) ==
  LET callee == Eval(st, env, rest, e.callee)
      args == EvalList(callee.st, env, rest, e.args)
  IN Call(args.st, First(callee), args.vs)

EvalMethodCall(st, env, rest, e) ==
  LET receiver == Eval(st, env, rest, e.receiver)
      callee == Index(receiver, <<"str", <<e.name>>>>)
      args == EvalList(callee.st, env, rest, e.args)
  IN Call(args.st, First(callee), <<First(receiver)>> \o args.vs)

Eval(st, env, rest, e) ==
  CASE e.k = "nil" -> Give(st, <<Nil>>)
    [] e.k = "true" -> Give(st, <<Bool(TRUE)>>)
    [] e.k = "false" -> Give(st, <<Bool(FALSE)>>)
    [] e.k \in {"num", "str"} -> Give(st, <<<<e.k, e.v>>>>)
    [] e.k = "vararg" -> Give(st, rest)
    [] e.k = "name" -> Give(st, <<ReadName(st, env, e.name)>>)
    [] e.k = "paren" -> LET ev == Eval(st, env, rest, e.inner) IN Give(ev.st, <<First(ev)>>)
    [] e.k = "un" -> EvalUnary(st, env, rest, e)
    [] e.k = "bin" -> EvalOperator(st, env, rest, e)
    [] e.k = "table" -> EvalTable(st, env, rest, e)
    [] e.k = "function" ->
         Give([st EXCEPT !.functions = Append(@, [params |-> e.params, vararg |-> e.vararg,
                                                  body |-> e.body, env |-> env])],
              <<<<"function", Len(st.functions) + 1>>>>)
    [] e.k = "index" -> LET t == Eval(st, env, rest, e.receiver)
                            key == Eval(t.st, env, rest, e.index)
                        IN Index(Give(key.st, t.vs), First(key))
    [] e.k = "field" -> Index(Eval(st, env, rest, e.receiver), <<"str", <<e.name>>>>)
    [] e.k = "call" -> EvalCall(st, env, rest, e)
    [] e.k = "methodcall" -> EvalMethodCall(st, env, rest, e)

(***************************************************************************)
(* Statements.  An execution ends with the state, the environment, whether *)
(* and how the block is left, and the values it returns.                   *)
(***************************************************************************)
Ended(st, env, how, vs) == [st |-> st, env |-> env, how |-> how, vs |-> vs]
On(st, env) == Ended(st, env, "on", <<>>)

(* The receiver and key of a target, found before any value is assigned. *)
Place(acc, env, rest, target) ==
  LET t == Eval(acc.st, env, rest, target.receiver)
      key == IF target.k = "field" THEN Give(t.st, <<<<"str", <<target.name>>>>>>)
             ELSE Eval(t.st, env, rest, target.index)
  IN IF target.k = "name" THEN [acc EXCEPT !.places = Append(@, <<target>>)]
     ELSE [st |-> key.st, places |-> Append(acc.places, <<target, First(t), First(key)>>)]

Assign(st, env, place, v) ==
  IF place[1].k # "name" THEN Store(st, place[2], place[3], v)
  ELSE IF place[1].name \in DOMAIN env
  THEN [st EXCEPT !.cells[env[place[1].name]] = v]
  ELSE Store(st, <<"table", 1>>, <<"str", <<place[1].name>>>>, v)

ExecAssign(st, env, rest, targets, values) ==
  LET placed == FoldLeft(LAMBDA acc, t : Place(acc, env, rest, t),
                         [st |-> st, places |-> <<>>], targets)
      ev == EvalList(placed.st, env, rest, values)
  IN FoldLeftDomain(LAMBDA s, i : Assign(s, env, placed.places[i], Nth(ev.vs, i)), ev.st, targets)

(* The head of a loop: whether another round begins, what the names of the
   loop are bound to in it, and what is carried to the next head. *)
LoopHead(st, env, rest, s, carried) ==
  CASE s.k = "fornum" ->
         LET i == carried[1] limit == carried[2] step == carried[3]
         IN [st |-> st, go |-> IF step > 0 THEN i <= limit ELSE limit <= i,
             vs |-> <<Num(i)>>, carried |-> <<i + step, limit, step>>]
    [] s.k = "forin" ->
         LET ev == Call(st, carried[1], <<carried[2], carried[3]>>)
         IN [st |-> ev.st, go |-> First(ev) # Nil, vs |-> ev.vs,
             carried |-> <<carried[1], carried[2], First(ev)>>]
    [] s.k = "while" ->
         LET ev == Eval(st, env, rest, s.cond)
         IN [st |-> ev.st, go |-> ~IsFalse(First(ev)), vs |-> <<>>, carried |-> carried]

LoopNames(s) ==
  CASE s.k = "fornum" -> <<s.name>> [] s.k = "forin" -> s.names [] s.k = "while" -> <<>>

(* Every round has variables of its own. *)
RECURSIVE Loop(_, _, _, _, _)
Loop(st, env, rest, s, carried) ==
  LET head == LoopHead(st, env, rest, s, carried)
      bound == Bind(head.st, env, LoopNames(s), head.vs)
      ran == ExecStats(bound.st, bound.env, rest, s.body)
  IN IF head.st.bad \/ ~head.go THEN On(head.st, env)
     ELSE CASE ran.how = "break" -> On(ran.st, env)
            [] ran.how = "return" -> Ended(ran.st, env, "return", ran.vs)
            [] OTHER -> IF ran.st.bad THEN On(ran.st, env)
                        ELSE Loop(ran.st, env, rest, s, head.carried)

ExecNumericFor(st, env, rest, s) ==
  LET range == EvalList(st, env, rest, s.range)
      step == IF Len(s.range) = 3 THEN Nth(range.vs, 3) ELSE Num(1)
      numbers == \A v \in {Nth(range.vs, 1), Nth(range.vs, 2), step} : v[1] = "num"
  IN IF ~numbers THEN On(Need(range.st, FALSE), env)
     ELSE Loop(range.st, env, rest, s, <<range.vs[1][2], range.vs[2][2], step[2]>>)

ExecGenericFor(st, env, rest, s) ==
  LET init == EvalList(st, env, rest, s.values)
  IN Loop(init.st, env, rest, s, <<Nth(init.vs, 1), Nth(init.vs, 2), Nth(init.vs, 3)>>)

RECURSIVE ExecRepeat(_, _, _, _)
ExecRepeat(st, env, rest, s) ==
  LET ran == ExecStats(st, env, rest, s.body)
      cond == Eval(ran.st, ran.env, rest, s.cond)
  IN CASE ran.how = "return" -> ran
       [] ran.how = "break" \/ ran.st.bad -> On(ran.st, env)
       [] OTHER -> IF cond.st.bad \/ ~IsFalse(First(cond)) THEN On(cond.st, env)
                   ELSE ExecRepeat(cond.st, env, rest, s)

RECURSIVE ExecIf(_, _, _, _, _)
ExecIf(st, env, rest, s, i) ==
  IF i > Len(s.clauses)
  THEN IF s.otherwise = <<>> THEN On(st, env) ELSE ExecStats(st, env, rest, s.otherwise[1])
  ELSE LET cond == Eval(st, env, rest, s.clauses[i].cond)
       IN IF IsFalse(First(cond)) THEN ExecIf(cond.st, env, rest, s, i + 1)
          ELSE ExecStats(cond.st, env, rest, s.clauses[i].body)

(* A function definition assigns to a name or to a field of one. *)
DefinitionTarget(path) ==
  FoldLeft(LAMBDA e, n : [k |-> "field", receiver |-> e, name |-> n],
           [k |-> "name", name |-> Head(path)], Tail(path))

ExecStat(st, env, rest, s) ==
  CASE s.k = "empty" -> On(st, env)
    [] s.k = "local" -> LET ev == EvalList(st, env, rest, s.values)
                            bound == Bind(ev.st, env, s.names, ev.vs)
                        IN On(bound.st, bound.env)
    [] s.k = "localfunction" ->
         LET bound == Bind(st, env, <<s.name>>, <<Nil>>)
             ev == Eval(bound.st, bound.env, rest, s.function)
         IN On([ev.st EXCEPT !.cells[bound.env[s.name]] = First(ev)], bound.env)
    [] s.k = "assign" -> On(ExecAssign(st, env, rest, s.targets, s.values), env)
    [] s.k = "function" ->
         On(ExecAssign(st, env, rest, <<DefinitionTarget(s.path)>>, <<s.function>>), env)
    [] s.k = "method" ->
         On(ExecAssign(st, env, rest, <<DefinitionTarget(Append(s.path, s.name))>>,
                       <<[s.function EXCEPT !.params = <<"self">> \o @]>>), env)
    [] s.k = "callstat" -> On(Eval(st, env, rest, s.call).st, env)
    [] s.k = "if" -> ExecIf(st, env, rest, s, 1)
    [] s.k = "while" -> Loop(st, env, rest, s, <<>>)
    [] s.k = "repeat" -> ExecRepeat(st, env, rest, s)
    [] s.k = "fornum" -> ExecNumericFor(st, env, rest, s)
    [] s.k = "forin" -> ExecGenericFor(st, env, rest, s)
    [] s.k = "do" -> ExecStats(st, env, rest, s.body)
    [] s.k = "break" -> Ended(st, env, "break", <<>>)
    [] s.k = "return" -> LET ev == EvalList(st, env, rest, s.values)
                         IN Ended(ev.st, env, "return", ev.vs)

(* The environment of the last statement is returned for the condition of a
   repeat; a statement list inside another leaves the outer one alone. *)
ExecStats(st, env, rest, stats) ==
  FoldLeft(LAMBDA acc, s :
      IF acc.how # "on" \/ acc.st.bad THEN acc
      ELSE LET ran == ExecStat(acc.st, acc.env, rest, s)
           IN IF s.k \in {"local", "localfunction"} THEN ran ELSE [ran EXCEPT !.env = acc.env],
    On(st, env), stats)

(* The globals are the first table; the only one defined is the host's. *)
Globals == (<<"str", <<"out">>>> :> <<"host", 0>>)

(* What the host sees of a program: whether it is refused, what it is shown,
   how it ends and what it returns. *)
Refused == [refused |-> TRUE, log |-> <<>>, bad |-> FALSE, results |-> <<>>]

MeaningOf(stats) ==
  LET ran == ExecStats([cells |-> <<>>, tables |-> <<Globals>>, functions |-> <<>>,
                        log |-> <<>>, bad |-> FALSE], [n \in {} |-> 0], <<>>, stats)
  IN [refused |-> FALSE, log |-> ran.st.log, bad |-> ran.st.bad,
      results |-> IF ran.st.bad THEN <<>> ELSE [i \in DOMAIN ran.vs |-> Shown(ran.vs[i])]]
=============================================================================
