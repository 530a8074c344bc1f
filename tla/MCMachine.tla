------------------------------ MODULE MCMachine ------------------------------
(***************************************************************************)
(* Programs for the machine, by family: those it keeps the meaning of, and *)
(* those it does not.                                                      *)
(***************************************************************************)
EXTENDS Discipline, Emit, Liveness, Syntax, Text

(***************************************************************************)
(* The stages the machine is given.                                        *)
(***************************************************************************)
LOCAL TextParser == INSTANCE Parser
LOCAL Evaluator == INSTANCE Meaning

(* A program is a tree, written without one of its tokens, or in full, and
   it is known whether that is Lua. *)
TextOf(p) ==
  LET whole == Written(p.tree) IN IF p.drop = 0 THEN whole ELSE RemoveAt(whole, p.drop)

Parsed(p) == LET chunk == TextParser!ParseChunk(TextOf(p)) IN chunk
Bound(stats) == LET chunk == BindChunk(stats) IN chunk
Lowered(chunk) == LET lowered == LowerChunk(chunk) IN lowered
Emitted(chunk) == LET emitted == EmitChunk(chunk) IN emitted
Live(p) == LET live == LiveSlotSets(p) IN live
Meant(p) ==
  LET meaning == Evaluator!MeaningOf(p.tree) IN IF p.lua THEN meaning ELSE Evaluator!Refused

(* The facts about a prototype: each position passes on what holds behind
   it, until nothing changes. *)
PassedOn(p, facts, pc) ==
  LET here == facts[pc]
      arrive(next, there) ==
        [reached |-> TRUE,
         assigned |-> there.assigned \cap (Keeps(p, pc, here.assigned) \cup Gains(p, pc, next)),
         captured |-> there.captured \cup (here.captured \ ClosedAt(p, pc, here.captured))
                        \cup CapturedAt(p, pc)]
  IN FoldSet(LAMBDA next, acc : [acc EXCEPT ![next] = arrive(next, @)], facts, Successors(p, pc))

RECURSIVE FactsFrom(_, _)
FactsFrom(p, facts) ==
  LET after == FoldLeft(LAMBDA acc, j : IF acc[j - 1].reached THEN PassedOn(p, acc, j - 1) ELSE acc,
                        facts, [j \in 1..Size(p) |-> j])
  IN IF after = facts THEN facts ELSE FactsFrom(p, after)

FactsOf(p) ==
  LET facts == FactsFrom(p, [pc \in 0..(Size(p) - 1) |->
                  [reached |-> pc = 0, captured |-> {},
                   assigned |-> IF pc = 0 THEN 0..(p.params - 1) ELSE WindowOf(p)]])
  IN [pc \in {pc \in DOMAIN facts : facts[pc].reached} |->
        [assigned |-> facts[pc].assigned, captured |-> facts[pc].captured]]

Whole(trees) == {[tree |-> t, drop |-> 0, lua |-> TRUE] : t \in trees}
NotLua(trees) == {[tree |-> t, drop |-> 0, lua |-> FALSE] : t \in trees}
Damaged(trees) ==
  UNION {{[tree |-> t, drop |-> i, lua |-> FALSE] :
            i \in {i \in DOMAIN Written(t) : Written(t)[i].kind \in Delimiters}} : t \in trees}

(***************************************************************************)
(* Loops that make closures and are left in several ways.                  *)
(***************************************************************************)
Counter(x) == Fn(<<>>, <<To(V(x), Bin("+", V(x), K(10))), Ret(<<V(x)>>)>>)

(* What a round does: a closure over the loop's variable or over a local. *)
Captures ==
  { <<To(Elem(V("fs"), V("i")), Counter("i"))>>,
    <<Let("x", Bin("*", V("i"), K(3))), To(Elem(V("fs"), V("i")), Counter("x"))>>,
    <<Block(<<Let("y", V("i")), To(Elem(V("fs"), V("i")), Counter("y"))>>), Let("z", V("i"))>> }

(* How it ends. *)
Exits ==
  { <<>>,
    <<If(Bin("==", V("i"), K(2)), <<Break>>)>>,
    <<If(Bin("==", V("i"), K(2)), <<Let("w", V("i")),
         To(Elem(V("fs"), K(2)), Counter("w")), Break>>)>>,
    <<Block(<<Let("w", V("i")), To(Elem(V("fs"), V("i")), Counter("w")), Break>>)>>,
    <<If(Bin("<", K(1), V("i")), <<Ret(<<App(Elem(V("fs"), K(1)), <<>>), V("i")>>)>>)>> }

Step(i) == To(V(i), Bin("+", V(i), K(1)))

(* An iterator that counts to 3. *)
Iterator == Fn(<<"s", "c">>, <<If(Bin("<", V("c"), K(3)), <<Ret(<<Bin("+", V("c"), K(1)), V("s")>>)>>)>>)

Loops(body) ==
  { <<ForNum("i", <<K(1), K(3)>>, body)>>,
    <<ForNum("i", <<K(3), K(1), K(-1)>>, body)>>,
    <<ForIn(<<"i", "v">>, <<Iterator, K(7), K(0)>>, body)>>,
    <<Let("n", K(0)), While(Bin("<", V("n"), K(3)), <<Step("n"), Let("i", V("n"))>> \o body)>>,
    <<Let("n", K(0)), Repeat(<<Step("n"), Let("i", V("n"))>> \o body, Bin("<=", K(3), V("i")))>> }

(* Locals that take the registers of the loop when it is over. *)
After ==
  <<Loc(<<"a", "b", "c", "d">>, <<K(100), K(200), K(300), K(400)>>),
    Out(<<V("a"), App(Elem(V("fs"), K(2)), <<>>), V("b")>>),
    If(Bin("~=", Elem(V("fs"), K(3)), NilK), <<Out(<<App(Elem(V("fs"), K(3)), <<>>)>>)>>),
    Ret(<<V("c"), App(Elem(V("fs"), K(2)), <<>>)>>)>>

LoopPrograms ==
  UNION {{ <<Let("fs", Tab(<<>>))>> \o loop \o After :
           loop \in UNION {Loops(c \o e) : e \in Exits} } : c \in Captures}

(***************************************************************************)
(* Operands of every kind, in contexts that reserve their destination.     *)
(***************************************************************************)
Prelude ==
  <<Let("a", K(5)), Let("s", S("p")), Let("t", Tab(<<Item(K(2)), Item(K(3)), Named("x", K(7))>>)),
    Let("f", Fn(<<"x", "y">>, <<Ret(<<Bin("-", V("a"), V("x")), V("y"), K(9)>>)>>)),
    To(V("g"), K(4))>>

NumberOperands ==
  { V("a"), K(3), V("g"), App(V("f"), <<K(6)>>), Elem(V("t"), Bin("-", V("a"), K(4))),
    Dot(V("t"), "x"), Bin("*", V("a"), V("g")), Un("-", V("a")), Un("#", V("t")),
    Bin("and", V("g"), V("a")), Bin("or", Elem(V("t"), K(5)), V("g")) }

(* The same pair of operands, one context after the other. *)
Contexts(l, r) ==
  <<Out(<<Bin("+", l, r), V("a")>>),
    To(Elem(V("t"), Bin("-", l, r)), Bin("*", l, r)),
    Assign(<<Dot(V("t"), "x"), V("g")>>, <<Bin("<", l, r), Bin(">=", l, r)>>),
    Out(<<Dot(V("t"), "x"), V("g"), Bin("and", Bin("==", l, r), V("s"))>>)>>

Branches(l, r) ==
  <<IfElse(Bin("<", l, r), <<Out(<<l>>)>>, <<Out(<<r>>)>>),
    If(Bin("~=", l, r), <<Out(<<Bin("..", V("s"), Bin("..", r, S("q")))>>)>>),
    If(Bin("or", Bin(">", l, r), Un("not", l)), <<Out(<<V("s")>>)>>),
    Ret(<<Bin("+", l, Bin("*", r, l)), Bin("<=", l, r), l>>)>>

OperandPrograms ==
  { Prelude \o Contexts(l, r) : <<l, r>> \in NumberOperands \X NumberOperands } \cup
  { Prelude \o Branches(l, r) : <<l, r>> \in NumberOperands \X NumberOperands }

(***************************************************************************)
(* Calls, lists of values, methods and constructors.                       *)
(***************************************************************************)
(* Lists whose last expression is open. *)
Lists ==
  { <<>>, <<V("a")>>, <<Dots>>, <<V("a"), Dots>>, <<Dots, V("a")>>,
    <<App(V("p"), <<Dots>>)>>, <<K(1), App(V("p"), <<V("a"), Dots>>)>>,
    <<App(V("p"), <<K(4)>>), App(V("p"), <<>>)>>,
    <<Send(V("o"), "m", <<Dots>>)>>, <<V("a"), Fn(<<>>, <<Ret(<<V("a")>>)>>)>> }

UsesOf(es) ==
  { <<Out(es)>>, <<Ret(es)>>, <<Ret(<<Un("#", Tab([i \in DOMAIN es |-> Item(es[i])]))>>)>>,
    <<Loc(<<"x", "y">>, es), Out(<<V("y"), V("x")>>)>>,
    <<Assign(<<V("gx"), Dot(V("o"), "f")>>, es), Out(<<V("gx"), Dot(V("o"), "f")>>)>> }

(* p returns its arguments, o has a method, q is called with 0 to 2
   arguments. *)
Room == Block(<<Loc([i \in 1..16 |-> ToString(i)], <<>>)>>)

CallProgram(use, args) ==
  <<Let("p", VarFn(<<>>, <<Ret(<<Dots>>)>>)), Let("o", Tab(<<Named("n", K(8))>>)),
    DefMeth(<<"o">>, "m", VarFn(<<"b">>, <<Ret(<<Dot(V("self"), "n"), V("b"), Dots>>)>>)),
    DefFn(<<"q">>, VarFn(<<"a">>, <<Room>> \o use)), Room,
    Out(<<App(V("q"), args)>>)>>

CallPrograms ==
  { CallProgram(use, args) : use \in UNION {UsesOf(es) : es \in Lists},
                             args \in {<<>>, <<K(1)>>, <<S("s"), K(2)>>} }

Constructor(n, tail) ==
  Tab([i \in 1..n |-> Item(K(10 * i))] \o tail)

TableProgram(e) ==
  <<Let("a", K(5)), Let("p", VarFn(<<>>, <<Ret(<<Dots>>)>>)), Let("t", e),
    ForNum("i", <<K(1), K(8)>>, <<Out(<<V("i"), Elem(V("t"), V("i"))>>)>>),
    Out(<<Un("#", V("t")), Dot(V("t"), "k"), V("a")>>)>>

TablePrograms ==
  { TableProgram(Constructor(n, tail)) : n \in {0, 1, 2, 3, 4, 5},
      tail \in { <<>>, <<Named("k", K(3))>>, <<Keyed(V("a"), Bin("+", V("a"), V("a")))>>,
                 <<Item(App(V("p"), <<K(1), K(2)>>))>> } }

(***************************************************************************)
(* Functions in functions, and programs that go wrong.                     *)
(***************************************************************************)
NestedPrograms ==
  { (* A variable two functions down, shared and then closed. *)
    <<Let("a", K(1)), Let("b", K(2)),
      Let("mk", Fn(<<"c">>, <<Let("d", V("c")),
         Ret(<<Fn(<<>>, <<To(V("a"), Bin("+", V("a"), V("c"))), To(V("d"), Bin("+", V("d"), V("a"))),
                          Ret(<<V("d"), Fn(<<>>, <<To(V("d"), K(0)), Ret(<<V("b"), V("d")>>)>>)>>)>>),
               Fn(<<"v">>, <<To(V("d"), V("v"))>>)>>)>>)),
      Loc(<<"get", "set">>, <<App(V("mk"), <<K(7)>>)>>),
      Out(<<App(V("get"), <<>>)>>), Do(App(V("set"), <<K(40)>>)),
      Loc(<<"x", "h">>, <<App(V("get"), <<>>)>>), Out(<<V("x"), App(V("h"), <<>>)>>),
      To(V("b"), K(3)), Out(<<V("a"), App(V("h"), <<>>)>>), Ret(<<App(V("get"), <<>>)>>)>>,
    (* Shadowing, a swap and a recursion through a global. *)
    <<Loc(<<"a", "b">>, <<K(1), K(2)>>), Assign(<<V("a"), V("b")>>, <<V("b"), V("a")>>),
      DefFn(<<"sum">>, Fn(<<"n">>, <<If(Bin("==", V("n"), K(0)), <<Ret(<<V("a")>>)>>),
          Ret(<<Bin("+", V("n"), App(V("sum"), <<Bin("-", V("n"), K(1))>>))>>)>>)),
      DefFn(<<"loop">>, Fn(<<"n", "x">>, <<If(Bin("<=", V("n"), K(0)), <<Ret(<<V("x"), V("n")>>)>>),
          Ret(<<App(V("loop"), <<Bin("-", V("n"), K(1)), Bin("*", V("x"), K(2))>>)>>)>>)),
      Block(<<Let("a", V("b")), Let("b", Bin("*", V("a"), K(5))), Out(<<V("a"), V("b")>>)>>),
      Out(<<V("a"), App(V("sum"), <<K(3)>>), App(V("loop"), <<K(2), V("b")>>)>>)>>,
    (* A local is seen by its own initial value as the variable before. *)
    <<Let("a", K(3)), LocFn("f", Fn(<<>>, <<To(V("a"), Bin("+", V("a"), K(1))), Ret(<<V("a")>>)>>)),
      Let("a", V("a")), Do(App(V("f"), <<>>)), Out(<<V("a"), App(V("f"), <<>>)>>),
      Repeat(<<Let("z", App(V("f"), <<>>)), Let("k", Fn(<<>>, <<Ret(<<V("z")>>)>>))>>,
             Bin("<", K(6), App(V("k"), <<>>))),
      Ret(<<App(V("f"), <<>>)>>)>>,
    (* Every arithmetic operator, nested to the right and to the left. *)
    <<Loc(<<"a", "b">>, <<K(7), K(3)>>),
      Out(<<Bin("%", Bin("^", V("a"), V("b")), Bin("+", V("b"), K(2))),
            Bin("-", V("a"), Bin("/", Bin("*", V("b"), K(4)), K(6)))>>),
      Out(<<Bin("-", V("a"), Bin("-", V("b"), K(2))), Bin("-", Bin("-", V("a"), V("b")), K(2)),
            Bin("^", K(2), Bin("^", V("b"), K(2))), Bin("^", Bin("^", K(2), V("b")), K(2))>>),
      Out(<<Un("-", Bin("^", V("a"), K(2))), Bin("^", Un("-", V("a")), K(2)),
            Un("not", Bin("==", V("a"), V("b"))), Bin("==", Un("not", V("a")), False),
            Bin("and", Bin("or", V("a"), V("b")), K(1)), Bin("or", V("a"), Bin("and", V("b"), K(1)))>>),
      Ret(<<Bin("/", Bin("+", V("a"), Bin("%", K(8), V("b"))), V("b"))>>)>>,
    (* A choice of three ways, one of which ends the loop. *)
    <<Let("fs", Tab(<<>>)),
      ForNum("i", <<K(1), K(4)>>,
        <<Choice(<<Clause(Bin("==", V("i"), K(1)), <<Let("x", K(10)), To(Elem(V("fs"), V("i")), Counter("x"))>>),
                   Clause(Paren(Bin("<", K(2), V("i"))), <<Break>>)>>,
                 <<<<Let("y", V("i")), To(Elem(V("fs"), V("i")), Counter("y")), Empty>>>>),
          Let("z", Paren(Bin("+", V("i"), K(30)))), Out(<<V("z"), App(Elem(V("fs"), V("i")), <<>>)>>)>>),
      Loc(<<"a", "b", "c">>, <<K(1), K(2), K(3)>>),
      Ret(<<App(Elem(V("fs"), K(1)), <<>>), App(Elem(V("fs"), K(2)), <<>>)>>)>> }

Faults ==
  { <<Out(<<K(1)>>), Out(<<App(V("none"), <<K(2)>>)>>), Out(<<K(3)>>)>>,
    <<Let("t", Tab(<<>>)), Out(<<Elem(Elem(V("t"), K(1)), K(2))>>)>>,
    <<Let("t", Tab(<<>>)), To(Elem(V("t"), NilK), K(1))>>,
    <<Let("t", Tab(<<>>)), Do(Send(V("t"), "m", <<>>))>>,
    <<Out(<<Bin("+", K(1), True)>>)>>, <<Out(<<Bin("<", K(1), NilK)>>)>>,
    <<Out(<<Un("-", False)>>)>>, <<Out(<<Un("#", K(1))>>)>>,
    <<Out(<<Bin("..", S("p"), NilK)>>)>>,
    <<ForNum("i", <<K(1), S("p")>>, <<Out(<<V("i")>>)>>)>>,
    <<ForIn(<<"i">>, <<K(1)>>, <<Out(<<V("i")>>)>>)>>,
    <<To(Dot(V("none"), "x"), K(1))>> }

(* A break without a loop, in the function of a loop too, varying arguments
   without such parameters, arguments on a line of their own, and what
   follows the end of a block. *)
Misplaced ==
  { <<Break>>, <<While(True, <<Let("f", Fn(<<>>, <<Break>>)), Break>>)>>,
    <<Let("f", Fn(<<>>, <<Ret(<<Dots>>)>>))>>,
    <<Let("f", V("out")), Do(App(Paren(V("f")), <<K(1)>>))>>,
    <<Ret(<<K(1)>>), Out(<<K(2)>>)>>, <<While(True, <<Break, Out(<<K(2)>>)>>)>> }

TooManyLocals == <<Loc([i \in 1..(NoReg + 1) |-> ToString(i)], <<>>)>>

OtherPrograms == {<<Room>> \o p : p \in NestedPrograms} \cup Faults \cup {TooManyLocals}

AllPrograms ==
  Whole(LoopPrograms \cup OperandPrograms \cup CallPrograms \cup TablePrograms \cup OtherPrograms)
    \cup NotLua(Misplaced) \cup Damaged(NestedPrograms)

(***************************************************************************)
(* Programs the emitter gives another meaning.                             *)
(***************************************************************************)
Pair == Loc(<<"x", "y">>, <<K(1), K(2)>>)
Echo == Let("p", VarFn(<<>>, <<Block(<<Pair>>), Ret(<<Dots>>)>>))

Miscompiled == Whole(
  { (* A call assigned to a local is made at the local: its arguments
       overwrite the locals behind it. *)
    <<Echo, Pair, To(V("x"), App(V("p"), <<V("x")>>)), Out(<<V("x"), V("y")>>)>>,
    (* The left operand is computed at the local the right one reads. *)
    <<Pair, To(V("x"), Bin("*", Bin("+", V("x"), K(1)), Bin("+", V("x"), K(2)))), Out(<<V("x")>>)>>,
    <<Pair, To(V("x"), Bin("and", V("y"), V("x"))), Out(<<V("x")>>)>>,
    (* Both operands of a local's value are computed at one register. *)
    <<To(V("g"), K(3)), To(V("h"), K(4)), Let("b", Bin("+", V("g"), V("h"))), Out(<<V("b")>>)>>,
    (* Items on both sides of a keyed field get the same indices. *)
    <<Let("t", Tab(<<Item(K(10)), Named("k", K(1)), Item(K(77))>>)), Out(<<Elem(V("t"), K(1))>>)>>,
    (* A constructor within a constructor is built on the items that wait. *)
    <<Let("t", Tab(<<Item(K(10)), Item(Tab(<<>>))>>)), Out(<<Elem(V("t"), K(1))>>)>>,
    (* Parentheses do not cut a list of results to one. *)
    <<Echo, Loc(<<"x", "y">>, <<Paren(App(V("p"), <<K(1), K(2)>>))>>),
      Out(<<V("x"), V("y")>>)>>,
    (* More results than the window of the frame has registers left. *)
    <<Let("p", Fn(<<>>, <<Ret(<<K(1), K(2), K(3), K(4)>>)>>)), Out(<<App(V("p"), <<>>)>>)>> })
=============================================================================
