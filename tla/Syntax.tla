------------------------------- MODULE Syntax -------------------------------
(***************************************************************************)
(* The nodes of the syntax tree, with short names because programs are     *)
(* written with them.  A node is a record with its kind, k; positions in   *)
(* the source are left out.                                                *)
(***************************************************************************)

NilK == [k |-> "nil"]
True == [k |-> "true"]
False == [k |-> "false"]
K(n) == [k |-> "num", v |-> n]
S(piece) == [k |-> "str", v |-> <<piece>>]
Dots == [k |-> "vararg"]
V(name) == [k |-> "name", name |-> name]
Un(op, e) == [k |-> "un", op |-> op, value |-> e]
Bin(op, l, r) == [k |-> "bin", op |-> op, left |-> l, right |-> r]
Item(e) == [kind |-> "item", value |-> e]
Named(n, e) == [kind |-> "named", name |-> n, value |-> e]
Keyed(key, e) == [kind |-> "keyed", key |-> key, value |-> e]
Tab(fields) == [k |-> "table", fields |-> fields]
Fn(params, body) == [k |-> "function", params |-> params, vararg |-> FALSE, body |-> body]
VarFn(params, body) == [k |-> "function", params |-> params, vararg |-> TRUE, body |-> body]
Elem(t, key) == [k |-> "index", receiver |-> t, index |-> key]
Dot(t, name) == [k |-> "field", receiver |-> t, name |-> name]
App(f, args) == [k |-> "call", callee |-> f, args |-> args]
Send(r, name, args) == [k |-> "methodcall", receiver |-> r, name |-> name, args |-> args]
Paren(e) == [k |-> "paren", inner |-> e]

Empty == [k |-> "empty"]
Loc(names, values) == [k |-> "local", names |-> names, values |-> values]
Let(name, e) == Loc(<<name>>, <<e>>)
LocFn(name, f) == [k |-> "localfunction", name |-> name, function |-> f]
Assign(targets, values) == [k |-> "assign", targets |-> targets, values |-> values]
To(target, e) == Assign(<<target>>, <<e>>)
DefFn(path, f) == [k |-> "function", path |-> path, function |-> f]
DefMeth(path, name, f) == [k |-> "method", path |-> path, name |-> name, function |-> f]
Do(call) == [k |-> "callstat", call |-> call]
Clause(cond, body) == [cond |-> cond, body |-> body]
Choice(clauses, otherwise) == [k |-> "if", clauses |-> clauses, otherwise |-> otherwise]
If(cond, body) == Choice(<<Clause(cond, body)>>, <<>>)
IfElse(cond, body, other) == Choice(<<Clause(cond, body)>>, <<other>>)
While(cond, body) == [k |-> "while", cond |-> cond, body |-> body]
Repeat(body, cond) == [k |-> "repeat", body |-> body, cond |-> cond]
ForNum(name, range, body) == [k |-> "fornum", name |-> name, range |-> range, body |-> body]
ForIn(names, values, body) == [k |-> "forin", names |-> names, values |-> values, body |-> body]
Block(body) == [k |-> "do", body |-> body]
Break == [k |-> "break"]
Ret(values) == [k |-> "return", values |-> values]

(* A call that shows its arguments to the host. *)
Out(args) == Do(App(V("out"), args))
=============================================================================
