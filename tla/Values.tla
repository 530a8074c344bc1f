------------------------------- MODULE Values -------------------------------
(***************************************************************************)
(* The values of the language and what its operators do with them.  A      *)
(* value is a tuple that begins with its type; a string is a sequence of   *)
(* pieces, a table or function the position of its record.                 *)
(***************************************************************************)
EXTENDS Integers, Sequences, FiniteSets, FiniteSetsExt, TLC

Nil == <<"nil">>
Bool(b) == <<"bool", b>>
Num(n) == <<"num", n>>

IsFalse(v) == v \in {Nil, Bool(FALSE)}

(* Kept in the heap. *)
IsReference(v) == v[1] \in {"str", "table", "function", "host"}

(* A number is written out, one piece, when it is joined to a string. *)
IsText(v) == v[1] \in {"str", "num"}
Text(v) == IF v[1] = "num" THEN <<ToString(v[2])>> ELSE v[2]

(* What can be seen of a value from outside. *)
Shown(v) == IF v[1] \in {"table", "function", "host"} THEN <<v[1]>> ELSE v

(* Numbers are integers: the programs divide where nothing is left over, by
   positive numbers. *)
ArithmeticOf(op, x, y) ==
  CASE op = "ADD" -> Num(x[2] + y[2]) [] op = "SUB" -> Num(x[2] - y[2])
    [] op = "MUL" -> Num(x[2] * y[2]) [] op = "DIV" -> Num(x[2] \div y[2])
    [] op = "MOD" -> Num(x[2] % y[2]) [] op = "POW" -> Num(x[2] ^ y[2])

CompareOf(op, x, y) ==
  CASE op = "EQ" -> x = y [] op = "LT" -> x[2] < y[2] [] op = "LE" -> x[2] <= y[2]

ReadTable(table, key) == IF key \in DOMAIN table THEN table[key] ELSE Nil

WriteTable(table, key, v) ==
  IF v = Nil THEN [k \in DOMAIN table \ {key} |-> table[k]]
  ELSE [k \in DOMAIN table \cup {key} |-> IF k = key THEN v ELSE table[k]]

(* A list of values at the numbers behind base. *)
WriteList(table, base, vs) ==
  LET at(js) == {Num(base + j) : j \in js}
      written == at({j \in DOMAIN vs : vs[j] # Nil})
  IN [k \in (DOMAIN table \ at(DOMAIN vs)) \cup written |->
        IF k \in written THEN vs[k[2] - base] ELSE table[k]]

EmptyTable == [k \in {} |-> Nil]

(* The numbers from 1 on that have a value. *)
LengthOf(table) ==
  LET filled == {n \in 1..Cardinality(DOMAIN table) :
                   \A m \in 1..n : Num(m) \in DOMAIN table}
  IN Cardinality(filled)

(* The nth of a list of values that is continued by nil. *)
Nth(vs, n) == IF n <= Len(vs) THEN vs[n] ELSE Nil
=============================================================================
