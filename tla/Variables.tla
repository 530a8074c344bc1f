----------------------------- MODULE Variables -----------------------------
(***************************************************************************)
(* What closures promise a Lua program: a local variable that is captured  *)
(* is one cell, shared by the activation that declared it, while the       *)
(* variable is in scope, and by the closures that captured it; every call  *)
(* and every turn of a block declares new ones.                            *)
(***************************************************************************)
EXTENDS Naturals, Sequences

CONSTANTS
  Cells,        \* identities of captured variables
  Values, Nil,
  Registers, Extras  \* numbers of registers and of extra arguments of a call

VARIABLES
  calls,    \* activations: registers, extra arguments, upvalues
  content,  \* the value of each captured variable
  closures  \* the closures the program can call, each by its upvalues

vars == <<calls, content, closures>>

Content == Values \cup {Nil}
Depth == Len(calls)
Regs == calls[Depth].regs

\* A register holds a value, or the captured variable that lives on it.
Value(x) == IF x \in Cells THEN content[x] ELSE x

Members(seq) == {seq[i] : i \in DOMAIN seq}
InUse == UNION (closures \cup {Members(calls[i].regs) \cup calls[i].up : i \in DOMAIN calls})

Init == calls = <<>> /\ content = [c \in Cells |-> Nil] /\ closures = {}

Call ==
  /\ UNCHANGED <<content, closures>>
  /\ Len(calls') > Depth
  /\ \E up \in closures \cup {{}}, n \in Registers, arg \in Values,
        extra \in UNION {[1..x -> Values] : x \in Extras} :
       calls' = Append(calls, [regs |-> [r \in 1..n |-> IF r = 1 THEN arg ELSE Nil],
                               extra |-> extra, up |-> up])

Return ==
  /\ UNCHANGED <<content, closures>>
  /\ Depth > 0
  /\ calls' = SubSeq(calls, 1, Depth - 1)

WithRegs(regs) == [calls EXCEPT ![Depth].regs = regs]

SetRegister(r, v) ==
  /\ UNCHANGED closures
  /\ IF Regs[r] \in Cells
     THEN content' = [content EXCEPT ![Regs[r]] = v] /\ UNCHANGED calls
     ELSE UNCHANGED content /\ calls' = WithRegs([Regs EXCEPT ![r] = v])

SetUpvalue(c, r) ==
  /\ UNCHANGED <<calls, closures>>
  /\ content' = [content EXCEPT ![c] = Value(Regs[r])]

\* Registers are captured: each that holds a value gets a variable of its own.
Capture ==
  /\ Depth > 0
  /\ \E new \in SUBSET {r \in DOMAIN Regs : Regs[r] \notin Cells} :
     \E name \in [new -> Cells \ InUse] :
       LET regs == [r \in DOMAIN Regs |-> IF r \in new THEN name[r] ELSE Regs[r]] IN
       /\ \A r, s \in new : name[r] = name[s] => r = s
       /\ content' = [c \in Cells |-> IF \E r \in new : name[r] = c
                                      THEN Regs[CHOOSE r \in new : name[r] = c] ELSE content[c]]
       /\ calls' = WithRegs(regs)
       /\ \/ UNCHANGED closures
          \/ \E up \in SUBSET ((Cells \cap Members(regs)) \cup calls[Depth].up) :
               closures' = closures \cup {up}

\* A block ends: its registers keep the values, its variables are on their own.
EndBlock(first) ==
  /\ UNCHANGED <<content, closures>>
  /\ calls' = WithRegs([r \in DOMAIN Regs |-> IF r < first THEN Regs[r] ELSE Value(Regs[r])])

\* Nothing refers to a closure or to a variable any more.
Forget ==
  /\ UNCHANGED calls
  /\ \/ UNCHANGED content /\ closures' \subseteq closures
     \/ UNCHANGED closures /\ \E c \in Cells \ InUse : content' = [content EXCEPT ![c] = Nil]

Instruction ==
  /\ Depth > 0
  /\ \E r \in DOMAIN Regs :
       \/ \E c \in calls[Depth].up : SetUpvalue(c, r)
       \/ \E v \in Content : SetRegister(r, v)
       \/ EndBlock(r)

Next == Forget \/ Return \/ Instruction \/ Call \/ Capture

Spec == Init /\ [][Next]_vars
=============================================================================
