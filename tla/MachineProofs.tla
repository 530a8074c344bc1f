--------------------------- MODULE MachineProofs ---------------------------
(***************************************************************************)
(* What holds of every program whose prototypes are disciplined: no        *)
(* instruction reads what the collector has passed over, and no open       *)
(* upvalue outlives the scope of its variable.                             *)
(***************************************************************************)
EXTENDS Discipline, WellFoundedInduction, FiniteSetTheorems, TLAPS

(***************************************************************************)
(* Sequences.                                                              *)
(***************************************************************************)
LEMMA SeqIn == ASSUME NEW s, IsSeq(s) PROVE s \in Seq({s[i] : i \in 1..Len(s)})
  BY DEF IsSeq

LEMMA SeqFrom == ASSUME NEW n \in Nat, NEW s, s = [i \in 1..n |-> s[i]] PROVE IsSeq(s) /\ Len(s) = n
  BY DEF IsSeq

LEMMA SeqOut == ASSUME NEW S, NEW s \in Seq(S) PROVE IsSeq(s) /\ DOMAIN s = 1..Len(s)
  BY DEF IsSeq

LEMMA EmptyIs == IsSeq(<<>>) /\ Len(<<>>) = 0
  BY <<>> \in Seq({}), SeqOut

LEMMA OneIs == ASSUME NEW x PROVE IsSeq(<<x>>) /\ Len(<<x>>) = 1 /\ <<x>>[1] = x
  BY <<x>> \in Seq({x}), SeqOut

LEMMA AppendIs ==
  ASSUME NEW s, IsSeq(s), NEW x
  PROVE  /\ IsSeq(Append(s, x)) /\ Len(Append(s, x)) = Len(s) + 1
         /\ \A i \in 1..Len(s) : Append(s, x)[i] = s[i]
         /\ Append(s, x)[Len(s) + 1] = x
<1> DEFINE S == {s[i] : i \in 1..Len(s)} \cup {x}
<1>1. s \in Seq(S)
  BY SeqIn DEF IsSeq
<1>2. Append(s, x) \in Seq(S) /\ Len(Append(s, x)) = Len(s) + 1
  BY <1>1
<1>3. IsSeq(Append(s, x))
  <2> HIDE DEF S
  <2> QED
    BY <1>2, SeqOut
<1> QED
  BY <1>1, <1>2, <1>3

LEMMA PrefixIs ==
  ASSUME NEW s, IsSeq(s), NEW n \in 0..Len(s)
  PROVE  /\ IsSeq(SubSeq(s, 1, n)) /\ Len(SubSeq(s, 1, n)) = n
         /\ \A i \in 1..n : SubSeq(s, 1, n)[i] = s[i]
<1> DEFINE S == {s[i] : i \in 1..Len(s)}
<1>1. s \in Seq(S) /\ Len(s) \in Nat
  BY SeqIn DEF IsSeq
<1>2. SubSeq(s, 1, n) \in Seq(S) /\ Len(SubSeq(s, 1, n)) = n
  BY <1>1
<1>3. IsSeq(SubSeq(s, 1, n))
  <2> HIDE DEF S
  <2> QED
    BY <1>2, SeqOut
<1> QED
  BY <1>1, <1>2, <1>3

LEMMA PartIs ==
  ASSUME NEW s, IsSeq(s), NEW m \in Nat
  PROVE  /\ IsSeq(SubSeq(s, m + 1, Len(s)))
         /\ \A i \in 1..Len(SubSeq(s, m + 1, Len(s))) :
              m + i \in 1..Len(s) /\ SubSeq(s, m + 1, Len(s))[i] = s[m + i]
<1> DEFINE S == {s[i] : i \in 1..Len(s)}
<1>1. s \in Seq(S) /\ Len(s) \in Nat
  BY SeqIn DEF IsSeq
<1>2. SubSeq(s, m + 1, Len(s)) \in Seq(S)
  BY <1>1
<1>3. IsSeq(SubSeq(s, m + 1, Len(s)))
  <2> HIDE DEF S
  <2> QED
    BY <1>2, SeqOut
<1>4. ASSUME NEW i \in 1..Len(SubSeq(s, m + 1, Len(s)))
      PROVE  m + i \in 1..Len(s) /\ SubSeq(s, m + 1, Len(s))[i] = s[m + i]
  <2> DEFINE n == Len(s)
             k == m + 1
  <2>1. s \in Seq(S) /\ n = Len(s) /\ n \in Nat /\ k \in Nat /\ k >= 1 /\ k = m + 1
    BY <1>1
  <2> HIDE DEF S, n, k
  <2>2. Len(SubSeq(s, k, n)) = IF k <= n THEN n - k + 1 ELSE 0
    BY <2>1
  <2>3. i \in 1..Len(SubSeq(s, k, n))
    BY DEF k, n
  <2>4. k <= n /\ i \in 1..(n - k + 1)
    BY <2>1, <2>2, <2>3
  <2>5. SubSeq(s, k, n)[i] = s[k + i - 1]
    BY <2>1, <2>3, <2>4
  <2>6. m + i \in 1..n /\ k + i - 1 = m + i
    BY <2>1, <2>4
  <2> QED
    BY <2>5, <2>6 DEF k, n
<1> QED
  BY <1>3, <1>4

LEMMA FrontIs ==
  ASSUME NEW s, IsSeq(s), Len(s) >= 1
  PROVE  /\ IsSeq(Front(s)) /\ Len(Front(s)) = Len(s) - 1
         /\ \A i \in 1..(Len(s) - 1) : Front(s)[i] = s[i]
         /\ Last(s) = s[Len(s)]
<1>1. Len(s) - 1 \in 0..Len(s)
  BY DEF IsSeq
<1> QED
  BY <1>1, PrefixIs DEF Front, Last

\* The last frame is replaced.
LEMMA ReplaceIs ==
  ASSUME NEW s, IsSeq(s), Len(s) >= 1, NEW x
  PROVE  /\ IsSeq(Append(Front(s), x)) /\ Len(Append(Front(s), x)) = Len(s)
         /\ \A i \in 1..(Len(s) - 1) : Append(Front(s), x)[i] = s[i]
         /\ Append(Front(s), x)[Len(s)] = x
<1>1. Len(s) \in Nat
  BY DEF IsSeq
<1> DEFINE t == Front(s)
<1>2. IsSeq(t) /\ Len(t) = Len(s) - 1 /\ \A i \in 1..(Len(s) - 1) : t[i] = s[i]
  BY FrontIs
<1> HIDE DEF t
<1>3. /\ IsSeq(Append(t, x)) /\ Len(Append(t, x)) = Len(t) + 1
      /\ \A i \in 1..Len(t) : Append(t, x)[i] = t[i]
      /\ Append(t, x)[Len(t) + 1] = x
  BY <1>2, AppendIs
<1>4. /\ IsSeq(Append(t, x)) /\ Len(Append(t, x)) = Len(s)
      /\ \A i \in 1..(Len(s) - 1) : Append(t, x)[i] = s[i]
      /\ Append(t, x)[Len(s)] = x
  BY <1>1, <1>2, <1>3
<1> QED
  BY <1>4 DEF t

\* One element is replaced.
Replaced(s, t, n, x) ==
  IsSeq(t) /\ Len(t) = Len(s) /\ \A i \in 1..Len(s) : t[i] = IF i = n THEN x ELSE s[i]

LEMMA ExceptIs ==
  ASSUME NEW s, IsSeq(s), NEW n, NEW x
  PROVE  Replaced(s, [s EXCEPT ![n] = x], n, x)
<1> DEFINE t == [s EXCEPT ![n] = x]
<1>1. DOMAIN s = 1..Len(s) /\ Len(s) \in Nat
  BY DEF IsSeq
<1>2. t = [i \in 1..Len(s) |-> t[i]] /\ \A i \in 1..Len(s) : t[i] = IF i = n THEN x ELSE s[i]
  BY <1>1
<1>3. IsSeq(t) /\ Len(t) = Len(s)
  <2> HIDE DEF t
  <2> QED
    BY <1>1, <1>2, SeqFrom
<1> QED
  BY <1>2, <1>3 DEF Replaced

(***************************************************************************)
(* Values.                                                                 *)
(***************************************************************************)
LEMMA ExistsGrows ==
  ASSUME NEW v, NEW cls, NEW tbs, NEW cls2, NEW tbs2, Exists(v, cls, tbs),
         Len(cls) \in Nat, Len(cls2) \in Nat, Len(tbs) \in Nat, Len(tbs2) \in Nat,
         Len(cls) <= Len(cls2), Len(tbs) <= Len(tbs2)
  PROVE  Exists(v, cls2, tbs2)
  BY DEF Exists

LEMMA PlainExists ==
  ASSUME NEW v, NEW cls, NEW tbs, v[1] \notin {"function", "table"}
  PROVE  Exists(v, cls, tbs)
  BY DEF Exists

LEMMA NilExists == ASSUME NEW cls, NEW tbs PROVE Exists(Nil, cls, tbs)
  BY PlainExists DEF Nil

LEMMA NumExists == ASSUME NEW n, NEW cls, NEW tbs PROVE Exists(Num(n), cls, tbs)
  BY PlainExists DEF Num

LEMMA BoolExists == ASSUME NEW b, NEW cls, NEW tbs PROVE Exists(Bool(b), cls, tbs)
<1>1. Bool(b)[1] = "bool"
  BY DEF Bool
<1> QED
  BY <1>1, PlainExists

LEMMA ReadExists ==
  ASSUME NEW table, NEW key, NEW cls, NEW tbs, TableOK(table, cls, tbs)
  PROVE  Exists(ReadTable(table, key), cls, tbs)
  BY NilExists DEF ReadTable, TableOK

LEMMA WriteExists ==
  ASSUME NEW table, NEW key, NEW v, NEW cls, NEW tbs, TableOK(table, cls, tbs), Exists(v, cls, tbs)
  PROVE  TableOK(WriteTable(table, key, v), cls, tbs)
<1>1. CASE v = Nil
  <2> DEFINE t == [k \in DOMAIN table \ {key} |-> table[k]]
  <2>1. WriteTable(table, key, v) = t
    BY <1>1 DEF WriteTable
  <2>2. TableOK(t, cls, tbs)
    BY DEF TableOK
  <2> QED
    BY <2>1, <2>2
<1>2. CASE v # Nil
  <2> DEFINE t == [k \in DOMAIN table \cup {key} |-> IF k = key THEN v ELSE table[k]]
  <2>1. WriteTable(table, key, v) = t
    BY <1>2 DEF WriteTable
  <2>2. TableOK(t, cls, tbs)
    BY DEF TableOK
  <2> QED
    BY <2>1, <2>2
<1> QED
  BY <1>1, <1>2

LEMMA WriteListExists ==
  ASSUME NEW table, NEW base \in Int, NEW vs, NEW cls, NEW tbs,
         TableOK(table, cls, tbs), IsSeq(vs), AllExist(vs, cls, tbs)
  PROVE  TableOK(WriteList(table, base, vs), cls, tbs)
<1> DEFINE Keys(js) == {Num(base + j) : j \in js}
           written == Keys({j \in DOMAIN vs : vs[j] # Nil})
           t == [k \in (DOMAIN table \ Keys(DOMAIN vs)) \cup written |->
                   IF k \in written THEN vs[k[2] - base] ELSE table[k]]
<1>1. WriteList(table, base, vs) = t
  BY DEF WriteList
<1>2. DOMAIN vs = 1..Len(vs)
  BY DEF IsSeq
<1>3. ASSUME NEW k \in written PROVE Exists(vs[k[2] - base], cls, tbs)
  <2>1. PICK j \in DOMAIN vs : k = Num(base + j)
    BY <1>3
  <2>2. k[2] = base + j
    BY <2>1 DEF Num
  <2>3. k[2] - base = j
    BY <2>1, <2>2, <1>2
  <2> QED
    BY <2>1, <2>3, <1>2 DEF AllExist
<1>4. TableOK(t, cls, tbs)
  <2> HIDE DEF written
  <2> QED
    BY <1>3 DEF TableOK
<1> QED
  BY <1>1, <1>4

LEMMA NthExists ==
  ASSUME NEW vs, NEW n \in Nat \ {0}, NEW cls, NEW tbs, IsSeq(vs), AllExist(vs, cls, tbs)
  PROVE  Exists(Nth(vs, n), cls, tbs)
  BY NilExists DEF Nth, AllExist, IsSeq

LEMMA AdjustedIs ==
  ASSUME NEW vs, NEW n \in Int, NEW cls, NEW tbs, IsSeq(vs), AllExist(vs, cls, tbs)
  PROVE  /\ IsSeq(Adjusted(vs, n)) /\ AllExist(Adjusted(vs, n), cls, tbs)
         /\ Len(Adjusted(vs, n)) = IF n >= 0 THEN n ELSE 0
<1> DEFINE m == IF n >= 0 THEN n ELSE 0
           t == Adjusted(vs, n)
<1>1. 1..n = 1..m /\ m \in Nat
  OBVIOUS
<1>2. t = [i \in 1..m |-> t[i]] /\ \A i \in 1..m : t[i] = Nth(vs, i)
  BY <1>1 DEF Adjusted
<1>3. IsSeq(t) /\ Len(t) = m
  <2> HIDE DEF t, m
  <2> QED
    BY <1>1, <1>2, SeqFrom
<1>4. AllExist(t, cls, tbs)
  <2>1. ASSUME NEW i \in 1..m PROVE Exists(Nth(vs, i), cls, tbs)
    BY NthExists
  <2> QED
    BY <1>2, <1>3, <2>1 DEF AllExist
<1> QED
  BY <1>3, <1>4

LEMMA SingleIs ==
  ASSUME NEW v, NEW cls, NEW tbs, Exists(v, cls, tbs)
  PROVE  IsSeq(<<v>>) /\ AllExist(<<v>>, cls, tbs) /\ Len(<<v>>) = 1
  BY OneIs DEF AllExist

LEMMA NoneIs == ASSUME NEW cls, NEW tbs PROVE IsSeq(<<>>) /\ AllExist(<<>>, cls, tbs) /\ Len(<<>>) = 0
  BY EmptyIs DEF AllExist

LEMMA LargerIs == ASSUME NEW m \in Int, NEW n \in Int PROVE Max({m, n}) = IF m >= n THEN m ELSE n
  BY DEF Max

LEMMA SmallerIs == ASSUME NEW m \in Int, NEW n \in Int PROVE Min({m, n}) = IF m <= n THEN m ELSE n
  BY DEF Min

(***************************************************************************)
(* A frame goes on.                                                        *)
(***************************************************************************)
\* What discipline says of the instruction a frame is at and of those it can go to.
PlaceOK(p, pc) ==
  /\ pc \in DOMAIN Facts(p)
  /\ PositionDisciplined(p, Facts(p), pc)
  /\ \A next \in Successors(p, pc) :
       StepDisciplined(p, Facts(p), pc, next) /\ PositionDisciplined(p, Facts(p), next)
  /\ At(p, pc).op \in {"GETUPVAL", "SETUPVAL"} => At(p, pc).b \in 0..(p.ups - 1)

ProtoOK(p) ==
  /\ p.params \in 0..p.max /\ p.max \in 0..RKBase /\ p.ups \in Nat
  /\ \A k \in DOMAIN p.consts : p.consts[k][1] \notin {"function", "table"}
  /\ 0 \in DOMAIN Facts(p) /\ Facts(p)[0].assigned \subseteq 0..(p.params - 1)
  /\ ~TakesList(At(p, 0))
  /\ \A pc \in DOMAIN Facts(p) : PlaceOK(p, pc)

LEMMA WindowSize == ASSUME NEW p, ProtoOK(p) PROVE p.max \in Nat /\ p.max <= 256 /\ p.params \in 0..p.max
  BY DEF ProtoOK, RKBase

LEMMA ProtosOK ==
  ASSUME NEW u, AllDisciplined(u), NEW path \in DOMAIN u
  PROVE  /\ ProtoOK(u[path])
         /\ \A pc \in DOMAIN Facts(u[path]) :
              At(u[path], pc).op = "CLOSURE" => ClosureDisciplined(u, path, pc)
<1> DEFINE p == u[path]
           fs == Facts(p)
<1>1. Disciplined(u, path)
  BY DEF AllDisciplined
<1>2. \A pc \in DOMAIN fs :
        /\ PositionDisciplined(p, fs, pc)
        /\ \A next \in Successors(p, pc) : StepDisciplined(p, fs, pc, next)
        /\ At(p, pc).op = "CLOSURE" => ClosureDisciplined(u, path, pc)
        /\ At(p, pc).op \in {"GETUPVAL", "SETUPVAL"} => At(p, pc).b \in 0..(p.ups - 1)
  BY <1>1 DEF Disciplined
<1>3. \A pc \in DOMAIN fs : \A next \in Successors(p, pc) : next \in DOMAIN fs
  BY <1>2 DEF StepDisciplined
<1>4. \A pc \in DOMAIN fs : PlaceOK(p, pc)
  BY <1>2, <1>3 DEF PlaceOK
<1> QED
  BY <1>1, <1>2, <1>4 DEF Disciplined, ProtoOK

LEMMA FrameAt ==
  ASSUME NEW u, NEW f, NEW cls, NEW tbs, NEW cs, AllDisciplined(u), ClosuresOK(u, cls, cs),
         FrameOK(u, f, cls, tbs)
  PROVE  /\ cls[f.closure].path \in DOMAIN u
         /\ ProtoOK(ProtoOf(u, cls, f.closure))
         /\ PlaceOK(ProtoOf(u, cls, f.closure), f.pc)
<1>1. cls[f.closure].path \in DOMAIN u
  BY DEF FrameOK, ClosuresOK, ClosureOK
<1>2. ProtoOK(ProtoOf(u, cls, f.closure))
  BY <1>1, ProtosOK DEF ProtoOf
<1> QED
  BY <1>1, <1>2 DEF FrameOK, ProtoOK

\* A frame becomes another by writing the registers in W and by lowering no top.
Steps(p, f, g, W, cls, tbs) ==
  /\ IsFrame(g) /\ g.closure = f.closure /\ g.varargs = f.varargs
  /\ DOMAIN g.regs = DOMAIN f.regs
  /\ \A r \in DOMAIN g.regs : Exists(g.regs[r], cls, tbs)
  /\ g.top \in 0..Slots(p, f) /\ f.top <= g.top
  /\ W \subseteq 0..(g.top - 1)
  /\ g.skipped \in [Everywhere -> SUBSET WindowOf(p)]
  /\ \A way \in Everywhere : g.skipped[way] \subseteq f.skipped[way] \ W

LEMMA StepsWindow ==
  ASSUME NEW p, NEW f, NEW g, NEW W, NEW cls, NEW tbs, Steps(p, f, g, W, cls, tbs),
         Window(p, f, cls, tbs)
  PROVE  Window(p, g, cls, tbs)
  BY DEF Steps, Window, Slots

LEMMA MoveKeeps ==
  ASSUME NEW p, NEW f, NEW g, NEW W, NEW cls, NEW tbs, PlaceOK(p, f.pc), p.max \in Nat,
         Window(p, f, cls, tbs), NothingLost(p, f), Steps(p, f, g, W, cls, tbs),
         g.pc \in Successors(p, f.pc), ~SetsTop(At(p, f.pc)),
         Gains(p, f.pc, g.pc) \cup Kills(p, f.pc) \subseteq W
  PROVE  NothingLost(p, g)
<1> DEFINE pc == f.pc
           next == g.pc
           here == Facts(p)[pc].assigned
           there == Facts(p)[next].assigned
           liveHere == p.live[pc]
           liveThere == p.live[next]
<1>1. StepDisciplined(p, Facts(p), pc, next) /\ PositionDisciplined(p, Facts(p), next)
      /\ PositionDisciplined(p, Facts(p), pc)
  BY DEF PlaceOK
<1>2. there \subseteq here \cup W
  BY <1>1 DEF StepDisciplined, Keeps
<1>3. liveThere.registers \subseteq liveHere.registers \cup W
      /\ liveHere.dynamicTopStart <= liveThere.dynamicTopStart
  BY <1>1 DEF StepDisciplined
<1>4. liveHere.dynamicTopStart \in Nat /\ liveThere.dynamicTopStart \in Nat
      /\ there \subseteq WindowOf(p) /\ here \subseteq WindowOf(p)
  BY <1>1 DEF PositionDisciplined
<1>5. /\ f.top \in Int /\ g.top \in Int /\ f.top <= g.top /\ W \subseteq 0..(g.top - 1)
      /\ \A way \in Everywhere : g.skipped[way] \subseteq f.skipped[way] \ W
      /\ \A way \in Everywhere : f.skipped[way] \subseteq WindowOf(p)
  BY DEF Steps, Window, Slots, IsSeq
<1>6. ~TakesList(At(p, next))
  BY <1>1 DEF StepDisciplined, ListMade, MakesList, SetsTop
<1>7. /\ here \subseteq 0..(f.top - 1)
      /\ f.skipped["interpreted"] \cap here = {}
      /\ f.skipped["native"] \cap liveHere.registers = {}
      /\ \A r \in f.skipped["native"] \cap here : r < liveHere.dynamicTopStart
  BY DEF NothingLost
<1>8. "native" \in Everywhere /\ "interpreted" \in Everywhere
  BY DEF Everywhere
<1> HIDE DEF here, there, liveHere, liveThere
<1>9. there \subseteq 0..(g.top - 1)
  BY <1>2, <1>5, <1>7
<1>10. g.skipped["interpreted"] \cap there = {}
  BY <1>2, <1>5, <1>7, <1>8
<1>11. g.skipped["native"] \cap liveThere.registers = {}
  BY <1>3, <1>5, <1>7, <1>8
<1>12. \A r \in g.skipped["native"] \cap there : r < liveThere.dynamicTopStart
  <2> SUFFICES ASSUME NEW r \in g.skipped["native"], r \in there PROVE r < liveThere.dynamicTopStart
    OBVIOUS
  <2>1. r \in f.skipped["native"] /\ r \in here
    BY <1>2, <1>5, <1>8
  <2>2. r \in Int
    BY <1>4 DEF WindowOf
  <2> QED
    BY <2>1, <2>2, <1>3, <1>4, <1>7
<1> QED
  BY <1>6, <1>9, <1>10, <1>11, <1>12 DEF NothingLost, there, liveThere

LEMMA MoveOK ==
  ASSUME NEW u, NEW f, NEW g, NEW W, NEW cls, NEW tbs, FrameOK(u, f, cls, tbs),
         NEW p, p = ProtoOf(u, cls, f.closure), ProtoOK(p), Steps(p, f, g, W, cls, tbs),
         g.pc \in Successors(p, f.pc), ~SetsTop(At(p, f.pc)),
         Gains(p, f.pc, g.pc) \cup Kills(p, f.pc) \subseteq W
  PROVE  FrameOK(u, g, cls, tbs)
<1>1. PlaceOK(p, f.pc) /\ p.max \in Nat
  <2>1. f.pc \in DOMAIN Facts(p)
    BY DEF FrameOK
  <2>2. PlaceOK(p, f.pc)
    BY <2>1 DEF ProtoOK
  <2> QED
    BY <2>2, WindowSize
<1>2. NothingLost(p, g) /\ Window(p, g, cls, tbs)
  BY <1>1, MoveKeeps, StepsWindow DEF FrameOK
<1>3. g.pc \in DOMAIN Facts(p)
  BY <1>1 DEF PlaceOK, StepDisciplined
<1> QED
  BY <1>2, <1>3 DEF FrameOK, Steps

\* A list of results takes the place of what lies above.
ListSteps(p, f, g, a, n, cls, tbs) ==
  /\ IsFrame(g) /\ g.closure = f.closure /\ g.varargs = f.varargs
  /\ DOMAIN g.regs = DOMAIN f.regs
  /\ \A r \in DOMAIN g.regs : Exists(g.regs[r], cls, tbs)
  /\ g.top = a + n /\ g.top \in 0..Slots(p, f)
  /\ g.skipped \in [Everywhere -> SUBSET WindowOf(p)]
  /\ \A way \in Everywhere : g.skipped[way] \subseteq f.skipped[way] \ a..(a + n - 1)

LEMMA ListKeeps ==
  ASSUME NEW p, NEW f, NEW g, NEW n \in Nat, NEW cls, NEW tbs, PlaceOK(p, f.pc), p.max \in Nat,
         Window(p, f, cls, tbs), NothingLost(p, f), ListSteps(p, f, g, At(p, f.pc).a, n, cls, tbs),
         g.pc \in Successors(p, f.pc), SetsTop(At(p, f.pc)),
         Kills(p, f.pc) \subseteq At(p, f.pc).a..(At(p, f.pc).a + n - 1)
  PROVE  NothingLost(p, g)
<1> DEFINE pc == f.pc
           next == g.pc
           a == At(p, pc).a
           W == a..(a + n - 1)
           here == Facts(p)[pc].assigned
           there == Facts(p)[next].assigned
           liveHere == p.live[pc]
           liveThere == p.live[next]
           start == ListStart(At(p, next))
<1>1. StepDisciplined(p, Facts(p), pc, next) /\ PositionDisciplined(p, Facts(p), next)
      /\ PositionDisciplined(p, Facts(p), pc)
  BY DEF PlaceOK
<1>2. a \in Nat /\ At(p, next).a \in Nat
  BY <1>1 DEF PositionDisciplined
<1>3. Gains(p, pc, next) = Kills(p, pc)
  BY DEF SetsTop, Gains
<1>4. there \subseteq {r \in here : r < a} \cup W
  BY <1>1, <1>3 DEF StepDisciplined, Keeps
<1>5. liveThere.registers \subseteq liveHere.registers \cup W
      /\ liveHere.dynamicTopStart <= liveThere.dynamicTopStart
  BY <1>1 DEF StepDisciplined
<1>6. /\ liveHere.dynamicTopStart \in Nat /\ liveThere.dynamicTopStart \in Nat
      /\ there \subseteq WindowOf(p) /\ here \subseteq WindowOf(p)
      /\ TakesList(At(p, next)) => liveThere.dynamicTopStart <= start
  BY <1>1 DEF PositionDisciplined
<1>7. /\ g.top = a + n
      /\ \A way \in Everywhere : g.skipped[way] \subseteq f.skipped[way] \ W
      /\ \A way \in Everywhere : f.skipped[way] \subseteq WindowOf(p)
  BY DEF ListSteps, Window
<1>8. /\ here \subseteq 0..(f.top - 1)
      /\ f.skipped["interpreted"] \cap here = {}
      /\ f.skipped["native"] \cap liveHere.registers = {}
      /\ \A r \in f.skipped["native"] \cap here : r < liveHere.dynamicTopStart
  BY DEF NothingLost
<1>9. "native" \in Everywhere /\ "interpreted" \in Everywhere /\ Everywhere = {"native", "interpreted"}
  BY DEF Everywhere
<1>10. TakesList(At(p, next)) => start <= a /\ start..(a - 1) \subseteq here
  BY <1>1 DEF StepDisciplined, ListMade
<1>11. start \in Nat
  BY <1>2 DEF ListStart
<1> HIDE DEF here, there, liveHere, liveThere, start, a
<1>12. there \subseteq 0..(g.top - 1)
  BY <1>2, <1>4, <1>6, <1>7 DEF WindowOf
<1>13. g.skipped["interpreted"] \cap there = {}
  BY <1>4, <1>7, <1>8, <1>9
<1>14. g.skipped["native"] \cap liveThere.registers = {}
  BY <1>5, <1>7, <1>8, <1>9
<1>15. \A r \in g.skipped["native"] \cap there : r < liveThere.dynamicTopStart
  <2> SUFFICES ASSUME NEW r \in g.skipped["native"], r \in there PROVE r < liveThere.dynamicTopStart
    OBVIOUS
  <2>1. r \in f.skipped["native"] /\ r \in here
    BY <1>4, <1>7, <1>9
  <2>2. r \in Int
    BY <1>6 DEF WindowOf
  <2> QED
    BY <2>1, <2>2, <1>5, <1>6, <1>8
<1>16. ASSUME TakesList(At(p, next)), NEW way \in Everywhere
       PROVE  g.skipped[way] \cap start..(g.top - 1) = {}
  <2> SUFFICES ASSUME NEW r \in g.skipped[way], r \in start..(g.top - 1) PROVE FALSE
    OBVIOUS
  <2>1. r \in f.skipped[way] /\ r \notin W /\ r \in Int
    BY <1>7
  <2>2. r \in start..(a - 1)
    BY <2>1, <1>2, <1>7, <1>11
  <2>3. r \in here
    BY <2>2, <1>10, <1>16
  <2>4. CASE way = "interpreted"
    BY <2>1, <2>3, <2>4, <1>8
  <2>5. CASE way = "native"
    <3>1. r < liveHere.dynamicTopStart
      BY <2>1, <2>3, <2>5, <1>8
    <3>2. liveThere.dynamicTopStart <= start
      BY <1>6, <1>16
    <3> QED
      BY <3>1, <3>2, <2>1, <2>2, <1>5, <1>6, <1>11
  <2> QED
    BY <2>4, <2>5, <1>9
<1> QED
  BY <1>12, <1>13, <1>14, <1>15, <1>16 DEF NothingLost, there, liveThere, start

LEMMA ListOK ==
  ASSUME NEW u, NEW f, NEW g, NEW n \in Nat, NEW cls, NEW tbs, FrameOK(u, f, cls, tbs),
         NEW p, p = ProtoOf(u, cls, f.closure), ProtoOK(p),
         ListSteps(p, f, g, At(p, f.pc).a, n, cls, tbs),
         g.pc \in Successors(p, f.pc), SetsTop(At(p, f.pc)),
         Kills(p, f.pc) \subseteq At(p, f.pc).a..(At(p, f.pc).a + n - 1)
  PROVE  FrameOK(u, g, cls, tbs)
<1>1. PlaceOK(p, f.pc) /\ p.max \in Nat
  <2>1. f.pc \in DOMAIN Facts(p)
    BY DEF FrameOK
  <2>2. PlaceOK(p, f.pc)
    BY <2>1 DEF ProtoOK
  <2> QED
    BY <2>2, WindowSize
<1>2. NothingLost(p, g)
  BY <1>1, ListKeeps DEF FrameOK
<1>3. Window(p, g, cls, tbs)
  BY DEF FrameOK, Window, ListSteps, Slots
<1>4. g.pc \in DOMAIN Facts(p)
  BY <1>1 DEF PlaceOK, StepDisciplined
<1> QED
  BY <1>2, <1>3, <1>4 DEF FrameOK, ListSteps

(***************************************************************************)
(* Writing registers.                                                      *)
(***************************************************************************)
LEMMA EmptyOnly == ASSUME NEW s, IsSeq(s) PROVE (s = <<>>) = (Len(s) = 0)
<1>1. Len(<<>>) = 0
  OBVIOUS
<1>2. ASSUME Len(s) = 0 PROVE s = <<>>
  <2>1. s = [i \in 1..0 |-> s[i]]
    BY <1>2 DEF IsSeq
  <2>2. <<>> = [i \in 1..0 |-> s[i]]
    OBVIOUS
  <2> QED
    BY <2>1, <2>2
<1> QED
  BY <1>1, <1>2

LEMMA StepsNone ==
  ASSUME NEW p, NEW f, NEW cls, NEW tbs, IsFrame(f), Window(p, f, cls, tbs)
  PROVE  Steps(p, f, f, {}, cls, tbs)
  BY DEF Steps, Window, Slots, IsSeq

LEMMA StepsThen ==
  ASSUME NEW p, NEW f, NEW g, NEW h, NEW W, NEW V, NEW cls, NEW tbs,
         Steps(p, f, g, W, cls, tbs), Steps(p, g, h, V, cls, tbs), Window(p, f, cls, tbs)
  PROVE  Steps(p, f, h, W \cup V, cls, tbs)
<1>1. f.top \in Int /\ g.top \in Int /\ h.top \in Int
  BY DEF Steps, Window, Slots, IsSeq
<1>2. \A way \in Everywhere : h.skipped[way] \subseteq f.skipped[way] \ (W \cup V)
  BY DEF Steps
<1>3. W \cup V \subseteq 0..(h.top - 1)
  BY <1>1 DEF Steps
<1>4. f.top <= h.top
  BY <1>1 DEF Steps
<1> QED
  BY <1>2, <1>3, <1>4 DEF Steps, Slots

LEMMA GotoIs ==
  ASSUME NEW f, NEW t, IsFrame(f)
  PROVE  LET g == Goto(f, t)
         IN /\ IsFrame(g) /\ g.pc = t /\ g.closure = f.closure /\ g.varargs = f.varargs
            /\ g.regs = f.regs /\ g.top = f.top /\ g.skipped = f.skipped
  BY DEF IsFrame, Goto

LEMMA GotoSteps ==
  ASSUME NEW p, NEW f, NEW g, NEW t, NEW W, NEW cls, NEW tbs, Steps(p, f, g, W, cls, tbs)
  PROVE  Steps(p, f, Goto(g, t), W, cls, tbs) /\ Goto(g, t).pc = t
<1> DEFINE h == Goto(g, t)
<1>1. IsFrame(g)
  BY DEF Steps
<1>2. /\ IsFrame(h) /\ h.pc = t /\ h.closure = g.closure /\ h.varargs = g.varargs
      /\ h.regs = g.regs /\ h.top = g.top /\ h.skipped = g.skipped
  BY <1>1, GotoIs
<1> HIDE DEF h
<1>3. Steps(p, f, h, W, cls, tbs)
  BY <1>2 DEF Steps
<1> QED
  BY <1>2, <1>3 DEF h

LEMMA NextIs == ASSUME NEW f, IsFrame(f) PROVE Next1(f) = Goto(f, f.pc + 1)
  BY DEF IsFrame, Next1, Goto

StoredAs(f, g, a, vs) ==
  LET W == a..(a + Len(vs) - 1)
  IN /\ IsFrame(g) /\ g.pc = f.pc /\ g.closure = f.closure /\ g.varargs = f.varargs
     /\ g.regs = [r \in DOMAIN f.regs |-> IF r \in W THEN vs[r - a + 1] ELSE f.regs[r]]
     /\ g.top = IF vs = <<>> THEN f.top ELSE Max({f.top, a + Len(vs)})
     /\ g.skipped = [way \in Everywhere |-> f.skipped[way] \ W]

LEMMA StoredIs ==
  ASSUME NEW f, NEW a, NEW vs, IsFrame(f)
  PROVE  StoredAs(f, Stored(f, a, vs), a, vs)
<1> DEFINE W == a..(a + Len(vs) - 1)
           R == [r \in DOMAIN f.regs |-> IF r \in W THEN vs[r - a + 1] ELSE f.regs[r]]
           T == IF vs = <<>> THEN f.top ELSE Max({f.top, a + Len(vs)})
           K == [way \in Everywhere |-> f.skipped[way] \ W]
<1>1. Stored(f, a, vs) = [f EXCEPT !.regs = R, !.top = T, !.skipped = K]
  BY DEF Stored
<1> HIDE DEF R, T, K
<1>2. IsFrame(Stored(f, a, vs)) /\ Stored(f, a, vs).pc = f.pc
      /\ Stored(f, a, vs).closure = f.closure /\ Stored(f, a, vs).varargs = f.varargs
      /\ Stored(f, a, vs).regs = R /\ Stored(f, a, vs).top = T /\ Stored(f, a, vs).skipped = K
  BY <1>1 DEF IsFrame
<1> QED
  BY <1>2 DEF StoredAs, R, T, K

LEMMA StoredSteps ==
  ASSUME NEW p, NEW f, NEW a \in Nat, NEW vs, NEW cls, NEW tbs, IsFrame(f), p.max \in Nat,
         Window(p, f, cls, tbs), IsSeq(vs), AllExist(vs, cls, tbs), a + Len(vs) <= Slots(p, f)
  PROVE  Steps(p, f, Stored(f, a, vs), a..(a + Len(vs) - 1), cls, tbs)
<1> DEFINE g == Stored(f, a, vs)
           W == a..(a + Len(vs) - 1)
<1>1. /\ IsFrame(g) /\ g.pc = f.pc /\ g.closure = f.closure /\ g.varargs = f.varargs
      /\ g.regs = [r \in DOMAIN f.regs |-> IF r \in W THEN vs[r - a + 1] ELSE f.regs[r]]
      /\ g.top = IF vs = <<>> THEN f.top ELSE Max({f.top, a + Len(vs)})
      /\ g.skipped = [way \in Everywhere |-> f.skipped[way] \ W]
  <2>1. StoredAs(f, g, a, vs)
    BY StoredIs
  <2> HIDE DEF g
  <2> QED
    BY <2>1 DEF StoredAs
<1>2. Len(vs) \in Nat /\ Slots(p, f) \in Nat /\ f.top \in 0..Slots(p, f)
  BY DEF IsSeq, Window, Slots
<1>3. Max({f.top, a + Len(vs)}) = IF f.top >= a + Len(vs) THEN f.top ELSE a + Len(vs)
  BY <1>2, LargerIs
<1>4. (vs = <<>>) = (Len(vs) = 0)
  BY EmptyOnly
<1> HIDE DEF g
<1>5. g.top \in 0..Slots(p, f) /\ f.top <= g.top /\ W \subseteq 0..(g.top - 1)
  <2>1. CASE vs = <<>>
    <3>1. g.top = f.top /\ Len(vs) = 0
      BY <1>1, <1>4, <2>1
    <3> QED
      BY <3>1, <1>2
  <2>2. CASE vs # <<>>
    <3>1. g.top = IF f.top >= a + Len(vs) THEN f.top ELSE a + Len(vs)
      BY <1>1, <1>3, <2>2
    <3> QED
      BY <3>1, <1>2
  <2> QED
    BY <2>1, <2>2
<1>6. \A r \in DOMAIN g.regs : Exists(g.regs[r], cls, tbs)
  <2>1. \A r \in W : r - a + 1 \in 1..Len(vs)
    BY <1>2
  <2> QED
    BY <2>1, <1>1 DEF Window, AllExist
<1>7. g.skipped \in [Everywhere -> SUBSET WindowOf(p)]
      /\ \A way \in Everywhere : g.skipped[way] \subseteq f.skipped[way] \ W
  BY <1>1 DEF Window
<1>8. DOMAIN g.regs = DOMAIN f.regs
  BY <1>1
<1> HIDE DEF W
<1>9. Steps(p, f, g, W, cls, tbs)
  BY <1>1, <1>5, <1>6, <1>7, <1>8 DEF Steps
<1> QED
  BY <1>9 DEF g, W

(***************************************************************************)
(* The collector looks at a frame.                                         *)
(***************************************************************************)
\* It may pass over any register that its way to find them does not lead to.
Looks(p, f, g) ==
  /\ IsFrame(g) /\ g.closure = f.closure /\ g.pc = f.pc /\ g.varargs = f.varargs
  /\ g.regs = f.regs /\ g.top = f.top
  /\ g.skipped \in [Everywhere -> SUBSET WindowOf(p)]
  /\ \A r \in g.skipped["interpreted"] \ f.skipped["interpreted"] : r \notin 0..(f.top - 1)
  /\ \A r \in g.skipped["native"] \ f.skipped["native"] : r \notin CompiledRoots(p.live, f.pc, f.top)

LEMMA LooksKeeps ==
  ASSUME NEW p, NEW f, NEW g, NEW cls, NEW tbs, PlaceOK(p, f.pc), p.max \in Nat,
         Window(p, f, cls, tbs), NothingLost(p, f), Looks(p, f, g)
  PROVE  NothingLost(p, g)
<1> DEFINE here == Facts(p)[f.pc].assigned
           live == p.live[f.pc]
           start == ListStart(At(p, f.pc))
<1>1. PositionDisciplined(p, Facts(p), f.pc)
  BY DEF PlaceOK
<1>2. /\ live.dynamicTopStart \in Nat /\ here \subseteq WindowOf(p)
      /\ TakesList(At(p, f.pc)) => live.dynamicTopStart <= start
      /\ At(p, f.pc).a \in Nat
  BY <1>1 DEF PositionDisciplined
<1>3. start \in Nat /\ f.top \in Int
  BY <1>2 DEF ListStart, Window, Slots, IsSeq
<1>4. Everywhere = {"native", "interpreted"}
  BY DEF Everywhere
<1>5. /\ here \subseteq 0..(f.top - 1)
      /\ f.skipped["interpreted"] \cap here = {}
      /\ f.skipped["native"] \cap live.registers = {}
      /\ \A r \in f.skipped["native"] \cap here : r < live.dynamicTopStart
      /\ TakesList(At(p, f.pc)) => \A way \in Everywhere : f.skipped[way] \cap start..(f.top - 1) = {}
  BY DEF NothingLost
<1>6. /\ \A r \in g.skipped["interpreted"] \ f.skipped["interpreted"] : r \notin 0..(f.top - 1)
      /\ \A r \in g.skipped["native"] \ f.skipped["native"] :
           r \notin live.registers /\ r \notin live.dynamicTopStart..(f.top - 1)
      /\ g.pc = f.pc /\ g.top = f.top
  BY DEF Looks, CompiledRoots
<1> HIDE DEF here, live, start
<1>7. g.skipped["interpreted"] \cap here = {}
  BY <1>5, <1>6
<1>8. g.skipped["native"] \cap live.registers = {}
  BY <1>5, <1>6
<1>9. \A r \in g.skipped["native"] \cap here : r < live.dynamicTopStart
  <2> SUFFICES ASSUME NEW r \in g.skipped["native"], r \in here PROVE r < live.dynamicTopStart
    OBVIOUS
  <2>1. r \in Int /\ r <= f.top - 1
    BY <1>3, <1>5
  <2>2. CASE r \in f.skipped["native"]
    BY <2>2, <1>5
  <2>3. CASE r \notin f.skipped["native"]
    BY <2>1, <2>3, <1>2, <1>3, <1>6
  <2> QED
    BY <2>2, <2>3
<1>10. ASSUME TakesList(At(p, f.pc)), NEW way \in Everywhere
       PROVE  g.skipped[way] \cap start..(f.top - 1) = {}
  <2> SUFFICES ASSUME NEW r \in g.skipped[way], r \in start..(f.top - 1) PROVE FALSE
    OBVIOUS
  <2>1. r \notin f.skipped[way]
    BY <1>5, <1>10
  <2>2. r \in 0..(f.top - 1) /\ r \in live.dynamicTopStart..(f.top - 1)
    BY <1>2, <1>3, <1>10
  <2> QED
    BY <2>1, <2>2, <1>4, <1>6
<1> QED
  BY <1>5, <1>6, <1>7, <1>8, <1>9, <1>10 DEF NothingLost, here, live, start

LEMMA LooksOK ==
  ASSUME NEW u, NEW f, NEW g, NEW cls, NEW tbs, FrameOK(u, f, cls, tbs),
         NEW p, p = ProtoOf(u, cls, f.closure), ProtoOK(p), Looks(p, f, g)
  PROVE  FrameOK(u, g, cls, tbs)
<1>1. PlaceOK(p, f.pc) /\ p.max \in Nat
  <2>1. f.pc \in DOMAIN Facts(p)
    BY DEF FrameOK
  <2>2. PlaceOK(p, f.pc)
    BY <2>1 DEF ProtoOK
  <2> QED
    BY <2>2, WindowSize
<1>2. NothingLost(p, g)
  BY <1>1, LooksKeeps DEF FrameOK
<1>3. Window(p, g, cls, tbs)
  BY DEF FrameOK, Window, Looks, Slots
<1> QED
  BY <1>2, <1>3 DEF FrameOK, Looks

(***************************************************************************)
(* The parts of the heap.                                                  *)
(***************************************************************************)
\* Closures and tables are added; closures stay what they are.
Grown(cls, tbs, cls2, tbs2) ==
  /\ IsSeq(cls) /\ IsSeq(cls2) /\ IsSeq(tbs) /\ IsSeq(tbs2)
  /\ Len(cls) <= Len(cls2) /\ Len(tbs) <= Len(tbs2)
  /\ \A c \in 1..Len(cls) : cls2[c] = cls[c]

LEMMA GrownExists ==
  ASSUME NEW v, NEW cls, NEW tbs, NEW cls2, NEW tbs2, Grown(cls, tbs, cls2, tbs2),
         Exists(v, cls, tbs)
  PROVE  Exists(v, cls2, tbs2)
  BY ExistsGrows DEF Grown, IsSeq

LEMMA GrownTable ==
  ASSUME NEW t, NEW cls, NEW tbs, NEW cls2, NEW tbs2, Grown(cls, tbs, cls2, tbs2),
         TableOK(t, cls, tbs)
  PROVE  TableOK(t, cls2, tbs2)
  BY GrownExists DEF TableOK

LEMMA GrownFrame ==
  ASSUME NEW u, NEW f, NEW cls, NEW tbs, NEW cls2, NEW tbs2, Grown(cls, tbs, cls2, tbs2),
         FrameOK(u, f, cls, tbs)
  PROVE  FrameOK(u, f, cls2, tbs2) /\ ProtoOf(u, cls2, f.closure) = ProtoOf(u, cls, f.closure)
<1> DEFINE p == ProtoOf(u, cls, f.closure)
<1>1. f.closure \in 1..Len(cls) /\ f.closure \in 1..Len(cls2)
  BY DEF FrameOK, Grown, IsSeq
<1>2. ProtoOf(u, cls2, f.closure) = p
  BY <1>1 DEF ProtoOf, Grown
<1> HIDE DEF p
<1>3. Window(p, f, cls, tbs)
  BY DEF FrameOK, p
<1>4. Window(p, f, cls2, tbs2)
  <2>1. AllExist(f.varargs, cls2, tbs2)
    BY <1>3, GrownExists DEF Window, AllExist
  <2>2. \A r \in DOMAIN f.regs : Exists(f.regs[r], cls2, tbs2)
    BY <1>3, GrownExists DEF Window
  <2> QED
    BY <1>3, <2>1, <2>2 DEF Window
<1>5. FrameOK(u, f, cls2, tbs2)
  BY <1>1, <1>2, <1>4 DEF FrameOK, p
<1> QED
  BY <1>2, <1>5 DEF p

LEMMA GrownFrames ==
  ASSUME NEW u, NEW frs, NEW cls, NEW tbs, NEW cls2, NEW tbs2, Grown(cls, tbs, cls2, tbs2),
         FramesOK(u, frs, cls, tbs)
  PROVE  /\ FramesOK(u, frs, cls2, tbs2)
         /\ \A d \in 1..Len(frs) : /\ CapturedIn(u, frs[d], cls2) = CapturedIn(u, frs[d], cls)
                                   /\ Waits(u, frs[d], cls2) = Waits(u, frs[d], cls)
<1>1. \A d \in 1..Len(frs) :
        /\ FrameOK(u, frs[d], cls2, tbs2)
        /\ ProtoOf(u, cls2, frs[d].closure) = ProtoOf(u, cls, frs[d].closure)
  BY GrownFrame DEF FramesOK
<1> QED
  BY <1>1 DEF FramesOK, CapturedIn, Waits

LEMMA GrownCells ==
  ASSUME NEW u, NEW frs, NEW cs, NEW cls, NEW tbs, NEW cls2, NEW tbs2,
         Grown(cls, tbs, cls2, tbs2), FramesOK(u, frs, cls, tbs), CellsOK(u, cs, frs, cls, tbs)
  PROVE  CellsOK(u, cs, frs, cls2, tbs2)
<1>1. \A d \in 1..Len(frs) : CapturedIn(u, frs[d], cls2) = CapturedIn(u, frs[d], cls)
  BY GrownFrames
<1>2. Len(frs) \in Nat
  BY DEF FramesOK, IsSeq
<1>3. ASSUME NEW c \in 1..Len(cs) PROVE CellOK(u, cs[c], frs, cls2, tbs2)
  <2>1. CellOK(u, cs[c], frs, cls, tbs)
    BY DEF CellsOK
  <2> QED
    BY <2>1, <1>1, <1>2, GrownExists DEF CellOK
<1> QED
  BY <1>3 DEF CellsOK

\* The frames and cells stay, closures and tables are added or written.
LEMMA GrownState ==
  ASSUME NEW u, NEW frs, NEW cs, NEW cls, NEW tbs, NEW cls2, NEW tbs2,
         Grown(cls, tbs, cls2, tbs2), StateOK(u, frs, cs, cls, tbs),
         ClosuresOK(u, cls2, cs), TablesOK(tbs2, cls2)
  PROVE  StateOK(u, frs, cs, cls2, tbs2)
<1>1. FramesOK(u, frs, cls, tbs) /\ CellsOK(u, cs, frs, cls, tbs)
  BY DEF StateOK, HeapOK
<1>2. FramesOK(u, frs, cls2, tbs2) /\ CellsOK(u, cs, frs, cls2, tbs2)
  BY <1>1, GrownFrames, GrownCells
<1>3. \A d \in 1..(Len(frs) - 1) : Waits(u, frs[d], cls2)
  <2>1. \A d \in 1..(Len(frs) - 1) : d \in 1..Len(frs)
    BY <1>1 DEF FramesOK, IsSeq
  <2> QED
    BY <1>1, <2>1, GrownFrames DEF StateOK
<1> QED
  BY <1>2, <1>3 DEF StateOK, HeapOK

LEMMA CellsFollow ==
  ASSUME NEW u, NEW cs, NEW frs, NEW frs2, NEW cls, NEW tbs, CellsOK(u, cs, frs, cls, tbs),
         Len(frs) \in Nat, Len(frs2) = Len(frs),
         \A d \in 1..Len(frs) : CapturedIn(u, frs[d], cls) \subseteq CapturedIn(u, frs2[d], cls)
  PROVE  CellsOK(u, cs, frs2, cls, tbs)
<1>1. ASSUME NEW c \in 1..Len(cs) PROVE CellOK(u, cs[c], frs2, cls, tbs)
  <2>1. CellOK(u, cs[c], frs, cls, tbs)
    BY DEF CellsOK
  <2> QED
    BY <2>1 DEF CellOK
<1> QED
  BY <1>1 DEF CellsOK

LEMMA FramesReplaced ==
  ASSUME NEW u, NEW frs, NEW g, NEW cls, NEW tbs, FramesOK(u, frs, cls, tbs), Len(frs) >= 1,
         FrameOK(u, g, cls, tbs)
  PROVE  FramesOK(u, Append(Front(frs), g), cls, tbs)
<1> DEFINE t == Append(Front(frs), g)
<1>1. /\ IsSeq(t) /\ Len(t) = Len(frs)
      /\ \A i \in 1..(Len(frs) - 1) : t[i] = frs[i]
      /\ t[Len(frs)] = g
  BY ReplaceIs DEF FramesOK
<1> HIDE DEF t
<1>2. Len(frs) \in Nat
  BY DEF FramesOK, IsSeq
<1>3. ASSUME NEW d \in 1..Len(t) PROVE FrameOK(u, t[d], cls, tbs)
  BY <1>1, <1>2 DEF FramesOK
<1>4. FramesOK(u, t, cls, tbs)
  BY <1>1, <1>3 DEF FramesOK
<1> QED
  BY <1>4 DEF t

\* The running frame becomes another one, the upvalues with it.
LEMMA StateReplaced ==
  ASSUME NEW u, NEW frs, NEW cs, NEW cs2, NEW g, NEW cls, NEW tbs, StateOK(u, frs, cs, cls, tbs),
         FrameOK(u, g, cls, tbs), ClosuresOK(u, cls, cs2),
         CellsOK(u, cs2, Append(Front(frs), g), cls, tbs)
  PROVE  StateOK(u, Append(Front(frs), g), cs2, cls, tbs)
<1> DEFINE t == Append(Front(frs), g)
<1>1. FramesOK(u, frs, cls, tbs) /\ Len(frs) >= 1 /\ IsSeq(frs)
  BY DEF StateOK, HeapOK, FramesOK
<1>2. FramesOK(u, t, cls, tbs)
  BY <1>1, FramesReplaced
<1>3. /\ Len(t) = Len(frs)
      /\ \A i \in 1..(Len(frs) - 1) : t[i] = frs[i]
  BY <1>1, ReplaceIs
<1> HIDE DEF t
<1>4. HeapOK(u, t, cs2, cls, tbs)
  BY <1>2 DEF StateOK, HeapOK, t
<1>5. StateOK(u, t, cs2, cls, tbs)
  BY <1>3, <1>4 DEF StateOK
<1> QED
  BY <1>5 DEF t

LEMMA ReplacedFollow ==
  ASSUME NEW u, NEW frs, NEW g, NEW cls, NEW tbs, FramesOK(u, frs, cls, tbs), Len(frs) >= 1,
         CapturedIn(u, frs[Len(frs)], cls) \subseteq CapturedIn(u, g, cls),
         NEW cs, CellsOK(u, cs, frs, cls, tbs)
  PROVE  CellsOK(u, cs, Append(Front(frs), g), cls, tbs)
<1> DEFINE t == Append(Front(frs), g)
<1>1. /\ IsSeq(t) /\ Len(t) = Len(frs)
      /\ \A i \in 1..(Len(frs) - 1) : t[i] = frs[i]
      /\ t[Len(frs)] = g
  BY ReplaceIs DEF FramesOK
<1> HIDE DEF t
<1>2. Len(frs) \in Nat
  BY DEF FramesOK, IsSeq
<1>3. \A d \in 1..Len(frs) : CapturedIn(u, frs[d], cls) \subseteq CapturedIn(u, t[d], cls)
  BY <1>1, <1>2
<1>4. CellsOK(u, cs, t, cls, tbs)
  BY <1>1, <1>2, <1>3, CellsFollow
<1> QED
  BY <1>4 DEF t

\* What may be captured stays so where no upvalue is closed.
LEMMA CapturedKept ==
  ASSUME NEW u, NEW f, NEW g, NEW cls, NEW p, p = ProtoOf(u, cls, f.closure),
         PlaceOK(p, f.pc), g.closure = f.closure, g.pc \in Successors(p, f.pc)
  PROVE  /\ CapturedIn(u, f, cls) \ ClosedAt(p, f.pc, CapturedIn(u, f, cls))
              \subseteq CapturedIn(u, g, cls)
         /\ CapturedAt(p, f.pc) \subseteq CapturedIn(u, g, cls)
         /\ At(p, f.pc).op # "CLOSE" => CapturedIn(u, f, cls) \subseteq CapturedIn(u, g, cls)
<1>1. StepDisciplined(p, Facts(p), f.pc, g.pc)
  BY DEF PlaceOK
<1>2. CapturedIn(u, f, cls) = Facts(p)[f.pc].captured /\ CapturedIn(u, g, cls) = Facts(p)[g.pc].captured
  BY DEF CapturedIn
<1>3. At(p, f.pc).op # "CLOSE" => ClosedAt(p, f.pc, CapturedIn(u, f, cls)) = {}
  BY DEF ClosedAt
<1> QED
  BY <1>1, <1>2, <1>3 DEF StepDisciplined

LEMMA StateContinues ==
  ASSUME NEW u, NEW frs, NEW cs, NEW cls, NEW tbs, StateOK(u, frs, cs, cls, tbs),
         NEW g, FrameOK(u, g, cls, tbs), NEW p, p = ProtoOf(u, cls, frs[Len(frs)].closure),
         PlaceOK(p, frs[Len(frs)].pc), g.closure = frs[Len(frs)].closure,
         g.pc \in Successors(p, frs[Len(frs)].pc), At(p, frs[Len(frs)].pc).op # "CLOSE"
  PROVE  StateOK(u, Append(Front(frs), g), cs, cls, tbs)
<1>1. CapturedIn(u, frs[Len(frs)], cls) \subseteq CapturedIn(u, g, cls)
  BY CapturedKept
<1>2. FramesOK(u, frs, cls, tbs) /\ Len(frs) >= 1 /\ CellsOK(u, cs, frs, cls, tbs)
      /\ ClosuresOK(u, cls, cs)
  BY DEF StateOK, HeapOK
<1>3. CellsOK(u, cs, Append(Front(frs), g), cls, tbs)
  BY <1>1, <1>2, ReplacedFollow
<1> QED
  BY <1>2, <1>3, StateReplaced

\* The same frames at the same places.
SamePlaces(frs, t) ==
  /\ Len(t) = Len(frs)
  /\ \A d \in 1..Len(frs) : t[d].closure = frs[d].closure /\ t[d].pc = frs[d].pc

LEMMA StateInPlace ==
  ASSUME NEW u, NEW frs, NEW t, NEW cs, NEW cls, NEW tbs, StateOK(u, frs, cs, cls, tbs),
         FramesOK(u, t, cls, tbs), SamePlaces(frs, t)
  PROVE  StateOK(u, t, cs, cls, tbs)
<1>1. Len(frs) \in Nat /\ CellsOK(u, cs, frs, cls, tbs)
  BY DEF StateOK, HeapOK, FramesOK, IsSeq
<1>2. \A d \in 1..Len(frs) : /\ CapturedIn(u, t[d], cls) = CapturedIn(u, frs[d], cls)
                             /\ Waits(u, t[d], cls) = Waits(u, frs[d], cls)
  BY DEF CapturedIn, Waits, SamePlaces
<1>3. CellsOK(u, cs, t, cls, tbs)
  BY <1>1, <1>2, CellsFollow DEF SamePlaces
<1>4. \A d \in 1..(Len(frs) - 1) : Waits(u, t[d], cls)
  BY <1>1, <1>2 DEF StateOK
<1> QED
  BY <1>3, <1>4 DEF StateOK, HeapOK, SamePlaces

(***************************************************************************)
(* The collector looks at the frames.                                      *)
(***************************************************************************)
\* The prototypes of the frames, with closures that were added since.
SameProtos(frs, cls) ==
  \A d \in 1..Len(frs) : Proto(frs[d].closure) = ProtoOf(unit, cls, frs[d].closure)

LEMMA ScannedIs ==
  ASSUME NEW frs, NEW cs, NEW ways, NEW d \in DOMAIN frs, IsFrame(frs[d]),
         NEW p, p = Proto(frs[d].closure), p.max \in Nat, NEW cls, NEW tbs, Window(p, frs[d], cls, tbs)
  PROVE  Looks(p, frs[d], Scanned(frs, cs, ways)[d])
<1> DEFINE f == frs[d]
           holding == {r \in DOMAIN f.regs : IsReference(f.regs[r]) /\ r \notin Open(d, cs)}
           visited(way) == IF way = "interpreted" THEN InterpretedRoots(f)
                           ELSE CompiledRoots(p.live, f.pc, f.top)
           window == {r \in holding : r < p.max}
           K == [way \in Everywhere |->
                   IF way \in ways THEN f.skipped[way] \cup (window \ visited(way)) ELSE f.skipped[way]]
           g == Scanned(frs, cs, ways)[d]
<1>1. g = [f EXCEPT !.skipped = K]
  BY DEF Scanned
<1>2. window \subseteq WindowOf(p)
  BY DEF Window, WindowOf
<1>3. \A way \in Everywhere : f.skipped[way] \subseteq WindowOf(p)
  BY DEF Window
<1> HIDE DEF window, f
<1>4. K \in [Everywhere -> SUBSET WindowOf(p)]
  BY <1>2, <1>3
<1>5. "native" \in Everywhere /\ "interpreted" \in Everywhere
  BY DEF Everywhere
<1>6. /\ \A r \in K["interpreted"] \ f.skipped["interpreted"] : r \notin 0..(f.top - 1)
      /\ \A r \in K["native"] \ f.skipped["native"] : r \notin CompiledRoots(p.live, f.pc, f.top)
  BY <1>5 DEF InterpretedRoots
<1> HIDE DEF K, g
<1>7. /\ IsFrame(g) /\ g.closure = f.closure /\ g.pc = f.pc /\ g.varargs = f.varargs
      /\ g.regs = f.regs /\ g.top = f.top /\ g.skipped = K
  <2>1. IsFrame(f)
    BY DEF f
  <2> QED
    BY <1>1, <2>1 DEF IsFrame
<1>8. Looks(p, f, g)
  BY <1>4, <1>6, <1>7 DEF Looks
<1> QED
  BY <1>8 DEF f, g

LEMMA ScannedFrames ==
  ASSUME NEW frs, NEW cs, NEW ways, NEW cls, NEW tbs, NEW cs1, AllDisciplined(unit),
         ClosuresOK(unit, cls, cs1), FramesOK(unit, frs, cls, tbs), SameProtos(frs, cls)
  PROVE  /\ FramesOK(unit, Scanned(frs, cs, ways), cls, tbs)
         /\ SamePlaces(frs, Scanned(frs, cs, ways))
<1> DEFINE t == Scanned(frs, cs, ways)
<1>1. Len(frs) \in Nat /\ DOMAIN frs = 1..Len(frs)
  BY DEF FramesOK, IsSeq
<1>2. DOMAIN t = 1..Len(frs) /\ t = [d \in 1..Len(frs) |-> t[d]]
  BY <1>1 DEF Scanned
<1>3. ASSUME NEW d \in 1..Len(frs)
      PROVE  FrameOK(unit, t[d], cls, tbs) /\ t[d].closure = frs[d].closure /\ t[d].pc = frs[d].pc
  <2> DEFINE p == Proto(frs[d].closure)
             g == t[d]
  <2>1. FrameOK(unit, frs[d], cls, tbs) /\ p = ProtoOf(unit, cls, frs[d].closure)
    BY DEF FramesOK, SameProtos
  <2>2. ProtoOK(p)
    BY <2>1, FrameAt
  <2>3. IsFrame(frs[d]) /\ Window(p, frs[d], cls, tbs) /\ p.max \in Nat
    BY <2>1, <2>2, WindowSize DEF FrameOK
  <2>4. Looks(p, frs[d], g)
    BY <1>1, <2>3, ScannedIs
  <2> HIDE DEF p, g
  <2>5. FrameOK(unit, g, cls, tbs)
    BY <2>1, <2>2, <2>4, LooksOK
  <2>6. g.closure = frs[d].closure /\ g.pc = frs[d].pc
    BY <2>4 DEF Looks
  <2> QED
    BY <2>5, <2>6 DEF g
<1> HIDE DEF t
<1>4. IsSeq(t) /\ Len(t) = Len(frs)
  BY <1>1, <1>2, SeqFrom
<1>5. FramesOK(unit, t, cls, tbs)
  BY <1>3, <1>4 DEF FramesOK
<1> QED
  BY <1>3, <1>4, <1>5 DEF t, SamePlaces

\* Nothing a frame still uses is lost when the collector looks at the frames.
LEMMA StateScanned ==
  ASSUME NEW frs, NEW cs, NEW ways, NEW cls, NEW tbs, NEW cs1, AllDisciplined(unit),
         StateOK(unit, frs, cs1, cls, tbs), SameProtos(frs, cls)
  PROVE  StateOK(unit, Scanned(frs, cs, ways), cs1, cls, tbs)
<1> DEFINE t == Scanned(frs, cs, ways)
<1>1. FramesOK(unit, frs, cls, tbs) /\ ClosuresOK(unit, cls, cs1)
  BY DEF StateOK, HeapOK
<1>2. FramesOK(unit, t, cls, tbs) /\ SamePlaces(frs, t)
  BY <1>1, ScannedFrames
<1> HIDE DEF t
<1>3. StateOK(unit, t, cs1, cls, tbs)
  BY <1>2, StateInPlace
<1> QED
  BY <1>3 DEF t

(***************************************************************************)
(* The instruction of the running frame.                                   *)
(***************************************************************************)
Ready == AllDisciplined(unit) /\ StateOK(unit, frames, cells, closures, tables)

\* The running frame, with the closures and tables there are.
FrameReady(cls, tbs) ==
  /\ AllDisciplined(unit)
  /\ P = ProtoOf(unit, cls, F.closure)
  /\ ProtoOK(P) /\ P.max \in Nat /\ PlaceOK(P, F.pc)
  /\ FrameOK(unit, F, cls, tbs)
  /\ IsFrame(F) /\ Window(P, F, cls, tbs) /\ NothingLost(P, F)

LEMMA FrameIsReady ==
  ASSUME Ready
  PROVE  /\ FrameReady(closures, tables)
         /\ F = frames[Len(frames)]
         /\ SameProtos(frames, closures)
<1>1. /\ IsSeq(frames) /\ Len(frames) >= 1 /\ Len(frames) \in Nat
      /\ FramesOK(unit, frames, closures, tables) /\ ClosuresOK(unit, closures, cells)
  BY DEF Ready, StateOK, HeapOK, FramesOK, IsSeq
<1>2. F = frames[Len(frames)]
  BY <1>1, FrontIs DEF F
<1>3. SameProtos(frames, closures)
  BY DEF SameProtos, Proto, ProtoOf
<1>4. FrameOK(unit, F, closures, tables)
  BY <1>1, <1>2 DEF FramesOK
<1>5. P = ProtoOf(unit, closures, F.closure)
  BY DEF P, Proto, ProtoOf
<1>6. ProtoOK(P) /\ PlaceOK(P, F.pc)
  BY <1>1, <1>4, <1>5, FrameAt DEF Ready
<1>7. P.max \in Nat
  BY <1>6, WindowSize
<1>8. IsFrame(F) /\ Window(P, F, closures, tables) /\ NothingLost(P, F)
  BY <1>4, <1>5 DEF FrameOK
<1> QED
  BY <1>2, <1>3, <1>4, <1>5, <1>6, <1>7, <1>8 DEF FrameReady, Ready

LEMMA PositionIs ==
  ASSUME NEW cls, NEW tbs, FrameReady(cls, tbs)
  PROVE  /\ PositionDisciplined(P, Facts(P), F.pc) /\ F.pc \in Nat
         /\ I = At(P, F.pc) /\ I.a \in Nat /\ I.b \in Int /\ I.c \in Nat
         /\ I.op \notin {"JMP", "FORPREP", "FORLOOP"} => I.b \in Nat
         /\ Kills(P, F.pc) \cup Uses(P, F.pc) \subseteq WindowOf(P)
<1>1. PositionDisciplined(P, Facts(P), F.pc) /\ I = At(P, F.pc)
  BY DEF FrameReady, PlaceOK, I
<1> QED
  BY <1>1 DEF PositionDisciplined

\* The registers of the window have values.
LEMMA RegistersExist ==
  ASSUME NEW cls, NEW tbs, FrameReady(cls, tbs)
  PROVE  /\ DOMAIN F.regs = 0..(Slots(P, F) - 1) /\ Slots(P, F) \in Nat /\ P.max <= Slots(P, F)
         /\ F.top \in 0..Slots(P, F)
         /\ \A r \in 0..(Slots(P, F) - 1) : Exists(F.regs[r], cls, tbs)
         /\ \A r \in WindowOf(P) : r \in 0..(Slots(P, F) - 1) /\ r \in Nat
  BY DEF FrameReady, Window, Slots, IsSeq, WindowOf

\* An instruction that writes registers and goes on.
LEMMA GoesOn ==
  ASSUME NEW cls, NEW tbs, FrameReady(cls, tbs),
         NEW g, NEW W, Steps(P, F, g, W, cls, tbs), g.pc \in Successors(P, F.pc), ~SetsTop(I),
         Gains(P, F.pc, g.pc) \cup Kills(P, F.pc) \subseteq W
  PROVE  FrameOK(unit, g, cls, tbs) /\ g.closure = F.closure
<1>1. g.closure = F.closure
  BY DEF Steps
<1>2. I = At(P, F.pc)
  BY DEF I
<1>3. FrameOK(unit, g, cls, tbs)
  BY <1>2, MoveOK DEF FrameReady
<1> QED
  BY <1>1, <1>3

LEMMA StoresSteps ==
  ASSUME NEW cls, NEW tbs, FrameReady(cls, tbs), NEW a \in Nat, NEW vs, NEW t,
         IsSeq(vs), AllExist(vs, cls, tbs), a + Len(vs) <= Slots(P, F)
  PROVE  /\ Steps(P, F, Goto(Stored(F, a, vs), t), a..(a + Len(vs) - 1), cls, tbs)
         /\ Goto(Stored(F, a, vs), t).pc = t
<1>1. Steps(P, F, Stored(F, a, vs), a..(a + Len(vs) - 1), cls, tbs)
  BY StoredSteps DEF FrameReady
<1> QED
  BY <1>1, GotoSteps

\* Values that can be written from register a on, by an instruction that goes on at t.
CanStore(a, vs, t, cls, tbs) ==
  /\ a \in Nat /\ IsSeq(vs) /\ AllExist(vs, cls, tbs) /\ a + Len(vs) <= Slots(P, F)
  /\ t \in Successors(P, F.pc) /\ ~SetsTop(I)
  /\ Gains(P, F.pc, t) \cup Kills(P, F.pc) \subseteq a..(a + Len(vs) - 1)

\* The frame goes on at t as the frame g.
GoesTo(g, t, cls, tbs) ==
  FrameOK(unit, g, cls, tbs) /\ g.closure = F.closure /\ g.pc = t /\ t \in Successors(P, F.pc)

LEMMA StoreGoesOn ==
  ASSUME NEW cls, NEW tbs, FrameReady(cls, tbs), NEW a, NEW vs, NEW t, CanStore(a, vs, t, cls, tbs)
  PROVE  GoesTo(Goto(Stored(F, a, vs), t), t, cls, tbs)
<1> DEFINE g == Goto(Stored(F, a, vs), t)
           W == a..(a + Len(vs) - 1)
<1>1. Steps(P, F, g, W, cls, tbs) /\ g.pc = t
  BY StoresSteps DEF CanStore
<1> HIDE DEF g
<1>2. FrameOK(unit, g, cls, tbs) /\ g.closure = F.closure
  BY <1>1, GoesOn DEF CanStore
<1>3. GoesTo(g, t, cls, tbs)
  BY <1>1, <1>2 DEF GoesTo, CanStore
<1> QED
  BY <1>3 DEF g

LEMMA StoredFrame ==
  ASSUME NEW f, NEW a, NEW vs, IsFrame(f)
  PROVE  /\ IsFrame(Stored(f, a, vs)) /\ Stored(f, a, vs).pc = f.pc
         /\ Next1(Stored(f, a, vs)) = Goto(Stored(f, a, vs), f.pc + 1)
<1>1. IsFrame(Stored(f, a, vs)) /\ Stored(f, a, vs).pc = f.pc
  <2>1. StoredAs(f, Stored(f, a, vs), a, vs)
    BY StoredIs
  <2> QED
    BY <2>1 DEF StoredAs
<1> QED
  BY <1>1, NextIs

LEMMA NothingStored ==
  ASSUME NEW cls, NEW tbs, FrameReady(cls, tbs), NEW t, t \in Successors(P, F.pc), ~SetsTop(I),
         Gains(P, F.pc, t) \cup Kills(P, F.pc) = {}
  PROVE  GoesTo(Goto(F, t), t, cls, tbs)
<1>1. Steps(P, F, F, {}, cls, tbs)
  BY StepsNone DEF FrameReady
<1>2. Steps(P, F, Goto(F, t), {}, cls, tbs) /\ Goto(F, t).pc = t
  BY <1>1, GotoSteps
<1>3. FrameOK(unit, Goto(F, t), cls, tbs) /\ Goto(F, t).closure = F.closure
  BY <1>2, GoesOn
<1> QED
  BY <1>2, <1>3 DEF GoesTo

\* Instructions with one result.
OneResult ==
  {"MOVE", "LOADK", "NEWTABLE", "GETUPVAL", "GETGLOBAL", "GETTABLE", "UNM", "NOT", "LEN",
   "CONCAT", "ADD", "SUB", "MUL", "DIV", "MOD", "POW"}

LEMMA OneResultIs ==
  ASSUME NEW p, NEW pc, At(p, pc).op \in OneResult
  PROVE  /\ Successors(p, pc) = {pc + 1} /\ Kills(p, pc) = {At(p, pc).a}
         /\ Gains(p, pc, pc + 1) = {At(p, pc).a} /\ ~SetsTop(At(p, pc))
<1> DEFINE op == At(p, pc).op
<1>1. Kills(p, pc) = {At(p, pc).a}
  BY DEF OneResult, Kills, Arithmetic
<1>2. Gains(p, pc, pc + 1) = Kills(p, pc)
  BY DEF OneResult, Gains
<1>3. Successors(p, pc) = {pc + 1}
  BY DEF OneResult, Successors, Comparing
<1> QED
  BY <1>1, <1>2, <1>3 DEF OneResult, SetsTop

LEMMA SetOK ==
  ASSUME NEW cls, NEW tbs, FrameReady(cls, tbs), NEW v, Exists(v, cls, tbs), I.op \in OneResult
  PROVE  GoesTo(Set(I.a, v), F.pc + 1, cls, tbs)
<1>1. I = At(P, F.pc)
  BY DEF I
<1>2. /\ Successors(P, F.pc) = {F.pc + 1} /\ Kills(P, F.pc) = {I.a}
      /\ Gains(P, F.pc, F.pc + 1) = {I.a} /\ ~SetsTop(I)
  BY <1>1, OneResultIs
<1>3. I.a \in Nat /\ I.a + 1 <= Slots(P, F)
  BY <1>2, PositionIs, RegistersExist
<1>4. IsSeq(<<v>>) /\ AllExist(<<v>>, cls, tbs) /\ Len(<<v>>) = 1
  BY SingleIs
<1>5. Set(I.a, v) = Goto(Stored(F, I.a, <<v>>), F.pc + 1)
  BY StoredFrame DEF Set, FrameReady
<1>6. CanStore(I.a, <<v>>, F.pc + 1, cls, tbs)
  <2> DEFINE vs == <<v>>
  <2>1. IsSeq(vs) /\ AllExist(vs, cls, tbs) /\ Len(vs) = 1
    BY <1>4
  <2> HIDE DEF vs
  <2>2. CanStore(I.a, vs, F.pc + 1, cls, tbs)
    BY <1>2, <1>3, <2>1 DEF CanStore
  <2> QED
    BY <2>2 DEF vs
<1>7. GoesTo(Goto(Stored(F, I.a, <<v>>), F.pc + 1), F.pc + 1, cls, tbs)
  BY <1>6, StoreGoesOn
<1> QED
  BY <1>5, <1>7

(***************************************************************************)
(* What instructions read.                                                 *)
(***************************************************************************)
LEMMA UsesExist ==
  ASSUME NEW cls, NEW tbs, FrameReady(cls, tbs), NEW r \in Uses(P, F.pc)
  PROVE  Exists(F.regs[r], cls, tbs) /\ r \in Nat /\ r \in WindowOf(P) /\ r < Slots(P, F)
<1>1. r \in WindowOf(P)
  BY PositionIs
<1> QED
  BY <1>1, RegistersExist

LEMMA ConstantExists ==
  ASSUME NEW cls, NEW tbs, FrameReady(cls, tbs), NEW k \in DOMAIN P.consts
  PROVE  Exists(P.consts[k], cls, tbs)
<1>1. P.consts[k][1] \notin {"function", "table"}
  BY DEF FrameReady, ProtoOK
<1> QED
  BY <1>1, PlainExists

LEMMA ListedIs ==
  ASSUME NEW cls, NEW tbs, FrameReady(cls, tbs), NEW start \in Nat, NEW n \in Int,
         n > 0 => start + n <= Slots(P, F)
  PROVE  /\ IsSeq(Listed(start, n)) /\ AllExist(Listed(start, n), cls, tbs)
         /\ Len(Listed(start, n)) = IF n > 0 THEN n ELSE 0
<1> DEFINE m == IF n > 0 THEN n ELSE 0
           t == Listed(start, n)
<1>1. 1..n = 1..m /\ m \in Nat
  OBVIOUS
<1>2. t = [j \in 1..m |-> t[j]] /\ \A j \in 1..m : t[j] = F.regs[start + j - 1]
  BY <1>1 DEF Listed
<1>3. IsSeq(t) /\ Len(t) = m
  <2> HIDE DEF t, m
  <2> QED
    BY <1>1, <1>2, SeqFrom
<1>4. AllExist(t, cls, tbs)
  <2>1. ASSUME NEW j \in 1..m PROVE Exists(F.regs[start + j - 1], cls, tbs)
    <3>1. start + j - 1 \in 0..(Slots(P, F) - 1)
      BY RegistersExist
    <3> QED
      BY <3>1, RegistersExist
  <2> QED
    BY <1>2, <1>3, <2>1 DEF AllExist
<1> QED
  BY <1>3, <1>4

LEMMA UpToTopIs ==
  ASSUME NEW cls, NEW tbs, FrameReady(cls, tbs), NEW start \in Nat
  PROVE  /\ IsSeq(UpToTop(start)) /\ AllExist(UpToTop(start), cls, tbs)
         /\ Len(UpToTop(start)) = IF F.top >= start THEN F.top - start ELSE 0
<1> DEFINE n == Max({0, F.top - start})
<1>1. F.top \in 0..Slots(P, F) /\ Slots(P, F) \in Nat
  BY RegistersExist
<1>2. n = IF 0 >= F.top - start THEN 0 ELSE F.top - start
  BY <1>1, LargerIs
<1>3. n \in Nat /\ n = IF F.top >= start THEN F.top - start ELSE 0
  BY <1>1, <1>2
<1>4. n > 0 => start + n <= Slots(P, F)
  BY <1>1, <1>3
<1> HIDE DEF n
<1>5. IsSeq(Listed(start, n)) /\ AllExist(Listed(start, n), cls, tbs) /\ Len(Listed(start, n)) = n
  BY <1>3, <1>4, ListedIs
<1> QED
  BY <1>3, <1>5 DEF UpToTop, n

\* A register that may be captured has a value.
LEMMA CapturedExists ==
  ASSUME NEW u, NEW f, NEW cls, NEW tbs, NEW cs, AllDisciplined(u), ClosuresOK(u, cls, cs),
         FrameOK(u, f, cls, tbs), NEW r \in CapturedIn(u, f, cls)
  PROVE  r \in Nat /\ r \in DOMAIN f.regs /\ Exists(f.regs[r], cls, tbs)
<1> DEFINE p == ProtoOf(u, cls, f.closure)
<1>1. ProtoOK(p) /\ PlaceOK(p, f.pc)
  BY FrameAt
<1>2. p.max \in Nat
  BY <1>1, WindowSize
<1>3. r \in WindowOf(p)
  BY <1>1 DEF PlaceOK, PositionDisciplined, CapturedIn
<1>4. Window(p, f, cls, tbs)
  BY DEF FrameOK
<1> HIDE DEF p
<1>5. r \in Nat /\ r \in DOMAIN f.regs
  BY <1>2, <1>3, <1>4 DEF Window, WindowOf, Slots, IsSeq
<1> QED
  BY <1>4, <1>5 DEF Window

LEMMA CellValueExists ==
  ASSUME Ready, NEW c \in 1..Len(cells)
  PROVE  Exists(CellValue(c), closures, tables)
<1>1. CellOK(unit, cells[c], frames, closures, tables)
  BY DEF Ready, StateOK, HeapOK, CellsOK
<1>2. CASE cells[c].frame = 0
  BY <1>1, <1>2 DEF CellOK, CellValue
<1>3. CASE cells[c].frame # 0
  <2> DEFINE d == cells[c].frame
             f == frames[d]
  <2>1. Len(frames) \in Nat /\ AllDisciplined(unit) /\ ClosuresOK(unit, closures, cells)
    BY DEF Ready, StateOK, HeapOK, FramesOK, IsSeq
  <2>2. d \in 1..Len(frames) /\ cells[c].reg \in CapturedIn(unit, f, closures)
    BY <1>1, <1>3, <2>1 DEF CellOK
  <2>3. FrameOK(unit, f, closures, tables)
    BY <2>2 DEF Ready, StateOK, HeapOK, FramesOK
  <2>4. Exists(f.regs[cells[c].reg], closures, tables)
    BY <2>1, <2>2, <2>3, CapturedExists
  <2> QED
    BY <1>3, <2>4 DEF CellValue
<1> QED
  BY <1>2, <1>3

LEMMA UpvalueIs ==
  ASSUME Ready, I.op \in {"GETUPVAL", "SETUPVAL"}
  PROVE  Upvalue(I.b) \in 1..Len(cells)
<1>1. FrameReady(closures, tables)
  BY FrameIsReady
<1>2. I.b \in 0..(P.ups - 1) /\ F.closure \in 1..Len(closures) /\ P.ups \in Nat
  BY <1>1 DEF FrameReady, PlaceOK, FrameOK, I, ProtoOK
<1>3. ClosureOK(unit, closures[F.closure], cells)
  BY <1>2 DEF Ready, StateOK, HeapOK, ClosuresOK
<1>4. Len(closures[F.closure].ups) = P.ups
  BY <1>3 DEF ClosureOK, P, Proto
<1>5. I.b + 1 \in 1..Len(closures[F.closure].ups)
  BY <1>2, <1>4
<1> QED
  BY <1>3, <1>5 DEF ClosureOK, Upvalue

\* The operands that are registers or constants.
LEMMA OperandIs ==
  ASSUME NEW cls, NEW tbs, FrameReady(cls, tbs), I.op = "SETTABLE"
  PROVE  Exists(RK(I.c), cls, tbs)
<1>1. PositionDisciplined(P, Facts(P), F.pc) /\ I = At(P, F.pc) /\ I.c \in Nat
  BY PositionIs
<1>2. CASE IsConstantRK(I.c)
  <2>1. I.c - RKBase + 1 \in DOMAIN P.consts
    BY <1>1, <1>2 DEF PositionDisciplined
  <2>2. RK(I.c) = P.consts[I.c - RKBase + 1]
    BY <1>2 DEF RK
  <2> QED
    BY <2>1, <2>2, ConstantExists
<1>3. CASE ~IsConstantRK(I.c)
  <2>1. I.c \in Uses(P, F.pc)
    BY <1>1, <1>3 DEF Uses, RegisterOperands, Arithmetic, Comparing
  <2> QED
    BY <1>3, <2>1, UsesExist DEF RK
<1> QED
  BY <1>2, <1>3

(***************************************************************************)
(* Instructions that stay in their frame.                                  *)
(***************************************************************************)
Kept == StateOK(unit, frames', cells', closures', tables')

LEMMA StateGoesOn ==
  ASSUME Ready, NEW g, NEW t, GoesTo(g, t, closures, tables), I.op # "CLOSE"
  PROVE  StateOK(unit, Append(Front(frames), g), cells, closures, tables)
<1>1. FrameReady(closures, tables) /\ F = frames[Len(frames)]
  BY FrameIsReady
<1>2. P = ProtoOf(unit, closures, frames[Len(frames)].closure) /\ PlaceOK(P, F.pc) /\ I = At(P, F.pc)
  BY <1>1 DEF FrameReady, I
<1> DEFINE p == P
<1> HIDE DEF p
<1>3. p = ProtoOf(unit, closures, frames[Len(frames)].closure) /\ p = P
  BY <1>2 DEF p
<1>4. /\ StateOK(unit, frames, cells, closures, tables) /\ FrameOK(unit, g, closures, tables)
      /\ PlaceOK(p, frames[Len(frames)].pc) /\ g.closure = frames[Len(frames)].closure
      /\ g.pc \in Successors(p, frames[Len(frames)].pc) /\ At(p, frames[Len(frames)].pc).op # "CLOSE"
  BY <1>1, <1>2, <1>3 DEF GoesTo, Ready
<1> QED
  BY <1>3, <1>4, StateContinues

LEMMA ContinueKept ==
  ASSUME Ready, NEW g, NEW t, GoesTo(g, t, closures, tables), I.op # "CLOSE",
         Continue(g), UNCHANGED heap
  PROVE  Kept
<1>1. StateOK(unit, Append(Front(frames), g), cells, closures, tables)
  BY StateGoesOn
<1> QED
  BY <1>1 DEF Kept, Continue, heap

LEMMA SetKept ==
  ASSUME Ready, NEW v, Exists(v, closures, tables), I.op \in OneResult,
         Continue(Set(I.a, v)), UNCHANGED heap
  PROVE  Kept
<1>1. FrameReady(closures, tables)
  BY FrameIsReady
<1>2. GoesTo(Set(I.a, v), F.pc + 1, closures, tables)
  BY <1>1, SetOK
<1> DEFINE g == Set(I.a, v)
           t == F.pc + 1
<1>3. GoesTo(g, t, closures, tables) /\ Continue(g) /\ I.op # "CLOSE"
  BY <1>2 DEF OneResult
<1> HIDE DEF g, t
<1> QED
  BY <1>3, ContinueKept

LEMMA MoveKept == ASSUME Ready, Move PROVE Kept
<1> DEFINE v == IF I.op = "MOVE" THEN F.regs[I.b] ELSE P.consts[I.b + 1]
<1>1. FrameReady(closures, tables)
  BY FrameIsReady
<1>2. I = At(P, F.pc) /\ PositionDisciplined(P, Facts(P), F.pc)
  BY <1>1, PositionIs
<1>3. CASE I.op = "MOVE"
  <2>1. I.b \in Uses(P, F.pc)
    BY <1>2, <1>3 DEF Uses, Arithmetic, Comparing
  <2>2. Exists(v, closures, tables)
    BY <1>1, <1>3, <2>1, UsesExist
  <2> QED
    BY <1>3, <2>2, SetKept DEF Move, Running, OneResult
<1>4. CASE I.op = "LOADK"
  <2>1. I.b + 1 \in DOMAIN P.consts
    BY <1>2, <1>4 DEF PositionDisciplined
  <2>2. Exists(v, closures, tables)
    BY <1>1, <1>4, <2>1, ConstantExists
  <2> QED
    BY <1>4, <2>2, SetKept DEF Move, Running, OneResult
<1> QED
  BY <1>3, <1>4 DEF Move, Running

LEMMA LoadBoolKept == ASSUME Ready, LoadBool PROVE Kept
<1> DEFINE vs == <<Bool(I.b # 0)>>
           t == F.pc + IF I.c # 0 THEN 2 ELSE 1
           g == Goto(Stored(F, I.a, vs), t)
<1>1. FrameReady(closures, tables)
  BY FrameIsReady
<1>2. I = At(P, F.pc) /\ I.op = "LOADBOOL" /\ F.pc \in Nat /\ I.a \in Nat
  BY <1>1, PositionIs DEF LoadBool, Running
<1>3. Kills(P, F.pc) = {I.a} /\ Gains(P, F.pc, t) = {I.a} /\ ~SetsTop(I)
  BY <1>2 DEF Kills, Gains, SetsTop
<1>4. t \in Successors(P, F.pc)
  BY <1>2 DEF Successors, Comparing
<1>5. I.a + 1 <= Slots(P, F)
  BY <1>1, <1>3, PositionIs, RegistersExist
<1>6. IsSeq(vs) /\ AllExist(vs, closures, tables) /\ Len(vs) = 1
  BY BoolExists, SingleIs
<1>7. Continue(g) /\ UNCHANGED heap
  BY DEF LoadBool
<1> HIDE DEF vs, t
<1>8. CanStore(I.a, vs, t, closures, tables)
  BY <1>2, <1>3, <1>4, <1>5, <1>6 DEF CanStore
<1>9. GoesTo(g, t, closures, tables)
  BY <1>1, <1>8, StoreGoesOn
<1> HIDE DEF g
<1> QED
  BY <1>2, <1>7, <1>9, ContinueKept

LEMMA LoadNilKept == ASSUME Ready, LoadNil PROVE Kept
<1> DEFINE n == I.b - I.a + 1
           vs == Adjusted(<<>>, n)
           t == F.pc + 1
           g == Goto(Stored(F, I.a, vs), t)
<1>1. FrameReady(closures, tables)
  BY FrameIsReady
<1>2. I = At(P, F.pc) /\ I.op = "LOADNIL" /\ F.pc \in Nat /\ I.a \in Nat /\ I.b \in Nat
      /\ PositionDisciplined(P, Facts(P), F.pc)
  BY <1>1, PositionIs DEF LoadNil, Running
<1>3. I.a <= I.b
  BY <1>2 DEF PositionDisciplined
<1>4. Kills(P, F.pc) = I.a..I.b /\ Gains(P, F.pc, t) = I.a..I.b /\ ~SetsTop(I)
  BY <1>2 DEF Kills, Gains, SetsTop, Arithmetic
<1>5. t \in Successors(P, F.pc)
  BY <1>2 DEF Successors, Comparing
<1>6. I.b \in WindowOf(P)
  BY <1>1, <1>2, <1>3, <1>4, PositionIs
<1>7. I.b + 1 <= Slots(P, F)
  BY <1>1, <1>6, RegistersExist
<1>8. IsSeq(vs) /\ AllExist(vs, closures, tables) /\ Len(vs) = I.b - I.a + 1
  <2>1. n \in Int /\ n >= 0
    BY <1>2, <1>3
  <2>2. IsSeq(<<>>) /\ AllExist(<<>>, closures, tables)
    BY NoneIs
  <2> HIDE DEF n
  <2>3. IsSeq(vs) /\ AllExist(vs, closures, tables) /\ Len(vs) = n
    BY <2>1, <2>2, AdjustedIs
  <2> QED
    BY <2>3 DEF n
<1>9. Continue(g) /\ UNCHANGED heap
  <2>1. Next1(Stored(F, I.a, vs)) = g
    BY <1>1, StoredFrame DEF FrameReady
  <2> QED
    BY <2>1 DEF LoadNil
<1> HIDE DEF vs, t
<1>10. CanStore(I.a, vs, t, closures, tables)
  BY <1>2, <1>3, <1>4, <1>5, <1>7, <1>8 DEF CanStore
<1>11. GoesTo(g, t, closures, tables)
  BY <1>1, <1>10, StoreGoesOn
<1> HIDE DEF g
<1> QED
  BY <1>2, <1>9, <1>11, ContinueKept

LEMMA GetUpvalueKept == ASSUME Ready, GetUpvalue PROVE Kept
<1>1. I.op = "GETUPVAL"
  BY DEF GetUpvalue, Running
<1>2. Exists(CellValue(Upvalue(I.b)), closures, tables)
  BY <1>1, UpvalueIs, CellValueExists
<1> QED
  BY <1>1, <1>2, SetKept DEF GetUpvalue, OneResult

LEMMA TableIs ==
  ASSUME Ready, NEW t \in 1..Len(tables)
  PROVE  TableOK(tables[t], closures, tables)
  BY DEF Ready, StateOK, HeapOK, TablesOK

LEMMA GetGlobalKept == ASSUME Ready, GetGlobal PROVE Kept
<1>1. 1 \in 1..Len(tables)
  BY DEF Ready, StateOK, HeapOK, TablesOK, IsSeq
<1>2. Exists(ReadTable(tables[1], P.consts[I.b + 1]), closures, tables)
  BY <1>1, TableIs, ReadExists
<1> QED
  BY <1>2, SetKept DEF GetGlobal, Running, OneResult

LEMMA GetTableKept == ASSUME Ready, GetTable PROVE Kept
<1>1. FrameReady(closures, tables)
  BY FrameIsReady
<1>2. I.op = "GETTABLE" /\ F.regs[I.b][1] = "table"
  BY DEF GetTable, Runs, Running, Fails, Arithmetic
<1>3. I.b \in Uses(P, F.pc)
  BY <1>1, <1>2, PositionIs DEF Uses, Arithmetic, Comparing
<1>4. F.regs[I.b][2] \in 1..Len(tables)
  BY <1>1, <1>2, <1>3, UsesExist DEF Exists
<1>5. Exists(ReadTable(tables[F.regs[I.b][2]], RK(I.c)), closures, tables)
  BY <1>4, TableIs, ReadExists
<1> QED
  BY <1>2, <1>5, SetKept DEF GetTable, OneResult

LEMMA ArithmeticExists ==
  ASSUME NEW op \in Arithmetic, NEW x, NEW y, NEW cls, NEW tbs
  PROVE  Exists(ArithmeticOf(op, x, y), cls, tbs)
<1>1. ArithmeticOf(op, x, y)[1] = "num"
  BY DEF Arithmetic, ArithmeticOf, Num
<1> QED
  BY <1>1, PlainExists

LEMMA OperateKept == ASSUME Ready, Operate PROVE Kept
<1>1. I.op \in Arithmetic /\ I.op \in OneResult
  BY DEF Operate, Runs, Running, Arithmetic, OneResult
<1>2. Exists(ArithmeticOf(I.op, RK(I.b), RK(I.c)), closures, tables)
  BY <1>1, ArithmeticExists
<1> QED
  BY <1>1, <1>2, SetKept DEF Operate

LEMMA UnaryKept == ASSUME Ready, Unary PROVE Kept
<1> DEFINE v == F.regs[I.b]
           x == Bool(IsFalse(v))
           w == CASE I.op = "UNM" -> Num(0 - v[2])
                  [] I.op = "NOT" -> x
                  [] v[1] = "table" -> Num(LengthOf(tables[v[2]]))
                  [] OTHER -> Num(Len(v[2]))
<1>1. I.op \in {"UNM", "NOT", "LEN"} /\ I.op \in OneResult
  BY DEF Unary, Runs, Running, OneResult
<1>2. Exists(w, closures, tables)
  <2>1. Exists(Num(0 - v[2]), closures, tables) /\ Exists(Num(LengthOf(tables[v[2]])), closures, tables)
        /\ Exists(Num(Len(v[2])), closures, tables)
    BY NumExists
  <2>2. Exists(x, closures, tables)
    BY BoolExists
  <2> HIDE DEF x
  <2>3. CASE I.op = "UNM"
    BY <2>1, <2>3
  <2>4. CASE I.op = "NOT"
    BY <2>1, <2>2, <2>4
  <2>5. CASE I.op = "LEN"
    BY <2>1, <2>5
  <2> QED
    BY <1>1, <2>3, <2>4, <2>5
<1>3. Continue(Set(I.a, w)) /\ UNCHANGED heap
  BY DEF Unary
<1> HIDE DEF w
<1> QED
  BY <1>1, <1>2, <1>3, SetKept

LEMMA GotoKept ==
  ASSUME Ready, NEW t, t \in Successors(P, F.pc), ~SetsTop(I), I.op # "CLOSE",
         Gains(P, F.pc, t) \cup Kills(P, F.pc) = {}, Continue(Goto(F, t)), UNCHANGED heap
  PROVE  Kept
<1>1. FrameReady(closures, tables)
  BY FrameIsReady
<1> DEFINE g == Goto(F, t)
<1>2. GoesTo(g, t, closures, tables)
  BY <1>1, NothingStored
<1>3. Continue(g)
  OBVIOUS
<1> HIDE DEF g
<1> QED
  BY <1>2, <1>3, ContinueKept

LEMMA JumpKept == ASSUME Ready, Jump PROVE Kept
<1> DEFINE t == F.pc + 1 + I.b
<1>1. I = At(P, F.pc) /\ I.op = "JMP"
  BY DEF Jump, Running, I
<1>2. Gains(P, F.pc, t) = {} /\ Kills(P, F.pc) = {} /\ ~SetsTop(I)
  BY <1>1 DEF Gains, Kills, SetsTop, Arithmetic
<1>4. t \in Successors(P, F.pc)
  BY <1>1 DEF Successors, Comparing
<1> HIDE DEF t
<1>3. Continue(Goto(F, t)) /\ UNCHANGED heap
  BY DEF Jump, t
<1> QED
  BY <1>1, <1>2, <1>3, <1>4, GotoKept

LEMMA DecideKept ==
  ASSUME Ready, I.op \in {"TEST"} \cup Comparing, NEW taken \in BOOLEAN,
         Continue(Decide(F, taken)), UNCHANGED heap
  PROVE  Kept
<1> DEFINE t == F.pc + 2 + IF taken THEN At(Proto(F.closure), F.pc + 1).b ELSE 0
<1>1. FrameReady(closures, tables)
  BY FrameIsReady
<1>2. I = At(P, F.pc) /\ F.pc \in Nat /\ P = Proto(F.closure)
  BY <1>1, PositionIs DEF P
<1>3. Gains(P, F.pc, t) = {} /\ Kills(P, F.pc) = {} /\ ~SetsTop(I) /\ I.op # "CLOSE"
  BY <1>2 DEF Gains, Kills, SetsTop, Arithmetic, Comparing
<1>4. t \in Successors(P, F.pc)
  <2>1. Successors(P, F.pc) = {F.pc + 2 + At(P, F.pc + 1).b, F.pc + 2}
    BY <1>2 DEF Successors, Comparing
  <2>2. F.pc + 2 + 0 = F.pc + 2
    BY <1>2
  <2> QED
    BY <1>2, <2>1, <2>2
<1>5. Continue(Goto(F, t))
  BY DEF Decide
<1> HIDE DEF t
<1> QED
  BY <1>3, <1>4, <1>5, GotoKept

LEMMA CompareKept == ASSUME Ready, Compare PROVE Kept
<1> DEFINE taken == CompareOf(I.op, RK(I.b), RK(I.c)) = (I.a # 0)
<1>1. taken \in BOOLEAN
  OBVIOUS
<1>2. I.op \in {"TEST"} \cup Comparing /\ Continue(Decide(F, taken)) /\ UNCHANGED heap
  BY DEF Compare, Runs, Running
<1> HIDE DEF taken
<1> QED
  BY <1>1, <1>2, DecideKept

LEMMA TestKept == ASSUME Ready, Test PROVE Kept
<1> DEFINE taken == IsFalse(F.regs[I.a]) # (I.c # 0)
<1>1. taken \in BOOLEAN
  OBVIOUS
<1>2. I.op \in {"TEST"} \cup Comparing /\ Continue(Decide(F, taken)) /\ UNCHANGED heap
  BY DEF Test, Running
<1> HIDE DEF taken
<1> QED
  BY <1>1, <1>2, DecideKept

\* The jump behind an instruction that may loop; registers are written one after the other.
LEMMA StepsStored ==
  ASSUME NEW cls, NEW tbs, FrameReady(cls, tbs), NEW g, NEW W, Steps(P, F, g, W, cls, tbs),
         NEW a \in Nat, NEW vs, IsSeq(vs), AllExist(vs, cls, tbs), a + Len(vs) <= Slots(P, F)
  PROVE  Steps(P, F, Stored(g, a, vs), W \cup a..(a + Len(vs) - 1), cls, tbs)
<1>1. Window(P, F, cls, tbs) /\ P.max \in Nat
  BY DEF FrameReady
<1>2. Window(P, g, cls, tbs)
  BY <1>1, StepsWindow
<1>3. IsFrame(g) /\ Slots(P, g) = Slots(P, F)
  BY DEF Steps, Slots
<1>4. Steps(P, g, Stored(g, a, vs), a..(a + Len(vs) - 1), cls, tbs)
  BY <1>1, <1>2, <1>3, StoredSteps
<1> QED
  BY <1>1, <1>4, StepsThen

LEMMA StepsGo ==
  ASSUME NEW cls, NEW tbs, FrameReady(cls, tbs), NEW g, NEW W, Steps(P, F, g, W, cls, tbs),
         NEW t, t \in Successors(P, F.pc), ~SetsTop(I),
         Gains(P, F.pc, t) \cup Kills(P, F.pc) \subseteq W
  PROVE  GoesTo(Goto(g, t), t, cls, tbs)
<1> DEFINE h == Goto(g, t)
<1>1. Steps(P, F, h, W, cls, tbs) /\ h.pc = t
  BY GotoSteps
<1> HIDE DEF h
<1>2. FrameOK(unit, h, cls, tbs) /\ h.closure = F.closure
  BY <1>1, GoesOn
<1>3. GoesTo(h, t, cls, tbs)
  BY <1>1, <1>2 DEF GoesTo
<1> QED
  BY <1>3 DEF h

\* A table is written.
LEMMA StateWritten ==
  ASSUME NEW frs, NEW cs, NEW n, NEW table, StateOK(unit, frs, cs, closures, tables),
         n \in 1..Len(tables) => TableOK(table, closures, tables)
  PROVE  StateOK(unit, frs, cs, closures, [tables EXCEPT ![n] = table])
<1> DEFINE tbs == [tables EXCEPT ![n] = table]
<1>1. IsSeq(tables) /\ IsSeq(closures) /\ Len(tables) \in Nat /\ Len(closures) \in Nat
      /\ ClosuresOK(unit, closures, cs)
  BY DEF StateOK, HeapOK, TablesOK, ClosuresOK, IsSeq
<1>2. Replaced(tables, tbs, n, table)
  BY <1>1, ExceptIs
<1> HIDE DEF tbs
<1>3. Grown(closures, tables, closures, tbs)
  BY <1>1, <1>2 DEF Grown, Replaced
<1>4. ASSUME NEW i \in 1..Len(tbs) PROVE TableOK(tbs[i], closures, tbs)
  <2>1. TableOK(tbs[i], closures, tables)
    BY <1>2 DEF StateOK, HeapOK, TablesOK, Replaced
  <2> QED
    BY <1>3, <2>1, GrownTable
<1>5. TablesOK(tbs, closures)
  BY <1>2, <1>4 DEF TablesOK, StateOK, HeapOK, Replaced
<1>6. StateOK(unit, frs, cs, closures, tbs)
  BY <1>1, <1>3, <1>5, GrownState
<1> QED
  BY <1>6 DEF tbs

LEMMA WrittenKept ==
  ASSUME Ready, NEW g, NEW t, GoesTo(g, t, closures, tables), I.op # "CLOSE", Continue(g),
         NEW n, NEW table, tables' = [tables EXCEPT ![n] = table],
         n \in 1..Len(tables) => TableOK(table, closures, tables), UNCHANGED <<cells, closures>>
  PROVE  Kept
<1>1. StateOK(unit, Append(Front(frames), g), cells, closures, tables)
  BY StateGoesOn
<1> DEFINE frs == Append(Front(frames), g)
<1>2. StateOK(unit, frs, cells, closures, tables) /\ frames' = frs
  BY <1>1 DEF Continue
<1> HIDE DEF frs
<1>3. StateOK(unit, frs, cells, closures, [tables EXCEPT ![n] = table])
  BY <1>2, StateWritten
<1> QED
  BY <1>2, <1>3 DEF Kept

LEMMA SetGlobalKept == ASSUME Ready, SetGlobal PROVE Kept
<1> DEFINE t == F.pc + 1
           table == WriteTable(tables[1], P.consts[I.b + 1], F.regs[I.a])
<1>1. FrameReady(closures, tables)
  BY FrameIsReady
<1>2. I = At(P, F.pc) /\ I.op = "SETGLOBAL"
  BY DEF SetGlobal, Running, I
<1>3. Gains(P, F.pc, t) = {} /\ Kills(P, F.pc) = {} /\ ~SetsTop(I) /\ t \in Successors(P, F.pc)
  BY <1>2 DEF Gains, Kills, SetsTop, Successors, Arithmetic, Comparing
<1>4. I.a \in Uses(P, F.pc)
  BY <1>2 DEF Uses, Arithmetic, Comparing
<1>5. Exists(F.regs[I.a], closures, tables) /\ 1 \in 1..Len(tables)
  BY <1>1, <1>4, UsesExist DEF Ready, StateOK, HeapOK, TablesOK, IsSeq
<1>6. TableOK(table, closures, tables)
  BY <1>5, TableIs, WriteExists
<1>7. tables' = [tables EXCEPT ![1] = table] /\ UNCHANGED <<cells, closures>>
  BY DEF SetGlobal
<1>8. Continue(Goto(F, t))
  BY <1>1, NextIs DEF SetGlobal, FrameReady
<1> HIDE DEF t, table
<1>9. GoesTo(Goto(F, t), t, closures, tables)
  BY <1>1, <1>3, NothingStored
<1> QED
  BY <1>2, <1>6, <1>7, <1>8, <1>9, WrittenKept

LEMMA SetTableKept == ASSUME Ready, SetTable PROVE Kept
<1> DEFINE t == F.pc + 1
           n == F.regs[I.a][2]
           table == WriteTable(tables[n], RK(I.b), RK(I.c))
<1>1. FrameReady(closures, tables)
  BY FrameIsReady
<1>2. I = At(P, F.pc) /\ I.op = "SETTABLE" /\ F.regs[I.a][1] = "table"
  BY DEF SetTable, Runs, Running, I, Fails, Arithmetic
<1>3. Gains(P, F.pc, t) = {} /\ Kills(P, F.pc) = {} /\ ~SetsTop(I) /\ t \in Successors(P, F.pc)
  BY <1>2 DEF Gains, Kills, SetsTop, Successors, Arithmetic, Comparing
<1>4. I.a \in Uses(P, F.pc)
  BY <1>2 DEF Uses, Arithmetic, Comparing
<1>5. n \in 1..Len(tables) /\ Exists(RK(I.c), closures, tables)
  BY <1>1, <1>2, <1>4, UsesExist, OperandIs DEF Exists
<1>6. TableOK(table, closures, tables)
  BY <1>5, TableIs, WriteExists
<1>7. tables' = [tables EXCEPT ![n] = table] /\ UNCHANGED <<cells, closures>>
  BY DEF SetTable
<1>8. Continue(Goto(F, t))
  BY <1>1, NextIs DEF SetTable, FrameReady
<1> HIDE DEF t, table, n
<1>9. GoesTo(Goto(F, t), t, closures, tables)
  BY <1>1, <1>3, NothingStored
<1> QED
  BY <1>2, <1>6, <1>7, <1>8, <1>9, WrittenKept

LEMMA ItemsExist ==
  ASSUME Ready, I.op = "SETLIST"
  PROVE  IsSeq(Items) /\ AllExist(Items, closures, tables)
<1>1. FrameReady(closures, tables)
  BY FrameIsReady
<1>2. I = At(P, F.pc) /\ I.a + 1 \in Nat /\ I.b \in Nat
  BY <1>1, PositionIs
<1>3. CASE I.b = 0
  BY <1>1, <1>2, <1>3, UpToTopIs DEF Items
<1>4. CASE I.b # 0
  <2>1. Uses(P, F.pc) = I.a..(I.a + I.b)
    BY <1>2, <1>4 DEF Uses, Arithmetic, Comparing
  <2>2. I.a + I.b \in Uses(P, F.pc)
    BY <1>1, <1>2, <2>1, PositionIs
  <2>3. I.a + I.b < Slots(P, F)
    BY <1>1, <2>2, UsesExist
  <2>4. I.a + 1 + I.b <= Slots(P, F) /\ I.b \in Int
    BY <1>1, <1>2, <2>3, PositionIs, RegistersExist
  <2> QED
    BY <1>1, <1>2, <1>4, <2>4, ListedIs DEF Items
<1> QED
  BY <1>3, <1>4

LEMMA SetListKept == ASSUME Ready, SetList PROVE Kept
<1> DEFINE t == F.pc + IF I.c = 0 THEN 2 ELSE 1
           n == F.regs[I.a][2]
           block == IF I.c = 0 THEN At(P, F.pc + 1).a ELSE I.c
           base == (block - 1) * FieldsPerFlush
           table == WriteList(tables[n], base, Items)
<1>1. FrameReady(closures, tables)
  BY FrameIsReady
<1>2. I = At(P, F.pc) /\ I.op = "SETLIST" /\ PositionDisciplined(P, Facts(P), F.pc) /\ I.c \in Nat
      /\ F.pc \in Nat
  BY <1>1, PositionIs DEF SetList, Running
<1>3. Gains(P, F.pc, t) = {} /\ Kills(P, F.pc) = {} /\ ~SetsTop(I)
  BY <1>2 DEF Gains, Kills, SetsTop, Arithmetic
<1>4. t \in Successors(P, F.pc)
  BY <1>2 DEF Successors, Comparing
<1>5. base \in Int
  <2>1. block - 1 \in Int
    BY <1>2 DEF PositionDisciplined
  <2>2. FieldsPerFlush \in Int
    BY FlushAssumption
  <2> HIDE DEF block
  <2> QED
    BY <2>1, <2>2
<1>6. n \in 1..Len(tables) => TableOK(table, closures, tables)
  <2> HIDE DEF base, n
  <2> QED
    BY <1>2, <1>5, TableIs, ItemsExist, WriteListExists
<1>7. tables' = [tables EXCEPT ![n] = table] /\ UNCHANGED <<cells, closures>>
  BY DEF SetList
<1>8. Continue(Goto(F, t))
  BY DEF SetList
<1> HIDE DEF t, table, n
<1>9. GoesTo(Goto(F, t), t, closures, tables)
  BY <1>1, <1>3, <1>4, NothingStored
<1> QED
  BY <1>2, <1>6, <1>7, <1>8, <1>9, WrittenKept

\* A register of some frame is written, by an upvalue that is open on it.
LEMMA RegisterWritten ==
  ASSUME NEW u, NEW frs, NEW cs, NEW cls, NEW tbs, StateOK(u, frs, cs, cls, tbs),
         NEW d \in 1..Len(frs), NEW r, NEW v, Exists(v, cls, tbs)
  PROVE  StateOK(u, [frs EXCEPT ![d].regs[r] = v], cs, cls, tbs)
<1> DEFINE f == frs[d]
           R == [f.regs EXCEPT ![r] = v]
           h == [f EXCEPT !.regs = R]
           t == [frs EXCEPT ![d] = h]
<1>1. FramesOK(u, frs, cls, tbs) /\ IsSeq(frs) /\ FrameOK(u, f, cls, tbs)
  BY DEF StateOK, HeapOK, FramesOK
<1>2. [frs EXCEPT ![d].regs[r] = v] = t
  OBVIOUS
<1>3. DOMAIN R = DOMAIN f.regs /\ \A q \in DOMAIN f.regs : R[q] = IF q = r THEN v ELSE f.regs[q]
  OBVIOUS
<1> DEFINE p == ProtoOf(u, cls, f.closure)
<1>4. IsFrame(f) /\ Window(p, f, cls, tbs) /\ NothingLost(p, f)
  BY <1>1 DEF FrameOK
<1> HIDE DEF R, f
<1>5. /\ IsFrame(h) /\ h.closure = f.closure /\ h.pc = f.pc /\ h.varargs = f.varargs
      /\ h.skipped = f.skipped /\ h.top = f.top /\ h.regs = R
  BY <1>4 DEF IsFrame
<1> HIDE DEF h
<1>6. \A q \in DOMAIN h.regs : Exists(h.regs[q], cls, tbs)
  BY <1>3, <1>4, <1>5 DEF Window
<1>7. Window(p, h, cls, tbs)
  BY <1>3, <1>4, <1>5, <1>6 DEF Window, Slots
<1>8. NothingLost(p, h)
  BY <1>4, <1>5 DEF NothingLost
<1>9. FrameOK(u, h, cls, tbs)
  BY <1>1, <1>5, <1>7, <1>8 DEF FrameOK
<1>10. Replaced(frs, t, d, h)
  BY <1>1, ExceptIs
<1> HIDE DEF t
<1>11. FramesOK(u, t, cls, tbs)
  BY <1>1, <1>9, <1>10 DEF FramesOK, Replaced
<1>12. SamePlaces(frs, t)
  BY <1>5, <1>10 DEF SamePlaces, f, Replaced
<1>13. StateOK(u, t, cs, cls, tbs)
  BY <1>11, <1>12, StateInPlace
<1> QED
  BY <1>2, <1>13

\* A closed upvalue is written.
LEMMA CellWritten ==
  ASSUME NEW u, NEW frs, NEW cs, NEW cls, NEW tbs, StateOK(u, frs, cs, cls, tbs),
         NEW c \in 1..Len(cs), cs[c].frame = 0, NEW v, Exists(v, cls, tbs)
  PROVE  StateOK(u, frs, [cs EXCEPT ![c].value = v], cls, tbs)
<1> DEFINE cell == [cs[c] EXCEPT !.value = v]
           t == [cs EXCEPT ![c] = cell]
<1>1. CellsOK(u, cs, frs, cls, tbs) /\ IsSeq(cs) /\ CellOK(u, cs[c], frs, cls, tbs)
  BY DEF StateOK, HeapOK, CellsOK
<1>2. [cs EXCEPT ![c].value = v] = t
  OBVIOUS
<1>3. cell = [frame |-> cell.frame, reg |-> cell.reg, value |-> cell.value]
      /\ cell.frame = 0 /\ cell.value = v
  BY <1>1 DEF CellOK
<1> HIDE DEF cell
<1>4. CellOK(u, cell, frs, cls, tbs)
  BY <1>1, <1>3 DEF CellOK
<1>5. Replaced(cs, t, c, cell)
  BY <1>1, ExceptIs
<1> HIDE DEF t
<1>6. CellsOK(u, t, frs, cls, tbs)
  BY <1>1, <1>4, <1>5 DEF CellsOK, Replaced
<1>7. ClosuresOK(u, cls, t)
  BY <1>5 DEF Replaced, ClosuresOK, ClosureOK, StateOK, HeapOK
<1> QED
  BY <1>2, <1>6, <1>7 DEF StateOK, HeapOK

LEMMA SetUpvalueKept == ASSUME Ready, SetUpvalue PROVE Kept
<1> DEFINE t == F.pc + 1
           c == Upvalue(I.b)
           v == F.regs[I.a]
           after == Append(Front(frames), Goto(F, t))
<1>1. FrameReady(closures, tables)
  BY FrameIsReady
<1>2. I = At(P, F.pc) /\ I.op = "SETUPVAL"
  BY DEF SetUpvalue, Running, I
<1>3. Gains(P, F.pc, t) = {} /\ Kills(P, F.pc) = {} /\ ~SetsTop(I) /\ t \in Successors(P, F.pc)
  BY <1>2 DEF Gains, Kills, SetsTop, Successors, Arithmetic, Comparing
<1>4. I.a \in Uses(P, F.pc)
  BY <1>2 DEF Uses, Arithmetic, Comparing
<1>5. Exists(v, closures, tables) /\ c \in 1..Len(cells)
  BY <1>1, <1>2, <1>4, UsesExist, UpvalueIs
<1>6. /\ cells[c].frame = 0 => cells' = [cells EXCEPT ![c].value = v] /\ frames' = after
      /\ cells[c].frame # 0 => /\ frames' = [after EXCEPT ![cells[c].frame].regs[cells[c].reg] = v]
                               /\ cells' = cells
      /\ UNCHANGED <<closures, tables>>
  <2>1. Next1(F) = Goto(F, t)
    BY <1>1, NextIs DEF FrameReady
  <2> QED
    BY <2>1 DEF SetUpvalue
<1> HIDE DEF t, c, v
<1>7. GoesTo(Goto(F, t), t, closures, tables)
  BY <1>1, <1>3, NothingStored
<1>8. StateOK(unit, after, cells, closures, tables)
  BY <1>2, <1>7, StateGoesOn
<1> HIDE DEF after
<1>9. CASE cells[c].frame = 0
  BY <1>5, <1>6, <1>8, <1>9, CellWritten DEF Kept
<1>10. CASE cells[c].frame # 0
  <2>1. CellOK(unit, cells[c], after, closures, tables) /\ Len(after) \in Nat
    BY <1>5, <1>8 DEF StateOK, HeapOK, CellsOK, FramesOK, IsSeq
  <2>2. cells[c].frame \in 1..Len(after)
    BY <1>10, <2>1 DEF CellOK
  <2> DEFINE d == cells[c].frame
             x == cells[c].reg
             written == [after EXCEPT ![d].regs[x] = v]
  <2>3. frames' = written /\ d \in 1..Len(after)
    BY <1>6, <1>10, <2>2
  <2> HIDE DEF d, x
  <2>4. StateOK(unit, written, cells, closures, tables)
    BY <1>5, <1>8, <2>3, RegisterWritten
  <2> HIDE DEF written
  <2>5. cells' = cells /\ closures' = closures /\ tables' = tables
    BY <1>6, <1>10
  <2> QED
    BY <2>3, <2>4, <2>5 DEF Kept
<1> QED
  BY <1>9, <1>10

LEMMA SelfKept == ASSUME Ready, Self PROVE Kept
<1> DEFINE t == F.pc + 1
           a == I.a
           receiver == F.regs[I.b]
           given == Stored(F, a + 1, <<receiver>>)
           key == IF IsConstantRK(I.c) THEN RK(I.c) ELSE given.regs[I.c]
           v == ReadTable(tables[receiver[2]], key)
           g == Stored(given, a, <<v>>)
<1>1. FrameReady(closures, tables)
  BY FrameIsReady
<1>2. I = At(P, F.pc) /\ I.op = "SELF" /\ receiver[1] = "table" /\ a \in Nat
  BY <1>1, PositionIs DEF Self, Runs, Running, Fails, Arithmetic
<1>3. Kills(P, F.pc) = {a, a + 1} /\ ~SetsTop(I)
  BY <1>2 DEF Kills, SetsTop, Arithmetic
<1>4. Gains(P, F.pc, t) = Kills(P, F.pc)
  BY <1>2 DEF Gains
<1>5. t \in Successors(P, F.pc)
  BY <1>2 DEF Successors, Comparing
<1>6. I.b \in Uses(P, F.pc)
  BY <1>2 DEF Uses, Arithmetic, Comparing
<1>7. Exists(receiver, closures, tables) /\ receiver[2] \in 1..Len(tables)
  BY <1>1, <1>2, <1>6, UsesExist DEF Exists
<1>8. Exists(v, closures, tables)
  BY <1>7, TableIs, ReadExists
<1>9. a + 1 \in Nat /\ a + 1 + 1 <= Slots(P, F) /\ a + 1 <= Slots(P, F)
  BY <1>1, <1>2, <1>3, PositionIs, RegistersExist
<1>10. Continue(Goto(g, t)) /\ UNCHANGED heap
  <2>1. IsFrame(F)
    BY <1>1 DEF FrameReady
  <2>2. IsFrame(given) /\ given.pc = F.pc
    BY <2>1, StoredFrame
  <2> HIDE DEF given, v
  <2>3. Next1(g) = Goto(g, t)
    BY <2>2, StoredFrame
  <2> QED
    BY <2>3 DEF Self, given, v
<1> HIDE DEF t, a, receiver, v
<1>11. Steps(P, F, given, (a + 1)..(a + 1), closures, tables)
  <2> DEFINE vs == <<receiver>>
  <2>1. IsSeq(vs) /\ AllExist(vs, closures, tables) /\ Len(vs) = 1
    BY <1>7, SingleIs
  <2> HIDE DEF vs
  <2>2. Steps(P, F, Stored(F, a + 1, vs), (a + 1)..(a + 1 + Len(vs) - 1), closures, tables)
    BY <1>1, <1>9, <2>1, StoredSteps DEF FrameReady
  <2>3. (a + 1) + Len(vs) - 1 = a + 1
    BY <1>9, <2>1
  <2> QED
    BY <2>2, <2>3 DEF vs
<1> HIDE DEF given
<1>12. Steps(P, F, g, (a + 1)..(a + 1) \cup a..a, closures, tables)
  <2> DEFINE vs == <<v>>
  <2>1. IsSeq(vs) /\ AllExist(vs, closures, tables) /\ Len(vs) = 1
    BY <1>8, SingleIs
  <2> HIDE DEF vs
  <2>2. Steps(P, F, Stored(given, a, vs), (a + 1)..(a + 1) \cup a..(a + Len(vs) - 1), closures, tables)
    BY <1>1, <1>2, <1>9, <1>11, <2>1, StepsStored
  <2>3. a + Len(vs) - 1 = a
    BY <1>2, <2>1
  <2> QED
    BY <2>2, <2>3 DEF vs
<1> HIDE DEF g
<1>13. Gains(P, F.pc, t) \cup Kills(P, F.pc) \subseteq (a + 1)..(a + 1) \cup a..a
  BY <1>2, <1>3, <1>4
<1>14. GoesTo(Goto(g, t), t, closures, tables)
  BY <1>1, <1>3, <1>5, <1>12, <1>13, StepsGo
<1> DEFINE h == Goto(g, t)
<1>15. GoesTo(h, t, closures, tables) /\ Continue(h) /\ UNCHANGED heap /\ I.op # "CLOSE"
  BY <1>2, <1>10, <1>14
<1> HIDE DEF h
<1> QED
  BY <1>15, ContinueKept

\* An instruction that allocates: the collector may look at the frames behind it.
LEMMA FrameStaysReady ==
  ASSUME NEW cls, NEW tbs, NEW cls2, NEW tbs2, FrameReady(cls, tbs), Grown(cls, tbs, cls2, tbs2)
  PROVE  FrameReady(cls2, tbs2)
<1>1. FrameOK(unit, F, cls2, tbs2) /\ ProtoOf(unit, cls2, F.closure) = P
  BY GrownFrame DEF FrameReady
<1>2. Window(P, F, cls2, tbs2)
  BY <1>1 DEF FrameOK
<1> QED
  BY <1>1, <1>2 DEF FrameReady

LEMMA NewTableKept == ASSUME Ready, NewTable PROVE Kept
<1> DEFINE tbs == Append(tables, EmptyTable)
           v == <<"table", Len(tbs)>>
           g == Set(I.a, v)
           t == F.pc + 1
           frs == Append(Front(frames), g)
<1>1. FrameReady(closures, tables) /\ F = frames[Len(frames)] /\ I = At(P, F.pc)
  BY FrameIsReady DEF I
<1>2. I.op = "NEWTABLE"
  BY DEF NewTable, Running
<1>3. IsSeq(tables) /\ IsSeq(closures) /\ Len(tables) \in Nat /\ Len(closures) \in Nat
      /\ ClosuresOK(unit, closures, cells) /\ TablesOK(tables, closures)
  BY DEF Ready, StateOK, HeapOK, TablesOK, ClosuresOK, IsSeq
<1>4. /\ IsSeq(tbs) /\ Len(tbs) = Len(tables) + 1
      /\ \A i \in 1..Len(tables) : tbs[i] = tables[i]
      /\ tbs[Len(tables) + 1] = EmptyTable
  BY <1>3, AppendIs
<1>5. tables' = tbs /\ UNCHANGED <<cells, closures>> /\ frames' = Scanned(frs, cells, Everywhere)
  BY DEF NewTable, Allocated
<1> HIDE DEF tbs
<1>6. Grown(closures, tables, closures, tbs)
  BY <1>3, <1>4 DEF Grown
<1>7. TablesOK(tbs, closures)
  <2>1. ASSUME NEW i \in 1..Len(tables) PROVE TableOK(tbs[i], closures, tbs)
    BY <1>3, <1>4, <1>6, GrownTable DEF TablesOK
  <2>2. TableOK(EmptyTable, closures, tbs)
    BY DEF TableOK, EmptyTable
  <2>3. ASSUME NEW i \in 1..Len(tbs) PROVE TableOK(tbs[i], closures, tbs)
    BY <1>3, <1>4, <2>1, <2>2
  <2> QED
    BY <1>3, <1>4, <2>3 DEF TablesOK
<1>8. FrameReady(closures, tbs)
  BY <1>1, <1>6, FrameStaysReady
<1>9. StateOK(unit, frames, cells, closures, tbs)
  BY <1>3, <1>6, <1>7, GrownState DEF Ready
<1>10. Exists(v, closures, tbs)
  <2>1. v[1] = "table" /\ v[2] = Len(tbs)
    OBVIOUS
  <2> HIDE DEF v
  <2> QED
    BY <1>3, <1>4, <2>1 DEF Exists
<1> HIDE DEF v
<1>11. GoesTo(g, t, closures, tbs)
  BY <1>2, <1>8, <1>10, SetOK DEF OneResult
<1> HIDE DEF g, t
<1>12. StateOK(unit, frs, cells, closures, tbs)
  <2> DEFINE p == P
             last == frames[Len(frames)]
  <2>1. p = ProtoOf(unit, closures, last.closure) /\ PlaceOK(p, last.pc)
    BY <1>1, <1>8 DEF FrameReady
  <2>2. FrameOK(unit, g, closures, tbs) /\ g.closure = last.closure /\ g.pc \in Successors(p, last.pc)
        /\ At(p, last.pc).op # "CLOSE"
    BY <1>1, <1>2, <1>11 DEF GoesTo
  <2> HIDE DEF p
  <2> QED
    BY <1>9, <2>1, <2>2, StateContinues
<1> HIDE DEF frs
<1>13. SameProtos(frs, closures)
  BY DEF SameProtos, Proto, ProtoOf
<1>14. StateOK(unit, Scanned(frs, cells, Everywhere), cells, closures, tbs)
  BY <1>12, <1>13, StateScanned DEF Ready
<1> QED
  BY <1>5, <1>14 DEF Kept

LEMMA ScannedKept ==
  ASSUME Ready, NEW g, NEW t, GoesTo(g, t, closures, tables), I.op # "CLOSE", NEW ways,
         frames' = Scanned(Append(Front(frames), g), cells, ways), UNCHANGED heap
  PROVE  Kept
<1> DEFINE frs == Append(Front(frames), g)
<1>1. StateOK(unit, frs, cells, closures, tables)
  BY StateGoesOn
<1> HIDE DEF frs
<1>2. SameProtos(frs, closures)
  BY DEF SameProtos, Proto, ProtoOf
<1>3. StateOK(unit, Scanned(frs, cells, ways), cells, closures, tables)
  BY <1>1, <1>2, StateScanned DEF Ready
<1>4. frames' = Scanned(frs, cells, ways)
  BY DEF frs
<1> QED
  BY <1>3, <1>4 DEF Kept, heap

LEMMA ConcatKept == ASSUME Ready, Concat PROVE Kept
<1> DEFINE s == FlattenSeq([j \in 1..(I.c - I.b + 1) |-> Text(F.regs[I.b + j - 1])])
           v == <<"str", s>>
           g == Set(I.a, v)
           t == F.pc + 1
<1>1. I.op = "CONCAT" /\ frames' = Scanned(Append(Front(frames), g), cells, Everywhere)
      /\ UNCHANGED heap
  BY DEF Concat, Runs, Running, Allocated
<1>2. Exists(v, closures, tables)
  <2> HIDE DEF s
  <2>1. v[1] = "str"
    OBVIOUS
  <2> HIDE DEF v
  <2> QED
    BY <2>1, PlainExists
<1> HIDE DEF v
<1>3. GoesTo(g, t, closures, tables)
  BY <1>1, <1>2, FrameIsReady, SetOK DEF OneResult
<1> HIDE DEF g, t
<1> QED
  BY <1>1, <1>3, ScannedKept

LEMMA TripleIs ==
  ASSUME NEW x, NEW y, NEW z, NEW cls, NEW tbs,
         Exists(x, cls, tbs), Exists(y, cls, tbs), Exists(z, cls, tbs)
  PROVE  IsSeq(<<x, y, z>>) /\ AllExist(<<x, y, z>>, cls, tbs) /\ Len(<<x, y, z>>) = 3
<1>1. <<x, y, z>> \in Seq({x, y, z}) /\ Len(<<x, y, z>>) = 3
  OBVIOUS
<1>2. IsSeq(<<x, y, z>>)
  BY <1>1, SeqOut
<1> QED
  BY <1>1, <1>2 DEF AllExist

LEMMA ForPrepKept == ASSUME Ready, ForPrep PROVE Kept
<1> DEFINE t == F.pc + 1 + I.b
           a == I.a
           index == Num(F.regs[a][2] - F.regs[a + 2][2])
           vs == <<index, F.regs[a + 1], F.regs[a + 2]>>
           g == Goto(Stored(F, a, vs), t)
<1>1. FrameReady(closures, tables)
  BY FrameIsReady
<1>2. I = At(P, F.pc) /\ I.op = "FORPREP" /\ a \in Nat
  BY <1>1, PositionIs DEF ForPrep, Runs, Running
<1>3. Kills(P, F.pc) = a..(a + 2) /\ Gains(P, F.pc, t) = a..(a + 2) /\ ~SetsTop(I)
  BY <1>2 DEF Kills, Gains, SetsTop, Arithmetic
<1>4. t \in Successors(P, F.pc)
  BY <1>2 DEF Successors, Comparing
<1>5. Uses(P, F.pc) = a..(a + 2)
  BY <1>2 DEF Uses, Arithmetic, Comparing
<1>6. a + 1 \in Uses(P, F.pc) /\ a + 2 \in Uses(P, F.pc)
  BY <1>2, <1>5
<1>7. Exists(F.regs[a + 1], closures, tables) /\ Exists(F.regs[a + 2], closures, tables)
      /\ Exists(index, closures, tables) /\ a + 3 <= Slots(P, F)
  BY <1>1, <1>2, <1>6, UsesExist, NumExists, RegistersExist
<1> HIDE DEF index
<1>8. IsSeq(vs) /\ AllExist(vs, closures, tables) /\ Len(vs) = 3
  BY <1>7, TripleIs
<1>9. Continue(g) /\ UNCHANGED heap
  BY DEF ForPrep, index
<1> HIDE DEF vs, t, a
<1>10. CanStore(a, vs, t, closures, tables)
  BY <1>2, <1>3, <1>4, <1>7, <1>8 DEF CanStore
<1>11. GoesTo(g, t, closures, tables)
  BY <1>1, <1>10, StoreGoesOn
<1> HIDE DEF g
<1> QED
  BY <1>2, <1>9, <1>11, ContinueKept

LEMMA ForLoopKept == ASSUME Ready, ForLoop PROVE Kept
<1> DEFINE a == I.a
           step == F.regs[a + 2][2]
           index == F.regs[a][2] + step
           limit == F.regs[a + 1][2]
           on == IF step > 0 THEN index <= limit ELSE limit <= index
           vs == Listed(a, 3)
           x == <<Num(index)>>
           read == Stored(F, a, vs)
           again == Stored(read, a, x)
           given == Stored(again, a + 3, x)
           t == F.pc + 1 + I.b
<1>1. FrameReady(closures, tables)
  BY FrameIsReady
<1>2. I = At(P, F.pc) /\ I.op = "FORLOOP" /\ a \in Nat /\ PositionDisciplined(P, Facts(P), F.pc)
      /\ F.pc \in Nat
  BY <1>1, PositionIs DEF ForLoop, Running
<1>3. /\ on => frames' = Scanned(Append(Front(frames), Goto(given, t)), cells, {"native"})
      /\ ~on => Continue(Goto(read, F.pc + 1))
      /\ UNCHANGED heap
  <2>1. Next1(read) = Goto(read, F.pc + 1)
    BY <1>1, StoredFrame DEF FrameReady
  <2> QED
    BY <2>1 DEF ForLoop
<1> HIDE DEF on
<1>4. Kills(P, F.pc) = {a} /\ ~SetsTop(I) /\ Successors(P, F.pc) = {t, F.pc + 1}
  <2>1. Kills(P, F.pc) = {a} /\ ~SetsTop(I)
    BY <1>2 DEF Kills, SetsTop, Arithmetic
  <2>2. Successors(P, F.pc) = {t, F.pc + 1}
    BY <1>2 DEF Successors, Comparing
  <2> QED
    BY <2>1, <2>2
<1>5. Gains(P, F.pc, F.pc + 1) = {} /\ Gains(P, F.pc, t) \subseteq {a + 3}
  BY <1>2 DEF Gains
<1>6. a + 3 \in WindowOf(P)
  BY <1>2 DEF PositionDisciplined
<1>7. a + 3 + 1 <= Slots(P, F) /\ a + 3 <= Slots(P, F) /\ a + 1 <= Slots(P, F) /\ a + 3 \in Nat
  BY <1>1, <1>2, <1>6, RegistersExist
<1>8. IsSeq(vs) /\ AllExist(vs, closures, tables) /\ Len(vs) = 3
  <2> DEFINE n == 3
  <2>1. n \in Int /\ n > 0 /\ n = 3 /\ a + n <= Slots(P, F)
    BY <1>7
  <2> HIDE DEF n
  <2>2. /\ IsSeq(Listed(a, n)) /\ AllExist(Listed(a, n), closures, tables)
        /\ Len(Listed(a, n)) = IF n > 0 THEN n ELSE 0
    BY <1>1, <1>2, <2>1, ListedIs
  <2> QED
    BY <2>1, <2>2
<1>9. IsSeq(x) /\ AllExist(x, closures, tables) /\ Len(x) = 1
  <2> HIDE DEF index
  <2>1. Exists(Num(index), closures, tables)
    BY NumExists
  <2> QED
    BY <2>1, SingleIs
<1> HIDE DEF vs, x, t, a
<1>10. Steps(P, F, read, a..(a + Len(vs) - 1), closures, tables)
  BY <1>1, <1>2, <1>7, <1>8, StoredSteps DEF FrameReady
<1> HIDE DEF read
<1> DEFINE W1 == a..(a + Len(vs) - 1)
           W2 == W1 \cup a..(a + Len(x) - 1)
           W3 == W2 \cup (a + 3)..(a + 3 + Len(x) - 1)
<1>11. Steps(P, F, again, W2, closures, tables)
  BY <1>1, <1>2, <1>7, <1>9, <1>10, StepsStored
<1> HIDE DEF again, W2
<1>12. Steps(P, F, given, W3, closures, tables)
  BY <1>1, <1>2, <1>7, <1>9, <1>11, StepsStored
<1> HIDE DEF given
<1>13. CASE on
  <2>1. Gains(P, F.pc, t) \cup Kills(P, F.pc) \subseteq W3 /\ t \in Successors(P, F.pc)
    BY <1>2, <1>4, <1>5, <1>7, <1>9 DEF W2
  <2> HIDE DEF W3
  <2>2. GoesTo(Goto(given, t), t, closures, tables)
    BY <1>1, <1>4, <1>12, <2>1, StepsGo
  <2> DEFINE g == Goto(given, t)
  <2>3. GoesTo(g, t, closures, tables) /\ I.op # "CLOSE" /\ UNCHANGED heap
        /\ frames' = Scanned(Append(Front(frames), g), cells, {"native"})
    BY <1>2, <1>3, <1>13, <2>2
  <2> HIDE DEF g
  <2> QED
    BY <2>3, ScannedKept
<1>14. CASE ~on
  <2> DEFINE n == F.pc + 1
  <2>1. Gains(P, F.pc, n) \cup Kills(P, F.pc) \subseteq W1 /\ n \in Successors(P, F.pc)
    BY <1>2, <1>4, <1>5, <1>8
  <2> HIDE DEF n, W1
  <2>2. GoesTo(Goto(read, n), n, closures, tables)
    BY <1>1, <1>4, <1>10, <2>1, StepsGo DEF W1
  <2> DEFINE g == Goto(read, n)
  <2>3. GoesTo(g, n, closures, tables) /\ I.op # "CLOSE" /\ UNCHANGED heap /\ Continue(g)
    BY <1>2, <1>3, <1>14, <2>2 DEF n
  <2> HIDE DEF g
  <2> QED
    BY <2>3, ContinueKept
<1> QED
  BY <1>13, <1>14

(***************************************************************************)
(* Upvalues are closed.                                                    *)
(***************************************************************************)
ClosedCell(cell, cls, tbs) ==
  cell = [frame |-> 0, reg |-> 0, value |-> cell.value] /\ Exists(cell.value, cls, tbs)

\* The cells of C take their values along.
TakenAlong(frs, cs, C) ==
  [c \in DOMAIN cs |->
     IF c \in C THEN [frame |-> 0, reg |-> 0, value |-> frs[cs[c].frame].regs[cs[c].reg]] ELSE cs[c]]

ClosedIn(cs, t, C, cls, tbs) ==
  /\ IsSeq(t) /\ Len(t) = Len(cs)
  /\ \A c \in 1..Len(cs) : IF c \in C THEN ClosedCell(t[c], cls, tbs) ELSE t[c] = cs[c]

LEMMA TakenAlongIs ==
  ASSUME NEW u, NEW frs, NEW cs, NEW cls, NEW tbs, AllDisciplined(u), FramesOK(u, frs, cls, tbs),
         ClosuresOK(u, cls, cs), CellsOK(u, cs, frs, cls, tbs),
         NEW C, \A c \in 1..Len(cs) : c \in C => cs[c].frame # 0
  PROVE  ClosedIn(cs, TakenAlong(frs, cs, C), C, cls, tbs)
<1> DEFINE t == TakenAlong(frs, cs, C)
<1>1. DOMAIN cs = 1..Len(cs) /\ Len(cs) \in Nat /\ Len(frs) \in Nat
  BY DEF CellsOK, FramesOK, IsSeq
<1>2. t = [c \in 1..Len(cs) |-> t[c]]
      /\ \A c \in 1..Len(cs) :
           t[c] = IF c \in C THEN [frame |-> 0, reg |-> 0, value |-> frs[cs[c].frame].regs[cs[c].reg]]
                  ELSE cs[c]
  BY <1>1 DEF TakenAlong
<1> HIDE DEF t
<1>3. IsSeq(t) /\ Len(t) = Len(cs)
  BY <1>1, <1>2, SeqFrom
<1>4. ASSUME NEW c \in 1..Len(cs), c \in C PROVE ClosedCell(t[c], cls, tbs)
  <2> DEFINE d == cs[c].frame
             r == cs[c].reg
             v == frs[d].regs[r]
  <2>1. CellOK(u, cs[c], frs, cls, tbs)
    BY DEF CellsOK
  <2>2. d \in 1..Len(frs) /\ r \in CapturedIn(u, frs[d], cls)
    BY <1>1, <1>4, <2>1 DEF CellOK
  <2>3. Exists(v, cls, tbs)
    BY <2>2, CapturedExists DEF FramesOK
  <2>4. t[c] = [frame |-> 0, reg |-> 0, value |-> v]
    BY <1>2, <1>4
  <2> HIDE DEF v
  <2>5. t[c].value = v
    BY <2>4
  <2> QED
    BY <2>3, <2>4, <2>5 DEF ClosedCell
<1>5. ClosedIn(cs, t, C, cls, tbs)
  BY <1>2, <1>3, <1>4 DEF ClosedIn
<1> QED
  BY <1>5 DEF t

LEMMA ClosedFollow ==
  ASSUME NEW u, NEW frs, NEW frs2, NEW cs, NEW t, NEW C, NEW cls, NEW tbs,
         CellsOK(u, cs, frs, cls, tbs), ClosedIn(cs, t, C, cls, tbs), Len(frs2) \in Nat,
         \A c \in 1..Len(cs) : c \notin C /\ cs[c].frame # 0 =>
           cs[c].frame \in 1..Len(frs2) /\ cs[c].reg \in CapturedIn(u, frs2[cs[c].frame], cls)
  PROVE  CellsOK(u, t, frs2, cls, tbs)
<1>1. ASSUME NEW c \in 1..Len(t) PROVE CellOK(u, t[c], frs2, cls, tbs)
  <2>1. c \in 1..Len(cs) /\ CellOK(u, cs[c], frs, cls, tbs)
    BY DEF CellsOK, ClosedIn
  <2>2. CASE c \in C
    <3>1. ClosedCell(t[c], cls, tbs)
      BY <2>1, <2>2 DEF ClosedIn
    <3>2. t[c].frame = 0
      BY <3>1 DEF ClosedCell
    <3> QED
      BY <3>1, <3>2 DEF ClosedCell, CellOK
  <2>3. CASE c \notin C
    <3>1. t[c] = cs[c]
      BY <2>1, <2>3 DEF ClosedIn
    <3> QED
      BY <2>1, <2>3, <3>1 DEF CellOK
  <2> QED
    BY <2>2, <2>3
<1> QED
  BY <1>1 DEF CellsOK, ClosedIn

LEMMA ClosuresStay ==
  ASSUME NEW u, NEW cls, NEW cs, NEW t, ClosuresOK(u, cls, cs), Len(cs) \in Nat, Len(t) \in Nat,
         Len(cs) <= Len(t)
  PROVE  ClosuresOK(u, cls, t)
  BY DEF ClosuresOK, ClosureOK

\* An open upvalue is on a register of its frame.
LEMMA OpenIs ==
  ASSUME NEW u, NEW frs, NEW cs, NEW cls, NEW tbs, AllDisciplined(u), FramesOK(u, frs, cls, tbs),
         ClosuresOK(u, cls, cs), CellsOK(u, cs, frs, cls, tbs),
         NEW c \in 1..Len(cs), cs[c].frame # 0
  PROVE  /\ cs[c].frame \in 1..Len(frs) /\ cs[c].reg \in Nat
         /\ cs[c].reg \in CapturedIn(u, frs[cs[c].frame], cls)
<1>1. CellOK(u, cs[c], frs, cls, tbs) /\ Len(frs) \in Nat
  BY DEF CellsOK, FramesOK, IsSeq
<1>2. cs[c].frame \in 1..Len(frs) /\ cs[c].reg \in CapturedIn(u, frs[cs[c].frame], cls)
  BY <1>1 DEF CellOK
<1>3. cs[c].reg \in Nat
  BY <1>2, CapturedExists DEF FramesOK
<1> QED
  BY <1>2, <1>3

LEMMA CloseFromIs ==
  ASSUME NEW frs, NEW cs, NEW d, d # 0, NEW a
  PROVE  CloseFrom(frs, cs, d, a) =
           TakenAlong(frs, cs, {c \in DOMAIN cs : cs[c].frame = d /\ cs[c].reg >= a})
  BY DEF CloseFrom, TakenAlong

LEMMA CloseBehindIs ==
  ASSUME NEW frs, NEW cs, NEW d
  PROVE  CloseBehind(frs, cs, d) = TakenAlong(frs, cs, {c \in DOMAIN cs : cs[c].frame > d})
  BY DEF CloseBehind, TakenAlong

LEMMA CloseKept == ASSUME Ready, Close PROVE Kept
<1> DEFINE t == F.pc + 1
           g == Goto(F, t)
           d == Len(frames)
           C == {c \in DOMAIN cells : cells[c].frame = d /\ cells[c].reg >= I.a}
           cs == TakenAlong(frames, cells, C)
           frs == Append(Front(frames), g)
<1>1. FrameReady(closures, tables) /\ F = frames[d]
  BY FrameIsReady
<1>2. I = At(P, F.pc) /\ I.op = "CLOSE" /\ I.a \in Nat
  BY <1>1, PositionIs DEF Close, Running
<1>3. Gains(P, F.pc, t) = {} /\ Kills(P, F.pc) = {} /\ ~SetsTop(I)
  BY <1>2 DEF Gains, Kills, SetsTop, Arithmetic
<1>4. t \in Successors(P, F.pc)
  BY <1>2 DEF Successors, Comparing
<1>5. /\ AllDisciplined(unit) /\ FramesOK(unit, frames, closures, tables) /\ IsSeq(frames)
      /\ ClosuresOK(unit, closures, cells) /\ CellsOK(unit, cells, frames, closures, tables)
      /\ d \in Nat /\ d >= 1 /\ Len(cells) \in Nat /\ DOMAIN cells = 1..Len(cells)
  BY DEF Ready, StateOK, HeapOK, FramesOK, CellsOK, IsSeq
<1>6. cells' = cs /\ frames' = frs /\ UNCHANGED <<closures, tables>>
  <2>1. Next1(F) = g
    BY <1>1, NextIs DEF FrameReady
  <2>2. CloseFrom(frames, cells, d, I.a) = cs
    BY <1>5, CloseFromIs
  <2> QED
    BY <2>1, <2>2 DEF Close, Continue
<1>7. ClosedIn(cells, cs, C, closures, tables)
  BY <1>5, TakenAlongIs
<1> HIDE DEF t, cs
<1>8. GoesTo(g, t, closures, tables)
  BY <1>1, <1>3, <1>4, NothingStored
<1> HIDE DEF g
<1>9. /\ IsSeq(frs) /\ Len(frs) = d
      /\ \A i \in 1..(d - 1) : frs[i] = frames[i]
      /\ frs[d] = g
  BY <1>5, ReplaceIs
<1> HIDE DEF frs
<1>10. CapturedIn(unit, F, closures) \ ClosedAt(P, F.pc, CapturedIn(unit, F, closures))
         \subseteq CapturedIn(unit, g, closures)
  <2> DEFINE p == P
  <2>1. p = ProtoOf(unit, closures, F.closure) /\ PlaceOK(p, F.pc) /\ g.closure = F.closure
        /\ g.pc \in Successors(p, F.pc)
    BY <1>1, <1>8 DEF FrameReady, GoesTo
  <2> HIDE DEF p
  <2>2. CapturedIn(unit, F, closures) \ ClosedAt(p, F.pc, CapturedIn(unit, F, closures))
          \subseteq CapturedIn(unit, g, closures)
    BY <2>1, CapturedKept
  <2> QED
    BY <2>2 DEF p
<1>11. ASSUME NEW c \in 1..Len(cells), c \notin C, cells[c].frame # 0
       PROVE  cells[c].frame \in 1..d /\ cells[c].reg \in CapturedIn(unit, frs[cells[c].frame], closures)
  <2>1. /\ cells[c].frame \in 1..d /\ cells[c].reg \in Nat
        /\ cells[c].reg \in CapturedIn(unit, frames[cells[c].frame], closures)
    BY <1>5, <1>11, OpenIs
  <2>2. CASE cells[c].frame = d
    <3>1. cells[c].reg < I.a
      BY <1>2, <1>5, <1>11, <2>1, <2>2
    <3>2. cells[c].reg \notin ClosedAt(P, F.pc, CapturedIn(unit, F, closures))
      BY <1>2, <2>1, <3>1 DEF ClosedAt
    <3> QED
      BY <1>1, <1>9, <1>10, <2>1, <2>2, <3>2
  <2>3. CASE cells[c].frame # d
    <3>1. cells[c].frame \in 1..(d - 1)
      BY <1>5, <2>1, <2>3
    <3> QED
      BY <1>9, <2>1, <3>1
  <2> QED
    BY <2>2, <2>3
<1> HIDE DEF C
<1>12. CellsOK(unit, cs, frs, closures, tables)
  BY <1>5, <1>7, <1>9, <1>11, ClosedFollow
<1>13. ClosuresOK(unit, closures, cs)
  BY <1>5, <1>7, ClosuresStay DEF ClosedIn
<1>14. StateOK(unit, frs, cs, closures, tables)
  BY <1>8, <1>12, <1>13, StateReplaced DEF frs, GoesTo, Ready
<1> QED
  BY <1>6, <1>14 DEF Kept

(***************************************************************************)
(* Lists that end at the top.                                              *)
(***************************************************************************)
LEMMA SlotCount ==
  ASSUME NEW p, NEW f, NEW cls, NEW tbs, p.max \in Nat, Window(p, f, cls, tbs)
  PROVE  Cardinality(DOMAIN f.regs) = Slots(p, f) /\ Slots(p, f) \in Nat
<1>1. Slots(p, f) \in Nat /\ DOMAIN f.regs = 0..(Slots(p, f) - 1)
  BY DEF Window, Slots, IsSeq
<1> DEFINE n == Slots(p, f) - 1
<1>2. n \in Int /\ 0 \in Int
  BY <1>1
<1> HIDE DEF n
<1>3. Cardinality(0..n) = IF 0 > n THEN 0 ELSE n - 0 + 1
  BY <1>2, FS_Interval
<1> QED
  BY <1>1, <1>3 DEF n

\* The values are the last ones below the top.
Listing(f, g, a, vs) ==
  LET W == a..(a + Len(vs) - 1)
  IN /\ IsFrame(g) /\ g.closure = f.closure /\ g.varargs = f.varargs /\ g.pc = f.pc + 1
     /\ g.regs = [r \in DOMAIN f.regs |-> IF r \in W THEN vs[r - a + 1] ELSE f.regs[r]]
     /\ g.top = a + Len(vs)
     /\ g.skipped = [way \in Everywhere |-> f.skipped[way] \ W]

\* The values are stored and the next instruction is the next one.
ListEnded(f, a, vs) == [Stored(f, a, vs) EXCEPT !.top = a + Len(vs), !.pc = @ + 1]

LEMMA ListingIs ==
  ASSUME NEW f, NEW a, NEW vs, IsFrame(f)
  PROVE  /\ Listing(f, ListEnded(f, a, vs), a, vs)
         /\ Next1([Stored(f, a, vs) EXCEPT !.top = a + Len(vs)]) = ListEnded(f, a, vs)
<1> DEFINE g == Stored(f, a, vs)
           n == a + Len(vs)
<1>1. StoredAs(f, g, a, vs)
  BY StoredIs
<1> HIDE DEF g
<1>2. IsFrame(g) /\ g.pc = f.pc
  BY <1>1 DEF StoredAs
<1> DEFINE e == [g EXCEPT !.top = n]
           h == [g EXCEPT !.top = n, !.pc = @ + 1]
           k == Next1(e)
<1> HIDE DEF n
<1>3. /\ IsFrame(e) /\ e.closure = g.closure /\ e.varargs = g.varargs /\ e.pc = g.pc
      /\ e.regs = g.regs /\ e.top = n /\ e.skipped = g.skipped
  BY <1>2 DEF IsFrame
<1>4. k = h
  BY <1>2 DEF IsFrame, Next1
<1> HIDE DEF e
<1>5. k = Goto(e, e.pc + 1)
  BY <1>3, NextIs
<1>6. /\ IsFrame(k) /\ k.closure = g.closure /\ k.varargs = g.varargs /\ k.pc = f.pc + 1
      /\ k.regs = g.regs /\ k.top = n /\ k.skipped = g.skipped
  BY <1>2, <1>3, <1>5, GotoIs
<1> HIDE DEF h, k
<1>7. Listing(f, k, a, vs)
  BY <1>1, <1>6 DEF Listing, StoredAs, n
<1> QED
  BY <1>4, <1>7 DEF g, h, k, n, e, ListEnded

LEMMA ListingSteps ==
  ASSUME NEW p, NEW f, NEW g, NEW a \in Nat, NEW vs, NEW cls, NEW tbs, p.max \in Nat,
         Window(p, f, cls, tbs), IsSeq(vs), AllExist(vs, cls, tbs), a + Len(vs) <= Slots(p, f),
         Listing(f, g, a, vs)
  PROVE  ListSteps(p, f, g, a, Len(vs), cls, tbs)
<1> DEFINE W == a..(a + Len(vs) - 1)
<1>1. Len(vs) \in Nat /\ Slots(p, f) \in Nat
  BY DEF IsSeq, Window, Slots
<1>2. g.top = a + Len(vs) /\ g.top \in 0..Slots(p, f)
  BY <1>1 DEF Listing
<1>3. \A r \in DOMAIN g.regs : Exists(g.regs[r], cls, tbs)
  <2>1. \A r \in W : r - a + 1 \in 1..Len(vs)
    BY <1>1
  <2> QED
    BY <2>1 DEF Window, AllExist, Listing
<1>4. g.skipped \in [Everywhere -> SUBSET WindowOf(p)]
      /\ \A way \in Everywhere : g.skipped[way] \subseteq f.skipped[way] \ W
  BY DEF Window, Listing
<1>5. DOMAIN g.regs = DOMAIN f.regs
  BY DEF Listing
<1> QED
  BY <1>2, <1>3, <1>4, <1>5 DEF ListSteps, Listing

LEMMA VarargKept == ASSUME Ready, Vararg PROVE Kept
<1> DEFINE t == F.pc + 1
           list == IF I.b = 0 THEN F.varargs ELSE Adjusted(F.varargs, I.b - 1)
           stored == Stored(F, I.a, list)
           g == Next1(IF I.b = 0 THEN [stored EXCEPT !.top = I.a + Len(list)] ELSE stored)
<1>1. FrameReady(closures, tables)
  BY FrameIsReady
<1>2. I = At(P, F.pc) /\ I.op = "VARARG" /\ I.a \in Nat /\ I.b \in Nat /\ I.b # 1
  BY <1>1, PositionIs DEF Vararg, Runs, Running, PositionDisciplined
<1>3. IsFrame(F) /\ Window(P, F, closures, tables) /\ P.max \in Nat
      /\ IsSeq(F.varargs) /\ AllExist(F.varargs, closures, tables)
  BY <1>1 DEF FrameReady, Window
<1>4. Kills(P, F.pc) = I.a..(I.a + I.b - 2)
  BY <1>2 DEF Kills, Arithmetic
<1>5. Gains(P, F.pc, t) = Kills(P, F.pc)
  BY <1>2 DEF Gains
<1>6. t \in Successors(P, F.pc)
  BY <1>2 DEF Successors, Comparing
<1>7. Continue(g) /\ UNCHANGED heap /\ I.op # "CLOSE"
  BY <1>2 DEF Vararg
<1>8. CASE I.b = 0
  <2> DEFINE vs == F.varargs
             h == Next1([Stored(F, I.a, vs) EXCEPT !.top = I.a + Len(vs)])
             p == P
             n == Len(vs)
  <2>1. g = h /\ n \in Nat
    BY <1>3, <1>8 DEF IsSeq
  <2>2. I.a + n <= Slots(P, F)
    <3>1. Fits(F, I.a, n)
      BY <1>2, <1>8 DEF Vararg, Runs, Fails, Arithmetic
    <3>2. Cardinality(DOMAIN F.regs) = Slots(P, F)
      BY <1>3, SlotCount
    <3> QED
      BY <3>1, <3>2 DEF Fits
  <2>3. Listing(F, h, I.a, vs)
    <3> DEFINE m == I.a
    <3> HIDE DEF m, vs
    <3>1. Listing(F, ListEnded(F, m, vs), m, vs)
          /\ Next1([Stored(F, m, vs) EXCEPT !.top = m + Len(vs)]) = ListEnded(F, m, vs)
      BY <1>3, ListingIs
    <3> QED
      BY <3>1 DEF m
  <2> HIDE DEF h, vs
  <2>4. ListSteps(P, F, h, I.a, n, closures, tables)
    BY <1>2, <1>3, <2>2, <2>3, ListingSteps DEF vs
  <2>5. Kills(P, F.pc) \subseteq I.a..(I.a + n - 1)
    BY <1>2, <1>4, <1>8
  <2>6. h.pc = t /\ h.closure = F.closure
    BY <2>3 DEF Listing
  <2> HIDE DEF t
  <2>7. /\ FrameOK(unit, F, closures, tables) /\ p = ProtoOf(unit, closures, F.closure) /\ ProtoOK(p)
        /\ ListSteps(p, F, h, At(p, F.pc).a, n, closures, tables)
        /\ h.pc \in Successors(p, F.pc) /\ SetsTop(At(p, F.pc))
        /\ Kills(p, F.pc) \subseteq At(p, F.pc).a..(At(p, F.pc).a + n - 1)
    BY <1>1, <1>2, <1>6, <1>8, <2>4, <2>5, <2>6 DEF FrameReady, SetsTop
  <2> HIDE DEF p, n
  <2>8. FrameOK(unit, h, closures, tables)
    BY <2>1, <2>7, ListOK
  <2>9. GoesTo(h, t, closures, tables)
    BY <1>6, <2>6, <2>8 DEF GoesTo
  <2> QED
    BY <1>7, <2>1, <2>9, ContinueKept
<1>9. CASE I.b # 0
  <2> DEFINE n == I.b - 1
             vs == Adjusted(F.varargs, n)
             h == Goto(Stored(F, I.a, vs), t)
  <2>1. g = h
    <3>1. Next1(Stored(F, I.a, vs)) = h
      BY <1>3, StoredFrame
    <3> QED
      BY <1>9, <3>1
  <2>2. n \in Nat /\ n >= 1
    BY <1>2, <1>9
  <2>3. I.a + n - 1 \in Kills(P, F.pc)
    BY <1>2, <1>4, <2>2
  <2>4. I.a + n <= Slots(P, F)
    BY <1>1, <1>2, <2>2, <2>3, PositionIs, RegistersExist
  <2> HIDE DEF n
  <2>5. IsSeq(vs) /\ AllExist(vs, closures, tables) /\ Len(vs) = n
    BY <1>3, <2>2, AdjustedIs
  <2> HIDE DEF vs, t
  <2>6. CanStore(I.a, vs, t, closures, tables)
    BY <1>2, <1>4, <1>5, <1>6, <1>9, <2>2, <2>4, <2>5 DEF CanStore, SetsTop, n
  <2>7. GoesTo(h, t, closures, tables)
    BY <1>1, <2>6, StoreGoesOn
  <2> HIDE DEF h
  <2> QED
    BY <1>7, <2>1, <2>7, ContinueKept
<1> QED
  BY <1>8, <1>9

(***************************************************************************)
(* Calls.                                                                  *)
(***************************************************************************)
Calling == {"CALL", "TAILCALL", "TFORLOOP"}

LEMMA CalleeExists ==
  ASSUME Ready, I.op \in Calling
  PROVE  Exists(Callee, closures, tables)
<1>1. FrameReady(closures, tables)
  BY FrameIsReady
<1>2. I = At(P, F.pc) /\ I.a \in Nat /\ I.b \in Nat
  BY <1>1, PositionIs DEF Calling
<1>3. I.a \in Uses(P, F.pc)
  BY <1>2 DEF Calling, Uses, Arithmetic, Comparing
<1> QED
  BY <1>1, <1>3, UsesExist DEF Callee

LEMMA ArgumentsExist ==
  ASSUME Ready, I.op \in Calling
  PROVE  IsSeq(Arguments) /\ AllExist(Arguments, closures, tables)
<1>1. FrameReady(closures, tables)
  BY FrameIsReady
<1>2. I = At(P, F.pc) /\ I.a \in Nat /\ I.b \in Nat
  BY <1>1, PositionIs DEF Calling
<1> DEFINE start == I.a + 1
<1>3. start \in Nat
  BY <1>2
<1>4. CASE I.op = "TFORLOOP"
  <2> DEFINE n == 2
  <2>1. I.a + 2 \in Uses(P, F.pc)
    BY <1>2, <1>4 DEF Uses, Arithmetic, Comparing
  <2>2. n \in Int /\ start + n <= Slots(P, F)
    BY <1>1, <1>2, <2>1, UsesExist, RegistersExist
  <2>3. Arguments = Listed(start, n)
    BY <1>4 DEF Arguments
  <2> HIDE DEF start, n
  <2> QED
    BY <1>1, <1>3, <2>2, <2>3, ListedIs
<1>5. CASE I.op # "TFORLOOP" /\ I.b = 0
  <2>1. Arguments = UpToTop(start)
    BY <1>5 DEF Arguments
  <2> HIDE DEF start
  <2> QED
    BY <1>1, <1>3, <2>1, UpToTopIs
<1>6. CASE I.op # "TFORLOOP" /\ I.b # 0
  <2> DEFINE n == I.b - 1
  <2>1. n \in Int /\ (n > 0 => start + n <= Slots(P, F))
    <3> SUFFICES ASSUME n > 0 PROVE start + n <= Slots(P, F)
      BY <1>2
    <3>1. Uses(P, F.pc) = I.a..(I.a + I.b - 1)
      BY <1>2, <1>6 DEF Calling, Uses, Arithmetic, Comparing
    <3>2. I.a + I.b - 1 \in Uses(P, F.pc)
      BY <1>2, <3>1
    <3> QED
      BY <1>1, <1>2, <3>2, UsesExist, RegistersExist
  <2>2. Arguments = Listed(start, n)
    BY <1>6 DEF Arguments
  <2> HIDE DEF start, n
  <2> QED
    BY <1>1, <1>3, <2>1, <2>2, ListedIs
<1> QED
  BY <1>4, <1>5, <1>6

LEMMA ReturnExists ==
  ASSUME Ready, I.op = "RETURN"
  PROVE  IsSeq(Return) /\ AllExist(Return, closures, tables)
<1>1. FrameReady(closures, tables)
  BY FrameIsReady
<1>2. I = At(P, F.pc) /\ I.a \in Nat /\ I.b \in Nat
  BY <1>1, PositionIs
<1> DEFINE start == I.a
<1>3. CASE I.b = 0
  <2>1. Return = UpToTop(start)
    BY <1>3 DEF Return
  <2> HIDE DEF start
  <2> QED
    BY <1>1, <1>2, <2>1, UpToTopIs DEF start
<1>4. CASE I.b # 0
  <2> DEFINE n == I.b - 1
  <2>1. n \in Int /\ (n > 0 => start + n <= Slots(P, F))
    <3> SUFFICES ASSUME n > 0 PROVE start + n <= Slots(P, F)
      BY <1>2
    <3>1. Uses(P, F.pc) = I.a..(I.a + I.b - 2)
      BY <1>2, <1>4 DEF Uses, Arithmetic, Comparing
    <3>2. I.a + I.b - 2 \in Uses(P, F.pc)
      BY <1>2, <3>1
    <3> QED
      BY <1>1, <1>2, <3>2, UsesExist, RegistersExist
  <2>2. Return = Listed(start, n)
    BY <1>4 DEF Return
  <2>3. start \in Nat
    BY <1>2
  <2> HIDE DEF start, n
  <2> QED
    BY <1>1, <2>1, <2>2, <2>3, ListedIs
<1> QED
  BY <1>3, <1>4

LEMMA ActivatedOK ==
  ASSUME Ready, NEW c \in 1..Len(closures), NEW args, IsSeq(args), AllExist(args, closures, tables)
  PROVE  FrameOK(unit, Activate(c, args), closures, tables)
<1> DEFINE p == ProtoOf(unit, closures, c)
           extra == IF p.vararg THEN SubSeq(args, p.params + 1, Len(args)) ELSE <<>>
           top == IF p.params > Len(args) THEN p.params ELSE Min({Len(args), p.max})
           R == [r \in 0..(p.max + Len(extra) - 1) |->
                   CASE r < p.params -> Nth(args, r + 1)
                     [] r >= p.max -> extra[r - p.max + 1]
                     [] OTHER -> Nil]
           g == Activate(c, args)
<1>1. /\ g.closure = c /\ g.pc = 0 /\ g.varargs = extra /\ g.skipped = NothingSkipped
      /\ g.top = top /\ g.regs = R /\ IsFrame(g)
  BY DEF Activate, Proto, ProtoOf, IsFrame
<1>2. ProtoOK(p)
  <2>1. closures[c].path \in DOMAIN unit
    BY DEF Ready, StateOK, HeapOK, ClosuresOK, ClosureOK
  <2> QED
    BY <2>1, ProtosOK DEF Ready, ProtoOf
<1> HIDE DEF p, g
<1>3. p.max \in Nat /\ p.params \in 0..p.max
  BY <1>2, WindowSize
<1>4. Len(args) \in Nat
  BY DEF IsSeq
<1>5. IsSeq(extra) /\ AllExist(extra, closures, tables)
  <2>1. CASE p.vararg
    <3> DEFINE m == p.params
    <3>1. m \in Nat
      BY <1>3
    <3>2. extra = SubSeq(args, m + 1, Len(args))
      BY <2>1, Zenon
    <3> HIDE DEF m
    <3>3. IsSeq(SubSeq(args, m + 1, Len(args)))
          /\ \A i \in 1..Len(SubSeq(args, m + 1, Len(args))) :
               m + i \in 1..Len(args) /\ SubSeq(args, m + 1, Len(args))[i] = args[m + i]
      BY <3>1, PartIs
    <3> HIDE DEF extra
    <3> QED
      BY <3>2, <3>3 DEF AllExist
  <2>2. CASE ~p.vararg
    BY <2>2, NoneIs
  <2> QED
    BY <2>1, <2>2
<1> HIDE DEF extra
<1>6. Len(extra) \in Nat
  BY <1>5 DEF IsSeq
<1>7. top \in p.params..p.max
  <2>1. Min({Len(args), p.max}) = IF Len(args) <= p.max THEN Len(args) ELSE p.max
    BY <1>3, <1>4, SmallerIs
  <2> QED
    BY <1>3, <1>4, <2>1
<1> HIDE DEF top
<1>8. ASSUME NEW r \in 0..(p.max + Len(extra) - 1) PROVE Exists(R[r], closures, tables)
  <2>1. CASE r < p.params
    <3> DEFINE n == r + 1
    <3>1. R[r] = Nth(args, n)
      BY <1>3, <1>6, <2>1
    <3>2. n \in Nat \ {0}
      BY <1>3, <1>6
    <3> HIDE DEF n, R
    <3> QED
      BY <3>1, <3>2, NthExists
  <2>2. CASE r >= p.max
    <3>1. R[r] = extra[r - p.max + 1]
      BY <1>3, <1>6, <2>2
    <3>2. r - p.max + 1 \in 1..Len(extra)
      BY <1>3, <1>6, <2>2
    <3> HIDE DEF R
    <3> QED
      BY <1>5, <3>1, <3>2 DEF AllExist
  <2>3. CASE ~(r < p.params) /\ ~(r >= p.max)
    <3>1. R[r] = Nil
      BY <2>3
    <3> HIDE DEF R
    <3> QED
      BY <3>1, NilExists
  <2> QED
    BY <2>1, <2>2, <2>3
<1>9. DOMAIN R = 0..(p.max + Len(extra) - 1)
  OBVIOUS
<1> HIDE DEF R
<1>10. Window(p, g, closures, tables)
  <2>1. DOMAIN g.regs = 0..(Slots(p, g) - 1)
    <3>1. Slots(p, g) = p.max + Len(extra)
      BY <1>1, Zenon DEF Slots
    <3>2. DOMAIN g.regs = 0..(p.max + Len(extra) - 1)
      BY <1>1, <1>9, Zenon
    <3>3. p.max + Len(extra) - 1 = Slots(p, g) - 1
      <4> DEFINE k == p.max
                 m == Len(extra)
                 n == Slots(p, g)
      <4>1. k \in Nat /\ m \in Nat /\ n = k + m
        BY <1>3, <1>6, <3>1
      <4> HIDE DEF k, m, n
      <4>2. k + m - 1 = n - 1
        BY <4>1
      <4> QED
        BY <4>2, Zenon DEF k, m, n
    <3> QED
      BY <3>2, <3>3, Zenon
  <2>2. \A r \in DOMAIN g.regs : Exists(g.regs[r], closures, tables)
    BY <1>1, <1>8, <1>9, Zenon
  <2>3. g.top \in 0..Slots(p, g)
    BY <1>1, <1>3, <1>6, <1>7 DEF Slots
  <2>4. g.skipped \in [Everywhere -> SUBSET WindowOf(p)]
    BY <1>1 DEF NothingSkipped
  <2> QED
    BY <1>1, <1>5, <2>1, <2>2, <2>3, <2>4 DEF Window
<1>11. NothingLost(p, g)
  <2>1. Facts(p)[0].assigned \subseteq 0..(g.top - 1)
    BY <1>1, <1>2, <1>3, <1>7 DEF ProtoOK
  <2>2. g.skipped["interpreted"] = {} /\ g.skipped["native"] = {}
    BY <1>1 DEF NothingSkipped, Everywhere
  <2>3. ~TakesList(At(p, g.pc))
    BY <1>1, <1>2 DEF ProtoOK
  <2> QED
    BY <1>1, <2>1, <2>2, <2>3 DEF NothingLost
<1>12. g.closure \in 1..Len(closures) /\ g.pc \in DOMAIN Facts(p) /\ p = ProtoOf(unit, closures, g.closure)
  BY <1>1, <1>2 DEF ProtoOK, p
<1>13. FrameOK(unit, g, closures, tables)
  BY <1>1, <1>10, <1>11, <1>12 DEF FrameOK
<1> QED
  BY <1>13 DEF g

\* A frame that waits is left for a new one.
LEMMA FramePushed ==
  ASSUME NEW u, NEW frs, NEW cs, NEW cls, NEW tbs, StateOK(u, frs, cs, cls, tbs),
         Waits(u, frs[Len(frs)], cls), NEW g, FrameOK(u, g, cls, tbs)
  PROVE  StateOK(u, Append(frs, g), cs, cls, tbs)
<1> DEFINE t == Append(frs, g)
           n == Len(frs)
<1>1. FramesOK(u, frs, cls, tbs) /\ CellsOK(u, cs, frs, cls, tbs) /\ IsSeq(frs) /\ n \in Nat /\ n >= 1
  BY DEF StateOK, HeapOK, FramesOK, IsSeq
<1>2. /\ IsSeq(t) /\ Len(t) = n + 1
      /\ \A d \in 1..n : t[d] = frs[d]
      /\ t[n + 1] = g
  BY <1>1, AppendIs
<1> HIDE DEF t
<1>3. FramesOK(u, t, cls, tbs)
  BY <1>1, <1>2 DEF FramesOK
<1>4. CellsOK(u, cs, t, cls, tbs)
  <2>1. ASSUME NEW c \in 1..Len(cs) PROVE CellOK(u, cs[c], t, cls, tbs)
    <3>1. CellOK(u, cs[c], frs, cls, tbs)
      BY <1>1 DEF CellsOK
    <3> QED
      BY <1>1, <1>2, <3>1 DEF CellOK
  <2> QED
    BY <1>1, <2>1 DEF CellsOK
<1>5. \A d \in 1..(Len(t) - 1) : Waits(u, t[d], cls)
  <2>1. ASSUME NEW d \in 1..n PROVE Waits(u, frs[d], cls)
    BY <1>1 DEF StateOK
  <2> QED
    BY <1>1, <1>2, <2>1
<1>6. StateOK(u, t, cs, cls, tbs)
  BY <1>1, <1>2, <1>3, <1>4, <1>5 DEF StateOK, HeapOK
<1> QED
  BY <1>6 DEF t

LEMMA FrameWaits ==
  ASSUME Ready, I.op \in Calling
  PROVE  Waits(unit, frames[Len(frames)], closures)
<1>1. F = frames[Len(frames)] /\ P = ProtoOf(unit, closures, F.closure)
  BY FrameIsReady DEF FrameReady
<1> QED
  BY <1>1 DEF Waits, Calling, I

LEMMA CallFunctionKept == ASSUME Ready, CallFunction PROVE Kept
<1> DEFINE c == Callee[2]
           args == Arguments
           g == Activate(c, args)
<1>1. I.op \in Calling /\ Callee[1] = "function" /\ frames' = Append(frames, g) /\ UNCHANGED heap
  BY DEF CallFunction, Runs, Running, Calling
<1>2. c \in 1..Len(closures)
  BY <1>1, CalleeExists DEF Exists
<1>3. IsSeq(args) /\ AllExist(args, closures, tables)
  BY <1>1, ArgumentsExist
<1> HIDE DEF c, args
<1>4. FrameOK(unit, g, closures, tables)
  BY <1>2, <1>3, ActivatedOK
<1> HIDE DEF g
<1>5. StateOK(unit, Append(frames, g), cells, closures, tables)
  BY <1>1, <1>4, FrameWaits, FramePushed DEF Ready
<1> QED
  BY <1>1, <1>5 DEF Kept, heap

(***************************************************************************)
(* Results reach the frame that waits for them.                            *)
(***************************************************************************)
\* A set with 0 that has the successor of each of its numbers has them all.
LEMMA NatSetInduction ==
  ASSUME NEW S, 0 \in S, \A n \in Nat : n \in S => n + 1 \in S
  PROVE  \A n \in Nat : n \in S
<1> DEFINE T == Nat \ S
<1> SUFFICES ASSUME T # {} PROVE FALSE
  OBVIOUS
<1>1. IsWellFoundedOn(OpToRel(<, Nat), Nat)
  BY NatLessThanWellFounded
<1>2. PICK x \in T : \A y \in T : ~(<<y, x>> \in OpToRel(<, Nat))
  <2>1. T \subseteq Nat
    OBVIOUS
  <2> HIDE DEF T
  <2> QED
    BY <1>1, <2>1, WFMin
<1>3. x # 0 /\ x - 1 \in Nat /\ x - 1 < x
  OBVIOUS
<1>4. x - 1 \notin T
  <2>1. x - 1 \in T => <<x - 1, x>> \in OpToRel(<, Nat)
    BY <1>3 DEF OpToRel
  <2> QED
    BY <1>2, <2>1
<1>5. (x - 1) + 1 = x
  OBVIOUS
<1> QED
  BY <1>3, <1>4, <1>5

LEMMA LargestIs ==
  ASSUME NEW n \in Nat, NEW S, S \subseteq 0..n, S # {}
  PROVE  Max(S) \in S
<1> DEFINE Good == {m \in Nat : \A T \in SUBSET (0..m) : T # {} => \E i \in T : \A j \in T : i >= j}
<1>1. 0 \in Good
  <2>1. ASSUME NEW T \in SUBSET (0..0), T # {} PROVE \E i \in T : \A j \in T : i >= j
    <3>1. \A j \in T : j = 0
      OBVIOUS
    <3>2. PICK i \in T : TRUE
      BY <2>1
    <3> QED
      BY <3>1, <3>2
  <2> QED
    BY <2>1
<1>2. ASSUME NEW m \in Nat, m \in Good PROVE m + 1 \in Good
  <2>1. ASSUME NEW T \in SUBSET (0..m + 1), T # {} PROVE \E i \in T : \A j \in T : i >= j
    <3>1. CASE m + 1 \in T
      BY <3>1
    <3>2. CASE m + 1 \notin T
      <4>1. T \in SUBSET (0..m)
        BY <3>2
      <4> QED
        BY <1>2, <2>1, <4>1
    <3> QED
      BY <3>1, <3>2
  <2> QED
    BY <2>1
<1> HIDE DEF Good
<1>3. n \in Good
  BY <1>1, <1>2, NatSetInduction
<1>4. \E i \in S : \A j \in S : i >= j
  BY <1>3 DEF Good
<1> QED
  BY <1>4, Zenon DEF Max

LEMMA ReceiverIs ==
  ASSUME NEW frs, IsSeq(frs), Len(frs) \in Nat
  PROVE  /\ Receiver(frs) \in 0..Len(frs)
         /\ Receiver(frs) # 0 =>
              At(Proto(frs[Receiver(frs)].closure), frs[Receiver(frs)].pc).op # "TAILCALL"
<1> DEFINE S == {0} \cup {d \in DOMAIN frs : At(Proto(frs[d].closure), frs[d].pc).op # "TAILCALL"}
           n == Len(frs)
<1>1. DOMAIN frs = 1..n
  BY DEF IsSeq
<1>2. S \subseteq 0..n /\ S # {}
  BY <1>1
<1>3. Receiver(frs) = Max(S)
  BY DEF Receiver
<1>4. Max(S) \in S
  <2> HIDE DEF S, n
  <2> QED
    BY <1>2, LargestIs DEF n
<1> QED
  BY <1>2, <1>3, <1>4

\* Where the results have arrived the program goes on as it should.
GoneOn(to) ==
  /\ to.how \in {"running", "done", "failed"}
  /\ to.how = "running" => StateOK(unit, to.frames, to.cells, closures, tables)

LEMMA NoLongerRuns ==
  ASSUME NEW frs, NEW cs, NEW vs
  PROVE  GoneOn(Broken(cs)) /\ GoneOn(Arrived(frs, cs, "done", vs))
  BY DEF GoneOn, Broken, Arrived

LEMMA GoesOnScanned ==
  ASSUME AllDisciplined(unit), NEW frs, NEW cs, StateOK(unit, frs, cs, closures, tables), NEW ways
  PROVE  GoneOn(Arrived(Scanned(frs, cs, ways), cs, "running", <<>>))
<1>1. SameProtos(frs, closures)
  BY DEF SameProtos, Proto, ProtoOf
<1>2. StateOK(unit, Scanned(frs, cs, ways), cs, closures, tables)
  BY <1>1, StateScanned
<1> QED
  BY <1>2 DEF GoneOn, Arrived

\* The last of the frames, which has received its results, is ready.
LastOK(frs, cs, f, p) ==
  /\ AllDisciplined(unit)
  /\ StateOK(unit, frs, cs, closures, tables)
  /\ f = Last(frs) /\ f = frs[Len(frs)]
  /\ p = Proto(f.closure) /\ p = ProtoOf(unit, closures, f.closure)
  /\ ProtoOK(p) /\ p.max \in Nat /\ PlaceOK(p, f.pc)
  /\ FrameOK(unit, f, closures, tables) /\ IsFrame(f) /\ Window(p, f, closures, tables)

LEMMA LastIsOK ==
  ASSUME AllDisciplined(unit), NEW frs, NEW cs, StateOK(unit, frs, cs, closures, tables)
  PROVE  LastOK(frs, cs, Last(frs), Proto(Last(frs).closure))
<1> DEFINE f == Last(frs)
           p == Proto(f.closure)
<1>1. /\ IsSeq(frs) /\ Len(frs) >= 1 /\ Len(frs) \in Nat
      /\ FramesOK(unit, frs, closures, tables) /\ ClosuresOK(unit, closures, cs)
  BY DEF StateOK, HeapOK, FramesOK, IsSeq
<1>2. f = frs[Len(frs)]
  BY <1>1, FrontIs
<1>3. p = ProtoOf(unit, closures, f.closure)
  BY DEF Proto, ProtoOf
<1>4. FrameOK(unit, f, closures, tables)
  BY <1>1, <1>2 DEF FramesOK
<1> HIDE DEF f, p
<1>5. ProtoOK(p) /\ PlaceOK(p, f.pc)
  BY <1>1, <1>3, <1>4, FrameAt
<1>6. p.max \in Nat
  BY <1>5, WindowSize
<1>7. IsFrame(f) /\ Window(p, f, closures, tables)
  BY <1>3, <1>4 DEF FrameOK
<1> QED
  BY <1>2, <1>3, <1>4, <1>5, <1>6, <1>7 DEF LastOK, f, p

\* Another frame in its place, one step on.
LEMMA LastGoesOn ==
  ASSUME NEW frs, NEW cs, NEW f, NEW p, LastOK(frs, cs, f, p), NEW g,
         FrameOK(unit, g, closures, tables), g.closure = f.closure, g.pc \in Successors(p, f.pc),
         At(p, f.pc).op # "CLOSE"
  PROVE  StateOK(unit, Append(Front(frs), g), cs, closures, tables)
<1>1. /\ StateOK(unit, frs, cs, closures, tables) /\ f = frs[Len(frs)]
      /\ p = ProtoOf(unit, closures, frs[Len(frs)].closure) /\ PlaceOK(p, frs[Len(frs)].pc)
  BY DEF LastOK
<1> QED
  BY <1>1, StateContinues

LEMMA ToCallOK ==
  ASSUME NEW frs, NEW cs, NEW f, NEW p, LastOK(frs, cs, f, p), At(p, f.pc).op = "CALL",
         NEW vs, IsSeq(vs), AllExist(vs, closures, tables)
  PROVE  GoneOn(ToCall(frs, cs, At(p, f.pc), vs))
<1> DEFINE i == At(p, f.pc)
           list == IF i.c = 0 THEN vs ELSE Adjusted(vs, i.c - 1)
           a == i.a
           n == Len(list)
           done == ListEnded(f, a, list)
           t == Append(Front(frs), done)
<1>1. ToCall(frs, cs, i, vs) = IF ~Fits(f, a, n) THEN Broken(cs)
                               ELSE Arrived(Scanned(t, cs, {"native"}), cs, "running", <<>>)
  <2>1. Last(frs) = f
    BY DEF LastOK
  <2> QED
    BY <2>1, Zenon DEF ToCall, ListEnded
<1>2. /\ IsFrame(f) /\ Window(p, f, closures, tables) /\ p.max \in Nat /\ ProtoOK(p)
      /\ FrameOK(unit, f, closures, tables) /\ p = ProtoOf(unit, closures, f.closure)
  BY DEF LastOK
<1>3. i.op = "CALL" /\ a \in Nat /\ i.c \in Nat
  BY DEF LastOK, PlaceOK, PositionDisciplined
<1>4. IsSeq(list) /\ AllExist(list, closures, tables) /\ n \in Nat /\ (i.c = 0 \/ n = i.c - 1)
  <2>1. CASE i.c = 0
    BY <2>1 DEF IsSeq
  <2>2. CASE i.c # 0
    <3> DEFINE m == i.c - 1
    <3>1. m \in Int /\ m >= 0 /\ list = Adjusted(vs, m)
      BY <1>3, <2>2
    <3> HIDE DEF m
    <3>2. IsSeq(Adjusted(vs, m)) /\ AllExist(Adjusted(vs, m), closures, tables) /\ Len(Adjusted(vs, m)) = m
      BY <3>1, AdjustedIs
    <3> HIDE DEF list
    <3> QED
      BY <3>1, <3>2 DEF m
  <2> QED
    BY <2>1, <2>2
<1>5. /\ Kills(p, f.pc) = a..(a + i.c - 2) /\ f.pc + 1 \in Successors(p, f.pc) /\ SetsTop(i)
  <2>1. Kills(p, f.pc) = a..(a + i.c - 2)
    BY <1>3 DEF Kills, Arithmetic
  <2>2. f.pc + 1 \in Successors(p, f.pc)
    BY <1>3 DEF Successors, Comparing
  <2> QED
    BY <1>3, <2>1, <2>2 DEF SetsTop
<1>6. Kills(p, f.pc) \subseteq a..(a + n - 1)
  BY <1>3, <1>4, <1>5
<1> HIDE DEF list
<1>7. CASE ~Fits(f, a, n)
  BY <1>1, <1>7, NoLongerRuns
<1>8. CASE Fits(f, a, n)
  <2>1. a + n <= Slots(p, f)
    BY <1>2, <1>8, SlotCount DEF Fits
  <2> HIDE DEF a
  <2>2. Listing(f, done, a, list)
    BY <1>2, ListingIs
  <2> HIDE DEF done
  <2>3. ListSteps(p, f, done, a, n, closures, tables)
    BY <1>2, <1>3, <1>4, <2>1, <2>2, ListingSteps
  <2>4. done.pc = f.pc + 1 /\ done.closure = f.closure
    BY <2>2 DEF Listing
  <2>5. /\ ListSteps(p, f, done, At(p, f.pc).a, n, closures, tables)
        /\ done.pc \in Successors(p, f.pc) /\ SetsTop(At(p, f.pc))
        /\ Kills(p, f.pc) \subseteq At(p, f.pc).a..(At(p, f.pc).a + n - 1)
    BY <1>5, <1>6, <2>3, <2>4 DEF a
  <2> HIDE DEF n
  <2>6. FrameOK(unit, done, closures, tables)
    BY <1>2, <1>4, <2>5, ListOK
  <2>7. StateOK(unit, t, cs, closures, tables)
    BY <1>3, <2>4, <2>5, <2>6, LastGoesOn
  <2> HIDE DEF t
  <2>8. GoneOn(Arrived(Scanned(t, cs, {"native"}), cs, "running", <<>>))
    BY <2>7, GoesOnScanned DEF LastOK
  <2> QED
    BY <1>1, <1>8, <2>8
<1> QED
  BY <1>7, <1>8

LEMMA ToLoopOK ==
  ASSUME NEW frs, NEW cs, NEW f, NEW p, LastOK(frs, cs, f, p), At(p, f.pc).op = "TFORLOOP",
         NEW vs, IsSeq(vs), AllExist(vs, closures, tables)
  PROVE  GoneOn(ToLoop(frs, cs, At(p, f.pc), vs))
<1> DEFINE i == At(p, f.pc)
           list == Adjusted(vs, i.c)
           low == i.a + 2
           from == i.a + 3
           one == <<list[1]>>
           given == Stored(f, from, list)
           again == Stored(given, low, one)
           W == from..(from + Len(list) - 1)
           V == low..(low + Len(one) - 1)
           next == f.pc + 2
           back == f.pc + 2 + At(p, f.pc + 1).b
           g == IF list[1] = Nil THEN Goto(given, next) ELSE Goto(again, back)
           t == Append(Front(frs), g)
<1>1. /\ IsFrame(f) /\ Window(p, f, closures, tables) /\ p.max \in Nat /\ ProtoOK(p)
      /\ FrameOK(unit, f, closures, tables) /\ p = ProtoOf(unit, closures, f.closure)
      /\ p = Proto(f.closure) /\ Last(frs) = f
  BY DEF LastOK
<1>2. i.op = "TFORLOOP" /\ i.a \in Nat /\ i.c \in Nat /\ i.c >= 1 /\ f.pc \in Nat
  BY DEF LastOK, PlaceOK, PositionDisciplined
<1>3. Successors(p, f.pc) = {back, next}
  BY <1>2 DEF Successors, Comparing
<1>4. Kills(p, f.pc) = {} /\ ~SetsTop(i)
  BY <1>2 DEF Kills, Arithmetic, SetsTop
<1>5. \A s \in Successors(p, f.pc) : Gains(p, f.pc, s) = from..(low + i.c)
  BY <1>2 DEF Gains
<1>6. from..(low + i.c) \subseteq WindowOf(p)
  <2>1. StepDisciplined(p, Facts(p), f.pc, next)
    BY <1>3 DEF LastOK, PlaceOK
  <2> QED
    BY <1>3, <1>5, <2>1 DEF StepDisciplined
<1>7. IsSeq(list) /\ AllExist(list, closures, tables) /\ Len(list) = i.c
  <2> DEFINE n == i.c
  <2>1. n \in Int /\ n >= 0
    BY <1>2
  <2> HIDE DEF n
  <2>2. IsSeq(Adjusted(vs, n)) /\ AllExist(Adjusted(vs, n), closures, tables) /\ Len(Adjusted(vs, n)) = n
    BY <2>1, AdjustedIs
  <2> QED
    BY <2>2 DEF n
<1>8. IsSeq(one) /\ AllExist(one, closures, tables) /\ Len(one) = 1
  <2>1. Exists(list[1], closures, tables)
    BY <1>2, <1>7 DEF AllExist
  <2> QED
    BY <2>1, SingleIs
<1>9. Slots(p, f) \in Nat /\ p.max <= Slots(p, f)
  BY <1>1 DEF Window, Slots, IsSeq
<1>10. from + Len(list) <= Slots(p, f) /\ low + Len(one) <= Slots(p, f) /\ from \in Nat /\ low \in Nat
  <2>1. low + i.c \in WindowOf(p)
    BY <1>2, <1>6
  <2> DEFINE n == Len(list)
             m == Len(one)
             a == i.a
             slots == Slots(p, f)
             size == p.max
  <2>2. a \in Nat /\ n \in Nat /\ n >= 1 /\ m = 1 /\ slots \in Nat /\ size \in Nat /\ size <= slots
        /\ a + 2 + n \in 0..(size - 1)
    BY <1>1, <1>2, <1>7, <1>8, <1>9, <2>1 DEF WindowOf
  <2> HIDE DEF n, m, a, slots, size
  <2>3. a + 3 + n <= slots /\ a + 2 + m <= slots /\ a + 3 \in Nat /\ a + 2 \in Nat
    BY <2>2
  <2> QED
    BY <2>3 DEF n, m, a, slots, size
<1>11. \A s \in Successors(p, f.pc) : Gains(p, f.pc, s) \cup Kills(p, f.pc) \subseteq W
  BY <1>2, <1>4, <1>5, <1>7
<1> HIDE DEF list, one, from, low
<1>12. Steps(p, f, given, W, closures, tables) /\ IsFrame(given) /\ given.pc = f.pc /\ given.closure = f.closure
  <2>1. Steps(p, f, given, W, closures, tables)
    BY <1>1, <1>7, <1>10, StoredSteps
  <2>2. given.pc = f.pc
    BY <1>1, StoredFrame
  <2> QED
    BY <2>1, <2>2 DEF Steps
<1>13. Steps(p, given, again, V, closures, tables) /\ again.pc = f.pc /\ again.closure = f.closure
  <2> HIDE DEF given
  <2>1. Window(p, given, closures, tables) /\ Slots(p, given) = Slots(p, f)
    BY <1>1, <1>12, StepsWindow DEF Steps, Slots
  <2>2. Steps(p, given, again, V, closures, tables)
    BY <1>1, <1>8, <1>10, <1>12, <2>1, StoredSteps
  <2>3. again.pc = given.pc
    BY <1>12, StoredFrame
  <2> QED
    BY <1>12, <2>2, <2>3 DEF Steps
<1>14. ToLoop(frs, cs, i, vs) = Arrived(Scanned(t, cs, {"native"}), cs, "running", <<>>)
  <2>1. Decide(given, FALSE) = Goto(given, next) /\ Decide(again, TRUE) = Goto(again, back)
    <3> HIDE DEF given, again
    <3>1. next = f.pc + 2 + 0
      BY <1>2
    <3> QED
      BY <1>1, <1>12, <1>13, <3>1 DEF Decide
  <2> HIDE DEF next, back
  <2> QED
    BY <1>1, <2>1, Zenon DEF ToLoop, list, one, from, low
<1> HIDE DEF given, again, next, back, W, V
<1>15. Steps(p, f, again, W \cup V, closures, tables)
  BY <1>1, <1>12, <1>13, StepsThen
<1>16. FrameOK(unit, g, closures, tables) /\ g.closure = f.closure /\ g.pc \in Successors(p, f.pc)
  <2>1. CASE list[1] = Nil
    <3>1. Steps(p, f, g, W, closures, tables) /\ g.pc = next
      BY <1>12, <2>1, GotoSteps
    <3>2. g.pc \in Successors(p, f.pc) /\ Gains(p, f.pc, g.pc) \cup Kills(p, f.pc) \subseteq W
      BY <1>3, <1>11, <3>1
    <3> HIDE DEF g
    <3>3. FrameOK(unit, g, closures, tables)
      BY <1>1, <1>4, <3>1, <3>2, MoveOK
    <3> QED
      BY <3>1, <3>2, <3>3 DEF Steps
  <2>2. CASE list[1] # Nil
    <3> DEFINE U == W \cup V
    <3>1. Steps(p, f, g, U, closures, tables) /\ g.pc = back
      BY <1>15, <2>2, GotoSteps
    <3>2. g.pc \in Successors(p, f.pc) /\ Gains(p, f.pc, g.pc) \cup Kills(p, f.pc) \subseteq U
      BY <1>3, <1>11, <3>1
    <3> HIDE DEF g, U
    <3>3. FrameOK(unit, g, closures, tables)
      BY <1>1, <1>4, <3>1, <3>2, MoveOK
    <3> QED
      BY <3>1, <3>2, <3>3 DEF Steps
  <2> QED
    BY <2>1, <2>2
<1> HIDE DEF g
<1>17. StateOK(unit, t, cs, closures, tables)
  BY <1>2, <1>16, LastGoesOn
<1> HIDE DEF t
<1>18. GoneOn(Arrived(Scanned(t, cs, {"native"}), cs, "running", <<>>))
  BY <1>17, GoesOnScanned DEF LastOK
<1> QED
  BY <1>14, <1>18

\* All that is left of a frame that is behind the receiver are the values its upvalues show.
LEMMA BehindIsLeft ==
  ASSUME AllDisciplined(unit), NEW frs, NEW cs, HeapOK(unit, frs, cs, closures, tables),
         NEW d \in 0..Len(frs)
  PROVE  HeapOK(unit, SubSeq(frs, 1, d), CloseBehind(frs, cs, d), closures, tables)
<1> DEFINE C == {c \in DOMAIN cs : cs[c].frame > d}
           t == SubSeq(frs, 1, d)
           ds == TakenAlong(frs, cs, C)
<1>1. /\ FramesOK(unit, frs, closures, tables) /\ ClosuresOK(unit, closures, cs)
      /\ CellsOK(unit, cs, frs, closures, tables) /\ TablesOK(tables, closures)
      /\ IsSeq(frs) /\ Len(frs) \in Nat /\ Len(cs) \in Nat /\ DOMAIN cs = 1..Len(cs)
  BY DEF HeapOK, FramesOK, CellsOK, IsSeq
<1>2. CloseBehind(frs, cs, d) = ds
  BY CloseBehindIs
<1>3. /\ IsSeq(t) /\ Len(t) = d
      /\ \A i \in 1..d : t[i] = frs[i]
  BY <1>1, PrefixIs
<1>4. \A c \in 1..Len(cs) : cs[c].frame # 0 =>
        /\ cs[c].frame \in 1..Len(frs)
        /\ cs[c].reg \in CapturedIn(unit, frs[cs[c].frame], closures)
  BY <1>1, OpenIs
<1>5. \A c \in 1..Len(cs) : c \in C => cs[c].frame # 0
  BY <1>1
<1>6. ASSUME NEW c \in 1..Len(cs), c \notin C, cs[c].frame # 0
      PROVE  cs[c].frame \in 1..Len(t) /\ cs[c].reg \in CapturedIn(unit, t[cs[c].frame], closures)
  <2>1. cs[c].frame \in 1..d
    BY <1>1, <1>4, <1>6
  <2> QED
    BY <1>3, <1>4, <1>6, <2>1
<1> HIDE DEF C, t
<1>7. ClosedIn(cs, ds, C, closures, tables)
  BY <1>1, <1>5, TakenAlongIs
<1> HIDE DEF ds
<1>8. CellsOK(unit, ds, t, closures, tables)
  BY <1>1, <1>3, <1>6, <1>7, ClosedFollow
<1>9. ClosuresOK(unit, closures, ds)
  BY <1>1, <1>7, ClosuresStay DEF ClosedIn
<1>10. FramesOK(unit, t, closures, tables)
  BY <1>1, <1>3 DEF FramesOK
<1>11. HeapOK(unit, t, ds, closures, tables)
  BY <1>1, <1>8, <1>9, <1>10 DEF HeapOK
<1> QED
  BY <1>2, <1>11 DEF t

AllWait(frs) == \A d \in 1..Len(frs) : Waits(unit, frs[d], closures)

LEMMA DeliverOK ==
  ASSUME AllDisciplined(unit), NEW frs, NEW cs, HeapOK(unit, frs, cs, closures, tables), AllWait(frs),
         NEW vs, IsSeq(vs), AllExist(vs, closures, tables)
  PROVE  GoneOn(Deliver(frs, cs, vs))
<1> DEFINE d == Receiver(frs)
           t == SubSeq(frs, 1, d)
           ds == CloseBehind(frs, cs, d)
           i == At(Proto(frs[d].closure), frs[d].pc)
           shown == [j \in DOMAIN vs |-> Shown(vs[j])]
<1>1. IsSeq(frs) /\ Len(frs) \in Nat
  BY DEF HeapOK, FramesOK, IsSeq
<1>2. d \in 0..Len(frs) /\ (d # 0 => i.op # "TAILCALL")
  BY <1>1, ReceiverIs
<1>3. Deliver(frs, cs, vs) = IF d = 0 THEN Arrived(t, ds, "done", shown)
                             ELSE IF i.op = "CALL" THEN ToCall(t, ds, i, vs)
                             ELSE ToLoop(t, ds, i, vs)
  BY Zenon DEF Deliver
<1> HIDE DEF d
<1>4. HeapOK(unit, t, ds, closures, tables)
  BY <1>2, BehindIsLeft
<1>5. /\ IsSeq(t) /\ Len(t) = d
      /\ \A j \in 1..d : t[j] = frs[j]
  BY <1>1, <1>2, PrefixIs
<1> HIDE DEF t, ds, shown
<1>6. CASE d = 0
  BY <1>3, <1>6, NoLongerRuns
<1>7. CASE d # 0
  <2> DEFINE f == Last(t)
             p == Proto(f.closure)
  <2>1. d \in 1..Len(frs) /\ d \in Nat /\ d >= 1
    BY <1>1, <1>2, <1>7
  <2>2. StateOK(unit, t, ds, closures, tables)
    <3>1. \A j \in 1..(Len(t) - 1) : Waits(unit, t[j], closures)
      BY <1>1, <1>5, <2>1 DEF AllWait
    <3> QED
      BY <1>4, <1>5, <2>1, <3>1 DEF StateOK
  <2>3. LastOK(t, ds, f, p)
    BY <2>2, LastIsOK
  <2>4. f = frs[d] /\ i = At(p, f.pc)
    <3>1. f = frs[d]
      BY <1>5, <2>1, <2>3 DEF LastOK
    <3> QED
      BY <3>1
  <2>5. i.op \in Calling
    BY <2>1 DEF AllWait, Waits, Calling, Proto, ProtoOf
  <2> HIDE DEF f, p, i
  <2>6. CASE i.op = "CALL"
    <3>1. GoneOn(ToCall(t, ds, At(p, f.pc), vs))
      BY <2>3, <2>4, <2>6, ToCallOK
    <3> QED
      BY <1>3, <1>7, <2>4, <2>6, <3>1
  <2>7. CASE i.op # "CALL"
    <3>1. At(p, f.pc).op = "TFORLOOP"
      BY <1>2, <1>7, <2>4, <2>5, <2>7 DEF Calling, i
    <3>2. GoneOn(ToLoop(t, ds, At(p, f.pc), vs))
      BY <2>3, <3>1, ToLoopOK
    <3> QED
      BY <1>3, <1>7, <2>4, <2>7, <3>2
  <2> QED
    BY <2>6, <2>7
<1> QED
  BY <1>6, <1>7

\* What is left of the program when it has settled.
Settled == phase' \in {"running", "done", "failed"} /\ (phase' = "running" => Kept)

LEMMA SettleKept ==
  ASSUME NEW to, GoneOn(to), Settle(to), UNCHANGED <<closures, tables>>
  PROVE  Settled
  BY DEF GoneOn, Settle, Settled, Kept

LEMMA CallHostKept == ASSUME Ready, CallHost PROVE Settled
<1> DEFINE t == Scanned(frames, cells, Everywhere)
           vs == Arguments
<1>1. I.op \in Calling /\ Settle(Deliver(t, cells, vs)) /\ UNCHANGED <<closures, tables>>
  BY DEF CallHost, Runs, Running, Calling
<1>2. IsSeq(vs) /\ AllExist(vs, closures, tables)
  BY <1>1, ArgumentsExist
<1>3. AllDisciplined(unit) /\ StateOK(unit, frames, cells, closures, tables) /\ SameProtos(frames, closures)
  BY FrameIsReady DEF Ready
<1>4. FramesOK(unit, frames, closures, tables) /\ ClosuresOK(unit, closures, cells)
  BY <1>3 DEF StateOK, HeapOK
<1>5. StateOK(unit, t, cells, closures, tables) /\ SamePlaces(frames, t)
  BY <1>3, <1>4, StateScanned, ScannedFrames
<1> HIDE DEF t
<1>6. HeapOK(unit, t, cells, closures, tables) /\ Len(t) \in Nat /\ Len(t) >= 1
  BY <1>5 DEF StateOK, HeapOK, FramesOK, IsSeq
<1>7. AllWait(t)
  <2>1. Waits(unit, frames[Len(frames)], closures)
    BY <1>1, FrameWaits
  <2>2. Waits(unit, t[Len(t)], closures)
    BY <1>5, <1>6, <2>1 DEF SamePlaces, Waits
  <2>3. \A d \in 1..(Len(t) - 1) : Waits(unit, t[d], closures)
    BY <1>5 DEF StateOK
  <2> QED
    BY <1>6, <2>2, <2>3 DEF AllWait
<1> HIDE DEF vs
<1>8. GoneOn(Deliver(t, cells, vs))
  BY <1>2, <1>3, <1>6, <1>7, DeliverOK
<1> QED
  BY <1>1, <1>8, SettleKept

LEMMA ReturnFromKept == ASSUME Ready, ReturnFrom PROVE Settled
<1> DEFINE n == Len(frames)
           t == Front(frames)
           C == {c \in DOMAIN cells : cells[c].frame = n /\ cells[c].reg >= 0}
           cs == TakenAlong(frames, cells, C)
           vs == Return
<1>1. I.op = "RETURN"
  BY DEF ReturnFrom, Running
<1>2. IsSeq(vs) /\ AllExist(vs, closures, tables)
  BY <1>1, ReturnExists
<1>3. /\ AllDisciplined(unit) /\ FramesOK(unit, frames, closures, tables)
      /\ ClosuresOK(unit, closures, cells) /\ CellsOK(unit, cells, frames, closures, tables)
      /\ TablesOK(tables, closures) /\ IsSeq(frames) /\ n \in Nat /\ n >= 1
      /\ Len(cells) \in Nat /\ DOMAIN cells = 1..Len(cells)
      /\ \A d \in 1..(n - 1) : Waits(unit, frames[d], closures)
  BY DEF Ready, StateOK, HeapOK, FramesOK, CellsOK, IsSeq
<1>4. CloseFrom(frames, cells, n, 0) = cs
  BY <1>3, CloseFromIs
<1>5. Settle(Deliver(t, cs, vs)) /\ UNCHANGED <<closures, tables>>
  BY <1>4, Zenon DEF ReturnFrom
<1>6. /\ IsSeq(t) /\ Len(t) = n - 1
      /\ \A d \in 1..(n - 1) : t[d] = frames[d]
  BY <1>3, FrontIs
<1>7. \A c \in 1..Len(cells) : c \in C => cells[c].frame # 0
  BY <1>3
<1>8. ASSUME NEW c \in 1..Len(cells), c \notin C, cells[c].frame # 0
      PROVE  cells[c].frame \in 1..Len(t) /\ cells[c].reg \in CapturedIn(unit, t[cells[c].frame], closures)
  <2>1. /\ cells[c].frame \in 1..n /\ cells[c].reg \in Nat
        /\ cells[c].reg \in CapturedIn(unit, frames[cells[c].frame], closures)
    BY <1>3, <1>8, OpenIs
  <2>2. cells[c].frame # n
    BY <1>3, <1>8, <2>1
  <2>3. cells[c].frame \in 1..(n - 1)
    BY <1>3, <2>1, <2>2
  <2> QED
    BY <1>6, <2>1, <2>3
<1> HIDE DEF t, C, n
<1>9. ClosedIn(cells, cs, C, closures, tables)
  BY <1>3, <1>7, TakenAlongIs
<1> HIDE DEF cs
<1>10. CellsOK(unit, cs, t, closures, tables)
  BY <1>3, <1>6, <1>8, <1>9, ClosedFollow
<1>11. ClosuresOK(unit, closures, cs)
  BY <1>3, <1>9, ClosuresStay DEF ClosedIn
<1>12. FramesOK(unit, t, closures, tables) /\ AllWait(t)
  BY <1>3, <1>6 DEF FramesOK, AllWait, n
<1>13. HeapOK(unit, t, cs, closures, tables)
  BY <1>3, <1>10, <1>11, <1>12 DEF HeapOK
<1> HIDE DEF vs
<1>14. GoneOn(Deliver(t, cs, vs))
  BY <1>2, <1>3, <1>12, <1>13, DeliverOK
<1> QED
  BY <1>5, <1>14, SettleKept

(***************************************************************************)
(* A closure and what it captures.                                         *)
(***************************************************************************)
CaptureStart == [cells |-> cells, ups |-> <<>>]

CaptureRule(f, j) == IF j = 0 THEN CaptureStart ELSE Capture(f[j - 1], At(P, F.pc + j))

LEMMA CapturedExist ==
  ASSUME NEW n \in Nat
  PROVE  \E f : f = [j \in 0..n |-> CaptureRule(f, j)]
<1> DEFINE Good == {m \in Nat : \E f : f = [j \in 0..m |-> CaptureRule(f, j)]}
<1>1. 0 \in Good
  <2> DEFINE f == [j \in 0..0 |-> CaptureStart]
  <2>1. \A j \in 0..0 : CaptureRule(f, j) = CaptureStart
    BY DEF CaptureRule
  <2>2. f = [j \in 0..0 |-> CaptureRule(f, j)]
    BY <2>1
  <2> QED
    BY <2>2
<1>2. ASSUME NEW m \in Nat, m \in Good PROVE m + 1 \in Good
  <2>1. PICK f : f = [j \in 0..m |-> CaptureRule(f, j)]
    BY <1>2
  <2> DEFINE g == [j \in 0..m + 1 |-> IF j <= m THEN f[j] ELSE CaptureRule(f, m + 1)]
  <2>2. ASSUME NEW j \in 0..m + 1 PROVE g[j] = CaptureRule(g, j)
    <3>1. CASE j <= m
      <4>1. j \in 0..m
        BY <3>1
      <4>2. g[j] = CaptureRule(f, j)
        BY <2>1, <3>1, <4>1
      <4>3. j # 0 => g[j - 1] = f[j - 1]
        BY <4>1
      <4> QED
        BY <4>2, <4>3 DEF CaptureRule
    <3>2. CASE ~(j <= m)
      <4>1. j = m + 1 /\ j - 1 = m /\ j # 0
        BY <3>2
      <4>2. g[j] = CaptureRule(f, m + 1) /\ g[m] = f[m]
        BY <3>2, <4>1
      <4>3. CaptureRule(g, j) = CaptureRule(f, j)
        BY <4>1, <4>2 DEF CaptureRule
      <4> QED
        BY <4>1, <4>2, <4>3
    <3> QED
      BY <3>1, <3>2
  <2>3. g = [j \in 0..m + 1 |-> CaptureRule(g, j)]
    BY <2>2
  <2> HIDE DEF g
  <2>4. \E h : h = [j \in 0..m + 1 |-> CaptureRule(h, j)]
    BY <2>3
  <2> QED
    BY <2>4
<1> HIDE DEF Good
<1>3. n \in Good
  BY <1>1, <1>2, NatSetInduction
<1> QED
  BY <1>3 DEF Good

LEMMA CapturedFollows ==
  ASSUME NEW n \in Nat
  PROVE  \A j \in 0..n : Captured(n)[j] = CaptureRule(Captured(n), j)
<1> DEFINE body == CHOOSE f : f = [j \in 0..n |-> IF j = 0 THEN [cells |-> cells, ups |-> <<>>]
                                                  ELSE Capture(f[j - 1], At(P, F.pc + j))]
           rule == CHOOSE f : f = [j \in 0..n |-> CaptureRule(f, j)]
<1>1. Captured(n) = body
  BY Zenon DEF Captured
<1>2. body = rule
  BY Zenon DEF CaptureRule, CaptureStart
<1>3. rule = [j \in 0..n |-> CaptureRule(rule, j)]
  <2>1. PICK f : f = [j \in 0..n |-> CaptureRule(f, j)]
    BY CapturedExist
  <2> QED
    BY <2>1, Zenon
<1> HIDE DEF body, rule
<1>4. Captured(n) = rule
  BY <1>1, <1>2
<1>5. \A j \in 0..n : rule[j] = CaptureRule(rule, j)
  BY <1>3
<1> QED
  BY <1>4, <1>5, Zenon

\* Cells are added for registers of the running frame that the words behind the closure name.
Opened(cell) ==
  cell = [frame |-> Len(frames), reg |-> cell.reg, value |-> Nil] /\ cell.reg \in Uses(P, F.pc)

CapturedSoFar(acc, j) ==
  /\ IsSeq(acc.cells) /\ Len(cells) <= Len(acc.cells)
  /\ \A c \in 1..Len(acc.cells) :
       IF c <= Len(cells) THEN acc.cells[c] = cells[c] ELSE Opened(acc.cells[c])
  /\ IsSeq(acc.ups) /\ Len(acc.ups) = j
  /\ \A k \in 1..Len(acc.ups) : acc.ups[k] \in 1..Len(acc.cells)

\* What a word behind a closure may say.
CanCapture(i) ==
  /\ i.op \in {"MOVE", "GETUPVAL"}
  /\ i.op = "GETUPVAL" => Upvalue(i.b) \in 1..Len(cells)
  /\ i.op = "MOVE" => i.b \in Uses(P, F.pc)

LEMMA UpvalueAdded ==
  ASSUME NEW acc, NEW j \in Nat, CapturedSoFar(acc, j), NEW x \in 1..Len(acc.cells),
         NEW new, new = [acc EXCEPT !.ups = Append(@, x)], acc = [cells |-> acc.cells, ups |-> acc.ups]
  PROVE  CapturedSoFar(new, j + 1) /\ new = [cells |-> new.cells, ups |-> new.ups]
<1> DEFINE u == Append(acc.ups, x)
<1>1. new.cells = acc.cells /\ new.ups = u /\ new = [cells |-> new.cells, ups |-> new.ups]
  OBVIOUS
<1>2. IsSeq(acc.ups) /\ Len(acc.ups) = j
  BY DEF CapturedSoFar
<1>3. /\ IsSeq(u) /\ Len(u) = j + 1
      /\ \A k \in 1..j : u[k] = acc.ups[k]
      /\ u[j + 1] = x
  BY <1>2, AppendIs
<1> HIDE DEF u
<1>4. ASSUME NEW k \in 1..Len(u) PROVE u[k] \in 1..Len(acc.cells)
  <2>1. CASE k \in 1..j
    <3>1. acc.ups[k] \in 1..Len(acc.cells)
      BY <1>2, <2>1 DEF CapturedSoFar
    <3> QED
      BY <1>3, <2>1, <3>1
  <2>2. CASE k = j + 1
    BY <1>3, <2>2
  <2> QED
    BY <1>3, <2>1, <2>2
<1> QED
  BY <1>1, <1>3, <1>4 DEF CapturedSoFar

LEMMA CellAdded ==
  ASSUME NEW acc, NEW j \in Nat, CapturedSoFar(acc, j), NEW r \in Uses(P, F.pc), Len(cells) \in Nat,
         NEW new, new = [cells |-> Append(acc.cells, [frame |-> Len(frames), reg |-> r, value |-> Nil]),
                         ups |-> Append(acc.ups, Len(acc.cells) + 1)]
  PROVE  CapturedSoFar(new, j + 1) /\ new = [cells |-> new.cells, ups |-> new.ups]
<1> DEFINE cell == [frame |-> Len(frames), reg |-> r, value |-> Nil]
           n == Len(acc.cells)
           s == Append(acc.cells, cell)
           u == Append(acc.ups, n + 1)
<1>1. new.cells = s /\ new.ups = u /\ new = [cells |-> new.cells, ups |-> new.ups]
  OBVIOUS
<1>2. IsSeq(acc.ups) /\ Len(acc.ups) = j /\ IsSeq(acc.cells) /\ n \in Nat /\ Len(cells) <= n
  BY DEF CapturedSoFar, IsSeq
<1>3. Opened(cell)
  BY DEF Opened
<1> HIDE DEF cell
<1>4. /\ IsSeq(s) /\ Len(s) = n + 1
      /\ \A k \in 1..n : s[k] = acc.cells[k]
      /\ s[n + 1] = cell
  BY <1>2, AppendIs
<1>5. /\ IsSeq(u) /\ Len(u) = j + 1
      /\ \A k \in 1..j : u[k] = acc.ups[k]
      /\ u[j + 1] = n + 1
  BY <1>2, AppendIs
<1> HIDE DEF s, u
<1>6. ASSUME NEW k \in 1..Len(u) PROVE u[k] \in 1..Len(s)
  <2>1. CASE k \in 1..j
    <3>1. acc.ups[k] \in 1..n
      BY <1>2, <2>1 DEF CapturedSoFar
    <3> QED
      BY <1>2, <1>4, <1>5, <2>1, <3>1
  <2>2. CASE k = j + 1
    BY <1>2, <1>4, <1>5, <2>2
  <2> QED
    BY <1>5, <2>1, <2>2
<1>7. ASSUME NEW c \in 1..Len(s)
      PROVE  IF c <= Len(cells) THEN s[c] = cells[c] ELSE Opened(s[c])
  <2>1. CASE c \in 1..n
    BY <1>4, <2>1 DEF CapturedSoFar
  <2>2. CASE c = n + 1
    <3>1. s[c] = cell /\ ~(c <= Len(cells))
      BY <1>2, <1>4, <2>2
    <3> QED
      BY <1>3, <3>1
  <2> QED
    BY <1>2, <1>4, <2>1, <2>2
<1>8. Len(cells) <= Len(s)
  BY <1>2, <1>4
<1> QED
  BY <1>1, <1>4, <1>5, <1>6, <1>7, <1>8 DEF CapturedSoFar

LEMMA CaptureStep ==
  ASSUME NEW acc, NEW j \in Nat, CapturedSoFar(acc, j), acc = [cells |-> acc.cells, ups |-> acc.ups],
         NEW i, CanCapture(i), Len(cells) \in Nat
  PROVE  CapturedSoFar(Capture(acc, i), j + 1)
         /\ Capture(acc, i) = [cells |-> Capture(acc, i).cells, ups |-> Capture(acc, i).ups]
<1> DEFINE d == Len(frames)
           same == {c \in DOMAIN acc.cells : acc.cells[c].frame = d /\ acc.cells[c].reg = i.b}
           new == Capture(acc, i)
<1>1. Len(acc.cells) \in Nat /\ Len(cells) <= Len(acc.cells) /\ DOMAIN acc.cells = 1..Len(acc.cells)
  BY DEF CapturedSoFar, IsSeq
<1>2. CASE i.op = "GETUPVAL"
  <2> DEFINE x == Upvalue(i.b)
  <2>1. new = [acc EXCEPT !.ups = Append(@, x)]
    BY <1>2, Zenon DEF Capture
  <2>2. x \in 1..Len(acc.cells)
    BY <1>1, <1>2 DEF CanCapture
  <2> HIDE DEF x, new
  <2>3. CapturedSoFar(new, j + 1) /\ new = [cells |-> new.cells, ups |-> new.ups]
    BY <2>1, <2>2, UpvalueAdded
  <2> QED
    BY <2>3 DEF new
<1>3. CASE i.op # "GETUPVAL" /\ same # {}
  <2> DEFINE x == CHOOSE c \in same : TRUE
  <2>1. new = [acc EXCEPT !.ups = Append(@, x)]
    BY <1>3, Zenon DEF Capture
  <2>2. x \in same
    BY <1>3, Zenon
  <2>3. x \in 1..Len(acc.cells)
    BY <1>1, <2>2
  <2> HIDE DEF x, new
  <2>4. CapturedSoFar(new, j + 1) /\ new = [cells |-> new.cells, ups |-> new.ups]
    BY <2>1, <2>3, UpvalueAdded
  <2> QED
    BY <2>4 DEF new
<1>4. CASE i.op # "GETUPVAL" /\ ~(same # {})
  <2> DEFINE r == i.b
  <2>1. new = [cells |-> Append(acc.cells, [frame |-> Len(frames), reg |-> r, value |-> Nil]),
               ups |-> Append(acc.ups, Len(acc.cells) + 1)]
    BY <1>4, Zenon DEF Capture
  <2>2. r \in Uses(P, F.pc)
    BY <1>4 DEF CanCapture
  <2> HIDE DEF r, new
  <2>3. CapturedSoFar(new, j + 1) /\ new = [cells |-> new.cells, ups |-> new.ups]
    BY <2>1, <2>2, CellAdded
  <2> QED
    BY <2>3 DEF new
<1> QED
  BY <1>2, <1>3, <1>4

LEMMA CapturedIs ==
  ASSUME NEW n \in Nat, \A j \in 1..n : CanCapture(At(P, F.pc + j)), IsSeq(cells), Len(cells) \in Nat
  PROVE  CapturedSoFar(Captured(n)[n], n)
<1> DEFINE f == Captured(n)
           Good == {j \in Nat : j <= n => /\ CapturedSoFar(f[j], j)
                                          /\ f[j] = [cells |-> f[j].cells, ups |-> f[j].ups]}
<1> HIDE DEF f
<1>1. \A j \in 0..n : f[j] = CaptureRule(f, j)
  BY CapturedFollows DEF f
<1>2. 0 \in Good
  <2>1. f[0] = CaptureStart
    BY <1>1 DEF CaptureRule
  <2>2. CapturedSoFar(CaptureStart, 0)
    BY EmptyIs DEF CapturedSoFar, CaptureStart
  <2>3. CaptureStart = [cells |-> CaptureStart.cells, ups |-> CaptureStart.ups]
    BY DEF CaptureStart
  <2> QED
    BY <2>1, <2>2, <2>3
<1>3. ASSUME NEW j \in Nat, j \in Good PROVE j + 1 \in Good
  <2> SUFFICES ASSUME j + 1 <= n
               PROVE  CapturedSoFar(f[j + 1], j + 1)
                      /\ f[j + 1] = [cells |-> f[j + 1].cells, ups |-> f[j + 1].ups]
    OBVIOUS
  <2> DEFINE acc == f[j]
             i == At(P, F.pc + (j + 1))
  <2>1. CapturedSoFar(acc, j) /\ acc = [cells |-> acc.cells, ups |-> acc.ups]
    BY <1>3
  <2>2. f[j + 1] = Capture(acc, i)
    <3>1. j + 1 \in 0..n /\ j + 1 # 0 /\ (j + 1) - 1 = j
      OBVIOUS
    <3> QED
      BY <1>1, <3>1 DEF CaptureRule
  <2>3. CanCapture(i)
    <3>1. j + 1 \in 1..n
      OBVIOUS
    <3> QED
      BY <3>1
  <2> HIDE DEF acc, i
  <2>4. CapturedSoFar(Capture(acc, i), j + 1)
        /\ Capture(acc, i) = [cells |-> Capture(acc, i).cells, ups |-> Capture(acc, i).ups]
    BY <2>1, <2>3, CaptureStep
  <2> QED
    BY <2>2, <2>4
<1> HIDE DEF Good
<1>4. n \in Good
  BY <1>2, <1>3, NatSetInduction
<1> QED
  BY <1>4 DEF Good, f

LEMMA ClosureIs ==
  ASSUME Ready, I.op = "CLOSURE", NEW n, n = P.protos[I.b + 1].ups
  PROVE  /\ n \in Nat /\ \A j \in 1..n : CanCapture(At(P, F.pc + j))
         /\ Append(closures[F.closure].path, I.b + 1) \in DOMAIN unit
         /\ unit[Append(closures[F.closure].path, I.b + 1)].ups = n
<1> DEFINE path == closures[F.closure].path
<1>1. FrameReady(closures, tables)
  BY FrameIsReady
<1>2. I = At(P, F.pc) /\ P = unit[path] /\ F.pc \in DOMAIN Facts(P) /\ F.closure \in 1..Len(closures)
      /\ F.pc \in Nat
  BY <1>1, PositionIs DEF FrameReady, ProtoOf, PlaceOK, FrameOK
<1>3. path \in DOMAIN unit /\ Len(closures[F.closure].ups) = P.ups
      /\ \A k \in 1..Len(closures[F.closure].ups) : closures[F.closure].ups[k] \in 1..Len(cells)
  BY <1>2 DEF Ready, StateOK, HeapOK, ClosuresOK, ClosureOK
<1> HIDE DEF path
<1>4. ClosureDisciplined(unit, path, F.pc)
  <2> DEFINE pc == F.pc
  <2>1. pc \in DOMAIN Facts(unit[path]) /\ At(unit[path], pc).op = "CLOSURE"
    BY <1>2
  <2> HIDE DEF pc
  <2>2. ClosureDisciplined(unit, path, pc)
    BY <1>3, <2>1, ProtosOK DEF Ready
  <2> QED
    BY <2>2 DEF pc
<1>5. /\ Append(path, I.b + 1) \in DOMAIN unit
      /\ unit[Append(path, I.b + 1)].ups = n
      /\ n \in Nat
      /\ \A j \in 1..n : /\ At(P, F.pc + j).op \in {"MOVE", "GETUPVAL"}
                         /\ At(P, F.pc + j).op = "GETUPVAL" => At(P, F.pc + j).b \in 0..(P.ups - 1)
  BY <1>2, <1>4 DEF ClosureDisciplined
<1>6. ASSUME NEW j \in 1..n PROVE CanCapture(At(P, F.pc + j))
  <2> DEFINE i == At(P, F.pc + j)
  <2>1. i.op \in {"MOVE", "GETUPVAL"} /\ (i.op = "GETUPVAL" => i.b \in 0..(P.ups - 1))
    BY <1>5
  <2>2. i.op = "GETUPVAL" => Upvalue(i.b) \in 1..Len(cells)
    <3> SUFFICES ASSUME i.op = "GETUPVAL" PROVE Upvalue(i.b) \in 1..Len(cells)
      OBVIOUS
    <3>1. P.ups \in Nat
      BY <1>1 DEF FrameReady, ProtoOK
    <3>2. i.b + 1 \in 1..P.ups
      BY <2>1, <3>1
    <3> QED
      BY <1>3, <3>2 DEF Upvalue, path
  <2>3. i.op = "MOVE" => i.b \in Uses(P, F.pc)
    <3> SUFFICES ASSUME i.op = "MOVE" PROVE i.b \in Uses(P, F.pc)
      OBVIOUS
    <3>1. Uses(P, F.pc) = {At(P, q).b : q \in {q \in (F.pc + 1)..(F.pc + n) : At(P, q).op = "MOVE"}}
      BY <1>2 DEF Uses, Arithmetic, Comparing
    <3>2. F.pc + j \in {q \in (F.pc + 1)..(F.pc + n) : At(P, q).op = "MOVE"}
      BY <1>2, <1>5
    <3> QED
      BY <3>1, <3>2
  <2> HIDE DEF i
  <2>4. CanCapture(i)
    BY <2>1, <2>2, <2>3 DEF CanCapture
  <2> QED
    BY <2>4 DEF i
<1> QED
  BY <1>5, <1>6 DEF path

\* Frames that were there have the prototypes they had.
LEMMA SameWhenGrown ==
  ASSUME NEW frs, NEW cls, IsSeq(closures), Len(closures) <= Len(cls),
         \A c \in 1..Len(closures) : cls[c] = closures[c],
         \A d \in 1..Len(frs) : frs[d].closure \in 1..Len(closures)
  PROVE  SameProtos(frs, cls)
  BY DEF SameProtos, Proto, ProtoOf

\* Cells that were opened are on registers that may be captured where the frame goes on.
LEMMA OpenedOK ==
  ASSUME NEW frs, NEW cs, NEW acc, NEW j, NEW cls, NEW tbs, CapturedSoFar(acc, j),
         CellsOK(unit, cells, frs, cls, tbs), Len(frs) = Len(frames), Len(frs) \in Nat, Len(frs) >= 1,
         Uses(P, F.pc) \subseteq CapturedIn(unit, frs[Len(frs)], cls)
  PROVE  CellsOK(unit, acc.cells, frs, cls, tbs)
<1>1. ASSUME NEW c \in 1..Len(acc.cells) PROVE CellOK(unit, acc.cells[c], frs, cls, tbs)
  <2>1. CASE c <= Len(cells)
    <3>1. acc.cells[c] = cells[c] /\ c \in 1..Len(cells)
      BY <2>1 DEF CapturedSoFar, CellsOK, IsSeq
    <3>2. CellOK(unit, cells[c], frs, cls, tbs)
      BY <3>1 DEF CellsOK
    <3> QED
      BY <3>1, <3>2
  <2>2. CASE ~(c <= Len(cells))
    <3> DEFINE cell == acc.cells[c]
    <3>1. Opened(cell)
      BY <2>2 DEF CapturedSoFar
    <3> HIDE DEF cell
    <3>2. /\ cell = [frame |-> cell.frame, reg |-> cell.reg, value |-> cell.value]
          /\ cell.frame = Len(frames) /\ cell.reg \in Uses(P, F.pc)
      BY <3>1 DEF Opened
    <3>3. CellOK(unit, cell, frs, cls, tbs)
      BY <3>2 DEF CellOK
    <3> QED
      BY <3>3 DEF cell
  <2> QED
    BY <2>1, <2>2
<1> QED
  BY <1>1 DEF CellsOK, CapturedSoFar

LEMMA ClosureAdded ==
  ASSUME NEW closure, NEW cs, ClosuresOK(unit, closures, cs), ClosureOK(unit, closure, cs),
         TablesOK(tables, closures)
  PROVE  LET cls == Append(closures, closure)
         IN /\ IsSeq(cls) /\ Len(cls) = Len(closures) + 1
            /\ Grown(closures, tables, cls, tables)
            /\ ClosuresOK(unit, cls, cs) /\ TablesOK(tables, cls)
<1> DEFINE cls == Append(closures, closure)
<1>1. IsSeq(closures) /\ Len(closures) \in Nat /\ IsSeq(tables) /\ Len(tables) \in Nat
  BY DEF ClosuresOK, TablesOK, IsSeq
<1>2. /\ IsSeq(cls) /\ Len(cls) = Len(closures) + 1
      /\ \A i \in 1..Len(closures) : cls[i] = closures[i]
      /\ cls[Len(closures) + 1] = closure
  BY <1>1, AppendIs
<1> HIDE DEF cls
<1>3. Grown(closures, tables, cls, tables)
  BY <1>1, <1>2 DEF Grown
<1>4. ClosuresOK(unit, cls, cs)
  <2>1. ASSUME NEW c \in 1..Len(cls) PROVE ClosureOK(unit, cls[c], cs)
    <3>1. CASE c \in 1..Len(closures)
      BY <1>2, <3>1 DEF ClosuresOK
    <3>2. CASE c = Len(closures) + 1
      BY <1>2, <3>2
    <3> QED
      BY <1>1, <1>2, <3>1, <3>2
  <2> QED
    BY <1>2, <2>1 DEF ClosuresOK
<1>5. TablesOK(tables, cls)
  <2>1. ASSUME NEW i \in 1..Len(tables) PROVE TableOK(tables[i], cls, tables)
    BY <1>3, GrownTable DEF TablesOK
  <2> QED
    BY <2>1 DEF TablesOK
<1> QED
  BY <1>2, <1>3, <1>4, <1>5 DEF cls

LEMMA MakeClosureKept == ASSUME Ready, MakeClosure PROVE Kept
<1> DEFINE n == P.protos[I.b + 1].ups
           made == Captured(n)[n]
           cs == made.cells
           closure == [path |-> Append(closures[F.closure].path, I.b + 1), ups |-> made.ups]
           cls == Append(closures, closure)
           v == <<"function", Len(cls)>>
           vs == <<v>>
           t == F.pc + 1 + n
           g == Goto(Stored(F, I.a, vs), t)
           frs == Append(Front(frames), g)
<1>1. FrameReady(closures, tables) /\ F = frames[Len(frames)] /\ SameProtos(frames, closures)
  BY FrameIsReady
<1>2. I.op = "CLOSURE" /\ I = At(P, F.pc) /\ I.a \in Nat /\ F.pc \in Nat
  BY <1>1, PositionIs DEF MakeClosure, Running
<1>3. /\ cells' = cs /\ closures' = cls /\ tables' = tables
      /\ frames' = Scanned(frs, cells', Everywhere)
  <2>1. /\ cells' = cs /\ closures' = cls /\ tables' = tables
        /\ frames' = Scanned(Append(Front(frames), Goto(Stored(F, I.a, <<<<"function", Len(closures')>>>>), F.pc + 1 + n)), cells', Everywhere)
    BY Zenon DEF MakeClosure, Allocated
  <2> HIDE DEF cs, cls, n
  <2> QED
    BY <2>1, Zenon
<1>4. /\ AllDisciplined(unit) /\ FramesOK(unit, frames, closures, tables)
      /\ ClosuresOK(unit, closures, cells) /\ CellsOK(unit, cells, frames, closures, tables)
      /\ TablesOK(tables, closures) /\ IsSeq(frames) /\ Len(frames) \in Nat /\ Len(frames) >= 1
      /\ IsSeq(cells) /\ Len(cells) \in Nat /\ IsSeq(closures) /\ Len(closures) \in Nat
      /\ \A d \in 1..(Len(frames) - 1) : Waits(unit, frames[d], closures)
  BY DEF Ready, StateOK, HeapOK, FramesOK, CellsOK, ClosuresOK, IsSeq
<1>5. /\ n \in Nat /\ \A j \in 1..n : CanCapture(At(P, F.pc + j))
      /\ closure.path \in DOMAIN unit /\ unit[closure.path].ups = n
  <2> HIDE DEF made
  <2> DEFINE path == Append(closures[F.closure].path, I.b + 1)
  <2>1. closure.path = path
    OBVIOUS
  <2>2. n \in Nat /\ (\A j \in 1..n : CanCapture(At(P, F.pc + j))) /\ path \in DOMAIN unit /\ unit[path].ups = n
    BY <1>2, ClosureIs
  <2> HIDE DEF closure, path, n
  <2> QED
    BY <2>1, <2>2
<1> HIDE DEF n
<1>6. CapturedSoFar(made, n)
  BY <1>4, <1>5, CapturedIs
<1> HIDE DEF made
<1>7. ClosureOK(unit, closure, cs)
  <2>1. closure.ups = made.ups
    OBVIOUS
  <2> HIDE DEF closure
  <2> QED
    BY <1>5, <1>6, <2>1 DEF ClosureOK, CapturedSoFar
<1>8. ClosuresOK(unit, closures, cs)
  BY <1>4, <1>6, ClosuresStay DEF CapturedSoFar, IsSeq
<1> HIDE DEF closure
<1>9. /\ IsSeq(cls) /\ Len(cls) = Len(closures) + 1
      /\ Grown(closures, tables, cls, tables)
      /\ ClosuresOK(unit, cls, cs) /\ TablesOK(tables, cls)
  BY <1>4, <1>7, <1>8, ClosureAdded
<1> HIDE DEF cls
<1>10. FrameReady(cls, tables)
  BY <1>1, <1>9, FrameStaysReady
<1>11. IsSeq(vs) /\ AllExist(vs, cls, tables) /\ Len(vs) = 1
  <2>1. v[1] = "function" /\ v[2] = Len(cls)
    OBVIOUS
  <2> HIDE DEF v
  <2>2. Exists(v, cls, tables)
    BY <1>4, <1>9, <2>1 DEF Exists
  <2> QED
    BY <2>2, SingleIs
<1> HIDE DEF vs
<1>12. /\ Successors(P, F.pc) = {t} /\ Kills(P, F.pc) = {I.a}
       /\ Gains(P, F.pc, t) = {I.a} /\ ~SetsTop(I)
  <2>1. Successors(P, F.pc) = {t}
    BY <1>2 DEF Successors, Comparing, n
  <2>2. Kills(P, F.pc) = {I.a}
    BY <1>2 DEF Kills, Arithmetic
  <2>3. Gains(P, F.pc, t) = Kills(P, F.pc)
    BY <1>2 DEF Gains
  <2> QED
    BY <1>2, <2>1, <2>2, <2>3 DEF SetsTop
<1> HIDE DEF t
<1>13. CanStore(I.a, vs, t, cls, tables)
  <2>1. I.a \in WindowOf(P)
    BY <1>1, <1>12, PositionIs
  <2>2. I.a + 1 <= Slots(P, F)
    BY <1>1, <1>2, <2>1, RegistersExist
  <2>3. Gains(P, F.pc, t) \cup Kills(P, F.pc) \subseteq I.a..(I.a + Len(vs) - 1)
    BY <1>2, <1>11, <1>12
  <2> QED
    BY <1>2, <1>11, <1>12, <2>2, <2>3 DEF CanStore
<1>14. GoesTo(g, t, cls, tables)
  <2> DEFINE a == I.a
  <2>1. CanStore(a, vs, t, cls, tables)
    BY <1>13
  <2> HIDE DEF a
  <2>2. GoesTo(Goto(Stored(F, a, vs), t), t, cls, tables)
    BY <1>10, <2>1, StoreGoesOn
  <2> QED
    BY <2>2 DEF a
<1> HIDE DEF g
<1>15. /\ IsSeq(frs) /\ Len(frs) = Len(frames)
       /\ \A d \in 1..(Len(frames) - 1) : frs[d] = frames[d]
       /\ frs[Len(frames)] = g
  BY <1>4, ReplaceIs
<1>16. FramesOK(unit, frames, cls, tables) /\ CellsOK(unit, cells, frames, cls, tables)
       /\ \A d \in 1..Len(frames) : Waits(unit, frames[d], cls) = Waits(unit, frames[d], closures)
  BY <1>4, <1>9, GrownFrames, GrownCells
<1>17. FramesOK(unit, frs, cls, tables)
  BY <1>4, <1>14, <1>16, FramesReplaced DEF GoesTo
<1>18. /\ CapturedIn(unit, F, cls) \subseteq CapturedIn(unit, g, cls)
       /\ Uses(P, F.pc) \subseteq CapturedIn(unit, g, cls)
  <2> DEFINE p == P
             f == F
  <2>1. p = ProtoOf(unit, cls, f.closure) /\ PlaceOK(p, f.pc) /\ g.closure = f.closure
        /\ g.pc \in Successors(p, f.pc)
    BY <1>10, <1>14 DEF FrameReady, GoesTo
  <2>2. At(p, f.pc).op = "CLOSURE"
    BY <1>2
  <2> HIDE DEF p, f
  <2>3. At(p, f.pc).op # "CLOSE" => CapturedIn(unit, f, cls) \subseteq CapturedIn(unit, g, cls)
    BY <2>1, CapturedKept
  <2>4. CapturedAt(p, f.pc) \subseteq CapturedIn(unit, g, cls)
    <3>1. StepDisciplined(p, Facts(p), f.pc, g.pc)
      BY <2>1 DEF PlaceOK
    <3>2. CapturedIn(unit, g, cls) = Facts(p)[g.pc].captured
      BY <2>1 DEF CapturedIn
    <3> QED
      BY <3>1, <3>2 DEF StepDisciplined
  <2>5. CapturedIn(unit, f, cls) \subseteq CapturedIn(unit, g, cls) /\ Uses(p, f.pc) \subseteq CapturedIn(unit, g, cls)
    BY <2>2, <2>3, <2>4 DEF CapturedAt
  <2> QED
    BY <2>5 DEF p, f
<1>19. CellsOK(unit, cells, frs, cls, tables)
  <2>1. CapturedIn(unit, frames[Len(frames)], cls) \subseteq CapturedIn(unit, g, cls)
    BY <1>1, <1>18
  <2> QED
    BY <1>4, <1>16, <2>1, ReplacedFollow
<1> HIDE DEF frs
<1>20. CellsOK(unit, cs, frs, cls, tables)
  BY <1>4, <1>6, <1>15, <1>18, <1>19, OpenedOK
<1>21. \A d \in 1..(Len(frs) - 1) : Waits(unit, frs[d], cls)
  BY <1>4, <1>15, <1>16
<1>22. StateOK(unit, frs, cs, cls, tables)
  BY <1>4, <1>9, <1>15, <1>17, <1>20, <1>21 DEF StateOK, HeapOK
<1>23. SameProtos(frs, cls)
  <2>1. ASSUME NEW d \in 1..Len(frs) PROVE frs[d].closure \in 1..Len(closures)
    <3>1. CASE d \in 1..(Len(frames) - 1)
      <4>1. FrameOK(unit, frames[d], closures, tables)
        BY <1>4, <3>1 DEF FramesOK
      <4> QED
        BY <1>15, <3>1, <4>1 DEF FrameOK
    <3>2. CASE d = Len(frames)
      BY <1>1, <1>14, <1>15, <3>2 DEF GoesTo, FrameReady, FrameOK
    <3> QED
      BY <1>4, <1>15, <3>1, <3>2
  <2> QED
    BY <1>9, <2>1, SameWhenGrown DEF Grown
<1>24. StateOK(unit, Scanned(frs, cs, Everywhere), cs, cls, tables)
  BY <1>4, <1>22, <1>23, StateScanned
<1> QED
  BY <1>3, <1>24 DEF Kept

(***************************************************************************)
(* The invariant.                                                          *)
(***************************************************************************)
\* A running program goes on, ends or fails, and goes on as it should.
LEMMA InstructionKept ==
  ASSUME Ready, phase = "running", Instruction
  PROVE  Settled /\ unit' = unit
<1>1. ASSUME Kept, Quiet PROVE Settled /\ unit' = unit
  BY <1>1 DEF Settled, Quiet
<1>2. CASE Move
  BY <1>1, <1>2, MoveKept DEF Move
<1>3. CASE LoadBool
  BY <1>1, <1>3, LoadBoolKept DEF LoadBool
<1>4. CASE LoadNil
  BY <1>1, <1>4, LoadNilKept DEF LoadNil
<1>5. CASE GetUpvalue
  BY <1>1, <1>5, GetUpvalueKept DEF GetUpvalue
<1>6. CASE SetUpvalue
  BY <1>1, <1>6, SetUpvalueKept DEF SetUpvalue
<1>7. CASE GetGlobal
  BY <1>1, <1>7, GetGlobalKept DEF GetGlobal
<1>8. CASE SetGlobal
  BY <1>1, <1>8, SetGlobalKept DEF SetGlobal
<1>9. CASE GetTable
  BY <1>1, <1>9, GetTableKept DEF GetTable
<1>10. CASE Self
  BY <1>1, <1>10, SelfKept DEF Self
<1>11. CASE SetTable
  BY <1>1, <1>11, SetTableKept DEF SetTable
<1>12. CASE NewTable
  BY <1>1, <1>12, NewTableKept DEF NewTable
<1>13. CASE SetList
  BY <1>1, <1>13, SetListKept DEF SetList
<1>14. CASE Operate
  BY <1>1, <1>14, OperateKept DEF Operate
<1>15. CASE Unary
  BY <1>1, <1>15, UnaryKept DEF Unary
<1>16. CASE Concat
  BY <1>1, <1>16, ConcatKept DEF Concat
<1>17. CASE Jump
  BY <1>1, <1>17, JumpKept DEF Jump
<1>18. CASE Compare
  BY <1>1, <1>18, CompareKept DEF Compare
<1>19. CASE Test
  BY <1>1, <1>19, TestKept DEF Test
<1>20. CASE CallFunction
  BY <1>1, <1>20, CallFunctionKept DEF CallFunction
<1>21. CASE CallHost
  BY <1>21, CallHostKept DEF CallHost
<1>22. CASE ReturnFrom
  BY <1>22, ReturnFromKept DEF ReturnFrom
<1>23. CASE ForPrep
  BY <1>1, <1>23, ForPrepKept DEF ForPrep
<1>24. CASE ForLoop
  BY <1>1, <1>24, ForLoopKept DEF ForLoop
<1>25. CASE Close
  BY <1>1, <1>25, CloseKept DEF Close
<1>26. CASE MakeClosure
  BY <1>1, <1>26, MakeClosureKept DEF MakeClosure
<1>27. CASE Vararg
  BY <1>1, <1>27, VarargKept DEF Vararg
<1> QED
  BY <1>2, <1>3, <1>4, <1>5, <1>6, <1>7, <1>8, <1>9, <1>10, <1>11, <1>12, <1>13, <1>14, <1>15, <1>16,
     <1>17, <1>18, <1>19, <1>20, <1>21, <1>22, <1>23, <1>24, <1>25, <1>26, <1>27 DEF Instruction

\* The frame of the main function.
MainFrame(p) ==
  [closure |-> 1, pc |-> 0, varargs |-> <<>>, skipped |-> NothingSkipped, top |-> 0,
   regs |-> [r \in 0..(p.max - 1) |-> Nil]]

MainClosure == [path |-> <<>>, ups |-> <<>>]

LEMMA MainFrameOK ==
  ASSUME AllDisciplined(unit), NEW cls, cls = <<MainClosure>>, NEW tbs
  PROVE  FrameOK(unit, MainFrame(unit[<<>>]), cls, tbs)
<1> DEFINE p == unit[<<>>]
           R == [r \in 0..(p.max - 1) |-> Nil]
           f == MainFrame(p)
<1>1. ProtoOK(p) /\ p.params = 0
  BY ProtosOK DEF AllDisciplined
<1>2. Len(cls) = 1 /\ p = ProtoOf(unit, cls, 1)
  <2>1. Len(cls) = 1 /\ cls[1] = MainClosure
    BY OneIs
  <2> QED
    BY <2>1 DEF ProtoOf, MainClosure
<1>3. /\ f.closure = 1 /\ f.pc = 0 /\ f.varargs = <<>> /\ f.skipped = NothingSkipped
      /\ f.top = 0 /\ f.regs = R /\ IsFrame(f)
  BY DEF MainFrame, IsFrame
<1> HIDE DEF p, f
<1>4. p.max \in Nat
  BY <1>1, WindowSize
<1>5. IsSeq(f.varargs) /\ AllExist(f.varargs, cls, tbs) /\ Len(f.varargs) = 0
  <2>1. IsSeq(<<>>) /\ AllExist(<<>>, cls, tbs) /\ Len(<<>>) = 0
    BY NoneIs
  <2> QED
    BY <1>3, <2>1, Zenon
<1>6. Slots(p, f) = p.max
  BY <1>4, <1>5 DEF Slots
<1>7. Window(p, f, cls, tbs)
  <2>1. DOMAIN f.regs = 0..(Slots(p, f) - 1)
    BY <1>3, <1>6
  <2>2. \A r \in DOMAIN f.regs : Exists(f.regs[r], cls, tbs)
    BY <1>3, NilExists
  <2>3. f.top \in 0..Slots(p, f)
    BY <1>3, <1>4, <1>6
  <2>4. f.skipped \in [Everywhere -> SUBSET WindowOf(p)]
    BY <1>3 DEF NothingSkipped
  <2> QED
    BY <1>5, <2>1, <2>2, <2>3, <2>4 DEF Window
<1>8. NothingLost(p, f)
  <2>1. Facts(p)[0].assigned \subseteq 0..(f.top - 1)
    BY <1>1, <1>3 DEF ProtoOK
  <2>2. f.skipped["interpreted"] = {} /\ f.skipped["native"] = {}
    BY <1>3 DEF NothingSkipped, Everywhere
  <2>3. ~TakesList(At(p, f.pc))
    BY <1>1, <1>3 DEF ProtoOK
  <2> QED
    BY <1>3, <2>1, <2>2, <2>3 DEF NothingLost
<1>9. f.pc \in DOMAIN Facts(p)
  BY <1>1, <1>3 DEF ProtoOK
<1>10. FrameOK(unit, f, cls, tbs)
  BY <1>2, <1>3, <1>7, <1>8, <1>9 DEF FrameOK
<1> QED
  BY <1>10 DEF f, p

LEMMA StartOK ==
  ASSUME AllDisciplined(unit), cells = <<>>, TablesOK(tables, <<>>)
  PROVE  StateOK(unit, <<MainFrame(unit[<<>>])>>, cells, <<MainClosure>>, tables)
<1> DEFINE f == MainFrame(unit[<<>>])
           cls == <<MainClosure>>
           frs == <<f>>
<1>1. IsSeq(cls) /\ Len(cls) = 1 /\ cls[1] = MainClosure
  BY OneIs
<1>2. IsSeq(frs) /\ Len(frs) = 1 /\ frs[1] = f
  BY OneIs
<1>3. IsSeq(<<>>) /\ Len(<<>>) = 0
  BY EmptyIs
<1>4. FrameOK(unit, f, cls, tables)
  BY MainFrameOK
<1> HIDE DEF f, cls, frs
<1>5. FramesOK(unit, frs, cls, tables)
  BY <1>2, <1>4 DEF FramesOK
<1>6. CellsOK(unit, cells, frs, cls, tables)
  <2>1. IsSeq(cells) /\ 1..Len(cells) = {}
    BY <1>3
  <2> QED
    BY <2>1 DEF CellsOK
<1>7. ClosuresOK(unit, cls, cells)
  <2>1. MainClosure.path = <<>> /\ MainClosure.ups = <<>>
    BY DEF MainClosure
  <2>2. 1..Len(<<>>) = {}
    BY <1>3
  <2>3. ClosureOK(unit, MainClosure, cells)
    BY <1>3, <2>1, <2>2 DEF ClosureOK, AllDisciplined
  <2> QED
    BY <1>1, <2>3 DEF ClosuresOK
<1>8. TablesOK(tables, cls)
  <2> DEFINE none == <<>>
  <2>1. IsSeq(none) /\ Len(none) = 0 /\ 1..Len(none) = {} /\ TablesOK(tables, none)
    BY <1>3
  <2> HIDE DEF none
  <2>2. Grown(none, tables, cls, tables)
    BY <1>1, <2>1 DEF Grown, TablesOK, IsSeq
  <2>3. ASSUME NEW i \in 1..Len(tables) PROVE TableOK(tables[i], cls, tables)
    BY <2>1, <2>2, GrownTable DEF TablesOK
  <2> QED
    BY <2>1, <2>3 DEF TablesOK
<1>9. \A d \in 1..(Len(frs) - 1) : Waits(unit, frs[d], cls)
  BY <1>2
<1>10. StateOK(unit, frs, cells, cls, tables)
  BY <1>2, <1>5, <1>6, <1>7, <1>8, <1>9 DEF StateOK, HeapOK
<1> QED
  BY <1>10 DEF frs, cls, f

LEMMA MachineBegins == Init => MachineInv
<1> SUFFICES ASSUME Init PROVE MachineInv
  OBVIOUS
<1> DEFINE table == [k \in {<<"str", <<"out">>>>} |-> <<"host", 0>>]
           none == <<>>
<1>1. phase = "text" /\ cells = <<>> /\ tables = <<table>>
  BY DEF Init
<1>2. TableOK(table, none, tables)
  <2>1. ASSUME NEW k \in DOMAIN table PROVE table[k][1] = "host"
    OBVIOUS
  <2> HIDE DEF table
  <2> QED
    BY <2>1, PlainExists DEF TableOK
<1> HIDE DEF table, none
<1>3. IsSeq(tables) /\ Len(tables) = 1 /\ tables[1] = table
  BY <1>1, OneIs
<1>4. TablesOK(tables, none)
  BY <1>2, <1>3 DEF TablesOK
<1> QED
  BY <1>1, <1>4 DEF MachineInv, none

LEMMA MachineGoesOn ==
  ASSUME MachineInv, ProtosSound', [Next]_vars
  PROVE  MachineInv'
<1>1. ASSUME phase \in {"text", "source", "bound", "lowered"}, UNCHANGED <<cells, tables>>,
             phase' \notin {"running"}, phase' = "emitted" => AllDisciplined(unit')
      PROVE  MachineInv'
  BY <1>1 DEF MachineInv
<1>2. CASE ParseText
  BY <1>1, <1>2 DEF ParseText, heap
<1>3. CASE BindSource
  BY <1>1, <1>3 DEF BindSource, heap
<1>4. CASE LowerBound
  BY <1>1, <1>4 DEF LowerBound, heap
<1>5. CASE EmitLowered
  <2>1. phase = "lowered" /\ UNCHANGED <<cells, tables>> /\ phase' \in {"unemitted", "invalid", "emitted"}
    BY <1>5 DEF EmitLowered, heap
  <2>2. phase' = "emitted" => AllDisciplined(unit')
    BY DEF ProtosSound, AllDisciplined, Disciplined, PositionDisciplined, StepDisciplined, ClosureDisciplined
  <2> QED
    BY <1>1, <2>1, <2>2
<1>6. CASE Start
  <2>1. /\ phase = "emitted" /\ phase' = "running" /\ unit' = unit /\ cells' = cells /\ tables' = tables
        /\ closures' = <<MainClosure>> /\ frames' = <<MainFrame(unit[<<>>])>>
    BY <1>6 DEF Start, MainClosure, MainFrame
  <2>2. AllDisciplined(unit) /\ cells = <<>> /\ TablesOK(tables, <<>>)
    BY <2>1 DEF MachineInv
  <2>3. StateOK(unit, <<MainFrame(unit[<<>>])>>, cells, <<MainClosure>>, tables)
    BY <2>2, StartOK
  <2> QED
    BY <2>1, <2>2, <2>3 DEF MachineInv
<1>7. CASE Instruction
  <2>1. phase = "running"
    BY <1>7 DEF Instruction, Move, LoadBool, LoadNil, GetUpvalue, SetUpvalue, GetGlobal, SetGlobal,
       GetTable, Self, SetTable, NewTable, SetList, Operate, Unary, Concat, Jump, Compare, Test,
       CallFunction, CallHost, ReturnFrom, ForPrep, ForLoop, Close, MakeClosure, Vararg, Running, Runs
  <2>2. Ready
    BY <2>1 DEF MachineInv, Ready
  <2>3. Settled /\ unit' = unit
    BY <1>7, <2>1, <2>2, InstructionKept
  <2> QED
    BY <2>2, <2>3 DEF MachineInv, Settled, Kept, Ready
<1>8. CASE Raise
  BY <1>8 DEF Raise, Settle, Broken, Arrived, MachineInv
<1>9. CASE UNCHANGED vars
  BY <1>9 DEF vars, heap, MachineInv
<1> QED
  BY <1>2, <1>3, <1>4, <1>5, <1>6, <1>7, <1>8, <1>9 DEF Next, Finished

(***************************************************************************)
(* What instructions read.                                                 *)
(***************************************************************************)
LEMMA ListedLength ==
  ASSUME NEW start, NEW n \in Nat
  PROVE  Len(Listed(start, n)) = n
<1> DEFINE s == [j \in 1..n |-> F.regs[start + j - 1]]
<1>1. s = [j \in 1..n |-> s[j]]
  OBVIOUS
<1>2. Listed(start, n) = s
  BY DEF Listed
<1> HIDE DEF s
<1> QED
  BY <1>1, <1>2, SeqFrom

LEMMA UpToTopLength ==
  ASSUME NEW start \in Nat, F.top \in Nat
  PROVE  \A r \in start..(start + Len(UpToTop(start)) - 1) : r \in start..(F.top - 1)
<1> DEFINE n == Max({0, F.top - start})
           m == F.top - start
           k == 0
<1>1. m \in Int /\ k \in Int
  OBVIOUS
<1> HIDE DEF m, k
<1>2. Max({k, m}) = IF k >= m THEN k ELSE m
  BY <1>1, LargerIs
<1>3. n = (IF k >= m THEN k ELSE m) /\ n \in Nat
  BY <1>1, <1>2 DEF m, k
<1> HIDE DEF n
<1>4. Len(UpToTop(start)) = n
  <2>1. UpToTop(start) = Listed(start, n)
    BY DEF UpToTop, n
  <2> QED
    BY <1>3, <2>1, ListedLength
<1> QED
  BY <1>3, <1>4 DEF m, k

\* Registers the collector has passed over in none of its ways.
Visited(r) == \A way \in Everywhere : r \notin F.skipped[way]

LEMMA UsedVisited ==
  ASSUME NEW cls, NEW tbs, FrameReady(cls, tbs), I.op # "CLOSURE", NEW r \in Uses(P, F.pc)
  PROVE  Visited(r)
<1>1. I = At(P, F.pc) /\ PositionDisciplined(P, Facts(P), F.pc)
  BY PositionIs
<1>2. r \in Facts(P)[F.pc].assigned /\ r \in P.live[F.pc].registers
  BY <1>1 DEF PositionDisciplined
<1>3. NothingLost(P, F)
  BY DEF FrameReady
<1> QED
  BY <1>2, <1>3 DEF NothingLost, Visited, Everywhere

LEMMA ConstantVisited ==
  ASSUME NEW cls, NEW tbs, FrameReady(cls, tbs), NEW x \in Nat, IsConstantRK(x)
  PROVE  Visited(x)
<1>1. P.max <= 256 /\ P.max \in Nat
  BY WindowSize DEF FrameReady
<1>2. \A way \in Everywhere : F.skipped[way] \subseteq 0..(P.max - 1)
  BY DEF FrameReady, Window, WindowOf
<1> QED
  BY <1>1, <1>2 DEF IsConstantRK, RKBase, Visited

LEMMA OperandVisited ==
  ASSUME NEW cls, NEW tbs, FrameReady(cls, tbs), I.op # "CLOSURE", NEW x \in Nat,
         IsConstantRK(x) \/ x \in Uses(P, F.pc)
  PROVE  Visited(x)
  BY UsedVisited, ConstantVisited

LEMMA ListVisited ==
  ASSUME NEW cls, NEW tbs, FrameReady(cls, tbs), TakesList(I), NEW r \in ListStart(I)..(F.top - 1)
  PROVE  Visited(r)
<1>1. I = At(P, F.pc) /\ NothingLost(P, F)
  BY PositionIs DEF FrameReady
<1> QED
  BY <1>1 DEF NothingLost, Visited

LEMMA CallVisited ==
  ASSUME NEW cls, NEW tbs, FrameReady(cls, tbs), I.op \in Calling, NEW r \in I.a..(I.a + Len(Arguments))
  PROVE  Visited(r)
<1>1. I = At(P, F.pc) /\ I.a \in Nat /\ I.b \in Nat /\ F.top \in Nat /\ I.op # "CLOSURE"
  BY PositionIs, RegistersExist DEF Calling
<1> DEFINE start == I.a + 1
<1>2. start \in Nat
  BY <1>1
<1>3. CASE I.op = "TFORLOOP"
  <2> DEFINE n == 2
  <2>1. n \in Nat /\ Arguments = Listed(start, n)
    BY <1>3 DEF Arguments
  <2> HIDE DEF n, start
  <2>2. Len(Arguments) = n
    BY <2>1, ListedLength
  <2>3. Uses(P, F.pc) = I.a..(I.a + 2)
    BY <1>1, <1>3 DEF Uses, Arithmetic, Comparing
  <2> QED
    BY <1>1, <2>2, <2>3, UsedVisited DEF n
<1>4. CASE I.op # "TFORLOOP" /\ I.b = 0
  <2>1. Arguments = UpToTop(start) /\ TakesList(I) /\ ListStart(I) = start
    BY <1>4 DEF Arguments, TakesList, ListStart, Calling
  <2>2. I.a \in Uses(P, F.pc)
    BY <1>1, <1>4 DEF Uses, Arithmetic, Comparing, Calling
  <2>3. CASE r = I.a
    BY <1>1, <2>2, <2>3, UsedVisited
  <2>4. CASE r # I.a
    <3>1. r \in start..(start + Len(UpToTop(start)) - 1)
      BY <1>1, <2>1, <2>4
    <3> HIDE DEF start
    <3>2. r \in start..(F.top - 1)
      BY <1>1, <1>2, <3>1, UpToTopLength
    <3> QED
      BY <2>1, <3>2, ListVisited
  <2> QED
    BY <2>3, <2>4
<1>5. CASE I.op # "TFORLOOP" /\ I.b # 0
  <2> DEFINE n == I.b - 1
  <2>1. n \in Nat /\ Arguments = Listed(start, n)
    BY <1>1, <1>5 DEF Arguments
  <2> HIDE DEF n, start
  <2>2. Len(Arguments) = n
    BY <2>1, ListedLength
  <2>3. Uses(P, F.pc) = I.a..(I.a + I.b - 1)
    BY <1>1, <1>5 DEF Uses, Arithmetic, Comparing, Calling
  <2> QED
    BY <1>1, <2>2, <2>3, UsedVisited DEF n
<1> QED
  BY <1>3, <1>4, <1>5

LEMMA ReturnVisited ==
  ASSUME NEW cls, NEW tbs, FrameReady(cls, tbs), I.op = "RETURN", NEW r \in I.a..(I.a + Len(Return) - 1)
  PROVE  Visited(r)
<1>1. I = At(P, F.pc) /\ I.a \in Nat /\ I.b \in Nat /\ F.top \in Nat /\ I.op # "CLOSURE"
  BY PositionIs, RegistersExist
<1> DEFINE start == I.a
<1>2. start \in Nat
  BY <1>1
<1>3. CASE I.b = 0
  <2>1. Return = UpToTop(start) /\ TakesList(I) /\ ListStart(I) = start
    BY <1>3 DEF Return, TakesList, ListStart
  <2>2. r \in start..(start + Len(UpToTop(start)) - 1)
    BY <2>1
  <2> HIDE DEF start
  <2>3. r \in start..(F.top - 1)
    BY <1>1, <1>2, <2>2, UpToTopLength
  <2> QED
    BY <2>1, <2>3, ListVisited
<1>4. CASE I.b # 0
  <2> DEFINE n == I.b - 1
  <2>1. n \in Nat /\ Return = Listed(start, n)
    BY <1>1, <1>4 DEF Return
  <2> HIDE DEF n, start
  <2>2. Len(Return) = n
    BY <2>1, ListedLength
  <2>3. Uses(P, F.pc) = I.a..(I.a + I.b - 2)
    BY <1>1, <1>4 DEF Uses, Arithmetic, Comparing
  <2> QED
    BY <1>1, <2>2, <2>3, UsedVisited DEF n
<1> QED
  BY <1>3, <1>4

LEMMA ItemsVisited ==
  ASSUME NEW cls, NEW tbs, FrameReady(cls, tbs), I.op = "SETLIST", NEW r \in I.a..(I.a + Len(Items))
  PROVE  Visited(r)
<1>1. I = At(P, F.pc) /\ I.a \in Nat /\ I.b \in Nat /\ F.top \in Nat /\ I.op # "CLOSURE"
  BY PositionIs, RegistersExist
<1> DEFINE start == I.a + 1
<1>2. start \in Nat
  BY <1>1
<1>3. CASE I.b = 0
  <2>1. Items = UpToTop(start) /\ TakesList(I) /\ ListStart(I) = start
    BY <1>3 DEF Items, TakesList, ListStart
  <2>2. I.a \in Uses(P, F.pc)
    BY <1>1, <1>3 DEF Uses, Arithmetic, Comparing
  <2>3. CASE r = I.a
    BY <1>1, <2>2, <2>3, UsedVisited
  <2>4. CASE r # I.a
    <3>1. r \in start..(start + Len(UpToTop(start)) - 1)
      BY <1>1, <2>1, <2>4
    <3> HIDE DEF start
    <3>2. r \in start..(F.top - 1)
      BY <1>1, <1>2, <3>1, UpToTopLength
    <3> QED
      BY <2>1, <3>2, ListVisited
  <2> QED
    BY <2>3, <2>4
<1>4. CASE I.b # 0
  <2> DEFINE n == I.b
  <2>1. n \in Nat /\ Items = Listed(start, n)
    BY <1>1, <1>4 DEF Items
  <2> HIDE DEF n, start
  <2>2. Len(Items) = n
    BY <2>1, ListedLength
  <2>3. Uses(P, F.pc) = I.a..(I.a + I.b)
    BY <1>1, <1>4 DEF Uses, Arithmetic, Comparing
  <2> QED
    BY <1>1, <2>2, <2>3, UsedVisited DEF n
<1> QED
  BY <1>3, <1>4

LEMMA OperandsAreVisited ==
  ASSUME NEW cls, NEW tbs, FrameReady(cls, tbs), NEW r \in Operands
  PROVE  Visited(r)
<1>1. I = At(P, F.pc) /\ I.a \in Nat /\ I.b \in Int /\ I.c \in Nat
      /\ (I.op \notin {"JMP", "FORPREP", "FORLOOP"} => I.b \in Nat)
  BY PositionIs
<1>2. CASE I.op \in {"MOVE", "UNM", "NOT", "LEN"}
  <2>1. r \in Uses(P, F.pc) /\ I.op # "CLOSURE"
    BY <1>1, <1>2 DEF Operands, Uses, Arithmetic, Comparing, Calling
  <2> QED
    BY <2>1, UsedVisited
<1>3. CASE I.op \in {"SETGLOBAL", "SETUPVAL", "TEST"}
  <2>1. r \in Uses(P, F.pc) /\ I.op # "CLOSURE"
    BY <1>1, <1>3 DEF Operands, Uses, Arithmetic, Comparing
  <2> QED
    BY <2>1, UsedVisited
<1>4. CASE I.op \in {"GETTABLE", "SELF"}
  <2>1. r \in {I.b, I.c} /\ Uses(P, F.pc) = {I.b} \cup RegisterOperands({I.c})
    BY <1>1, <1>4 DEF Operands, Uses, Arithmetic, Comparing
  <2>2. r \in Nat /\ (IsConstantRK(r) \/ r \in Uses(P, F.pc))
    BY <1>1, <1>4, <2>1 DEF RegisterOperands
  <2> QED
    BY <1>4, <2>2, OperandVisited
<1>5. CASE I.op = "SETTABLE"
  <2>1. r \in {I.a, I.b, I.c} /\ Uses(P, F.pc) = {I.a} \cup RegisterOperands({I.b, I.c})
    BY <1>1, <1>5 DEF Operands, Uses, Arithmetic, Comparing
  <2>2. r \in Nat /\ (IsConstantRK(r) \/ r \in Uses(P, F.pc))
    BY <1>1, <1>5, <2>1 DEF RegisterOperands
  <2> QED
    BY <1>5, <2>2, OperandVisited
<1>6. CASE I.op \in Arithmetic \cup Comparing
  <2>1. r \in {I.b, I.c} /\ Uses(P, F.pc) = RegisterOperands({I.b, I.c})
    BY <1>1, <1>6 DEF Operands, Uses, Arithmetic, Comparing
  <2>2. r \in Nat /\ (IsConstantRK(r) \/ r \in Uses(P, F.pc)) /\ I.op # "CLOSURE"
    BY <1>1, <1>6, <2>1 DEF RegisterOperands, Arithmetic, Comparing
  <2> QED
    BY <2>2, OperandVisited
<1>7. CASE I.op = "CONCAT"
  <2>1. r \in Uses(P, F.pc) /\ I.op # "CLOSURE"
    BY <1>1, <1>7 DEF Operands, Uses, Arithmetic, Comparing
  <2> QED
    BY <2>1, UsedVisited
<1>8. CASE I.op \in Calling
  <2>1. r \in I.a..(I.a + Len(Arguments))
    BY <1>8 DEF Operands, Calling, Arithmetic, Comparing
  <2> QED
    BY <1>8, <2>1, CallVisited
<1>9. CASE I.op = "RETURN"
  <2>1. r \in I.a..(I.a + Len(Return) - 1)
    BY <1>9 DEF Operands, Arithmetic, Comparing
  <2> QED
    BY <1>9, <2>1, ReturnVisited
<1>10. CASE I.op = "SETLIST"
  <2>1. r \in I.a..(I.a + Len(Items))
    BY <1>10 DEF Operands, Arithmetic, Comparing
  <2> QED
    BY <1>10, <2>1, ItemsVisited
<1> DEFINE Reads == {"MOVE", "UNM", "NOT", "LEN", "SETGLOBAL", "SETUPVAL", "TEST", "GETTABLE", "SELF",
                     "SETTABLE", "CONCAT", "RETURN", "SETLIST"} \cup Arithmetic \cup Comparing \cup Calling
<1>11. I.op \in Reads
  BY DEF Operands, Calling
<1> QED
  BY <1>2, <1>3, <1>4, <1>5, <1>6, <1>7, <1>8, <1>9, <1>10, <1>11

LEMMA VisitedOperands == ASSUME MachineInv PROVE OperandsVisited
<1> SUFFICES ASSUME phase = "running", NEW way \in Everywhere PROVE Operands \cap F.skipped[way] = {}
  BY DEF OperandsVisited
<1>1. FrameReady(closures, tables)
  BY FrameIsReady DEF MachineInv, Ready
<1>2. \A r \in Operands : Visited(r)
  BY <1>1, OperandsAreVisited
<1> QED
  BY <1>2 DEF Visited

LEMMA ClosedCaptures == ASSUME MachineInv PROVE CapturesClosed
<1> SUFFICES ASSUME phase = "running", NEW c \in DOMAIN cells, cells[c].frame # 0
             PROVE  LET f == frames[cells[c].frame]
                        p == Proto(f.closure)
                    IN At(p, f.pc).op # "RETURN" => cells[c].reg < Cardinality(InScope(p, f.pc))
  BY DEF CapturesClosed
<1> DEFINE f == frames[cells[c].frame]
           p == Proto(f.closure)
<1>1. /\ AllDisciplined(unit) /\ FramesOK(unit, frames, closures, tables)
      /\ ClosuresOK(unit, closures, cells) /\ CellsOK(unit, cells, frames, closures, tables)
      /\ DOMAIN cells = 1..Len(cells)
  BY DEF MachineInv, StateOK, HeapOK, CellsOK, IsSeq
<1>2. cells[c].frame \in 1..Len(frames) /\ cells[c].reg \in CapturedIn(unit, f, closures)
  BY <1>1, OpenIs
<1>3. FrameOK(unit, f, closures, tables) /\ p = ProtoOf(unit, closures, f.closure)
  BY <1>1, <1>2 DEF FramesOK, Proto, ProtoOf
<1> HIDE DEF f, p
<1>4. PlaceOK(p, f.pc)
  BY <1>1, <1>3, FrameAt
<1>5. At(p, f.pc).op # "RETURN" => cells[c].reg < Cardinality(InScope(p, f.pc))
  BY <1>2, <1>3, <1>4 DEF PlaceOK, PositionDisciplined, CapturedIn
<1> QED
  BY <1>5 DEF f, p

(***************************************************************************)
(* The theorems.                                                           *)
(***************************************************************************)
\* Whatever is written, if the prototypes the frontend makes of it are
\* disciplined: the registers of every frame hold values that exist, those the
\* collector has passed over are of no use to the frame any more, and every
\* open upvalue is on a register that may be captured where its frame is,
\* throughout the run (interp/execute.go, runtime/upvalue, vexarc/baseline/liveness.go).
THEOREM Machines == Spec /\ []ProtosSound => []MachineInv
<1>1. Init => MachineInv
  BY MachineBegins
<1>2. MachineInv /\ ProtosSound' /\ [Next]_vars => MachineInv'
  BY MachineGoesOn
<1> QED
  BY <1>1, <1>2, PTL DEF Spec

\* No instruction of a disciplined program, on any path through any of its
\* functions, reads a register that held a reference and that the collector
\* passed over, by either of its ways to find the registers of a frame.
THEOREM Visits == Spec /\ []ProtosSound => []OperandsVisited
<1>1. MachineInv => OperandsVisited
  BY VisitedOperands
<1> QED
  BY <1>1, Machines, PTL

\* In a disciplined program a register that an open upvalue shows belongs to a
\* local in scope, however the scopes before were left.
THEOREM Captures == Spec /\ []ProtosSound => []CapturesClosed
<1>1. MachineInv => CapturesClosed
  BY ClosedCaptures
<1> QED
  BY <1>1, Machines, PTL
=============================================================================
