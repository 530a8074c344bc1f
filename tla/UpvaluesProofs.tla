--------------------------- MODULE UpvaluesProofs ---------------------------
(***************************************************************************)
(* The open upvalues of a thread are one list by descending slot, whatever *)
(* is captured and closed in which order, and each is on a register of a   *)
(* frame: for any threads, stack sizes, prototypes and numbers of cells.   *)
(***************************************************************************)
EXTENDS Upvalues, WellFoundedInduction, FiniteSetTheorems, SequenceTheorems, TLAPS

(***************************************************************************)
(* Induction over the natural numbers, for sets, and what follows of it.   *)
(***************************************************************************)
\* A set with 0 that has the successor of each of its numbers has them all.
LEMMA NatSetInduction ==
  ASSUME NEW S, 0 \in S, \A n \in Nat : n \in S => n + 1 \in S
  PROVE  \A n \in Nat : n \in S
<1> DEFINE T == Nat \ S
<1> SUFFICES ASSUME T # {} PROVE FALSE
  OBVIOUS
<1>1. IsWellFoundedOn(OpToRel(<, Nat), Nat)
  BY NatLessThanWellFounded
<1>2. PICK x \in T : \A y \in T : ~(<<y, x>> \in OpToRel(<, Nat))
  <2>1. T \subseteq Nat
    OBVIOUS
  <2> HIDE DEF T
  <2> QED
    BY <1>1, <2>1, WFMin
<1>3. x # 0 /\ x - 1 \in Nat /\ x - 1 < x
  OBVIOUS
<1>4. x - 1 \notin T
  <2>1. x - 1 \in T => <<x - 1, x>> \in OpToRel(<, Nat)
    BY <1>3 DEF OpToRel
  <2> QED
    BY <1>2, <2>1
<1>5. (x - 1) + 1 = x
  OBVIOUS
<1> QED
  BY <1>3, <1>4, <1>5

\* Of the numbers up to n that are in a set one is the largest.
LEMMA Largest ==
  ASSUME NEW n \in Nat, NEW S, S \subseteq 1..n, S # {}
  PROVE  \E i \in S : \A j \in S : j <= i
<1> DEFINE Good == {m \in Nat : \A T \in SUBSET (1..m) : T # {} => \E i \in T : \A j \in T : j <= i}
<1>1. 0 \in Good
  <2>1. 1..0 = {}
    OBVIOUS
  <2>2. SUBSET (1..0) = {{}}
    BY <2>1
  <2> QED
    BY <2>2
<1>2. ASSUME NEW m \in Nat, m \in Good PROVE m + 1 \in Good
  <2>1. ASSUME NEW T \in SUBSET (1..m + 1), T # {} PROVE \E i \in T : \A j \in T : j <= i
    <3>1. CASE m + 1 \in T
      BY <3>1
    <3>2. CASE m + 1 \notin T
      <4>1. T \in SUBSET (1..m)
        BY <3>2
      <4> QED
        BY <1>2, <2>1, <4>1
    <3> QED
      BY <3>1, <3>2
  <2> QED
    BY <2>1
<1> HIDE DEF Good
<1>3. n \in Good
  BY <1>1, <1>2, NatSetInduction
<1> QED
  BY <1>3 DEF Good


-----------------------------------------------------------------------------
(* Recursion down a list                                                   *)

Ends(f, D, Stop, N) == f = [q \in D |-> IF q \in Stop THEN q ELSE f[N[q]]]
Passes(f, D, Stop, N) == f = [q \in D |-> IF q \in Stop THEN {} ELSE {q} \cup f[N[q]]]

\* Along links that go down, what stands where one stops can be found from
\* anywhere.
LEMMA DescentEnds ==
  ASSUME NEW D, NEW m \in [D -> Nat], NEW b \in Nat, \A q \in D : m[q] < b,
         NEW Stop, NEW N, \A q \in D \ Stop : N[q] \in D /\ m[N[q]] < m[q]
  PROVE  \E f : Ends(f, D, Stop, N)
<1> DEFINE S == {n \in Nat : \E f : \A q \in D : m[q] < n =>
                               f[q] = IF q \in Stop THEN q ELSE f[N[q]]}
<1>1. 0 \in S
  OBVIOUS
<1>2. ASSUME NEW n \in Nat, n \in S PROVE n + 1 \in S
  <2>1. PICK f : \A q \in D : m[q] < n => f[q] = IF q \in Stop THEN q ELSE f[N[q]]
    BY <1>2
  <2> DEFINE g == [q \in D |-> IF m[q] < n THEN f[q] ELSE IF q \in Stop THEN q ELSE f[N[q]]]
  <2>2. ASSUME NEW q \in D, m[q] < n + 1 PROVE g[q] = IF q \in Stop THEN q ELSE g[N[q]]
    <3>1. CASE q \in Stop
      BY <2>1, <3>1
    <3>2. CASE q \notin Stop
      <4>1. N[q] \in D /\ m[N[q]] < n
        BY <2>2, <3>2
      <4>2. g[N[q]] = f[N[q]]
        BY <4>1
      <4> QED
        BY <2>1, <3>2, <4>2
    <3> QED
      BY <3>1, <3>2
  <2> HIDE DEF g
  <2> QED
    BY <2>2
<1> HIDE DEF S
<1>3. b \in S
  BY <1>1, <1>2, NatSetInduction
<1>4. PICK f : \A q \in D : f[q] = IF q \in Stop THEN q ELSE f[N[q]]
  BY <1>3 DEF S
<1> DEFINE h == [q \in D |-> f[q]]
<1>5. \A q \in D : h[q] = IF q \in Stop THEN q ELSE h[N[q]]
  BY <1>4
<1>6. h = [q \in D |-> h[q]]
  OBVIOUS
<1> HIDE DEF h
<1>7. h = [q \in D |-> IF q \in Stop THEN q ELSE h[N[q]]]
  BY <1>5, <1>6
<1> QED
  BY <1>7, Zenon DEF Ends

\* And so can what is passed on the way.
LEMMA DescentPasses ==
  ASSUME NEW D, NEW m \in [D -> Nat], NEW b \in Nat, \A q \in D : m[q] < b,
         NEW Stop, NEW N, \A q \in D \ Stop : N[q] \in D /\ m[N[q]] < m[q]
  PROVE  \E f : Passes(f, D, Stop, N)
<1> DEFINE S == {n \in Nat : \E f : \A q \in D : m[q] < n =>
                               f[q] = IF q \in Stop THEN {} ELSE {q} \cup f[N[q]]}
<1>1. 0 \in S
  OBVIOUS
<1>2. ASSUME NEW n \in Nat, n \in S PROVE n + 1 \in S
  <2>1. PICK f : \A q \in D : m[q] < n => f[q] = IF q \in Stop THEN {} ELSE {q} \cup f[N[q]]
    BY <1>2
  <2> DEFINE g == [q \in D |-> IF m[q] < n THEN f[q]
                               ELSE IF q \in Stop THEN {} ELSE {q} \cup f[N[q]]]
  <2>2. ASSUME NEW q \in D, m[q] < n + 1
        PROVE  g[q] = IF q \in Stop THEN {} ELSE {q} \cup g[N[q]]
    <3>1. CASE q \in Stop
      BY <2>1, <3>1
    <3>2. CASE q \notin Stop
      <4>1. N[q] \in D /\ m[N[q]] < n
        BY <2>2, <3>2
      <4>2. g[N[q]] = f[N[q]]
        BY <4>1
      <4> QED
        BY <2>1, <3>2, <4>2
    <3> QED
      BY <3>1, <3>2
  <2> HIDE DEF g
  <2>3. \E e : \A q \in D : m[q] < n + 1 =>
                 e[q] = IF q \in Stop THEN {} ELSE {q} \cup e[N[q]]
    BY <2>2, Zenon
  <2>4. n + 1 \in Nat
    OBVIOUS
  <2> QED
    BY <2>3, <2>4, Zenon
<1> HIDE DEF S
<1>3. b \in S
  BY <1>1, <1>2, NatSetInduction
<1>4. PICK f : \A q \in D : f[q] = IF q \in Stop THEN {} ELSE {q} \cup f[N[q]]
  BY <1>3 DEF S
<1> DEFINE h == [q \in D |-> f[q]]
<1>5. \A q \in D : h[q] = IF q \in Stop THEN {} ELSE {q} \cup h[N[q]]
  BY <1>4
<1>6. h = [q \in D |-> h[q]]
  OBVIOUS
<1> HIDE DEF h
<1>7. h = [q \in D |-> IF q \in Stop THEN {} ELSE {q} \cup h[N[q]]]
  BY <1>5, <1>6
<1> QED
  BY <1>7, Zenon DEF Passes

\* Finitely many numbers have a bound.
LEMMA Bounded ==
  ASSUME NEW S, IsFiniteSet(S), NEW f \in [S -> Nat]
  PROVE  \E b \in Nat : \A x \in S : f[x] < b
<1> DEFINE Sizes == {n \in Nat : \A T \in SUBSET S : IsFiniteSet(T) /\ Cardinality(T) = n =>
                                   \E b \in Nat : \A x \in T : f[x] < b}
<1>1. 0 \in Sizes
  <2>1. ASSUME NEW T \in SUBSET S, IsFiniteSet(T), Cardinality(T) = 0
        PROVE  \E b \in Nat : \A x \in T : f[x] < b
    <3>1. T = {}
      BY <2>1, FS_EmptySet
    <3> QED
      BY <3>1
  <2> QED
    BY <2>1
<1>2. ASSUME NEW n \in Nat, n \in Sizes PROVE n + 1 \in Sizes
  <2>1. ASSUME NEW T \in SUBSET S, IsFiniteSet(T), Cardinality(T) = n + 1
        PROVE  \E b \in Nat : \A x \in T : f[x] < b
    <3>1. T # {}
      BY <2>1, FS_EmptySet
    <3>2. PICK y \in T : TRUE
      BY <3>1
    <3>3. IsFiniteSet(T \ {y}) /\ Cardinality(T \ {y}) = n
      <4>1. IsFiniteSet(T \ {y}) /\ Cardinality(T \ {y}) = Cardinality(T) - 1
        BY <2>1, <3>2, FS_RemoveElement
      <4> QED
        BY <2>1, <4>1
    <3>4. PICK b \in Nat : \A x \in T \ {y} : f[x] < b
      BY <1>2, <3>3
    <3>5. f[y] \in Nat
      OBVIOUS
    <3>6. CASE f[y] < b
      BY <3>4, <3>6
    <3>7. CASE ~(f[y] < b)
      <4>1. \A x \in T : f[x] < f[y] + 1
        BY <3>4, <3>5, <3>7
      <4> QED
        BY <3>5, <4>1
    <3> QED
      BY <3>6, <3>7
  <2> QED
    BY <2>1
<1> HIDE DEF Sizes
<1>3. Cardinality(S) \in Sizes
  BY <1>1, <1>2, NatSetInduction, FS_CardinalityType
<1> QED
  BY <1>3 DEF Sizes

-----------------------------------------------------------------------------
(* Lists of cells                                                          *)

Cell == [state : {"free", "open", "closed"}, thread : Threads \cup {Nil},
         slot : Nat, value : Content, next : Ref, prev : Ref]

OpenOf(cs, t) == {c \in Cells : cs[c].state = "open" /\ cs[c].thread = t}

\* From h on the links of cs visit the open cells of t by descending slot.
List(cs, t, h) ==
  /\ \A c, d \in OpenOf(cs, t) : cs[c].slot = cs[d].slot => c = d
  /\ h # None => h \in OpenOf(cs, t)
  /\ \A d \in OpenOf(cs, t) : h # None /\ cs[d].slot <= cs[h].slot
  /\ \A c \in OpenOf(cs, t) :
       /\ cs[c].next # None => /\ cs[c].next \in OpenOf(cs, t)
                               /\ cs[cs[c].next].slot < cs[c].slot
       /\ \A d \in OpenOf(cs, t) : cs[d].slot < cs[c].slot =>
            cs[c].next # None /\ cs[d].slot <= cs[cs[c].next].slot
       /\ IF cs[c].prev = None THEN h = c
          ELSE cs[c].prev \in OpenOf(cs, t) /\ cs[cs[c].prev].next = c

\* Cells that are not open have no links, and open ones are on a thread.
Typed(cs) ==
  /\ cs \in [Cells -> Cell]
  /\ \A c \in Cells : IF cs[c].state = "open" THEN cs[c].thread \in Threads
                      ELSE cs[c].next = None /\ cs[c].prev = None

Lists(cs, hd) == \A t \in Threads : List(cs, t, hd[t])

Descends(cs) == \A c \in Cells : cs[c].next # None => cs[cs[c].next].slot < cs[c].slot

\* The links of all threads go down.
LEMMA LinksDescend ==
  ASSUME NEW cs, NEW hd, Typed(cs), Lists(cs, hd)
  PROVE  Descends(cs)
<1> SUFFICES ASSUME NEW c \in Cells, cs[c].next # None
             PROVE  cs[cs[c].next].slot < cs[c].slot
  BY DEF Descends
<1>1. cs[c].state = "open" /\ cs[c].thread \in Threads
  BY DEF Typed
<1>2. PICK t \in Threads : cs[c].thread = t
  BY <1>1
<1>3. c \in OpenOf(cs, t) /\ List(cs, t, hd[t])
  BY <1>1, <1>2 DEF OpenOf, Lists
<1> QED
  BY <1>3 DEF List

Level(cs, c) == IF c = None THEN 0 ELSE cs[c].slot + 1

\* The levels of all cells have a bound.
LEMMA LevelsBounded ==
  ASSUME NEW cs \in [Cells -> Cell]
  PROVE  \E b \in Nat : \A c \in Ref : Level(cs, c) \in Nat /\ Level(cs, c) < b
<1> DEFINE f == [c \in Cells |-> Level(cs, c)]
<1>1. ASSUME NEW c \in Cells PROVE Level(cs, c) \in Nat
  <2>1. cs[c] \in Cell
    OBVIOUS
  <2>2. cs[c].slot \in Nat
    BY <2>1 DEF Cell
  <2> QED
    BY <2>2 DEF Level
<1>2. f \in [Cells -> Nat]
  BY <1>1
<1>3. IsFiniteSet(Cells)
  BY UpvaluesAssumption DEF UpvaluesAssumption
<1>4. PICK b \in Nat : \A c \in Cells : f[c] < b
  <2> HIDE DEF f
  <2> QED
    BY <1>2, <1>3, Bounded
<1>5. Level(cs, None) = 0
  BY DEF Level
<1>6. \A c \in Cells : Level(cs, c) \in Nat /\ Level(cs, c) < b + 1
  BY <1>1, <1>4
<1> QED
  BY <1>5, <1>6 DEF Ref

WalkFrom(cs, s) ==
  CHOOSE walk : walk = [q \in Ref \X Ref |->
    IF q[2] = None \/ cs[q[2]].slot <= s THEN q ELSE walk[<<q[2], cs[q[2]].next>>]]

\* A walk stops at once or goes on from the next cell (FindOrCreateOpen, CloseInRange).
LEMMA WalkStep ==
  ASSUME NEW cs \in [Cells -> Cell], Descends(cs), NEW p \in Ref, NEW c \in Ref, NEW s \in Nat
  PROVE  Walk(cs, p, c, s) = IF c = None \/ cs[c].slot <= s THEN <<p, c>>
                             ELSE Walk(cs, c, cs[c].next, s)
<1> DEFINE D == Ref \X Ref
           m == [q \in D |-> Level(cs, q[2])]
           Stop == {q \in D : q[2] = None \/ cs[q[2]].slot <= s}
           N == [q \in D |-> <<q[2], cs[q[2]].next>>]
<1>1. PICK b \in Nat : \A d \in Ref : Level(cs, d) \in Nat /\ Level(cs, d) < b
  BY LevelsBounded
<1>2. m \in [D -> Nat] /\ \A q \in D : m[q] < b
  BY <1>1
<1>3. ASSUME NEW q \in D \ Stop PROVE N[q] \in D /\ m[N[q]] < m[q]
  <2>1. q[2] \in Cells /\ cs[q[2]] \in Cell
    BY <1>3 DEF Ref
  <2>2. cs[q[2]].next \in Ref /\ cs[q[2]].slot \in Nat
    BY <2>1 DEF Cell
  <2>3. N[q] = <<q[2], cs[q[2]].next>> /\ N[q] \in D
    BY <2>1, <2>2 DEF Ref
  <2>4. m[q] = cs[q[2]].slot + 1
    <3>1. q[2] # None
      BY <1>3
    <3> QED
      BY <3>1 DEF Level
  <2>5. m[N[q]] = Level(cs, cs[q[2]].next)
    BY <2>2, <2>3
  <2>6. CASE cs[q[2]].next = None
    BY <2>2, <2>3, <2>4, <2>5, <2>6 DEF Level
  <2>7. CASE cs[q[2]].next # None
    <3>1. cs[cs[q[2]].next].slot < cs[q[2]].slot
      BY <2>1, <2>7 DEF Descends
    <3>2. cs[cs[q[2]].next] \in Cell
      BY <2>2, <2>7 DEF Ref
    <3>3. cs[cs[q[2]].next].slot \in Nat
      BY <3>2 DEF Cell
    <3> QED
      BY <2>2, <2>3, <2>4, <2>5, <2>7, <3>1, <3>3 DEF Level
  <2> QED
    BY <2>3, <2>6, <2>7
<1>4. PICK f : Ends(f, D, Stop, N)
  <2> HIDE DEF D, m, Stop, N
  <2> QED
    BY <1>2, <1>3, DescentEnds
<1>5. f = [q \in Ref \X Ref |-> IF q[2] = None \/ cs[q[2]].slot <= s THEN q
                                ELSE f[<<q[2], cs[q[2]].next>>]]
  BY <1>4 DEF Ends
<1> DEFINE w == WalkFrom(cs, s)
<1>6. w = [q \in Ref \X Ref |-> IF q[2] = None \/ cs[q[2]].slot <= s THEN q
                                ELSE w[<<q[2], cs[q[2]].next>>]]
  BY <1>5, Zenon DEF WalkFrom
<1>7. \A x, y : Walk(cs, x, y, s) = w[<<x, y>>]
  BY DEF Walk, WalkFrom
<1>8. <<p, c>> \in Ref \X Ref
  OBVIOUS
<1> HIDE DEF w
<1>9. w[<<p, c>>] = IF c = None \/ cs[c].slot <= s THEN <<p, c>> ELSE w[<<c, cs[c].next>>]
  BY <1>6, <1>8
<1> QED
  BY <1>7, <1>9

ChainFrom(cs, s) ==
  CHOOSE chain : chain = [d \in Ref |->
    IF d = None \/ cs[d].slot <= s THEN {} ELSE {d} \cup chain[cs[d].next]]

\* The cells that are closed are the one at hand and those behind it (CloseInRange).
LEMMA ChainStep ==
  ASSUME NEW cs \in [Cells -> Cell], Descends(cs), NEW c \in Ref, NEW s \in Nat
  PROVE  Chain(cs, c, s) = IF c = None \/ cs[c].slot <= s THEN {}
                           ELSE {c} \cup Chain(cs, cs[c].next, s)
<1> DEFINE m == [d \in Ref |-> Level(cs, d)]
           Stop == {d \in Ref : d = None \/ cs[d].slot <= s}
           N == [d \in Ref |-> cs[d].next]
<1>1. PICK b \in Nat : \A d \in Ref : Level(cs, d) \in Nat /\ Level(cs, d) < b
  BY LevelsBounded
<1>2. m \in [Ref -> Nat] /\ \A d \in Ref : m[d] < b
  BY <1>1
<1>3. ASSUME NEW d \in Ref \ Stop PROVE N[d] \in Ref /\ m[N[d]] < m[d]
  <2>1. d \in Cells /\ cs[d] \in Cell /\ d # None
    BY <1>3 DEF Ref
  <2>2. cs[d].next \in Ref /\ cs[d].slot \in Nat /\ N[d] = cs[d].next
    BY <2>1 DEF Cell
  <2>3. m[d] = cs[d].slot + 1
    BY <2>1 DEF Level
  <2>4. m[N[d]] = Level(cs, cs[d].next)
    BY <2>2
  <2>5. CASE cs[d].next = None
    BY <2>2, <2>3, <2>4, <2>5 DEF Level
  <2>6. CASE cs[d].next # None
    <3>1. cs[cs[d].next].slot < cs[d].slot
      BY <2>1, <2>6 DEF Descends
    <3>2. cs[cs[d].next] \in Cell
      BY <2>2, <2>6 DEF Ref
    <3>3. cs[cs[d].next].slot \in Nat
      BY <3>2 DEF Cell
    <3> QED
      BY <2>2, <2>3, <2>4, <2>6, <3>1, <3>3 DEF Level
  <2> QED
    BY <2>2, <2>5, <2>6
<1>4. PICK f : Passes(f, Ref, Stop, N)
  <2> HIDE DEF m, Stop, N
  <2> QED
    BY <1>2, <1>3, DescentPasses
<1>5. f = [d \in Ref |-> IF d = None \/ cs[d].slot <= s THEN {} ELSE {d} \cup f[cs[d].next]]
  BY <1>4 DEF Passes
<1> DEFINE w == ChainFrom(cs, s)
<1>6. w = [d \in Ref |-> IF d = None \/ cs[d].slot <= s THEN {} ELSE {d} \cup w[cs[d].next]]
  BY <1>5, Zenon DEF ChainFrom
<1>7. \A x : Chain(cs, x, s) = w[x]
  BY DEF Chain, ChainFrom
<1> HIDE DEF w
<1>8. w[c] = IF c = None \/ cs[c].slot <= s THEN {} ELSE {c} \cup w[cs[c].next]
  BY <1>6
<1> QED
  BY <1>7, <1>8

-----------------------------------------------------------------------------
(* Where a walk ends, and what is closed                                   *)

\* A place in the list of t, behind the cells above the slot s.
Place(cs, t, h, s, q) ==
  /\ q \in Ref \X Ref
  /\ q[2] # None => q[2] \in OpenOf(cs, t)
  /\ IF q[1] = None THEN q[2] = h
     ELSE q[1] \in OpenOf(cs, t) /\ cs[q[1]].next = q[2] /\ cs[q[1]].slot > s

Found(cs, t, h, s, q) ==
  Place(cs, t, h, s, q) /\ (q[2] # None => cs[q[2]].slot <= s)

\* A cell's fields.
LEMMA CellFields ==
  ASSUME NEW cs \in [Cells -> Cell], NEW c \in Cells
  PROVE  /\ cs[c].state \in {"free", "open", "closed"} /\ cs[c].thread \in Threads \cup {Nil}
         /\ cs[c].slot \in Nat /\ cs[c].value \in Content
         /\ cs[c].next \in Ref /\ cs[c].prev \in Ref /\ c # None /\ c \in Ref
<1>1. cs[c] \in Cell
  OBVIOUS
<1>2. c # None
  BY UpvaluesAssumption DEF UpvaluesAssumption
<1> QED
  BY <1>1, <1>2 DEF Cell, Ref

\* A walk from a place ends at the first cell that is not above s.
LEMMA WalkFinds ==
  ASSUME NEW cs \in [Cells -> Cell], Descends(cs), NEW t, NEW h, List(cs, t, h), NEW s \in Nat,
         NEW p \in Ref, NEW c \in Ref, Place(cs, t, h, s, <<p, c>>)
  PROVE  Found(cs, t, h, s, Walk(cs, p, c, s))
<1> DEFINE Good == {n \in Nat : \A x, y \in Ref :
                      Level(cs, y) < n /\ Place(cs, t, h, s, <<x, y>>)
                        => Found(cs, t, h, s, Walk(cs, x, y, s))}
<1>1. ASSUME NEW x \in Ref PROVE Level(cs, x) \in Nat
  <2>1. CASE x = None
    BY <2>1 DEF Level
  <2>2. CASE x # None
    <3>1. cs[x].slot \in Nat
      BY <2>2, CellFields DEF Ref
    <3> QED
      BY <2>2, <3>1 DEF Level
  <2> QED
    BY <2>1, <2>2
<1>2. 0 \in Good
  BY <1>1
<1>3. ASSUME NEW n \in Nat, n \in Good PROVE n + 1 \in Good
  <2>1. ASSUME NEW x \in Ref, NEW y \in Ref, Level(cs, y) < n + 1, Place(cs, t, h, s, <<x, y>>)
        PROVE  Found(cs, t, h, s, Walk(cs, x, y, s))
    <3>1. CASE y = None \/ cs[y].slot <= s
      <4>1. Walk(cs, x, y, s) = <<x, y>>
        BY <3>1, WalkStep
      <4> QED
        BY <2>1, <3>1, <4>1 DEF Found
    <3>2. CASE ~(y = None \/ cs[y].slot <= s)
      <4>1. Walk(cs, x, y, s) = Walk(cs, y, cs[y].next, s)
        BY <3>2, WalkStep
      <4>2. y \in Cells /\ y \in OpenOf(cs, t) /\ y # None
        BY <2>1, <3>2 DEF Ref, Place
      <4>3. cs[y].next \in Ref /\ cs[y].slot \in Nat /\ cs[y].slot > s
        BY <3>2, <4>2, CellFields
      <4>4. cs[y].next # None => cs[y].next \in OpenOf(cs, t) /\ cs[cs[y].next].slot < cs[y].slot
        BY <4>2 DEF List
      <4>5. Place(cs, t, h, s, <<y, cs[y].next>>)
        BY <4>2, <4>3, <4>4 DEF Place
      <4>6. Level(cs, cs[y].next) < n
        <5>1. Level(cs, y) = cs[y].slot + 1
          BY <4>2 DEF Level
        <5>2. CASE cs[y].next = None
          BY <2>1, <4>3, <5>1, <5>2 DEF Level
        <5>3. CASE cs[y].next # None
          <6>1. cs[cs[y].next].slot \in Nat
            BY <4>3, <5>3, CellFields DEF Ref
          <6> QED
            BY <2>1, <4>3, <4>4, <5>1, <5>3, <6>1 DEF Level
        <5> QED
          BY <5>2, <5>3
      <4> QED
        BY <1>3, <4>1, <4>2, <4>3, <4>5, <4>6
    <3> QED
      BY <3>1, <3>2
  <2> QED
    BY <2>1
<1> HIDE DEF Good
<1>4. Level(cs, c) + 1 \in Good
  BY <1>1, <1>2, <1>3, NatSetInduction
<1>5. Level(cs, c) < Level(cs, c) + 1
  BY <1>1
<1> QED
  BY <1>4, <1>5 DEF Good

\* What is found separates the cells above s from the others.
LEMMA FoundSeparates ==
  ASSUME NEW cs \in [Cells -> Cell], NEW t, NEW h, List(cs, t, h), NEW s \in Nat,
         NEW q, Found(cs, t, h, s, q), NEW d \in OpenOf(cs, t)
  PROVE  /\ cs[d].slot > s => q[1] # None /\ cs[q[1]].slot <= cs[d].slot
         /\ cs[d].slot <= s => q[2] # None /\ cs[d].slot <= cs[q[2]].slot
<1>1. d \in Cells /\ cs[d].slot \in Nat
  BY CellFields DEF OpenOf
<1>2. q \in Ref \X Ref /\ (q[2] # None => q[2] \in OpenOf(cs, t) /\ cs[q[2]].slot <= s)
  BY DEF Found, Place
<1>3. q[2] # None => cs[q[2]].slot \in Nat
  BY <1>2, CellFields DEF Ref
<1>4. CASE q[1] = None
  <2>1. q[2] = h
    BY <1>4 DEF Found, Place
  <2>2. h # None /\ cs[d].slot <= cs[h].slot
    BY DEF List
  <2> QED
    BY <1>1, <1>2, <1>3, <2>1, <2>2
<1>5. CASE q[1] # None
  <2>1. q[1] \in OpenOf(cs, t) /\ cs[q[1]].next = q[2] /\ cs[q[1]].slot > s
    BY <1>5 DEF Found, Place
  <2>2. cs[q[1]].slot \in Nat
    BY <1>2, <1>5, CellFields DEF Ref
  <2>3. cs[d].slot < cs[q[1]].slot => q[2] # None /\ cs[d].slot <= cs[q[2]].slot
    BY <2>1 DEF List
  <2> QED
    BY <1>1, <1>2, <1>3, <1>5, <2>1, <2>2, <2>3
<1> QED
  BY <1>4, <1>5

\* The open upvalues of t on slots above lower, up to upper; those up to the cell c.
InRange(cs, t, lower, upper) == {d \in OpenOf(cs, t) : lower < cs[d].slot /\ cs[d].slot <= upper}
Until(cs, t, lower, c) == IF c = None THEN {} ELSE InRange(cs, t, lower, cs[c].slot)

\* The chain from a cell on is the part of the list between it and s.
LEMMA ChainIs ==
  ASSUME NEW cs \in [Cells -> Cell], Descends(cs), NEW t, NEW h, List(cs, t, h), NEW s \in Nat,
         NEW c \in Ref, c # None => c \in OpenOf(cs, t)
  PROVE  Chain(cs, c, s) = Until(cs, t, s, c)
<1> DEFINE Part(y) == {d \in OpenOf(cs, t) : y # None /\ s < cs[d].slot /\ cs[d].slot <= cs[y].slot}
           Good == {n \in Nat : \A y \in Ref :
                      Level(cs, y) < n /\ (y # None => y \in OpenOf(cs, t))
                        => Chain(cs, y, s) = Part(y)}
<1>1. ASSUME NEW x \in Ref PROVE Level(cs, x) \in Nat
  <2>1. CASE x = None
    BY <2>1 DEF Level
  <2>2. CASE x # None
    <3>1. cs[x].slot \in Nat
      BY <2>2, CellFields DEF Ref
    <3> QED
      BY <2>2, <3>1 DEF Level
  <2> QED
    BY <2>1, <2>2
<1>2. 0 \in Good
  BY <1>1
<1>3. ASSUME NEW n \in Nat, n \in Good PROVE n + 1 \in Good
  <2>1. ASSUME NEW y \in Ref, Level(cs, y) < n + 1, y # None => y \in OpenOf(cs, t)
        PROVE  Chain(cs, y, s) = Part(y)
    <3>0. \A d \in OpenOf(cs, t) : d \in Cells /\ cs[d].slot \in Nat
      BY CellFields DEF OpenOf
    <3>1. CASE y = None \/ cs[y].slot <= s
      <4>1. Chain(cs, y, s) = {}
        BY <3>1, ChainStep
      <4> QED
        BY <2>1, <3>0, <3>1, <4>1
    <3>2. CASE ~(y = None \/ cs[y].slot <= s)
      <4>1. Chain(cs, y, s) = {y} \cup Chain(cs, cs[y].next, s)
        BY <3>2, ChainStep
      <4>2. y \in Cells /\ y \in OpenOf(cs, t) /\ y # None
        BY <2>1, <3>2 DEF Ref
      <4>3. cs[y].next \in Ref /\ cs[y].slot \in Nat /\ cs[y].slot > s
        BY <3>2, <4>2, CellFields
      <4>4. cs[y].next # None => cs[y].next \in OpenOf(cs, t) /\ cs[cs[y].next].slot < cs[y].slot
        BY <4>2 DEF List
      <4>5. Level(cs, cs[y].next) < n
        <5>1. Level(cs, y) = cs[y].slot + 1
          BY <4>2 DEF Level
        <5>2. CASE cs[y].next = None
          BY <2>1, <4>3, <5>1, <5>2 DEF Level
        <5>3. CASE cs[y].next # None
          <6>1. cs[cs[y].next].slot \in Nat
            BY <4>3, <5>3, CellFields DEF Ref
          <6> QED
            BY <2>1, <4>3, <4>4, <5>1, <5>3, <6>1 DEF Level
        <5> QED
          BY <5>2, <5>3
      <4>6. Chain(cs, cs[y].next, s) = Part(cs[y].next)
        BY <1>3, <4>3, <4>4, <4>5
      <4>7. ASSUME NEW d \in OpenOf(cs, t)
            PROVE  /\ cs[d].slot = cs[y].slot => d = y
                   /\ cs[d].slot < cs[y].slot => cs[y].next # None /\ cs[d].slot <= cs[cs[y].next].slot
                   /\ d \in Cells /\ cs[d].slot \in Nat
        BY <3>0, <4>2 DEF List
      <4>8. ASSUME NEW d \in OpenOf(cs, t)
            PROVE  d \in Part(y) <=> d = y \/ d \in Part(cs[y].next)
        <5>1. cs[y].next # None => cs[cs[y].next].slot \in Nat
          BY <3>0, <4>4
        <5> QED
          BY <4>2, <4>3, <4>4, <4>7, <5>1
      <4> QED
        BY <4>1, <4>2, <4>6, <4>8
    <3> QED
      BY <3>1, <3>2
  <2> QED
    BY <2>1
<1> HIDE DEF Good
<1>4. Level(cs, c) + 1 \in Good
  BY <1>1, <1>2, <1>3, NatSetInduction
<1>5. Level(cs, c) < Level(cs, c) + 1
  BY <1>1
<1>6. Chain(cs, c, s) = Part(c)
  BY <1>4, <1>5 DEF Good
<1> QED
  BY <1>6 DEF Until, InRange

-----------------------------------------------------------------------------
(* Opening and closing                                                     *)

\* The list of a thread is not disturbed by what happens to other cells.
LEMMA ListKept ==
  ASSUME NEW cs, NEW ds, NEW t, NEW h, List(cs, t, h), OpenOf(ds, t) = OpenOf(cs, t),
         \A c \in OpenOf(cs, t) : /\ ds[c].slot = cs[c].slot
                                  /\ ds[c].next = cs[c].next /\ ds[c].prev = cs[c].prev
  PROVE  List(ds, t, h)
<1> DEFINE S == OpenOf(cs, t)
<1>1. \A c, d \in S : ds[c].slot = ds[d].slot => c = d
  BY DEF List
<1>2. h # None => h \in S
  BY DEF List
<1>3. \A d \in S : h # None /\ ds[d].slot <= ds[h].slot
  <2>1. \A d \in S : h # None /\ cs[d].slot <= cs[h].slot
    BY DEF List
  <2> HIDE DEF S
  <2> QED
    BY <1>2, <2>1 DEF S
<1>4. ASSUME NEW c \in S
      PROVE  /\ ds[c].next # None => ds[c].next \in S /\ ds[ds[c].next].slot < ds[c].slot
             /\ \A d \in S : ds[d].slot < ds[c].slot =>
                  ds[c].next # None /\ ds[d].slot <= ds[ds[c].next].slot
             /\ IF ds[c].prev = None THEN h = c
                ELSE ds[c].prev \in S /\ ds[ds[c].prev].next = c
  <2>1. /\ cs[c].next # None => cs[c].next \in S /\ cs[cs[c].next].slot < cs[c].slot
        /\ \A d \in S : cs[d].slot < cs[c].slot =>
             cs[c].next # None /\ cs[d].slot <= cs[cs[c].next].slot
        /\ IF cs[c].prev = None THEN h = c
           ELSE cs[c].prev \in S /\ cs[cs[c].prev].next = c
    BY DEF List
  <2>2. \A d \in S : /\ ds[d].slot = cs[d].slot
                     /\ ds[d].next = cs[d].next /\ ds[d].prev = cs[d].prev
    OBVIOUS
  <2> HIDE DEF S
  <2> QED
    BY <2>1, <2>2
<1>5. OpenOf(ds, t) = S
  OBVIOUS
<1> HIDE DEF S
<1> QED
  BY <1>1, <1>2, <1>3, <1>4, <1>5 DEF List

\* A new cell in the place that was found for its slot (FindOrCreateOpen).
LEMMA Insertion ==
  ASSUME NEW cs, Typed(cs), NEW t \in Threads, NEW h, List(cs, t, h), NEW s \in Nat,
         NEW q, Found(cs, t, h, s, q), q[2] # None => cs[q[2]].slot # s,
         NEW new \in Cells, cs[new].state = "free",
         NEW ds \in [Cells -> Cell],
         ds[new].state = "open", ds[new].thread = t, ds[new].slot = s,
         ds[new].next = q[2], ds[new].prev = q[1],
         \A c \in Cells : c # new =>
           /\ ds[c].state = cs[c].state /\ ds[c].thread = cs[c].thread /\ ds[c].slot = cs[c].slot
           /\ ds[c].next = (IF c = q[1] THEN new ELSE cs[c].next)
           /\ ds[c].prev = (IF c # q[1] /\ c = q[2] THEN new ELSE cs[c].prev)
  PROVE  /\ Typed(ds)
         /\ OpenOf(ds, t) = OpenOf(cs, t) \cup {new}
         /\ List(ds, t, IF q[1] = None THEN new ELSE h)
         /\ \A u : u # t => OpenOf(ds, u) = OpenOf(cs, u)
         /\ \A u, g : u # t /\ List(cs, u, g) => List(ds, u, g)
<1> DEFINE S == OpenOf(cs, t)
<1>0. cs \in [Cells -> Cell]
  BY DEF Typed
<1>1. \A c \in S : c \in Cells /\ c # new /\ c # None /\ cs[c].slot \in Nat
  BY <1>0, CellFields DEF OpenOf
<1>2. /\ q \in Ref \X Ref
      /\ q[2] # None => q[2] \in S /\ cs[q[2]].slot < s
      /\ IF q[1] = None THEN q[2] = h
         ELSE q[1] \in S /\ cs[q[1]].next = q[2] /\ cs[q[1]].slot > s
  <2>1. /\ q \in Ref \X Ref
        /\ q[2] # None => q[2] \in S /\ cs[q[2]].slot <= s /\ cs[q[2]].slot # s
        /\ IF q[1] = None THEN q[2] = h
           ELSE q[1] \in S /\ cs[q[1]].next = q[2] /\ cs[q[1]].slot > s
    BY DEF Found, Place
  <2>2. q[2] # None => cs[q[2]].slot < s
    BY <1>1, <2>1
  <2> QED
    BY <2>1, <2>2
<1>3. \A d \in S : /\ cs[d].slot > s => q[1] # None /\ cs[q[1]].slot <= cs[d].slot
                   /\ cs[d].slot <= s => q[2] # None /\ cs[d].slot <= cs[q[2]].slot
  BY <1>0, FoundSeparates
<1>4. \A d \in S : cs[d].slot # s
  BY <1>1, <1>2, <1>3
<1>5. OpenOf(ds, t) = S \cup {new}
  BY DEF OpenOf
<1>6. /\ new # None /\ new \in Ref /\ new \notin S /\ q[1] # new /\ q[2] # new
  BY <1>0, <1>1, <1>2, CellFields
<1>7. \A c \in S : /\ ds[c].slot = cs[c].slot
                   /\ ds[c].next = (IF c = q[1] THEN new ELSE cs[c].next)
                   /\ ds[c].prev = (IF c = q[2] THEN new ELSE cs[c].prev)
  <2>1. q[1] # None /\ q[2] # None => q[1] # q[2]
    BY <1>1, <1>2
  <2> QED
    BY <1>1, <2>1
<1>8. Typed(ds)
  <2>1. ASSUME NEW c \in Cells
        PROVE  IF ds[c].state = "open" THEN ds[c].thread \in Threads
               ELSE ds[c].next = None /\ ds[c].prev = None
    <3>1. CASE c = new
      BY <3>1
    <3>2. CASE c \in S
      BY <1>1, <3>2 DEF OpenOf, Typed
    <3>3. CASE c # new /\ c \notin S
      <4>1. c # q[1] /\ c # q[2]
        <5>1. c # None
          BY <1>0, CellFields
        <5> QED
          BY <1>2, <3>3, <5>1
      <4> QED
        BY <3>3, <4>1 DEF Typed
    <3> QED
      BY <3>1, <3>2, <3>3
  <2> QED
    BY <2>1 DEF Typed
<1>9. ASSUME NEW u, u # t PROVE OpenOf(ds, u) = OpenOf(cs, u)
  BY <1>9 DEF OpenOf
<1>10. ASSUME NEW u, NEW g, u # t, List(cs, u, g) PROVE List(ds, u, g)
  <2>1. \A c \in OpenOf(cs, u) : c \in Cells /\ c # new /\ c \notin S /\ c # None
    BY <1>0, <1>10, CellFields DEF OpenOf
  <2>2. \A c \in OpenOf(cs, u) : c # q[1] /\ c # q[2]
    BY <1>2, <2>1
  <2>3. \A c \in OpenOf(cs, u) : /\ ds[c].slot = cs[c].slot
                                 /\ ds[c].next = cs[c].next /\ ds[c].prev = cs[c].prev
    BY <2>1, <2>2
  <2> QED
    BY <1>9, <1>10, <2>3, ListKept
<1>11. List(ds, t, IF q[1] = None THEN new ELSE h)
  <2> DEFINE g == IF q[1] = None THEN new ELSE h
  <2>0. /\ \A c, d \in S : cs[c].slot = cs[d].slot => c = d
        /\ h # None => h \in S
        /\ \A d \in S : h # None /\ cs[d].slot <= cs[h].slot
        /\ \A c \in S :
             /\ cs[c].next # None => cs[c].next \in S /\ cs[cs[c].next].slot < cs[c].slot
             /\ \A d \in S : cs[d].slot < cs[c].slot =>
                  cs[c].next # None /\ cs[d].slot <= cs[cs[c].next].slot
             /\ IF cs[c].prev = None THEN h = c
                ELSE cs[c].prev \in S /\ cs[cs[c].prev].next = c
    BY DEF List
  <2>f. ds[new].slot = s /\ ds[new].next = q[2] /\ ds[new].prev = q[1]
    OBVIOUS
  <2> HIDE DEF S
  <2>1. ASSUME NEW c \in S \cup {new}, NEW d \in S \cup {new}, ds[c].slot = ds[d].slot
        PROVE  c = d
    BY <1>4, <1>7, <2>0, <2>1, <2>f
  <2>2. g # None => g \in S \cup {new}
    BY <2>0
  <2>3. ASSUME NEW d \in S \cup {new} PROVE g # None /\ ds[d].slot <= ds[g].slot
    <3>1. CASE q[1] = None
      BY <1>1, <1>3, <1>6, <1>7, <2>f, <3>1
    <3>2. CASE q[1] # None
      <4>1. q[1] \in S /\ cs[q[1]].slot > s
        BY <1>2, <3>2
      <4>2. h # None /\ h \in S /\ cs[q[1]].slot <= cs[h].slot
        BY <2>0, <4>1
      <4> QED
        BY <1>1, <1>7, <2>0, <2>f, <3>2, <4>1, <4>2
    <3> QED
      BY <3>1, <3>2
  <2>4. ASSUME NEW c \in S \cup {new}, ds[c].next # None
        PROVE  ds[c].next \in S \cup {new} /\ ds[ds[c].next].slot < ds[c].slot
    <3>1. CASE c = new
      BY <1>2, <1>7, <2>4, <2>f, <3>1
    <3>2. CASE c # new /\ c = q[1]
      <4>1. ds[c].next = new /\ ds[c].slot = cs[c].slot /\ cs[c].slot > s
        BY <1>1, <1>2, <1>6, <1>7, <3>2
      <4> QED
        BY <1>1, <1>6, <2>f, <3>2, <4>1
    <3>3. CASE c # new /\ c # q[1]
      <4>1. c \in S /\ ds[c].next = cs[c].next /\ ds[c].slot = cs[c].slot
        BY <1>7, <3>3
      <4>2. cs[c].next \in S /\ cs[cs[c].next].slot < cs[c].slot
        BY <2>0, <2>4, <4>1
      <4> QED
        BY <1>7, <4>1, <4>2
    <3> QED
      BY <3>1, <3>2, <3>3
  <2>5. ASSUME NEW c \in S \cup {new}, NEW d \in S \cup {new}, ds[d].slot < ds[c].slot
        PROVE  ds[c].next # None /\ ds[d].slot <= ds[ds[c].next].slot
    <3>1. CASE c = new
      <4>1. d \in S /\ cs[d].slot < s
        BY <1>7, <2>5, <2>f, <3>1
      <4>2. q[2] # None /\ cs[d].slot <= cs[q[2]].slot
        BY <1>1, <1>3, <4>1
      <4>3. q[2] \in S /\ ds[q[2]].slot = cs[q[2]].slot /\ ds[d].slot = cs[d].slot
        BY <1>2, <1>7, <4>1, <4>2
      <4> QED
        BY <2>f, <3>1, <4>2, <4>3
    <3>2. CASE c # new /\ c = q[1]
      <4>1. c \in S /\ ds[c].next = new /\ ds[c].slot = cs[c].slot
        BY <1>7, <3>2
      <4>2. ds[d].slot <= s
        <5>1. CASE d = new
          BY <2>f, <5>1
        <5>2. CASE d # new
          <6>1. d \in S /\ ds[d].slot = cs[d].slot /\ cs[d].slot \in Nat /\ cs[c].slot \in Nat
            BY <1>1, <1>7, <4>1, <5>2
          <6> QED
            BY <1>3, <2>5, <3>2, <4>1, <6>1
        <5> QED
          BY <5>1, <5>2
      <4> QED
        BY <1>6, <2>f, <4>1, <4>2
    <3>3. CASE c # new /\ c # q[1]
      <4>1. c \in S /\ ds[c].next = cs[c].next /\ ds[c].slot = cs[c].slot /\ cs[c].slot \in Nat
        BY <1>1, <1>7, <3>3
      <4>2. CASE d # new
        <5>1. d \in S /\ ds[d].slot = cs[d].slot
          BY <1>7, <4>2
        <5>2. cs[c].next # None /\ cs[d].slot <= cs[cs[c].next].slot
          BY <2>0, <2>5, <4>1, <5>1
        <5>3. cs[c].next \in S
          BY <2>0, <4>1, <5>2
        <5> QED
          BY <1>7, <4>1, <5>1, <5>2, <5>3
      <4>3. CASE d = new
        <5>1. cs[c].slot > s /\ ds[d].slot = s
          BY <2>5, <2>f, <4>1, <4>3
        <5>2. q[1] # None /\ cs[q[1]].slot <= cs[c].slot
          BY <1>3, <4>1, <5>1
        <5>3. q[1] \in S /\ cs[q[1]].slot \in Nat /\ cs[q[1]].slot > s
          BY <1>1, <1>2, <5>2
        <5>4. cs[q[1]].slot # cs[c].slot
          BY <2>0, <3>3, <4>1, <5>3
        <5>5. cs[c].next # None /\ cs[q[1]].slot <= cs[cs[c].next].slot
          <6>1. cs[q[1]].slot < cs[c].slot
            BY <4>1, <5>2, <5>3, <5>4
          <6> QED
            BY <2>0, <4>1, <5>3, <6>1
        <5>6. cs[c].next \in S /\ cs[cs[c].next].slot \in Nat
          BY <1>1, <2>0, <4>1, <5>5
        <5> QED
          BY <1>7, <4>1, <5>1, <5>3, <5>5, <5>6
      <4> QED
        BY <4>2, <4>3
    <3> QED
      BY <3>1, <3>2, <3>3
  <2>6. ASSUME NEW c \in S \cup {new}
        PROVE  IF ds[c].prev = None THEN g = c
               ELSE ds[c].prev \in S \cup {new} /\ ds[ds[c].prev].next = c
    <3>1. CASE c = new
      BY <1>2, <1>7, <2>f, <3>1
    <3>2. CASE c # new /\ c = q[2]
      <4>1. c \in S /\ ds[c].prev = new /\ ds[new].next = c
        BY <1>7, <2>f, <3>2
      <4> QED
        BY <1>6, <4>1
    <3>3. CASE c # new /\ c # q[2]
      <4>1. c \in S /\ ds[c].prev = cs[c].prev
        BY <1>7, <3>3
      <4>2. CASE cs[c].prev = None
        <5>1. h = c
          BY <2>0, <4>1, <4>2
        <5>2. q[1] # None
          BY <1>2, <3>3, <5>1
        <5> QED
          BY <4>1, <4>2, <5>1, <5>2
      <4>3. CASE cs[c].prev # None
        <5>1. cs[c].prev \in S /\ cs[cs[c].prev].next = c
          BY <2>0, <4>1, <4>3
        <5>2. cs[c].prev # q[1]
          BY <1>1, <1>2, <3>3, <4>3, <5>1
        <5> QED
          BY <1>7, <4>1, <4>3, <5>1, <5>2
      <4> QED
        BY <4>2, <4>3
    <3> QED
      BY <3>1, <3>2, <3>3
  <2> HIDE DEF g
  <2>7. List(ds, t, g)
    BY <1>5, <2>1, <2>2, <2>3, <2>4, <2>5, <2>6 DEF List
  <2> QED
    BY <2>7 DEF g
<1> QED
  BY <1>5, <1>8, <1>9, <1>10, <1>11

\* What lies between two places is closed, and they are linked (CloseInRange).
LEMMA Closing ==
  ASSUME NEW cs, Typed(cs), NEW t \in Threads, NEW h, List(cs, t, h),
         NEW lower \in Nat, NEW upper \in Nat, lower <= upper,
         NEW q, Found(cs, t, h, upper, q), NEW e, Found(cs, t, h, lower, e),
         NEW closed, closed = Until(cs, t, lower, q[2]),
         NEW ds \in [Cells -> Cell],
         \A c \in closed : ds[c].state = "closed" /\ ds[c].next = None /\ ds[c].prev = None,
         \A c \in Cells \ closed :
           /\ ds[c].state = cs[c].state /\ ds[c].thread = cs[c].thread /\ ds[c].slot = cs[c].slot
           /\ ds[c].next = (IF c = q[1] THEN e[2] ELSE cs[c].next)
           /\ ds[c].prev = (IF c # q[1] /\ c = e[2] THEN q[1] ELSE cs[c].prev)
  PROVE  /\ Typed(ds)
         /\ closed = InRange(cs, t, lower, upper)
         /\ OpenOf(ds, t) = OpenOf(cs, t) \ closed
         /\ List(ds, t, IF q[1] = None THEN e[2] ELSE h)
         /\ \A u : u # t => OpenOf(ds, u) = OpenOf(cs, u)
         /\ \A u, g : u # t /\ List(cs, u, g) => List(ds, u, g)
<1> DEFINE S == OpenOf(cs, t)
           R == S \ closed
<1>0. cs \in [Cells -> Cell]
  BY DEF Typed
<1>1. \A c \in S : c \in Cells /\ c # None /\ cs[c].slot \in Nat
  BY <1>0, CellFields DEF OpenOf
<1>2. /\ q \in Ref \X Ref
      /\ q[2] # None => q[2] \in S /\ cs[q[2]].slot <= upper
      /\ IF q[1] = None THEN q[2] = h
         ELSE q[1] \in S /\ cs[q[1]].next = q[2] /\ cs[q[1]].slot > upper
  BY DEF Found, Place
<1>3. e[2] \in Ref /\ (e[2] # None => e[2] \in S /\ cs[e[2]].slot <= lower)
  BY DEF Found, Place
<1>4. \A d \in S : /\ cs[d].slot > upper => q[1] # None /\ cs[q[1]].slot <= cs[d].slot
                   /\ cs[d].slot <= upper => q[2] # None /\ cs[d].slot <= cs[q[2]].slot
  BY <1>0, FoundSeparates
<1>5. \A d \in S : cs[d].slot <= lower => e[2] # None /\ cs[d].slot <= cs[e[2]].slot
  BY <1>0, FoundSeparates
<1>6. closed = {d \in S : lower < cs[d].slot /\ cs[d].slot <= upper}
  <2>1. ASSUME NEW d \in S
        PROVE  q[2] # None /\ cs[d].slot <= cs[q[2]].slot <=> cs[d].slot <= upper
    <3>1. q[2] # None => cs[q[2]].slot \in Nat /\ cs[q[2]].slot <= upper
      BY <1>1, <1>2
    <3> QED
      BY <1>1, <1>4, <3>1
  <2>2. closed = {d \in S : q[2] # None /\ lower < cs[d].slot /\ cs[d].slot <= cs[q[2]].slot}
    BY DEF Until, InRange
  <2> QED
    BY <2>1, <2>2
<1>7. \A d \in S : d \in R <=> cs[d].slot <= lower \/ cs[d].slot > upper
  BY <1>1, <1>6
<1>8. OpenOf(ds, t) = R
  <2>1. \A c \in Cells : c \in OpenOf(ds, t) <=> c \in S /\ c \notin closed
    BY DEF OpenOf
  <2> QED
    BY <1>1, <2>1 DEF OpenOf
<1>9. Typed(ds)
  <2>1. ASSUME NEW c \in Cells
        PROVE  IF ds[c].state = "open" THEN ds[c].thread \in Threads
               ELSE ds[c].next = None /\ ds[c].prev = None
    <3>1. CASE c \in closed
      BY <3>1
    <3>2. CASE c \notin closed /\ cs[c].state = "open"
      BY <3>2 DEF Typed
    <3>3. CASE c \notin closed /\ cs[c].state # "open"
      <4>1. c # q[1] /\ c # e[2]
        <5>1. c # None /\ c \notin S
          BY <1>0, <3>3, CellFields DEF OpenOf
        <5> QED
          BY <1>2, <1>3, <5>1
      <4> QED
        BY <3>3, <4>1 DEF Typed
    <3> QED
      BY <3>1, <3>2, <3>3
  <2> QED
    BY <2>1 DEF Typed
<1>10. ASSUME NEW u, u # t PROVE OpenOf(ds, u) = OpenOf(cs, u)
  <2>1. ASSUME NEW c \in Cells PROVE c \in OpenOf(ds, u) <=> c \in OpenOf(cs, u)
    <3>1. CASE c \in closed
      <4>1. cs[c].thread = t /\ ds[c].state = "closed"
        BY <1>6, <3>1 DEF OpenOf
      <4> QED
        BY <1>10, <4>1 DEF OpenOf
    <3>2. CASE c \notin closed
      BY <3>2 DEF OpenOf
    <3> QED
      BY <3>1, <3>2
  <2> QED
    BY <2>1 DEF OpenOf
<1>11. ASSUME NEW u, NEW g, u # t, List(cs, u, g) PROVE List(ds, u, g)
  <2>1. \A c \in OpenOf(cs, u) : c \in Cells /\ c \notin S /\ c # None
    BY <1>0, <1>11, CellFields DEF OpenOf
  <2>2. \A c \in OpenOf(cs, u) : c # q[1] /\ c # e[2] /\ c \notin closed
    BY <1>2, <1>3, <1>6, <2>1
  <2>3. \A c \in OpenOf(cs, u) : /\ ds[c].slot = cs[c].slot
                                 /\ ds[c].next = cs[c].next /\ ds[c].prev = cs[c].prev
    BY <2>1, <2>2
  <2> QED
    BY <1>10, <1>11, <2>3, ListKept
<1>12. List(ds, t, IF q[1] = None THEN e[2] ELSE h)
  <2> DEFINE g == IF q[1] = None THEN e[2] ELSE h
  <2>0. /\ \A c, d \in S : cs[c].slot = cs[d].slot => c = d
        /\ h # None => h \in S
        /\ \A d \in S : h # None /\ cs[d].slot <= cs[h].slot
        /\ \A c \in S :
             /\ cs[c].next # None => cs[c].next \in S /\ cs[cs[c].next].slot < cs[c].slot
             /\ \A d \in S : cs[d].slot < cs[c].slot =>
                  cs[c].next # None /\ cs[d].slot <= cs[cs[c].next].slot
             /\ IF cs[c].prev = None THEN h = c
                ELSE cs[c].prev \in S /\ cs[cs[c].prev].next = c
    BY DEF List
  <2>r. \A c \in R : /\ c \in S /\ cs[c].slot \in Nat /\ c # None
                     /\ cs[c].slot <= lower \/ cs[c].slot > upper
                     /\ ds[c].slot = cs[c].slot
                     /\ ds[c].next = (IF c = q[1] THEN e[2] ELSE cs[c].next)
                     /\ ds[c].prev = (IF c = e[2] THEN q[1] ELSE cs[c].prev)
    <3>1. q[1] # None /\ e[2] # None => q[1] # e[2]
      BY <1>1, <1>2, <1>3
    <3> QED
      BY <1>1, <1>7, <3>1
  <2>e. e[2] # None => e[2] \in R /\ cs[e[2]].slot <= lower
    BY <1>3, <1>7
  <2>q. q[1] # None => q[1] \in R /\ cs[q[1]].slot > upper
    BY <1>2, <1>7
  <2> HIDE DEF R, S
  <2>1. ASSUME NEW c \in R, NEW d \in R, ds[c].slot = ds[d].slot PROVE c = d
    BY <2>0, <2>1, <2>r
  <2>2. ASSUME g # None PROVE g \in R
    <3>1. CASE q[1] = None
      BY <2>2, <2>e, <3>1
    <3>2. CASE q[1] # None
      <4>1. q[1] \in S /\ cs[q[1]].slot > upper
        BY <1>2, <3>2
      <4>2. h \in S /\ cs[q[1]].slot <= cs[h].slot
        BY <2>0, <4>1
      <4>3. cs[h].slot > upper
        BY <1>1, <4>1, <4>2
      <4> QED
        BY <1>7, <3>2, <4>2, <4>3
    <3> QED
      BY <3>1, <3>2
  <2>3. ASSUME NEW d \in R PROVE g # None /\ ds[d].slot <= ds[g].slot
    <3>1. CASE q[1] = None
      <4>1. cs[d].slot <= lower
        BY <1>4, <2>r, <3>1
      <4>2. e[2] # None /\ cs[d].slot <= cs[e[2]].slot
        BY <1>5, <2>r, <4>1
      <4> QED
        BY <2>e, <2>r, <3>1, <4>2
    <3>2. CASE q[1] # None
      <4>1. g = h /\ h # None /\ cs[d].slot <= cs[h].slot
        BY <2>0, <2>r, <3>2
      <4> QED
        BY <2>2, <2>r, <4>1
    <3> QED
      BY <3>1, <3>2
  <2>4. ASSUME NEW c \in R, c # q[1], cs[c].next # None
        PROVE  cs[c].next \in R /\ cs[cs[c].next].slot < cs[c].slot
    <3>1. cs[c].next \in S /\ cs[cs[c].next].slot < cs[c].slot
      BY <2>0, <2>4, <2>r
    <3>2. cs[cs[c].next].slot \in Nat /\ cs[c].slot \in Nat
      BY <1>1, <2>r, <3>1
    <3>3. CASE cs[c].slot <= lower
      BY <1>7, <3>1, <3>2, <3>3
    <3>4. CASE cs[c].slot > upper
      <4>1. q[1] \in S /\ cs[q[1]].slot <= cs[c].slot /\ cs[q[1]].slot > upper
        BY <1>2, <1>4, <2>r, <3>4
      <4>2. cs[q[1]].slot < cs[c].slot
        <5>1. cs[q[1]].slot # cs[c].slot
          BY <2>0, <2>4, <2>r, <4>1
        <5> QED
          BY <1>1, <3>2, <4>1, <5>1
      <4>3. cs[q[1]].slot <= cs[cs[c].next].slot
        BY <2>0, <2>r, <4>1, <4>2
      <4>4. cs[cs[c].next].slot > upper
        BY <1>1, <3>2, <4>1, <4>3
      <4> QED
        BY <1>7, <3>1, <4>4
    <3> QED
      BY <2>r, <3>3, <3>4
  <2>5. ASSUME NEW c \in R, ds[c].next # None
        PROVE  ds[c].next \in R /\ ds[ds[c].next].slot < ds[c].slot
    <3>1. CASE c = q[1]
      <4>1. ds[c].next = e[2] /\ e[2] \in R /\ cs[e[2]].slot <= lower /\ cs[c].slot > upper
        BY <2>5, <2>e, <2>q, <2>r, <3>1
      <4> QED
        BY <2>r, <4>1
    <3>2. CASE c # q[1]
      <4>1. ds[c].next = cs[c].next
        BY <2>r, <3>2
      <4>2. cs[c].next \in R /\ cs[cs[c].next].slot < cs[c].slot
        BY <2>4, <2>5, <3>2, <4>1
      <4> QED
        BY <2>r, <4>1, <4>2
    <3> QED
      BY <3>1, <3>2
  <2>6. ASSUME NEW c \in R, NEW d \in R, ds[d].slot < ds[c].slot
        PROVE  ds[c].next # None /\ ds[d].slot <= ds[ds[c].next].slot
    <3>0. cs[d].slot < cs[c].slot /\ c \in S /\ d \in S
      BY <2>6, <2>r
    <3>1. CASE c = q[1]
      <4>1. cs[d].slot <= lower
        <5>1. cs[d].slot > upper => cs[c].slot <= cs[d].slot
          BY <1>4, <3>0, <3>1
        <5> QED
          BY <2>r, <3>0, <5>1
      <4>2. e[2] # None /\ cs[d].slot <= cs[e[2]].slot
        BY <1>5, <3>0, <4>1
      <4>3. ds[c].next = e[2] /\ e[2] \in R
        BY <2>e, <2>r, <3>1, <4>2
      <4> QED
        BY <2>r, <4>2, <4>3
    <3>2. CASE c # q[1]
      <4>1. ds[c].next = cs[c].next /\ cs[c].next # None /\ cs[d].slot <= cs[cs[c].next].slot
        BY <2>0, <2>r, <3>0, <3>2
      <4>2. cs[c].next \in R
        BY <2>4, <3>2, <4>1
      <4> QED
        BY <2>r, <4>1, <4>2
    <3> QED
      BY <3>1, <3>2
  <2>7. ASSUME NEW c \in R
        PROVE  IF ds[c].prev = None THEN g = c
               ELSE ds[c].prev \in R /\ ds[ds[c].prev].next = c
    <3>1. CASE c = e[2]
      <4>1. ds[c].prev = q[1]
        BY <2>r, <3>1
      <4>2. CASE q[1] = None
        BY <3>1, <4>1, <4>2
      <4>3. CASE q[1] # None
        BY <2>q, <2>r, <3>1, <4>1, <4>3
      <4> QED
        BY <4>2, <4>3
    <3>2. CASE c # e[2]
      <4>1. ds[c].prev = cs[c].prev /\ c \in S
        BY <2>r, <3>2
      <4>e. cs[c].slot <= lower => /\ e[2] \in S /\ cs[c].slot < cs[e[2]].slot
                                   /\ cs[e[2]].slot <= lower
        <5>1. ASSUME cs[c].slot <= lower PROVE cs[c].slot < cs[e[2]].slot
          <6>1. e[2] # None /\ cs[c].slot <= cs[e[2]].slot
            BY <1>5, <4>1, <5>1
          <6>2. cs[c].slot # cs[e[2]].slot
            BY <1>3, <2>0, <3>2, <4>1, <6>1
          <6> QED
            BY <1>1, <1>3, <4>1, <6>1, <6>2
        <5>2. cs[c].slot <= lower => e[2] # None
          BY <1>5, <4>1
        <5> QED
          BY <1>3, <5>1, <5>2
      <4>2. CASE cs[c].prev = None
        <5>1. h = c
          BY <2>0, <4>1, <4>2
        <5>2. q[1] # None
          <6>1. cs[c].slot <= lower => cs[e[2]].slot <= cs[c].slot
            BY <2>0, <4>e, <5>1
          <6>2. ~(cs[c].slot <= lower)
            <7>1. cs[c].slot <= lower => cs[e[2]].slot \in Nat /\ cs[c].slot \in Nat
              BY <1>1, <4>1, <4>e
            <7> QED
              BY <4>e, <6>1, <7>1
          <6> QED
            BY <1>4, <2>r, <4>1, <6>2
        <5> QED
          BY <4>1, <4>2, <5>1, <5>2
      <4>3. CASE cs[c].prev # None
        <5> DEFINE p == cs[c].prev
        <5>1. p \in S /\ cs[p].next = c
          BY <2>0, <4>1, <4>3
        <5>2. cs[c].slot < cs[p].slot /\ cs[p].slot \in Nat /\ cs[c].slot \in Nat
          <6>1. c # None
            BY <2>r
          <6> QED
            BY <1>1, <2>0, <4>1, <5>1, <6>1
        <5>3. cs[c].slot <= lower => cs[p].slot <= lower
          <6>1. ASSUME cs[c].slot <= lower PROVE cs[p].slot <= cs[e[2]].slot
            <7>1. e[2] \in S /\ cs[c].slot < cs[e[2]].slot /\ cs[e[2]].slot \in Nat
              BY <1>1, <4>e, <6>1
            <7>2. cs[e[2]].slot < cs[p].slot => cs[e[2]].slot <= cs[c].slot
              BY <2>0, <5>1, <7>1
            <7> QED
              BY <5>2, <7>1, <7>2
          <6>2. cs[c].slot <= lower => cs[e[2]].slot \in Nat
            BY <1>1, <4>e
          <6> QED
            BY <4>e, <5>2, <6>1, <6>2
        <5>4. p \in R
          <6>1. cs[p].slot <= lower \/ cs[p].slot > upper
            BY <2>r, <5>2, <5>3
          <6> QED
            BY <1>7, <5>1, <6>1
        <5>5. p # q[1]
          <6>1. ASSUME p = q[1] PROVE FALSE
            <7>1. cs[p].slot > upper
              BY <1>2, <4>3, <6>1
            <7>2. ~(cs[c].slot <= lower)
              BY <5>2, <5>3, <7>1
            <7>3. cs[p].slot <= cs[c].slot
              BY <1>4, <2>r, <4>1, <6>1, <7>2
            <7> QED
              BY <5>2, <7>3
          <6> QED
            BY <6>1
        <5> QED
          BY <2>r, <4>1, <4>3, <5>1, <5>4, <5>5
      <4> QED
        BY <4>2, <4>3
    <3> QED
      BY <3>1, <3>2
  <2> HIDE DEF g
  <2>8. List(ds, t, g)
    BY <1>8, <2>1, <2>2, <2>3, <2>5, <2>6, <2>7 DEF List
  <2> QED
    BY <2>8 DEF g
<1>13. closed = InRange(cs, t, lower, upper)
  BY <1>6 DEF InRange
<1> QED
  BY <1>8, <1>9, <1>10, <1>11, <1>12, <1>13

-----------------------------------------------------------------------------
(* The inductive invariant                                                 *)

\* The windows of a thread's frames lie one behind the other.
WindowsApart ==
  \A i, j \in DOMAIN frames : i < j /\ frames[i].thread = frames[j].thread =>
    End(frames[i]) <= frames[j].base

\* What a closure or a frame refers to is allocated.
HeldAllocated == \A c \in Held : cells[c].state # "free"

UInv ==
  /\ TypeOK /\ Typed(cells) /\ Lists(cells, head)
  /\ OpenInWindow /\ WindowsApart /\ HeldAllocated

FrameType == [thread : Threads, base : Nat, count : Registers, extra : Extras, up : Tuples]

\* The fields of a frame, and where its window ends.
LEMMA FrameFields ==
  ASSUME TypeOK, NEW i \in DOMAIN frames
  PROVE  /\ i \in 1..Len(frames) /\ Len(frames) \in Nat
         /\ frames[i] \in FrameType
         /\ frames[i].thread \in Threads /\ frames[i].base \in Nat
         /\ frames[i].count \in Registers /\ frames[i].extra \in Extras
         /\ frames[i].count \in Nat \ {0} /\ frames[i].extra \in Nat
         /\ frames[i].up \in Tuples
         /\ End(frames[i]) \in Nat
         /\ frames[i].base + frames[i].count <= End(frames[i])
         /\ End(frames[i]) <= Slots[frames[i].thread]
         /\ Slots[frames[i].thread] \in Nat
<1>1. frames \in Seq(FrameType) /\ i \in 1..Len(frames) /\ Len(frames) \in Nat
  BY DEF TypeOK, FrameType
<1>2. frames[i] \in FrameType
  BY <1>1
<1>3. /\ frames[i].thread \in Threads /\ frames[i].base \in Nat
      /\ frames[i].count \in Registers /\ frames[i].extra \in Extras
      /\ frames[i].up \in Tuples
  BY <1>2 DEF FrameType
<1>4. frames[i].count \in Nat \ {0} /\ frames[i].extra \in Nat
  BY <1>3, UpvaluesAssumption DEF UpvaluesAssumption
<1>5. End(frames[i]) \in Nat /\ frames[i].base + frames[i].count <= End(frames[i])
  BY <1>3, <1>4 DEF End
<1>6. End(frames[i]) <= Slots[frames[i].thread]
  BY DEF TypeOK
<1>7. Slots[frames[i].thread] \in Nat
  BY <1>3, UpvaluesAssumption DEF UpvaluesAssumption
<1> QED
  BY <1>1, <1>2, <1>3, <1>4, <1>5, <1>6, <1>7

\* The slots of a thread hold contents.
LEMMA SlotFields ==
  ASSUME TypeOK, NEW t \in Threads
  PROVE  /\ Slots[t] \in Nat /\ stack[t] \in Seq(Content) /\ Len(stack[t]) = Slots[t]
         /\ DOMAIN stack[t] = 1..Slots[t] /\ \A s \in 1..Slots[t] : stack[t][s] \in Content
<1>1. Slots[t] \in Nat
  BY UpvaluesAssumption DEF UpvaluesAssumption
<1>2. stack[t] \in Seq(Content) /\ Len(stack[t]) = Slots[t]
  BY DEF TypeOK
<1> QED
  BY <1>1, <1>2

\* An open upvalue is on a slot of its thread's stack.
LEMMA OpenOnStack ==
  ASSUME UInv, NEW c \in Cells, cells[c].state = "open"
  PROVE  /\ cells[c].thread \in Threads
         /\ cells[c].slot \in 1..Slots[cells[c].thread]
         /\ stack[cells[c].thread][cells[c].slot] \in Content
<1>1. PICK i \in DOMAIN frames :
        /\ frames[i].thread = cells[c].thread
        /\ frames[i].base < cells[c].slot /\ cells[c].slot <= frames[i].base + frames[i].count
  BY DEF UInv, OpenInWindow, Open
<1>2. TypeOK /\ cells \in [Cells -> Cell]
  BY DEF UInv, Typed
<1>3. cells[c].slot \in Nat
  BY <1>2, CellFields
<1>4. cells[c].slot \in 1..Slots[cells[c].thread] /\ cells[c].thread \in Threads
  BY <1>1, <1>2, <1>3, FrameFields
<1> QED
  BY <1>2, <1>4, SlotFields

\* CloseInRange closes these, and nothing else changes for the program.
LEMMA CloseKeepsLists ==
  ASSUME UInv, NEW t \in Threads, NEW lower \in Nat, NEW upper \in Nat, lower <= upper,
         CloseInRange(t, lower, upper)
  PROVE  /\ cells' \in [Cells -> Cell] /\ head' \in [Threads -> Ref]
         /\ Typed(cells') /\ Lists(cells', head')
         /\ \A c \in InRange(cells, t, lower, upper) :
              cells'[c].state = "closed" /\ cells'[c].value = stack[t][cells[c].slot]
         /\ \A c \in Cells \ InRange(cells, t, lower, upper) :
              cells'[c].state = cells[c].state /\ cells'[c].value = cells[c].value
         /\ \A c \in Cells : cells'[c].thread = cells[c].thread /\ cells'[c].slot = cells[c].slot
<1> DEFINE q == Walk(cells, None, head[t], upper)
           e == Walk(cells, q[1], q[2], lower)
           closed == Chain(cells, q[2], lower)
           h == head[t]
           g == IF q[1] = None THEN e[2] ELSE h
<1>1. /\ cells' = [c \in Cells |->
                     IF c \in closed
                     THEN [cells[c] EXCEPT !.state = "closed", !.value = stack[t][cells[c].slot],
                                           !.next = None, !.prev = None]
                     ELSE IF c = q[1] THEN [cells[c] EXCEPT !.next = e[2]]
                     ELSE IF c = e[2] THEN [cells[c] EXCEPT !.prev = q[1]]
                     ELSE cells[c]]
      /\ head' = IF q[1] = None THEN [head EXCEPT ![t] = e[2]] ELSE head
  BY DEF CloseInRange
<1>2. /\ Typed(cells) /\ cells \in [Cells -> Cell] /\ Descends(cells)
      /\ List(cells, t, h) /\ head \in [Threads -> Ref] /\ h \in Ref
  BY LinksDescend DEF UInv, Typed, Lists, TypeOK
<1>3. Found(cells, t, h, upper, q)
  <2>1. Place(cells, t, h, upper, <<None, h>>) /\ None \in Ref
    BY <1>2 DEF Place, List, Ref
  <2> QED
    BY <1>2, <2>1, WalkFinds
<1>4. q \in Ref \X Ref /\ q[1] \in Ref /\ q[2] \in Ref
  BY <1>3 DEF Found, Place
<1>5. Found(cells, t, h, lower, e)
  <2>1. q = <<q[1], q[2]>>
    BY <1>4
  <2>2. q[1] # None => cells[q[1]].slot \in Nat
    BY <1>2, <1>4, CellFields DEF Ref
  <2>3. Place(cells, t, h, lower, <<q[1], q[2]>>)
    <3>1. q[1] # None => cells[q[1]].slot > lower
      BY <1>3, <2>2 DEF Found, Place
    <3> QED
      BY <1>3, <1>4, <3>1 DEF Found, Place
  <2> HIDE DEF q
  <2> QED
    BY <1>2, <1>4, <2>3, WalkFinds
<1>6. e \in Ref \X Ref /\ e[1] \in Ref /\ e[2] \in Ref
  BY <1>5 DEF Found, Place
<1>7. closed = Until(cells, t, lower, q[2])
  <2>1. q[2] # None => q[2] \in OpenOf(cells, t)
    BY <1>3 DEF Found, Place
  <2> HIDE DEF q
  <2> QED
    BY <1>2, <1>4, <2>1, ChainIs
<1> HIDE DEF q, e, closed, h, g
<1>8. \A c \in closed : c \in Cells /\ cells[c].state = "open" /\ cells[c].thread = t
  BY <1>7 DEF Until, InRange, OpenOf
<1>9. ASSUME NEW c \in closed
      PROVE  cells'[c] = [cells[c] EXCEPT !.state = "closed", !.value = stack[t][cells[c].slot],
                                          !.next = None, !.prev = None]
  BY <1>1, <1>8, <1>9
<1>10. ASSUME NEW c \in Cells \ closed
       PROVE  cells'[c] = IF c = q[1] THEN [cells[c] EXCEPT !.next = e[2]]
                          ELSE IF c = e[2] THEN [cells[c] EXCEPT !.prev = q[1]]
                          ELSE cells[c]
  BY <1>1, <1>10
<1>11. ASSUME NEW c \in closed
       PROVE  /\ cells'[c] \in Cell
              /\ cells'[c].state = "closed" /\ cells'[c].value = stack[t][cells[c].slot]
              /\ cells'[c].next = None /\ cells'[c].prev = None
              /\ cells'[c].thread = cells[c].thread /\ cells'[c].slot = cells[c].slot
  <2>1. cells[c] \in Cell /\ stack[t][cells[c].slot] \in Content
    BY <1>2, <1>8, OpenOnStack
  <2> DEFINE r == cells[c]
             v == stack[t][cells[c].slot]
             x == [r EXCEPT !.state = "closed", !.value = v, !.next = None, !.prev = None]
  <2>2. r \in Cell /\ v \in Content /\ None \in Ref
    BY <1>8, <2>1 DEF Ref
  <2> HIDE DEF r, v
  <2>3. /\ x \in Cell /\ x.state = "closed" /\ x.value = v /\ x.next = None /\ x.prev = None
        /\ x.thread = r.thread /\ x.slot = r.slot
    BY <2>2 DEF Cell
  <2>4. cells'[c] = x
    BY <1>9 DEF r, v
  <2> HIDE DEF x
  <2> QED
    BY <2>3, <2>4 DEF r, v
<1>12. ASSUME NEW c \in Cells \ closed
       PROVE  /\ cells'[c] \in Cell
              /\ cells'[c].state = cells[c].state /\ cells'[c].value = cells[c].value
              /\ cells'[c].thread = cells[c].thread /\ cells'[c].slot = cells[c].slot
              /\ cells'[c].next = (IF c = q[1] THEN e[2] ELSE cells[c].next)
              /\ cells'[c].prev = (IF c # q[1] /\ c = e[2] THEN q[1] ELSE cells[c].prev)
  <2>1. cells[c] \in Cell
    BY <1>2
  <2>2. CASE c = q[1]
    BY ZenonT(60), <1>4, <1>6, <1>10, <2>1, <2>2 DEF Cell
  <2>3. CASE c # q[1] /\ c = e[2]
    BY ZenonT(60), <1>4, <1>6, <1>10, <2>1, <2>3 DEF Cell
  <2>4. CASE c # q[1] /\ c # e[2]
    BY <1>10, <2>1, <2>4
  <2> QED
    BY <2>2, <2>3, <2>4
<1>13. cells' \in [Cells -> Cell]
  <2>1. DOMAIN cells' = Cells /\ cells' = [c \in Cells |-> cells'[c]]
    BY <1>1
  <2>2. \A c \in Cells : cells'[c] \in Cell
    BY <1>11, <1>12
  <2> QED
    BY <2>1, <2>2
<1>14. /\ Typed(cells')
       /\ closed = InRange(cells, t, lower, upper)
       /\ List(cells', t, g)
       /\ \A u, x : u # t /\ List(cells, u, x) => List(cells', u, x)
  <2>1. /\ \A c \in closed :
             cells'[c].state = "closed" /\ cells'[c].next = None /\ cells'[c].prev = None
        /\ \A c \in Cells \ closed :
             /\ cells'[c].state = cells[c].state /\ cells'[c].thread = cells[c].thread
             /\ cells'[c].slot = cells[c].slot
             /\ cells'[c].next = (IF c = q[1] THEN e[2] ELSE cells[c].next)
             /\ cells'[c].prev = (IF c # q[1] /\ c = e[2] THEN q[1] ELSE cells[c].prev)
    BY <1>11, <1>12
  <2>2. /\ Typed(cells')
        /\ closed = InRange(cells, t, lower, upper)
        /\ List(cells', t, IF q[1] = None THEN e[2] ELSE h)
        /\ \A u, x : u # t /\ List(cells, u, x) => List(cells', u, x)
    BY <1>2, <1>3, <1>5, <1>7, <1>13, <2>1, Closing
  <2> QED
    BY <2>2 DEF g
<1>15. /\ head' \in [Threads -> Ref] /\ head'[t] = g
       /\ \A u \in Threads : u # t => head'[u] = head[u]
  BY <1>1, <1>2, <1>6 DEF g, h
<1>16. Lists(cells', head')
  BY <1>14, <1>15 DEF Lists, UInv
<1>17. \A c \in Cells : cells'[c].thread = cells[c].thread /\ cells'[c].slot = cells[c].slot
  BY <1>8, <1>11, <1>12
<1> QED
  BY <1>11, <1>12, <1>13, <1>14, <1>15, <1>16, <1>17

-----------------------------------------------------------------------------
(* Parts of the invariant                                                  *)

StackOK ==
  stack \in [Threads -> Seq(Content)] /\ \A t \in Threads : Len(stack[t]) = Slots[t]

FramesOK ==
  /\ frames \in Seq(FrameType)
  /\ \A i \in DOMAIN frames : End(frames[i]) <= Slots[frames[i].thread]

\* The types, part by part.
LEMMA TypesSplit ==
  TypeOK <=> /\ StackOK /\ FramesOK
             /\ head \in [Threads -> Ref] /\ cells \in [Cells -> Cell] /\ closures \subseteq Tuples
BY DEF TypeOK, StackOK, FramesOK, FrameType, Cell

\* After a step.
LEMMA TypesSplitNext ==
  ASSUME StackOK', FramesOK', head' \in [Threads -> Ref], cells' \in [Cells -> Cell],
         closures' \subseteq Tuples
  PROVE  TypeOK'
BY DEF TypeOK, StackOK, FramesOK, FrameType, Cell, Ref, Content, Tuples

\* One thread's slots get new contents.
LEMMA StackWritten ==
  ASSUME TypeOK, NEW t \in Threads, NEW v, v \in [1..Slots[t] -> Content],
         stack' = [stack EXCEPT ![t] = v]
  PROVE  /\ StackOK' /\ stack'[t] = v
         /\ \A u \in Threads : u # t => stack'[u] = stack[u]
<1>1. Slots[t] \in Nat
  BY SlotFields
<1>2. v \in Seq(Content) /\ Len(v) = Slots[t]
  BY <1>1
<1>3. stack \in [Threads -> Seq(Content)] /\ \A u \in Threads : Len(stack[u]) = Slots[u]
  BY DEF TypeOK
<1>4. stack' \in [Threads -> Seq(Content)] /\ stack'[t] = v
      /\ \A u \in Threads : u # t => stack'[u] = stack[u]
  BY <1>2, <1>3
<1>5. \A u \in Threads : Len(stack'[u]) = Slots[u]
  BY <1>2, <1>3, <1>4
<1> QED
  BY <1>4, <1>5 DEF StackOK, Content

Written(t, s, v) == stack' = [stack EXCEPT ![t][s] = v]

\* One slot gets a new content.
LEMMA SlotWritten ==
  ASSUME TypeOK, NEW t \in Threads, NEW s \in 1..Slots[t], NEW v \in Content, Written(t, s, v)
  PROVE  /\ StackOK' /\ stack'[t][s] = v
         /\ \A u \in Threads : \A x \in 1..Slots[u] : u # t \/ x # s => stack'[u][x] = stack[u][x]
<1> DEFINE w == [stack[t] EXCEPT ![s] = v]
<1>1. DOMAIN stack[t] = 1..Slots[t] /\ \A x \in 1..Slots[t] : stack[t][x] \in Content
  BY SlotFields
<1>2. stack[t] = [x \in 1..Slots[t] |-> stack[t][x]]
  BY SlotFields
<1>3. w = [x \in 1..Slots[t] |-> IF x = s THEN v ELSE stack[t][x]]
  BY <1>1, <1>2
<1>4. w \in [1..Slots[t] -> Content] /\ w[s] = v
      /\ \A x \in 1..Slots[t] : x # s => w[x] = stack[t][x]
  BY <1>1, <1>3
<1>5. stack' = [stack EXCEPT ![t] = w]
  <2>1. stack \in [Threads -> Seq(Content)]
    BY DEF TypeOK
  <2> QED
    BY <2>1 DEF Written
<1> HIDE DEF w
<1>6. /\ StackOK' /\ stack'[t] = w
      /\ \A u \in Threads : u # t => stack'[u] = stack[u]
  BY <1>4, <1>5, StackWritten
<1> QED
  BY <1>4, <1>6

\* What is left of a stack when part of it is cleared.
LEMMA ClearedContents ==
  ASSUME TypeOK, NEW t \in Threads, NEW from \in Nat, NEW count \in Nat
  PROVE  /\ Cleared(stack[t], from, count) \in [1..Slots[t] -> Content]
         /\ \A s \in 1..Slots[t] : Cleared(stack[t], from, count)[s] =
              IF from < s /\ s <= from + count THEN Nil ELSE stack[t][s]
<1>1. DOMAIN stack[t] = 1..Slots[t] /\ \A s \in 1..Slots[t] : stack[t][s] \in Content
  BY SlotFields
<1>2. Nil \in Content
  BY DEF Content
<1> QED
  BY <1>1, <1>2 DEF Cleared

\* Upvalues are cells.
LEMMA TupleFields ==
  ASSUME NEW u \in Tuples
  PROVE  Members(u) \subseteq Cells /\ \A i \in DOMAIN u : u[i] \in Cells
<1>1. PICK n \in Captures : u \in [1..n -> Cells]
  BY DEF Tuples
<1>2. \A i \in DOMAIN u : u[i] \in Cells
  BY <1>1
<1> QED
  BY <1>2 DEF Members

\* Who holds a cell.
LEMMA HeldBy ==
  ASSUME NEW c
  PROVE  c \in Held <=> \/ \E u \in closures : c \in Members(u)
                       \/ \E i \in DOMAIN frames : c \in Members(frames[i].up)
BY DEF Held

\* So is what closures and frames refer to.
LEMMA HeldCells ==
  ASSUME TypeOK
  PROVE  Held \subseteq Cells
<1>1. \A u \in closures : Members(u) \subseteq Cells
  BY TupleFields DEF TypeOK
<1>2. \A i \in DOMAIN frames : Members(frames[i].up) \subseteq Cells
  BY FrameFields, TupleFields
<1> QED
  BY <1>1, <1>2, HeldBy

\* After a step.
LEMMA HeldFrom ==
  ASSUME NEW S, \A u \in closures' : Members(u) \subseteq S,
         \A i \in DOMAIN frames' : Members(frames'[i].up) \subseteq S
  PROVE  Held' \subseteq S
BY DEF Held, Members

\* The running frame.
LEMMA RunningFrame ==
  ASSUME TypeOK, Depth > 0
  PROVE  /\ Depth \in DOMAIN frames /\ Depth \in Nat /\ Depth = Len(frames)
         /\ Frame = frames[Depth] /\ Thread = frames[Depth].thread
BY DEF TypeOK, Depth, Frame, Thread

\* The frames below the running one.
LEMMA FramePopped ==
  ASSUME TypeOK, Depth > 0, frames' = SubSeq(frames, 1, Depth - 1)
  PROVE  /\ frames' \in Seq(FrameType) /\ DOMAIN frames' = 1..Depth - 1 /\ Len(frames') = Depth - 1
         /\ DOMAIN frames = 1..Depth
         /\ \A i \in DOMAIN frames' : i \in DOMAIN frames /\ frames'[i] = frames[i]
<1>1. frames \in Seq(FrameType) /\ Depth = Len(frames) /\ Depth \in Nat
  BY DEF TypeOK, FrameType, Depth
<1>2. Depth - 1 \in 0..Len(frames)
  BY <1>1
<1>3. /\ SubSeq(frames, 1, Depth - 1) \in Seq(FrameType)
      /\ Len(SubSeq(frames, 1, Depth - 1)) = Depth - 1
      /\ \A i \in 1..Depth - 1 : SubSeq(frames, 1, Depth - 1)[i] = frames[i]
  BY <1>1, <1>2
<1> QED
  BY <1>1, <1>3

\* A popped frame closes the open upvalues of its registers, whatever is cleared.
LEMMA PopKeeps ==
  ASSUME UInv, Depth > 0, CloseInRange(Thread, Frame.base, Frame.base + Frame.count),
         frames' = SubSeq(frames, 1, Depth - 1), StackOK', closures' = closures
  PROVE  UInv'
<1> DEFINE f == frames[Depth]
           gone == InRange(cells, f.thread, f.base, f.base + f.count)
<1>1. TypeOK
  BY DEF UInv
<1>2. /\ Depth \in DOMAIN frames /\ Depth \in Nat /\ Frame = f /\ Thread = f.thread
      /\ f.thread \in Threads /\ f.base \in Nat /\ f.count \in Nat
      /\ f.base + f.count \in Nat /\ f.base <= f.base + f.count
  <2>1. /\ Depth \in DOMAIN frames /\ Depth \in Nat /\ Frame = f /\ Thread = f.thread
    BY <1>1, RunningFrame
  <2>2. f.thread \in Threads /\ f.base \in Nat /\ f.count \in Nat
    BY <1>1, <2>1, FrameFields
  <2> HIDE DEF f
  <2> QED
    BY <2>1, <2>2
<1>3. CloseInRange(f.thread, f.base, f.base + f.count)
  BY <1>2
<1> HIDE DEF f
<1>4. /\ cells' \in [Cells -> Cell] /\ head' \in [Threads -> Ref]
      /\ Typed(cells') /\ Lists(cells', head')
      /\ \A c \in gone : cells'[c].state = "closed"
      /\ \A c \in Cells \ gone : cells'[c].state = cells[c].state
      /\ \A c \in Cells : cells'[c].thread = cells[c].thread /\ cells'[c].slot = cells[c].slot
  BY <1>2, <1>3, CloseKeepsLists
<1>5. /\ frames' \in Seq(FrameType) /\ DOMAIN frames' = 1..Depth - 1
      /\ DOMAIN frames = 1..Depth
      /\ \A i \in DOMAIN frames' : i \in DOMAIN frames /\ frames'[i] = frames[i]
  BY <1>1, FramePopped
<1>6. FramesOK'
  <2>1. \A i \in DOMAIN frames' : End(frames'[i]) <= Slots[frames'[i].thread]
    BY <1>1, <1>5 DEF TypeOK
  <2> QED
    BY <1>5, <2>1 DEF FramesOK, End
<1>7. TypeOK'
  BY <1>1, <1>4, <1>6, TypesSplit, TypesSplitNext
<1>8. OpenInWindow'
  <2> SUFFICES ASSUME NEW c \in Cells, cells'[c].state = "open"
               PROVE  \E i \in DOMAIN frames' :
                        /\ frames'[i].thread = cells'[c].thread
                        /\ frames'[i].base < cells'[c].slot
                        /\ cells'[c].slot <= frames'[i].base + frames'[i].count
    BY DEF OpenInWindow, Open
  <2>1. c \notin gone /\ cells[c].state = "open"
    BY <1>4
  <2>2. PICK i \in DOMAIN frames :
          /\ frames[i].thread = cells[c].thread
          /\ frames[i].base < cells[c].slot /\ cells[c].slot <= frames[i].base + frames[i].count
    BY <2>1 DEF UInv, OpenInWindow, Open
  <2>3. i # Depth
    BY <2>1, <2>2 DEF f, InRange, OpenOf
  <2>4. i \in DOMAIN frames'
    BY <1>2, <1>5, <2>3
  <2> QED
    BY <1>4, <1>5, <2>2, <2>4
<1>9. WindowsApart'
  <2>1. \A i, j \in DOMAIN frames' : i < j /\ frames'[i].thread = frames'[j].thread =>
          End(frames'[i]) <= frames'[j].base
    BY <1>5 DEF UInv, WindowsApart
  <2> QED
    BY <2>1 DEF WindowsApart, End
<1>10. HeldAllocated'
  <2>1. Held' \subseteq Held
    BY <1>5 DEF Held, Members
  <2>2. \A c \in Cells : cells[c].state # "free" => cells'[c].state # "free"
    BY <1>4
  <2>3. Held \subseteq Cells
    BY <1>1, HeldCells
  <2> QED
    BY <2>1, <2>2, <2>3 DEF UInv, HeldAllocated
<1> QED
  BY <1>4, <1>7, <1>8, <1>9, <1>10 DEF UInv, Lists, Typed

-----------------------------------------------------------------------------
(* The steps other than captures                                           *)

\* A step that only writes to slots.
LEMMA SlotsOnly ==
  ASSUME UInv, StackOK', UNCHANGED <<frames, head, cells, closures>>
  PROVE  UInv'
<1>1. TypeOK'
  BY TypesSplit, TypesSplitNext DEF UInv, FramesOK, End, FrameType, Ref, Tuples, Cell, Content
<1> QED
  BY <1>1 DEF UInv, Typed, Lists, OpenInWindow, Open, WindowsApart, HeldAllocated, Held, Members, End

\* The base of the next frame lies behind all windows of the thread.
LEMMA BaseBehind ==
  ASSUME UInv, NEW t \in Threads
  PROVE  /\ NextRegisterBase(t) \in Nat
         /\ \A i \in DOMAIN frames : frames[i].thread = t => End(frames[i]) <= NextRegisterBase(t)
<1> DEFINE own == FramesOf(t)
<1>1. TypeOK /\ DOMAIN frames = 1..Len(frames) /\ Len(frames) \in Nat
  BY DEF UInv, TypeOK
<1>2. CASE own = {}
  BY <1>2 DEF NextRegisterBase, FramesOf
<1>3. CASE own # {}
  <2>1. own \subseteq 1..Len(frames)
    BY <1>1 DEF FramesOf
  <2>2. \E i \in own : \A j \in own : j <= i
    <3> HIDE DEF own
    <3> QED
      BY <1>1, <1>3, <2>1, Largest
  <2> DEFINE last == CHOOSE i \in own : \A j \in own : j <= i
  <2>3. last \in own /\ \A j \in own : j <= last
    BY <2>2
  <2>4. NextRegisterBase(t) = End(frames[last])
    BY <1>3 DEF NextRegisterBase
  <2> HIDE DEF last
  <2>5. last \in DOMAIN frames /\ frames[last].thread = t
    BY <2>3 DEF FramesOf
  <2>6. End(frames[last]) \in Nat /\ frames[last].base \in Nat
        /\ frames[last].base <= End(frames[last])
    BY <1>1, <2>5, FrameFields DEF End
  <2>7. ASSUME NEW i \in DOMAIN frames, frames[i].thread = t
        PROVE  End(frames[i]) <= End(frames[last])
    <3>1. i \in own
      BY <2>7 DEF FramesOf
    <3>2. i <= last /\ i \in Nat /\ last \in Nat
      BY <1>1, <2>3, <2>5, <3>1
    <3>3. CASE i = last
      BY <2>6, <3>3
    <3>4. CASE i # last
      <4>1. End(frames[i]) <= frames[last].base
        BY <2>5, <2>7, <3>2, <3>4 DEF UInv, WindowsApart
      <4>2. End(frames[i]) \in Nat
        BY <1>1, FrameFields
      <4> QED
        BY <2>6, <4>1, <4>2
    <3> QED
      BY <3>3, <3>4
  <2> QED
    BY <2>4, <2>6, <2>7
<1> QED
  BY <1>2, <1>3

\* What a call leaves on the callee's window.
Entered(st, t, base, n, x, v) ==
  [s \in 1..Slots[t] |-> IF s = base + 1 \/ (s > base + n /\ s <= base + n + x) THEN v
                         ELSE Cleared(st[t], base, n + x)[s]]

\* A new frame has a window of its own (callLuaClosure).
LEMMA CallKeeps == UInv /\ Call => UInv'
<1> SUFFICES ASSUME UInv, NEW t \in Threads, NEW up \in closures \cup {<<>>},
                    NEW n \in Registers, NEW x \in Extras, NEW v \in Values,
                    NEW base, base = NextRegisterBase(t), base + n + x <= Slots[t],
                    frames' = Append(frames, [thread |-> t, base |-> base, count |-> n,
                                              extra |-> x, up |-> up]),
                    stack' = [stack EXCEPT ![t] = Entered(stack, t, base, n, x, v)],
                    UNCHANGED <<head, cells, closures>>
             PROVE  UInv'
  BY ZenonT(60) DEF Call, Entered
<1> DEFINE f == [thread |-> t, base |-> base, count |-> n, extra |-> x, up |-> up]
<1>1. /\ TypeOK /\ base \in Nat /\ n \in Nat /\ x \in Nat /\ n # 0
      /\ \A i \in DOMAIN frames : frames[i].thread = t => End(frames[i]) <= base
  BY BaseBehind, UpvaluesAssumption DEF UInv, UpvaluesAssumption
<1>2. up \in Tuples
  <2>1. <<>> \in [1..0 -> Cells]
    OBVIOUS
  <2> QED
    <3>1. 0 \in Captures /\ closures \subseteq Tuples
      BY <1>1, UpvaluesAssumption DEF TypeOK, UpvaluesAssumption
    <3>2. <<>> \in Tuples
      BY <2>1, <3>1 DEF Tuples
    <3> QED
      BY <3>1, <3>2
<1>3. /\ f \in FrameType /\ f.thread = t /\ f.base = base /\ f.count = n /\ f.extra = x /\ f.up = up
      /\ End(f) = base + n + x
  BY <1>1, <1>2 DEF FrameType, End
<1>4. frames' = Append(frames, f)
  OBVIOUS
<1> HIDE DEF f
<1>5. /\ frames \in Seq(FrameType) /\ Len(frames) \in Nat
      /\ DOMAIN frames = 1..Len(frames) /\ DOMAIN frames' = 1..Len(frames) + 1
      /\ frames' \in Seq(FrameType) /\ frames'[Len(frames) + 1] = f
      /\ \A i \in DOMAIN frames : frames'[i] = frames[i]
  BY SMTT(30), <1>1, <1>3, <1>4 DEF TypeOK, FrameType
<1>6. StackOK'
  <2>1. v \in Content /\ n + x \in Nat
    BY <1>1 DEF Content
  <2>2. /\ Cleared(stack[t], base, n + x) \in [1..Slots[t] -> Content]
    BY <1>1, <2>1, ClearedContents
  <2>3. Entered(stack, t, base, n, x, v) \in [1..Slots[t] -> Content]
    BY <2>1, <2>2 DEF Entered
  <2> QED
    BY <1>1, <2>3, StackWritten
<1>7. \A i \in DOMAIN frames' : i \in DOMAIN frames \/ i = Len(frames) + 1
  BY <1>5
<1>8. TypeOK'
  <2>1. \A i \in DOMAIN frames' : End(frames'[i]) <= Slots[frames'[i].thread]
    BY <1>1, <1>3, <1>5, <1>7 DEF TypeOK
  <2>2. FramesOK'
    BY <1>5, <2>1 DEF FramesOK, End
  <2> QED
    BY <1>1, <1>6, <2>2, TypesSplit, TypesSplitNext
<1>9. OpenInWindow'
  <2> SUFFICES ASSUME NEW c \in Cells, cells[c].state = "open"
               PROVE  \E i \in DOMAIN frames' :
                        /\ frames'[i].thread = cells[c].thread
                        /\ frames'[i].base < cells[c].slot
                        /\ cells[c].slot <= frames'[i].base + frames'[i].count
    BY DEF OpenInWindow, Open
  <2>1. PICK i \in DOMAIN frames :
          /\ frames[i].thread = cells[c].thread
          /\ frames[i].base < cells[c].slot /\ cells[c].slot <= frames[i].base + frames[i].count
    BY DEF UInv, OpenInWindow, Open
  <2>2. i \in DOMAIN frames' /\ frames'[i] = frames[i]
    BY <1>5
  <2> QED
    BY <2>1, <2>2
<1>10. WindowsApart'
  <2>1. ASSUME NEW i \in DOMAIN frames', NEW j \in DOMAIN frames',
               i < j, frames'[i].thread = frames'[j].thread
        PROVE  End(frames'[i]) <= frames'[j].base
    <3>1. i \in DOMAIN frames /\ frames'[i] = frames[i]
      BY <1>5, <2>1
    <3>2. CASE j \in DOMAIN frames
      BY <1>5, <2>1, <3>1, <3>2 DEF UInv, WindowsApart
    <3>3. CASE j = Len(frames) + 1
      BY <1>1, <1>3, <1>5, <2>1, <3>1, <3>3
    <3> QED
      BY <1>7, <3>2, <3>3
  <2> QED
    BY <2>1 DEF WindowsApart, End
<1>11. HeldAllocated'
  <2>1. Held' \subseteq Held
    <3>1. ASSUME NEW i \in DOMAIN frames' PROVE Members(frames'[i].up) \subseteq Held
      <4>1. CASE i \in DOMAIN frames
        BY <1>5, <4>1, HeldBy
      <4>2. CASE i = Len(frames) + 1
        <5>1. frames'[i].up = up
          BY <1>3, <1>5, <4>2
        <5>2. Members(<<>>) = {}
          BY DEF Members
        <5> QED
          BY <5>1, <5>2, HeldBy
      <4> QED
        BY <1>7, <4>1, <4>2
    <3>2. ASSUME NEW u \in closures PROVE Members(u) \subseteq Held
      BY HeldBy
    <3> QED
      BY <3>1, <3>2, HeldFrom
  <2> QED
    BY <2>1 DEF UInv, HeldAllocated
<1> QED
  BY <1>8, <1>9, <1>10, <1>11 DEF UInv, Typed, Lists

\* A frame that returns takes its open upvalues along (callLuaClosure).
LEMMA ReturnKeeps == UInv /\ Return => UInv'
<1> SUFFICES ASSUME UInv, Return PROVE UInv'
  OBVIOUS
<1>1. TypeOK /\ Depth > 0
  BY DEF UInv, Return
<1>2. /\ Thread \in Threads /\ Frame.base \in Nat /\ Frame.count + Frame.extra \in Nat
  BY <1>1, RunningFrame, FrameFields
<1>3. stack' = [stack EXCEPT ![Thread] = Cleared(stack[Thread], Frame.base, Frame.count + Frame.extra)]
  <2>1. stack \in [Threads -> Seq(Content)]
    BY <1>1 DEF TypeOK
  <2> QED
    BY <1>2, <2>1 DEF Return
<1>4. StackOK'
  BY <1>1, <1>2, <1>3, ClearedContents, StackWritten
<1> QED
  BY <1>4, PopKeeps DEF Return

\* So does one that an error unwinds (restoreSnapshot).
LEMMA RestoreSnapshotKeeps == UInv /\ RestoreSnapshot => UInv'
<1> SUFFICES ASSUME UInv, RestoreSnapshot PROVE UInv'
  OBVIOUS
<1>1. TypeOK /\ Depth > 0
  BY DEF UInv, RestoreSnapshot
<1>2. Thread \in Threads /\ Frame.base \in Nat /\ 1 \in Nat
  BY <1>1, RunningFrame, FrameFields
<1>3. stack' = [stack EXCEPT ![Thread] = Cleared(stack[Thread], Frame.base, 1)]
  <2>1. stack \in [Threads -> Seq(Content)]
    BY <1>1 DEF TypeOK
  <2> QED
    BY <1>2, <2>1 DEF RestoreSnapshot
<1>4. StackOK'
  BY <1>1, <1>2, <1>3, ClearedContents, StackWritten
<1> QED
  BY <1>4, PopKeeps DEF RestoreSnapshot

\* The content of a variable that somebody holds.
LEMMA GetContent ==
  ASSUME UInv, NEW c \in Cells, cells[c].state # "free"
  PROVE  Get(c) \in Content
<1>1. cells[c].state \in {"open", "closed"} /\ cells[c].value \in Content
  BY CellFields DEF UInv, Typed
<1>2. CASE cells[c].state = "closed"
  BY <1>1, <1>2 DEF Get
<1>3. CASE cells[c].state = "open"
  BY <1>3, OpenOnStack DEF Get
<1> QED
  BY <1>1, <1>2, <1>3

\* A register of the running frame is a slot of its thread.
LEMMA RegisterSlot ==
  ASSUME TypeOK, Depth > 0, NEW r \in 1..Frame.count
  PROVE  /\ Thread \in Threads /\ SlotOf(r) \in 1..Slots[Thread] /\ SlotOf(r) \in Nat
         /\ Frame.base < SlotOf(r) /\ SlotOf(r) <= Frame.base + Frame.count
         /\ Frame.base \in Nat /\ Frame.count \in Nat /\ Frame.extra \in Nat
         /\ stack[Thread][SlotOf(r)] \in Content
<1>1. /\ Depth \in DOMAIN frames /\ Frame = frames[Depth] /\ Thread = frames[Depth].thread
  BY RunningFrame
<1>2. /\ frames[Depth].thread \in Threads /\ frames[Depth].base \in Nat
      /\ frames[Depth].count \in Nat /\ frames[Depth].extra \in Nat
      /\ frames[Depth].base + frames[Depth].count <= End(frames[Depth])
      /\ End(frames[Depth]) <= Slots[frames[Depth].thread]
      /\ Slots[frames[Depth].thread] \in Nat /\ End(frames[Depth]) \in Nat
  BY <1>1, FrameFields
<1>3. /\ Thread \in Threads /\ Frame.base \in Nat /\ Frame.count \in Nat /\ Frame.extra \in Nat
      /\ Frame.base + Frame.count <= Slots[Thread] /\ Slots[Thread] \in Nat
  BY <1>1, <1>2
<1>4. SlotOf(r) = Frame.base + r
  BY DEF SlotOf
<1>5. /\ SlotOf(r) \in 1..Slots[Thread] /\ SlotOf(r) \in Nat
      /\ Frame.base < SlotOf(r) /\ SlotOf(r) <= Frame.base + Frame.count
  BY <1>3, <1>4
<1>6. stack[Thread][SlotOf(r)] \in Content
  BY <1>3, <1>5, SlotFields
<1> QED
  BY <1>3, <1>5, <1>6

\* Writing a register disturbs no list (setRegister).
LEMMA SetRegisterKeeps ==
  ASSUME UInv, Depth > 0, NEW r \in 1..Frame.count, NEW v \in Content, SetRegister(r, v)
  PROVE  UInv'
<1>1. TypeOK /\ Thread \in Threads /\ SlotOf(r) \in 1..Slots[Thread]
  BY RegisterSlot DEF UInv
<1>2. Written(Thread, SlotOf(r), v)
  BY DEF SetRegister, Written
<1>3. StackOK'
  BY <1>1, <1>2, SlotWritten
<1> QED
  BY <1>3, SlotsOnly DEF SetRegister

\* Cells that are not open may change, and open ones their values.
LEMMA LinksKept ==
  ASSUME UInv, cells' \in [Cells -> Cell], head' = head, frames' = frames,
         \A c \in Cells :
           /\ cells'[c].state = "open" <=> cells[c].state = "open"
           /\ cells[c].state = "open" =>
                /\ cells'[c].thread = cells[c].thread /\ cells'[c].slot = cells[c].slot
                /\ cells'[c].next = cells[c].next /\ cells'[c].prev = cells[c].prev
           /\ cells[c].state # "open" => cells'[c].next = None /\ cells'[c].prev = None
  PROVE  Typed(cells') /\ Lists(cells', head') /\ OpenInWindow'
<1>1. Typed(cells')
  BY DEF UInv, Typed
<1>2. ASSUME NEW t \in Threads PROVE List(cells', t, head'[t])
  <2>1. \A c \in Cells : c \in OpenOf(cells', t) <=> c \in OpenOf(cells, t)
    BY DEF OpenOf
  <2>2. OpenOf(cells', t) = OpenOf(cells, t)
    BY <2>1 DEF OpenOf
  <2>3. \A c \in OpenOf(cells, t) : /\ cells'[c].slot = cells[c].slot
                                    /\ cells'[c].next = cells[c].next
                                    /\ cells'[c].prev = cells[c].prev
    BY DEF OpenOf
  <2>4. List(cells, t, head[t])
    BY DEF UInv, Lists
  <2> QED
    BY <2>2, <2>3, <2>4, ListKept
<1>3. OpenInWindow'
  BY DEF UInv, OpenInWindow, Open
<1> QED
  BY <1>1, <1>2, <1>3 DEF Lists

\* Nor does writing a variable (Set).
LEMMA SetUpvalueKeeps ==
  ASSUME UInv, Depth > 0, NEW r \in 1..Frame.count, NEW i \in DOMAIN Frame.up, SetUpvalue(r, i)
  PROVE  UInv'
<1> DEFINE c == Frame.up[i]
           v == stack[Thread][SlotOf(r)]
<1>1. TypeOK /\ cells \in [Cells -> Cell] /\ stack \in [Threads -> Seq(Content)]
  BY DEF UInv, Typed, TypeOK
<1>2. v \in Content
  BY <1>1, RegisterSlot
<1>3. c \in Cells /\ cells[c].state # "free"
  <2>1. Depth \in DOMAIN frames /\ Frame = frames[Depth] /\ frames[Depth].up \in Tuples
    BY <1>1, RunningFrame, FrameFields
  <2>2. Frame.up \in Tuples
    BY <2>1
  <2>3. c \in Members(frames[Depth].up)
    BY <2>1 DEF Members
  <2>4. c \in Held
    BY <2>1, <2>3, HeldBy
  <2>5. c \in Cells
    BY <2>2, TupleFields
  <2> QED
    BY <2>4, <2>5 DEF UInv, HeldAllocated
<1>4. Set(c, v) /\ UNCHANGED <<frames, head, closures>>
  BY DEF SetUpvalue
<1> HIDE DEF c, v
<1>5. CASE cells[c].state = "closed"
  <2>1. cells' = [cells EXCEPT ![c].value = v] /\ stack' = stack
    BY <1>4, <1>5 DEF Set
  <2> DEFINE x == [cells[c] EXCEPT !.value = v]
  <2>2. cells[c] \in Cell
    BY <1>1, <1>3
  <2>3. /\ x \in Cell /\ x.state = cells[c].state /\ x.thread = cells[c].thread
        /\ x.slot = cells[c].slot /\ x.next = cells[c].next /\ x.prev = cells[c].prev
    BY <1>2, <2>2 DEF Cell
  <2>4. cells' = [cells EXCEPT ![c] = x]
    BY <1>1, <1>3, <2>1
  <2> HIDE DEF x
  <2>5. cells' \in [Cells -> Cell] /\ cells'[c] = x /\ \A d \in Cells : d # c => cells'[d] = cells[d]
    BY <1>1, <1>3, <2>3, <2>4
  <2>6. \A d \in Cells : /\ cells'[d].state = cells[d].state /\ cells'[d].thread = cells[d].thread
                         /\ cells'[d].slot = cells[d].slot /\ cells'[d].next = cells[d].next
                         /\ cells'[d].prev = cells[d].prev
    BY <2>3, <2>5
  <2>7. \A d \in Cells : cells[d].state # "open" => cells[d].next = None /\ cells[d].prev = None
    BY DEF UInv, Typed
  <2>8. Typed(cells') /\ Lists(cells', head') /\ OpenInWindow'
    BY <1>4, <2>5, <2>6, <2>7, LinksKept
  <2>9. TypeOK'
    <3>1. StackOK' /\ FramesOK'
      BY <1>1, <1>4, <2>1, TypesSplit DEF StackOK, FramesOK, End, FrameType, Tuples, Content
    <3> QED
      BY <1>1, <1>4, <2>5, <3>1, TypesSplit, TypesSplitNext
  <2>10. WindowsApart'
    BY <1>4 DEF UInv, WindowsApart, End
  <2>11. HeldAllocated'
    <3>1. Held' = Held
      BY <1>4 DEF Held, Members
    <3>2. Held \subseteq Cells
      BY <1>1, HeldCells
    <3> QED
      BY <2>6, <3>1, <3>2 DEF UInv, HeldAllocated
  <2> QED
    BY <2>8, <2>9, <2>10, <2>11 DEF UInv
<1>6. CASE cells[c].state # "closed"
  <2>1. stack' = [stack EXCEPT ![cells[c].thread][cells[c].slot] = v] /\ cells' = cells
    BY <1>4, <1>6 DEF Set
  <2>2. cells[c].state = "open"
    BY <1>1, <1>3, <1>6, CellFields
  <2>3. cells[c].thread \in Threads /\ cells[c].slot \in 1..Slots[cells[c].thread]
    BY <1>3, <2>2, OpenOnStack
  <2>4. Written(cells[c].thread, cells[c].slot, v)
    BY <2>1 DEF Written
  <2>5. StackOK'
    BY <1>1, <1>2, <2>3, <2>4, SlotWritten
  <2> QED
    BY <1>4, <2>1, <2>5, SlotsOnly
<1> QED
  BY <1>5, <1>6

\* The end of a block closes the upvalues on its registers (executeLuaFrame).
LEMMA CloseKeeps ==
  ASSUME UInv, Depth > 0, NEW r \in 1..Frame.count, Close(r)
  PROVE  UInv'
<1> DEFINE lower == Frame.base + r - 1
           upper == Frame.base + Frame.count
           gone == InRange(cells, Thread, lower, upper)
<1>1. TypeOK
  BY DEF UInv
<1>2. /\ Thread \in Threads /\ lower \in Nat /\ upper \in Nat /\ lower <= upper
  BY <1>1, RegisterSlot
<1>3. CloseInRange(Thread, lower, upper) /\ UNCHANGED <<stack, frames, closures>>
  BY DEF Close
<1> HIDE DEF lower, upper
<1>4. /\ cells' \in [Cells -> Cell] /\ head' \in [Threads -> Ref]
      /\ Typed(cells') /\ Lists(cells', head')
      /\ \A c \in gone : cells'[c].state = "closed"
      /\ \A c \in Cells \ gone : cells'[c].state = cells[c].state
      /\ \A c \in Cells : cells'[c].thread = cells[c].thread /\ cells'[c].slot = cells[c].slot
  BY <1>2, <1>3, CloseKeepsLists
<1> HIDE DEF gone
<1>5. TypeOK'
  <2>1. StackOK' /\ FramesOK'
    BY <1>1, <1>3, TypesSplit DEF StackOK, FramesOK, End, FrameType, Tuples, Content
  <2> QED
    BY <1>1, <1>3, <1>4, <2>1, TypesSplit, TypesSplitNext
<1>6. OpenInWindow'
  <2>1. \A c \in Cells : cells'[c].state = "open" => cells[c].state = "open"
    BY <1>4
  <2> QED
    BY <1>3, <1>4, <2>1 DEF UInv, OpenInWindow, Open
<1>7. WindowsApart'
  BY <1>3 DEF UInv, WindowsApart, End
<1>8. HeldAllocated'
  <2>1. Held' = Held
    BY <1>3 DEF Held, Members
  <2>2. \A c \in Cells : cells[c].state # "free" => cells'[c].state # "free"
    BY <1>4
  <2> QED
    BY <1>1, <2>1, <2>2, HeldCells DEF UInv, HeldAllocated
<1> QED
  BY <1>4, <1>5, <1>6, <1>7, <1>8 DEF UInv

\* A closure that is dropped.
LEMMA DropClosureKeeps == UInv /\ DropClosure => UInv'
<1> SUFFICES ASSUME UInv, NEW u \in closures, closures' = closures \ {u},
                    UNCHANGED <<stack, frames, head, cells>>
             PROVE  UInv'
  BY DEF DropClosure
<1>1. TypeOK
  BY DEF UInv
<1>2. TypeOK'
  <2>1. StackOK' /\ FramesOK'
    BY <1>1, TypesSplit DEF StackOK, FramesOK, End, FrameType, Tuples, Content
  <2> QED
    BY <1>1, <2>1, TypesSplit, TypesSplitNext
<1>3. HeldAllocated'
  <2>1. \A w \in closures' : Members(w) \subseteq Held
    BY HeldBy
  <2>2. \A i \in DOMAIN frames' : Members(frames'[i].up) \subseteq Held
    BY HeldBy
  <2> QED
    BY <2>1, <2>2, HeldFrom DEF UInv, HeldAllocated
<1>4. Typed(cells') /\ Lists(cells', head') /\ OpenInWindow' /\ WindowsApart'
  BY DEF UInv, Typed, Lists, OpenInWindow, Open, WindowsApart, End
<1> QED
  BY <1>2, <1>3, <1>4 DEF UInv

\* A variable that nothing refers to is freed.
LEMMA CollectKeeps == UInv /\ Collect => UInv'
<1> SUFFICES ASSUME UInv, NEW c \in Cells \ Held, cells[c].state = "closed",
                    cells' = [cells EXCEPT ![c] = Blank],
                    UNCHANGED <<stack, frames, head, closures>>
             PROVE  UInv'
  BY DEF Collect
<1>1. TypeOK /\ cells \in [Cells -> Cell]
  BY DEF UInv, Typed
<1>2. /\ Blank \in Cell /\ Blank.state = "free" /\ Blank.next = None /\ Blank.prev = None
  BY DEF Blank, Cell, Content, Ref
<1>3. /\ cells' \in [Cells -> Cell] /\ cells'[c] = Blank
      /\ \A d \in Cells : d # c => cells'[d] = cells[d]
  BY <1>1, <1>2
<1>4. \A d \in Cells : cells[d].state # "open" => cells[d].next = None /\ cells[d].prev = None
  BY DEF UInv, Typed
<1>5. Typed(cells') /\ Lists(cells', head') /\ OpenInWindow'
  BY <1>2, <1>3, <1>4, LinksKept
<1>6. TypeOK'
  <2>1. StackOK' /\ FramesOK'
    BY <1>1, TypesSplit DEF StackOK, FramesOK, End, FrameType, Tuples, Content
  <2> QED
    BY <1>1, <1>3, <2>1, TypesSplit, TypesSplitNext
<1>7. HeldAllocated'
  <2>1. Held' = Held
    BY DEF Held, Members
  <2> QED
    BY <1>1, <1>3, <2>1, HeldCells DEF UInv, HeldAllocated
<1>8. WindowsApart'
  BY DEF UInv, WindowsApart, End
<1> QED
  BY <1>5, <1>6, <1>7, <1>8 DEF UInv

-----------------------------------------------------------------------------
(* Captures                                                                *)

\* What a CLOSURE instruction has done so far.
Progress == [cells : [Cells -> Cell], head : Ref, refs : Seq(Cells)]

Free(cs) == {c \in Cells : cs[c].state = "free"}

\* After the open upvalue x of the slot s has been found or made.
Provided(o, p, s, x) ==
  /\ p \in Progress /\ p.refs = Append(o.refs, x)
  /\ Typed(p.cells) /\ List(p.cells, Thread, p.head)
  /\ \A u, g : u # Thread /\ List(o.cells, u, g) => List(p.cells, u, g)
  /\ x \in OpenOf(p.cells, Thread) /\ p.cells[x].slot = s
  /\ \A c \in Cells : c # x \/ o.cells[c].state # "free" =>
       /\ p.cells[c].state = o.cells[c].state /\ p.cells[c].thread = o.cells[c].thread
       /\ p.cells[c].slot = o.cells[c].slot /\ p.cells[c].value = o.cells[c].value
  /\ o.cells[x].state = "free" => /\ p.cells[x].value = Nil
                                  /\ \A c \in OpenOf(o.cells, Thread) : o.cells[c].slot # s

\* A slot has one open upvalue, an old or a new one (FindOrCreateOpen).
LEMMA FindOrCreateProvides ==
  ASSUME Thread \in Threads, NEW o \in Progress, Typed(o.cells), Descends(o.cells),
         List(o.cells, Thread, o.head), NEW s \in Nat, Free(o.cells) # {}
  PROVE  \E x \in Cells : Provided(o, FindOrCreateOpen(o, s), s, x)
<1> DEFINE t == Thread
           cs == o.cells
           q == Walk(cs, None, o.head, s)
           new == CHOOSE c \in Cells : o.cells[c].state = "free"
           cell == [Blank EXCEPT !.state = "open", !.thread = Thread, !.slot = s,
                                 !.next = q[2], !.prev = q[1]]
           p == FindOrCreateOpen(o, s)
<1>1. /\ cs \in [Cells -> Cell] /\ o.head \in Ref /\ o.refs \in Seq(Cells)
      /\ DOMAIN o = {"cells", "head", "refs"}
  BY DEF Progress
<1>2. Found(cs, t, o.head, s, q)
  <2>1. Place(cs, t, o.head, s, <<None, o.head>>) /\ None \in Ref
    BY <1>1 DEF Place, List, Ref
  <2> QED
    BY <1>1, <2>1, WalkFinds
<1>3. /\ q \in Ref \X Ref /\ q[1] \in Ref /\ q[2] \in Ref
      /\ q[2] # None => q[2] \in OpenOf(cs, t) /\ cs[q[2]].slot <= s
  BY <1>2 DEF Found, Place
<1>4. new \in Cells /\ cs[new].state = "free"
  <2>1. \E c \in Cells : o.cells[c].state = "free"
    BY DEF Free
  <2> QED
    BY <2>1
<1>5. /\ cell \in Cell /\ cell.state = "open" /\ cell.thread = t /\ cell.slot = s
      /\ cell.next = q[2] /\ cell.prev = q[1] /\ cell.value = Nil
  <2>1. q[1] \in Ref /\ q[2] \in Ref
    BY <1>3
  <2> HIDE DEF q
  <2> QED
    BY <2>1 DEF Blank, Cell, Content
<1>6. CASE q[2] # None /\ cs[q[2]].slot = s
  <2>1. p = [o EXCEPT !.refs = Append(@, q[2])]
    BY <1>6 DEF FindOrCreateOpen
  <2> HIDE DEF q, p
  <2>2. q[2] \in OpenOf(cs, t) /\ q[2] \in Cells /\ cs[q[2]].state = "open"
    BY <1>3, <1>6 DEF OpenOf
  <2>3. /\ p \in Progress /\ p.cells = cs /\ p.head = o.head /\ p.refs = Append(o.refs, q[2])
    <3>1. p = [o EXCEPT !.refs = Append(o.refs, q[2])]
      BY <2>1
    <3>2. Append(o.refs, q[2]) \in Seq(Cells)
      BY <1>1, <2>2
    <3>3. p.cells = o.cells /\ p.head = o.head /\ p.refs = Append(o.refs, q[2])
      BY <1>1, <3>1
    <3>4. p = [cells |-> o.cells, head |-> o.head, refs |-> Append(o.refs, q[2])]
      BY <3>1 DEF Progress
    <3> QED
      BY <1>1, <3>2, <3>3, <3>4 DEF Progress
  <2>4. Provided(o, p, s, q[2])
    BY <1>6, <2>2, <2>3 DEF Provided
  <2> QED
    BY <2>2, <2>4 DEF p
<1>7. CASE ~(q[2] # None /\ cs[q[2]].slot = s)
  <2> DEFINE ds == [c \in Cells |-> IF c = new THEN cell
                                    ELSE IF c = q[1] THEN [cs[c] EXCEPT !.next = new]
                                    ELSE IF c = q[2] THEN [cs[c] EXCEPT !.prev = new]
                                    ELSE cs[c]]
             g == IF q[1] = None THEN new ELSE o.head
  <2>1. p = [cells |-> ds, head |-> g, refs |-> Append(o.refs, new)]
    BY <1>7 DEF FindOrCreateOpen
  <2>2. new \in Ref
    BY <1>4 DEF Ref
  <2> HIDE DEF q, new, cell, p
  <2>3. ASSUME NEW c \in Cells, c # new
        PROVE  /\ ds[c] \in Cell /\ ds[c].state = cs[c].state /\ ds[c].thread = cs[c].thread
               /\ ds[c].slot = cs[c].slot /\ ds[c].value = cs[c].value
               /\ ds[c].next = (IF c = q[1] THEN new ELSE cs[c].next)
               /\ ds[c].prev = (IF c # q[1] /\ c = q[2] THEN new ELSE cs[c].prev)
    <3>1. cs[c] \in Cell
      BY <1>1
    <3>2. ds[c] = IF c = q[1] THEN [cs[c] EXCEPT !.next = new]
                  ELSE IF c = q[2] THEN [cs[c] EXCEPT !.prev = new] ELSE cs[c]
      BY <2>3
    <3> HIDE DEF ds
    <3>3. CASE c = q[1]
      BY <2>2, <3>1, <3>2, <3>3 DEF Cell
    <3>4. CASE c # q[1] /\ c = q[2]
      BY <2>2, <3>1, <3>2, <3>4 DEF Cell
    <3>5. CASE c # q[1] /\ c # q[2]
      BY <3>1, <3>2, <3>5
    <3> QED
      BY <3>3, <3>4, <3>5
  <2>4. ds[new] = cell
    BY <1>4
  <2>5. ds \in [Cells -> Cell]
    <3>1. \A c \in Cells : ds[c] \in Cell
      BY <1>5, <2>3, <2>4
    <3>2. ds = [c \in Cells |-> ds[c]]
      OBVIOUS
    <3> HIDE DEF ds
    <3> QED
      BY <3>1, <3>2
  <2> HIDE DEF ds
  <2>6. q[2] # None => cs[q[2]].slot # s
    BY <1>7
  <2>7. /\ ds[new].state = "open" /\ ds[new].thread = t /\ ds[new].slot = s
        /\ ds[new].next = q[2] /\ ds[new].prev = q[1] /\ ds[new].value = Nil
    BY <1>5, <2>4
  <2>8. /\ Typed(ds)
        /\ OpenOf(ds, t) = OpenOf(cs, t) \cup {new}
        /\ List(ds, t, IF q[1] = None THEN new ELSE o.head)
        /\ \A u, x : u # t /\ List(cs, u, x) => List(ds, u, x)
    <3>1. \A c \in Cells : c # new =>
            /\ ds[c].state = cs[c].state /\ ds[c].thread = cs[c].thread /\ ds[c].slot = cs[c].slot
            /\ ds[c].next = (IF c = q[1] THEN new ELSE cs[c].next)
            /\ ds[c].prev = (IF c # q[1] /\ c = q[2] THEN new ELSE cs[c].prev)
      BY <2>3
    <3> QED
      BY <1>2, <1>4, <2>5, <2>6, <2>7, <3>1, Insertion
  <2>9. /\ p \in Progress /\ p.cells = ds /\ p.head = g /\ p.refs = Append(o.refs, new)
    BY <1>1, <1>4, <2>1, <2>2, <2>5 DEF Progress
  <2>10. \A c \in OpenOf(cs, t) : cs[c].slot # s
    <3>1. ASSUME NEW c \in OpenOf(cs, t), cs[c].slot = s PROVE FALSE
      <4>1. q[2] # None /\ cs[c].slot <= cs[q[2]].slot
        BY <1>1, <1>2, <3>1, FoundSeparates
      <4>2. cs[q[2]].slot <= s /\ cs[q[2]].slot \in Nat
        BY <1>1, <1>3, <4>1, CellFields DEF Ref
      <4> QED
        BY <2>6, <3>1, <4>1, <4>2
    <3> QED
      BY <3>1
  <2>11. Provided(o, p, s, new)
    <3>1. new \in OpenOf(p.cells, Thread) /\ p.cells[new].slot = s /\ p.cells[new].value = Nil
      BY <2>7, <2>8, <2>9
    <3>2. \A c \in Cells : c # new \/ cs[c].state # "free" =>
            /\ p.cells[c].state = cs[c].state /\ p.cells[c].thread = cs[c].thread
            /\ p.cells[c].slot = cs[c].slot /\ p.cells[c].value = cs[c].value
      BY <1>4, <2>3, <2>9
    <3>3. Typed(p.cells) /\ List(p.cells, Thread, p.head)
          /\ \A u, x : u # Thread /\ List(o.cells, u, x) => List(p.cells, u, x)
      BY <2>8, <2>9
    <3> QED
      BY <2>9, <2>10, <3>1, <3>2, <3>3 DEF Provided
  <2> QED
    BY <1>4, <2>11 DEF p
<1> QED
  BY <1>6, <1>7

-----------------------------------------------------------------------------
(* One capture after the other                                             *)

Started == [cells |-> cells, head |-> head[Thread], refs |-> <<>>]
After(f, captures) ==
  \A i \in 0..Len(captures) :
    f[i] = IF i = 0 THEN Started ELSE Captured(f[i - 1], captures[i])

\* The captures of an instruction are made in their order (createClosure).
LEMMA OpenedIs ==
  ASSUME NEW captures, Len(captures) \in Nat
  PROVE  \E f : After(f, captures) /\ Opened(captures) = f[Len(captures)]
<1> DEFINE Rule(f, i) == IF i = 0 THEN Started ELSE Captured(f[i - 1], captures[i])
           S == {n \in Nat : \E f : \A i \in 0..n : f[i] = Rule(f, i)}
<1>1. 0 \in S
  <2> DEFINE f == [i \in 0..0 |-> Started]
  <2>1. \A i \in 0..0 : f[i] = Rule(f, i)
    OBVIOUS
  <2> QED
    BY <2>1
<1>2. ASSUME NEW n \in Nat, n \in S PROVE n + 1 \in S
  <2>1. PICK f : \A i \in 0..n : f[i] = Rule(f, i)
    BY <1>2
  <2> DEFINE g == [i \in 0..n + 1 |-> IF i <= n THEN f[i] ELSE Captured(f[n], captures[n + 1])]
  <2>2. ASSUME NEW i \in 0..n + 1 PROVE g[i] = Rule(g, i)
    <3>1. CASE i = 0
      BY <2>1, <3>1
    <3>2. CASE i # 0 /\ i <= n
      <4>1. i \in 0..n /\ i - 1 \in 0..n + 1 /\ i - 1 <= n
        BY <3>2
      <4>2. g[i] = f[i] /\ g[i - 1] = f[i - 1]
        BY <3>2, <4>1
      <4>3. f[i] = Captured(f[i - 1], captures[i])
        BY <2>1, <3>2, <4>1
      <4> HIDE DEF g
      <4> QED
        BY <3>2, <4>2, <4>3
    <3>3. CASE i = n + 1
      <4>1. g[i - 1] = f[n] /\ g[i] = Captured(f[n], captures[i])
        BY <3>3
      <4> HIDE DEF g
      <4> QED
        BY <3>3, <4>1
    <3> QED
      BY <3>1, <3>2, <3>3
  <2> HIDE DEF g
  <2> QED
    BY <2>2
<1> HIDE DEF S
<1>3. Len(captures) \in S
  BY <1>1, <1>2, NatSetInduction
<1>4. PICK f : \A i \in 0..Len(captures) : f[i] = Rule(f, i)
  BY <1>3 DEF S
<1> DEFINE h == [i \in 0..Len(captures) |-> f[i]]
           N == Len(captures)
<1>5. \A i \in 0..N : h[i] = f[i]
  OBVIOUS
<1>6. \A i \in 0..N : i # 0 => i - 1 \in 0..N
  OBVIOUS
<1>7. h = [i \in 0..N |-> h[i]]
  OBVIOUS
<1> HIDE DEF h, N
<1>8. \A i \in 0..N : h[i] = IF i = 0 THEN Started ELSE Captured(h[i - 1], captures[i])
  BY <1>4, <1>5, <1>6 DEF N
<1>9. h = [i \in 0..N |-> IF i = 0 THEN Started ELSE Captured(h[i - 1], captures[i])]
  BY <1>7, <1>8, Zenon
<1> DEFINE a == CHOOSE a : a = [i \in 0..N |-> IF i = 0 THEN Started
                                               ELSE Captured(a[i - 1], captures[i])]
<1>10. a = [i \in 0..N |-> IF i = 0 THEN Started ELSE Captured(a[i - 1], captures[i])]
  BY <1>9, Zenon
<1>11. Opened(captures) = a[N]
  BY Zenon DEF Opened, Started, N
<1> HIDE DEF a
<1>12. \A i \in 0..N : a[i] = IF i = 0 THEN Started ELSE Captured(a[i - 1], captures[i])
  BY <1>10, Zenon
<1>13. After(a, captures)
  BY <1>12 DEF After, N
<1> QED
  BY <1>11, <1>13 DEF N

\* After k captures of the instruction: other upvalues are as they were, each
\* new one is open on a register, and the closure has those it names.
Kept(o) == \A c \in Cells : cells[c].state # "free" =>
  /\ o.cells[c].state = cells[c].state /\ o.cells[c].thread = cells[c].thread
  /\ o.cells[c].slot = cells[c].slot /\ o.cells[c].value = cells[c].value
New(o, c) == cells[c].state = "free" /\ o.cells[c].state # "free"
OnRegister(o, c, r) == c \in OpenOf(o.cells, Thread) /\ o.cells[c].slot = SlotOf(r)
Named(o, source, c) == IF source[1] = "upvalue" THEN c = Frame.up[source[2]]
                       ELSE c \in Cells /\ OnRegister(o, c, source[2])
Behind(o, captures, k) ==
  /\ o \in Progress /\ Len(o.refs) = k
  /\ Typed(o.cells) /\ Lists(o.cells, [head EXCEPT ![Thread] = o.head])
  /\ Kept(o)
  /\ \A c \in Cells : New(o, c) =>
       o.cells[c].value = Nil /\ \E r \in 1..Frame.count : OnRegister(o, c, r)
  /\ \A i \in 1..k : Named(o, captures[i], o.refs[i])
  /\ Room <= Cardinality(Free(o.cells)) + k

\* An upvalue the closure runs with, or a register.
LEMMA SourceFields ==
  ASSUME NEW source \in Sources
  PROVE  \/ source[1] = "upvalue" /\ source[2] \in DOMAIN Frame.up
         \/ source[1] # "upvalue" /\ source[2] \in 1..Frame.count
<1>1. CASE \E r \in 1..Frame.count : source = <<"local", r>>
  BY <1>1
<1>2. CASE \E i \in DOMAIN Frame.up : source = <<"upvalue", i>>
  BY <1>2
<1> QED
  BY <1>1, <1>2 DEF Sources

\* The upvalues the running frame has.
LEMMA RunningUpvalue ==
  ASSUME UInv, Depth > 0, NEW i \in DOMAIN Frame.up
  PROVE  Frame.up[i] \in Cells /\ Frame.up[i] \in Held /\ cells[Frame.up[i]].state # "free"
<1>1. TypeOK
  BY DEF UInv
<1>2. Depth \in DOMAIN frames /\ Frame = frames[Depth] /\ frames[Depth].up \in Tuples
  BY <1>1, RunningFrame, FrameFields
<1>3. Frame.up \in Tuples
  BY <1>2
<1>4. Frame.up[i] \in Members(frames[Depth].up)
  BY <1>2 DEF Members
<1>5. Frame.up[i] \in Held
  BY <1>2, <1>4, HeldBy
<1>6. Frame.up[i] \in Cells
  BY <1>3, TupleFields
<1> QED
  BY <1>5, <1>6 DEF UInv, HeldAllocated

\* Nothing is captured yet.
LEMMA NothingCaptured ==
  ASSUME UInv, Depth > 0, NEW captures
  PROVE  Behind(Started, captures, 0)
<1>1. TypeOK /\ Thread \in Threads /\ head \in [Threads -> Ref] /\ cells \in [Cells -> Cell]
  BY RunningFrame, FrameFields DEF UInv, TypeOK, Typed
<1>2. /\ Started.cells = cells /\ Started.head = head[Thread] /\ Started.refs = <<>>
      /\ Started \in Progress /\ Len(Started.refs) = 0
  BY <1>1 DEF Started, Progress
<1>3. [head EXCEPT ![Thread] = Started.head] = head
  BY <1>1, <1>2
<1>4. Typed(Started.cells) /\ Lists(Started.cells, [head EXCEPT ![Thread] = Started.head])
  BY <1>2, <1>3 DEF UInv
<1>5. Free(cells) \in SUBSET Cells /\ IsFiniteSet(Cells)
  BY UpvaluesAssumption DEF UpvaluesAssumption, Free
<1>6. Cardinality(Free(cells)) \in Nat
  BY <1>5, FS_Subset, FS_CardinalityType
<1>7. Room <= Cardinality(Free(Started.cells)) + 0
  BY <1>2, <1>6 DEF Room, Free
<1>8. Kept(Started) /\ \A c \in Cells : ~New(Started, c)
  BY <1>2 DEF Kept, New
<1> QED
  BY <1>2, <1>4, <1>7, <1>8 DEF Behind

\* An upvalue that is passed on.
LEMMA UpvaluePassedOn ==
  ASSUME UInv, Depth > 0, NEW captures, NEW k \in Nat, NEW o, Behind(o, captures, k),
         captures[k + 1][1] = "upvalue", captures[k + 1][2] \in DOMAIN Frame.up
  PROVE  Behind(Captured(o, captures[k + 1]), captures, k + 1)
<1> DEFINE x == Frame.up[captures[k + 1][2]]
           p == Captured(o, captures[k + 1])
<1>1. x \in Cells
  BY RunningUpvalue
<1>2. p = [o EXCEPT !.refs = Append(@, x)]
  BY DEF Captured
<1> HIDE DEF x, p
<1>3. /\ p \in Progress /\ p.cells = o.cells /\ p.head = o.head /\ p.refs = Append(o.refs, x)
  <2>1. o \in Progress
    BY DEF Behind
  <2>2. p = [cells |-> o.cells, head |-> o.head, refs |-> Append(o.refs, x)]
    BY <1>2, <2>1 DEF Progress
  <2>3. Append(o.refs, x) \in Seq(Cells)
    BY <1>1, <2>1 DEF Progress
  <2> QED
    BY <2>1, <2>2, <2>3 DEF Progress
<1>4. /\ o.refs \in Seq(Cells) /\ Len(o.refs) = k
      /\ Len(p.refs) = k + 1 /\ p.refs[k + 1] = x /\ \A i \in 1..k : p.refs[i] = o.refs[i]
  BY <1>1, <1>3 DEF Behind, Progress
<1>5. \A i \in 1..k + 1 : Named(p, captures[i], p.refs[i])
  <2>1. Named(p, captures[k + 1], x)
    BY DEF Named, x
  <2>2. \A i \in 1..k : Named(p, captures[i], p.refs[i])
    BY <1>3, <1>4 DEF Behind, Named, OnRegister
  <2> QED
    BY <1>4, <2>1, <2>2
<1>6. Room <= Cardinality(Free(p.cells)) + (k + 1)
  <2>1. Free(o.cells) \in SUBSET Cells /\ IsFiniteSet(Cells)
    BY UpvaluesAssumption DEF UpvaluesAssumption, Free
  <2>2. Cardinality(Free(o.cells)) \in Nat
    BY <2>1, FS_Subset, FS_CardinalityType
  <2>3. {c \in Cells : cells[c].state = "free"} \in SUBSET Cells
    OBVIOUS
  <2>4. Room \in Nat
    BY <2>1, <2>3, FS_Subset, FS_CardinalityType DEF Room
  <2> QED
    BY <1>3, <2>2, <2>4 DEF Behind
<1>7. Kept(p) /\ \A c \in Cells : New(p, c) =>
        p.cells[c].value = Nil /\ \E r \in 1..Frame.count : OnRegister(p, c, r)
  BY <1>3 DEF Behind, Kept, New, OnRegister
<1>8. Typed(p.cells) /\ Lists(p.cells, [head EXCEPT ![Thread] = p.head])
  BY <1>3 DEF Behind
<1>9. Behind(p, captures, k + 1)
  BY <1>3, <1>4, <1>5, <1>6, <1>7, <1>8 DEF Behind
<1> QED
  BY <1>9 DEF p

\* A register that is captured.
LEMMA RegisterCaptured ==
  ASSUME UInv, Depth > 0, NEW captures, NEW k \in Nat, NEW o, Behind(o, captures, k),
         k < Room, captures[k + 1][1] # "upvalue", captures[k + 1][2] \in 1..Frame.count
  PROVE  Behind(Captured(o, captures[k + 1]), captures, k + 1)
<1> DEFINE r == captures[k + 1][2]
           s == SlotOf(r)
           p == Captured(o, captures[k + 1])
<1>1. /\ TypeOK /\ Thread \in Threads /\ s \in Nat /\ head \in [Threads -> Ref]
  BY RegisterSlot DEF UInv, TypeOK
<1>2. /\ o \in Progress /\ Typed(o.cells) /\ o.cells \in [Cells -> Cell]
      /\ o.refs \in Seq(Cells) /\ Len(o.refs) = k
      /\ Lists(o.cells, [head EXCEPT ![Thread] = o.head])
  BY DEF Behind, Progress
<1>3. Descends(o.cells)
  <2> DEFINE hd == [head EXCEPT ![Thread] = o.head]
  <2>1. Lists(o.cells, hd)
    BY <1>2
  <2> HIDE DEF hd
  <2> QED
    BY <1>2, <2>1, LinksDescend
<1>4. /\ List(o.cells, Thread, o.head)
      /\ \A t \in Threads : t # Thread => List(o.cells, t, head[t])
  <2>1. \A t \in Threads : List(o.cells, t, [head EXCEPT ![Thread] = o.head][t])
    BY <1>2 DEF Lists
  <2>2. /\ [head EXCEPT ![Thread] = o.head][Thread] = o.head
        /\ \A t \in Threads : t # Thread => [head EXCEPT ![Thread] = o.head][t] = head[t]
    BY <1>1
  <2> QED
    BY <1>1, <2>1, <2>2
<1>5. /\ Free(o.cells) \in SUBSET Cells /\ IsFiniteSet(Free(o.cells))
      /\ Cardinality(Free(o.cells)) \in Nat /\ Room \in Nat
  <2>1. Free(o.cells) \in SUBSET Cells /\ IsFiniteSet(Cells)
    BY UpvaluesAssumption DEF UpvaluesAssumption, Free
  <2>2. {c \in Cells : cells[c].state = "free"} \in SUBSET Cells
    OBVIOUS
  <2> QED
    BY <2>1, <2>2, FS_Subset, FS_CardinalityType DEF Room
<1>6. Free(o.cells) # {}
  <2>1. Room <= Cardinality(Free(o.cells)) + k
    BY DEF Behind
  <2>2. Cardinality(Free(o.cells)) # 0
    BY <1>5, <2>1
  <2> QED
    BY <1>5, <2>2, FS_EmptySet
<1>7. p = FindOrCreateOpen(o, s)
  BY DEF Captured
<1> HIDE DEF r, s, p
<1>8. PICK x \in Cells : Provided(o, p, s, x)
  BY <1>1, <1>2, <1>3, <1>4, <1>6, <1>7, FindOrCreateProvides
<1>9. /\ p \in Progress /\ p.refs = Append(o.refs, x) /\ Typed(p.cells)
      /\ List(p.cells, Thread, p.head)
      /\ \A u, g : u # Thread /\ List(o.cells, u, g) => List(p.cells, u, g)
      /\ x \in OpenOf(p.cells, Thread) /\ p.cells[x].slot = s /\ p.cells[x].state = "open"
      /\ o.cells[x].state = "free" => p.cells[x].value = Nil
  BY <1>8 DEF Provided, OpenOf
<1>10. \A c \in Cells : c # x \/ o.cells[c].state # "free" =>
         /\ p.cells[c].state = o.cells[c].state /\ p.cells[c].thread = o.cells[c].thread
         /\ p.cells[c].slot = o.cells[c].slot /\ p.cells[c].value = o.cells[c].value
  BY <1>8 DEF Provided
<1>11. Lists(p.cells, [head EXCEPT ![Thread] = p.head])
  <2>1. /\ [head EXCEPT ![Thread] = p.head][Thread] = p.head
        /\ \A t \in Threads : t # Thread => [head EXCEPT ![Thread] = p.head][t] = head[t]
    BY <1>1
  <2>2. \A t \in Threads : t # Thread => List(p.cells, t, head[t])
    BY <1>4, <1>9
  <2> QED
    BY <1>9, <2>1, <2>2 DEF Lists
<1>12. Len(p.refs) = k + 1 /\ p.refs[k + 1] = x /\ \A i \in 1..k : p.refs[i] = o.refs[i]
  BY <1>2, <1>9
<1>13. Kept(p)
  BY <1>10 DEF Behind, Kept
<1>14. \A c, q : OnRegister(o, c, q) => OnRegister(p, c, q)
  BY <1>10 DEF OnRegister, OpenOf
<1>15. ASSUME NEW c \in Cells, New(p, c)
       PROVE  p.cells[c].value = Nil /\ \E q \in 1..Frame.count : OnRegister(p, c, q)
  <2>1. CASE o.cells[c].state # "free"
    <3>1. o.cells[c].value = Nil /\ \E q \in 1..Frame.count : OnRegister(o, c, q)
      BY <1>15, <2>1 DEF Behind, New
    <3> QED
      BY <1>10, <1>14, <2>1, <3>1
  <2>2. CASE o.cells[c].state = "free"
    <3>1. c = x
      BY <1>10, <1>15, <2>2 DEF New
    <3>2. p.cells[c].value = Nil /\ OnRegister(p, c, r)
      BY <1>9, <2>2, <3>1 DEF OnRegister, s
    <3> QED
      BY <3>2 DEF r
  <2> QED
    BY <2>1, <2>2
<1>16. \A i \in 1..k + 1 : Named(p, captures[i], p.refs[i])
  <2>1. Named(p, captures[k + 1], x)
    BY <1>9 DEF Named, OnRegister, s, r
  <2>2. \A i \in 1..k : Named(p, captures[i], p.refs[i])
    BY <1>12, <1>14 DEF Behind, Named
  <2> QED
    BY <1>12, <2>1, <2>2
<1>17. Room <= Cardinality(Free(p.cells)) + (k + 1)
  <2>1. Free(p.cells) \in SUBSET Cells /\ IsFiniteSet(Cells)
    BY UpvaluesAssumption DEF UpvaluesAssumption, Free
  <2>2. IsFiniteSet(Free(p.cells)) /\ Cardinality(Free(p.cells)) \in Nat
    BY <2>1, FS_Subset, FS_CardinalityType
  <2> DEFINE S == Free(p.cells) \cup {x}
  <2>3. IsFiniteSet(S) /\ Cardinality(S) \in Nat /\ Cardinality(S) <= Cardinality(Free(p.cells)) + 1
    <3>1. /\ IsFiniteSet(S)
          /\ Cardinality(S) = IF x \in Free(p.cells) THEN Cardinality(Free(p.cells))
                              ELSE Cardinality(Free(p.cells)) + 1
      BY <2>2, FS_AddElement
    <3> HIDE DEF S
    <3> QED
      BY <2>2, <3>1
  <2>4. Free(o.cells) \in SUBSET S
    BY <1>10 DEF Free
  <2> HIDE DEF S
  <2>5. Cardinality(Free(o.cells)) <= Cardinality(S)
    BY <2>3, <2>4, FS_Subset
  <2>6. Room <= Cardinality(Free(o.cells)) + k
    BY DEF Behind
  <2> QED
    BY <1>5, <2>2, <2>3, <2>5, <2>6
<1>18. Behind(p, captures, k + 1)
  BY <1>9, <1>11, <1>12, <1>13, <1>15, <1>16, <1>17 DEF Behind
<1> QED
  BY <1>18 DEF p

\* What a CLOSURE instruction leaves behind: there is room for all it captures.
LEMMA CapturesMade ==
  ASSUME UInv, Depth > 0, NEW n \in Nat, NEW captures \in [1..n -> Sources], n <= Room
  PROVE  Len(captures) = n /\ Behind(Opened(captures), captures, n)
<1>1. Len(captures) = n
  BY SMT
<1>2. PICK f : After(f, captures) /\ Opened(captures) = f[n]
  BY <1>1, OpenedIs
<1> DEFINE S == {k \in Nat : k <= n => Behind(f[k], captures, k)}
<1>3. 0 \in S
  <2>1. f[0] = Started
    BY <1>1, <1>2 DEF After
  <2> QED
    BY <2>1, NothingCaptured
<1>4. ASSUME NEW k \in Nat, k \in S PROVE k + 1 \in S
  <2> SUFFICES ASSUME k + 1 <= n PROVE Behind(f[k + 1], captures, k + 1)
    OBVIOUS
  <2>1. Behind(f[k], captures, k)
    BY <1>4
  <2>2. f[k + 1] = Captured(f[k], captures[k + 1])
    <3>1. k + 1 \in 0..n /\ k + 1 # 0 /\ (k + 1) - 1 = k
      OBVIOUS
    <3> QED
      BY <1>1, <1>2, <3>1 DEF After
  <2>3. captures[k + 1] \in Sources
    <3>1. k + 1 \in 1..n
      OBVIOUS
    <3> QED
      BY <3>1
  <2>4. Room \in Nat
    <3>1. {c \in Cells : cells[c].state = "free"} \in SUBSET Cells /\ IsFiniteSet(Cells)
      BY UpvaluesAssumption DEF UpvaluesAssumption
    <3> QED
      BY <3>1, FS_Subset, FS_CardinalityType DEF Room
  <2>5. k < Room
    BY <2>4
  <2>6. CASE captures[k + 1][1] = "upvalue" /\ captures[k + 1][2] \in DOMAIN Frame.up
    BY <2>1, <2>2, <2>6, UpvaluePassedOn
  <2>7. CASE captures[k + 1][1] # "upvalue" /\ captures[k + 1][2] \in 1..Frame.count
    BY <2>1, <2>2, <2>5, <2>7, RegisterCaptured
  <2> QED
    BY <2>3, <2>6, <2>7, SourceFields
<1> HIDE DEF S
<1>5. n \in S
  BY <1>3, <1>4, NatSetInduction
<1> QED
  BY <1>1, <1>2, <1>5 DEF S

\* The upvalues of a new closure: open ones, or ones the frame runs with.
LEMMA RefsAllocated ==
  ASSUME UInv, Depth > 0, NEW n \in Nat, NEW captures \in [1..n -> Sources],
         NEW o, Behind(o, captures, n), NEW i \in 1..n
  PROVE  o.refs[i] \in Cells /\ o.cells[o.refs[i]].state # "free"
<1>1. captures[i] \in Sources /\ Named(o, captures[i], o.refs[i])
  BY DEF Behind
<1>2. CASE captures[i][1] = "upvalue" /\ captures[i][2] \in DOMAIN Frame.up
  <2>1. o.refs[i] = Frame.up[captures[i][2]]
    BY <1>1, <1>2 DEF Named
  <2>2. o.refs[i] \in Cells /\ cells[o.refs[i]].state # "free"
    BY <1>2, <2>1, RunningUpvalue
  <2> QED
    BY <2>2 DEF Behind, Kept
<1>3. CASE captures[i][1] # "upvalue" /\ captures[i][2] \in 1..Frame.count
  BY <1>1, <1>3 DEF Named, OnRegister, OpenOf
<1> QED
  BY <1>1, <1>2, <1>3, SourceFields

\* A closure is made, or fails after its upvalues were opened (createClosure).
LEMMA CaptureKeeps ==
  ASSUME UInv, Depth > 0, NEW n \in Nat, NEW captures \in [1..n -> Sources], Capture(captures),
         \/ closures' = closures
         \/ n \in Captures /\ closures' = closures \cup {Opened(captures).refs}
  PROVE  UInv'
<1> DEFINE o == Opened(captures)
<1>1. Len(captures) = n
  BY SMT
<1>2. /\ n <= Room /\ cells' = o.cells /\ head' = [head EXCEPT ![Thread] = o.head]
      /\ UNCHANGED <<stack, frames>>
  BY <1>1 DEF Capture
<1>3. Behind(o, captures, n)
  BY <1>2, CapturesMade
<1>4. closures' = closures \/ (n \in Captures /\ closures' = closures \cup {o.refs})
  OBVIOUS
<1> HIDE DEF o
<1>5. TypeOK /\ Thread \in Threads
  BY RunningFrame, FrameFields DEF UInv
<1>6. /\ o \in Progress /\ Len(o.refs) = n /\ Typed(cells') /\ Lists(cells', head')
      /\ cells' \in [Cells -> Cell]
  BY <1>2, <1>3 DEF Behind, Progress
<1>7. TypeOK'
  <2>1. StackOK' /\ FramesOK'
    BY <1>2, <1>5, TypesSplit DEF StackOK, FramesOK, End, FrameType, Tuples, Content
  <2>2. head' \in [Threads -> Ref]
    BY <1>2, <1>5, <1>6 DEF Progress, TypeOK
  <2>3. n \in Captures => o.refs \in Tuples
    <3>1. o.refs \in [1..n -> Cells]
      BY <1>6 DEF Progress
    <3> QED
      BY <3>1 DEF Tuples
  <2>4. closures' \subseteq Tuples
    BY <1>4, <1>5, <2>3 DEF TypeOK
  <2> QED
    BY <1>6, <2>1, <2>2, <2>4, TypesSplitNext
<1>8. OpenInWindow'
  <2> SUFFICES ASSUME NEW c \in Cells, cells'[c].state = "open"
               PROVE  \E i \in DOMAIN frames :
                        /\ frames[i].thread = cells'[c].thread
                        /\ frames[i].base < cells'[c].slot
                        /\ cells'[c].slot <= frames[i].base + frames[i].count
    BY <1>2 DEF OpenInWindow, Open
  <2>1. CASE cells[c].state # "free"
    <3>1. /\ cells[c].state = "open" /\ cells'[c].thread = cells[c].thread
          /\ cells'[c].slot = cells[c].slot
      BY <1>2, <1>3, <2>1 DEF Behind, Kept
    <3> QED
      BY <3>1 DEF UInv, OpenInWindow, Open
  <2>2. CASE cells[c].state = "free"
    <3>1. PICK r \in 1..Frame.count : OnRegister(o, c, r)
      BY <1>2, <1>3, <2>2 DEF Behind, New
    <3>2. cells'[c].thread = Thread /\ cells'[c].slot = SlotOf(r)
      BY <1>2, <3>1 DEF OnRegister, OpenOf
    <3>3. Frame.base < SlotOf(r) /\ SlotOf(r) <= Frame.base + Frame.count
      BY <1>5, RegisterSlot
    <3>4. Depth \in DOMAIN frames /\ Frame = frames[Depth] /\ Thread = frames[Depth].thread
      BY <1>5, RunningFrame
    <3> QED
      BY <3>2, <3>3, <3>4
  <2> QED
    BY <2>1, <2>2
<1>9. WindowsApart'
  BY <1>2 DEF UInv, WindowsApart, End
<1>10. HeldAllocated'
  <2> DEFINE S == {c \in Cells : cells'[c].state # "free"}
  <2>1. Held \subseteq S
    BY <1>2, <1>3, <1>5, HeldCells DEF Behind, Kept, UInv, HeldAllocated
  <2>2. Members(o.refs) \subseteq S
    <3>1. \A i \in 1..n : o.refs[i] \in S
      BY <1>2, <1>3, RefsAllocated
    <3>2. DOMAIN o.refs = 1..n
      BY <1>6 DEF Progress
    <3> QED
      BY <3>1, <3>2 DEF Members
  <2> HIDE DEF S
  <2>3. \A u \in closures' : Members(u) \subseteq S
    <3>1. \A u \in closures : Members(u) \subseteq S
      BY <2>1, HeldBy
    <3> QED
      BY <1>4, <2>2, <3>1
  <2>4. \A i \in DOMAIN frames' : Members(frames'[i].up) \subseteq S
    BY <1>2, <2>1, HeldBy
  <2>5. Held' \subseteq S
    BY <2>3, <2>4, HeldFrom
  <2> QED
    BY <2>5 DEF HeldAllocated, S
<1> QED
  BY <1>6, <1>7, <1>8, <1>9, <1>10 DEF UInv

-----------------------------------------------------------------------------
(* Every step                                                              *)

\* No frames and no upvalues.
LEMMA InitHolds == Init => UInv
<1> SUFFICES ASSUME Init PROVE UInv
  OBVIOUS
<1>1. /\ frames = <<>> /\ DOMAIN frames = {} /\ closures = {}
      /\ head = [t \in Threads |-> None] /\ cells = [c \in Cells |-> Blank]
      /\ stack = [t \in Threads |-> [s \in 1..Slots[t] |-> Nil]]
  BY DEF Init
<1>2. /\ Blank \in Cell /\ Blank.state = "free" /\ Blank.next = None /\ Blank.prev = None
  BY DEF Blank, Cell, Content, Ref
<1>3. cells \in [Cells -> Cell] /\ \A c \in Cells : cells[c] = Blank
  BY <1>1, <1>2
<1>4. StackOK
  <2>1. \A t \in Threads : Slots[t] \in Nat
    BY UpvaluesAssumption DEF UpvaluesAssumption
  <2>2. \A t \in Threads : /\ stack[t] = [s \in 1..Slots[t] |-> Nil]
                           /\ stack[t] \in Seq(Content) /\ Len(stack[t]) = Slots[t]
    BY <1>1, <2>1 DEF Content
  <2>3. stack = [t \in Threads |-> stack[t]]
    BY <1>1
  <2> QED
    BY <2>2, <2>3 DEF StackOK
<1>5. FramesOK /\ head \in [Threads -> Ref] /\ closures \subseteq Tuples
  BY <1>1 DEF FramesOK, Ref
<1>6. TypeOK
  BY <1>3, <1>4, <1>5, TypesSplit
<1>7. Typed(cells)
  BY <1>2, <1>3 DEF Typed
<1>8. Lists(cells, head)
  <2>1. \A t \in Threads : OpenOf(cells, t) = {} /\ head[t] = None
    BY <1>1, <1>2, <1>3 DEF OpenOf
  <2> QED
    BY <2>1 DEF Lists, List
<1>9. OpenInWindow /\ WindowsApart
  BY <1>1, <1>2, <1>3 DEF OpenInWindow, Open, WindowsApart
<1>10. HeldAllocated
  BY <1>1 DEF HeldAllocated, Held
<1> QED
  BY <1>6, <1>7, <1>8, <1>9, <1>10 DEF UInv

\* The extra arguments are behind the registers.
LEMMA ExtraSlot ==
  ASSUME TypeOK, Depth > 0, NEW x \in 1..Frame.extra
  PROVE  stack[Thread][SlotOf(Frame.count + x)] \in Content
<1>1. /\ Depth \in DOMAIN frames /\ Frame = frames[Depth] /\ Thread = frames[Depth].thread
  BY RunningFrame
<1>2. /\ Thread \in Threads /\ Frame.base \in Nat /\ Frame.count \in Nat /\ Frame.extra \in Nat
      /\ End(Frame) <= Slots[Thread] /\ Slots[Thread] \in Nat
  BY <1>1, FrameFields
<1>3. SlotOf(Frame.count + x) \in 1..Slots[Thread]
  BY <1>2 DEF SlotOf, End
<1> QED
  BY <1>2, <1>3, SlotFields

\* The instructions that call nothing.
LEMMA InstructionKeeps == UInv /\ Instruction => UInv'
<1> SUFFICES ASSUME UInv, Instruction PROVE UInv'
  OBVIOUS
<1>1. Depth > 0 /\ TypeOK
  BY DEF Instruction, UInv
<1>2. ASSUME NEW r \in 1..Frame.count, NEW i \in DOMAIN Frame.up, GetUpvalue(r, i) PROVE UInv'
  <2>1. Get(Frame.up[i]) \in Content
    BY <1>1, RunningUpvalue, GetContent
  <2> QED
    BY <1>1, <1>2, <2>1, SetRegisterKeeps DEF GetUpvalue
<1>3. ASSUME NEW r \in 1..Frame.count, NEW i \in DOMAIN Frame.up, SetUpvalue(r, i) PROVE UInv'
  BY <1>1, <1>3, SetUpvalueKeeps
<1>4. ASSUME NEW n \in Captures \ {0}, NEW captures \in [1..n -> Sources], Closure(captures)
      PROVE  UInv'
  <2>1. n \in Nat
    BY UpvaluesAssumption DEF UpvaluesAssumption
  <2> QED
    BY <1>1, <1>4, <2>1, CaptureKeeps DEF Closure
<1>5. ASSUME NEW r \in 1..Frame.count, Close(r) PROVE UInv'
  BY <1>1, <1>5, CloseKeeps
<1> QED
  BY <1>2, <1>3, <1>4, <1>5 DEF Instruction

\* Every step keeps the invariant.
LEMMA NextKeeps == UInv /\ [Next]_vars => UInv'
<1> SUFFICES ASSUME UInv, [Next]_vars PROVE UInv'
  OBVIOUS
<1>1. TypeOK
  BY DEF UInv
<1>2. CASE Move
  <2>1. PICK r \in 1..Frame.count, v \in Values : Depth > 0 /\ SetRegister(r, v)
    BY <1>2 DEF Move
  <2> QED
    BY <2>1, SetRegisterKeeps DEF Content
<1>3. CASE Vararg
  <2>1. PICK r \in 1..Frame.count, x \in 1..Frame.extra :
          Depth > 0 /\ SetRegister(r, stack[Thread][SlotOf(Frame.count + x)])
    BY <1>3 DEF Vararg
  <2> QED
    BY <1>1, <2>1, ExtraSlot, SetRegisterKeeps
<1>4. CASE ClosureFails
  <2>1. PICK r \in 1..Frame.count :
          Depth > 0 /\ Capture(<<<<"local", r>>>>) /\ UNCHANGED closures
    BY <1>4 DEF ClosureFails
  <2>2. <<"local", r>> \in Sources
    BY DEF Sources
  <2>3. <<<<"local", r>>>> \in [1..1 -> Sources]
    BY <2>2
  <2> QED
    BY <2>1, <2>3, CaptureKeeps
<1>5. CASE UNCHANGED vars
  <2>1. TypeOK'
    BY <1>1, <1>5 DEF vars, TypeOK, End, Tuples, Content, Ref
  <2>2. HeldAllocated'
    BY <1>5 DEF UInv, HeldAllocated, Held, Members, vars
  <2> QED
    BY <1>5, <2>1, <2>2
       DEF UInv, vars, Typed, Lists, OpenInWindow, Open, WindowsApart, End
<1> QED
  BY <1>2, <1>3, <1>4, <1>5, CallKeeps, ReturnKeeps, RestoreSnapshotKeeps, InstructionKeeps,
     DropClosureKeeps, CollectKeeps DEF Next

\* The invariant holds of every behaviour.
THEOREM Invariance == Spec => []UInv
<1>1. UInv /\ [Next]_vars => UInv'
  BY NextKeeps
<1> QED
  BY <1>1, InitHolds, PTL DEF Spec

\* Stacks, frames, lists and upvalues are what their types say, and no window
\* reaches behind its thread's stack.
THEOREM TypeCorrect == Spec => []TypeOK
<1>1. UInv => TypeOK
  BY DEF UInv
<1> QED
  BY <1>1, Invariance, PTL

\* The open upvalues of each thread are one list by descending slot that can be
\* walked both ways, whatever is captured, closed and returned in which order.
THEOREM OpenListsSorted == Spec => []OpenListSorted
<1>1. UInv => OpenListSorted
  <2> SUFFICES ASSUME UInv PROVE OpenListSorted
    OBVIOUS
  <2>1. cells \in [Cells -> Cell] /\ \A t \in Threads : List(cells, t, head[t])
    BY DEF UInv, Typed, Lists
  <2>2. ASSUME NEW t \in Threads, head[t] # None
        PROVE  head[t] \in Open /\ cells[head[t]].thread = t
    BY <2>1, <2>2 DEF List, OpenOf, Open
  <2>3. ASSUME NEW c \in Open
        PROVE  /\ cells[c].prev = None <=> head[cells[c].thread] = c
               /\ cells[c].prev # None => /\ cells[c].prev \in Open
                                          /\ cells[cells[c].prev].next = c
               /\ cells[c].next # None =>
                    LET n == cells[cells[c].next] IN
                    /\ n.state = "open" /\ n.thread = cells[c].thread
                    /\ n.slot < cells[c].slot /\ n.prev = c
    <3> DEFINE t == cells[c].thread
               O == OpenOf(cells, t)
    <3>1. c \in Cells /\ cells[c].state = "open" /\ t \in Threads
      BY DEF Open, UInv, Typed
    <3>2. c \in O /\ List(cells, t, head[t])
      BY <2>1, <3>1 DEF OpenOf
    <3>3. \A d \in O : d \in Open /\ d \in Cells /\ cells[d].thread = t /\ cells[d].slot \in Nat
      BY <2>1, CellFields DEF OpenOf, Open
    <3> HIDE DEF O
    <3>4. /\ \A a, b \in O : cells[a].slot = cells[b].slot => a = b
          /\ \A d \in O : cells[d].slot <= cells[head[t]].slot
          /\ head[t] # None => head[t] \in O
          /\ \A a \in O :
               /\ cells[a].next # None => /\ cells[a].next \in O
                                          /\ cells[cells[a].next].slot < cells[a].slot
               /\ \A d \in O : cells[d].slot < cells[a].slot =>
                    cells[a].next # None /\ cells[d].slot <= cells[cells[a].next].slot
               /\ IF cells[a].prev = None THEN head[t] = a
                  ELSE cells[a].prev \in O /\ cells[cells[a].prev].next = a
      BY <3>2 DEF List, O
    <3>5. cells[c].prev # None => head[t] # c
      <4> SUFFICES ASSUME cells[c].prev # None, head[t] = c PROVE FALSE
        OBVIOUS
      <4>1. cells[c].prev \in O /\ cells[cells[c].prev].next = c /\ c # None
        BY <3>1, <3>2, <3>4, UpvaluesAssumption DEF UpvaluesAssumption, None, O
      <4>2. cells[c].slot < cells[cells[c].prev].slot
        BY <3>4, <4>1
      <4>3. cells[cells[c].prev].slot <= cells[c].slot
        BY <3>4, <4>1
      <4> QED
        BY <3>2, <3>3, <4>1, <4>2, <4>3 DEF O
    <3>6. ASSUME cells[c].next # None PROVE cells[cells[c].next].prev = c
      <4> DEFINE n == cells[c].next
                 p == cells[n].prev
      <4>1. n \in O /\ cells[n].slot < cells[c].slot
        BY <3>2, <3>4, <3>6 DEF O
      <4>2. head[t] # n
        <5>1. cells[c].slot <= cells[head[t]].slot
          BY <3>2, <3>4 DEF O
        <5> QED
          BY <3>2, <3>3, <4>1, <5>1 DEF O
      <4>3. p # None /\ p \in O /\ cells[p].next = n /\ cells[n].slot < cells[p].slot
        <5>1. p # None
          BY <3>4, <4>1, <4>2
        <5>2. p \in O /\ cells[p].next = n
          BY <3>4, <4>1, <5>1
        <5>3. n # None
          BY <3>6
        <5> QED
          BY <3>4, <5>1, <5>2, <5>3
      <4>4. ~(cells[p].slot < cells[c].slot)
        <5>1. cells[p].slot < cells[c].slot => cells[p].slot <= cells[n].slot
          BY <3>2, <3>4, <4>3 DEF O
        <5> QED
          BY <3>2, <3>3, <4>1, <4>3, <5>1 DEF O
      <4>5. ~(cells[c].slot < cells[p].slot)
        <5>1. cells[c].slot < cells[p].slot => cells[c].slot <= cells[n].slot
          BY <3>2, <3>4, <4>3 DEF O
        <5> QED
          BY <3>2, <3>3, <4>1, <4>3, <5>1 DEF O
      <4>6. cells[p].slot = cells[c].slot
        BY <3>2, <3>3, <4>3, <4>4, <4>5 DEF O
      <4> QED
        BY <3>2, <3>4, <4>3, <4>6 DEF O
    <3>7. cells[c].next # None => /\ cells[c].next \in O
                                  /\ cells[cells[c].next].slot < cells[c].slot
      BY <3>2, <3>4 DEF O
    <3>8. cells[c].prev = None => head[t] = c
      BY <3>2, <3>4 DEF O
    <3>9. cells[c].prev # None => cells[c].prev \in Open /\ cells[cells[c].prev].next = c
      BY <3>2, <3>3, <3>4 DEF O
    <3> QED
      BY <3>3, <3>5, <3>6, <3>7, <3>8, <3>9 DEF Open
  <2> QED
    BY <2>2, <2>3 DEF OpenListSorted
<1> QED
  BY <1>1, Invariance, PTL

\* An open upvalue is on a register of a frame that is still there, however the
\* frame that declared it ended: by a return, a collapsed call or an error.
THEOREM OpenUpvaluesInWindows == Spec => []OpenInWindow
<1>1. UInv => OpenInWindow
  BY DEF UInv
<1> QED
  BY <1>1, Invariance, PTL

-----------------------------------------------------------------------------
(* The program's variables                                                 *)

\* The open upvalues of a slot, and what the slot holds for the program.
On(cs, t, s) == {c \in {d \in Cells : cs[d].state = "open"} : cs[c].thread = t /\ cs[c].slot = s}
HoldsIn(st, cs, t, s) == IF On(cs, t, s) = {} THEN st[t][s] ELSE CHOOSE c \in On(cs, t, s) : TRUE
RegsIn(st, cs, f) == [r \in 1..f.count |-> HoldsIn(st, cs, f.thread, f.base + r)]
ExtraIn(st, f) == [x \in 1..f.extra |-> st[f.thread][f.base + f.count + x]]
ActivationIn(st, cs, f) ==
  [regs |-> RegsIn(st, cs, f), extra |-> ExtraIn(st, f), up |-> Members(f.up)]
ContentIn(st, cs, c) ==
  IF cs[c].state = "free" THEN Nil
  ELSE IF cs[c].state = "closed" THEN cs[c].value ELSE st[cs[c].thread][cs[c].slot]

\* The abstract state, now and after a step.
LEMMA AbstractState ==
  /\ Activations = [i \in DOMAIN frames |-> ActivationIn(stack, cells, frames[i])]
  /\ Activations' = [i \in DOMAIN frames' |-> ActivationIn(stack', cells', frames'[i])]
  /\ Contents = [c \in Cells |-> ContentIn(stack, cells, c)]
  /\ Contents' = [c \in Cells |-> ContentIn(stack', cells', c)]
  /\ CapturedSets = {Members(u) : u \in closures}
  /\ CapturedSets' = {Members(u) : u \in closures'}
<1>1. Activations = [i \in DOMAIN frames |-> ActivationIn(stack, cells, frames[i])]
  BY Zenon DEF Activations, Activation, Holds, Open, ActivationIn, RegsIn, ExtraIn, HoldsIn, On
<1>2. Activations' = [i \in DOMAIN frames' |-> ActivationIn(stack', cells', frames'[i])]
  BY Zenon DEF Activations, Activation, Holds, Open, ActivationIn, RegsIn, ExtraIn, HoldsIn, On, Members
<1>3. Contents = [c \in Cells |-> ContentIn(stack, cells, c)]
  BY Zenon DEF Contents, Get, ContentIn
<1>4. Contents' = [c \in Cells |-> ContentIn(stack', cells', c)]
  BY Zenon DEF Contents, Get, ContentIn
<1>5. /\ CapturedSets = {Members(u) : u \in closures}
      /\ CapturedSets' = {Members(u) : u \in closures'}
  BY Zenon DEF CapturedSets, Members
<1> QED
  BY <1>1, <1>2, <1>3, <1>4, <1>5

\* An open upvalue is what its slot holds.
LEMMA HoldsUpvalue ==
  ASSUME NEW st, NEW cs, NEW t, NEW h, List(cs, t, h), NEW c \in OpenOf(cs, t)
  PROVE  HoldsIn(st, cs, t, cs[c].slot) = c
<1>1. On(cs, t, cs[c].slot) = {c}
  BY DEF On, OpenOf, List
<1> QED
  BY <1>1 DEF HoldsIn

\* A slot without one holds its value.
LEMMA HoldsValue ==
  ASSUME NEW st, NEW cs, NEW t, NEW s, \A c \in OpenOf(cs, t) : cs[c].slot # s
  PROVE  HoldsIn(st, cs, t, s) = st[t][s]
<1>1. On(cs, t, s) = {}
  BY DEF On, OpenOf
<1> QED
  BY <1>1 DEF HoldsIn

\* A slot on which nothing changed.
LEMMA HoldsSame ==
  ASSUME NEW st, NEW cs, NEW su, NEW ds, NEW t, NEW s,
         \A c \in Cells : (ds[c].state = "open" /\ ds[c].thread = t /\ ds[c].slot = s)
                            <=> (cs[c].state = "open" /\ cs[c].thread = t /\ cs[c].slot = s),
         su[t][s] = st[t][s] \/ \E c \in OpenOf(cs, t) : cs[c].slot = s
  PROVE  HoldsIn(su, ds, t, s) = HoldsIn(st, cs, t, s)
<1>1. \A c : c \in On(ds, t, s) <=> c \in On(cs, t, s)
  BY DEF On
<1>2. On(ds, t, s) = On(cs, t, s)
  BY <1>1 DEF On
<1>3. (\E c \in OpenOf(cs, t) : cs[c].slot = s) => On(cs, t, s) # {}
  BY DEF On, OpenOf
<1> QED
  BY <1>2, <1>3 DEF HoldsIn

\* A window in which nothing changed.
LEMMA ActivationSame ==
  ASSUME TypeOK, NEW st, NEW cs, NEW su, NEW ds, NEW i \in DOMAIN frames,
         \A s \in Nat : frames[i].base < s /\ s <= frames[i].base + frames[i].count =>
           HoldsIn(su, ds, frames[i].thread, s) = HoldsIn(st, cs, frames[i].thread, s),
         \A s \in Nat : frames[i].base + frames[i].count < s /\ s <= End(frames[i]) =>
           su[frames[i].thread][s] = st[frames[i].thread][s]
  PROVE  ActivationIn(su, ds, frames[i]) = ActivationIn(st, cs, frames[i])
<1> DEFINE f == frames[i]
<1>1. f.base \in Nat /\ f.count \in Nat /\ f.extra \in Nat
  BY FrameFields
<1>2. /\ \A s \in Nat : f.base < s /\ s <= f.base + f.count =>
           HoldsIn(su, ds, f.thread, s) = HoldsIn(st, cs, f.thread, s)
      /\ \A s \in Nat : f.base + f.count < s /\ s <= End(f) => su[f.thread][s] = st[f.thread][s]
  OBVIOUS
<1> HIDE DEF f
<1>3. \A r \in 1..f.count : HoldsIn(su, ds, f.thread, f.base + r) = HoldsIn(st, cs, f.thread, f.base + r)
  BY <1>1, <1>2
<1>4. \A x \in 1..f.extra : su[f.thread][f.base + f.count + x] = st[f.thread][f.base + f.count + x]
  BY <1>1, <1>2 DEF End
<1>5. RegsIn(su, ds, f) = RegsIn(st, cs, f)
  BY <1>3, Zenon DEF RegsIn
<1>6. ExtraIn(su, f) = ExtraIn(st, f)
  BY <1>4, Zenon DEF ExtraIn
<1> QED
  BY <1>5, <1>6 DEF ActivationIn, f

IsList(f, n) == f = [i \in 1..n |-> f[i]]

\* A list is a sequence.
LEMMA ListLength ==
  ASSUME NEW n \in Nat, NEW f, IsList(f, n)
  PROVE  Len(f) = n /\ DOMAIN f = 1..n /\ \A S : {f[i] : i \in 1..n} \subseteq S => f \in Seq(S)
<1>1. f \in [1..n -> {f[i] : i \in 1..n}]
  BY Zenon DEF IsList
<1> QED
  BY <1>1

\* With one more.
LEMMA ListAppended ==
  ASSUME NEW n \in Nat, NEW f, IsList(f, n), NEW g, IsList(g, n + 1), \A i \in 1..n : g[i] = f[i]
  PROVE  g = Append(f, g[n + 1]) /\ Len(g) = n + 1 /\ Len(f) = n
<1> DEFINE S == {f[i] : i \in 1..n} \cup {g[n + 1]}
<1>1. f \in Seq(S) /\ Len(f) = n /\ g[n + 1] \in S
  <2>1. {f[i] : i \in 1..n} \subseteq S /\ g[n + 1] \in S
    OBVIOUS
  <2> HIDE DEF S
  <2> QED
    BY <2>1, ListLength
<1>2. Len(g) = n + 1 /\ DOMAIN g = 1..n + 1
  BY ListLength
<1> HIDE DEF S
<1>3. DOMAIN Append(f, g[n + 1]) = 1..n + 1
  BY <1>1
<1>4. ASSUME NEW i \in 1..n + 1 PROVE Append(f, g[n + 1])[i] = g[i]
  <2>1. CASE i \in 1..n
    <3>1. g[i] = f[i] /\ i <= Len(f) /\ i \in Nat
      BY <1>1, <2>1
    <3>2. Append(f, g[n + 1])[i] = f[i]
      BY <1>1, <2>1, <3>1, AppendProperties
    <3> QED
      BY <3>1, <3>2
  <2>2. CASE i = n + 1
    BY <1>1, <2>2
  <2>3. i \in 1..n \/ i = n + 1
    OBVIOUS
  <2> QED
    BY <2>1, <2>2, <2>3
<1>5. Append(f, g[n + 1]) = [i \in 1..n + 1 |-> Append(f, g[n + 1])[i]]
  <2>1. Append(f, g[n + 1]) \in Seq(S)
    BY <1>1
  <2>2. Len(Append(f, g[n + 1])) = n + 1
    BY <1>1
  <2> QED
    BY <2>1, <2>2
<1>6. g = Append(f, g[n + 1])
  BY <1>4, <1>5, Zenon DEF IsList
<1> QED
  BY <1>1, <1>2, <1>6

\* With one less.
LEMMA ListShortened ==
  ASSUME NEW n \in Nat, n > 0, NEW f, IsList(f, n), NEW g, IsList(g, n - 1), \A i \in 1..n - 1 : g[i] = f[i]
  PROVE  g = SubSeq(f, 1, n - 1) /\ Len(f) = n
<1> DEFINE S == {f[i] : i \in 1..n}
           h == SubSeq(f, 1, n - 1)
<1>1. f \in Seq(S) /\ Len(f) = n
  BY ListLength
<1> HIDE DEF S
<1>2. h \in Seq(S) /\ Len(h) = n - 1 /\ \A i \in 1..n - 1 : h[i] = f[i]
  <2>1. n - 1 \in 0..Len(f)
    BY <1>1
  <2> QED
    BY <1>1, <2>1
<1> HIDE DEF h
<1>3. h = [i \in 1..n - 1 |-> h[i]]
  BY <1>2
<1>4. g = h
  BY <1>2, <1>3, Zenon DEF IsList
<1> QED
  BY <1>1, <1>4 DEF h

\* The last activation with other registers.
LEMMA RegistersReplaced ==
  ASSUME NEW n \in Nat, n > 0, NEW f, IsList(f, n), NEW g, IsList(g, n), \A i \in 1..n - 1 : g[i] = f[i],
         NEW a, NEW b, NEW x, NEW u,
         f[n] = [regs |-> a, extra |-> x, up |-> u], g[n] = [regs |-> b, extra |-> x, up |-> u]
  PROVE  g = [f EXCEPT ![n].regs = b]
<1> DEFINE h == [f EXCEPT ![n].regs = b]
<1>1. n \in 1..n /\ DOMAIN f = 1..n
  BY ListLength
<1>2. h = [i \in 1..n |-> h[i]]
  BY <1>1
<1>3. \A i \in 1..n - 1 : h[i] = f[i]
  BY <1>1
<1>4. h[n] = g[n]
  BY <1>1
<1> HIDE DEF h
<1>5. \A i \in 1..n : h[i] = g[i]
  <2>1. \A i \in 1..n : i = n \/ i \in 1..n - 1
    OBVIOUS
  <2> QED
    BY <1>3, <1>4, <2>1
<1>6. h = g
  BY <1>2, <1>5, Zenon DEF IsList
<1> QED
  BY <1>6 DEF h

-----------------------------------------------------------------------------
(* Steps of the running frame on the program's variables                   *)

\* The running activation.
LEMMA RunningActivation ==
  ASSUME TypeOK, Depth > 0
  PROVE  /\ V!Depth = Depth /\ IsList(Activations, Depth) /\ Depth \in DOMAIN frames
         /\ Frame = frames[Depth] /\ DOMAIN frames = 1..Depth /\ Depth \in Nat
         /\ Activations[Depth] = ActivationIn(stack, cells, Frame)
         /\ V!Regs = RegsIn(stack, cells, Frame)
         /\ DOMAIN V!Regs = 1..Frame.count
         /\ \A r \in 1..Frame.count : V!Regs[r] = HoldsIn(stack, cells, Thread, SlotOf(r))
<1>1. /\ Depth \in DOMAIN frames /\ Frame = frames[Depth] /\ Depth \in Nat
      /\ DOMAIN frames = 1..Depth
  BY RunningFrame DEF TypeOK, Depth
<1>2. Activations = [i \in 1..Depth |-> ActivationIn(stack, cells, frames[i])]
  BY <1>1, AbstractState
<1>3. IsList(Activations, Depth) /\ Activations[Depth] = ActivationIn(stack, cells, Frame)
  BY <1>1, <1>2 DEF IsList
<1>4. V!Depth = Depth
  BY <1>1, <1>3, ListLength DEF V!Depth
<1>5. V!Regs = RegsIn(stack, cells, Frame)
  BY <1>3, <1>4 DEF V!Regs, ActivationIn
<1> QED
  BY <1>1, <1>3, <1>4, <1>5 DEF RegsIn, Thread, SlotOf

\* Two activations of a thread have no slot in common.
LEMMA Elsewhere ==
  ASSUME UInv, Depth > 0, NEW i \in DOMAIN frames, i # Depth, frames[i].thread = Thread
  PROVE  End(frames[i]) <= Frame.base
<1>1. TypeOK /\ i \in 1..Depth /\ Depth \in DOMAIN frames /\ Frame = frames[Depth] /\ Depth \in Nat
  BY RunningActivation DEF UInv
<1>2. i < Depth
  BY <1>1
<1> QED
  BY <1>1, <1>2 DEF UInv, WindowsApart, Thread

\* The slot s of the thread t is as before.
SameAt(t, s) ==
  /\ stack'[t][s] = stack[t][s]
  /\ \A c \in Cells : (cells'[c].state = "open" /\ cells'[c].thread = t /\ cells'[c].slot = s)
                        <=> (cells[c].state = "open" /\ cells[c].thread = t /\ cells[c].slot = s)

\* Then the program finds there what it found.
LEMMA SlotSame ==
  ASSUME NEW t, NEW s, SameAt(t, s)
  PROVE  HoldsIn(stack', cells', t, s) = HoldsIn(stack, cells, t, s)
BY HoldsSame DEF SameAt

\* In a whole window.
LEMMA WindowSame ==
  ASSUME TypeOK, NEW i \in DOMAIN frames,
         \A s \in Nat : frames[i].base < s /\ s <= End(frames[i]) => SameAt(frames[i].thread, s)
  PROVE  ActivationIn(stack', cells', frames[i]) = ActivationIn(stack, cells, frames[i])
<1>1. /\ frames[i].base \in Nat /\ frames[i].count \in Nat /\ End(frames[i]) \in Nat
      /\ frames[i].base + frames[i].count <= End(frames[i])
  BY FrameFields
<1>2. \A s \in Nat : frames[i].base < s /\ s <= frames[i].base + frames[i].count =>
        HoldsIn(stack', cells', frames[i].thread, s) = HoldsIn(stack, cells, frames[i].thread, s)
  BY <1>1, SlotSame
<1>3. \A s \in Nat : frames[i].base + frames[i].count < s /\ s <= End(frames[i]) =>
        stack'[frames[i].thread][s] = stack[frames[i].thread][s]
  BY <1>1 DEF SameAt
<1> QED
  BY <1>2, <1>3, ActivationSame

\* What happens in the running window is nothing to the others.
LEMMA OthersSame ==
  ASSUME UInv, Depth > 0,
         \A t \in Threads : \A s \in 1..Slots[t] : t # Thread \/ s <= Frame.base => SameAt(t, s),
         NEW i \in DOMAIN frames, i # Depth
  PROVE  ActivationIn(stack', cells', frames[i]) = ActivationIn(stack, cells, frames[i])
<1> DEFINE t == frames[i].thread
<1>1. /\ TypeOK /\ t \in Threads /\ Slots[t] \in Nat /\ frames[i].base \in Nat
      /\ End(frames[i]) <= Slots[t] /\ End(frames[i]) \in Nat /\ frames[i].count \in Nat
      /\ frames[i].base + frames[i].count <= End(frames[i])
  BY FrameFields DEF UInv
<1>2. Frame.base \in Nat
  BY <1>1, RunningActivation, FrameFields
<1>3. ASSUME NEW s \in Nat, frames[i].base < s, s <= End(frames[i]) PROVE SameAt(t, s)
  <2>1. s \in 1..Slots[t]
    BY <1>1, <1>3
  <2>2. t # Thread \/ s <= Frame.base
    <3>1. t = Thread => End(frames[i]) <= Frame.base
      BY Elsewhere
    <3> HIDE DEF t
    <3> QED
      BY <1>1, <1>2, <1>3, <3>1
  <2> QED
    BY <1>1, <2>1, <2>2
<1> QED
  BY <1>1, <1>3, WindowSame

\* Only registers of the running frame change for the program.
LEMMA RegistersChanged ==
  ASSUME UInv, Depth > 0, frames' = frames,
         \A i \in DOMAIN frames : i # Depth =>
           ActivationIn(stack', cells', frames[i]) = ActivationIn(stack, cells, frames[i]),
         \A x \in 1..Frame.extra : stack'[Thread][Frame.base + Frame.count + x]
                                     = stack[Thread][Frame.base + Frame.count + x]
  PROVE  Activations' = V!WithRegs(RegsIn(stack', cells', Frame))
<1> DEFINE f == Activations
           g == Activations'
           n == Depth
           a == RegsIn(stack, cells, Frame)
           b == RegsIn(stack', cells', Frame)
           x == ExtraIn(stack, Frame)
           u == Members(Frame.up)
<1>1. /\ TypeOK /\ V!Depth = n /\ IsList(f, n) /\ n \in Nat /\ n > 0 /\ DOMAIN frames = 1..n
      /\ Frame = frames[n] /\ n \in DOMAIN frames /\ f[n] = ActivationIn(stack, cells, Frame)
  BY RunningActivation DEF UInv
<1>2. f[n] = [regs |-> a, extra |-> x, up |-> u]
  BY <1>1 DEF ActivationIn
<1>3. g = [i \in 1..n |-> ActivationIn(stack', cells', frames[i])]
  BY <1>1, AbstractState
<1>4. IsList(g, n) /\ g[n] = ActivationIn(stack', cells', Frame)
  BY <1>1, <1>3 DEF IsList
<1>5. ExtraIn(stack', Frame) = x
  BY Zenon DEF ExtraIn, Thread
<1>6. g[n] = [regs |-> b, extra |-> x, up |-> u]
  BY <1>4, <1>5 DEF ActivationIn
<1>7. \A i \in 1..n - 1 : g[i] = f[i]
  <2>1. f = [i \in 1..n |-> ActivationIn(stack, cells, frames[i])]
    BY <1>1, AbstractState
  <2>2. \A i \in 1..n - 1 : i \in 1..n /\ i # n
    BY <1>1
  <2>3. \A i \in 1..n - 1 : ActivationIn(stack', cells', frames[i]) = ActivationIn(stack, cells, frames[i])
    BY <1>1, <2>2
  <2> HIDE DEF f, g, n
  <2> QED
    BY <1>3, <2>1, <2>2, <2>3
<1> HIDE DEF f, g, n, a, b, x, u
<1>8. g = [f EXCEPT ![n].regs = b]
  BY <1>1, <1>2, <1>4, <1>6, <1>7, RegistersReplaced
<1> QED
  BY <1>1, <1>8 DEF V!WithRegs, f, g, b

\* Nothing changes in any window.
LEMMA ActivationsSame ==
  ASSUME frames' = frames,
         \A i \in DOMAIN frames :
           ActivationIn(stack', cells', frames[i]) = ActivationIn(stack, cells, frames[i])
  PROVE  Activations' = Activations
BY AbstractState, Zenon

\* The value of a register, captured or not.
LEMMA RegisterValue ==
  ASSUME UInv, Depth > 0, NEW r \in 1..Frame.count
  PROVE  /\ V!Value(V!Regs[r]) = stack[Thread][SlotOf(r)]
         /\ \A c \in OpenOf(cells, Thread) : cells[c].slot = SlotOf(r) => V!Regs[r] = c
         /\ (\A c \in OpenOf(cells, Thread) : cells[c].slot # SlotOf(r)) =>
              V!Regs[r] = stack[Thread][SlotOf(r)] /\ V!Regs[r] \notin Cells
<1> DEFINE s == SlotOf(r)
<1>1. /\ TypeOK /\ Thread \in Threads /\ stack[Thread][s] \in Content
      /\ V!Regs[r] = HoldsIn(stack, cells, Thread, s)
  BY RunningActivation, RegisterSlot DEF UInv
<1>2. List(cells, Thread, head[Thread]) /\ cells \in [Cells -> Cell]
  BY <1>1 DEF UInv, Lists, Typed
<1>3. Contents = [c \in Cells |-> ContentIn(stack, cells, c)]
  BY AbstractState
<1>4. \A v \in Content : v \notin Cells
  BY UpvaluesAssumption DEF UpvaluesAssumption, Content
<1> HIDE DEF s
<1>5. ASSUME NEW c \in OpenOf(cells, Thread), cells[c].slot = s
      PROVE  V!Regs[r] = c /\ V!Value(V!Regs[r]) = stack[Thread][s]
  <2>1. V!Regs[r] = c
    BY <1>1, <1>2, <1>5, HoldsUpvalue
  <2>2. c \in Cells /\ cells[c].state = "open" /\ cells[c].thread = Thread
    BY DEF OpenOf
  <2>3. Contents[c] = stack[Thread][s]
    BY <1>3, <1>5, <2>2 DEF ContentIn
  <2> QED
    BY <2>1, <2>2, <2>3 DEF V!Value
<1>6. ASSUME \A c \in OpenOf(cells, Thread) : cells[c].slot # s
      PROVE  /\ V!Regs[r] = stack[Thread][s] /\ V!Regs[r] \notin Cells
             /\ V!Value(V!Regs[r]) = stack[Thread][s]
  <2>1. V!Regs[r] = stack[Thread][s]
    BY <1>1, <1>6, HoldsValue
  <2> QED
    BY <1>1, <1>4, <2>1 DEF V!Value
<1> QED
  BY <1>5, <1>6 DEF s

\* Writing a register writes the variable on it (setRegister).
LEMMA SetRegisterMaps ==
  ASSUME UInv, Depth > 0, NEW r \in 1..Frame.count, NEW v \in Content, SetRegister(r, v)
  PROVE  V!SetRegister(r, v)
<1> DEFINE s == SlotOf(r)
<1>1. /\ TypeOK /\ Thread \in Threads /\ s \in 1..Slots[Thread] /\ s \in Nat
      /\ Frame.base < s /\ s <= Frame.base + Frame.count
      /\ Frame.base \in Nat /\ Frame.count \in Nat /\ Frame.extra \in Nat
  BY RegisterSlot DEF UInv
<1>2. /\ frames' = frames /\ cells' = cells /\ closures' = closures
      /\ stack' = [stack EXCEPT ![Thread][s] = v]
  BY DEF SetRegister
<1>3. /\ stack'[Thread][s] = v
      /\ \A u \in Threads : \A x \in 1..Slots[u] : u # Thread \/ x # s => stack'[u][x] = stack[u][x]
  <2>1. Written(Thread, s, v)
    BY <1>2 DEF Written
  <2> HIDE DEF s
  <2> QED
    BY <1>1, <2>1, SlotWritten
<1>4. Depth \in DOMAIN frames /\ Frame = frames[Depth]
  BY <1>1, RunningActivation
<1>5. End(Frame) <= Slots[Thread] /\ Slots[Thread] \in Nat
  BY <1>1, <1>4, FrameFields DEF Thread
<1> HIDE DEF s
<1>6. \A t \in Threads : \A x \in 1..Slots[t] : t # Thread \/ x # s => SameAt(t, x)
  BY <1>2, <1>3 DEF SameAt
<1>7. \A i \in DOMAIN frames : i # Depth =>
        ActivationIn(stack', cells', frames[i]) = ActivationIn(stack, cells, frames[i])
  <2>1. \A t \in Threads : \A x \in 1..Slots[t] : t # Thread \/ x <= Frame.base => SameAt(t, x)
    <3>1. ASSUME NEW t \in Threads, NEW x \in 1..Slots[t], t # Thread \/ x <= Frame.base
          PROVE  SameAt(t, x)
      <4>1. Slots[t] \in Nat
        BY SlotFields, <1>1
      <4>2. x \in Nat
        BY <4>1
      <4>3. t # Thread \/ x # s
        BY <1>1, <3>1, <4>2
      <4> QED
        BY <1>6, <4>3
    <3> QED
      BY <3>1
  <2> QED
    BY <2>1, OthersSame
<1>8. \A x \in 1..Frame.extra : stack'[Thread][Frame.base + Frame.count + x]
                                  = stack[Thread][Frame.base + Frame.count + x]
  <2>1. \A x \in 1..Frame.extra : /\ Frame.base + Frame.count + x \in 1..Slots[Thread]
                                  /\ Frame.base + Frame.count + x # s
    BY <1>1, <1>5 DEF End
  <2> QED
    BY <1>1, <1>3, <2>1
<1>9. CapturedSets' = CapturedSets
  BY <1>2, AbstractState
<1>10. ASSUME NEW c \in Cells, cells[c].state = "open",
              cells[c].thread # Thread \/ cells[c].slot # s
       PROVE  ContentIn(stack', cells', c) = ContentIn(stack, cells, c)
  <2>1. cells[c].thread \in Threads /\ cells[c].slot \in 1..Slots[cells[c].thread]
    BY <1>10, OpenOnStack
  <2>2. stack'[cells[c].thread][cells[c].slot] = stack[cells[c].thread][cells[c].slot]
    BY <1>3, <1>10, <2>1
  <2> QED
    BY <1>2, <2>2 DEF ContentIn
<1>11. ASSUME NEW c \in Cells, cells[c].state # "open"
       PROVE  ContentIn(stack', cells', c) = ContentIn(stack, cells, c)
  <2>1. cells[c].state \in {"free", "closed"}
    BY <1>11, CellFields DEF UInv, Typed
  <2> QED
    BY <1>2, <2>1 DEF ContentIn
<1>12. CASE \E c \in OpenOf(cells, Thread) : cells[c].slot = s
  <2>1. PICK c \in OpenOf(cells, Thread) : cells[c].slot = s
    BY <1>12
  <2>2. V!Regs[r] = c
    BY <2>1, RegisterValue DEF s
  <2>3. c \in Cells /\ cells[c].state = "open" /\ cells[c].thread = Thread
    BY DEF OpenOf
  <2>4. Activations' = Activations
    <3>1. RegsIn(stack', cells', Frame) = RegsIn(stack, cells, Frame)
      <4>1. ASSUME NEW x \in 1..Frame.count
            PROVE  HoldsIn(stack', cells', Thread, Frame.base + x)
                     = HoldsIn(stack, cells, Thread, Frame.base + x)
        <5>1. Frame.base + x \in 1..Slots[Thread]
          BY <1>1, <1>5 DEF End
        <5>2. \/ stack'[Thread][Frame.base + x] = stack[Thread][Frame.base + x]
              \/ \E d \in OpenOf(cells, Thread) : cells[d].slot = Frame.base + x
          BY <1>1, <1>3, <2>1, <5>1
        <5>3. \A d \in Cells :
                (cells'[d].state = "open" /\ cells'[d].thread = Thread /\ cells'[d].slot = Frame.base + x)
                  <=> (cells[d].state = "open" /\ cells[d].thread = Thread
                         /\ cells[d].slot = Frame.base + x)
          BY <1>2
        <5> QED
          BY <5>2, <5>3, HoldsSame
      <4> QED
        BY <4>1, Zenon DEF RegsIn, Thread
    <3>2. ExtraIn(stack', Frame) = ExtraIn(stack, Frame)
      BY <1>8, Zenon DEF ExtraIn, Thread
    <3>3. ActivationIn(stack', cells', frames[Depth]) = ActivationIn(stack, cells, frames[Depth])
      BY <1>4, <3>1, <3>2 DEF ActivationIn
    <3>4. \A i \in DOMAIN frames :
            ActivationIn(stack', cells', frames[i]) = ActivationIn(stack, cells, frames[i])
      BY <1>7, <3>3
    <3> QED
      BY <1>2, <3>4, ActivationsSame
  <2>5. Contents' = [Contents EXCEPT ![c] = v]
    <3>1. Contents = [d \in Cells |-> ContentIn(stack, cells, d)]
          /\ Contents' = [d \in Cells |-> ContentIn(stack', cells', d)]
      BY AbstractState
    <3>2. ContentIn(stack', cells', c) = v
      BY <1>2, <1>3, <2>1, <2>3 DEF ContentIn
    <3>3. ASSUME NEW d \in Cells, d # c
          PROVE  ContentIn(stack', cells', d) = ContentIn(stack, cells, d)
      <4>1. CASE cells[d].state = "open"
        <5>1. List(cells, Thread, head[Thread])
          BY <1>1 DEF UInv, Lists
        <5>2. cells[d].thread # Thread \/ cells[d].slot # s
          BY <2>1, <3>3, <4>1, <5>1 DEF List, OpenOf
        <5> QED
          BY <1>10, <4>1, <5>2
      <4>2. CASE cells[d].state # "open"
        BY <1>11, <4>2
      <4> QED
        BY <4>1, <4>2
    <3> QED
      BY <3>1, <3>2, <3>3
  <2> QED
    BY <1>9, <2>2, <2>3, <2>4, <2>5 DEF V!SetRegister
<1>13. CASE \A c \in OpenOf(cells, Thread) : cells[c].slot # s
  <2>1. V!Regs[r] \notin Cells
    BY <1>13, RegisterValue DEF s
  <2>2. Contents' = Contents
    <3>1. Contents = [d \in Cells |-> ContentIn(stack, cells, d)]
          /\ Contents' = [d \in Cells |-> ContentIn(stack', cells', d)]
      BY AbstractState
    <3>2. ASSUME NEW d \in Cells PROVE ContentIn(stack', cells', d) = ContentIn(stack, cells, d)
      <4>1. CASE cells[d].state = "open"
        <5>1. cells[d].thread # Thread \/ cells[d].slot # s
          BY <1>13, <4>1 DEF OpenOf
        <5> QED
          BY <1>10, <4>1, <5>1
      <4>2. CASE cells[d].state # "open"
        BY <1>11, <4>2
      <4> QED
        BY <4>1, <4>2
    <3> QED
      BY <3>1, <3>2, Zenon
  <2>3. RegsIn(stack', cells', Frame) = [V!Regs EXCEPT ![r] = v]
    <3>1. V!Regs = RegsIn(stack, cells, Frame)
      BY <1>1, RunningActivation
    <3>2. ASSUME NEW x \in 1..Frame.count
          PROVE  HoldsIn(stack', cells', Thread, Frame.base + x)
                   = IF x = r THEN v ELSE HoldsIn(stack, cells, Thread, Frame.base + x)
      <4>1. Frame.base + x \in 1..Slots[Thread]
        BY <1>1, <1>5 DEF End
      <4>2. CASE x = r
        <5>1. \A c \in OpenOf(cells', Thread) : cells'[c].slot # s
          BY <1>2, <1>13 DEF OpenOf
        <5>2. HoldsIn(stack', cells', Thread, s) = stack'[Thread][s]
          BY <5>1, HoldsValue
        <5> QED
          BY <1>3, <4>2, <5>2 DEF s, SlotOf
      <4>3. CASE x # r
        <5>1. Frame.base + x # s
          BY <1>1, <4>3 DEF s, SlotOf
        <5>2. SameAt(Thread, Frame.base + x)
          BY <1>1, <1>6, <4>1, <5>1
        <5> QED
          BY <4>3, <5>2, SlotSame
      <4> QED
        BY <4>2, <4>3
    <3>3. RegsIn(stack', cells', Frame)
            = [x \in 1..Frame.count |->
                 IF x = r THEN v ELSE HoldsIn(stack, cells, Thread, Frame.base + x)]
      BY <3>2, Zenon DEF RegsIn, Thread
    <3>4. V!Regs = [x \in 1..Frame.count |-> HoldsIn(stack, cells, Thread, Frame.base + x)]
      BY <3>1 DEF RegsIn, Thread
    <3> QED
      BY <3>3, <3>4
  <2>4. Activations' = V!WithRegs([V!Regs EXCEPT ![r] = v])
    BY <1>2, <1>7, <1>8, <2>3, RegistersChanged
  <2> QED
    BY <1>9, <2>1, <2>2, <2>4 DEF V!SetRegister
<1> QED
  BY <1>12, <1>13

\* An open upvalue is on a register and not among anyone's extra arguments.
LEMMA OpenNotExtra ==
  ASSUME UInv, NEW c \in Cells, cells[c].state = "open",
         NEW j \in DOMAIN frames, frames[j].thread = cells[c].thread,
         frames[j].base + frames[j].count < cells[c].slot
  PROVE  End(frames[j]) < cells[c].slot
<1>1. TypeOK /\ cells[c].slot \in Nat
  BY CellFields DEF UInv, Typed
<1>2. PICK k \in DOMAIN frames :
        /\ frames[k].thread = cells[c].thread
        /\ frames[k].base < cells[c].slot /\ cells[c].slot <= frames[k].base + frames[k].count
  BY DEF UInv, OpenInWindow, Open
<1>3. /\ j \in Nat /\ k \in Nat
      /\ frames[j].base \in Nat /\ frames[j].count \in Nat /\ End(frames[j]) \in Nat
      /\ frames[k].base \in Nat /\ frames[k].count \in Nat /\ End(frames[k]) \in Nat
      /\ frames[k].base + frames[k].count <= End(frames[k])
  BY <1>1, FrameFields
<1>4. j # k
  BY <1>1, <1>2, <1>3
<1>5. CASE j < k
  <2>1. End(frames[j]) <= frames[k].base
    BY <1>2, <1>5 DEF UInv, WindowsApart
  <2> QED
    BY <1>1, <1>2, <1>3, <2>1
<1>6. CASE k < j
  <2>1. End(frames[k]) <= frames[j].base
    BY <1>2, <1>6 DEF UInv, WindowsApart
  <2> QED
    BY <1>1, <1>2, <1>3, <2>1
<1> QED
  BY <1>3, <1>4, <1>5, <1>6

\* Writing an upvalue writes the variable, wherever it lives (Set).
LEMMA SetUpvalueMaps ==
  ASSUME UInv, Depth > 0, NEW r \in 1..Frame.count, NEW i \in DOMAIN Frame.up, SetUpvalue(r, i)
  PROVE  V!SetUpvalue(Frame.up[i], r)
<1> DEFINE c == Frame.up[i]
           v == stack[Thread][SlotOf(r)]
<1>1. TypeOK /\ cells \in [Cells -> Cell] /\ stack \in [Threads -> Seq(Content)]
  BY DEF UInv, Typed, TypeOK
<1>2. v \in Content /\ V!Value(V!Regs[r]) = v
  BY <1>1, RegisterSlot, RegisterValue
<1>3. c \in Cells /\ cells[c].state # "free"
  BY RunningUpvalue
<1>4. Set(c, v) /\ UNCHANGED <<frames, head, closures>>
  BY DEF SetUpvalue
<1> HIDE DEF c, v
<1>5. CapturedSets' = CapturedSets
  BY <1>4, AbstractState
<1>6. /\ Contents = [d \in Cells |-> ContentIn(stack, cells, d)]
      /\ Contents' = [d \in Cells |-> ContentIn(stack', cells', d)]
  BY AbstractState
<1>7. SUFFICES /\ Activations' = Activations
               /\ ContentIn(stack', cells', c) = v
               /\ \A d \in Cells : d # c => ContentIn(stack', cells', d) = ContentIn(stack, cells, d)
  <2>1. Contents' = [Contents EXCEPT ![c] = v]
    BY <1>3, <1>6, <1>7
  <2> QED
    BY <1>2, <1>5, <1>7, <2>1 DEF V!SetUpvalue, c
<1>8. CASE cells[c].state = "closed"
  <2>1. cells' = [cells EXCEPT ![c].value = v] /\ stack' = stack
    BY <1>4, <1>8 DEF Set
  <2> DEFINE x == [cells[c] EXCEPT !.value = v]
  <2>2. cells[c] \in Cell
    BY <1>1, <1>3
  <2>3. /\ x.state = cells[c].state /\ x.thread = cells[c].thread
        /\ x.slot = cells[c].slot /\ x.value = v
    BY <1>2, <2>2 DEF Cell
  <2>4. cells' = [cells EXCEPT ![c] = x]
    BY <1>1, <1>3, <2>1
  <2> HIDE DEF x
  <2>5. cells'[c] = x /\ \A d \in Cells : d # c => cells'[d] = cells[d]
    BY <1>1, <1>3, <2>4
  <2>6. \A d \in Cells : /\ cells'[d].state = cells[d].state /\ cells'[d].thread = cells[d].thread
                         /\ cells'[d].slot = cells[d].slot
    BY <2>3, <2>5
  <2>7. Activations' = Activations
    <3>1. \A t, s : SameAt(t, s)
      BY <2>1, <2>6 DEF SameAt
    <3>2. \A j \in DOMAIN frames :
            ActivationIn(stack', cells', frames[j]) = ActivationIn(stack, cells, frames[j])
      BY <1>1, <3>1, WindowSame
    <3> QED
      BY <1>4, <3>2, ActivationsSame
  <2>8. ContentIn(stack', cells', c) = v
    BY <1>8, <2>3, <2>5 DEF ContentIn
  <2>9. \A d \in Cells : d # c => ContentIn(stack', cells', d) = ContentIn(stack, cells, d)
    BY <2>1, <2>5 DEF ContentIn
  <2> QED
    BY <2>7, <2>8, <2>9
<1>9. CASE cells[c].state # "closed"
  <2> DEFINE t == cells[c].thread
             s == cells[c].slot
  <2>1. stack' = [stack EXCEPT ![t][s] = v] /\ cells' = cells
    BY <1>4, <1>9 DEF Set
  <2>2. cells[c].state = "open"
    BY <1>1, <1>3, <1>9, CellFields
  <2>3. t \in Threads /\ s \in 1..Slots[t] /\ c \in OpenOf(cells, t)
    BY <1>3, <2>2, OpenOnStack DEF OpenOf
  <2>4. Written(t, s, v)
    BY <2>1 DEF Written
  <2> HIDE DEF t, s
  <2>5. /\ stack'[t][s] = v
        /\ \A u \in Threads : \A x \in 1..Slots[u] : u # t \/ x # s => stack'[u][x] = stack[u][x]
    BY <1>1, <1>2, <2>3, <2>4, SlotWritten
  <2>6. Activations' = Activations
    <3>1. ASSUME NEW j \in DOMAIN frames
          PROVE  ActivationIn(stack', cells', frames[j]) = ActivationIn(stack, cells, frames[j])
      <4> DEFINE u == frames[j].thread
      <4>1. /\ u \in Threads /\ Slots[u] \in Nat /\ frames[j].base \in Nat
            /\ End(frames[j]) <= Slots[u] /\ End(frames[j]) \in Nat /\ frames[j].count \in Nat
            /\ frames[j].base + frames[j].count <= End(frames[j])
        BY <1>1, FrameFields
      <4>2. \A x \in Nat : frames[j].base < x /\ x <= End(frames[j]) => x \in 1..Slots[u]
        BY <4>1
      <4>3. ASSUME NEW x \in Nat, frames[j].base < x, x <= frames[j].base + frames[j].count
            PROVE  HoldsIn(stack', cells', u, x) = HoldsIn(stack, cells, u, x)
        <5>1. x \in 1..Slots[u]
          BY <4>1, <4>2, <4>3
        <5>2. \/ stack'[u][x] = stack[u][x]
              \/ \E d \in OpenOf(cells, u) : cells[d].slot = x
          BY <2>3, <2>5, <4>1, <5>1 DEF s
        <5>3. \A d \in Cells :
                (cells'[d].state = "open" /\ cells'[d].thread = u /\ cells'[d].slot = x)
                  <=> (cells[d].state = "open" /\ cells[d].thread = u /\ cells[d].slot = x)
          BY <2>1
        <5> QED
          BY <5>2, <5>3, HoldsSame
      <4>4. ASSUME NEW x \in Nat, frames[j].base + frames[j].count < x, x <= End(frames[j])
            PROVE  stack'[u][x] = stack[u][x]
        <5>1. x \in 1..Slots[u]
          BY <4>1, <4>2, <4>4
        <5>2. u # t \/ x # s
          <6>1. u = t /\ x = s => End(frames[j]) < s
            BY <1>3, <2>2, <4>4, OpenNotExtra DEF t, s
          <6>2. s \in Nat
            BY <1>1, <1>3, CellFields DEF s
          <6> QED
            BY <4>1, <4>4, <6>1, <6>2
        <5> QED
          BY <2>5, <4>1, <5>1, <5>2
      <4> QED
        BY <1>1, <4>3, <4>4, ActivationSame
    <3> QED
      BY <1>4, <3>1, ActivationsSame
  <2>7. ContentIn(stack', cells', c) = v
    BY <2>1, <2>2, <2>5 DEF ContentIn, t, s
  <2>8. ASSUME NEW d \in Cells, d # c
        PROVE  ContentIn(stack', cells', d) = ContentIn(stack, cells, d)
    <3>1. CASE cells[d].state = "open"
      <4>1. cells[d].thread \in Threads /\ cells[d].slot \in 1..Slots[cells[d].thread]
        BY <3>1, OpenOnStack
      <4>2. List(cells, t, head[t])
        BY <2>3 DEF UInv, Lists
      <4>3. cells[d].thread # t \/ cells[d].slot # s
        BY <2>3, <2>8, <3>1, <4>2 DEF List, OpenOf, s
      <4>4. stack'[cells[d].thread][cells[d].slot] = stack[cells[d].thread][cells[d].slot]
        BY <2>5, <4>1, <4>3
      <4> QED
        BY <2>1, <3>1, <4>4 DEF ContentIn
    <3>2. CASE cells[d].state # "open"
      <4>1. cells[d].state \in {"free", "closed"}
        BY <1>1, <3>2, CellFields
      <4> QED
        BY <2>1, <4>1 DEF ContentIn
    <3> QED
      BY <3>1, <3>2
  <2> QED
    BY <2>6, <2>7, <2>8
<1> QED
  BY <1>8, <1>9

\* At the end of a block its registers keep their values, and the variables on
\* them are on their own (executeLuaFrame).
LEMMA CloseMaps ==
  ASSUME UInv, Depth > 0, NEW r \in 1..Frame.count, Close(r)
  PROVE  V!EndBlock(r)
<1> DEFINE lower == Frame.base + r - 1
           upper == Frame.base + Frame.count
           gone == InRange(cells, Thread, lower, upper)
<1>1. TypeOK /\ cells \in [Cells -> Cell]
  BY DEF UInv, Typed
<1>2. /\ Thread \in Threads /\ lower \in Nat /\ upper \in Nat /\ lower <= upper
      /\ Frame.base \in Nat /\ Frame.count \in Nat /\ Frame.base <= lower
      /\ lower = Frame.base + r - 1 /\ upper = Frame.base + Frame.count
  BY <1>1, RegisterSlot
<1>3. CloseInRange(Thread, lower, upper) /\ UNCHANGED <<stack, frames, closures>>
  BY DEF Close
<1> HIDE DEF lower, upper
<1>4. /\ Lists(cells', head')
      /\ \A c \in gone :
           cells'[c].state = "closed" /\ cells'[c].value = stack[Thread][cells[c].slot]
      /\ \A c \in Cells \ gone :
           cells'[c].state = cells[c].state /\ cells'[c].value = cells[c].value
      /\ \A c \in Cells : cells'[c].thread = cells[c].thread /\ cells'[c].slot = cells[c].slot
  BY <1>2, <1>3, CloseKeepsLists
<1>5. \A c : c \in gone <=> /\ c \in Cells /\ cells[c].state = "open" /\ cells[c].thread = Thread
                            /\ lower < cells[c].slot /\ cells[c].slot <= upper
  BY DEF InRange, OpenOf
<1> HIDE DEF gone
<1>6. \A t \in Threads : \A s \in Nat : t # Thread \/ s <= lower => SameAt(t, s)
  <2>1. ASSUME NEW t \in Threads, NEW s \in Nat, t # Thread \/ s <= lower, NEW c \in Cells
        PROVE  (cells'[c].state = "open" /\ cells'[c].thread = t /\ cells'[c].slot = s)
                 <=> (cells[c].state = "open" /\ cells[c].thread = t /\ cells[c].slot = s)
    <3>1. CASE c \in gone
      <4>1. ~(cells[c].thread = t /\ cells[c].slot = s)
        BY <1>2, <1>5, <2>1, <3>1
      <4> QED
        BY <1>4, <3>1, <4>1
    <3>2. CASE c \notin gone
      BY <1>4, <3>2
    <3> QED
      BY <3>1, <3>2
  <2> QED
    BY <1>3, <2>1 DEF SameAt
<1>7. \A i \in DOMAIN frames : i # Depth =>
        ActivationIn(stack', cells', frames[i]) = ActivationIn(stack, cells, frames[i])
  <2>1. ASSUME NEW t \in Threads, NEW s \in 1..Slots[t], t # Thread \/ s <= Frame.base
        PROVE  SameAt(t, s)
    <3>1. s \in Nat
      BY <1>1, SlotFields
    <3>2. t # Thread \/ s <= lower
      BY <1>2, <2>1, <3>1
    <3> QED
      BY <1>6, <3>1, <3>2
  <2> QED
    BY <2>1, OthersSame
<1>8. Contents' = Contents
  <2>1. \A c \in Cells : ContentIn(stack', cells', c) = ContentIn(stack, cells, c)
    <3>1. ASSUME NEW c \in Cells, c \in gone
          PROVE  ContentIn(stack', cells', c) = ContentIn(stack, cells, c)
      BY <1>4, <1>5, <3>1 DEF ContentIn
    <3>2. ASSUME NEW c \in Cells, c \notin gone
          PROVE  ContentIn(stack', cells', c) = ContentIn(stack, cells, c)
      BY <1>3, <1>4, <3>2 DEF ContentIn
    <3> QED
      BY <3>1, <3>2
  <2> QED
    BY <2>1, AbstractState, Zenon
<1> DEFINE regs == [q \in DOMAIN V!Regs |-> IF q < r THEN V!Regs[q] ELSE V!Value(V!Regs[q])]
<1>9. RegsIn(stack', cells', Frame) = regs
  <2>1. /\ DOMAIN V!Regs = 1..Frame.count
        /\ \A q \in 1..Frame.count : V!Regs[q] = HoldsIn(stack, cells, Thread, SlotOf(q))
    BY <1>1, RunningActivation
  <2>2. ASSUME NEW q \in 1..Frame.count
        PROVE  HoldsIn(stack', cells', Thread, Frame.base + q)
                 = IF q < r THEN V!Regs[q] ELSE V!Value(V!Regs[q])
    <3>1. SlotOf(q) = Frame.base + q /\ Frame.base + q \in Nat
      BY <1>2 DEF SlotOf
    <3>2. CASE q < r
      <4>1. Frame.base + q <= lower
        BY <1>2, <3>2
      <4>2. SameAt(Thread, Frame.base + q)
        BY <1>2, <1>6, <3>1, <4>1
      <4>3. HoldsIn(stack', cells', Thread, Frame.base + q) = HoldsIn(stack, cells, Thread, Frame.base + q)
        BY <4>2, SlotSame
      <4> QED
        BY <2>1, <3>1, <3>2, <4>3
    <3>3. CASE ~(q < r)
      <4>1. lower < Frame.base + q /\ Frame.base + q <= upper
        BY <1>2, <3>3
      <4>2. \A c \in OpenOf(cells', Thread) : cells'[c].slot # Frame.base + q
        <5>1. ASSUME NEW c \in OpenOf(cells', Thread), cells'[c].slot = Frame.base + q PROVE FALSE
          <6>1. c \in Cells /\ cells'[c].state = "open" /\ cells'[c].thread = Thread
            BY DEF OpenOf
          <6>2. c \notin gone
            BY <1>4, <6>1
          <6>3. c \in gone
            BY <1>4, <1>5, <4>1, <5>1, <6>1, <6>2
          <6> QED
            BY <6>2, <6>3
        <5> QED
          BY <5>1
      <4>3. HoldsIn(stack', cells', Thread, Frame.base + q) = stack'[Thread][Frame.base + q]
        BY <4>2, HoldsValue
      <4>4. V!Value(V!Regs[q]) = stack[Thread][Frame.base + q]
        BY <3>1, RegisterValue
      <4> QED
        BY <1>3, <3>3, <4>3, <4>4
    <3> QED
      BY <3>2, <3>3
  <2> QED
    BY <2>1, <2>2, Zenon DEF RegsIn, Thread
<1> HIDE DEF regs
<1>10. Activations' = V!WithRegs(regs)
  <2>1. \A x \in 1..Frame.extra : stack'[Thread][Frame.base + Frame.count + x]
                                    = stack[Thread][Frame.base + Frame.count + x]
    BY <1>3
  <2> QED
    BY <1>3, <1>7, <1>9, <2>1, RegistersChanged
<1>11. CapturedSets' = CapturedSets
  BY <1>3, AbstractState
<1> QED
  BY <1>8, <1>10, <1>11 DEF V!EndBlock, regs

\* An activation's registers refer to open upvalues, and it holds its upvalues.
LEMMA InUseHeld ==
  ASSUME UInv, NEW c \in Cells, cells[c].state # "open", c \notin Held
  PROVE  c \notin V!InUse
<1>1. TypeOK /\ cells \in [Cells -> Cell]
  BY DEF UInv, Typed
<1>2. \A w \in CapturedSets : c \notin w
  BY AbstractState, HeldBy
<1>3. ASSUME NEW i \in DOMAIN frames
      PROVE  c \notin V!Members(Activations[i].regs) \cup Activations[i].up
  <2>1. Activations[i] = ActivationIn(stack, cells, frames[i])
    BY AbstractState
  <2>2. c \notin Members(frames[i].up)
    BY HeldBy
  <2>3. Activations[i].regs = RegsIn(stack, cells, frames[i]) /\ Activations[i].up = Members(frames[i].up)
    BY <2>1 DEF ActivationIn
  <2>4. ASSUME NEW r \in 1..frames[i].count
        PROVE  HoldsIn(stack, cells, frames[i].thread, frames[i].base + r) # c
    <3> DEFINE t == frames[i].thread
               s == frames[i].base + r
    <3>1. t \in Threads /\ s \in 1..Slots[t]
      BY <1>1, FrameFields
    <3> HIDE DEF t, s
    <3>2. CASE \E d \in OpenOf(cells, t) : cells[d].slot = s
      <4>1. PICK d \in OpenOf(cells, t) : cells[d].slot = s
        BY <3>2
      <4>2. List(cells, t, head[t])
        BY <3>1 DEF UInv, Lists
      <4>3. HoldsIn(stack, cells, t, s) = d
        BY <4>1, <4>2, HoldsUpvalue
      <4>4. cells[d].state = "open"
        BY DEF OpenOf
      <4> QED
        BY <4>3, <4>4 DEF t, s
    <3>3. CASE \A d \in OpenOf(cells, t) : cells[d].slot # s
      <4>1. HoldsIn(stack, cells, t, s) = stack[t][s]
        BY <3>3, HoldsValue
      <4>2. stack[t][s] \in Content
        BY <1>1, <3>1, SlotFields
      <4>3. stack[t][s] # c
        BY <4>2, UpvaluesAssumption DEF UpvaluesAssumption, Content
      <4> QED
        BY <4>1, <4>3 DEF t, s
    <3> QED
      BY <3>2, <3>3
  <2>5. c \notin V!Members(Activations[i].regs)
    BY <2>3, <2>4 DEF V!Members, RegsIn
  <2> QED
    BY <2>2, <2>3, <2>5
<1>4. DOMAIN Activations = DOMAIN frames
  BY AbstractState
<1> QED
  BY <1>2, <1>3, <1>4 DEF V!InUse

\* What is let go of is forgotten (the program, the collector).
LEMMA DropClosureMaps == UInv /\ DropClosure => V!Forget
<1> SUFFICES ASSUME UInv, NEW u \in closures, closures' = closures \ {u},
                    UNCHANGED <<stack, frames, head, cells>>
             PROVE  V!Forget
  BY DEF DropClosure
<1>1. CapturedSets' \subseteq CapturedSets
  BY AbstractState
<1>2. Activations' = Activations /\ Contents' = Contents
  BY AbstractState, Zenon
<1> QED
  BY <1>1, <1>2 DEF V!Forget

\* A variable is freed when nothing refers to it.
LEMMA CollectMaps == UInv /\ Collect => V!Forget
<1> SUFFICES ASSUME UInv, NEW c \in Cells \ Held, cells[c].state = "closed",
                    cells' = [cells EXCEPT ![c] = Blank],
                    UNCHANGED <<stack, frames, head, closures>>
             PROVE  V!Forget
  BY DEF Collect
<1>1. TypeOK /\ cells \in [Cells -> Cell]
  BY DEF UInv, Typed
<1>2. cells'[c] = Blank /\ Blank.state = "free" /\ \A d \in Cells : d # c => cells'[d] = cells[d]
  BY <1>1 DEF Blank
<1>3. \A t, s : SameAt(t, s)
  BY <1>2 DEF SameAt
<1>4. Activations' = Activations
  <2>1. \A j \in DOMAIN frames :
          ActivationIn(stack', cells', frames[j]) = ActivationIn(stack, cells, frames[j])
    BY <1>1, <1>3, WindowSame
  <2> QED
    BY <2>1, ActivationsSame
<1>5. Contents' = [Contents EXCEPT ![c] = Nil]
  <2>1. /\ Contents = [d \in Cells |-> ContentIn(stack, cells, d)]
        /\ Contents' = [d \in Cells |-> ContentIn(stack', cells', d)]
    BY AbstractState
  <2>2. ContentIn(stack', cells', c) = Nil
    BY <1>2 DEF ContentIn
  <2>3. \A d \in Cells : d # c => ContentIn(stack', cells', d) = ContentIn(stack, cells, d)
    BY <1>2 DEF ContentIn
  <2> QED
    BY <2>1, <2>2, <2>3
<1>6. CapturedSets' = CapturedSets
  BY AbstractState
<1>7. c \notin V!InUse
  BY InUseHeld
<1> QED
  BY <1>4, <1>5, <1>6, <1>7 DEF V!Forget

\* The list of activations.
LEMMA ActivationList ==
  ASSUME TypeOK
  PROVE  /\ Depth \in Nat /\ DOMAIN frames = 1..Depth /\ V!Depth = Depth /\ IsList(Activations, Depth)
         /\ \A i \in 1..Depth : Activations[i] = ActivationIn(stack, cells, frames[i])
<1>1. Depth \in Nat /\ DOMAIN frames = 1..Depth
  BY DEF TypeOK, Depth
<1>2. Activations = [i \in 1..Depth |-> ActivationIn(stack, cells, frames[i])]
  BY <1>1, AbstractState
<1>3. IsList(Activations, Depth)
  BY <1>2 DEF IsList
<1>4. V!Depth = Depth
  BY <1>1, <1>3, ListLength DEF V!Depth
<1> QED
  BY <1>1, <1>2, <1>3, <1>4

\* A frame goes; its captured variables keep their values, whatever is cleared.
LEMMA PopMaps ==
  ASSUME UInv, Depth > 0, CloseInRange(Thread, Frame.base, Frame.base + Frame.count),
         frames' = SubSeq(frames, 1, Depth - 1), closures' = closures,
         \A t \in Threads : \A s \in 1..Slots[t] :
           t # Thread \/ s <= Frame.base => stack'[t][s] = stack[t][s]
  PROVE  V!Return
<1> DEFINE lower == Frame.base
           upper == Frame.base + Frame.count
           gone == InRange(cells, Thread, lower, upper)
<1>1. /\ TypeOK /\ cells \in [Cells -> Cell] /\ Depth \in Nat /\ V!Depth = Depth
      /\ IsList(Activations, Depth) /\ Frame = frames[Depth] /\ Depth \in DOMAIN frames
      /\ Thread = frames[Depth].thread
  BY RunningActivation DEF UInv, Typed, Thread
<1>2. /\ Thread \in Threads /\ lower \in Nat /\ upper \in Nat /\ lower <= upper
  BY <1>1, FrameFields
<1>3. CloseInRange(Thread, lower, upper)
  OBVIOUS
<1>4. \A t \in Threads : \A s \in 1..Slots[t] : t # Thread \/ s <= lower => stack'[t][s] = stack[t][s]
  OBVIOUS
<1>5. \A c \in Cells : cells[c].state = "open" /\ cells[c].thread = Thread =>
        cells[c].slot <= lower \/ (lower < cells[c].slot /\ cells[c].slot <= upper)
  <2>1. ASSUME NEW c \in Cells, cells[c].state = "open", cells[c].thread = Thread
        PROVE  cells[c].slot <= lower \/ (lower < cells[c].slot /\ cells[c].slot <= upper)
    <3>1. PICK k \in DOMAIN frames :
            /\ frames[k].thread = cells[c].thread
            /\ frames[k].base < cells[c].slot /\ cells[c].slot <= frames[k].base + frames[k].count
      BY <2>1 DEF UInv, OpenInWindow, Open
    <3>2. /\ cells[c].slot \in Nat /\ frames[k].base \in Nat /\ frames[k].count \in Nat
          /\ End(frames[k]) \in Nat /\ frames[k].base + frames[k].count <= End(frames[k])
      BY <1>1, CellFields, FrameFields
    <3>3. CASE k = Depth
      BY <1>1, <3>1, <3>3
    <3>4. CASE k # Depth
      <4>1. End(frames[k]) <= lower
        BY <2>1, <3>1, <3>4, Elsewhere
      <4> QED
        BY <1>2, <3>1, <3>2, <4>1
    <3> QED
      BY <3>3, <3>4
  <2> QED
    BY <2>1
<1> HIDE DEF lower, upper
<1>6. /\ \A c \in gone :
           cells'[c].state = "closed" /\ cells'[c].value = stack[Thread][cells[c].slot]
      /\ \A c \in Cells \ gone :
           cells'[c].state = cells[c].state /\ cells'[c].value = cells[c].value
      /\ \A c \in Cells : cells'[c].thread = cells[c].thread /\ cells'[c].slot = cells[c].slot
  BY <1>2, <1>3, CloseKeepsLists
<1>7. \A c : c \in gone <=> /\ c \in Cells /\ cells[c].state = "open" /\ cells[c].thread = Thread
                            /\ lower < cells[c].slot /\ cells[c].slot <= upper
  BY DEF InRange, OpenOf
<1> HIDE DEF gone
<1>8. ASSUME NEW t \in Threads, NEW s \in 1..Slots[t], t # Thread \/ s <= lower
      PROVE  SameAt(t, s)
  <2>1. ASSUME NEW c \in Cells
        PROVE  (cells'[c].state = "open" /\ cells'[c].thread = t /\ cells'[c].slot = s)
                 <=> (cells[c].state = "open" /\ cells[c].thread = t /\ cells[c].slot = s)
    <3>1. CASE c \in gone
      <4>1. s \in Nat
        BY <1>1, SlotFields
      <4>2. ~(cells[c].thread = t /\ cells[c].slot = s)
        BY <1>2, <1>7, <1>8, <3>1, <4>1
      <4> QED
        BY <1>6, <3>1, <4>2
    <3>2. CASE c \notin gone
      BY <1>6, <3>2
    <3> QED
      BY <3>1, <3>2
  <2> QED
    BY <1>4, <1>8, <2>1 DEF SameAt
<1>9. \A i \in DOMAIN frames : i # Depth =>
        ActivationIn(stack', cells', frames[i]) = ActivationIn(stack, cells, frames[i])
  BY <1>8, OthersSame DEF lower
<1>10. Contents' = Contents
  <2>1. ASSUME NEW c \in Cells PROVE ContentIn(stack', cells', c) = ContentIn(stack, cells, c)
    <3>1. CASE c \in gone
      BY <1>6, <1>7, <3>1 DEF ContentIn
    <3>2. CASE c \notin gone /\ cells[c].state = "open"
      <4>1. cells[c].thread \in Threads /\ cells[c].slot \in 1..Slots[cells[c].thread]
        BY <3>2, OpenOnStack
      <4>2. cells[c].thread # Thread \/ cells[c].slot <= lower
        BY <1>5, <1>7, <3>2
      <4>3. stack'[cells[c].thread][cells[c].slot] = stack[cells[c].thread][cells[c].slot]
        BY <1>4, <4>1, <4>2
      <4> QED
        BY <1>6, <3>2, <4>3 DEF ContentIn
    <3>3. CASE c \notin gone /\ cells[c].state # "open"
      <4>1. cells[c].state \in {"free", "closed"}
        BY <1>1, <3>3, CellFields
      <4> QED
        BY <1>6, <3>3, <4>1 DEF ContentIn
    <3> QED
      BY <3>1, <3>2, <3>3
  <2> QED
    BY <2>1, AbstractState, Zenon
<1>11. Activations' = SubSeq(Activations, 1, Depth - 1)
  <2> DEFINE f == Activations
             g == Activations'
  <2>1. /\ DOMAIN frames' = 1..Depth - 1 /\ DOMAIN frames = 1..Depth
        /\ \A i \in DOMAIN frames' : i \in DOMAIN frames /\ frames'[i] = frames[i]
    BY <1>1, FramePopped
  <2>2. g = [i \in 1..Depth - 1 |-> ActivationIn(stack', cells', frames'[i])]
    BY <2>1, AbstractState
  <2>3. IsList(g, Depth - 1)
    BY <2>2 DEF IsList
  <2>4. \A i \in 1..Depth - 1 : i \in DOMAIN frames /\ i # Depth /\ frames'[i] = frames[i]
    BY <1>1, <2>1
  <2>5. \A i \in DOMAIN frames : f[i] = ActivationIn(stack, cells, frames[i])
    BY AbstractState
  <2>6. \A i \in 1..Depth - 1 : g[i] = f[i]
    <3> HIDE DEF f, g
    <3>1. \A i \in 1..Depth - 1 : g[i] = ActivationIn(stack', cells', frames'[i])
      BY <2>2
    <3> QED
      BY <1>9, <2>4, <2>5, <3>1
  <2> HIDE DEF g
  <2>7. g = SubSeq(f, 1, Depth - 1)
    BY <1>1, <2>3, <2>6, ListShortened
  <2> QED
    BY <2>7 DEF g
<1>12. CapturedSets' = CapturedSets
  BY AbstractState
<1> QED
  BY <1>1, <1>10, <1>11, <1>12 DEF V!Return

\* What is not cleared stays.
LEMMA ClearedBehind ==
  ASSUME UInv, NEW t \in Threads, NEW from \in Nat, NEW count \in Nat,
         stack' = [stack EXCEPT ![t] = Cleared(@, from, count)]
  PROVE  \A u \in Threads : \A s \in 1..Slots[u] : u # t \/ s <= from => stack'[u][s] = stack[u][s]
<1>1. TypeOK
  BY DEF UInv
<1>2. stack' = [stack EXCEPT ![t] = Cleared(stack[t], from, count)]
  <2>1. stack \in [Threads -> Seq(Content)]
    BY <1>1 DEF TypeOK
  <2> QED
    BY <2>1
<1>3. stack'[t] = Cleared(stack[t], from, count) /\ \A u \in Threads : u # t => stack'[u] = stack[u]
  BY <1>1, <1>2, ClearedContents, StackWritten
<1>4. ASSUME NEW s \in 1..Slots[t], s <= from PROVE stack'[t][s] = stack[t][s]
  <2>1. s \in Nat
    BY <1>1, SlotFields
  <2>2. stack'[t][s] = IF from < s /\ s <= from + count THEN Nil ELSE stack[t][s]
    BY <1>1, <1>3, ClearedContents
  <2> QED
    BY <1>4, <2>1, <2>2
<1> QED
  BY <1>3, <1>4

\* A return ends the activation (callLuaClosure).
LEMMA ReturnMaps == UInv /\ Return => V!Return
<1> SUFFICES ASSUME UInv, Return PROVE V!Return
  OBVIOUS
<1>1. TypeOK /\ Depth > 0
  BY DEF UInv, Return
<1>2. Thread \in Threads /\ Frame.base \in Nat /\ Frame.count + Frame.extra \in Nat
  BY <1>1, RunningFrame, FrameFields
<1>3. \A t \in Threads : \A s \in 1..Slots[t] :
        t # Thread \/ s <= Frame.base => stack'[t][s] = stack[t][s]
  BY <1>2, ClearedBehind DEF Return
<1> QED
  BY <1>1, <1>3, PopMaps DEF Return

\* So does an error (restoreSnapshot).
LEMMA RestoreSnapshotMaps == UInv /\ RestoreSnapshot => V!Return
<1> SUFFICES ASSUME UInv, RestoreSnapshot PROVE V!Return
  OBVIOUS
<1>1. TypeOK /\ Depth > 0
  BY DEF UInv, RestoreSnapshot
<1>2. Thread \in Threads /\ Frame.base \in Nat /\ 1 \in Nat
  BY <1>1, RunningFrame, FrameFields
<1>3. \A t \in Threads : \A s \in 1..Slots[t] :
        t # Thread \/ s <= Frame.base => stack'[t][s] = stack[t][s]
  BY <1>2, ClearedBehind DEF RestoreSnapshot
<1> QED
  BY <1>1, <1>3, PopMaps DEF RestoreSnapshot

\* A call declares the callee's variables (callLuaClosure).
LEMMA CallMaps == UInv /\ Call => V!Call
<1> SUFFICES ASSUME UInv, NEW t \in Threads, NEW up \in closures \cup {<<>>},
                    NEW n \in Registers, NEW x \in Extras, NEW v \in Values,
                    NEW base, base = NextRegisterBase(t), base + n + x <= Slots[t],
                    frames' = Append(frames, [thread |-> t, base |-> base, count |-> n,
                                              extra |-> x, up |-> up]),
                    stack' = [stack EXCEPT ![t] = Entered(stack, t, base, n, x, v)],
                    UNCHANGED <<head, cells, closures>>
             PROVE  V!Call
  BY ZenonT(60) DEF Call, Entered
<1> DEFINE f == [thread |-> t, base |-> base, count |-> n, extra |-> x, up |-> up]
           w == Entered(stack, t, base, n, x, v)
           a == [regs |-> [r \in 1..n |-> IF r = 1 THEN v ELSE Nil],
                 extra |-> [e \in 1..x |-> v], up |-> Members(up)]
<1>1. /\ TypeOK /\ base \in Nat /\ n \in Nat /\ x \in Nat /\ n # 0
      /\ \A i \in DOMAIN frames : frames[i].thread = t => End(frames[i]) <= base
      /\ Slots[t] \in Nat /\ v \in Content /\ n + x \in Nat
  BY BaseBehind, UpvaluesAssumption DEF UInv, UpvaluesAssumption, Content
<1>2. /\ Depth \in Nat /\ DOMAIN frames = 1..Depth /\ V!Depth = Depth /\ IsList(Activations, Depth)
      /\ \A i \in 1..Depth : Activations[i] = ActivationIn(stack, cells, frames[i])
  BY <1>1, ActivationList
<1>3. /\ f.thread = t /\ f.base = base /\ f.count = n /\ f.extra = x /\ f.up = up
  OBVIOUS
<1>4. frames' = Append(frames, f)
  OBVIOUS
<1> HIDE DEF f
<1>5. /\ DOMAIN frames' = 1..Depth + 1 /\ frames'[Depth + 1] = f
      /\ \A i \in 1..Depth : frames'[i] = frames[i]
  <2>1. frames \in Seq(FrameType) /\ Depth = Len(frames)
    BY <1>1 DEF TypeOK, FrameType, Depth
  <2> HIDE DEF Depth
  <2> QED
    BY <1>2, <1>4, <2>1
<1>6. /\ stack'[t] = w /\ \A u \in Threads : u # t => stack'[u] = stack[u]
      /\ \A s \in 1..Slots[t] : w[s] = IF s = base + 1 \/ (s > base + n /\ s <= base + n + x) THEN v
                                       ELSE IF base < s /\ s <= base + (n + x) THEN Nil
                                       ELSE stack[t][s]
  <2>1. /\ Cleared(stack[t], base, n + x) \in [1..Slots[t] -> Content]
        /\ \A s \in 1..Slots[t] : Cleared(stack[t], base, n + x)[s] =
             IF base < s /\ s <= base + (n + x) THEN Nil ELSE stack[t][s]
    BY <1>1, ClearedContents
  <2>2. w = [s \in 1..Slots[t] |-> IF s = base + 1 \/ (s > base + n /\ s <= base + n + x) THEN v
                                   ELSE Cleared(stack[t], base, n + x)[s]]
    BY DEF Entered
  <2>3. w \in [1..Slots[t] -> Content]
    BY <1>1, <2>1, <2>2
  <2>4. stack' = [stack EXCEPT ![t] = w]
    OBVIOUS
  <2> HIDE DEF w
  <2>5. /\ stack'[t] = w /\ \A u \in Threads : u # t => stack'[u] = stack[u]
    BY <1>1, <2>3, <2>4, StackWritten
  <2>6. ASSUME NEW s \in 1..Slots[t]
        PROVE  w[s] = IF s = base + 1 \/ (s > base + n /\ s <= base + n + x) THEN v
                      ELSE IF base < s /\ s <= base + (n + x) THEN Nil ELSE stack[t][s]
    BY <2>1, <2>2
  <2> QED
    BY <2>5, <2>6
<1> HIDE DEF w
<1>7. ASSUME NEW u \in Threads, NEW s \in 1..Slots[u], u # t \/ s <= base
      PROVE  stack'[u][s] = stack[u][s]
  <2>1. s \in Nat
    BY <1>1, SlotFields
  <2>2. CASE u # t
    BY <1>6, <2>2
  <2>3. CASE u = t
    <3>1. s <= base
      BY <1>7, <2>3
    <3>2. ~(s = base + 1) /\ ~(s > base + n) /\ ~(base < s)
      BY <1>1, <2>1, <3>1
    <3> QED
      BY <1>6, <2>3, <3>2
  <2> QED
    BY <2>2, <2>3
<1>8. ASSUME NEW c \in Cells, cells[c].state = "open"
      PROVE  /\ cells[c].thread \in Threads /\ cells[c].slot \in 1..Slots[cells[c].thread]
             /\ cells[c].thread # t \/ cells[c].slot <= base
  <2>1. PICK k \in DOMAIN frames :
          /\ frames[k].thread = cells[c].thread
          /\ frames[k].base < cells[c].slot /\ cells[c].slot <= frames[k].base + frames[k].count
    BY <1>8 DEF UInv, OpenInWindow, Open
  <2>2. /\ cells[c].slot \in Nat /\ frames[k].base \in Nat /\ frames[k].count \in Nat
        /\ End(frames[k]) \in Nat /\ frames[k].base + frames[k].count <= End(frames[k])
    BY <1>1, CellFields, FrameFields DEF UInv, Typed
  <2>3. cells[c].thread = t => cells[c].slot <= base
    BY <1>1, <2>1, <2>2
  <2> QED
    BY <1>8, <2>3, OpenOnStack
<1>9. Contents' = Contents
  <2>1. ASSUME NEW c \in Cells PROVE ContentIn(stack', cells', c) = ContentIn(stack, cells, c)
    <3>1. CASE cells[c].state = "open"
      <4>1. stack'[cells[c].thread][cells[c].slot] = stack[cells[c].thread][cells[c].slot]
        BY <1>7, <1>8, <3>1
      <4> QED
        BY <3>1, <4>1 DEF ContentIn
    <3>2. CASE cells[c].state # "open"
      <4>1. cells[c].state \in {"free", "closed"}
        BY <3>2, CellFields DEF UInv, Typed
      <4> QED
        BY <4>1 DEF ContentIn
    <3> QED
      BY <3>1, <3>2
  <2> QED
    BY <2>1, AbstractState, Zenon
<1>10. ASSUME NEW i \in DOMAIN frames
       PROVE  ActivationIn(stack', cells', frames[i]) = ActivationIn(stack, cells, frames[i])
  <2> DEFINE u == frames[i].thread
  <2>1. /\ u \in Threads /\ Slots[u] \in Nat /\ frames[i].base \in Nat
        /\ End(frames[i]) <= Slots[u] /\ End(frames[i]) \in Nat
        /\ u = t => End(frames[i]) <= base
    BY <1>1, FrameFields
  <2> HIDE DEF u
  <2>2. ASSUME NEW s \in Nat, frames[i].base < s, s <= End(frames[i]) PROVE SameAt(u, s)
    <3>1. s \in 1..Slots[u] /\ (u # t \/ s <= base)
      BY <1>1, <2>1, <2>2
    <3>2. stack'[u][s] = stack[u][s]
      BY <1>7, <2>1, <3>1
    <3> QED
      BY <3>2 DEF SameAt
  <2> QED
    BY <1>1, <2>2, WindowSame DEF u
<1>11. ActivationIn(stack', cells', f) = a
  <2>1. ASSUME NEW r \in 1..n
        PROVE  HoldsIn(stack', cells', t, base + r) = IF r = 1 THEN v ELSE Nil
    <3>1. \A c \in OpenOf(cells', t) : cells'[c].slot # base + r
      <4>1. ASSUME NEW c \in OpenOf(cells, t) PROVE cells[c].slot # base + r
        <5>1. c \in Cells /\ cells[c].state = "open" /\ cells[c].thread = t
          BY DEF OpenOf
        <5>2. cells[c].slot <= base /\ cells[c].slot \in 1..Slots[t]
          BY <1>8, <5>1
        <5> QED
          BY <1>1, <5>2
      <4>2. cells' = cells
        OBVIOUS
      <4> QED
        BY <4>1, <4>2
    <3> DEFINE st == stack'
               cs == cells'
               s == base + r
    <3>2. HoldsIn(st, cs, t, s) = st[t][s]
      <4>1. \A c \in OpenOf(cs, t) : cs[c].slot # s
        BY <3>1
      <4> HIDE DEF st, cs, s
      <4> QED
        BY <4>1, HoldsValue
    <3>3. base + r \in 1..Slots[t]
      BY <1>1
    <3>4. stack'[t][base + r] = IF r = 1 THEN v ELSE Nil
      <4>1. stack'[t][s] = w[s]
        BY <1>6
      <4>2. s \in 1..Slots[t] /\ base < s /\ s <= base + (n + x) /\ (s = base + 1 <=> r = 1)
            /\ ~(s > base + n /\ s <= base + n + x)
        BY <1>1, <3>3
      <4> HIDE DEF s
      <4>3. w[s] = IF r = 1 THEN v ELSE Nil
        BY <1>6, <4>2
      <4> QED
        BY <4>1, <4>3 DEF s
    <3> QED
      BY <3>2, <3>4
  <2>2. ASSUME NEW e \in 1..x PROVE stack'[t][base + n + e] = v
    <3>1. base + n + e \in 1..Slots[t] /\ base + n + e > base + n /\ base + n + e <= base + n + x
      BY <1>1
    <3> QED
      BY <1>6, <3>1
  <2>3. RegsIn(stack', cells', f) = [r \in 1..n |-> IF r = 1 THEN v ELSE Nil]
    <3>1. RegsIn(stack', cells', f) = [r \in 1..n |-> HoldsIn(stack', cells', t, base + r)]
      BY <1>3, Zenon DEF RegsIn
    <3> QED
      BY <2>1, <3>1, Zenon
  <2>4. ExtraIn(stack', f) = [e \in 1..x |-> v]
    BY <1>3, <2>2, Zenon DEF ExtraIn
  <2> QED
    BY <1>3, <2>3, <2>4 DEF ActivationIn
<1>12. Activations' = Append(Activations, a) /\ Len(Activations') > V!Depth
  <2> DEFINE g == Activations
             h == Activations'
  <2>1. h = [i \in 1..Depth + 1 |-> ActivationIn(stack', cells', frames'[i])]
    BY <1>5, AbstractState
  <2>2. IsList(h, Depth + 1)
    BY <2>1 DEF IsList
  <2>3. h[Depth + 1] = a
    <3>1. Depth + 1 \in 1..Depth + 1
      BY <1>2
    <3> HIDE DEF h, a
    <3> QED
      BY <1>5, <1>11, <2>1, <3>1
  <2>4. ASSUME NEW i \in 1..Depth PROVE h[i] = g[i]
    <3>1. i \in 1..Depth + 1
      BY <1>2
    <3>2. ActivationIn(stack', cells', frames[i]) = g[i]
      BY <1>2, <1>10
    <3>3. frames'[i] = frames[i]
      BY <1>5
    <3> HIDE DEF h, g, a
    <3>4. h[i] = ActivationIn(stack', cells', frames'[i])
      BY <2>1, <3>1
    <3> QED
      BY <3>2, <3>3, <3>4, Zenon
  <2> HIDE DEF h, a
  <2>5. h = Append(g, h[Depth + 1]) /\ Len(h) = Depth + 1
    BY <1>2, <2>2, <2>4, ListAppended
  <2> QED
    BY <1>2, <2>3, <2>5 DEF h
<1>13. CapturedSets' = CapturedSets
  BY AbstractState
<1>14. Members(up) \in CapturedSets \cup {{}}
  <2>1. Members(<<>>) = {}
    BY DEF Members
  <2> QED
    BY <2>1, AbstractState
<1>15. [e \in 1..x |-> v] \in UNION {[1..m -> Values] : m \in Extras}
  OBVIOUS
<1>16. \E u \in CapturedSets \cup {{}}, m \in Registers, arg \in Values,
          extra \in UNION {[1..e -> Values] : e \in Extras} :
         Activations' = Append(Activations, [regs |-> [r \in 1..m |-> IF r = 1 THEN arg ELSE Nil],
                                             extra |-> extra, up |-> u])
  BY <1>12, <1>14, <1>15, Zenon
<1> QED
  BY <1>9, <1>12, <1>13, <1>16, Zenon DEF V!Call

-----------------------------------------------------------------------------
(* New captured variables                                                  *)

\* A register after captures: its old variable, a new one, or its value.
LEMMA RegisterAfter ==
  ASSUME UInv, Depth > 0, NEW o, Kept(o), List(o.cells, Thread, o.head), NEW r \in 1..Frame.count
  PROVE  /\ V!Regs[r] \in Cells =>
              /\ HoldsIn(stack, o.cells, Thread, SlotOf(r)) = V!Regs[r]
              /\ cells[V!Regs[r]].state # "free"
         /\ V!Regs[r] \notin Cells /\ HoldsIn(stack, o.cells, Thread, SlotOf(r)) \in Cells =>
              /\ New(o, HoldsIn(stack, o.cells, Thread, SlotOf(r)))
              /\ OnRegister(o, HoldsIn(stack, o.cells, Thread, SlotOf(r)), r)
         /\ V!Regs[r] \notin Cells /\ HoldsIn(stack, o.cells, Thread, SlotOf(r)) \notin Cells =>
              HoldsIn(stack, o.cells, Thread, SlotOf(r)) = V!Regs[r]
         /\ \A c : OnRegister(o, c, r) => HoldsIn(stack, o.cells, Thread, SlotOf(r)) = c
<1> DEFINE s == SlotOf(r)
           cs == o.cells
           h == HoldsIn(stack, cs, Thread, s)
<1>1. /\ TypeOK /\ stack[Thread][s] \in Content /\ stack[Thread][s] \notin Cells
  <2>1. TypeOK /\ stack[Thread][s] \in Content
    BY RegisterSlot DEF UInv
  <2> QED
    BY <2>1, UpvaluesAssumption DEF UpvaluesAssumption, Content
<1>2. /\ \A c \in OpenOf(cells, Thread) : cells[c].slot = s => V!Regs[r] = c
      /\ (\A c \in OpenOf(cells, Thread) : cells[c].slot # s) =>
           V!Regs[r] = stack[Thread][s] /\ V!Regs[r] \notin Cells
  BY RegisterValue
<1>3. /\ \A c \in OpenOf(cells, Thread) :
           c \in OpenOf(cs, Thread) /\ cs[c].slot = cells[c].slot /\ cells[c].state # "free"
      /\ \A c \in OpenOf(cs, Thread) : cells[c].state # "free" =>
           c \in OpenOf(cells, Thread) /\ cs[c].slot = cells[c].slot
  BY DEF OpenOf, Kept
<1>4. \A c : OnRegister(o, c, r) <=> c \in OpenOf(cs, Thread) /\ cs[c].slot = s
  BY DEF OnRegister
<1>5. \A c \in OpenOf(cs, Thread) : cs[c].slot = s => h = c
  BY HoldsUpvalue
<1>6. (\A c \in OpenOf(cs, Thread) : cs[c].slot # s) => h = stack[Thread][s]
  BY HoldsValue
<1>7. \A c \in OpenOf(cs, Thread) : c \in Cells
  BY DEF OpenOf
<1>8. \A c \in OpenOf(cs, Thread) : New(o, c) <=> cells[c].state = "free"
  BY DEF OpenOf, New
<1> HIDE DEF s, cs, h
<1>9. V!Regs[r] \in Cells => h = V!Regs[r] /\ cells[V!Regs[r]].state # "free"
  BY <1>2, <1>3, <1>5
<1>10. ASSUME V!Regs[r] \notin Cells, h \in Cells PROVE New(o, h) /\ OnRegister(o, h, r)
  <2>1. PICK c \in OpenOf(cs, Thread) : cs[c].slot = s
    BY <1>1, <1>6, <1>10
  <2>2. h = c
    BY <1>5, <2>1
  <2>3. cells[c].state = "free"
    <3>1. cells[c].state # "free" => V!Regs[r] = c
      BY <1>2, <1>3, <2>1
    <3> QED
      BY <1>7, <1>10, <3>1
  <2> QED
    BY <1>4, <1>8, <2>1, <2>2, <2>3
<1>11. ASSUME V!Regs[r] \notin Cells, h \notin Cells PROVE h = V!Regs[r]
  <2>1. \A c \in OpenOf(cs, Thread) : cs[c].slot # s
    BY <1>5, <1>7, <1>11
  <2>2. \A c \in OpenOf(cells, Thread) : cells[c].slot # s
    BY <1>3, <2>1
  <2> QED
    BY <1>2, <1>6, <2>1, <2>2
<1>12. \A c : OnRegister(o, c, r) => h = c
  BY <1>4, <1>5
<1> QED
  BY <1>9, <1>10, <1>11, <1>12 DEF s, cs, h

\* The activations that are not running see nothing of the captures.
LEMMA CapturesElsewhere ==
  ASSUME UInv, Depth > 0, NEW o, Kept(o), cells' = o.cells, stack' = stack,
         \A c \in Cells : New(o, c) => \E r \in 1..Frame.count : OnRegister(o, c, r),
         NEW i \in DOMAIN frames, i # Depth
  PROVE  ActivationIn(stack', cells', frames[i]) = ActivationIn(stack, cells, frames[i])
<1>1. TypeOK
  BY DEF UInv
<1>2. ASSUME NEW t \in Threads, NEW s \in 1..Slots[t], t # Thread \/ s <= Frame.base
      PROVE  SameAt(t, s)
  <2>1. ASSUME NEW c \in Cells
        PROVE  (o.cells[c].state = "open" /\ o.cells[c].thread = t /\ o.cells[c].slot = s)
                 <=> (cells[c].state = "open" /\ cells[c].thread = t /\ cells[c].slot = s)
    <3>1. CASE cells[c].state # "free"
      BY <3>1 DEF Kept
    <3>2. CASE cells[c].state = "free"
      <4>1. ASSUME o.cells[c].state = "open", o.cells[c].thread = t, o.cells[c].slot = s PROVE FALSE
        <5>1. New(o, c)
          BY <3>2, <4>1 DEF New
        <5>2. PICK r \in 1..Frame.count : OnRegister(o, c, r)
          BY <5>1
        <5>3. t = Thread /\ s = SlotOf(r)
          BY <4>1, <5>2 DEF OnRegister, OpenOf
        <5>4. Frame.base < SlotOf(r) /\ Frame.base \in Nat /\ SlotOf(r) \in Nat
          BY <1>1, RegisterSlot
        <5> QED
          BY <1>2, <5>3, <5>4
      <4> QED
        BY <3>2, <4>1
    <3> QED
      BY <3>1, <3>2
  <2> QED
    BY <2>1 DEF SameAt
<1> QED
  BY <1>2, OthersSame

\* A register gets a variable of its own where it was captured and had none
\* (createClosure).
LEMMA CaptureMaps ==
  ASSUME UInv, Depth > 0, NEW n \in Nat, NEW captures \in [1..n -> Sources], Capture(captures),
         closures' = closures \/ closures' = closures \cup {Opened(captures).refs}
  PROVE  V!Capture
<1> DEFINE o == Opened(captures)
<1>1. Len(captures) = n
  BY SMT
<1>2. /\ n <= Room /\ cells' = o.cells /\ head' = [head EXCEPT ![Thread] = o.head]
      /\ stack' = stack /\ frames' = frames
      /\ closures' = closures \/ closures' = closures \cup {o.refs}
  BY <1>1 DEF Capture
<1>3. Behind(o, captures, n)
  BY <1>2, CapturesMade
<1> HIDE DEF o
<1>4. /\ TypeOK /\ Thread \in Threads /\ V!Depth = Depth /\ DOMAIN V!Regs = 1..Frame.count
      /\ Frame.count \in Nat /\ Frame.base \in Nat /\ head \in [Threads -> Ref]
      /\ Activations[Depth] = ActivationIn(stack, cells, Frame)
  BY RunningActivation, FrameFields DEF UInv, TypeOK, Thread
<1>5. /\ Kept(o) /\ List(o.cells, Thread, o.head)
      /\ \A c \in Cells : New(o, c) =>
           o.cells[c].value = Nil /\ \E r \in 1..Frame.count : OnRegister(o, c, r)
      /\ \A i \in 1..n : Named(o, captures[i], o.refs[i])
      /\ o.refs \in Seq(Cells) /\ Len(o.refs) = n
  <2>1. List(o.cells, Thread, [head EXCEPT ![Thread] = o.head][Thread])
    BY <1>3, <1>4 DEF Behind, Lists
  <2>2. [head EXCEPT ![Thread] = o.head][Thread] = o.head
    BY <1>4
  <2>3. List(o.cells, Thread, o.head)
    BY <2>1, <2>2
  <2> QED
    BY <1>3, <2>3 DEF Behind, Progress
<1> DEFINE h(r) == HoldsIn(stack, o.cells, Thread, SlotOf(r))
           new == {r \in 1..Frame.count : V!Regs[r] \notin Cells /\ h(r) \in Cells}
           name == [r \in new |-> h(r)]
           regs == [r \in DOMAIN V!Regs |-> IF r \in new THEN name[r] ELSE V!Regs[r]]
<1>6. ASSUME NEW r \in 1..Frame.count
      PROVE  /\ V!Regs[r] \in Cells => h(r) = V!Regs[r] /\ cells[V!Regs[r]].state # "free"
             /\ V!Regs[r] \notin Cells /\ h(r) \in Cells => New(o, h(r)) /\ OnRegister(o, h(r), r)
             /\ V!Regs[r] \notin Cells /\ h(r) \notin Cells => h(r) = V!Regs[r]
             /\ \A c : OnRegister(o, c, r) => h(r) = c
  BY <1>5, RegisterAfter
<1> HIDE DEF h
<1>7. \A r \in new : /\ r \in 1..Frame.count /\ name[r] = h(r) /\ name[r] \in Cells /\ New(o, name[r])
                     /\ OnRegister(o, name[r], r) /\ V!Regs[r] \notin Cells
  BY <1>6
<1>8. new \in SUBSET {r \in DOMAIN V!Regs : V!Regs[r] \notin Cells}
  BY <1>4
<1>9. name \in [new -> Cells \ V!InUse]
  <2>1. ASSUME NEW r \in new PROVE h(r) \in Cells \ V!InUse
    <3>1. h(r) \in Cells /\ cells[h(r)].state = "free"
      BY <1>7 DEF New
    <3>2. h(r) \notin Held
      BY <3>1 DEF UInv, HeldAllocated
    <3> QED
      BY <3>1, <3>2, InUseHeld
  <2> HIDE DEF new
  <2> QED
    BY <2>1
<1>10. \A r, q \in new : name[r] = name[q] => r = q
  <2>1. ASSUME NEW r \in new, NEW q \in new, name[r] = name[q] PROVE r = q
    <3>1. SlotOf(r) = SlotOf(q)
      BY <1>7, <2>1 DEF OnRegister
    <3>2. r \in Nat /\ q \in Nat
      BY <1>7
    <3> QED
      BY <1>4, <3>1, <3>2 DEF SlotOf
  <2> QED
    BY <2>1
<1>11. \A c \in Cells, r \in 1..Frame.count : New(o, c) /\ OnRegister(o, c, r) => r \in new /\ name[r] = c
  <2>1. ASSUME NEW c \in Cells, NEW r \in 1..Frame.count, New(o, c), OnRegister(o, c, r)
        PROVE  r \in new /\ name[r] = c
    <3>1. h(r) = c /\ cells[c].state = "free"
      BY <1>6, <2>1 DEF New
    <3>2. V!Regs[r] \notin Cells
      BY <1>6, <3>1
    <3> QED
      BY <3>1, <3>2
  <2> QED
    BY <2>1
<1>12. RegsIn(stack, o.cells, Frame) = regs
  <2>1. \A r \in 1..Frame.count : h(r) = IF r \in new THEN name[r] ELSE V!Regs[r]
    BY <1>6
  <2>2. RegsIn(stack, o.cells, Frame) = [r \in 1..Frame.count |-> h(r)]
    BY Zenon DEF RegsIn, h, Thread, SlotOf
  <2> HIDE DEF new, name
  <2> QED
    BY <1>4, <2>1, <2>2, Zenon
<1> HIDE DEF new, name
<1>13. Contents' = [c \in Cells |-> IF \E r \in new : name[r] = c
                                    THEN V!Regs[CHOOSE r \in new : name[r] = c] ELSE Contents[c]]
  <2>1. ASSUME NEW c \in Cells, NEW r \in new, name[r] = c
        PROVE  ContentIn(stack, o.cells, c) = V!Regs[r]
    <3>1. r \in 1..Frame.count /\ OnRegister(o, c, r) /\ V!Regs[r] \notin Cells
      BY <1>7, <2>1
    <3>2. ContentIn(stack, o.cells, c) = stack[Thread][SlotOf(r)]
      BY <3>1 DEF ContentIn, OnRegister, OpenOf
    <3>3. V!Value(V!Regs[r]) = stack[Thread][SlotOf(r)]
      BY <3>1, RegisterValue
    <3> QED
      BY <3>1, <3>2, <3>3 DEF V!Value
  <2>2. ASSUME NEW c \in Cells, \A r \in new : name[r] # c
        PROVE  ContentIn(stack, o.cells, c) = ContentIn(stack, cells, c)
    <3>1. CASE cells[c].state # "free"
      BY <1>5, <3>1 DEF Kept, ContentIn
    <3>2. CASE cells[c].state = "free"
      <4>1. ~New(o, c)
        BY <1>5, <1>11, <2>2
      <4> QED
        BY <3>2, <4>1 DEF New, ContentIn
    <3> QED
      BY <3>1, <3>2
  <2>3. /\ Contents = [c \in Cells |-> ContentIn(stack, cells, c)]
        /\ Contents' = [c \in Cells |-> ContentIn(stack, o.cells, c)]
    BY <1>2, AbstractState
  <2>4. ASSUME NEW c \in Cells
        PROVE  ContentIn(stack, o.cells, c) = IF \E r \in new : name[r] = c
                 THEN V!Regs[CHOOSE r \in new : name[r] = c] ELSE Contents[c]
    <3>1. CASE \E r \in new : name[r] = c
      <4> DEFINE r == CHOOSE r \in new : name[r] = c
      <4>1. r \in new /\ name[r] = c
        BY <3>1
      <4> HIDE DEF r
      <4>2. ContentIn(stack, o.cells, c) = V!Regs[r]
        BY <2>1, <4>1
      <4> QED
        BY <3>1, <4>2 DEF r
    <3>2. CASE \A r \in new : name[r] # c
      <4>1. ContentIn(stack, o.cells, c) = ContentIn(stack, cells, c)
        BY <2>2, <3>2
      <4>2. Contents[c] = ContentIn(stack, cells, c)
        BY <2>3
      <4> QED
        BY <3>2, <4>1, <4>2
    <3> QED
      BY <3>1, <3>2
  <2> QED
    BY <2>3, <2>4, Zenon
<1>14. Activations' = V!WithRegs(regs)
  <2>1. \A i \in DOMAIN frames : i # Depth =>
          ActivationIn(stack', cells', frames[i]) = ActivationIn(stack, cells, frames[i])
    BY <1>2, <1>5, CapturesElsewhere
  <2>2. \A x \in 1..Frame.extra : stack'[Thread][Frame.base + Frame.count + x]
                                    = stack[Thread][Frame.base + Frame.count + x]
    BY <1>2
  <2>3. Activations' = V!WithRegs(RegsIn(stack', cells', Frame))
    BY <1>2, <2>1, <2>2, RegistersChanged
  <2>4. RegsIn(stack', cells', Frame) = regs
    BY <1>2, <1>12
  <2> QED
    BY <2>3, <2>4, Zenon
<1>15. Members(o.refs) \in SUBSET ((Cells \cap V!Members(regs)) \cup Activations[V!Depth].up)
  <2>1. ASSUME NEW i \in 1..n
        PROVE  o.refs[i] \in (Cells \cap V!Members(regs)) \cup Activations[V!Depth].up
    <3>1. captures[i] \in Sources /\ Named(o, captures[i], o.refs[i])
      BY <1>5
    <3>2. CASE captures[i][1] = "upvalue" /\ captures[i][2] \in DOMAIN Frame.up
      <4>1. o.refs[i] \in Members(Frame.up)
        BY <3>1, <3>2 DEF Named, Members
      <4>2. Activations[V!Depth].up = Members(Frame.up)
        BY <1>4 DEF ActivationIn
      <4> QED
        BY <4>1, <4>2
    <3>3. CASE captures[i][1] # "upvalue" /\ captures[i][2] \in 1..Frame.count
      <4> DEFINE r == captures[i][2]
      <4>1. o.refs[i] \in Cells /\ OnRegister(o, o.refs[i], r)
        BY <3>1, <3>3 DEF Named
      <4>2. h(r) = o.refs[i]
        BY <1>6, <3>3, <4>1
      <4>3. regs[r] = h(r) /\ r \in DOMAIN regs
        <5>1. RegsIn(stack, o.cells, Frame)[r] = h(r)
          BY <3>3 DEF RegsIn, h, Thread, SlotOf
        <5>2. r \in DOMAIN regs
          BY <1>4, <3>3
        <5> QED
          BY <1>12, <5>1, <5>2
      <4> HIDE DEF regs, r
      <4>4. o.refs[i] \in V!Members(regs)
        BY <4>2, <4>3 DEF V!Members
      <4> QED
        BY <4>1, <4>4
    <3> QED
      BY <3>1, <3>2, <3>3, SourceFields
  <2>2. DOMAIN o.refs = 1..n
    BY <1>5
  <2> HIDE DEF regs
  <2> QED
    BY <2>1, <2>2 DEF Members
<1>16. CapturedSets' = CapturedSets \/ CapturedSets' = CapturedSets \cup {Members(o.refs)}
  <2>1. CASE closures' = closures
    BY <2>1, AbstractState
  <2>2. CASE closures' = closures \cup {o.refs}
    BY <2>2, AbstractState
  <2> QED
    BY <1>2, <2>1, <2>2
<1>17. UNCHANGED CapturedSets
       \/ \E up \in SUBSET ((Cells \cap V!Members(regs)) \cup Activations[V!Depth].up) :
            CapturedSets' = CapturedSets \cup {up}
  BY <1>15, <1>16, Zenon
<1>18. V!Depth > 0
  BY <1>4
<1> DEFINE Made(nw, nm) ==
             LET rs == [r \in DOMAIN V!Regs |-> IF r \in nw THEN nm[r] ELSE V!Regs[r]] IN
             /\ \A r, q \in nw : nm[r] = nm[q] => r = q
             /\ Contents' = [c \in Cells |-> IF \E r \in nw : nm[r] = c
                                             THEN V!Regs[CHOOSE r \in nw : nm[r] = c] ELSE Contents[c]]
             /\ Activations' = V!WithRegs(rs)
             /\ \/ UNCHANGED CapturedSets
                \/ \E up \in SUBSET ((Cells \cap V!Members(rs)) \cup Activations[V!Depth].up) :
                     CapturedSets' = CapturedSets \cup {up}
<1>19. Made(new, name)
  BY <1>10, <1>13, <1>14, <1>17, Zenon
<1>20. \E nw \in SUBSET {r \in DOMAIN V!Regs : V!Regs[r] \notin Cells} :
       \E nm \in [nw -> Cells \ V!InUse] : Made(nw, nm)
  <2> HIDE DEF Made
  <2> QED
    BY <1>8, <1>9, <1>19
<1> QED
  BY <1>18, <1>20, Zenon DEF V!Capture

-----------------------------------------------------------------------------
(* The refinement                                                          *)

\* No activations, no captured variables.
LEMMA InitMaps == Init => V!Init
<1> SUFFICES ASSUME Init PROVE V!Init
  OBVIOUS
<1>1. frames = <<>> /\ closures = {} /\ \A c \in Cells : cells[c].state = "free"
  BY DEF Init, Blank
<1>2. Activations = <<>>
  BY <1>1, AbstractState
<1>3. Contents = [c \in Cells |-> Nil]
  BY <1>1, AbstractState DEF ContentIn
<1>4. CapturedSets = {}
  BY <1>1, AbstractState
<1> QED
  BY <1>2, <1>3, <1>4 DEF V!Init

\* An instruction, on the program's variables.
LEMMA InstructionMaps == UInv /\ Instruction => V!Instruction \/ V!Capture
<1> SUFFICES ASSUME UInv, Instruction PROVE V!Instruction \/ V!Capture
  OBVIOUS
<1>1. /\ Depth > 0 /\ V!Depth > 0 /\ DOMAIN V!Regs = 1..Frame.count
      /\ Activations[V!Depth].up = Members(Frame.up)
  BY RunningActivation DEF Instruction, UInv, ActivationIn
<1>2. ASSUME NEW r \in 1..Frame.count, NEW i \in DOMAIN Frame.up, GetUpvalue(r, i)
      PROVE  V!Instruction
  <2>1. Get(Frame.up[i]) \in Content
    BY <1>1, RunningUpvalue, GetContent DEF UInv
  <2>2. V!SetRegister(r, Get(Frame.up[i]))
    BY <1>1, <1>2, <2>1, SetRegisterMaps DEF GetUpvalue
  <2> QED
    BY <1>1, <2>1, <2>2 DEF V!Instruction, V!Content, Content
<1>3. ASSUME NEW r \in 1..Frame.count, NEW i \in DOMAIN Frame.up, SetUpvalue(r, i)
      PROVE  V!Instruction
  <2>1. V!SetUpvalue(Frame.up[i], r)
    BY <1>1, <1>3, SetUpvalueMaps
  <2>2. Frame.up[i] \in Activations[V!Depth].up
    BY <1>1 DEF Members
  <2> QED
    BY <1>1, <2>1, <2>2 DEF V!Instruction
<1>4. ASSUME NEW n \in Captures \ {0}, NEW captures \in [1..n -> Sources], Closure(captures)
      PROVE  V!Capture
  <2>1. n \in Nat
    BY UpvaluesAssumption DEF UpvaluesAssumption
  <2> QED
    BY <1>1, <1>4, <2>1, CaptureMaps DEF Closure
<1>5. ASSUME NEW r \in 1..Frame.count, Close(r) PROVE V!Instruction
  BY <1>1, <1>5, CloseMaps DEF V!Instruction
<1> QED
  BY <1>2, <1>3, <1>4, <1>5 DEF Instruction

\* A step does one thing to the program's variables, or nothing.
LEMMA StepMaps == UInv /\ [Next]_vars => [V!Next]_V!vars
<1> SUFFICES ASSUME UInv, [Next]_vars PROVE V!Next \/ UNCHANGED V!vars
  OBVIOUS
<1>1. TypeOK
  BY DEF UInv
<1>2. ASSUME Depth > 0, NEW r \in 1..Frame.count, NEW v \in Content, SetRegister(r, v)
      PROVE  V!Instruction
  <2>1. V!Depth > 0 /\ r \in DOMAIN V!Regs
    BY <1>1, <1>2, RunningActivation
  <2>2. V!SetRegister(r, v)
    BY <1>2, SetRegisterMaps
  <2> QED
    BY <2>1, <2>2 DEF V!Instruction, V!Content, Content
<1>3. CASE Move
  BY <1>2, <1>3 DEF Move, Content, V!Next
<1>4. CASE Vararg
  <2>1. PICK r \in 1..Frame.count, x \in 1..Frame.extra :
          Depth > 0 /\ SetRegister(r, stack[Thread][SlotOf(Frame.count + x)])
    BY <1>4 DEF Vararg
  <2> QED
    BY <1>1, <1>2, <2>1, ExtraSlot DEF V!Next
<1>5. CASE ClosureFails
  <2>1. PICK r \in 1..Frame.count :
          Depth > 0 /\ Capture(<<<<"local", r>>>>) /\ UNCHANGED closures
    BY <1>5 DEF ClosureFails
  <2>2. <<<<"local", r>>>> \in [1..1 -> Sources]
    BY DEF Sources
  <2> QED
    BY <2>1, <2>2, CaptureMaps DEF V!Next
<1>6. CASE UNCHANGED vars
  <2>1. frames' = frames /\ stack' = stack /\ cells' = cells /\ closures' = closures
    BY <1>6 DEF vars
  <2>2. Activations' = Activations /\ Contents' = Contents /\ CapturedSets' = CapturedSets
    BY <2>1, AbstractState, Zenon
  <2> QED
    BY <2>2 DEF V!vars
<1> QED
  BY <1>3, <1>4, <1>5, <1>6, CallMaps, ReturnMaps, RestoreSnapshotMaps, InstructionMaps,
     DropClosureMaps, CollectMaps DEF Next, V!Next

\* Slots, windows and open lists implement captured variables: whatever is
\* called, captured, closed, returned, raised and collected in which order and on
\* which thread, an activation has its own variables, the closures that capture
\* one share it, and it outlives the activation.
THEOREM VariablesAreShared == Spec => VariablesShared
<1>1. UInv /\ [Next]_vars => [V!Next]_V!vars
  BY StepMaps
<1> QED
  BY <1>1, InitMaps, Invariance, PTL DEF Spec, VariablesShared, V!Spec

\* The upvalues of a new closure are those its instruction lists.
LEMMA CapturesNamed ==
  ASSUME UInv, Depth > 0, NEW n \in Nat, NEW captures \in [1..n -> Sources], Capture(captures),
         NEW i \in 1..n
  PROVE  Opened(captures).refs[i] = IF captures[i][1] = "upvalue" THEN Frame.up[captures[i][2]]
                                    ELSE Activation(Frame)'.regs[captures[i][2]]
<1> DEFINE o == Opened(captures)
<1>1. Len(captures) = n
  BY SMT
<1>2. n <= Room /\ cells' = o.cells /\ stack' = stack /\ frames' = frames
  BY <1>1 DEF Capture
<1>3. Behind(o, captures, n)
  BY <1>2, CapturesMade
<1> HIDE DEF o
<1>4. TypeOK /\ Thread \in Threads /\ head \in [Threads -> Ref]
  BY RunningFrame, FrameFields DEF UInv, TypeOK
<1>5. Kept(o) /\ List(o.cells, Thread, o.head)
  <2>1. List(o.cells, Thread, [head EXCEPT ![Thread] = o.head][Thread])
    BY <1>3, <1>4 DEF Behind, Lists
  <2>2. [head EXCEPT ![Thread] = o.head][Thread] = o.head
    BY <1>4
  <2>3. List(o.cells, Thread, o.head)
    BY <2>1, <2>2
  <2> QED
    BY <1>3, <2>3 DEF Behind
<1>6. captures[i] \in Sources /\ Named(o, captures[i], o.refs[i])
  BY <1>3 DEF Behind
<1>7. CASE captures[i][1] = "upvalue"
  BY <1>6, <1>7 DEF Named, o
<1>8. CASE captures[i][1] # "upvalue" /\ captures[i][2] \in 1..Frame.count
  <2> DEFINE r == captures[i][2]
  <2>1. HoldsIn(stack, o.cells, Thread, SlotOf(r)) = o.refs[i]
    BY <1>5, <1>6, <1>8, RegisterAfter DEF Named
  <2>2. Activation(Frame)' = ActivationIn(stack', cells', Frame')
    BY Zenon DEF Activation, Holds, Open, ActivationIn, RegsIn, ExtraIn, HoldsIn, On, Members
  <2>3. Frame' = Frame
    BY <1>2 DEF Frame, Depth
  <2>4. Activation(Frame)' = ActivationIn(stack, o.cells, Frame)
    BY <1>2, <2>2, <2>3
  <2> HIDE DEF r
  <2>5. Activation(Frame)'.regs = RegsIn(stack, o.cells, Frame)
    BY <2>4 DEF ActivationIn
  <2>6. Activation(Frame)'.regs[r] = o.refs[i]
    BY <1>8, <2>1, <2>5 DEF RegsIn, Thread, SlotOf, r
  <2> QED
    BY <1>8, <2>6 DEF r, o
<1> QED
  BY <1>6, <1>7, <1>8, SourceFields

\* An instruction does what its operands name (GETUPVAL, SETUPVAL, CLOSE, CLOSURE),
\* also where two threads have variables on the same slot.
THEOREM OperandsAreKept == Spec => OperandsKept
<1> DEFINE Obeyed ==
      Depth > 0 =>
       /\ \A r \in 1..Frame.count, i \in DOMAIN Frame.up :
            /\ GetUpvalue(r, i) => V!SetRegister(r, Get(Frame.up[i]))
            /\ SetUpvalue(r, i) => V!SetUpvalue(Frame.up[i], r)
       /\ \A r \in 1..Frame.count : Close(r) => V!EndBlock(r)
       /\ \A n \in Captures \ {0} : \A captures \in [1..n -> Sources] :
            Closure(captures) => \A i \in 1..n :
              Opened(captures).refs[i] =
                IF captures[i][1] = "upvalue" THEN Frame.up[captures[i][2]]
                ELSE Activation(Frame)'.regs[captures[i][2]]
<1>1. UInv => Obeyed
  <2> SUFFICES ASSUME UInv, Depth > 0 PROVE Obeyed
    OBVIOUS
  <2>1. ASSUME NEW r \in 1..Frame.count, NEW i \in DOMAIN Frame.up
        PROVE  /\ GetUpvalue(r, i) => V!SetRegister(r, Get(Frame.up[i]))
               /\ SetUpvalue(r, i) => V!SetUpvalue(Frame.up[i], r)
    <3>1. Get(Frame.up[i]) \in Content
      BY RunningUpvalue, GetContent DEF UInv
    <3> QED
      BY <3>1, SetRegisterMaps, SetUpvalueMaps DEF GetUpvalue
  <2>2. ASSUME NEW r \in 1..Frame.count PROVE Close(r) => V!EndBlock(r)
    BY CloseMaps
  <2>3. ASSUME NEW n \in Captures \ {0}, NEW captures \in [1..n -> Sources], Closure(captures),
               NEW i \in 1..n
        PROVE  Opened(captures).refs[i] = IF captures[i][1] = "upvalue" THEN Frame.up[captures[i][2]]
                                          ELSE Activation(Frame)'.regs[captures[i][2]]
    <3>1. n \in Nat
      BY UpvaluesAssumption DEF UpvaluesAssumption
    <3> QED
      BY <2>3, <3>1, CapturesNamed DEF Closure
  <2> QED
    BY <2>1, <2>2, <2>3
<1>2. UInv /\ [Next]_vars => [Obeyed]_vars
  BY <1>1
<1> QED
  BY <1>2, Invariance, PTL DEF Spec, OperandsKept
=============================================================================
