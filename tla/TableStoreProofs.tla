--------------------------- MODULE TableStoreProofs ---------------------------
(***************************************************************************)
(* Proofs about TableStore: the hash part is a map that every search finds *)
(* its way in, and stays one through insertion, deletion and rehashing;    *)
(* the table is the map its assignments make; its length is a border; what *)
(* is cached by slot is what a search would find.                          *)
(***************************************************************************)
EXTENDS TableStore, WellFoundedInduction, FiniteSetTheorems, SequenceTheorems, TLAPS

(***************************************************************************)
(* Induction over the natural numbers, for sets, and loops.                *)
(***************************************************************************)
\* A set with 0 that has the successor of each of its numbers has them all.
LEMMA NatSetInduction ==
  ASSUME NEW S, 0 \in S, \A n \in Nat : n \in S => n + 1 \in S
  PROVE  \A n \in Nat : n \in S
<1> DEFINE T == Nat \ S
<1> SUFFICES ASSUME T # {} PROVE FALSE
  OBVIOUS
<1>1. IsWellFoundedOn(OpToRel(<, Nat), Nat)
  BY NatLessThanWellFounded
<1>2. PICK x \in T : \A y \in T : ~(<<y, x>> \in OpToRel(<, Nat))
  <2>1. T \subseteq Nat
    OBVIOUS
  <2> HIDE DEF T
  <2> QED
    BY <1>1, <2>1, WFMin
<1>3. x # 0 /\ x - 1 \in Nat /\ x - 1 < x
  OBVIOUS
<1>4. x - 1 \notin T
  <2>1. x - 1 \in T => <<x - 1, x>> \in OpToRel(<, Nat)
    BY <1>3 DEF OpToRel
  <2> QED
    BY <1>2, <2>1
<1>5. (x - 1) + 1 = x
  OBVIOUS
<1> QED
  BY <1>3, <1>4, <1>5

\* A number of a set is its smallest.
LEMMA Smallest ==
  ASSUME NEW S, S \subseteq Nat, S # {}
  PROVE  \E m \in S : \A n \in S : m <= n
<1> SUFFICES ASSUME \A m \in S : \E n \in S : n < m PROVE FALSE
  OBVIOUS
<1> DEFINE T == {n \in Nat : \A m \in S : n <= m}
<1>1. 0 \in T
  OBVIOUS
<1>2. ASSUME NEW n \in Nat, n \in T PROVE n + 1 \in T
  <2>1. n \notin S
    BY <1>2
  <2>2. \A m \in S : n <= m /\ m # n /\ m \in Nat
    BY <1>2, <2>1
  <2> QED
    BY <2>2
<1> HIDE DEF T
<1>3. \A n \in Nat : n \in T
  BY <1>1, <1>2, NatSetInduction
<1>4. \A n \in Nat : \A m \in S : n <= m
  BY <1>3 DEF T
<1>5. PICK m \in S : TRUE
  OBVIOUS
<1>6. m + 1 <= m /\ m \in Nat
  BY <1>4
<1> QED
  BY <1>6

\* The value a loop over D computes: a result where it is done, else that of the next turn.
LoopRule(f, d, done, result, turn) == IF d \in done THEN result[d] ELSE f[turn[d]]
Loops(f, D, done, result, turn) == f = [d \in D |-> LoopRule(f, d, done, result, turn)]
LoopsBelow(f, n, D, size, done, result, turn) ==
  \A d \in D : size[d] < n => f[d] = LoopRule(f, d, done, result, turn)

\* What a loop computes does not depend on how far its turns have been followed.
LEMMA LoopAgrees ==
  ASSUME NEW D, NEW size \in [D -> Nat], NEW done, NEW result, NEW turn,
         \A d \in D \ done : turn[d] \in D /\ size[turn[d]] < size[d],
         NEW m \in Nat, NEW f, LoopsBelow(f, m, D, size, done, result, turn),
         NEW n \in Nat, NEW g, LoopsBelow(g, n, D, size, done, result, turn)
  PROVE  \A d \in D : size[d] < m /\ size[d] < n => f[d] = g[d]
<1> DEFINE S == {k \in Nat : \A d \in D : size[d] < k /\ size[d] < m /\ size[d] < n => f[d] = g[d]}
<1>1. 0 \in S
  OBVIOUS
<1>2. ASSUME NEW k \in Nat, k \in S PROVE k + 1 \in S
  <2>1. ASSUME NEW d \in D, size[d] < k + 1, size[d] < m, size[d] < n PROVE f[d] = g[d]
    <3>1. /\ f[d] = IF d \in done THEN result[d] ELSE f[turn[d]]
          /\ g[d] = IF d \in done THEN result[d] ELSE g[turn[d]]
      BY <2>1 DEF LoopsBelow, LoopRule
    <3>2. CASE d \in done
      BY <3>1, <3>2
    <3>3. CASE d \notin done
      <4>1. turn[d] \in D /\ size[turn[d]] < k /\ size[turn[d]] < m /\ size[turn[d]] < n
        BY <2>1, <3>3
      <4>2. f[turn[d]] = g[turn[d]]
        BY <1>2, <4>1
      <4> QED
        BY <3>1, <3>3, <4>2
    <3> QED
      BY <3>2, <3>3
  <2> QED
    BY <2>1
<1> HIDE DEF S
<1>3. m \in S
  BY <1>1, <1>2, NatSetInduction
<1> QED
  BY <1>3 DEF S

\* A loop whose turns come closer to the end computes something.
LEMMA LoopDefined ==
  ASSUME NEW D, NEW size \in [D -> Nat], NEW done, NEW result, NEW turn,
         \A d \in D \ done : turn[d] \in D /\ size[turn[d]] < size[d]
  PROVE  \E f : Loops(f, D, done, result, turn)
<1> DEFINE Below(f, n) == LoopsBelow(f, n, D, size, done, result, turn)
           S == {n \in Nat : \E f : Below(f, n)}
<1>1. 0 \in S
  BY DEF LoopsBelow
<1>2. ASSUME NEW n \in Nat, n \in S PROVE n + 1 \in S
  <2>1. PICK f : Below(f, n)
    BY <1>2
  <2> DEFINE g == [d \in D |-> IF size[d] < n THEN f[d] ELSE LoopRule(f, d, done, result, turn)]
  <2>2. ASSUME NEW d \in D, size[d] < n + 1 PROVE g[d] = LoopRule(g, d, done, result, turn)
    <3>1. g[d] = LoopRule(f, d, done, result, turn)
      BY <2>1, <2>2 DEF LoopsBelow
    <3>2. d \notin done => g[turn[d]] = f[turn[d]]
      <4>1. d \notin done => turn[d] \in D /\ size[turn[d]] < n
        BY <2>2
      <4> QED
        BY <4>1
    <3> HIDE DEF g
    <3> QED
      BY <3>1, <3>2 DEF LoopRule
  <2> HIDE DEF g
  <2>3. Below(g, n + 1)
    BY <2>2 DEF LoopsBelow
  <2> QED
    BY <2>3
<1> HIDE DEF S
<1>3. \A n \in Nat : \E f : Below(f, n)
  <2>1. \A n \in Nat : n \in S
    BY <1>1, <1>2, NatSetInduction
  <2> QED
    BY <2>1 DEF S
<1> DEFINE at == [n \in Nat |-> CHOOSE f : Below(f, n)]
           h == [d \in D |-> at[size[d] + 1][d]]
<1>4. \A n \in Nat : Below(at[n], n)
  BY <1>3
<1> HIDE DEF at
<1>5. ASSUME NEW d \in D PROVE h[d] = LoopRule(h, d, done, result, turn)
  <2>1. size[d] + 1 \in Nat /\ size[d] < size[d] + 1
    OBVIOUS
  <2>2. h[d] = LoopRule(at[size[d] + 1], d, done, result, turn)
    <3>1. Below(at[size[d] + 1], size[d] + 1)
      BY <1>4, <2>1
    <3> QED
      BY <2>1, <3>1 DEF LoopsBelow
  <2>3. ASSUME d \notin done PROVE h[turn[d]] = at[size[d] + 1][turn[d]]
    <3> DEFINE e == turn[d]
    <3>1. e \in D /\ size[e] + 1 \in Nat /\ size[e] < size[e] + 1 /\ size[e] < size[d] + 1
      BY <2>3
    <3>2. h[e] = at[size[e] + 1][e]
      BY <3>1
    <3>3. Below(at[size[e] + 1], size[e] + 1) /\ Below(at[size[d] + 1], size[d] + 1)
      BY <1>4, <2>1, <3>1
    <3> HIDE DEF e, h
    <3>4. at[size[e] + 1][e] = at[size[d] + 1][e]
      <4> DEFINE a == at[size[e] + 1]
                 b == at[size[d] + 1]
                 m == size[e] + 1
                 n == size[d] + 1
      <4>1. /\ m \in Nat /\ n \in Nat /\ size[e] < m /\ size[e] < n
            /\ LoopsBelow(a, m, D, size, done, result, turn)
            /\ LoopsBelow(b, n, D, size, done, result, turn)
        BY <2>1, <3>1, <3>3
      <4> HIDE DEF a, b, m, n
      <4>2. \A q \in D : size[q] < m /\ size[q] < n => a[q] = b[q]
        BY <4>1, LoopAgrees
      <4>3. a[e] = b[e]
        BY <3>1, <4>1, <4>2
      <4> QED
        BY <4>3 DEF a, b
    <3> QED
      BY <3>2, <3>4 DEF e
  <2> HIDE DEF h
  <2> QED
    BY <2>2, <2>3 DEF LoopRule
<1>6. h = [d \in D |-> h[d]]
  OBVIOUS
<1> HIDE DEF h
<1>7. h = [d \in D |-> LoopRule(h, d, done, result, turn)]
  BY <1>5, <1>6, Zenon
<1> QED
  BY <1>7, Zenon DEF Loops

\* It ends where it is done, with all that its turns keep.
LEMMA LoopEnds ==
  ASSUME NEW D, NEW size \in [D -> Nat], NEW done, NEW result, NEW turn,
         \A d \in D \ done : turn[d] \in D /\ size[turn[d]] < size[d],
         NEW f, Loops(f, D, done, result, turn),
         NEW P, P \subseteq D, \A d \in P \ done : turn[d] \in P,
         NEW d \in P
  PROVE  \E e \in P \cap done : f[d] = result[e]
<1> DEFINE S == {n \in Nat : \A c \in P : size[c] < n => \E e \in P \cap done : f[c] = result[e]}
<1>1. 0 \in S
  OBVIOUS
<1>2. ASSUME NEW n \in Nat, n \in S PROVE n + 1 \in S
  <2>1. ASSUME NEW c \in P, size[c] < n + 1 PROVE \E e \in P \cap done : f[c] = result[e]
    <3>1. f[c] = IF c \in done THEN result[c] ELSE f[turn[c]]
      <4>1. f = [q \in D |-> LoopRule(f, q, done, result, turn)]
        BY Zenon DEF Loops
      <4>2. f[c] = LoopRule(f, c, done, result, turn)
        BY <4>1, Zenon
      <4> QED
        BY <4>2 DEF LoopRule
    <3>2. CASE c \in done
      BY <3>1, <3>2
    <3>3. CASE c \notin done
      <4>1. turn[c] \in P /\ size[turn[c]] < n
        BY <2>1, <3>3
      <4> QED
        BY <1>2, <3>1, <3>3, <4>1
    <3> QED
      BY <3>2, <3>3
  <2> QED
    BY <2>1
<1> HIDE DEF S
<1>3. size[d] + 1 \in S
  BY <1>1, <1>2, NatSetInduction
<1> QED
  BY <1>3 DEF S


-----------------------------------------------------------------------------
(* Slots and probes                                                        *)

Slot == {Empty, Deleted} \cup {Entry(k, v) : k \in Keys, v \in Values}
Parts(c) == [0..c - 1 -> Slot]

\* A slot is one of three things.
LEMMA SlotFields ==
  ASSUME NEW e \in Slot
  PROVE  \/ /\ e.ctrl = "full" /\ e.key \in Keys /\ e.value \in Values
            /\ e = Entry(e.key, e.value) /\ e.key # Nil /\ e.value # Nil
         \/ e.ctrl \in {"empty", "deleted"} /\ e.key = Nil /\ e.value = Nil /\ Nil \notin Keys
BY TableAssumption DEF TableAssumption, Slot, Empty, Deleted, Entry

\* The capacity of a part.
LEMMA PartFields ==
  ASSUME NEW c \in Nat, NEW part \in Parts(c)
  PROVE  /\ Capacity(part) = c /\ DOMAIN part = 0..c - 1
         /\ part = NoPart <=> c = 0
         /\ \A p \in 0..c - 1 : part[p] \in Slot
<1>1. DOMAIN part = 0..c - 1 /\ \A p \in 0..c - 1 : part[p] \in Slot
  BY DEF Parts
<1>2. Cardinality(0..c - 1) = c
  BY FS_Interval
<1>3. DOMAIN NoPart = {}
  BY DEF NoPart, EmptyPart
<1>4. c = 0 => part = NoPart
  BY <1>1 DEF NoPart, EmptyPart, Parts
<1>5. c # 0 => 0 \in 0..c - 1
  OBVIOUS
<1> QED
  BY <1>1, <1>2, <1>3, <1>4, <1>5 DEF Capacity

\* Where the n-th probe for a key looks.
Probe(c, k, n) == (Hash[k] + n) % c

\* Probes visit every slot once.
LEMMA ProbeFields ==
  ASSUME NEW c \in Nat, c > 0, NEW k \in Keys
  PROVE  /\ \A n \in Nat : Probe(c, k, n) \in 0..c - 1
         /\ \A n, m \in 0..c - 1 : Probe(c, k, n) = Probe(c, k, m) => n = m
         /\ \A p \in 0..c - 1 : \E n \in 0..c - 1 : Probe(c, k, n) = p
<1> DEFINE h == Hash[k]
<1>1. h \in Nat
  BY TableAssumption DEF TableAssumption
<1> HIDE DEF h
<1>2. \A n \in Nat : (h + n) % c \in 0..c - 1
  BY <1>1
<1>3. ASSUME NEW n \in 0..c - 1, NEW m \in 0..c - 1, (h + n) % c = (h + m) % c PROVE n = m
  <2> DEFINE x == (h + n) \div c
             y == (h + m) \div c
             r == (h + n) % c
  <2>1. /\ h + n = c * x + r /\ x \in Nat
        /\ h + m = c * y + r /\ y \in Nat /\ r \in Nat
    BY <1>1, <1>3
  <2> HIDE DEF x, y, r
  <2>2. CASE x = y
    BY <1>1, <2>1, <2>2
  <2>3. CASE x > y
    <3>1. c * x >= c * (y + 1)
      BY <2>1, <2>3
    <3>2. c * (y + 1) = c * y + c
      BY <2>1
    <3> QED
      BY <1>1, <2>1, <3>1, <3>2
  <2>4. CASE x < y
    <3>1. c * y >= c * (x + 1)
      BY <2>1, <2>4
    <3>2. c * (x + 1) = c * x + c
      BY <2>1
    <3> QED
      BY <1>1, <2>1, <3>1, <3>2
  <2> QED
    BY <2>1, <2>2, <2>3, <2>4
<1>4. ASSUME NEW p \in 0..c - 1 PROVE \E n \in 0..c - 1 : (h + n) % c = p
  <2> DEFINE q == h \div c
             r == h % c
  <2>1. h = c * q + r /\ q \in Nat /\ r \in 0..c - 1
    BY <1>1
  <2> HIDE DEF q, r
  <2>2. CASE r <= p
    <3>1. h + (p - r) = c * q + p /\ p - r \in 0..c - 1
      BY <1>1, <2>1, <2>2
    <3>2. (c * q + p) % c = p
      BY <2>1
    <3> QED
      BY <3>1, <3>2
  <2>3. CASE p < r
    <3>1. h + (p + c - r) = c * q + c + p /\ p + c - r \in 0..c - 1
      BY <1>1, <2>1, <2>3
    <3>2. c * q + c = c * (q + 1)
      BY <2>1
    <3>3. (c * (q + 1) + p) % c = p
      BY <2>1
    <3>4. (h + (p + c - r)) % c = p
      BY <2>1, <3>1, <3>2, <3>3
    <3> QED
      BY <3>1, <3>4
  <2> QED
    BY <2>1, <2>2, <2>3
<1> QED
  BY <1>2, <1>3, <1>4 DEF Probe, h

\* A search for k goes on behind its n-th probe; the search that finds p.
GoesOn(part, c, k, n) == part[Probe(c, k, n)].ctrl # "empty" /\ part[Probe(c, k, n)].key # k
Reached(part, c, k, p) ==
  \E n \in 0..c - 1 : Probe(c, k, n) = p /\ \A m \in 0..n - 1 : GoesOn(part, c, k, m)

Full(part) == {p \in DOMAIN part : part[p].ctrl = "full"}
Sound(part, c) == \A p \in Full(part) : Reached(part, c, part[p].key, p)

\* Where a search stops, and the slot it leaves for a new entry.
Stopped(part, c, k, s) ==
  /\ s \in 0..c /\ \A m \in 0..s - 1 : GoesOn(part, c, k, m)
  /\ s # c => ~GoesOn(part, c, k, s)
LeftFor(part, c, k, s, p) ==
  \/ \E n \in 0..s - 1 : part[Probe(c, k, n)].ctrl = "deleted" /\ p = Probe(c, k, n)
  \/ (\A n \in 0..s - 1 : part[Probe(c, k, n)].ctrl # "deleted") /\ p = Probe(c, k, s)

\* What the search computes (findEntry).
LEMMA FindEntryIs ==
  ASSUME NEW c \in Nat, c > 0, NEW part \in Parts(c), NEW k \in Keys
  PROVE  \E s : /\ Stopped(part, c, k, s)
                /\ FindEntry(part, k).found <=> s # c /\ part[Probe(c, k, s)].key = k
                /\ FindEntry(part, k).found => FindEntry(part, k).slot = Probe(c, k, s)
                /\ ~FindEntry(part, k).found => LeftFor(part, c, k, s, FindEntry(part, k).slot)
                /\ FindEntry(part, k) = [found |-> FindEntry(part, k).found,
                                         slot |-> FindEntry(part, k).slot]
                /\ FindEntry(part, k).found \in BOOLEAN
<1>1. Capacity(part) = c
  BY PartFields
<1> DEFINE d == Capacity(part)
           At(n) == (Hash[k] + n) % d
           Stops(n) == /\ n = d \/ part[At(n)].ctrl = "empty" \/ part[At(n)].key = k
                       /\ \A n2 \in 0..(n - 1) : part[At(n2)].ctrl # "empty" /\ part[At(n2)].key # k
           s == CHOOSE n \in 0..(d - 1) \cup {d} : Stops(n)
           free == {n \in 0..(s - 1) : part[At(n)].ctrl = "deleted"}
           found == s < d /\ part[At(s)].key = k
           slot == At(IF found \/ free = {} THEN s ELSE Min(free))
<1>2. FindEntry(part, k) = [found |-> found, slot |-> slot]
  BY Zenon DEF FindEntry
<1>3. d = c
  BY <1>1
<1> HIDE DEF d
<1>4. \E n \in 0..(d - 1) \cup {d} : Stops(n)
  <2> DEFINE S == {n \in 0..(d - 1) \cup {d} : n = d \/ part[At(n)].ctrl = "empty" \/ part[At(n)].key = k}
  <2>1. S \subseteq Nat /\ d \in S
    BY <1>3
  <2>2. PICK n \in S : \A m \in S : n <= m
    <3> HIDE DEF S
    <3> QED
      BY <2>1, Smallest
  <2>3. \A m \in 0..(n - 1) : m \in 0..(d - 1) \cup {d} /\ m \notin S
    BY <1>3, <2>1, <2>2
  <2>4. \A m \in 0..(n - 1) : part[At(m)].ctrl # "empty" /\ part[At(m)].key # k
    BY <2>3
  <2>5. n \in 0..(d - 1) \cup {d} /\ (n = d \/ part[At(n)].ctrl = "empty" \/ part[At(n)].key = k)
    BY <2>2
  <2> QED
    BY <2>4, <2>5
<1>5. s \in 0..c /\ Stops(s)
  <2>1. s \in 0..(d - 1) \cup {d} /\ Stops(s)
    BY <1>4, Zenon
  <2> HIDE DEF s
  <2> QED
    BY <1>3, <2>1
<1>6. \A n : At(n) = Probe(c, k, n)
  BY <1>3 DEF Probe
<1> HIDE DEF s
<1>7. Stopped(part, c, k, s)
  BY <1>3, <1>5, <1>6 DEF Stopped, GoesOn
<1>8. found <=> s # c /\ part[Probe(c, k, s)].key = k
  BY <1>3, <1>5, <1>6
<1>9. found => slot = Probe(c, k, s)
  BY <1>6
<1>10. ~found => LeftFor(part, c, k, s, slot)
  <2>1. CASE free = {}
    <3>1. \A n \in 0..s - 1 : part[Probe(c, k, n)].ctrl # "deleted"
      BY <1>6, <2>1
    <3> QED
      BY <1>6, <2>1, <3>1 DEF LeftFor
  <2>2. CASE free # {}
    <3>1. free \subseteq Nat
      BY <1>5
    <3>2. Min(free) \in free
      <4> HIDE DEF free
      <4>1. \E m \in free : \A n \in free : m <= n
        BY <2>2, <3>1, Smallest
      <4>2. \E x \in free : \A y \in free : x =< y
        BY <4>1
      <4> QED
        BY <4>2, Zenon DEF Min
    <3>3. Min(free) \in 0..s - 1 /\ part[Probe(c, k, Min(free))].ctrl = "deleted"
      BY <1>6, <3>2
    <3>4. ~found => slot = Probe(c, k, Min(free))
      BY <1>6, <2>2
    <3> QED
      BY <3>3, <3>4 DEF LeftFor
  <2> QED
    BY <2>1, <2>2
<1>11. found \in BOOLEAN
  OBVIOUS
<1> HIDE DEF found, slot
<1> QED
  BY <1>2, <1>7, <1>8, <1>9, <1>10, <1>11

\* A search finds the entry that is reached.
LEMMA SearchFinds ==
  ASSUME NEW c \in Nat, c > 0, NEW part \in Parts(c), NEW k \in Keys,
         NEW p \in 0..c - 1, part[p].key = k, Reached(part, c, k, p)
  PROVE  FindEntry(part, k).found /\ FindEntry(part, k).slot = p
<1>1. PICK s : /\ Stopped(part, c, k, s)
               /\ FindEntry(part, k).found <=> s # c /\ part[Probe(c, k, s)].key = k
               /\ FindEntry(part, k).found => FindEntry(part, k).slot = Probe(c, k, s)
  BY FindEntryIs
<1>2. PICK n \in 0..c - 1 : Probe(c, k, n) = p /\ \A m \in 0..n - 1 : GoesOn(part, c, k, m)
  BY DEF Reached
<1>3. ~GoesOn(part, c, k, n)
  BY <1>2 DEF GoesOn
<1>4. s = n
  <2>1. CASE s < n
    <3>1. s \in 0..n - 1 /\ s # c
      BY <1>1, <2>1 DEF Stopped
    <3> QED
      BY <1>1, <1>2, <3>1 DEF Stopped
  <2>2. CASE n < s
    <3>1. n \in 0..s - 1
      BY <1>1, <2>2 DEF Stopped
    <3> QED
      BY <1>1, <1>3, <3>1 DEF Stopped
  <2> QED
    BY <1>1, <2>1, <2>2 DEF Stopped
<1> QED
  BY <1>1, <1>2, <1>4

\* In a sound part a search finds the entry of its key, or there is none.
LEMMA SearchEnds ==
  ASSUME NEW c \in Nat, c > 0, NEW part \in Parts(c), Sound(part, c), NEW k \in Keys
  PROVE  /\ FindEntry(part, k).found =>
              FindEntry(part, k).slot \in Full(part) /\ part[FindEntry(part, k).slot].key = k
         /\ \A p \in Full(part) : part[p].key = k =>
              FindEntry(part, k).found /\ FindEntry(part, k).slot = p
<1>1. PICK s : /\ Stopped(part, c, k, s)
               /\ FindEntry(part, k).found <=> s # c /\ part[Probe(c, k, s)].key = k
               /\ FindEntry(part, k).found => FindEntry(part, k).slot = Probe(c, k, s)
  BY FindEntryIs
<1>2. DOMAIN part = 0..c - 1 /\ \A p \in 0..c - 1 : part[p] \in Slot
  BY PartFields
<1>3. ASSUME FindEntry(part, k).found PROVE Probe(c, k, s) \in Full(part)
  <2>1. s \in Nat /\ part[Probe(c, k, s)].key = k
    BY <1>1, <1>3 DEF Stopped
  <2>2. Probe(c, k, s) \in 0..c - 1
    BY <2>1, ProbeFields
  <2>3. part[Probe(c, k, s)].ctrl = "full"
    BY <1>2, <2>1, <2>2, SlotFields
  <2> QED
    BY <1>2, <2>2, <2>3 DEF Full
<1>4. ASSUME NEW p \in Full(part), part[p].key = k
      PROVE  FindEntry(part, k).found /\ FindEntry(part, k).slot = p
  BY <1>2, <1>4, SearchFinds DEF Sound, Full
<1> QED
  BY <1>1, <1>3, <1>4

\* Where it finds none and a slot is free, it leaves one that it reaches.
LEMMA SearchLeaves ==
  ASSUME NEW c \in Nat, c > 0, NEW part \in Parts(c), NEW k \in Keys,
         ~FindEntry(part, k).found, Full(part) # DOMAIN part
  PROVE  /\ FindEntry(part, k).slot \in (0..c - 1) \ Full(part)
         /\ Reached(part, c, k, FindEntry(part, k).slot)
<1> DEFINE p == FindEntry(part, k).slot
<1>1. PICK s : /\ Stopped(part, c, k, s) /\ LeftFor(part, c, k, s, p)
               /\ ~(s # c /\ part[Probe(c, k, s)].key = k)
  BY FindEntryIs, ZenonT(60)
<1>2. DOMAIN part = 0..c - 1 /\ \A q \in 0..c - 1 : part[q] \in Slot
  BY PartFields
<1>3. \A n \in Nat : Probe(c, k, n) \in 0..c - 1
  BY ProbeFields
<1> HIDE DEF p
<1>4. CASE \E n \in 0..s - 1 : part[Probe(c, k, n)].ctrl = "deleted" /\ p = Probe(c, k, n)
  <2>1. PICK n \in 0..s - 1 : part[p].ctrl = "deleted" /\ p = Probe(c, k, n)
    BY <1>4
  <2>2. n \in 0..c - 1 /\ \A m \in 0..n - 1 : m \in 0..s - 1
    BY <1>1 DEF Stopped
  <2>3. Reached(part, c, k, p)
    BY <1>1, <2>1, <2>2 DEF Reached, Stopped
  <2>4. p \in 0..c - 1 /\ p \notin Full(part)
    BY <1>3, <2>1, <2>2 DEF Full
  <2> QED
    BY <2>3, <2>4 DEF p
<1>5. CASE (\A n \in 0..s - 1 : part[Probe(c, k, n)].ctrl # "deleted") /\ p = Probe(c, k, s)
  <2>1. s # c
    <3> SUFFICES ASSUME s = c PROVE FALSE
      OBVIOUS
    <3>1. ASSUME NEW q \in 0..c - 1 PROVE q \in Full(part)
      <4>1. PICK n \in 0..c - 1 : Probe(c, k, n) = q
        BY ProbeFields
      <4>2. part[q].ctrl # "deleted" /\ part[q].ctrl # "empty"
        BY <1>1, <1>5, <4>1 DEF Stopped, GoesOn
      <4> QED
        BY <1>2, <4>2, SlotFields DEF Full
    <3> QED
      BY <1>2, <3>1 DEF Full
  <2>2. s \in 0..c - 1 /\ p \in 0..c - 1
    BY <1>1, <1>3, <1>5, <2>1 DEF Stopped
  <2>3. Reached(part, c, k, p)
    BY <1>1, <1>5, <2>2 DEF Reached, Stopped
  <2>4. part[p].ctrl = "empty"
    BY <1>1, <1>5, <2>1 DEF Stopped, GoesOn
  <2> QED
    BY <2>2, <2>3, <2>4 DEF Full, p
<1> QED
  BY <1>1, <1>4, <1>5 DEF LeftFor

\* What a sound part maps a key to.
LEMMA LookupIs ==
  ASSUME NEW c \in Nat, NEW part \in Parts(c), Sound(part, c), NEW k \in Keys
  PROVE  /\ \A p \in Full(part) : part[p].key = k =>
              /\ Found(part, k) /\ FindEntry(part, k).slot = p
              /\ Lookup(part, k) = part[p].value /\ Lookup(part, k) # Nil
         /\ (\A p \in Full(part) : part[p].key # k) => ~Found(part, k) /\ Lookup(part, k) = Nil
<1>1. /\ part = NoPart <=> c = 0
      /\ DOMAIN part = 0..c - 1 /\ \A q \in 0..c - 1 : part[q] \in Slot
  BY PartFields
<1>2. CASE c = 0
  <2>1. Full(part) = {}
    BY <1>1, <1>2 DEF Full
  <2> QED
    BY <1>1, <1>2, <2>1 DEF Found, Lookup
<1>3. CASE c > 0
  <2>1. /\ FindEntry(part, k).found =>
             FindEntry(part, k).slot \in Full(part) /\ part[FindEntry(part, k).slot].key = k
        /\ \A p \in Full(part) : part[p].key = k =>
             FindEntry(part, k).found /\ FindEntry(part, k).slot = p
    BY <1>3, SearchEnds
  <2>2. part # NoPart
    BY <1>1, <1>3
  <2>3. \A p \in Full(part) : part[p].value # Nil
    BY <1>1, SlotFields DEF Full
  <2> HIDE DEF NoPart
  <2> QED
    BY <2>1, <2>2, <2>3 DEF Found, Lookup
<1> QED
  BY <1>2, <1>3

-----------------------------------------------------------------------------
(* Storing and deleting                                                    *)

\* The part with the slot p replaced.
Put(part, p, e) == [part EXCEPT ![p] = e]

\* Only that slot changes.
LEMMA PutFields ==
  ASSUME NEW c \in Nat, NEW part \in Parts(c), NEW p \in 0..c - 1, NEW e \in Slot
  PROVE  /\ Put(part, p, e) \in Parts(c) /\ Put(part, p, e)[p] = e
         /\ \A q \in 0..c - 1 : q # p => Put(part, p, e)[q] = part[q]
BY DEF Put, Parts

\* An entry may go to a slot its search reaches, when its key has no other; what is
\* taken away leaves a mark. Every search still ends where it did.
LEMMA PutKeepsSound ==
  ASSUME NEW c \in Nat, NEW part \in Parts(c), Sound(part, c), NEW p \in 0..c - 1,
         NEW e \in Slot, e.ctrl # "empty",
         \A q \in Full(part) : q # p => part[q].key # e.key,
         e.ctrl = "full" => Reached(part, c, e.key, p)
  PROVE  /\ Sound(Put(part, p, e), c)
         /\ e.ctrl = "full" => Full(Put(part, p, e)) = Full(part) \cup {p}
         /\ e.ctrl # "full" => Full(Put(part, p, e)) = Full(part) \ {p}
<1> DEFINE new == Put(part, p, e)
<1>1. /\ new \in Parts(c) /\ new[p] = e /\ \A q \in 0..c - 1 : q # p => new[q] = part[q]
  BY SMTT(30) DEF Put, Parts
<1> HIDE DEF new
<1>2. DOMAIN part = 0..c - 1 /\ DOMAIN new = 0..c - 1 /\ \A q \in 0..c - 1 : part[q] \in Slot
  BY <1>1, PartFields
<1>3. ASSUME NEW q \in Full(new) PROVE Reached(new, c, new[q].key, q)
  <2> DEFINE k == new[q].key
  <2>1. q \in 0..c - 1 /\ c > 0 /\ k \in Keys /\ new[q].ctrl = "full"
    <3>1. q \in 0..c - 1 /\ new[q] \in Slot /\ new[q].ctrl = "full"
      BY <1>1, <1>2, PartFields DEF Full
    <3> QED
      BY <3>1, SlotFields
  <2>2. Reached(part, c, k, q) /\ (q # p => k # e.key)
    <3>1. CASE q = p
      BY <1>1, <2>1, <3>1
    <3>2. CASE q # p
      <4>1. q \in Full(part) /\ k = part[q].key
        BY <1>1, <1>2, <2>1, <3>2 DEF Full
      <4> QED
        BY <3>2, <4>1 DEF Sound
    <3> QED
      BY <3>1, <3>2
  <2> HIDE DEF k
  <2>3. PICK n \in 0..c - 1 : Probe(c, k, n) = q /\ \A m \in 0..n - 1 : GoesOn(part, c, k, m)
    BY <2>2 DEF Reached
  <2>4. ASSUME NEW m \in 0..n - 1 PROVE GoesOn(new, c, k, m)
    <3> DEFINE x == Probe(c, k, m)
    <3>1. x \in 0..c - 1 /\ x # q
      <4>1. m \in 0..c - 1 /\ m # n /\ m \in Nat
        BY <2>3
      <4> QED
        BY <2>1, <2>3, <4>1, ProbeFields
    <3>2. part[x].ctrl # "empty" /\ part[x].key # k
      BY <2>3 DEF GoesOn
    <3> HIDE DEF x
    <3>3. CASE x = p
      BY <1>1, <2>2, <3>1, <3>3 DEF GoesOn, x
    <3>4. CASE x # p
      BY <1>1, <3>1, <3>2, <3>4 DEF GoesOn, x
    <3> QED
      BY <3>3, <3>4
  <2> QED
    BY <2>3, <2>4 DEF Reached, k
<1>4. \A q : q \in Full(new) <=> q \in 0..c - 1 /\ (IF q = p THEN e.ctrl = "full" ELSE q \in Full(part))
  BY <1>1, <1>2 DEF Full
<1>5. Full(part) \subseteq 0..c - 1
  BY <1>2 DEF Full
<1> QED
  BY <1>3, <1>4, <1>5 DEF Sound, new

\* The map after an entry is stored or taken away.
LEMMA PutLookup ==
  ASSUME NEW c \in Nat, NEW part \in Parts(c), Sound(part, c), NEW p \in 0..c - 1,
         NEW e \in Slot, NEW k \in Keys, e.ctrl = "deleted" \/ (e.ctrl = "full" /\ e.key = k),
         \A q \in Full(part) : q # p => part[q].key # k,
         p \in Full(part) => part[p].key = k,
         e.ctrl = "full" => Reached(part, c, k, p)
  PROVE  /\ Sound(Put(part, p, e), c) /\ Put(part, p, e) \in Parts(c)
         /\ Lookup(Put(part, p, e), k) = e.value
         /\ \A j \in Keys : j # k => Lookup(Put(part, p, e), j) = Lookup(part, j)
         /\ \A q \in Full(Put(part, p, e)) : Put(part, p, e)[q].key = k \/
              (q \in Full(part) /\ q # p /\ Put(part, p, e)[q] = part[q])
<1> DEFINE new == Put(part, p, e)
<1>1. /\ new \in Parts(c) /\ new[p] = e /\ \A q \in 0..c - 1 : q # p => new[q] = part[q]
  BY PutFields
<1>2. /\ e.ctrl # "full" => e.key = Nil /\ e.value = Nil /\ Nil \notin Keys
      /\ DOMAIN part = 0..c - 1 /\ DOMAIN new = 0..c - 1 /\ \A q \in 0..c - 1 : part[q] \in Slot
  BY <1>1, SlotFields, PartFields
<1>3. \A q \in Full(part) : part[q].key \in Keys /\ q \in 0..c - 1
  BY <1>2, SlotFields DEF Full
<1>4. \A q \in Full(part) : q # p => part[q].key # e.key
  BY <1>2, <1>3
<1>5. /\ Sound(new, c)
      /\ e.ctrl = "full" => Full(new) = Full(part) \cup {p}
      /\ e.ctrl # "full" => Full(new) = Full(part) \ {p}
  BY <1>4, PutKeepsSound
<1> HIDE DEF new
<1>6. \A q \in Full(new) : new[q].key = k \/ (q \in Full(part) /\ q # p /\ new[q] = part[q])
  BY <1>1, <1>3, <1>5
<1>7. Lookup(new, k) = e.value
  <2>1. CASE e.ctrl = "full"
    BY <1>1, <1>5, <2>1, LookupIs
  <2>2. CASE e.ctrl # "full"
    <3>1. \A q \in Full(new) : new[q].key # k
      BY <1>1, <1>3, <1>5, <2>2
    <3> QED
      BY <1>1, <1>2, <1>5, <2>2, <3>1, LookupIs
  <2> QED
    BY <2>1, <2>2
<1>8. ASSUME NEW j \in Keys, j # k PROVE Lookup(new, j) = Lookup(part, j)
  <2>1. CASE \E q \in Full(part) : part[q].key = j
    <3>1. PICK q \in Full(part) : part[q].key = j
      BY <2>1
    <3>2. q # p
      BY <1>8, <3>1
    <3>3. q \in Full(new) /\ new[q] = part[q]
      BY <1>1, <1>3, <1>5, <3>2
    <3> QED
      BY <1>1, <1>5, <3>1, <3>3, LookupIs
  <2>2. CASE \A q \in Full(part) : part[q].key # j
    <3>1. \A q \in Full(new) : new[q].key # j
      BY <1>6, <1>8, <2>2
    <3> QED
      BY <1>1, <1>5, <2>2, <3>1, LookupIs
  <2> QED
    BY <2>1, <2>2
<1> QED
  BY <1>1, <1>5, <1>6, <1>7, <1>8 DEF new

-----------------------------------------------------------------------------
(* Rehashing                                                               *)

\* A part without entries.
LEMMA EmptyPartIs ==
  ASSUME NEW c \in Nat
  PROVE  /\ EmptyPart(c) \in Parts(c) /\ Full(EmptyPart(c)) = {} /\ Sound(EmptyPart(c), c)
         /\ \A k \in Keys : Lookup(EmptyPart(c), k) = Nil
<1>1. EmptyPart(c) \in Parts(c) /\ Full(EmptyPart(c)) = {}
  BY DEF EmptyPart, Parts, Slot, Full, Empty
<1>2. Sound(EmptyPart(c), c)
  BY <1>1 DEF Sound
<1> QED
  BY <1>1, <1>2, LookupIs

\* The entries of a part below the slot n, and a part that has just those.
Below(part, n) == {q \in Full(part) : q < n}
Moved(part, n, d, new) ==
  /\ new \in Parts(d) /\ Sound(new, d)
  /\ \A q \in Below(part, n) : Lookup(new, part[q].key) = part[q].value
  /\ \A p \in Full(new) : \E q \in Below(part, n) : new[p] = part[q]
  /\ Cardinality(Full(new)) = Cardinality(Below(part, n))

\* A part is finite.
LEMMA FullFinite ==
  ASSUME NEW c \in Nat, NEW part \in Parts(c)
  PROVE  /\ IsFiniteSet(Full(part)) /\ Cardinality(Full(part)) \in Nat
         /\ Full(part) \subseteq 0..c - 1 /\ Cardinality(Full(part)) <= c
<1>1. Full(part) \subseteq 0..c - 1
  BY PartFields DEF Full
<1>2. IsFiniteSet(0..c - 1) /\ Cardinality(0..c - 1) = c
  BY FS_Interval
<1> QED
  BY <1>1, <1>2, FS_Subset, FS_CardinalityType

\* The next slot of the old part is moved (rehash).
LEMMA RehashStep ==
  ASSUME NEW c \in Nat, NEW part \in Parts(c), Sound(part, c), NEW d \in Nat,
         Cardinality(Full(part)) < d, NEW n \in 0..c - 1, NEW old, Moved(part, n, d, old)
  PROVE  Moved(part, n + 1, d, IF part[n].ctrl # "full" THEN old
                               ELSE Put(old, FindEntry(old, part[n].key).slot, part[n]))
<1>1. /\ n \in Nat /\ part[n] \in Slot /\ Full(part) \subseteq 0..c - 1 /\ IsFiniteSet(Full(part))
      /\ DOMAIN part = 0..c - 1 /\ Cardinality(Full(part)) \in Nat
  BY PartFields, FullFinite
<1>2. n \in Full(part) <=> part[n].ctrl = "full"
  BY <1>1 DEF Full
<1>3. CASE part[n].ctrl # "full"
  <2>1. Below(part, n + 1) = Below(part, n)
    BY <1>1, <1>2, <1>3 DEF Below
  <2> QED
    BY <1>3, <2>1 DEF Moved
<1>4. CASE part[n].ctrl = "full"
  <2> DEFINE e == part[n]
             k == e.key
             p == FindEntry(old, k).slot
             new == Put(old, p, e)
             B == Below(part, n)
  <2>1. /\ k \in Keys /\ e \in Slot /\ e = Entry(k, e.value) /\ n \in Full(part)
        /\ e.ctrl = "full"
    BY <1>1, <1>2, <1>4, SlotFields
  <2>2. Below(part, n + 1) = B \cup {n} /\ n \notin B /\ B \subseteq Full(part)
    BY <1>1, <2>1 DEF Below
  <2>3. IsFiniteSet(B) /\ Cardinality(B) \in Nat /\ Cardinality(B \cup {n}) = Cardinality(B) + 1
        /\ Cardinality(B \cup {n}) <= Cardinality(Full(part))
    <3>1. IsFiniteSet(B)
      BY <1>1, <2>2, FS_Subset
    <3>2. B \cup {n} \subseteq Full(part)
      BY <2>1, <2>2
    <3> HIDE DEF B
    <3> QED
      BY <1>1, <2>2, <3>1, <3>2, FS_Subset, FS_CardinalityType, FS_AddElement
  <2>4. /\ old \in Parts(d) /\ Sound(old, d) /\ d > 0
        /\ \A q \in B : Lookup(old, part[q].key) = part[q].value
        /\ \A x \in Full(old) : \E q \in B : old[x] = part[q]
        /\ Cardinality(Full(old)) = Cardinality(B)
    BY <1>1 DEF Moved
  <2>5. \A q \in Full(part) : part[q].key = k => q = n
    <3>1. c > 0
      BY <1>1
    <3> QED
      BY <2>1, <3>1, SearchEnds
  <2>6. \A x \in Full(old) : old[x].key # k
    <3>1. \A q \in B : part[q].key # k
      BY <2>2, <2>5
    <3> QED
      BY <2>4, <3>1
  <2>7. /\ IsFiniteSet(Full(old)) /\ Cardinality(Full(old)) \in Nat /\ DOMAIN old = 0..d - 1
        /\ old # NoPart
    BY <2>4, FullFinite, PartFields
  <2>8. ~FindEntry(old, k).found
    <3> HIDE DEF k, e
    <3>1. FindEntry(old, k).found => FindEntry(old, k).slot \in Full(old) /\ old[FindEntry(old, k).slot].key = k
      BY <2>1, <2>4, SearchEnds
    <3> QED
      BY <2>6, <3>1
  <2>9. Full(old) # DOMAIN old
    <3>1. Cardinality(0..d - 1) = d
      BY FS_Interval
    <3> QED
      BY <1>1, <2>3, <2>4, <2>7, <3>1
  <2> HIDE DEF k, B, e
  <2>10. p \in (0..d - 1) \ Full(old) /\ Reached(old, d, k, p)
    BY <2>1, <2>4, <2>8, <2>9, SearchLeaves
  <2> HIDE DEF p
  <2>11. /\ Sound(new, d) /\ new \in Parts(d) /\ Lookup(new, k) = e.value
         /\ \A j \in Keys : j # k => Lookup(new, j) = Lookup(old, j)
         /\ new[p] = e /\ \A q \in 0..d - 1 : q # p => new[q] = old[q]
    <3>1. e.key = k
      BY DEF k
    <3> QED
      BY <2>1, <2>4, <2>6, <2>10, <3>1, PutLookup, PutFields
  <2>12. Full(new) = Full(old) \cup {p}
    <3>1. e.key = k
      BY DEF k
    <3> QED
      BY <2>1, <2>4, <2>6, <2>10, <3>1, PutKeepsSound
  <2> HIDE DEF new
  <2>13. \A q \in B \cup {n} : Lookup(new, part[q].key) = part[q].value
    <3>1. \A q \in B : part[q].key \in Keys /\ part[q].key # k
      <4>1. \A q \in B : part[q] \in Slot /\ part[q].ctrl = "full" /\ part[q].key # k
        BY <1>1, <2>2, <2>5, PartFields DEF Full
      <4> QED
        BY <4>1, SlotFields
    <3> QED
      BY <2>4, <2>11, <3>1 DEF e, k
  <2>14. \A x \in Full(new) : \E q \in B \cup {n} : new[x] = part[q]
    <3>1. \A x \in Full(old) : x # p /\ x \in 0..d - 1
      BY <2>7, <2>10 DEF Full
    <3> QED
      BY <2>4, <2>11, <2>12, <3>1 DEF e
  <2>15. Cardinality(Full(new)) = Cardinality(B \cup {n})
    BY <2>3, <2>4, <2>7, <2>10, <2>12, FS_AddElement
  <2>16. Moved(part, n + 1, d, new)
    BY <2>2, <2>11, <2>13, <2>14, <2>15 DEF Moved, B
  <2> QED
    BY <1>4, <2>16 DEF new, p, k, e
<1> QED
  BY <1>3, <1>4

\* Rehashing makes a part of the given capacity with the same entries (rehash).
LEMMA RehashIs ==
  ASSUME NEW c \in Nat, NEW part \in Parts(c), Sound(part, c), NEW d \in Nat,
         Cardinality(Full(part)) < d
  PROVE  /\ Rehash(part, d) \in Parts(d) /\ Sound(Rehash(part, d), d)
         /\ \A k \in Keys : Lookup(Rehash(part, d), k) = Lookup(part, k)
         /\ \A p \in Full(Rehash(part, d)) : \E q \in Full(part) : Rehash(part, d)[p] = part[q]
         /\ Cardinality(Full(Rehash(part, d))) = Cardinality(Full(part))
<1> DEFINE N == Capacity(part)
           Turn(f, n) == IF part[n - 1].ctrl # "full" THEN f[n - 1]
                         ELSE [f[n - 1] EXCEPT ![FindEntry(f[n - 1], part[n - 1].key).slot] = part[n - 1]]
           Rule(f, n) == IF n = 0 THEN EmptyPart(d) ELSE Turn(f, n)
           a == CHOOSE a : a = [n \in 0..N |-> Rule(a, n)]
<1>1. Rehash(part, d) = a[N]
  BY Zenon DEF Rehash
<1>2. N = c
  BY PartFields
<1> HIDE DEF N
<1>3. \E f : f = [n \in 0..N |-> Rule(f, n)]
  <2> DEFINE S == {m \in Nat : \E f : \A n \in 0..m : f[n] = Rule(f, n)}
  <2>1. 0 \in S
    <3> DEFINE f == [n \in 0..0 |-> EmptyPart(d)]
    <3>1. \A n \in 0..0 : f[n] = Rule(f, n)
      OBVIOUS
    <3> QED
      BY <3>1
  <2>2. ASSUME NEW m \in Nat, m \in S PROVE m + 1 \in S
    <3>1. PICK f : \A n \in 0..m : f[n] = Rule(f, n)
      BY <2>2
    <3> DEFINE g == [n \in 0..m + 1 |-> IF n <= m THEN f[n] ELSE Turn(f, n)]
    <3>2. ASSUME NEW n \in 0..m + 1 PROVE g[n] = Rule(g, n)
      <4>1. n # 0 => g[n - 1] = f[n - 1]
        <5>1. n # 0 => n - 1 \in 0..m + 1 /\ n - 1 <= m
          OBVIOUS
        <5> QED
          BY <5>1
      <4>2. g[n] = IF n <= m THEN f[n] ELSE Turn(f, n)
        OBVIOUS
      <4>3. n <= m => n \in 0..m
        OBVIOUS
      <4>4. n = 0 => n <= m
        OBVIOUS
      <4> HIDE DEF g
      <4>5. g[n] = Rule(f, n)
        BY <3>1, <4>2, <4>3, <4>4
      <4>6. n # 0 => Turn(g, n) = Turn(f, n)
        BY <4>1, Zenon
      <4> QED
        BY <4>5, <4>6
    <3> HIDE DEF g
    <3> DEFINE Upto(f1, m1) == \A n \in 0..m1 : f1[n] = Rule(f1, n)
    <3>3. Upto(g, m + 1)
      BY <3>2, Zenon
    <3>4. S = {m1 \in Nat : \E f1 : Upto(f1, m1)}
      OBVIOUS
    <3> HIDE DEF Upto, S
    <3> QED
      BY <3>3, <3>4
  <2> HIDE DEF S
  <2>3. N \in S
    BY <1>2, <2>1, <2>2, NatSetInduction
  <2>4. PICK f : \A n \in 0..N : f[n] = Rule(f, n)
    BY <2>3 DEF S
  <2> DEFINE h == [n \in 0..N |-> f[n]]
  <2>5. \A n \in 0..N : h[n] = f[n] /\ (n # 0 => h[n - 1] = f[n - 1])
    <3>1. \A n \in 0..N : n # 0 => n - 1 \in 0..N
      BY <1>2
    <3> QED
      BY <3>1
  <2>6. h = [n \in 0..N |-> h[n]]
    OBVIOUS
  <2> HIDE DEF h
  <2>7. ASSUME NEW n \in 0..N PROVE h[n] = Rule(h, n)
    <3>1. n # 0 => Turn(h, n) = Turn(f, n)
      BY <2>5, Zenon
    <3> QED
      BY <2>4, <2>5, <3>1
  <2>8. h = [n \in 0..N |-> Rule(h, n)]
    BY <2>6, <2>7, Zenon
  <2> QED
    BY <2>8, Zenon
<1>4. a = [n \in 0..N |-> Rule(a, n)]
  BY <1>3, Zenon
<1> HIDE DEF a
<1>5. \A n \in 0..N : a[n] = Rule(a, n)
  BY <1>4, Zenon
<1> DEFINE T == {n \in Nat : n <= c => Moved(part, n, d, a[n])}
<1>6. 0 \in T
  <2>1. a[0] = EmptyPart(d)
    <3>1. 0 \in 0..N
      BY <1>2
    <3>2. a[0] = Rule(a, 0)
      BY <1>5, <3>1, Zenon
    <3> QED
      BY <3>2, Zenon
  <2>2. Below(part, 0) = {}
    BY FullFinite DEF Below
  <2>3. Moved(part, 0, d, EmptyPart(d))
    BY <2>2, EmptyPartIs DEF Moved
  <2> QED
    BY <2>1, <2>3
<1>7. ASSUME NEW n \in Nat, n \in T PROVE n + 1 \in T
  <2> SUFFICES ASSUME n + 1 <= c PROVE Moved(part, n + 1, d, a[n + 1])
    OBVIOUS
  <2>1. n \in 0..c - 1 /\ n + 1 \in 0..N /\ n + 1 # 0 /\ (n + 1) - 1 = n
    BY <1>2
  <2>2. a[n + 1] = IF part[n].ctrl # "full" THEN a[n]
                   ELSE Put(a[n], FindEntry(a[n], part[n].key).slot, part[n])
    <3>1. a[n + 1] = Turn(a, n + 1)
      BY <1>5, <2>1
    <3> QED
      BY <2>1, <3>1 DEF Put
  <2>3. Moved(part, n, d, a[n])
    BY <1>7, <2>1
  <2> QED
    BY <2>1, <2>2, <2>3, RehashStep
<1> HIDE DEF T
<1>8. Moved(part, c, d, a[c])
  <2>1. c \in T
    BY <1>6, <1>7, NatSetInduction
  <2> QED
    BY <2>1 DEF T
<1> DEFINE new == Rehash(part, d)
<1>9. new = a[c]
  BY <1>1, <1>2
<1> HIDE DEF new
<1>10. Below(part, c) = Full(part)
  BY FullFinite DEF Below
<1>11. /\ new \in Parts(d) /\ Sound(new, d) /\ Cardinality(Full(new)) = Cardinality(Full(part))
       /\ \A q \in Full(part) : Lookup(new, part[q].key) = part[q].value
       /\ \A p \in Full(new) : \E q \in Full(part) : new[p] = part[q]
  BY <1>8, <1>9, <1>10 DEF Moved
<1>12. ASSUME NEW k \in Keys PROVE Lookup(new, k) = Lookup(part, k)
  <2>1. CASE \E q \in Full(part) : part[q].key = k
    BY <1>11, <2>1, LookupIs
  <2>2. CASE \A q \in Full(part) : part[q].key # k
    <3>1. \A p \in Full(new) : new[p].key # k
      BY <1>11, <2>2
    <3> QED
      BY <1>11, <2>2, <3>1, LookupIs
  <2> QED
    BY <2>1, <2>2
<1> QED
  BY <1>11, <1>12 DEF new

-----------------------------------------------------------------------------
(* The array part                                                          *)

\* Doubling from one ends at or above the capacity asked for (nextPowerOfTwo).
LEMMA NextPowerOfTwoIs ==
  ASSUME NEW n \in Nat
  PROVE  NextPowerOfTwo(n) \in Nat /\ NextPowerOfTwo(n) >= n /\ NextPowerOfTwo(n) >= 1
<1> DEFINE D == Nat \ {0}
           done == {m \in D : m >= n}
           result == [m \in D |-> m]
           turn == [m \in D |-> 2 * m]
           size == [m \in D |-> IF m >= n THEN 0 ELSE n - m]
           Rule(f, m) == IF m >= n THEN m ELSE f[2 * m]
           g == CHOOSE f : f = [m \in Nat \ {0} |-> Rule(f, m)]
<1>1. NextPowerOfTwo(n) = g[1]
  BY Zenon DEF NextPowerOfTwo
<1>2. size \in [D -> Nat] /\ \A m \in D \ done : turn[m] \in D /\ size[turn[m]] < size[m]
  OBVIOUS
<1>3. \A f : \A m \in D : Rule(f, m) = LoopRule(f, m, done, result, turn)
  BY DEF LoopRule
<1> HIDE DEF Rule, done, result, turn, size
<1>4. \E f : Loops(f, D, done, result, turn)
  BY <1>2, LoopDefined
<1>5. \A f : [m \in D |-> Rule(f, m)] = [m \in D |-> LoopRule(f, m, done, result, turn)]
  BY <1>3
<1>6. \E f : f = [m \in Nat \ {0} |-> Rule(f, m)]
  BY <1>4, <1>5, ZenonT(60) DEF Loops
<1>7. g = [m \in Nat \ {0} |-> Rule(g, m)]
  BY <1>6, Zenon
<1> HIDE DEF g
<1>8. Loops(g, D, done, result, turn)
  BY <1>5, <1>7, Zenon DEF Loops
<1>9. D \subseteq D /\ 1 \in D /\ \A m \in D \ done : turn[m] \in D
  BY <1>2
<1> HIDE DEF D
<1>10. \E e \in D \cap done : g[1] = result[e]
  BY <1>2, <1>8, <1>9, LoopEnds
<1> QED
  BY <1>1, <1>10 DEF D, done, result

\* An array part; what a longer copy of it holds.
ArrayOK(a) == a \in Seq(Content) /\ \A i \in 1..Len(a) : a[i] # Nil => i \in Indices
Grown(a, size) == [i \in 1..size |-> IF i <= Len(a) THEN a[i] ELSE Nil]
Written(a, i, v) == [a EXCEPT ![i] = v]

\* A longer copy.
LEMMA GrownIs ==
  ASSUME NEW a, ArrayOK(a), NEW size \in Nat, size >= Len(a)
  PROVE  /\ ArrayOK(Grown(a, size)) /\ Len(Grown(a, size)) = size
         /\ \A i \in 1..size : Grown(a, size)[i] = IF i <= Len(a) THEN a[i] ELSE Nil
<1>1. a \in Seq(Content) /\ Len(a) \in Nat /\ \A i \in 1..Len(a) : a[i] \in Content
  BY DEF ArrayOK
<1> DEFINE b == Grown(a, size)
<1>2. \A i \in 1..size : b[i] = IF i <= Len(a) THEN a[i] ELSE Nil
  BY DEF Grown
<1>3. b \in [1..size -> Content]
  BY <1>1 DEF Grown, Content
<1> HIDE DEF b
<1>4. b \in Seq(Content) /\ Len(b) = size
  BY <1>3
<1> QED
  BY <1>1, <1>2, <1>4 DEF ArrayOK, b

\* The array part with room for an index is a longer copy (ensureArrayCapacity).
LEMMA EnsureIs ==
  ASSUME ArrayOK(array), NEW n \in Nat
  PROVE  \E size \in Nat : /\ size >= n /\ size >= Len(array)
                           /\ EnsureArrayCapacity(n) = Grown(array, size)
<1> DEFINE p == NextPowerOfTwo(n)
           S == {p, Len(array)}
           size == Max(S)
<1>1. p \in Nat /\ p >= n /\ Len(array) \in Nat
  BY NextPowerOfTwoIs DEF ArrayOK
<1> HIDE DEF p
<1>2. size \in S /\ \A x \in S : x <= size
  <2>1. \E m \in S : \A x \in S : x <= m
    BY <1>1
  <2>2. \E x \in S : \A y \in S : x >= y
    BY <1>1, <2>1
  <2>3. size \in S /\ \A y \in S : size >= y
    <3> HIDE DEF S
    <3> QED
      BY <2>2, Zenon DEF Max
  <2> HIDE DEF size
  <2> QED
    BY <1>1, <2>3
<1>3. EnsureArrayCapacity(n) = Grown(array, size)
  BY Zenon DEF EnsureArrayCapacity, Grown, p
<1> HIDE DEF size
<1>4. size \in Nat /\ size >= n /\ size >= Len(array)
  BY <1>1, <1>2
<1> QED
  BY <1>3, <1>4

\* One element is written.
LEMMA WrittenIs ==
  ASSUME NEW a, ArrayOK(a), NEW i \in 1..Len(a), NEW v \in Content, i \in Indices
  PROVE  /\ ArrayOK(Written(a, i, v)) /\ Len(Written(a, i, v)) = Len(a)
         /\ \A j \in 1..Len(a) : Written(a, i, v)[j] = IF j = i THEN v ELSE a[j]
<1>1. a \in Seq(Content) /\ Len(a) \in Nat /\ \A j \in 1..Len(a) : a[j] \in Content
  BY DEF ArrayOK
<1> DEFINE b == Written(a, i, v)
<1>2. a \in [1..Len(a) -> Content]
  BY <1>1
<1>3. b \in [1..Len(a) -> Content] /\ \A j \in 1..Len(a) : b[j] = IF j = i THEN v ELSE a[j]
  BY <1>2 DEF Written
<1> HIDE DEF b
<1>4. b \in Seq(Content) /\ Len(b) = Len(a)
  BY <1>1, <1>3
<1> QED
  BY <1>3, <1>4 DEF ArrayOK, b

-----------------------------------------------------------------------------
(* The invariant                                                           *)

GetIn(a, part, k) == IF InArray(k, a) /\ a[k] # Nil THEN a[k] ELSE Lookup(part, k)

Access == {NoAccess} \cup [kind : {"array", "hash"}, key : Keys, slot : Nat]
Cell == {cell \in [kind : {"get", "set"}, state : {"generic", "monomorphic", "megamorphic"},
                   access : Access, current : BOOLEAN] :
           /\ cell.state = "monomorphic" <=> cell.access # NoAccess
           /\ cell.current => cell.state = "monomorphic"}

\* A hash part of c slots; an access that names the slot of its key.
HashIn(part, c, n) ==
  /\ part \in Parts(c) /\ Sound(part, c) /\ n = Cardinality(Full(part))
  /\ c = 0 \/ c >= LoadShare
  /\ c # 0 => n <= MaxLoad(c)
HashOK(part, n) == \E c \in Nat : HashIn(part, c, n)
Apart(a, part) == \A p \in Full(part) : part[p].key \notin 1..Len(a)
HoldsIn(access, a, part) ==
  \/ /\ access.kind = "array" /\ access.key \in 1..Len(a) /\ access.slot = access.key - 1
     /\ a[access.key] # Nil
  \/ /\ access.kind = "hash" /\ access.key \in Names
     /\ access.slot \in DOMAIN part /\ part[access.slot].key = access.key
Holds(access, a, part) == access \in Access /\ HoldsIn(access, a, part)
CellsHold(cs, a, part) ==
  cs \in [Sites -> Cell] /\ \A s \in Sites : Hits(cs[s]) => Holds(cs[s].access, a, part)
NamesMap(part, f) == f \in [Keys -> Content] /\ \A k \in Names : Lookup(part, k) = f[k]
IsMap(a, part, f) == \A k \in Keys : GetIn(a, part, k) = f[k]
Calls(t, f) == t # Nil => t = f[CallName]

\* What every step preserves: the parts are sound, the hash part maps each name to what was
\* assigned to it, and a cache names the slot of its key.
TabInv ==
  /\ ArrayOK(array) /\ HashOK(slots, count)
  /\ metatable \in Metatables \cup {Nil}
  /\ CellsHold(cells, array, slots)
  /\ NamesMap(slots, assigned)
  /\ target \in Content

\* What every step preserves that does not grow the array over an entry: the two parts hold
\* different keys and are the map the assignments made.
MapInv == Apart(array, slots) /\ IsMap(array, slots, assigned)

\* What every step preserves that does not overwrite a metamethod natively: a target is
\* what was assigned last.
CallInv == Calls(target, assigned)

\* What a step owes to each of the two.
MapStep == MapInv /\ ~GrowsOverEntry => MapInv'
CallStep == CallInv /\ ~OverwritesMetamethod => CallInv'

\* A name is no index.
LEMMA KeyKinds ==
  /\ \A k \in Names : k \notin Indices /\ k \notin Nat
  /\ \A i \in Indices : i \in Nat /\ i # 0
  /\ Nil \notin Keys /\ Nil \notin Values /\ Nil \notin Sites
  /\ CallName \in Names /\ CallName \in MetaNames /\ MetaNames \subseteq Names
BY TableAssumption DEF TableAssumption, Keys

\* The load leaves a slot free, and after doubling there is room again.
LEMMA LoadIs ==
  ASSUME NEW c \in Nat, c >= LoadShare
  PROVE  /\ MaxLoad(c) \in Nat /\ MaxLoad(c) < c /\ MaxLoad(c) >= 1
         /\ MaxLoad(2 * c) \in Nat /\ MaxLoad(2 * c) >= c
<1> DEFINE l == LoadShare
           q == c \div l
           r == (2 * c) \div l
<1>1. l \in Nat /\ l >= 2 /\ c >= l
  BY TableAssumption DEF TableAssumption
<1> HIDE DEF l
<1>2. q \in Nat /\ l * q <= c /\ c < l * q + l
  BY <1>1
<1>3. r \in Nat /\ l * r <= 2 * c
  BY <1>1
<1>4. 2 * q <= l * q /\ 2 * r <= l * r
  BY <1>1, <1>2, <1>3
<1>5. q >= 1
  <2>1. q = 0 => l * q = 0
    BY <1>1
  <2> QED
    BY <1>1, <1>2, <2>1
<1> HIDE DEF q, r
<1>6. c - q \in Nat /\ c - q < c /\ c - q >= 1 /\ 2 * c - r \in Nat /\ 2 * c - r >= c
  BY <1>1, <1>2, <1>3, <1>4, <1>5
<1> QED
  BY <1>6 DEF MaxLoad, q, r, l

\* What a cache may learn about a key is where the key is (DescribeFast).
LEMMA DescribeIs ==
  ASSUME NEW a, ArrayOK(a), NEW part, NEW n, HashOK(part, n), NEW k \in Keys, NEW meta
  PROVE  \/ DescribeFast(k, a, part, meta) = NoAccess
         \/ Holds(DescribeFast(k, a, part, meta), a, part)
<1> DEFINE d == DescribeFast(k, a, part, meta)
<1>1. PICK c \in Nat : part \in Parts(c) /\ Sound(part, c)
  BY DEF HashOK, HashIn
<1>2. CASE InArray(k, a) /\ a[k] # Nil /\ meta = Nil
  <2>1. d = [kind |-> "array", key |-> k, slot |-> k - 1]
    BY <1>2 DEF DescribeFast
  <2>2. k \in Nat /\ k # 0 /\ k <= Len(a) /\ Len(a) \in Nat
    BY <1>2, KeyKinds DEF InArray, ArrayOK
  <2>3. d \in Access
    BY <2>1, <2>2 DEF Access
  <2> HIDE DEF d
  <2>4. HoldsIn(d, a, part)
    BY <1>2, <2>1, <2>2 DEF HoldsIn
  <2> QED
    BY <2>3, <2>4 DEF Holds, d
<1>3. CASE ~(InArray(k, a) /\ a[k] # Nil) /\ k \in Names /\ Lookup(part, k) # Nil /\ meta = Nil
  <2>1. PICK p \in Full(part) : part[p].key = k /\ FindEntry(part, k).slot = p
    BY <1>1, <1>3, LookupIs
  <2>2. d = [kind |-> "hash", key |-> k, slot |-> p]
    BY <1>3, <2>1 DEF DescribeFast
  <2>3. p \in 0..c - 1 /\ DOMAIN part = 0..c - 1
    BY <1>1, <2>1, PartFields DEF Full
  <2>4. d \in Access
    BY <2>2, <2>3 DEF Access
  <2> HIDE DEF d
  <2>5. HoldsIn(d, a, part)
    BY <1>3, <2>1, <2>2, <2>3 DEF HoldsIn
  <2> QED
    BY <2>4, <2>5 DEF Holds, d
<1>4. CASE ~(InArray(k, a) /\ a[k] # Nil) /\ ~(k \in Names /\ Lookup(part, k) # Nil)
  BY <1>4 DEF DescribeFast
<1>5. CASE meta # Nil
  BY <1>5 DEF DescribeFast
<1> QED
  BY <1>2, <1>3, <1>4, <1>5

\* The caches an operation leaves; what it must leave in place for those it does not make stale.
SettledCell(cell, moved, mine, learns, access) ==
  LET c == IF moved THEN Stale(cell) ELSE cell
  IN IF ~mine THEN c ELSE NextTableCell(c, IF learns THEN access ELSE NoAccess)
Stays(a, part, a2, part2) ==
  /\ \A i \in 1..Len(a) : a[i] # Nil => i \in 1..Len(a2) /\ a2[i] # Nil
  /\ \A p \in DOMAIN part : part[p].key # Nil => p \in DOMAIN part2 /\ part2[p].key = part[p].key

\* A cache stays a cache, and names after a step what it named before or what it learns.
LEMMA SettledCellIs ==
  ASSUME NEW cell \in Cell, NEW moved \in BOOLEAN, NEW mine \in BOOLEAN, NEW learns \in BOOLEAN,
         NEW access \in Access
  PROVE  /\ SettledCell(cell, moved, mine, learns, access) \in Cell
         /\ Hits(SettledCell(cell, moved, mine, learns, access)) =>
              \/ SettledCell(cell, moved, mine, learns, access).access = access /\ access # NoAccess
              \/ /\ ~moved /\ Hits(cell)
                 /\ SettledCell(cell, moved, mine, learns, access).access = cell.access
<1> DEFINE d == IF moved THEN Stale(cell) ELSE cell
           b == IF learns THEN access ELSE NoAccess
<1>1. cell.access \in Access /\ cell.kind \in {"get", "set"} /\ cell.current \in BOOLEAN
      /\ cell.state \in {"generic", "monomorphic", "megamorphic"}
  BY DEF Cell
<1>2. NoAccess \in Access /\ b \in Access
  BY DEF Access
<1>3. Stale(cell) \in Cell /\ ~Hits(Stale(cell))
  <2> DEFINE c == Stale(cell)
             x == [cell.access EXCEPT !.slot = 0]
             e == [cell EXCEPT !.current = FALSE]
             C == [kind : {"get", "set"}, state : {"generic", "monomorphic", "megamorphic"},
                   access : Access, current : BOOLEAN]
  <2>1. x \in Access /\ (x = NoAccess <=> cell.access = NoAccess)
    <3>1. CASE cell.access = NoAccess
      BY <1>2, <3>1 DEF NoAccess
    <3>2. CASE cell.access # NoAccess
      BY <1>1, <3>2 DEF NoAccess, Access
    <3> QED
      BY <3>1, <3>2
  <2>2. cell \in C /\ (cell.state = "monomorphic" <=> cell.access # NoAccess)
    BY DEF Cell
  <2>3. e \in C /\ ~e.current /\ e.state = cell.state /\ e.access = cell.access
    BY <2>2
  <2>4. c = [e EXCEPT !.access = x]
    <3>1. c = [e EXCEPT !.access = [e.access EXCEPT !.slot = 0]]
      BY Zenon DEF Stale
    <3> HIDE DEF c, e
    <3> QED
      BY <2>3, <3>1, Zenon
  <2> HIDE DEF c, x, e
  <2>5. c \in C /\ ~c.current /\ c.state = cell.state /\ c.access = x
    BY <2>1, <2>3, <2>4
  <2>6. c \in Cell /\ ~Hits(c)
    BY <2>1, <2>2, <2>5 DEF Cell, Hits
  <2> QED
    BY <2>6 DEF c
<1>4. d \in Cell /\ (Hits(d) => ~moved /\ d = cell)
  BY <1>3
<1> HIDE DEF d, b
<1>5. d.kind \in {"get", "set"}
  BY <1>4 DEF Cell
<1>6. Megamorphic(d) \in Cell /\ ~Hits(Megamorphic(d))
  BY <1>2, <1>5 DEF Megamorphic, Generic, Cell, Hits
<1>7. b # NoAccess => Monomorphic(d, b) \in Cell /\ Monomorphic(d, b).access = b
  BY <1>2, <1>5 DEF Monomorphic, Cell
<1> DEFINE r == NextTableCell(d, b)
<1>8. \/ r = d \/ r = Megamorphic(d) \/ (b # NoAccess /\ r = Monomorphic(d, b))
  BY DEF NextTableCell
<1> HIDE DEF r
<1>9. r \in Cell /\ (Hits(r) => (r.access = b /\ b # NoAccess) \/ (~moved /\ Hits(cell) /\ r.access = cell.access))
  BY <1>4, <1>6, <1>7, <1>8
<1>10. b # NoAccess => b = access
  BY DEF b
<1>11. SettledCell(cell, moved, mine, learns, access) = IF ~mine THEN d ELSE r
  BY Zenon DEF SettledCell, d, r, b
<1> QED
  BY <1>4, <1>9, <1>10, <1>11

Runners == {Host} \cup Runs(Sites)

\* The caches after an operation name the slots of their keys, when it moves the version or
\* leaves in place what they name (Settle).
LEMMA SettleKeeps ==
  ASSUME NEW a, NEW part, NEW a2, NEW part2, CellsHold(cells, a, part),
         NEW moved \in BOOLEAN, NEW by \in Runners, NEW access, Settle(moved, by, access),
         ~moved => Stays(a, part, a2, part2),
         access = NoAccess \/ Holds(access, a2, part2)
  PROVE  CellsHold(cells', a2, part2)
<1>1. cells \in [Sites -> Cell] /\ \A s \in Sites : Hits(cells[s]) => Holds(cells[s].access, a, part)
  BY DEF CellsHold
<1>2. by.learns \in BOOLEAN
  <2>1. CASE by = Host
    BY <2>1 DEF Host
  <2>2. ASSUME NEW s \in Sites, by = Interpreted(s) PROVE by.learns \in BOOLEAN
    BY <2>2 DEF Interpreted
  <2>3. ASSUME NEW s \in Sites, by = Compiled(s) PROVE by.learns \in BOOLEAN
    BY <2>3 DEF Compiled
  <2> QED
    BY <2>1, <2>2, <2>3 DEF Runners, Runs
<1>3. access \in Access
  BY DEF Holds, Access
<1> DEFINE New(x) == SettledCell(cells[x], moved, x = by.site, by.learns, access)
<1>4. cells' = [x \in Sites |-> New(x)]
  BY DEF Settle, SettledCell
<1>5. ASSUME NEW s \in Sites PROVE New(s) \in Cell /\ (Hits(New(s)) => Holds(New(s).access, a2, part2))
  <2> DEFINE mine == s = by.site
             new == SettledCell(cells[s], moved, mine, by.learns, access)
  <2>1. mine \in BOOLEAN
    OBVIOUS
  <2>2. new = New(s)
    OBVIOUS
  <2> HIDE DEF mine, New
  <2>3. /\ new \in Cell
        /\ Hits(new) => (new.access = access /\ access # NoAccess)
                        \/ (~moved /\ Hits(cells[s]) /\ new.access = cells[s].access)
    BY <1>1, <1>2, <1>3, <2>1, SettledCellIs
  <2> HIDE DEF new
  <2>4. CASE Hits(new) /\ new.access = access /\ access # NoAccess
    BY <2>2, <2>3, <2>4
  <2>5. CASE Hits(new) /\ ~moved /\ Hits(cells[s]) /\ new.access = cells[s].access
    <3> DEFINE x == cells[s].access
    <3>1. Stays(a, part, a2, part2) /\ x \in Access /\ HoldsIn(x, a, part)
      BY <1>1, <2>5 DEF Holds
    <3> HIDE DEF x
    <3>2. x.kind = "hash" => x.key # Nil
      BY <3>1, KeyKinds DEF HoldsIn, Keys
    <3>3. HoldsIn(x, a2, part2)
      BY <3>1, <3>2 DEF HoldsIn, Stays
    <3> QED
      BY <2>2, <2>3, <2>5, <3>1, <3>3 DEF Holds, x
  <2>6. CASE ~Hits(new)
    BY <2>2, <2>3, <2>6
  <2> QED
    BY <2>3, <2>4, <2>5, <2>6
<1> HIDE DEF New
<1>6. cells' \in [Sites -> Cell] /\ \A s \in Sites : cells'[s] = New(s)
  BY <1>4, <1>5
<1> QED
  BY <1>5, <1>6 DEF CellsHold

\* The target of a call stays or goes (Settle).
LEMMA SettleTarget ==
  ASSUME target \in Content, NEW moved, NEW by, NEW access, Settle(moved, by, access)
  PROVE  /\ target' \in Content
         /\ \A f : Calls(target, assigned) /\ (~moved => f[CallName] = assigned[CallName])
                    => Calls(target', f)
BY DEF Calls, Settle, Content

-----------------------------------------------------------------------------
(* Writing the array part                                                  *)

\* What may be assigned to a key.
LEMMA ContentIs ==
  ASSUME NEW k \in Keys
  PROVE  ContentOf(k) \subseteq Content /\ ValuesOf[k] \subseteq Values /\ Nil \notin ValuesOf[k]
BY TableAssumption DEF TableAssumption, ContentOf, Content

\* A part that holds no entry of a key maps it to nil.
LEMMA ApartLookup ==
  ASSUME NEW a, NEW part, NEW n, HashOK(part, n), Apart(a, part), NEW k \in Keys, k \in 1..Len(a)
  PROVE  Lookup(part, k) = Nil
<1>1. PICK c \in Nat : part \in Parts(c) /\ Sound(part, c)
  BY DEF HashOK, HashIn
<1>2. \A p \in Full(part) : part[p].key # k
  BY DEF Apart
<1> QED
  BY <1>1, <1>2, LookupIs

\* The indices S of the array part a are written, and its growth b is what g records.
Writes(a, f, S, b, g) ==
  /\ S \subseteq Indices /\ S \subseteq 1..Len(b) /\ Len(b) >= Len(a)
  /\ \A i \in 1..Len(b) : i \notin S => b[i] = IF i <= Len(a) THEN a[i] ELSE Nil
  /\ g \in [Keys -> Content] /\ \A k \in Keys : g[k] = IF k \in S THEN b[k] ELSE f[k]

\* The map after the indices S of the array part have been written.
LEMMA ArrayMap ==
  ASSUME NEW a, ArrayOK(a), NEW b, ArrayOK(b), NEW part, NEW n, HashOK(part, n), Apart(b, part),
         NEW f, IsMap(a, part, f), NEW S, NEW g, Writes(a, f, S, b, g)
  PROVE  IsMap(b, part, g)
<1>1. /\ Len(a) \in Nat /\ Len(b) \in Nat
      /\ S \subseteq Indices /\ S \subseteq 1..Len(b) /\ Len(b) >= Len(a)
      /\ \A i \in 1..Len(b) : i \notin S => b[i] = IF i <= Len(a) THEN a[i] ELSE Nil
      /\ g \in [Keys -> Content] /\ \A k \in Keys : g[k] = IF k \in S THEN b[k] ELSE f[k]
  BY DEF ArrayOK, Writes
<1>2. ASSUME NEW k \in Keys PROVE GetIn(b, part, k) = g[k]
  <2>1. CASE k \in S
    <3>1. Lookup(part, k) = Nil
      BY <1>1, <2>1, ApartLookup
    <3>2. InArray(k, b) /\ g[k] = b[k]
      BY <1>1, <2>1 DEF InArray
    <3> QED
      BY <3>1, <3>2 DEF GetIn
  <2>2. CASE k \notin S /\ k \in Indices /\ k <= Len(b)
    <3>1. k \in 1..Len(b)
      BY <1>1, <2>2, KeyKinds
    <3>2. g[k] = GetIn(a, part, k)
      BY <1>1, <2>2 DEF IsMap
    <3>3. b[k] = IF k <= Len(a) THEN a[k] ELSE Nil
      BY <1>1, <2>2, <3>1
    <3>4. InArray(k, b) /\ (InArray(k, a) <=> k <= Len(a))
      BY <2>2 DEF InArray
    <3> QED
      BY <3>2, <3>3, <3>4 DEF GetIn
  <2>3. CASE k \notin S /\ ~(k \in Indices /\ k <= Len(b))
    <3>1. g[k] = GetIn(a, part, k)
      BY <1>1, <2>3 DEF IsMap
    <3>2. ~InArray(k, b) /\ ~InArray(k, a)
      BY <1>1, <2>3, SMTT(30), KeyKinds DEF InArray
    <3> QED
      BY <3>1, <3>2 DEF GetIn
  <2> QED
    BY <2>1, <2>2, <2>3
<1> QED
  BY <1>1, <1>2 DEF IsMap

\* A value stored in the array part (setArrayValue).
LEMMA SetArrayValueKeeps ==
  ASSUME TabInv, NEW i \in Indices, NEW v \in ContentOf(i), NEW by \in Runners,
         SetArrayValue(i, v, by), assigned' = [assigned EXCEPT ![i] = v]
  PROVE  TabInv' /\ MapStep /\ CallStep
<1> DEFINE grown == IF i <= Len(array) THEN array ELSE EnsureArrayCapacity(i)
           moved == (i > Len(array) /\ array # <<>>) \/ ((grown[i] = Nil) # (v = Nil))
           b == array'
           f == assigned'
           access == IF v = Nil THEN NoAccess ELSE DescribeFast(i, b, slots, metatable)
<1>1. /\ ArrayOK(array) /\ HashOK(slots, count)
      /\ metatable \in Metatables \cup {Nil}
      /\ CellsHold(cells, array, slots)
      /\ NamesMap(slots, assigned) /\ target \in Content
  BY DEF TabInv
<1>2. /\ b = Written(grown, i, v) /\ slots' = slots /\ count' = count /\ metatable' = metatable
      /\ Settle(moved, by, access)
  BY DEF SetArrayValue, Written
<1>3. i \in Nat /\ i # 0 /\ i \in Keys /\ v \in Content /\ Len(array) \in Nat
  BY <1>1, KeyKinds, ContentIs DEF ArrayOK, Keys
<1>4. /\ ArrayOK(grown) /\ Len(grown) \in Nat /\ Len(grown) >= Len(array) /\ i \in 1..Len(grown)
      /\ \A j \in 1..Len(grown) : grown[j] = IF j <= Len(array) THEN array[j] ELSE Nil
  <2>1. CASE i <= Len(array)
    BY <1>1, <1>3, <2>1
  <2>2. CASE i > Len(array)
    <3>1. PICK size \in Nat : size >= i /\ size >= Len(array)
                              /\ EnsureArrayCapacity(i) = Grown(array, size)
      BY <1>1, <1>3, EnsureIs
    <3>2. grown = Grown(array, size)
      BY <1>3, <2>2, <3>1
    <3> HIDE DEF grown
    <3> QED
      BY <1>1, <1>3, <3>1, <3>2, GrownIs
  <2> QED
    BY <1>3, <2>1, <2>2
<1>5. /\ ~moved => (grown[i] = Nil <=> v = Nil)
      /\ moved \in BOOLEAN
  OBVIOUS
<1> HIDE DEF grown, moved, b
<1>6. /\ ArrayOK(b) /\ Len(b) = Len(grown)
      /\ \A j \in 1..Len(b) : b[j] = IF j = i THEN v ELSE grown[j]
  BY <1>2, <1>3, <1>4, WrittenIs
<1>7. ASSUME MapInv, ~GrowsOverEntry PROVE Apart(b, slots)
  <2>1. \A p \in DOMAIN slots : slots[p].key \notin Len(array) + 1 .. Len(b)
    BY <1>7 DEF GrowsOverEntry, b
  <2>2. \A x : x \in 1..Len(b) => x \in 1..Len(array) \/ x \in Len(array) + 1 .. Len(b)
    BY <1>3, <1>4, <1>6
  <2> QED
    BY <1>7, <2>1, <2>2 DEF MapInv, Apart, Full
<1>8. f \in [Keys -> Content] /\ \A k \in Keys : f[k] = IF k = i THEN v ELSE assigned[k]
  BY <1>1, <1>3 DEF NamesMap
<1> HIDE DEF f
<1>9. ASSUME MapInv, ~GrowsOverEntry PROVE IsMap(b, slots, f)
  <2> DEFINE S == {i}
  <2>1. S \subseteq 1..Len(b) /\ S \subseteq Indices /\ Len(b) >= Len(array)
    BY <1>4, <1>6
  <2>2. \A j \in 1..Len(b) : j \notin S => b[j] = IF j <= Len(array) THEN array[j] ELSE Nil
    BY <1>4, <1>6
  <2>3. \A k \in Keys : f[k] = IF k \in S THEN b[k] ELSE assigned[k]
    BY <1>4, <1>6, <1>8
  <2> HIDE DEF S
  <2>4. Writes(array, assigned, S, b, f)
    BY <1>8, <2>1, <2>2, <2>3 DEF Writes
  <2> QED
    BY <1>1, <1>6, <1>7, <1>9, <2>4, ArrayMap DEF MapInv
<1>10. ~moved => Stays(array, slots, b, slots)
  <2>1. ASSUME ~moved, NEW j \in 1..Len(array), array[j] # Nil PROVE j \in 1..Len(b) /\ b[j] # Nil
    BY <1>3, <1>4, <1>5, <1>6, <2>1
  <2> QED
    BY <2>1 DEF Stays
<1>11. access = NoAccess \/ Holds(access, b, slots)
  <2>1. \/ DescribeFast(i, b, slots, metatable) = NoAccess
        \/ Holds(DescribeFast(i, b, slots, metatable), b, slots)
    BY <1>1, <1>3, <1>6, DescribeIs
  <2> QED
    BY <2>1
<1> HIDE DEF access
<1>12. CellsHold(cells', b, slots)
  BY <1>1, <1>2, <1>5, <1>10, <1>11, SettleKeeps
<1>13. f[CallName] = assigned[CallName] /\ NamesMap(slots, f)
  BY <1>1, <1>3, <1>8, KeyKinds DEF Keys, NamesMap
<1>14. target' \in Content /\ (CallInv => Calls(target', f))
  BY <1>1, <1>2, <1>13, SettleTarget DEF CallInv
<1>15. TabInv'
  BY <1>1, <1>2, <1>6, <1>12, <1>13, <1>14 DEF TabInv, b, f
<1>16. MapStep
  BY <1>2, <1>7, <1>9 DEF MapStep, MapInv, b, f
<1>17. CallStep
  BY <1>14 DEF CallStep, CallInv, f
<1> QED
  BY <1>15, <1>16, <1>17

-----------------------------------------------------------------------------
(* Writing the hash part                                                   *)

\* A part of c slots with n entries that maps each key as another does, but for k.
Maps(part, c, n, old, k, v) ==
  /\ HashIn(part, c, n)
  /\ Lookup(part, k) = v
  /\ \A j \in Keys : j # k => Lookup(part, j) = Lookup(old, j)
  /\ \A p \in Full(part) : part[p].key = k \/ \E q \in Full(old) : part[p].key = old[q].key
KeysStay(part, new) ==
  \A p \in DOMAIN part : part[p].key # Nil => p \in DOMAIN new /\ new[p].key = part[p].key

\* There is room for an entry: in the part, in a first one, or in one of twice its size.
LEMMA RoomIs ==
  ASSUME HashOK(slots, count), NEW v, v # Nil, NEW k \in Keys
  PROVE  \E c \in Nat :
           /\ c >= LoadShare /\ count + 1 <= MaxLoad(c)
           /\ Maps(RoomFor(v), c, count, slots, k, Lookup(slots, k))
           /\ \/ RoomFor(v) = slots \/ slots = NoPart
              \/ slots # NoPart /\ Capacity(RoomFor(v)) # Capacity(slots)
<1>1. PICK c \in Nat : HashIn(slots, c, count)
  BY DEF HashOK
<1>2. /\ slots \in Parts(c) /\ Sound(slots, c) /\ count = Cardinality(Full(slots)) /\ count \in Nat
      /\ c = 0 \/ c >= LoadShare
      /\ c # 0 => count <= MaxLoad(c)
      /\ slots = NoPart <=> c = 0
      /\ Capacity(slots) = c
  BY <1>1, FullFinite, PartFields DEF HashIn
<1>3. LoadShare \in Nat /\ LoadShare >= 2 /\ MinHashCapacity \in Nat /\ MinHashCapacity >= LoadShare
  BY TableAssumption DEF TableAssumption
<1> DEFINE room == RoomFor(v)
<1>4. CASE slots = NoPart
  <2> DEFINE d == NormalizedCapacity(MinHashCapacity)
             S == {MinHashCapacity, MinHashCapacity}
  <2>1. Max(S) = MinHashCapacity
    <3>1. S = {MinHashCapacity}
      OBVIOUS
    <3> HIDE DEF S
    <3>2. \E x \in S : \A y \in S : x >= y
      BY <1>3, <3>1
    <3>3. Max(S) \in S
      BY <3>2, Zenon DEF Max
    <3> QED
      BY <3>1, <3>3
  <2>2. d \in Nat /\ d >= MinHashCapacity
    <3>1. d = NextPowerOfTwo(MinHashCapacity)
      BY <2>1, Zenon DEF NormalizedCapacity
    <3> HIDE DEF d
    <3> QED
      BY <1>3, <3>1, NextPowerOfTwoIs
  <2>3. room = EmptyPart(d)
    BY <1>4, Zenon DEF RoomFor
  <2> HIDE DEF d, room
  <2>4. /\ room \in Parts(d) /\ Full(room) = {} /\ Sound(room, d)
        /\ \A j \in Keys : Lookup(room, j) = Nil
    BY <2>2, <2>3, EmptyPartIs
  <2>5. count = 0 /\ Cardinality(Full(room)) = 0
    <3>1. Full(slots) = {}
      BY <1>2, <1>4, PartFields DEF Full
    <3> QED
      BY <1>2, <2>4, <3>1, FS_EmptySet
  <2>6. d >= LoadShare /\ MaxLoad(d) >= 1 /\ MaxLoad(d) \in Nat
    BY <1>3, <2>2, LoadIs
  <2>7. \A j \in Keys : Lookup(slots, j) = Nil
    <3>1. \A j \in Keys : \A p \in Full(slots) : slots[p].key # j
      BY <1>2, <1>4, PartFields DEF Full
    <3> QED
      BY <1>2, <3>1, LookupIs
  <2>8. HashIn(room, d, count)
    BY <2>4, <2>5, <2>6 DEF HashIn
  <2>9. Maps(room, d, count, slots, k, Lookup(slots, k))
    BY <2>4, <2>7, <2>8 DEF Maps
  <2> QED
    BY <1>4, <2>2, <2>5, <2>6, <2>9 DEF room
<1>5. CASE slots # NoPart /\ count + 1 <= MaxLoad(c)
  <2>1. MaxLoad(c) \in Nat
    BY <1>2, <1>5, LoadIs
  <2>2. room = slots
    BY <1>2, <1>5, <2>1 DEF RoomFor
  <2>3. Maps(slots, c, count, slots, k, Lookup(slots, k))
    BY <1>1 DEF Maps
  <2> HIDE DEF room
  <2> QED
    BY <1>2, <1>5, <2>2, <2>3 DEF room
<1>6. CASE slots # NoPart /\ ~(count + 1 <= MaxLoad(c))
  <2> DEFINE d == 2 * c
  <2>1. c >= LoadShare /\ c > 0 /\ MaxLoad(c) \in Nat /\ count < c /\ d \in Nat /\ d # c /\ d >= LoadShare
        /\ MaxLoad(d) \in Nat /\ MaxLoad(d) >= c /\ count < d
    BY <1>2, <1>3, <1>6, LoadIs
  <2>2. room = Rehash(slots, d)
    BY <1>2, <1>6, <2>1 DEF RoomFor
  <2> HIDE DEF d, room
  <2>3. /\ room \in Parts(d) /\ Sound(room, d)
        /\ \A j \in Keys : Lookup(room, j) = Lookup(slots, j)
        /\ \A p \in Full(room) : \E q \in Full(slots) : room[p] = slots[q]
        /\ Cardinality(Full(room)) = count
    BY <1>2, <2>1, <2>2, RehashIs
  <2>4. Capacity(room) = d
    BY <2>1, <2>3, PartFields
  <2>5. HashIn(room, d, count)
    BY <1>2, <2>1, <2>3 DEF HashIn
  <2>6. Maps(room, d, count, slots, k, Lookup(slots, k))
    BY <2>3, <2>5 DEF Maps
  <2> QED
    BY <1>2, <1>6, <2>1, <2>4, <2>6 DEF room
<1> QED
  BY <1>4, <1>5, <1>6

\* A value stored for a key, in its entry or in the slot left for it.
LEMMA StoreIs ==
  ASSUME NEW c \in Nat, c >= LoadShare, NEW part, NEW n, HashIn(part, c, n), n + 1 <= MaxLoad(c),
         NEW k \in Keys, NEW v \in Values
  PROVE  /\ FindEntry(part, k).slot \in 0..c - 1
         /\ Maps(Put(part, FindEntry(part, k).slot, Entry(k, v)), c,
                 IF Found(part, k) THEN n ELSE n + 1, part, k, v)
         /\ KeysStay(part, Put(part, FindEntry(part, k).slot, Entry(k, v)))
         /\ Found(part, k) => part[FindEntry(part, k).slot].value = Lookup(part, k)
<1> DEFINE p == FindEntry(part, k).slot
           e == Entry(k, v)
           new == Put(part, p, e)
           m == IF Found(part, k) THEN n ELSE n + 1
<1>1. LoadShare \in Nat /\ LoadShare >= 2 /\ c > 0
  BY TableAssumption DEF TableAssumption
<1>2. /\ part \in Parts(c) /\ Sound(part, c) /\ n = Cardinality(Full(part)) /\ n \in Nat
      /\ part # NoPart /\ DOMAIN part = 0..c - 1 /\ \A q \in 0..c - 1 : part[q] \in Slot
      /\ Full(part) \subseteq 0..c - 1 /\ IsFiniteSet(Full(part))
      /\ MaxLoad(c) \in Nat /\ MaxLoad(c) < c
  <2>1. part \in Parts(c) /\ Sound(part, c) /\ n = Cardinality(Full(part))
    BY DEF HashIn
  <2>2. MaxLoad(c) \in Nat /\ MaxLoad(c) < c
    BY LoadIs
  <2>3. part # NoPart /\ DOMAIN part = 0..c - 1 /\ \A q \in 0..c - 1 : part[q] \in Slot
    BY <1>1, <2>1, PartFields
  <2>4. n \in Nat /\ Full(part) \subseteq 0..c - 1 /\ IsFiniteSet(Full(part))
    BY <2>1, FullFinite
  <2> QED
    BY <2>1, <2>2, <2>3, <2>4
<1>3. e \in Slot /\ e.ctrl = "full" /\ e.key = k /\ e.value = v
  BY DEF Entry, Slot
<1>4. Found(part, k) <=> FindEntry(part, k).found
  BY <1>2 DEF Found
<1>5. CASE Found(part, k)
  <2>1. p \in Full(part) /\ part[p].key = k /\ \A q \in Full(part) : part[q].key = k => q = p
    BY <1>1, <1>2, <1>4, <1>5, SearchEnds
  <2>2. Reached(part, c, k, p)
    BY <2>1 , <1>2 DEF Sound
  <2>3. part[p].value = Lookup(part, k)
    BY <1>2, <2>1, LookupIs
  <2> QED
    <3> HIDE DEF p, e
    <3>1. p \in 0..c - 1
      BY <1>2, <2>1
    <3>2. /\ Sound(new, c) /\ new \in Parts(c) /\ Lookup(new, k) = v
          /\ \A j \in Keys : j # k => Lookup(new, j) = Lookup(part, j)
          /\ \A q \in Full(new) : new[q].key = k \/ (q \in Full(part) /\ q # p /\ new[q] = part[q])
      <4>1. /\ part \in Parts(c) /\ Sound(part, c) /\ p \in 0..c - 1 /\ e \in Slot
            /\ e.ctrl = "full" /\ e.key = k /\ e.value = v /\ Reached(part, c, k, p)
            /\ part[p].key = k /\ \A q \in Full(part) : q # p => part[q].key # k
        BY <1>2, <1>3, <2>1, <2>2, <3>1
      <4> HIDE DEF new
      <4>2. new = Put(part, p, e)
        BY DEF new
      <4> QED
        BY <4>1, <4>2, PutLookup
    <3>3. Full(new) = Full(part) \cup {p}
      BY <1>2, <1>3, <2>1, <2>2, <3>1, PutKeepsSound
    <3>4. new[p] = e /\ \A q \in 0..c - 1 : q # p => new[q] = part[q]
      BY <1>2, <1>3, <3>1, PutFields
    <3> HIDE DEF new
    <3>5. DOMAIN new = 0..c - 1
      BY <3>2, PartFields
    <3>6. KeysStay(part, new)
      BY <1>2, <1>3, <2>1, <3>1, <3>4, <3>5 DEF KeysStay
    <3>7. HashIn(new, c, n)
      <4>1. Full(new) = Full(part)
        BY <2>1, <3>3
      <4>2. c # 0 => n <= MaxLoad(c)
        BY <1>2
      <4> QED
        BY <1>2, <3>2, <4>1, <4>2 DEF HashIn
    <3>8. Maps(new, c, m, part, k, v)
      BY <1>5, <3>2, <3>7 DEF Maps
    <3> QED
      BY <2>3, <3>1, <3>6, <3>8 DEF new, p, e
<1>6. CASE ~Found(part, k)
  <2>1. Full(part) # DOMAIN part
    <3>1. Cardinality(0..c - 1) = c
      BY FS_Interval
    <3> QED
      BY <1>2, <3>1
  <2>2. p \in (0..c - 1) \ Full(part) /\ Reached(part, c, k, p)
    BY <1>1, <1>2, <1>4, <1>6, <2>1, SearchLeaves
  <2>3. \A q \in Full(part) : part[q].key # k
    BY <1>1, <1>2, <1>4, <1>6, SearchEnds
  <2> HIDE DEF p, e
  <2>4. /\ Sound(new, c) /\ new \in Parts(c) /\ Lookup(new, k) = v
        /\ \A j \in Keys : j # k => Lookup(new, j) = Lookup(part, j)
        /\ \A q \in Full(new) : new[q].key = k \/ (q \in Full(part) /\ q # p /\ new[q] = part[q])
    BY <1>2, <1>3, <2>2, <2>3, PutLookup
  <2>5. Full(new) = Full(part) \cup {p}
    BY <1>2, <1>3, <2>2, <2>3, PutKeepsSound
  <2>6. new[p] = e /\ \A q \in 0..c - 1 : q # p => new[q] = part[q]
    <3>1. p \in 0..c - 1
      BY <2>2
    <3> QED
      BY <1>2, <1>3, <3>1, PutFields
  <2> HIDE DEF new
  <2>7. DOMAIN new = 0..c - 1
    BY <2>4, PartFields
  <2>8. KeysStay(part, new)
    <3>1. part[p].key = Nil
      BY <1>2, <2>2, SlotFields DEF Full
    <3> QED
      BY <1>2, <2>6, <2>7, <3>1 DEF KeysStay
  <2>9. HashIn(new, c, n + 1)
    <3>1. Cardinality(Full(new)) = n + 1
      BY <1>2, <2>2, <2>5, FS_AddElement
    <3> QED
      BY <2>4, <3>1 DEF HashIn
  <2>10. Maps(new, c, m, part, k, v)
    BY <1>6, <2>4, <2>9 DEF Maps
  <2> QED
    BY <1>6, <2>2, <2>8, <2>10 DEF new, p, e
<1> QED
  BY <1>5, <1>6

\* An entry taken away leaves a mark.
LEMMA RemoveIs ==
  ASSUME NEW c \in Nat, NEW part, NEW n, HashIn(part, c, n), NEW k \in Keys, Found(part, k)
  PROVE  /\ n > 0 /\ FindEntry(part, k).slot \in 0..c - 1
         /\ Maps(Put(part, FindEntry(part, k).slot, Deleted), c, n - 1, part, k, Nil)
<1> DEFINE p == FindEntry(part, k).slot
           new == Put(part, p, Deleted)
<1>1. /\ part \in Parts(c) /\ Sound(part, c) /\ n = Cardinality(Full(part))
      /\ c = 0 \/ c >= LoadShare
      /\ c # 0 => n <= MaxLoad(c)
  BY DEF HashIn
<1>2. c > 0
  <2>1. part = NoPart <=> c = 0
    BY <1>1, PartFields
  <2> QED
    BY <2>1 DEF Found
<1>3. n \in Nat /\ Full(part) \subseteq 0..c - 1 /\ IsFiniteSet(Full(part))
  BY <1>1, FullFinite
<1>4. p \in Full(part) /\ part[p].key = k /\ \A q \in Full(part) : part[q].key = k => q = p
  <2>1. FindEntry(part, k).found
    BY DEF Found
  <2> QED
    BY <1>1, <1>2, <2>1, SearchEnds
<1>5. Deleted \in Slot /\ Deleted.ctrl = "deleted" /\ Deleted.value = Nil
  BY DEF Deleted, Slot
<1> HIDE DEF p
<1>6. p \in 0..c - 1
  BY <1>3, <1>4
<1>7. /\ Sound(new, c) /\ new \in Parts(c) /\ Lookup(new, k) = Nil
      /\ \A j \in Keys : j # k => Lookup(new, j) = Lookup(part, j)
      /\ \A q \in Full(new) : new[q].key = k \/ (q \in Full(part) /\ q # p /\ new[q] = part[q])
  <2> HIDE DEF Deleted
  <2> QED
    BY <1>1, <1>4, <1>5, <1>6, PutLookup
<1>8. Full(new) = Full(part) \ {p}
  <2>1. \A q \in Full(part) : q # p => part[q].key # Deleted.key
    <3>1. \A q \in Full(part) : part[q].key \in Keys
      BY <1>1, <1>3, PartFields, SlotFields DEF Full
    <3> QED
      BY <3>1, KeyKinds DEF Deleted
  <2> HIDE DEF Deleted
  <2> QED
    BY <1>1, <1>5, <1>6, <2>1, PutKeepsSound
<1> HIDE DEF new
<1>9. n > 0 /\ Cardinality(Full(new)) = n - 1 /\ n - 1 \in Nat
  <2>1. n > 0
    BY <1>1, <1>3, <1>4, FS_EmptySet
  <2>2. Cardinality(Full(part) \ {p}) = Cardinality(Full(part)) - 1
    BY <1>3, <1>4, FS_RemoveElement
  <2> QED
    BY <1>1, <1>3, <1>8, <2>1, <2>2
<1>10. HashIn(new, c, n - 1)
  <2>1. c # 0 => MaxLoad(c) \in Nat
    BY <1>1, LoadIs
  <2> QED
    BY <1>1, <1>3, <1>7, <1>9, <2>1 DEF HashIn
<1>11. Maps(new, c, n - 1, part, k, Nil)
  BY <1>7, <1>10 DEF Maps
<1> QED
  BY <1>6, <1>9, <1>11 DEF new, p

Assigned(f, k, v) == [f EXCEPT ![k] = v]

\* The map after the hash part has changed what it maps k to.
LEMMA HashMap ==
  ASSUME NEW a, ArrayOK(a), NEW old, NEW f, NamesMap(old, f),
         NEW part, NEW c \in Nat, NEW n, NEW k \in Keys, NEW v \in Content,
         Maps(part, c, n, old, k, v), k \notin 1..Len(a)
  PROVE  /\ HashOK(part, n) /\ NamesMap(part, Assigned(f, k, v))
         /\ Apart(a, old) => Apart(a, part)
         /\ IsMap(a, old, f) => IsMap(a, part, Assigned(f, k, v))
<1> DEFINE g == Assigned(f, k, v)
<1>1. f \in [Keys -> Content] /\ \A j \in Names : Lookup(old, j) = f[j]
  BY DEF NamesMap
<1>2. g \in [Keys -> Content] /\ \A j \in Keys : g[j] = IF j = k THEN v ELSE f[j]
  BY <1>1 DEF Assigned
<1> HIDE DEF g
<1>3. /\ Lookup(part, k) = v /\ HashIn(part, c, n)
      /\ \A j \in Keys : j # k => Lookup(part, j) = Lookup(old, j)
      /\ \A p \in Full(part) : part[p].key = k \/ \E q \in Full(old) : part[p].key = old[q].key
  BY DEF Maps
<1>4. ~InArray(k, a)
  BY KeyKinds DEF InArray, ArrayOK
<1>5. ASSUME IsMap(a, old, f), NEW j \in Keys PROVE GetIn(a, part, j) = g[j]
  <2>1. CASE j = k
    BY <1>2, <1>3, <1>4, <2>1 DEF GetIn
  <2>2. CASE j # k
    BY <1>2, <1>3, <1>5, <2>2 DEF GetIn, IsMap
  <2> QED
    BY <2>1, <2>2
<1>6. ASSUME Apart(a, old) PROVE Apart(a, part)
  BY <1>3, <1>6 DEF Apart
<1>7. NamesMap(part, g)
  BY <1>1, <1>2, <1>3 DEF NamesMap, Keys
<1> QED
  BY <1>3, <1>5, <1>6, <1>7 DEF IsMap, HashOK, g

\* The invariant when the hash part has changed what it maps k to.
LEMMA HashStep ==
  ASSUME TabInv, NEW k \in Keys, k \notin 1..Len(array), NEW v \in Content, NEW by \in Runners,
         NEW part, NEW c \in Nat, NEW n, Maps(part, c, n, slots, k, v),
         slots' = part, count' = n, array' = array, metatable' = metatable,
         assigned' = [assigned EXCEPT ![k] = v],
         NEW moved \in BOOLEAN, NEW access, Settle(moved, by, access),
         access = NoAccess \/ Holds(access, array, part),
         ~moved => KeysStay(slots, part),
         ~moved /\ ~OverwritesMetamethod /\ k = CallName => assigned[k] = v
  PROVE  TabInv' /\ MapStep /\ CallStep
<1> DEFINE f == assigned'
<1>1. /\ ArrayOK(array) /\ HashOK(slots, count)
      /\ metatable \in Metatables \cup {Nil}
      /\ CellsHold(cells, array, slots)
      /\ NamesMap(slots, assigned) /\ target \in Content
  BY DEF TabInv
<1>2. assigned \in [Keys -> Content] /\ \A j \in Keys : f[j] = IF j = k THEN v ELSE assigned[j]
  BY <1>1 DEF NamesMap
<1>3. f = Assigned(assigned, k, v)
  BY DEF Assigned
<1> HIDE DEF f
<1>4. /\ HashOK(part, n) /\ NamesMap(part, f)
      /\ Apart(array, slots) => Apart(array, part)
      /\ IsMap(array, slots, assigned) => IsMap(array, part, f)
  BY <1>1, <1>3, HashMap
<1>5. CellsHold(cells', array, part)
  <2>1. ~moved => Stays(array, slots, array, part)
    BY DEF Stays, KeysStay
  <2> QED
    BY <1>1, <2>1, SettleKeeps
<1>6. target' \in Content /\ (CallInv /\ ~OverwritesMetamethod => Calls(target', f))
  <2>1. ~OverwritesMetamethod /\ ~moved => f[CallName] = assigned[CallName]
    BY <1>2, KeyKinds DEF Keys
  <2> QED
    BY <1>1, <2>1, SettleTarget DEF CallInv
<1>7. TabInv'
  BY <1>1, <1>4, <1>5, <1>6 DEF TabInv, f
<1>8. MapStep /\ CallStep
  BY <1>4, <1>6 DEF MapStep, MapInv, CallStep, CallInv, f
<1> QED
  BY <1>7, <1>8

\* A value stored in the hash part, or taken from it (setHashValue).
LEMMA SetHashValueKeeps ==
  ASSUME TabInv, NEW k \in Keys, k \notin 1..Len(array), NEW v \in ContentOf(k), NEW by \in Runners,
         SetHashValue(k, v, by), assigned' = [assigned EXCEPT ![k] = v]
  PROVE  TabInv' /\ MapStep /\ CallStep
<1> DEFINE part == RoomFor(v)
           rehashed == slots # NoPart /\ Capacity(part) # Capacity(slots)
           slot == FindEntry(part, k).slot
           Store(new, size, moved) ==
             /\ slots' = new /\ count' = size /\ array' = array /\ metatable' = metatable
             /\ Settle(moved \/ rehashed, by,
                       IF v = Nil THEN NoAccess ELSE DescribeFast(k, array, slots', metatable))
<1>1. /\ ArrayOK(array) /\ HashOK(slots, count)
      /\ NamesMap(slots, assigned)
  BY DEF TabInv
<1>2. v \in Content /\ (v # Nil => v \in Values)
  BY ContentIs DEF Content
<1>3. k = CallName => assigned[k] = Lookup(slots, k)
  BY <1>1, KeyKinds DEF NamesMap
<1>4. CASE v = Nil /\ ~Found(part, k) /\ UNCHANGED table /\ Settle(FALSE, by, NoAccess)
  <2>1. slots' = slots /\ count' = count /\ array' = array /\ metatable' = metatable
    BY <1>4 DEF table
  <2>2. PICK c \in Nat : HashIn(slots, c, count)
    BY <1>1 DEF HashOK
  <2>3. part = slots
    BY <1>4, Zenon DEF RoomFor
  <2>4. Lookup(slots, k) = Nil
    BY <1>4, <2>3 DEF Found, Lookup
  <2> HIDE DEF part
  <2>5. Maps(slots, c, count, slots, k, v)
    BY <1>4, <2>2, <2>4 DEF Maps
  <2> DEFINE moved == FALSE
  <2>6. moved \in BOOLEAN /\ Settle(moved, by, NoAccess) /\ ~moved
    BY <1>4
  <2> HIDE DEF moved
  <2>7. KeysStay(slots, slots)
    BY DEF KeysStay
  <2> QED
    BY <1>2, <1>3, <1>4, <2>1, <2>4, <2>5, <2>6, <2>7, HashStep
<1>5. CASE v = Nil /\ Found(part, k) /\ Store(Put(part, slot, Deleted), IF count > 0 THEN count - 1 ELSE 0, TRUE)
  <2>1. part = slots
    BY <1>5, Zenon DEF RoomFor
  <2>2. PICK c \in Nat : HashIn(slots, c, count)
    BY <1>1 DEF HashOK
  <2> DEFINE new == Put(slots, FindEntry(slots, k).slot, Deleted)
  <2>3. count > 0 /\ Maps(new, c, count - 1, slots, k, Nil)
    <3>1. Found(slots, k)
      BY <1>5, <2>1
    <3> HIDE DEF part
    <3> QED
      BY <2>2, <3>1, RemoveIs
  <2>4. slots' = new /\ count' = count - 1 /\ array' = array /\ metatable' = metatable
    BY <1>5, <2>1, <2>3
  <2> DEFINE moved == TRUE \/ rehashed
  <2>5. Settle(moved, by, NoAccess)
    BY <1>5
  <2>6. moved \in BOOLEAN /\ moved
    OBVIOUS
  <2> HIDE DEF moved, new, part
  <2> QED
    BY <1>2, <1>5, <2>3, <2>4, <2>5, <2>6, HashStep
<1>6. ASSUME v # Nil, NEW m, m = (IF Found(part, k) THEN count ELSE count + 1), NEW moved \in BOOLEAN,
             Store(Put(part, slot, Entry(k, v)), m, moved),
             ~moved => Found(part, k) /\ (IsVersionSensitiveKey(k) => part[slot].value = v)
      PROVE  TabInv' /\ MapStep /\ CallStep
  <2> DEFINE new == Put(part, slot, Entry(k, v))
             again == moved \/ rehashed
             access == DescribeFast(k, array, new, metatable)
  <2>1. PICK c \in Nat :
           /\ c >= LoadShare /\ count + 1 <= MaxLoad(c)
           /\ Maps(part, c, count, slots, k, Lookup(slots, k))
           /\ part = slots \/ slots = NoPart \/ rehashed
    BY <1>1, <1>6, RoomIs
  <2>2. /\ slots' = new /\ count' = m /\ array' = array /\ metatable' = metatable
        /\ Settle(again, by, access)
    BY <1>6
  <2>3. again \in BOOLEAN /\ (~again => ~moved /\ (part = slots \/ slots = NoPart))
    BY <1>6, <2>1
  <2> HIDE DEF part, rehashed, again
  <2>4. HashIn(part, c, count) /\ v \in Values
    BY <1>2, <1>6, <2>1 DEF Maps
  <2>5. /\ Maps(new, c, m, part, k, v) /\ KeysStay(part, new)
        /\ Found(part, k) => part[slot].value = Lookup(part, k)
    BY <1>6, <2>1, <2>4, StoreIs
  <2> HIDE DEF new, slot
  <2>6. Maps(new, c, m, slots, k, v) /\ Lookup(part, k) = Lookup(slots, k)
    BY <2>1, <2>5 DEF Maps
  <2>7. access = NoAccess \/ Holds(access, array, new)
    <3>1. HashOK(new, m)
      BY <2>6 DEF HashOK, Maps
    <3> QED
      BY <1>1, <3>1, DescribeIs
  <2>8. ~again => KeysStay(slots, new)
    <3>1. ASSUME slots = NoPart PROVE KeysStay(slots, new)
      BY <3>1 DEF KeysStay, NoPart, EmptyPart
    <3> QED
      BY <2>3, <2>5, <3>1
  <2>9. ~again => (k = CallName => assigned[k] = v)
    BY <1>3, <1>6, <2>3, <2>5, <2>6, KeyKinds DEF IsVersionSensitiveKey
  <2> HIDE DEF access
  <2> QED
    BY <1>2, <2>2, <2>3, <2>6, <2>7, <2>8, <2>9, HashStep
<1>7. CASE v # Nil /\ Found(part, k)
           /\ Store(Put(part, slot, Entry(k, v)), count, IsVersionSensitiveKey(k) /\ part[slot].value # v)
  <2> DEFINE moved == IsVersionSensitiveKey(k) /\ part[slot].value # v
  <2>1. moved \in BOOLEAN /\ (~moved => (IsVersionSensitiveKey(k) => part[slot].value = v))
    OBVIOUS
  <2>2. Store(Put(part, slot, Entry(k, v)), count, moved)
    BY <1>7
  <2> HIDE DEF moved, Store, part, slot
  <2> QED
    BY <1>6, <1>7, <2>1, <2>2
<1>8. CASE v # Nil /\ ~Found(part, k) /\ Store(Put(part, slot, Entry(k, v)), count + 1, TRUE)
  <2> DEFINE moved == TRUE
  <2>1. moved \in BOOLEAN /\ moved
    OBVIOUS
  <2>2. Store(Put(part, slot, Entry(k, v)), count + 1, moved)
    BY <1>8
  <2> HIDE DEF moved, Store, part, slot
  <2> QED
    BY <1>6, <1>8, <2>1, <2>2
<1> QED
  BY <1>4, <1>5, <1>7, <1>8 DEF SetHashValue, Put

\* An entry overwritten.
LEMMA OverwriteIs ==
  ASSUME NEW c \in Nat, NEW part, NEW n, HashIn(part, c, n), NEW k \in Keys, NEW v \in Values,
         NEW p \in DOMAIN part, part[p].key = k
  PROVE  /\ [part EXCEPT ![p].value = v] = Put(part, p, Entry(k, v))
         /\ Maps(Put(part, p, Entry(k, v)), c, n, part, k, v)
         /\ KeysStay(part, Put(part, p, Entry(k, v)))
<1> DEFINE e == Entry(k, v)
           new == Put(part, p, e)
<1>1. /\ part \in Parts(c) /\ Sound(part, c) /\ n = Cardinality(Full(part))
      /\ c = 0 \/ c >= LoadShare
      /\ c # 0 => n <= MaxLoad(c)
  BY DEF HashIn
<1>2. DOMAIN part = 0..c - 1 /\ \A q \in 0..c - 1 : part[q] \in Slot
  BY <1>1, PartFields
<1>3. part[p] = Entry(k, part[p].value) /\ part[p].ctrl = "full" /\ p \in Full(part) /\ c > 0
  BY <1>2, SlotFields DEF Full
<1>4. [part EXCEPT ![p].value = v] = new
  <2>1. ASSUME NEW u PROVE [Entry(k, u) EXCEPT !.value = v] = Entry(k, v)
    BY DEF Entry
  <2>2. [part[p] EXCEPT !.value = v] = e
    BY <1>3, <2>1, Zenon
  <2>3. [part EXCEPT ![p].value = v] = [part EXCEPT ![p] = [part[p] EXCEPT !.value = v]]
    BY Zenon
  <2> HIDE DEF e
  <2> QED
    BY <2>2, <2>3, Zenon DEF Put
<1>5. e \in Slot /\ e.ctrl = "full" /\ e.key = k /\ e.value = v
  BY DEF Entry, Slot
<1> HIDE DEF e
<1>6. \A q \in Full(part) : part[q].key = k => q = p
  BY <1>1, <1>3, SearchEnds
<1>7. Reached(part, c, k, p)
  BY <1>1, <1>3 DEF Sound
<1>8. /\ Sound(new, c) /\ new \in Parts(c) /\ Lookup(new, k) = v
      /\ \A j \in Keys : j # k => Lookup(new, j) = Lookup(part, j)
      /\ \A q \in Full(new) : new[q].key = k \/ (q \in Full(part) /\ q # p /\ new[q] = part[q])
  BY <1>1, <1>2, <1>5, <1>6, <1>7, SMTT(60), PutLookup
<1>9. Full(new) = Full(part)
  <2>1. Full(new) = Full(part) \cup {p}
    BY <1>1, <1>2, <1>5, <1>6, <1>7, PutKeepsSound
  <2> QED
    BY <1>3, <2>1
<1>10. new[p] = e /\ \A q \in 0..c - 1 : q # p => new[q] = part[q]
  BY <1>1, <1>2, <1>5, PutFields
<1> HIDE DEF new
<1>11. KeysStay(part, new)
  <2>1. DOMAIN new = 0..c - 1
    BY <1>8, PartFields
  <2> QED
    BY <1>2, <1>5, <1>10, <2>1 DEF KeysStay
<1>12. HashIn(new, c, n)
  BY <1>1, <1>8, <1>9 DEF HashIn
<1>13. Maps(new, c, n, part, k, v)
  BY <1>8, <1>12 DEF Maps
<1> QED
  BY <1>4, <1>11, <1>13 DEF new, e

\* A store with a string key by the native stub.
LEMMA SetNativelyKeeps ==
  ASSUME TabInv, NEW k \in Names, NEW v \in ValuesOf[k], NEW s \in Setters, SetNatively(k, v, s)
  PROVE  TabInv' /\ MapStep /\ CallStep
<1> DEFINE p == FindEntry(slots, k).slot
           new == Put(slots, p, Entry(k, v))
           access == DescribeFast(k, array, new, metatable)
           by == Interpreted(s)
           moved == FALSE
<1>1. /\ ArrayOK(array) /\ HashOK(slots, count) /\ NamesMap(slots, assigned)
  BY DEF TabInv
<1>2. k \in Keys /\ v \in Values /\ v \in Content /\ k \notin 1..Len(array) /\ v # Nil
  BY <1>1, KeyKinds, ContentIs DEF Content, Keys, ArrayOK
<1>3. PICK c \in Nat : HashIn(slots, c, count)
  BY <1>1 DEF HashOK
<1>4. p \in DOMAIN slots /\ slots[p].key = k
  <2>1. slots \in Parts(c) /\ Sound(slots, c)
    BY <1>3 DEF HashIn
  <2>2. c > 0 /\ FindEntry(slots, k).found
    BY <2>1, PartFields DEF SetNatively, Found
  <2>3. p \in Full(slots) /\ slots[p].key = k
    BY <1>2, <2>1, <2>2, SearchEnds
  <2> QED
    BY <2>3 DEF Full
<1> HIDE DEF p
<1>5. /\ [slots EXCEPT ![p].value = v] = new /\ Maps(new, c, count, slots, k, v)
      /\ KeysStay(slots, new)
  BY <1>2, <1>3, <1>4, OverwriteIs
<1>6. /\ slots' = new /\ count' = count /\ array' = array /\ metatable' = metatable
      /\ assigned' = [assigned EXCEPT ![k] = v]
      /\ Settle(moved, by, access)
  <2>1. slots' = new
    BY <1>5 DEF SetNatively, p
  <2> QED
    BY <2>1 DEF SetNatively
<1>7. access = NoAccess \/ Holds(access, array, new)
  <2>1. HashOK(new, count)
    BY <1>5 DEF HashOK, Maps
  <2> HIDE DEF new
  <2> QED
    BY <1>1, <1>2, <2>1, DescribeIs
<1>8. ASSUME ~OverwritesMetamethod PROVE k = CallName => assigned[k] = v
  <2> SUFFICES ASSUME k = CallName, assigned[k] # v PROVE FALSE
    OBVIOUS
  <2>1. assigned'[k] = v
    BY <1>1, <1>2, <1>6 DEF NamesMap
  <2>2. k \in MetaNames /\ assigned'[k] # assigned[k]
    BY <2>1, KeyKinds
  <2>3. SetNatively(k, v, s) \/ (SetThroughCell(s, v) /\ cells[s].access.key = k)
    OBVIOUS
  <2> QED
    BY <1>2, <1>8, <2>2, <2>3 DEF OverwritesMetamethod
<1>9. by \in Runners
  BY DEF Runners, Runs, Setters
<1>10. moved \in BOOLEAN /\ ~moved
  OBVIOUS
<1> HIDE DEF new, access, by, moved
<1> QED
  BY <1>2, <1>3, <1>5, <1>6, <1>7, <1>8, <1>9, <1>10, HashStep

\* What a cache names stays where it is when what it may name does.
LEMMA CellsStay ==
  ASSUME NEW cs, NEW a, NEW part, NEW a2, NEW part2, CellsHold(cs, a, part), Stays(a, part, a2, part2)
  PROVE  CellsHold(cs, a2, part2)
<1>1. ASSUME NEW x \in Access, HoldsIn(x, a, part) PROVE HoldsIn(x, a2, part2)
  <2>1. x.kind = "hash" => x.key # Nil
    BY <1>1, KeyKinds DEF HoldsIn, Keys
  <2> QED
    BY <1>1, <2>1 DEF HoldsIn, Stays
<1> QED
  BY <1>1 DEF CellsHold, Holds

\* A store of compiled code through its cache.
LEMMA SetThroughCellKeeps ==
  ASSUME TabInv, NEW s \in Setters, NEW v \in ValuesOf[cells[s].access.key], SetThroughCell(s, v)
  PROVE  TabInv' /\ MapStep /\ CallStep
<1> DEFINE x == cells[s].access
           k == x.key
           f == assigned'
<1>1. /\ ArrayOK(array) /\ HashOK(slots, count)
      /\ metatable \in Metatables \cup {Nil}
      /\ CellsHold(cells, array, slots)
      /\ NamesMap(slots, assigned) /\ target \in Content
  BY DEF TabInv
<1>2. Holds(x, array, slots)
  BY <1>1 DEF CellsHold, SetThroughCell, Setters
<1>3. /\ count' = count /\ metatable' = metatable /\ cells' = cells /\ target' = target
      /\ f = [assigned EXCEPT ![k] = v]
      /\ \/ x.kind = "array" /\ array' = [array EXCEPT ![x.slot + 1] = v] /\ slots' = slots
         \/ x.kind = "hash" /\ slots' = [slots EXCEPT ![x.slot].value = v] /\ array' = array
  BY DEF SetThroughCell
<1>4. \A j \in 1..Len(array) : array[j] # Nil => j \in Indices
  BY <1>1 DEF ArrayOK
<1>5. CASE x.kind = "array"
  <2> DEFINE b == array'
  <2>1. /\ k \in 1..Len(array) /\ x.slot = k - 1 /\ array[k] # Nil /\ k \in Indices
        /\ Len(array) \in Nat
    BY <1>1, <1>2, <1>4, <1>5 DEF Holds, HoldsIn, ArrayOK
  <2>2. k \in Keys /\ v \in Content /\ v # Nil
    BY <2>1, ContentIs DEF Keys, Content
  <2>3. b = Written(array, k, v) /\ slots' = slots
    <3>1. x.slot + 1 = k
      BY <2>1
    <3> HIDE DEF x, k
    <3> QED
      BY <1>3, <1>5, <3>1 DEF Written
  <2> HIDE DEF b, k, f
  <2>4. /\ ArrayOK(b) /\ Len(b) = Len(array)
        /\ \A j \in 1..Len(array) : b[j] = IF j = k THEN v ELSE array[j]
    BY <1>1, <2>1, <2>2, <2>3, WrittenIs
  <2>5. f \in [Keys -> Content] /\ \A j \in Keys : f[j] = IF j = k THEN v ELSE assigned[j]
    BY <1>1, <1>3, <2>2 DEF NamesMap
  <2>6. ASSUME MapInv PROVE Apart(b, slots)
    BY <2>4, <2>6 DEF MapInv, Apart
  <2>7. ASSUME MapInv PROVE IsMap(b, slots, f)
    <3> DEFINE S == {k}
    <3>1. S \subseteq Indices /\ S \subseteq 1..Len(b) /\ Len(b) >= Len(array)
      BY <2>1, <2>4
    <3>2. \A j \in 1..Len(b) : j \notin S => b[j] = IF j <= Len(array) THEN array[j] ELSE Nil
      BY <2>1, <2>4
    <3>3. \A j \in Keys : f[j] = IF j \in S THEN b[j] ELSE assigned[j]
      BY <2>1, <2>4, <2>5
    <3> HIDE DEF S
    <3>4. Writes(array, assigned, S, b, f)
      BY <2>5, <3>1, <3>2, <3>3 DEF Writes
    <3> QED
      BY <1>1, <2>4, <2>6, <2>7, <3>4, ArrayMap DEF MapInv
  <2>8. CellsHold(cells, b, slots)
    <3>1. Stays(array, slots, b, slots)
      BY <2>2, <2>4 DEF Stays
    <3> QED
      BY <1>1, <3>1, CellsStay
  <2>9. f[CallName] = assigned[CallName] /\ NamesMap(slots, f)
    BY <1>1, <2>1, <2>5, KeyKinds DEF Keys, NamesMap
  <2>10. TabInv'
    BY <1>1, <1>3, <2>3, <2>4, <2>8, <2>9 DEF TabInv, b, f
  <2>11. MapStep /\ CallStep
    BY <1>3, <2>3, <2>6, <2>7, <2>9 DEF MapStep, MapInv, CallStep, CallInv, Calls, b, f
  <2> QED
    BY <2>10, <2>11
<1>6. CASE x.kind = "hash"
  <2> DEFINE p == x.slot
             new == Put(slots, p, Entry(k, v))
  <2>1. k \in Names /\ p \in DOMAIN slots /\ slots[p].key = k
    BY <1>2, <1>6 DEF Holds, HoldsIn
  <2>2. k \in Keys /\ v \in Content /\ v \in Values /\ k \notin 1..Len(array)
    BY <1>1, <2>1, KeyKinds, ContentIs DEF Keys, Content, ArrayOK
  <2>3. PICK c \in Nat : HashIn(slots, c, count)
    BY <1>1 DEF HashOK
  <2> HIDE DEF k, p
  <2>4. /\ [slots EXCEPT ![p].value = v] = new /\ Maps(new, c, count, slots, k, v)
        /\ KeysStay(slots, new)
    BY <2>1, <2>2, <2>3, OverwriteIs
  <2>5. slots' = new /\ array' = array
    BY <1>3, <1>6, <2>4 DEF p
  <2> HIDE DEF new
  <2>6. f = Assigned(assigned, k, v)
    BY <1>3 DEF Assigned
  <2> HIDE DEF f
  <2>7. /\ HashOK(new, count) /\ NamesMap(new, f)
        /\ Apart(array, slots) => Apart(array, new)
        /\ IsMap(array, slots, assigned) => IsMap(array, new, f)
    BY <1>1, <2>2, <2>4, <2>6, HashMap
  <2>8. CellsHold(cells, array, new)
    <3>1. Stays(array, slots, array, new)
      BY <2>4 DEF Stays, KeysStay
    <3> QED
      BY <1>1, <3>1, CellsStay
  <2>9. ASSUME ~OverwritesMetamethod PROVE f[CallName] = assigned[CallName]
    <3>1. \A j \in Keys : f[j] = IF j = k THEN v ELSE assigned[j]
      BY <1>1, <2>2, <2>6 DEF NamesMap, Assigned
    <3>2. k \in MetaNames => f[k] = assigned[k]
      BY <2>2, <2>9 DEF OverwritesMetamethod, f, k
    <3> QED
      BY <3>1, <3>2, KeyKinds DEF Keys
  <2>10. TabInv'
    BY <1>1, <1>3, <2>5, <2>7, <2>8 DEF TabInv, f
  <2>11. MapStep /\ CallStep
    BY <1>3, <2>5, <2>7, <2>9 DEF MapStep, MapInv, CallStep, CallInv, Calls, f
  <2> QED
    BY <2>10, <2>11
<1> QED
  BY <1>3, <1>5, <1>6

-----------------------------------------------------------------------------
(* The list of a constructor                                               *)

\* The indices a list is stored at, and what they hold afterwards.
LEMMA ListedIs ==
  ASSUME NEW a, ArrayOK(a), NEW start \in Starts, NEW n \in ListLengths, NEW list \in Lists(start, n),
         NEW b, ArrayOK(b), Len(b) >= Len(a), Len(b) >= start + Len(list) - 1,
         \A i \in 1..Len(b) : b[i] = IF i <= Len(a) THEN a[i] ELSE Nil,
         NEW f \in [Keys -> Content]
  PROVE  /\ ArrayOK(Listed(b, start, list)) /\ Len(Listed(b, start, list)) = Len(b)
         /\ Writes(a, f, start..(start + Len(list) - 1), Listed(b, start, list), Listed(f, start, list))
<1> DEFINE S == start..(start + Len(list) - 1)
           new == Listed(b, start, list)
           g == Listed(f, start, list)
<1>1. start \in Nat /\ start # 0 /\ n \in Nat /\ start..(start + n - 1) \subseteq Indices
  BY TableAssumption DEF TableAssumption
<1>2. list \in [1..n -> Content] /\ Len(list) = n
  BY <1>1 DEF Lists
<1>3. Len(a) \in Nat /\ Len(b) \in Nat /\ b \in [1..Len(b) -> Content] /\ DOMAIN b = 1..Len(b)
  BY DEF ArrayOK
<1>4. S \subseteq Indices /\ S \subseteq 1..Len(b) /\ S \subseteq Keys
  BY <1>1, <1>2, <1>3 DEF Keys
<1>5. \A i \in S : list[i - start + 1] \in Content
  <2>1. \A i \in S : i - start + 1 \in 1..n
    BY <1>1, <1>2
  <2> QED
    BY <1>2, <2>1
<1>6. /\ new \in [1..Len(b) -> Content]
      /\ \A i \in 1..Len(b) : new[i] = IF i \in S THEN list[i - start + 1] ELSE b[i]
  <2> HIDE DEF S
  <2> QED
    BY <1>3, <1>5 DEF Listed, S
<1>7. /\ g \in [Keys -> Content]
      /\ \A k \in Keys : g[k] = IF k \in S THEN list[k - start + 1] ELSE f[k]
  BY <1>5 DEF Listed
<1> HIDE DEF S, new, g
<1>8. new \in Seq(Content) /\ Len(new) = Len(b)
  BY <1>3, <1>6
<1>9. \A i \in 1..Len(new) : new[i] # Nil => i \in Indices
  BY <1>4, <1>6, <1>8 DEF ArrayOK
<1>10. \A i \in 1..Len(new) : i \notin S => new[i] = IF i <= Len(a) THEN a[i] ELSE Nil
  BY <1>6, <1>8
<1>11. \A k \in Keys : g[k] = IF k \in S THEN new[k] ELSE f[k]
  BY <1>4, <1>6, <1>7
<1>12. ArrayOK(new) /\ Writes(a, f, S, new, g)
  BY <1>4, <1>7, <1>8, <1>9, <1>10, <1>11 DEF ArrayOK, Writes
<1> QED
  BY <1>8, <1>12 DEF S, new, g

\* A list stored by the host.
LEMMA SetListArrayKeeps ==
  ASSUME TabInv, NEW start \in Starts, NEW n \in ListLengths, NEW list \in Lists(start, n),
         SetListArray(start, list)
  PROVE  TabInv' /\ MapStep /\ CallStep
<1> DEFINE m == start + Len(list) - 1
           grown == EnsureArrayCapacity(m)
           b == array'
           f == assigned'
           Presence(part) == {i \in DOMAIN part : part[i] # Nil}
           moved == array # <<>> \/ Presence(b) # Presence(grown)
<1>1. /\ ArrayOK(array) /\ HashOK(slots, count)
      /\ metatable \in Metatables \cup {Nil}
      /\ CellsHold(cells, array, slots)
      /\ NamesMap(slots, assigned) /\ target \in Content
      /\ assigned \in [Keys -> Content]
  BY DEF TabInv, NamesMap
<1>2. /\ b = Listed(grown, start, list) /\ f = Listed(assigned, start, list)
      /\ slots' = slots /\ count' = count /\ metatable' = metatable
      /\ Settle(moved, Host, NoAccess)
  BY Zenon DEF SetListArray
<1>3. moved \in BOOLEAN /\ (~moved => array = <<>>)
  OBVIOUS
<1> HIDE DEF moved
<1>4. m \in Nat /\ Len(array) \in Nat
  <2>1. start \in Nat /\ start # 0 /\ n \in Nat /\ list \in [1..n -> Content]
    BY TableAssumption DEF TableAssumption, Lists
  <2> QED
    BY <1>1, <2>1 DEF ArrayOK
<1> HIDE DEF m
<1>5. PICK size \in Nat : size >= m /\ size >= Len(array) /\ grown = Grown(array, size)
  BY <1>1, <1>4, EnsureIs
<1> HIDE DEF grown
<1>6. /\ ArrayOK(grown) /\ Len(grown) = size
      /\ \A i \in 1..Len(grown) : grown[i] = IF i <= Len(array) THEN array[i] ELSE Nil
  BY <1>1, <1>5, GrownIs
<1>7. Len(grown) >= Len(array) /\ Len(grown) >= start + Len(list) - 1
  BY <1>5, <1>6 DEF m
<1> HIDE DEF b, f
<1>8. ArrayOK(b) /\ Len(b) = Len(grown) /\ Writes(array, assigned, start..(start + Len(list) - 1), b, f)
  BY <1>1, <1>2, <1>6, <1>7, ListedIs
<1>9. ASSUME MapInv, ~GrowsOverEntry PROVE Apart(b, slots)
  <2>1. \A p \in DOMAIN slots : slots[p].key \notin Len(array) + 1 .. Len(b)
    BY <1>9 DEF GrowsOverEntry, b
  <2>2. \A x : x \in 1..Len(b) => x \in 1..Len(array) \/ x \in Len(array) + 1 .. Len(b)
    BY <1>4, <1>6, <1>8
  <2> QED
    BY <1>9, <2>1, <2>2 DEF MapInv, Apart, Full
<1>10. ASSUME MapInv, ~GrowsOverEntry PROVE IsMap(b, slots, f)
  BY <1>1, <1>8, <1>9, <1>10, ArrayMap DEF MapInv
<1>11. CellsHold(cells', b, slots)
  <2>1. ~moved => Stays(array, slots, b, slots)
    BY <1>3 DEF Stays
  <2>2. Host \in Runners
    BY DEF Runners
  <2> QED
    BY <1>1, <1>2, <1>3, <2>1, <2>2, SettleKeeps
<1>12. f[CallName] = assigned[CallName] /\ NamesMap(slots, f)
  BY <1>1, <1>8, KeyKinds DEF Writes, Keys, NamesMap
<1>13. target' \in Content /\ (CallInv => Calls(target', f))
  BY <1>1, <1>2, <1>12, SettleTarget DEF CallInv
<1>14. TabInv'
  BY <1>1, <1>2, <1>8, <1>11, <1>12, <1>13 DEF TabInv, b, f
<1>15. MapStep /\ CallStep
  BY <1>2, <1>9, <1>10, <1>13 DEF MapStep, MapInv, CallStep, CallInv, b, f
<1> QED
  BY <1>14, <1>15

\* A list stored natively.
LEMMA SetListNativelyKeeps ==
  ASSUME TabInv, NEW start \in Starts, NEW n \in ListLengths, NEW list \in Lists(start, n),
         SetListNatively(start, list)
  PROVE  TabInv' /\ MapStep /\ CallStep
<1> DEFINE b == array'
           f == assigned'
<1>1. /\ ArrayOK(array) /\ HashOK(slots, count)
      /\ metatable \in Metatables \cup {Nil}
      /\ CellsHold(cells, array, slots)
      /\ NamesMap(slots, assigned) /\ target \in Content
      /\ assigned \in [Keys -> Content]
  BY DEF TabInv, NamesMap
<1>2. /\ b = Listed(array, start, list) /\ f = Listed(assigned, start, list)
      /\ slots' = slots /\ count' = count /\ metatable' = metatable
      /\ cells' = cells /\ target' = target
      /\ start + Len(list) - 1 <= Len(array)
      /\ \A s \in Sites : ~Hits(cells[s])
  BY DEF SetListNatively, Unseen
<1>3. Len(array) \in Nat /\ start + Len(list) - 1 \in Int
  <2>1. start \in Nat /\ n \in Nat /\ list \in [1..n -> Content]
    BY TableAssumption DEF TableAssumption, Lists
  <2> QED
    BY <1>1, <2>1 DEF ArrayOK
<1>4. /\ Len(array) >= Len(array) /\ Len(array) >= start + Len(list) - 1
      /\ \A i \in 1..Len(array) : array[i] = IF i <= Len(array) THEN array[i] ELSE Nil
  BY <1>2, <1>3
<1> HIDE DEF b, f
<1>5. ArrayOK(b) /\ Len(b) = Len(array) /\ Writes(array, assigned, start..(start + Len(list) - 1), b, f)
  BY <1>1, <1>2, <1>4, ListedIs
<1>6. ASSUME MapInv PROVE Apart(b, slots)
  BY <1>1, <1>5, <1>6 DEF MapInv, Apart
<1>7. ASSUME MapInv PROVE IsMap(b, slots, f)
  BY <1>1, <1>5, <1>6, <1>7, ArrayMap DEF MapInv
<1>8. CellsHold(cells, b, slots)
  BY <1>1, <1>2 DEF CellsHold
<1>9. f[CallName] = assigned[CallName] /\ NamesMap(slots, f)
  BY <1>1, <1>5, KeyKinds DEF Writes, Keys, NamesMap
<1>10. TabInv'
  BY <1>1, <1>2, <1>5, <1>8, <1>9 DEF TabInv, b, f
<1>11. MapStep /\ CallStep
  BY <1>2, <1>6, <1>7, <1>9 DEF MapStep, MapInv, CallStep, CallInv, Calls, b, f
<1> QED
  BY <1>10, <1>11

-----------------------------------------------------------------------------
(* The invariant holds                                                     *)

\* The normalized capacity of a first hash part is at least the smallest one.
LEMMA NormalizedIs ==
  ASSUME NEW n \in Nat
  PROVE  NormalizedCapacity(n) \in Nat /\ NormalizedCapacity(n) >= MinHashCapacity
<1> DEFINE S == {n, MinHashCapacity}
           m == Max(S)
<1>1. MinHashCapacity \in Nat
  BY TableAssumption DEF TableAssumption
<1>2. m \in S /\ \A y \in S : m >= y
  <2>1. \E x \in S : \A y \in S : x >= y
    BY <1>1
  <2> HIDE DEF S
  <2> QED
    BY <2>1, Zenon DEF Max
<1>3. NormalizedCapacity(n) = NextPowerOfTwo(m)
  BY Zenon DEF NormalizedCapacity
<1> HIDE DEF m
<1>4. m \in Nat /\ m >= MinHashCapacity
  BY <1>1, <1>2
<1>5. NextPowerOfTwo(m) \in Nat /\ NextPowerOfTwo(m) >= m
  BY <1>4, NextPowerOfTwoIs
<1> QED
  BY <1>1, <1>3, <1>4, <1>5

\* A new table satisfies it (New).
LEMMA InitHolds ==
  ASSUME Init
  PROVE  TabInv /\ MapInv /\ CallInv
<1> DEFINE a == array
           part == slots
           f == assigned
<1>1. ArrayOK(a) /\ \A i \in 1..Len(a) : a[i] = Nil
  <2>1. PICK n \in ArraySizes : a = [i \in 1..(IF n = 0 THEN 0 ELSE NextPowerOfTwo(n)) |-> Nil]
    BY DEF Init
  <2> DEFINE m == IF n = 0 THEN 0 ELSE NextPowerOfTwo(n)
  <2>2. m \in Nat
    <3>1. n \in Nat
      BY TableAssumption DEF TableAssumption
    <3> QED
      BY <3>1, NextPowerOfTwoIs
  <2> HIDE DEF a
  <2>3. a = [i \in 1..m |-> Nil]
    BY <2>1
  <2> HIDE DEF m
  <2>4. a \in Seq(Content) /\ Len(a) = m /\ \A i \in 1..m : a[i] = Nil
    BY <2>2, <2>3 DEF Content
  <2> QED
    BY <2>4 DEF ArrayOK
<1>2. PICK c \in Nat : (c = 0 \/ c >= LoadShare) /\ part = EmptyPart(c)
  <2>1. PICK n \in HashSizes : part = EmptyPart(IF n = 0 THEN 0 ELSE NormalizedCapacity(n))
    BY DEF Init
  <2>2. n \in Nat /\ LoadShare \in Nat /\ MinHashCapacity \in Nat /\ MinHashCapacity >= LoadShare
    BY TableAssumption DEF TableAssumption
  <2>3. NormalizedCapacity(n) \in Nat /\ NormalizedCapacity(n) >= MinHashCapacity
    BY <2>2, NormalizedIs
  <2>4. NormalizedCapacity(n) >= LoadShare
    BY <2>2, <2>3
  <2> HIDE DEF part
  <2> QED
    BY <2>1, <2>3, <2>4
<1>3. /\ part \in Parts(c) /\ Full(part) = {} /\ Sound(part, c)
      /\ \A k \in Keys : Lookup(part, k) = Nil
  BY <1>2, EmptyPartIs
<1>4. /\ count = 0 /\ metatable = Nil /\ cells \in [Sites -> {Generic("get"), Generic("set")}]
      /\ target = Nil /\ f = [k \in Keys |-> Nil]
  BY DEF Init
<1> HIDE DEF a, part, f
<1>5. HashOK(part, count)
  <2>1. c # 0 => count <= MaxLoad(c)
    BY <1>2, <1>4, LoadIs
  <2>2. Cardinality(Full(part)) = 0
    BY <1>3, FS_EmptySet
  <2>3. HashIn(part, c, count)
    BY <1>2, <1>3, <1>4, <2>1, <2>2 DEF HashIn
  <2> QED
    BY <2>3 DEF HashOK
<1>6. Apart(a, part)
  BY <1>3 DEF Apart
<1>7. IsMap(a, part, f)
  <2>1. \A k \in Keys : InArray(k, a) => a[k] = Nil
    BY <1>1, KeyKinds DEF InArray, ArrayOK
  <2> QED
    BY <1>3, <1>4, <2>1 DEF IsMap, GetIn
<1>8. CellsHold(cells, a, part)
  <2>1. \A kind \in {"get", "set"} : Generic(kind) \in Cell /\ ~Hits(Generic(kind))
    BY DEF Generic, Cell, Access, Hits
  <2> QED
    BY <1>4, <2>1 DEF CellsHold
<1>9. Calls(target, f) /\ target \in Content
  BY <1>4 DEF Calls, Content
<1>10. NamesMap(part, f)
  BY <1>3, <1>4 DEF NamesMap, Content, Keys
<1> QED
  BY <1>1, <1>4, <1>5, <1>6, <1>7, <1>8, <1>9, <1>10 DEF TabInv, MapInv, CallInv, a, part, f

\* An assignment (Store.Set).
LEMMA SetKeeps ==
  ASSUME TabInv, NEW k \in Keys, NEW v \in ContentOf(k), NEW by \in Runners, Set(k, v, by)
  PROVE  TabInv' /\ MapStep /\ CallStep
<1>1. assigned' = [assigned EXCEPT ![k] = v]
  BY DEF Set
<1>2. CASE ShouldUseArrayPath(k, v)
  <2>1. k \in Indices /\ SetArrayValue(k, v, by)
    BY <1>2 DEF Set, ShouldUseArrayPath
  <2> QED
    BY <1>1, <2>1, SetArrayValueKeeps
<1>3. CASE ~ShouldUseArrayPath(k, v)
  <2>1. SetHashValue(k, v, by)
    BY <1>3 DEF Set
  <2>2. k \notin 1..Len(array)
    <3>1. Len(array) \in Nat
      BY DEF TabInv, ArrayOK
    <3>2. k \in Nat => k \in Indices
      BY KeyKinds DEF Keys
    <3> QED
      BY <1>3, <3>1, <3>2 DEF ShouldUseArrayPath
  <2> QED
    BY <1>1, <2>1, <2>2, SetHashValueKeeps
<1> QED
  BY <1>2, <1>3

\* A name is looked up in the hash part, and found as it was assigned.
LEMMA NamesAreFound ==
  ASSUME TabInv, NEW k \in Names
  PROVE  Get(k) = assigned[k]
BY KeyKinds DEF TabInv, NamesMap, Get, InArray

\* A new metatable, a read, a call through the table as a metatable.
LEMMA OthersKeep ==
  ASSUME TabInv
  PROVE  /\ \A m \in Metatables \cup {Nil} : SetMetatable(m) => TabInv' /\ MapStep /\ CallStep
         /\ \A k \in Keys : \A by \in Runs(Getters) : Read(k, by) => TabInv' /\ MapStep /\ CallStep
         /\ ResolveCall => TabInv' /\ MapStep /\ CallStep
         /\ UNCHANGED vars => TabInv' /\ MapStep /\ CallStep
<1>1. /\ ArrayOK(array) /\ HashOK(slots, count)
      /\ metatable \in Metatables \cup {Nil}
      /\ CellsHold(cells, array, slots)
      /\ NamesMap(slots, assigned) /\ target \in Content
  BY DEF TabInv
<1>2. Stays(array, slots, array, slots)
  BY DEF Stays
<1>3. ASSUME NEW m \in Metatables \cup {Nil}, SetMetatable(m) PROVE TabInv' /\ MapStep /\ CallStep
  <2> DEFINE moved == TRUE
  <2>1. moved \in BOOLEAN /\ Settle(moved, Host, NoAccess)
    BY <1>3 DEF SetMetatable
  <2> HIDE DEF moved
  <2>2. Host \in Runners
    BY DEF Runners
  <2>3. CellsHold(cells', array, slots)
    BY <1>1, <1>2, <2>1, <2>2, SettleKeeps
  <2>4. target' \in Content /\ (CallInv => Calls(target', assigned))
    BY <1>1, <2>1, SettleTarget DEF CallInv
  <2> QED
    BY <1>1, <1>3, <2>3, <2>4 DEF TabInv, SetMetatable, MapStep, MapInv, CallStep, CallInv
<1>4. ASSUME NEW k \in Keys, NEW by \in Runs(Getters), Read(k, by) PROVE TabInv' /\ MapStep /\ CallStep
  <2> DEFINE moved == FALSE
             runner == IF k \in Names THEN Interpreted(by.site) ELSE by
             access == DescribeFast(k, array, slots, metatable)
  <2>1. moved \in BOOLEAN /\ Settle(moved, runner, access)
    BY <1>4 DEF Read
  <2>2. runner \in Runners
    <3>1. PICK s \in Getters : by = Interpreted(s) \/ by = Compiled(s)
      BY DEF Runs
    <3>2. by.site = s /\ s \in Sites
      BY <3>1 DEF Interpreted, Compiled, Getters
    <3> QED
      BY <3>1, <3>2 DEF Runners, Runs
  <2>3. access = NoAccess \/ Holds(access, array, slots)
    BY <1>1, DescribeIs
  <2> HIDE DEF moved, runner, access
  <2>4. CellsHold(cells', array, slots)
    BY <1>1, <1>2, <2>1, <2>2, <2>3, SettleKeeps
  <2>5. target' \in Content /\ (CallInv => Calls(target', assigned))
    BY <1>1, <2>1, SettleTarget DEF CallInv
  <2> QED
    BY <1>1, <1>4, <2>4, <2>5 DEF TabInv, Read, table, MapStep, MapInv, CallStep, CallInv
<1>5. ASSUME ResolveCall PROVE TabInv' /\ MapStep /\ CallStep
  <2>1. Get(CallName) = assigned[CallName] /\ assigned[CallName] \in Content
    BY NamesAreFound, KeyKinds DEF TabInv, NamesMap, Keys
  <2>2. target' \in Content /\ Calls(target', assigned)
    BY <1>5, <2>1 DEF ResolveCall, Calls
  <2> QED
    BY <1>1, <1>5, <2>2 DEF TabInv, ResolveCall, table, MapStep, MapInv, CallStep, CallInv
<1>6. ASSUME UNCHANGED vars PROVE TabInv' /\ MapStep /\ CallStep
  BY <1>1, <1>6 DEF TabInv, vars, table, MapStep, MapInv, CallStep, CallInv
<1> QED
  BY <1>3, <1>4, <1>5, <1>6

\* Every step preserves the invariants, but for the two steps that break one of them each.
LEMMA StepKeeps ==
  ASSUME TabInv, [Next]_vars
  PROVE  TabInv' /\ MapStep /\ CallStep
<1>1. ASSUME NEW k \in Keys, NEW by \in {Host} \cup Runs(Setters), NEW v \in ContentOf(k),
             Set(k, v, by)
      PROVE  TabInv' /\ MapStep /\ CallStep
  <2>1. by \in Runners
    BY DEF Runners, Runs, Setters
  <2> QED
    BY <1>1, <2>1, SetKeeps
<1>2. ASSUME NEW k \in Names, NEW s \in Setters, NEW v \in ValuesOf[k], SetNatively(k, v, s)
      PROVE  TabInv' /\ MapStep /\ CallStep
  BY <1>2, SetNativelyKeeps
<1>3. ASSUME NEW s \in Setters, NEW v \in ValuesOf[cells[s].access.key], SetThroughCell(s, v)
      PROVE  TabInv' /\ MapStep /\ CallStep
  BY <1>3, SetThroughCellKeeps
<1>4. ASSUME NEW start \in Starts, NEW n \in ListLengths, NEW list \in Lists(start, n),
             SetListArray(start, list) \/ SetListNatively(start, list)
      PROVE  TabInv' /\ MapStep /\ CallStep
  BY <1>4, SetListArrayKeeps, SetListNativelyKeeps
<1>5. CASE UNCHANGED vars
  BY <1>5, OthersKeep
<1>6. CASE Next
  BY <1>1, <1>2, <1>3, <1>4, <1>6, OthersKeep DEF Next
<1> QED
  BY <1>5, <1>6

\* The parts, the caches and the names are sound whatever the program does.
THEOREM Invariance == Spec => []TabInv
<1>1. Init => TabInv
  BY InitHolds
<1>2. TabInv /\ [Next]_vars => TabInv'
  BY StepKeeps
<1> QED
  BY <1>1, <1>2, PTL DEF Spec

\* The table is a map as long as the array does not grow over an entry.
LEMMA MapHolds == EntriesKeptSpec => [](TabInv /\ MapInv)
<1>1. Init => TabInv /\ MapInv
  BY InitHolds
<1>2. TabInv /\ MapInv /\ [Next /\ ~GrowsOverEntry]_vars => (TabInv /\ MapInv)'
  <2>1. CASE Next /\ ~GrowsOverEntry /\ TabInv /\ MapInv
    BY <2>1, StepKeeps DEF MapStep
  <2>2. CASE UNCHANGED vars /\ TabInv /\ MapInv
    <3>1. TabInv'
      BY <2>2, StepKeeps
    <3> QED
      BY <2>2, <3>1 DEF vars, table, MapInv
  <2> QED
    BY <2>1, <2>2
<1> QED
  BY <1>1, <1>2, PTL DEF EntriesKeptSpec

\* Call sites are right as long as no metamethod is overwritten natively.
LEMMA CallsHold == MetamethodsKeptSpec => [](TabInv /\ CallInv)
<1>1. Init => TabInv /\ CallInv
  BY InitHolds
<1>2. TabInv /\ CallInv /\ [Next /\ ~OverwritesMetamethod]_vars => (TabInv /\ CallInv)'
  <2>1. CASE Next /\ ~OverwritesMetamethod /\ TabInv /\ CallInv
    BY <2>1, StepKeeps DEF CallStep
  <2>2. CASE UNCHANGED vars /\ TabInv /\ CallInv
    <3>1. TabInv'
      BY <2>2, StepKeeps
    <3> QED
      BY <2>2, <3>1 DEF vars, table, CallInv
  <2> QED
    BY <2>1, <2>2
<1> QED
  BY <1>1, <1>2, PTL DEF MetamethodsKeptSpec

\* The fields are of their types (the declarations of the table, its caches and its history).
THEOREM TypeCorrect == Spec => []TypeOK
<1>1. ASSUME TabInv PROVE TypeOK
  <2>1. /\ ArrayOK(array) /\ HashOK(slots, count) /\ metatable \in Metatables \cup {Nil}
        /\ CellsHold(cells, array, slots) /\ NamesMap(slots, assigned) /\ target \in Content
    BY <1>1 DEF TabInv
  <2>2. PICK c \in Nat : HashIn(slots, c, count)
    BY <2>1 DEF HashOK
  <2>3. slots \in Parts(c) /\ count \in Nat
    BY <2>2, FullFinite DEF HashIn
  <2>4. slots \in [0..(Capacity(slots) - 1) -> Slot]
    BY <2>3, PartFields DEF Parts
  <2>5. \A s \in Sites :
          /\ cells[s].state \in {"generic", "monomorphic", "megamorphic"}
          /\ cells[s].state = "monomorphic" <=> cells[s].access # NoAccess
          /\ cells[s].current => cells[s].state = "monomorphic"
    BY <2>1 DEF CellsHold, Cell
  <2> QED
    BY <2>1, <2>3, <2>4, <2>5 DEF TypeOK, ArrayOK, Slot, NamesMap
<1> QED
  BY <1>1, Invariance, PTL

\* Every entry of the hash part is the one its search ends at, and a slot is always free
\* (findEntry, setHashValue, deleteHashValue, rehash).
THEOREM EveryEntryIsFound == Spec => []HashSound
<1>1. ASSUME TabInv PROVE HashSound
  <2>1. PICK c \in Nat : HashIn(slots, c, count)
    BY <1>1 DEF TabInv, HashOK
  <2>2. /\ slots \in Parts(c) /\ Sound(slots, c) /\ count = Cardinality(Full(slots)) /\ count \in Nat
        /\ c = 0 \/ c >= LoadShare
        /\ c # 0 => count <= MaxLoad(c)
        /\ DOMAIN slots = 0..c - 1 /\ Capacity(slots) = c
        /\ slots = NoPart <=> c = 0
        /\ \A p \in 0..c - 1 : slots[p] \in Slot
    BY <2>1, FullFinite, PartFields DEF HashIn
  <2>3. ASSUME NEW p \in Full(slots) PROVE FindEntry(slots, slots[p].key) = [found |-> TRUE, slot |-> p]
    <3> DEFINE k == slots[p].key
               entry == FindEntry(slots, k)
    <3>1. p \in 0..c - 1 /\ c > 0 /\ k \in Keys
      BY <2>2, SlotFields DEF Full
    <3> HIDE DEF k
    <3>2. entry.found /\ entry.slot = p
      BY <2>2, <3>1, SearchEnds DEF k
    <3>3. entry = [found |-> entry.found, slot |-> entry.slot] /\ entry.found \in BOOLEAN
      BY <2>2, <3>1, FindEntryIs
    <3> HIDE DEF entry
    <3>4. entry.found = TRUE
      BY <3>2, <3>3
    <3>5. entry = [found |-> TRUE, slot |-> p]
      BY <3>2, <3>3, <3>4, Zenon
    <3> QED
      BY <3>5 DEF entry, k
  <2>4. slots # NoPart => count <= MaxLoad(Capacity(slots)) /\ count < Capacity(slots)
    <3>1. c # 0 => MaxLoad(c) \in Nat /\ MaxLoad(c) < c
      BY <2>2, LoadIs
    <3> QED
      BY <2>2, <3>1
  <2>5. Full(slots) = {p \in DOMAIN slots : slots[p].ctrl = "full"}
    BY DEF Full
  <2> QED
    BY <2>2, <2>3, <2>4, <2>5 DEF HashSound
<1> QED
  BY <1>1, Invariance, PTL

\* A read finds what was last assigned, by whichever way (Get, Set and the native stores),
\* unless the array has grown over an entry.
THEOREM ReadsFindAssignments == EntriesKeptSpec => []MapKept
<1>1. ASSUME TabInv, MapInv PROVE MapKept
  BY <1>1 DEF MapInv, IsMap, MapKept, Get, GetIn
<1> QED
  BY <1>1, MapHolds, PTL

\* A read of a string key finds what was last assigned to it whatever the program does
\* (GetStringKey, setHashValue, the native stub and the caches).
THEOREM NamesFindAssignments == Spec => [](\A k \in Names : Get(k) = assigned[k])
<1>1. ASSUME TabInv PROVE \A k \in Names : Get(k) = assigned[k]
  BY <1>1, NamesAreFound
<1> QED
  BY <1>1, Invariance, PTL

\* A cache that matches the version names the slot of its key's value (DescribeFast, version).
THEOREM CachesAreRight == Spec => []CellsSound
<1>1. ASSUME TabInv PROVE CellsSound
  <2>1. ArrayOK(array) /\ CellsHold(cells, array, slots)
    BY <1>1 DEF TabInv
  <2>2. PICK c \in Nat : slots \in Parts(c) /\ Sound(slots, c)
    BY <1>1 DEF TabInv, HashOK, HashIn
  <2>3. DOMAIN slots = 0..c - 1 /\ \A p \in 0..c - 1 : slots[p] \in Slot
    BY <2>2, PartFields
  <2>4. ASSUME NEW s \in Sites, Hits(cells[s])
        PROVE  LET access == cells[s].access
               IN IF access.kind = "array"
                  THEN access.slot + 1 = access.key /\ InArray(access.key, array) /\ array[access.key] # Nil
                  ELSE access.slot \in DOMAIN slots /\ slots[access.slot].key = access.key
                       /\ slots[access.slot].value = Get(access.key)
    <3> DEFINE x == cells[s].access
    <3>1. HoldsIn(x, array, slots)
      BY <2>1, <2>4 DEF CellsHold, Holds
    <3> HIDE DEF x
    <3>2. CASE x.kind = "array"
      <4>1. x.key \in 1..Len(array) /\ x.slot = x.key - 1 /\ array[x.key] # Nil /\ Len(array) \in Nat
        BY <2>1, <3>1, <3>2 DEF HoldsIn, ArrayOK
      <4>2. x.slot + 1 = x.key /\ InArray(x.key, array)
        BY <2>1, <4>1 DEF InArray, ArrayOK
      <4> QED
        BY <3>2, <4>1, <4>2 DEF x
    <3>3. CASE x.kind # "array"
      <4>1. x.key \in Names /\ x.slot \in DOMAIN slots /\ slots[x.slot].key = x.key
        BY <3>1, <3>3 DEF HoldsIn
      <4>2. x.key \in Keys /\ x.slot \in Full(slots)
        BY <2>3, <4>1, SlotFields, KeyKinds DEF Full, Keys
      <4>3. Lookup(slots, x.key) = slots[x.slot].value
        BY <2>2, <4>1, <4>2, LookupIs
      <4>4. ~InArray(x.key, array)
        BY <4>1, KeyKinds DEF InArray
      <4> QED
        BY <3>3, <4>1, <4>3, <4>4 DEF x, Get
    <3> QED
      BY <3>2, <3>3
  <2> QED
    BY <2>4 DEF CellsSound
<1> QED
  BY <1>1, Invariance, PTL

\* A call site calls what "__call" is while the version it recorded matches, unless native
\* code has overwritten a metamethod.
THEOREM CallTargetsAreRight == MetamethodsKeptSpec => []TargetSound
<1>1. ASSUME TabInv, CallInv PROVE TargetSound
  BY <1>1, NamesAreFound, KeyKinds DEF CallInv, Calls, TargetSound
<1> QED
  BY <1>1, CallsHold, PTL

-----------------------------------------------------------------------------
(* The length                                                              *)

\* A number is present when the table maps it to a value.
LEMMA PresentIs ==
  ASSUME TabInv, MapInv, NEW i \in Nat, i # 0
  PROVE  IntegerKeyPresent(i) <=> i \in Indices /\ Get(i) # Nil
<1>1. /\ ArrayOK(array) /\ HashOK(slots, count) /\ Apart(array, slots) /\ Len(array) \in Nat
      /\ \A x \in 1..Len(array) : array[x] # Nil => x \in Indices
  BY DEF TabInv, MapInv, ArrayOK
<1>2. CASE i <= Len(array)
  <2>1. i \in 1..Len(array)
    BY <1>1, <1>2
  <2>2. i \in Indices => Lookup(slots, i) = Nil
    BY <1>1, <2>1, ApartLookup DEF Keys
  <2> QED
    BY <1>1, <1>2, <2>1, <2>2 DEF IntegerKeyPresent, Get, InArray
<1>3. CASE i > Len(array)
  <2>1. ~(i <= Len(array))
    BY <1>1, <1>3
  <2> QED
    BY <2>1 DEF IntegerKeyPresent, Get, InArray
<1> QED
  BY <1>1, <1>2, <1>3

\* The two searches (unboundLengthSearch), as loops over pairs of an index that is present or
\* zero and one that is not yet known to be absent.
Ranges == Nat \X Nat
Middle(r) == (r[1] + r[2]) \div 2
BisectDone == {r \in Ranges : r[2] - r[1] <= 1}
BisectTurn ==
  [r \in Ranges |-> IF IntegerKeyPresent(Middle(r)) THEN <<Middle(r), r[2]>> ELSE <<r[1], Middle(r)>>]
BisectSize == [r \in Ranges |-> IF r[1] <= r[2] THEN r[2] - r[1] ELSE 0]
Lower == [r \in Ranges |-> r[1]]
Bisects(f) == Loops(f, Ranges, BisectDone, Lower, BisectTurn)

\* Present, or before the first.
BaseOf(i) == i = 0 \/ IntegerKeyPresent(i)

\* A search in a range ends.
LEMMA BisectEnds ==
  /\ BisectSize \in [Ranges -> Nat]
  /\ \A r \in Ranges \ BisectDone :
       BisectTurn[r] \in Ranges /\ BisectSize[BisectTurn[r]] < BisectSize[r]
<1>1. BisectSize \in [Ranges -> Nat]
  BY DEF BisectSize, Ranges
<1>2. ASSUME NEW r \in Ranges \ BisectDone
      PROVE  BisectTurn[r] \in Ranges /\ BisectSize[BisectTurn[r]] < BisectSize[r]
  <2> DEFINE i == r[1]
             j == r[2]
             m == Middle(r)
  <2>1. i \in Nat /\ j \in Nat /\ j - i > 1
    BY <1>2 DEF Ranges, BisectDone
  <2>2. m \in Nat /\ i < m /\ m < j
    BY <2>1 DEF Middle
  <2> HIDE DEF i, j, m
  <2>3. <<m, j>> \in Ranges /\ <<i, m>> \in Ranges
    BY <2>1, <2>2 DEF Ranges
  <2>4. BisectTurn[r] = <<m, j>> \/ BisectTurn[r] = <<i, m>>
    BY DEF BisectTurn, i, j, m
  <2>5. BisectSize[r] = j - i
    BY <2>1 DEF BisectSize, i, j
  <2>6. BisectSize[<<m, j>>] = j - m /\ BisectSize[<<i, m>>] = m - i
    BY <2>1, <2>2, <2>3 DEF BisectSize
  <2> QED
    BY <2>1, <2>2, <2>3, <2>4, <2>5, <2>6
<1> QED
  BY <1>1, <1>2

\* It ends at a border of its range.
LEMMA BisectIs ==
  ASSUME NEW f, Bisects(f), NEW i \in Nat, NEW j \in Nat, i < j, BaseOf(i), ~IntegerKeyPresent(j)
  PROVE  f[<<i, j>>] \in Nat /\ BaseOf(f[<<i, j>>]) /\ ~IntegerKeyPresent(f[<<i, j>>] + 1)
<1> DEFINE P == {r \in Ranges : r[1] < r[2] /\ BaseOf(r[1]) /\ ~IntegerKeyPresent(r[2])}
<1>1. P \subseteq Ranges
  OBVIOUS
<1>2. ASSUME NEW r \in P \ BisectDone PROVE BisectTurn[r] \in P
  <2> DEFINE x == r[1]
             y == r[2]
             m == Middle(r)
  <2>1. x \in Nat /\ y \in Nat /\ y - x > 1 /\ BaseOf(x) /\ ~IntegerKeyPresent(y)
    BY <1>2 DEF Ranges, BisectDone
  <2>2. m \in Nat /\ x < m /\ m < y
    BY <2>1 DEF Middle
  <2>3. BisectTurn[r] = IF IntegerKeyPresent(m) THEN <<m, y>> ELSE <<x, m>>
    BY DEF BisectTurn
  <2> HIDE DEF x, y, m
  <2>4. IntegerKeyPresent(m) => <<m, y>> \in P
    BY <2>1, <2>2 DEF Ranges, BaseOf
  <2>5. ~IntegerKeyPresent(m) => <<x, m>> \in P
    BY <2>1, <2>2 DEF Ranges
  <2> QED
    BY <2>3, <2>4, <2>5
<1>3. <<i, j>> \in P
  BY DEF Ranges
<1>4. PICK e \in P \cap BisectDone : f[<<i, j>>] = Lower[e]
  <2> HIDE DEF P
  <2> QED
    BY <1>1, <1>2, <1>3, BisectEnds, LoopEnds DEF Bisects
<1>5. /\ e[1] \in Nat /\ e[2] \in Nat /\ e[1] < e[2] /\ e[2] - e[1] <= 1 /\ BaseOf(e[1])
      /\ ~IntegerKeyPresent(e[2]) /\ f[<<i, j>>] = e[1]
  BY <1>4 DEF Ranges, BisectDone, Lower
<1>6. e[2] = e[1] + 1
  BY <1>5
<1> QED
  BY <1>5, <1>6

\* Counting from one ends at a border (linearLengthSearch).
LEMMA LinearIs ==
  ASSUME TabInv
  PROVE  LinearLength \in Nat /\ BaseOf(LinearLength) /\ ~IntegerKeyPresent(LinearLength + 1)
<1> DEFINE M == MaxLenSearchIndex
           Absent == {n \in 0..(M - 2) : ~IntegerKeyPresent(n + 1)}
           S == Absent \cup {M}
           x == Min(S)
<1>1. M \in Nat
  BY TableAssumption DEF TableAssumption
<1>2. PICK i \in 1..(M - 1) : i \notin Indices
  BY TableAssumption DEF TableAssumption
<1>3. i - 1 \in Absent
  <2>1. i \in Nat /\ i # 0 /\ i - 1 \in 0..(M - 2) /\ (i - 1) + 1 = i
    BY <1>1, <1>2
  <2>2. ~IntegerKeyPresent(i)
    BY <1>2, <2>1 DEF IntegerKeyPresent, TabInv, ArrayOK
  <2> QED
    BY <2>1, <2>2
<1>4. LinearLength = x
  BY Zenon DEF LinearLength
<1>5. x \in S /\ \A y \in S : x <= y
  <2>1. S \subseteq Nat
    BY <1>1
  <2> HIDE DEF S
  <2>2. S # {}
    BY <1>1, <1>3 DEF S
  <2>3. \E m \in S : \A n \in S : m <= n
    BY <2>1, <2>2, Smallest
  <2>4. \E m \in S : \A n \in S : m =< n
    BY <2>3
  <2> QED
    BY <2>4, Zenon DEF Min
<1> HIDE DEF x
<1>6. x # M
  BY <1>1, <1>2, <1>3, <1>5
<1>7. x \in 0..(M - 2) /\ ~IntegerKeyPresent(x + 1) /\ x \in Nat
  BY <1>5, <1>6
<1>8. x # 0 => IntegerKeyPresent(x)
  <2> SUFFICES ASSUME x # 0, ~IntegerKeyPresent(x) PROVE FALSE
    OBVIOUS
  <2>1. x - 1 \in 0..(M - 2) /\ (x - 1) + 1 = x /\ x - 1 < x
    BY <1>1, <1>7
  <2>2. x - 1 \in S
    BY <2>1
  <2>3. x <= x - 1
    BY <1>5, <2>2
  <2> QED
    BY <1>7, <2>3
<1> QED
  BY <1>4, <1>7, <1>8 DEF BaseOf

\* The doubling: done where the index is absent or out of range, where the rest of the search
\* begins.
UnboundRanges == Nat \X (Nat \ {0})
UnboundDone == {r \in UnboundRanges : ~IntegerKeyPresent(r[2]) \/ r[2] > MaxLenSearchIndex \div 2}
UnboundTurn == [r \in UnboundRanges |-> <<r[2], 2 * r[2]>>]
UnboundSize ==
  [r \in UnboundRanges |-> IF r[2] > MaxLenSearchIndex THEN 0 ELSE MaxLenSearchIndex + 1 - r[2]]
UnboundResult(f) ==
  [r \in UnboundRanges |-> IF ~IntegerKeyPresent(r[2]) THEN f[r] ELSE LinearLength]
Unbounds(g, f) == Loops(g, UnboundRanges, UnboundDone, UnboundResult(f), UnboundTurn)

\* Doubling ends.
LEMMA UnboundEnds ==
  /\ UnboundSize \in [UnboundRanges -> Nat]
  /\ \A r \in UnboundRanges \ UnboundDone :
       UnboundTurn[r] \in UnboundRanges /\ UnboundSize[UnboundTurn[r]] < UnboundSize[r]
<1> DEFINE M == MaxLenSearchIndex
<1>0. M \in Nat
  BY TableAssumption DEF TableAssumption
<1>1. UnboundSize \in [UnboundRanges -> Nat]
  BY <1>0 DEF UnboundSize, UnboundRanges
<1>2. ASSUME NEW r \in UnboundRanges \ UnboundDone
      PROVE  UnboundTurn[r] \in UnboundRanges /\ UnboundSize[UnboundTurn[r]] < UnboundSize[r]
  <2> DEFINE j == r[2]
  <2>1. j \in Nat /\ j # 0 /\ ~(j > M \div 2)
    BY <1>2 DEF UnboundRanges, UnboundDone
  <2>2. 2 * j <= M /\ j <= M
    <3> HIDE DEF j, M
    <3> QED
      BY <1>0, <2>1
  <2>3. UnboundTurn[r] = <<j, 2 * j>> /\ UnboundSize[r] = M + 1 - j
    BY <1>0, <2>1, <2>2 DEF UnboundTurn, UnboundSize
  <2> HIDE DEF j
  <2>4. <<j, 2 * j>> \in UnboundRanges
    BY <2>1 DEF UnboundRanges
  <2>5. UnboundSize[<<j, 2 * j>>] = M + 1 - 2 * j
    BY <1>0, <2>1, <2>2, <2>4 DEF UnboundSize
  <2> HIDE DEF M
  <2> QED
    BY <1>0, <2>1, <2>2, <2>3, <2>4, <2>5
<1> QED
  BY <1>1, <1>2

\* It ends at a border too.
LEMMA UnboundIs ==
  ASSUME TabInv, NEW f, Bisects(f), NEW g, Unbounds(g, f), NEW i \in Nat, BaseOf(i)
  PROVE  g[<<i, i + 1>>] \in Nat /\ BaseOf(g[<<i, i + 1>>]) /\ ~IntegerKeyPresent(g[<<i, i + 1>>] + 1)
<1> DEFINE P == {r \in UnboundRanges : r[1] < r[2] /\ BaseOf(r[1])}
           r0 == <<i, i + 1>>
<1>1. P \subseteq UnboundRanges
  OBVIOUS
<1>2. ASSUME NEW r \in P \ UnboundDone PROVE UnboundTurn[r] \in P
  <2> DEFINE j == r[2]
  <2>1. j \in Nat /\ j # 0 /\ IntegerKeyPresent(j)
    BY <1>2 DEF UnboundRanges, UnboundDone
  <2>2. UnboundTurn[r] = <<j, 2 * j>>
    BY <1>2 DEF UnboundTurn
  <2> HIDE DEF j
  <2> QED
    BY <2>1, <2>2 DEF UnboundRanges, BaseOf
<1>3. r0 \in P
  BY DEF UnboundRanges
<1> HIDE DEF r0
<1>4. PICK e \in P \cap UnboundDone : g[r0] = UnboundResult(f)[e]
  <2> HIDE DEF P
  <2> QED
    BY <1>1, <1>2, <1>3, UnboundEnds, LoopEnds DEF Unbounds
<1> DEFINE x == e[1]
           y == e[2]
<1>5. /\ x \in Nat /\ y \in Nat /\ x < y /\ BaseOf(x)
      /\ g[r0] = IF ~IntegerKeyPresent(y) THEN f[<<x, y>>] ELSE LinearLength
  <2>1. e \in UnboundRanges /\ x < y /\ BaseOf(x)
    BY <1>4
  <2>2. e = <<x, y>> /\ x \in Nat /\ y \in Nat
    BY <2>1 DEF UnboundRanges
  <2>3. g[r0] = IF ~IntegerKeyPresent(y) THEN f[e] ELSE LinearLength
    BY <1>4, <2>1 DEF UnboundResult
  <2> QED
    BY <2>1, <2>2, <2>3
<1> HIDE DEF x, y
<1>6. CASE ~IntegerKeyPresent(y)
  <2>1. f[<<x, y>>] \in Nat /\ BaseOf(f[<<x, y>>]) /\ ~IntegerKeyPresent(f[<<x, y>>] + 1)
    BY <1>5, <1>6, BisectIs
  <2> QED
    BY <1>5, <1>6, <2>1 DEF r0
<1>7. CASE IntegerKeyPresent(y)
  BY <1>5, <1>7, LinearIs DEF r0
<1> QED
  BY <1>6, <1>7

\* The length of the table is a border (Length).
LEMMA LengthIs ==
  ASSUME TabInv
  PROVE  Length \in Nat /\ BaseOf(Length) /\ ~IntegerKeyPresent(Length + 1)
<1> DEFINE BisectRule(f, r) ==
             LET i == r[1]
                 j == r[2]
                 mid == (i + j) \div 2
             IN IF j - i <= 1 THEN i
                ELSE f[IF IntegerKeyPresent(mid) THEN <<mid, j>> ELSE <<i, mid>>]
           Bisect == CHOOSE f : f = [r \in Nat \X Nat |-> BisectRule(f, r)]
           UnboundRule(g, r) ==
             LET j == r[2]
             IN IF ~IntegerKeyPresent(j) THEN Bisect[r]
                ELSE IF j > MaxLenSearchIndex \div 2 THEN LinearLength ELSE g[<<j, 2 * j>>]
           Unbound == CHOOSE g : g = [r \in Nat \X (Nat \ {0}) |-> UnboundRule(g, r)]
           size == Len(array)
<1>1. Length = IF size > 0 /\ array[size] = Nil THEN Bisect[<<0, size>>]
               ELSE IF slots = NoPart THEN size
               ELSE IF size >= MaxLenSearchIndex THEN LinearLength ELSE Unbound[<<size, size + 1>>]
  BY Zenon DEF Length
<1>2. size \in Nat
  BY DEF TabInv, ArrayOK
<1>3. LinearLength \in Nat /\ BaseOf(LinearLength) /\ ~IntegerKeyPresent(LinearLength + 1)
  BY LinearIs
<1>4. Bisects(Bisect)
  <2>1. ASSUME NEW f, NEW r \in Ranges
        PROVE  BisectRule(f, r) = LoopRule(f, r, BisectDone, Lower, BisectTurn)
    BY DEF LoopRule, BisectDone, Lower, BisectTurn, Middle
  <2> HIDE DEF BisectRule
  <2>2. \A f : [r \in Nat \X Nat |-> BisectRule(f, r)]
               = [r \in Ranges |-> LoopRule(f, r, BisectDone, Lower, BisectTurn)]
    BY <2>1 DEF Ranges
  <2>3. \E f : Bisects(f)
    BY BisectEnds, LoopDefined DEF Bisects
  <2>4. \E f : f = [r \in Nat \X Nat |-> BisectRule(f, r)]
    <3>1. PICK f : Bisects(f)
      BY <2>3
    <3>2. f = [r \in Ranges |-> LoopRule(f, r, BisectDone, Lower, BisectTurn)]
      BY <3>1, Zenon DEF Bisects, Loops
    <3>3. f = [r \in Nat \X Nat |-> BisectRule(f, r)]
      BY <2>2, <3>2, Zenon
    <3> QED
      BY <3>3, Zenon
  <2>5. Bisect = [r \in Nat \X Nat |-> BisectRule(Bisect, r)]
    BY <2>4, Zenon
  <2> HIDE DEF Bisect
  <2> QED
    BY <2>2, <2>5, Zenon DEF Bisects, Loops
<1> HIDE DEF Bisect
<1>5. Unbounds(Unbound, Bisect)
  <2>1. ASSUME NEW g, NEW r \in UnboundRanges
        PROVE  UnboundRule(g, r) = LoopRule(g, r, UnboundDone, UnboundResult(Bisect), UnboundTurn)
    BY DEF LoopRule, UnboundDone, UnboundResult, UnboundTurn
  <2> HIDE DEF UnboundRule
  <2>2. \A g : [r \in Nat \X (Nat \ {0}) |-> UnboundRule(g, r)]
               = [r \in UnboundRanges |-> LoopRule(g, r, UnboundDone, UnboundResult(Bisect), UnboundTurn)]
    BY <2>1 DEF UnboundRanges
  <2>3. \E g : Unbounds(g, Bisect)
    BY UnboundEnds, LoopDefined DEF Unbounds
  <2>4. \E g : g = [r \in Nat \X (Nat \ {0}) |-> UnboundRule(g, r)]
    <3>1. PICK g : Unbounds(g, Bisect)
      BY <2>3
    <3>2. g = [r \in UnboundRanges |-> LoopRule(g, r, UnboundDone, UnboundResult(Bisect), UnboundTurn)]
      BY <3>1, Zenon DEF Unbounds, Loops
    <3>3. g = [r \in Nat \X (Nat \ {0}) |-> UnboundRule(g, r)]
      BY <2>2, <3>2, Zenon
    <3> QED
      BY <3>3, Zenon
  <2>5. Unbound = [r \in Nat \X (Nat \ {0}) |-> UnboundRule(Unbound, r)]
    BY <2>4, Zenon
  <2> HIDE DEF Unbound
  <2> QED
    BY <2>2, <2>5, Zenon DEF Unbounds, Loops
<1> HIDE DEF Unbound, size
<1>6. CASE size > 0 /\ array[size] = Nil
  <2>1. ~IntegerKeyPresent(size)
    <3>1. size <= Len(array)
      BY <1>2 DEF size
    <3> QED
      BY <1>6, <3>1 DEF IntegerKeyPresent
  <2>2. 0 \in Nat /\ BaseOf(0) /\ 0 < size
    BY <1>6 DEF BaseOf
  <2>3. /\ Bisect[<<0, size>>] \in Nat /\ BaseOf(Bisect[<<0, size>>])
        /\ ~IntegerKeyPresent(Bisect[<<0, size>>] + 1)
    BY <1>2, <1>4, <2>1, <2>2, BisectIs
  <2> QED
    BY <1>1, <1>6, <2>3
<1>7. CASE ~(size > 0 /\ array[size] = Nil)
  <2>1. BaseOf(size)
    BY <1>2, <1>7 DEF BaseOf, IntegerKeyPresent, size
  <2>2. CASE slots = NoPart
    <3>1. ~IntegerKeyPresent(size + 1)
      <4>1. Lookup(slots, size + 1) = Nil
        BY <2>2 DEF Lookup
      <4>2. ~(size + 1 <= Len(array))
        BY <1>2 DEF size
      <4> QED
        BY <4>1, <4>2 DEF IntegerKeyPresent
    <3> QED
      BY <1>1, <1>2, <1>7, <2>1, <2>2, <3>1
  <2>3. CASE slots # NoPart
    <3>1. /\ Unbound[<<size, size + 1>>] \in Nat /\ BaseOf(Unbound[<<size, size + 1>>])
          /\ ~IntegerKeyPresent(Unbound[<<size, size + 1>>] + 1)
      BY <1>2, <1>4, <1>5, <2>1, UnboundIs
    <3> QED
      BY <1>1, <1>3, <1>7, <2>3, <3>1
  <2> QED
    BY <2>2, <2>3
<1> QED
  BY <1>6, <1>7

\* The value at the length is present and the next one is not.
THEOREM LengthsAreBorders == EntriesKeptSpec => []LengthIsBorder
<1>1. ASSUME TabInv, MapInv PROVE LengthIsBorder
  <2> DEFINE n == Length
  <2>1. n \in Nat /\ BaseOf(n) /\ ~IntegerKeyPresent(n + 1)
    BY <1>1, LengthIs
  <2>2. LengthIsBorder <=> /\ n = 0 \/ (n \in Indices /\ Get(n) # Nil)
                           /\ ~(n + 1 \in Indices /\ Get(n + 1) # Nil)
    BY DEF LengthIsBorder
  <2> HIDE DEF n
  <2>3. \A i \in Nat \ {0} : IntegerKeyPresent(i) <=> i \in Indices /\ Get(i) # Nil
    BY <1>1, PresentIs
  <2>4. n + 1 \in Nat \ {0}
    BY <2>1
  <2> QED
    BY <2>1, <2>2, <2>3, <2>4 DEF BaseOf
<1> QED
  BY <1>1, MapHolds, PTL
=============================================================================
