-------------------------- MODULE CallCachesProofs --------------------------
(***************************************************************************)
(* A call served from the inline cache does what a fresh resolution would  *)
(* do, for any number of callees, metatables, entries and changes.  The    *)
(* argument is about entries: an entry whose versions are those in force   *)
(* names what its callee resolves to, because every change in between      *)
(* would have raised a version, and no entry outlives its callee.          *)
(***************************************************************************)
EXTENDS CallCaches, WellFoundedInduction, FiniteSetTheorems, TLAPS

(***************************************************************************)
(* Induction over the natural numbers, for sets.                           *)
(***************************************************************************)
\* A set with 0 that has the successor of each of its numbers has them all.
LEMMA NatSetInduction ==
  ASSUME NEW S, 0 \in S, \A n \in Nat : n \in S => n + 1 \in S
  PROVE  \A n \in Nat : n \in S
<1> DEFINE T == Nat \ S
<1> SUFFICES ASSUME T # {} PROVE FALSE
  OBVIOUS
<1>1. IsWellFoundedOn(OpToRel(<, Nat), Nat)
  BY NatLessThanWellFounded
<1>2. PICK x \in T : \A y \in T : ~(<<y, x>> \in OpToRel(<, Nat))
  <2>1. T \subseteq Nat
    OBVIOUS
  <2> HIDE DEF T
  <2> QED
    BY <1>1, <2>1, WFMin
<1>3. x # 0 /\ x - 1 \in Nat /\ x - 1 < x
  OBVIOUS
<1>4. x - 1 \notin T
  <2>1. x - 1 \in T => <<x - 1, x>> \in OpToRel(<, Nat)
    BY <1>3 DEF OpToRel
  <2> QED
    BY <1>2, <2>1
<1>5. (x - 1) + 1 = x
  OBVIOUS
<1> QED
  BY <1>3, <1>4, <1>5


-----------------------------------------------------------------------------
(* Parts of a sequence                                                     *)

OnlyTerm(es, good, kept, n) ==
  IF n = 0 THEN <<>>
  ELSE IF es[n] \in good THEN Append(kept[n - 1], es[n]) ELSE kept[n - 1]

OnlyUpTo(es, good) ==
  CHOOSE kept : kept = [n \in 0 .. Len(es) |-> OnlyTerm(es, good, kept, n)]

\* The part s of the first n entries of a sequence, picked in their order.
PartOf(s, es, good, n) ==
  /\ Len(s) <= n
  /\ \A i \in 1 .. Len(s) : \E j \in 1 .. n : s[i] = es[j] /\ es[j] \in good
  /\ \A i, k \in 1 .. Len(s) :
       i < k => \E j, l \in 1 .. n : j < l /\ s[i] = es[j] /\ s[k] = es[l]
  /\ Len(s) = n => \A j \in 1 .. n : es[j] \in good
  /\ \A j \in 1 .. n : es[j] \in good => \E i \in 1 .. Len(s) : s[i] = es[j]

\* The parts of a sequence exist, one for each length.
LEMMA OnlyExists ==
  ASSUME NEW es, NEW good, Len(es) \in Nat
  PROVE  \A n \in 0 .. Len(es) :
           OnlyUpTo(es, good)[n] = OnlyTerm(es, good, OnlyUpTo(es, good), n)
<1> DEFINE N == {n \in Nat : \E g : g = [m \in 0 .. n |-> OnlyTerm(es, good, g, m)]}
<1>1. 0 \in N
  <2> DEFINE g == [m \in 0 .. 0 |-> <<>>]
  <2>1. g = [m \in 0 .. 0 |-> OnlyTerm(es, good, g, m)]
    BY DEF OnlyTerm
  <2> QED
    BY <2>1
<1>2. ASSUME NEW n \in Nat, n \in N PROVE n + 1 \in N
  <2>1. PICK g : g = [m \in 0 .. n |-> OnlyTerm(es, good, g, m)]
    BY <1>2
  <2> DEFINE h == [m \in 0 .. (n + 1) |-> OnlyTerm(es, good, g, m)]
  <2>2. \A m \in 0 .. n : m \in 0 .. (n + 1) /\ g[m] = h[m]
    <3>1. \A m \in 0 .. n : m \in 0 .. (n + 1)
      OBVIOUS
    <3>2. \A m \in 0 .. n : g[m] = OnlyTerm(es, good, g, m)
      BY <2>1
    <3> QED
      BY <3>1, <3>2
  <2>3. ASSUME NEW m \in 0 .. (n + 1)
        PROVE  OnlyTerm(es, good, g, m) = OnlyTerm(es, good, h, m)
    <3>1. CASE m = 0
      BY <3>1 DEF OnlyTerm
    <3>2. CASE m # 0
      <4>1. m - 1 \in 0 .. n
        BY <3>2
      <4>2. g[m - 1] = h[m - 1]
        BY <2>2, <4>1
      <4> HIDE DEF h
      <4> QED
        BY <3>2, <4>2 DEF OnlyTerm
    <3> QED
      BY <3>1, <3>2
  <2>4. h = [m \in 0 .. (n + 1) |-> OnlyTerm(es, good, h, m)]
    BY <2>3
  <2> HIDE DEF h
  <2> QED
    BY <2>4
<1>3. Len(es) \in N
  <2> HIDE DEF N
  <2>1. \A n \in Nat : n \in N
    BY <1>1, <1>2, NatSetInduction
  <2> QED
    BY <2>1
<1>4. \E g : g = [n \in 0 .. Len(es) |-> OnlyTerm(es, good, g, n)]
  BY <1>3
<1>5. OnlyUpTo(es, good) = [n \in 0 .. Len(es) |-> OnlyTerm(es, good, OnlyUpTo(es, good), n)]
  BY <1>4 DEF OnlyUpTo
<1> QED
  BY <1>5

\* One more entry to choose from (compactCallEntries).
LEMMA PartGrows ==
  ASSUME NEW X, NEW es \in Seq(X), NEW good, NEW n \in Nat, n + 1 <= Len(es),
         NEW s \in Seq(X), PartOf(s, es, good, n)
  PROVE  LET t == IF es[n + 1] \in good THEN Append(s, es[n + 1]) ELSE s
         IN  t \in Seq(X) /\ PartOf(t, es, good, n + 1)
<1>1. es[n + 1] \in X /\ Len(s) \in Nat /\ Len(s) <= n
  BY DEF PartOf
<1>2. CASE es[n + 1] \notin good
  <2>1. \A j \in 1 .. (n + 1) : j \in 1 .. n \/ j = n + 1
    OBVIOUS
  <2>2. 1 .. n \subseteq 1 .. (n + 1)
    OBVIOUS
  <2> QED
    BY <1>1, <1>2, <2>1, <2>2 DEF PartOf
<1>3. CASE es[n + 1] \in good
  <2> DEFINE t == Append(s, es[n + 1])
  <2>1. /\ t \in Seq(X) /\ Len(t) = Len(s) + 1
        /\ t[Len(s) + 1] = es[n + 1] /\ \A i \in 1 .. Len(s) : t[i] = s[i]
    BY <1>1
  <2> HIDE DEF t
  <2>2. ASSUME NEW i \in 1 .. Len(t)
        PROVE  \E j \in 1 .. (n + 1) : t[i] = es[j] /\ es[j] \in good
    <3>1. CASE i = Len(s) + 1
      BY <1>3, <2>1, <3>1
    <3>2. CASE i \in 1 .. Len(s)
      <4>1. PICK j \in 1 .. n : s[i] = es[j] /\ es[j] \in good
        BY <3>2 DEF PartOf
      <4>2. j \in 1 .. (n + 1)
        OBVIOUS
      <4> QED
        BY <2>1, <3>2, <4>1, <4>2
    <3> QED
      BY <1>1, <2>1, <3>1, <3>2
  <2>3. ASSUME NEW i \in 1 .. Len(t), NEW k \in 1 .. Len(t), i < k
        PROVE  \E j, l \in 1 .. (n + 1) : j < l /\ t[i] = es[j] /\ t[k] = es[l]
    <3>1. i \in 1 .. Len(s)
      BY <1>1, <2>1, <2>3
    <3>2. CASE k = Len(s) + 1
      <4>1. PICK j \in 1 .. n : s[i] = es[j]
        BY <3>1 DEF PartOf
      <4>2. j \in 1 .. (n + 1) /\ n + 1 \in 1 .. (n + 1) /\ j < n + 1
        OBVIOUS
      <4> QED
        BY <2>1, <3>1, <3>2, <4>1, <4>2
    <3>3. CASE k \in 1 .. Len(s)
      <4>1. PICK j \in 1 .. n, l \in 1 .. n : j < l /\ s[i] = es[j] /\ s[k] = es[l]
        BY <2>3, <3>1, <3>3 DEF PartOf
      <4>2. j \in 1 .. (n + 1) /\ l \in 1 .. (n + 1)
        OBVIOUS
      <4> QED
        BY <2>1, <3>1, <3>3, <4>1, <4>2
    <3> QED
      BY <1>1, <2>1, <3>2, <3>3
  <2>4. ASSUME Len(t) = n + 1, NEW j \in 1 .. (n + 1) PROVE es[j] \in good
    <3>1. Len(s) = n
      BY <1>1, <2>1, <2>4
    <3> QED
      BY <1>3, <3>1 DEF PartOf
  <2>5. Len(t) <= n + 1
    BY <1>1, <2>1
  <2>6. ASSUME NEW j \in 1 .. (n + 1), es[j] \in good
        PROVE  \E i \in 1 .. Len(t) : t[i] = es[j]
    <3>1. CASE j = n + 1
      BY <1>1, <2>1, <3>1
    <3>2. CASE j \in 1 .. n
      <4>1. PICK i \in 1 .. Len(s) : s[i] = es[j]
        BY <2>6, <3>2 DEF PartOf
      <4>2. i \in 1 .. Len(t)
        BY <1>1, <2>1
      <4> QED
        BY <2>1, <4>1, <4>2
    <3> QED
      BY <3>1, <3>2
  <2>7. PartOf(t, es, good, n + 1)
    BY <2>2, <2>3, <2>4, <2>5, <2>6 DEF PartOf
  <2> QED
    BY <1>3, <2>1, <2>7 DEF t
<1> QED
  BY <1>2, <1>3

\* Leaving out entries of a sequence leaves a part of it, which is all of it
\* only if nothing was left out (compactCallEntries, ScrubDeadFeedbackCells).
LEMMA OnlyIsPart ==
  ASSUME NEW X, NEW es \in Seq(X), NEW good
  PROVE  Only(es, good) \in Seq(X) /\ PartOf(Only(es, good), es, good, Len(es))
<1> DEFINE kept == OnlyUpTo(es, good)
<1>1. Only(es, good) = kept[Len(es)]
  BY DEF Only, OnlyUpTo, OnlyTerm
<1>2. Len(es) \in Nat
  OBVIOUS
<1>3. \A n \in 0 .. Len(es) : kept[n] = OnlyTerm(es, good, kept, n)
  BY <1>2, OnlyExists
<1> HIDE DEF kept
<1> DEFINE N == {n \in Nat : n <= Len(es) => kept[n] \in Seq(X) /\ PartOf(kept[n], es, good, n)}
<1>4. 0 \in N
  <2>1. kept[0] = <<>>
    BY <1>2, <1>3 DEF OnlyTerm
  <2>2. <<>> \in Seq(X) /\ Len(<<>>) = 0 /\ 1 .. 0 = {}
    OBVIOUS
  <2>3. PartOf(<<>>, es, good, 0)
    BY <2>2 DEF PartOf
  <2> QED
    BY <2>1, <2>2, <2>3
<1>5. ASSUME NEW n \in Nat, n \in N PROVE n + 1 \in N
  <2> SUFFICES ASSUME n + 1 <= Len(es)
               PROVE  kept[n + 1] \in Seq(X) /\ PartOf(kept[n + 1], es, good, n + 1)
    OBVIOUS
  <2>1. kept[n] \in Seq(X) /\ PartOf(kept[n], es, good, n)
    BY <1>2, <1>5
  <2>2. kept[n + 1] = OnlyTerm(es, good, kept, n + 1)
    BY <1>2, <1>3
  <2>3. kept[n + 1] = IF es[n + 1] \in good THEN Append(kept[n], es[n + 1]) ELSE kept[n]
    BY <2>2 DEF OnlyTerm
  <2> QED
    BY <2>1, <2>3, PartGrows
<1> HIDE DEF N
<1>6. \A n \in Nat : n \in N
  BY <1>4, <1>5, NatSetInduction
<1> QED
  BY <1>1, <1>2, <1>6 DEF N

\* A set of numbers has a least one.
LEMMA LeastIsIn ==
  ASSUME NEW S \in SUBSET Nat, S # {}
  PROVE  Min(S) \in S
<1>1. PICK x \in S : \A y \in S : ~(<<y, x>> \in OpToRel(<, Nat))
  BY NatLessThanWellFounded, WFMin
<1>2. \A y \in S : ~(y < x)
  BY <1>1 DEF OpToRel
<1>3. \A y \in S : x <= y
  BY <1>2
<1> QED
  BY <1>3 DEF Min

-----------------------------------------------------------------------------
(* Entries                                                                 *)

Entry == [callee : Callees, target : Callable \cup {None}, shape : {<<>>} \cup (Nat \X Nat)]
States == {"generic", "monomorphic", "polymorphic", "megamorphic"}

Distinct(es) == \A i, j \in 1 .. Len(es) : es[i].callee = es[j].callee => i = j
LengthFits(state, es) == IF state = "polymorphic" THEN Len(es) = 2
                         ELSE Len(es) \in 1 .. MegamorphicEntries

\* A cell k over the payloads data, all of whose entries are in G.
CellOK(k, data, G) ==
  /\ k \in [state : States, entry : G, sidecar : 0 .. 2]
  /\ HasSidecar(k) => k.state \in {"polymorphic", "megamorphic"}
  /\ k.state = "polymorphic" => HasSidecar(k)
  /\ HasSidecar(k) => k.entry = Blank
  /\ DOMAIN data = {k.sidecar} \ {0}
  /\ HasSidecar(k) => /\ data[k.sidecar] \in Seq(G)
                      /\ Distinct(data[k.sidecar])
                      /\ LengthFits(k.state, data[k.sidecar])

\* Leaving out entries brings no callee in twice and adds no entry.
LEMMA OnlyKeeps ==
  ASSUME NEW G, NEW es \in Seq(G), Distinct(es), NEW good
  PROVE  /\ Only(es, good) \in Seq(G) /\ Distinct(Only(es, good))
         /\ Len(Only(es, good)) \in Nat /\ Len(es) \in Nat
         /\ Len(Only(es, good)) <= Len(es)
         /\ \A i \in 1 .. Len(Only(es, good)) :
              /\ Only(es, good)[i] \in good
              /\ \E j \in 1 .. Len(es) : Only(es, good)[i] = es[j]
         /\ Len(Only(es, good)) = Len(es) => \A i \in 1 .. Len(es) : es[i] \in good
         /\ \A j \in 1 .. Len(es) :
              es[j] \in good => \E i \in 1 .. Len(Only(es, good)) : Only(es, good)[i] = es[j]
<1>1. Only(es, good) \in Seq(G) /\ PartOf(Only(es, good), es, good, Len(es))
  BY OnlyIsPart
<1> DEFINE s == Only(es, good)
<1> HIDE DEF s
<1>2. s \in Seq(G) /\ PartOf(s, es, good, Len(es))
  BY <1>1 DEF s
<1>3. Len(s) \in Nat /\ Len(es) \in Nat
  BY <1>2
<1>4. Distinct(s)
  <2>1. ASSUME NEW i \in 1 .. Len(s), NEW k \in 1 .. Len(s), i < k
        PROVE  s[i].callee # s[k].callee
    <3>1. PICK j \in 1 .. Len(es), l \in 1 .. Len(es) : j < l /\ s[i] = es[j] /\ s[k] = es[l]
      BY <1>2, <2>1 DEF PartOf
    <3>2. j # l
      BY <1>3, <3>1
    <3> QED
      BY <3>1, <3>2 DEF Distinct
  <2>2. \A i, k \in 1 .. Len(s) : i < k \/ i = k \/ k < i
    BY <1>3
  <2> QED
    BY <2>1, <2>2 DEF Distinct
<1>5. /\ Len(s) <= Len(es)
      /\ \A i \in 1 .. Len(s) : s[i] \in good /\ \E j \in 1 .. Len(es) : s[i] = es[j]
      /\ Len(s) = Len(es) => \A i \in 1 .. Len(es) : es[i] \in good
      /\ \A j \in 1 .. Len(es) : es[j] \in good => \E i \in 1 .. Len(s) : s[i] = es[j]
  BY <1>2 DEF PartOf
<1> QED
  BY <1>2, <1>3, <1>4, <1>5 DEF s

\* What Go code reads from a cell (readCallPolymorphicEntries,
\* readCallMegamorphicEntries).
LEMMA EntriesOfCell ==
  ASSUME NEW G, NEW k, CellOK(k, payloads, G)
  PROVE  /\ EntriesOf(k) \in Seq(G) /\ Distinct(EntriesOf(k)) /\ Len(EntriesOf(k)) \in Nat
         /\ ~HasSidecar(k) => EntriesOf(k) = <<k.entry>>
         /\ k.state = "polymorphic" => Len(EntriesOf(k)) = 2
         /\ HasSidecar(k) /\ k.state # "polymorphic" => Len(EntriesOf(k)) <= MegamorphicEntries
         /\ HasSidecar(k) => \A i \in 1 .. Len(EntriesOf(k)) :
                               \E j \in 1 .. Len(payloads[k.sidecar]) :
                                 EntriesOf(k)[i] = payloads[k.sidecar][j]
         /\ HasSidecar(k) => \A j \in 1 .. Len(payloads[k.sidecar]) :
                               \/ payloads[k.sidecar][j].callee = Zero
                               \/ \E i \in 1 .. Len(EntriesOf(k)) :
                                    EntriesOf(k)[i] = payloads[k.sidecar][j]
<1>1. CASE ~HasSidecar(k)
  <2>1. k.entry \in G /\ EntriesOf(k) = <<k.entry>>
    BY <1>1 DEF CellOK, EntriesOf
  <2>2. <<k.entry>> \in Seq(G) /\ Len(<<k.entry>>) = 1
    BY <2>1
  <2>3. Distinct(<<k.entry>>)
    BY <2>2 DEF Distinct
  <2> QED
    BY <1>1, <2>1, <2>2, <2>3 DEF CellOK
<1>2. CASE HasSidecar(k) /\ k.state = "polymorphic"
  <2>1. /\ EntriesOf(k) = payloads[k.sidecar]
        /\ payloads[k.sidecar] \in Seq(G) /\ Distinct(payloads[k.sidecar])
        /\ Len(payloads[k.sidecar]) = 2
    BY <1>2 DEF CellOK, EntriesOf, LengthFits
  <2> QED
    BY <1>2, <2>1
<1>3. CASE HasSidecar(k) /\ k.state # "polymorphic"
  <2>1. /\ EntriesOf(k) = Kept(payloads[k.sidecar])
        /\ payloads[k.sidecar] \in Seq(G) /\ Distinct(payloads[k.sidecar])
        /\ Len(payloads[k.sidecar]) \in 1 .. MegamorphicEntries
    BY <1>3 DEF CellOK, EntriesOf, LengthFits
  <2>2. PICK es \in Seq(G) : es = payloads[k.sidecar]
    BY <2>1
  <2>3. /\ Kept(es) \in Seq(G) /\ Distinct(Kept(es)) /\ Len(Kept(es)) \in Nat
        /\ Len(Kept(es)) <= Len(es) /\ Len(es) \in Nat
        /\ \A i \in 1 .. Len(Kept(es)) : \E j \in 1 .. Len(es) : Kept(es)[i] = es[j]
        /\ \A j \in 1 .. Len(es) :
             es[j].callee = Zero \/ \E i \in 1 .. Len(Kept(es)) : Kept(es)[i] = es[j]
    <3>1. Distinct(es)
      BY <2>1, <2>2
    <3> DEFINE good == {e \in Range(es) : e.callee # Zero}
    <3>2. Kept(es) = Only(es, good)
      BY DEF Kept
    <3>3. \A j \in 1 .. Len(es) : es[j].callee = Zero \/ es[j] \in good
      BY DEF Range
    <3> HIDE DEF good
    <3> DEFINE part == Only(es, good)
    <3>4. /\ part \in Seq(G) /\ Distinct(part) /\ Len(part) \in Nat
          /\ Len(part) <= Len(es) /\ Len(es) \in Nat
          /\ \A i \in 1 .. Len(part) : part[i] \in good /\ \E j \in 1 .. Len(es) : part[i] = es[j]
          /\ \A j \in 1 .. Len(es) : es[j] \in good => \E i \in 1 .. Len(part) : part[i] = es[j]
      BY <3>1, OnlyKeeps
    <3> HIDE DEF part
    <3>5. Kept(es) = part
      BY <3>2 DEF part
    <3> QED
      BY <3>3, <3>4, <3>5
  <2>4. Len(Kept(es)) <= MegamorphicEntries
    BY <2>1, <2>2, <2>3, CallCachesAssumption DEF CallCachesAssumption
  <2> QED
    BY <1>3, <2>1, <2>2, <2>3, <2>4
<1> QED
  BY <1>1, <1>2, <1>3

\* The newest entry first, then the others while there is room
\* (nextMegamorphicCallEntries).
LEMMA NewestFirst ==
  ASSUME NEW G, NEW es \in Seq(G), Distinct(es), NEW e \in G
  PROVE  /\ NextMegamorphic(es, e) \in Seq(G) /\ Distinct(NextMegamorphic(es, e))
         /\ LengthFits("megamorphic", NextMegamorphic(es, e))
<1> DEFINE rest == Only(Kept(es), {o \in Range(es) : o.callee # e.callee})
           all == <<e>> \o rest
           m == Min({Len(all), MegamorphicEntries})
<1>1. /\ rest \in Seq(G) /\ Distinct(rest) /\ Len(rest) \in Nat
      /\ \A i \in 1 .. Len(rest) : rest[i].callee # e.callee
  <2>1. Kept(es) \in Seq(G) /\ Distinct(Kept(es))
    BY OnlyKeeps DEF Kept
  <2>2. /\ rest \in Seq(G) /\ Distinct(rest) /\ Len(rest) \in Nat
        /\ \A i \in 1 .. Len(rest) : rest[i] \in {o \in Range(es) : o.callee # e.callee}
    BY <2>1, OnlyKeeps
  <2> QED
    BY <2>2
<1> HIDE DEF rest
<1>2. /\ all \in Seq(G) /\ Len(all) = Len(rest) + 1 /\ all[1] = e
      /\ \A i \in 2 .. (Len(rest) + 1) : all[i] = rest[i - 1]
  BY <1>1
<1> HIDE DEF all
<1>3. m \in 1 .. MegamorphicEntries /\ m \in 1 .. Len(all) /\ m \in Nat
  <2>1. Len(all) \in Nat \ {0} /\ MegamorphicEntries \in Nat \ {0}
    BY <1>1, <1>2, CallCachesAssumption DEF CallCachesAssumption
  <2>2. \E x \in {Len(all), MegamorphicEntries} : \A y \in {Len(all), MegamorphicEntries} : x <= y
    BY <2>1
  <2>3. /\ m \in {Len(all), MegamorphicEntries}
        /\ \A y \in {Len(all), MegamorphicEntries} : m <= y
    BY <2>2 DEF Min
  <2> HIDE DEF m
  <2> QED
    BY <2>1, <2>3
<1>4. NextMegamorphic(es, e) = SubSeq(all, 1, m)
  BY DEF NextMegamorphic, rest, all
<1> HIDE DEF m
<1>5. /\ SubSeq(all, 1, m) \in Seq(G) /\ Len(SubSeq(all, 1, m)) = m
      /\ \A i \in 1 .. m : SubSeq(all, 1, m)[i] = all[i]
  BY <1>2, <1>3
<1>6. ASSUME NEW i \in 1 .. m, NEW j \in 1 .. m, all[i].callee = all[j].callee
      PROVE  i = j
  <2>1. i \in 1 .. (Len(rest) + 1) /\ j \in 1 .. (Len(rest) + 1)
    BY <1>1, <1>2, <1>3
  <2>2. ASSUME NEW x \in 2 .. (Len(rest) + 1)
        PROVE  /\ x - 1 \in 1 .. Len(rest) /\ all[x] = rest[x - 1]
               /\ all[x].callee # e.callee
    <3>1. x - 1 \in 1 .. Len(rest)
      BY <1>1
    <3> QED
      BY <1>1, <1>2, <3>1
  <2>3. CASE i = 1 /\ j = 1
    BY <2>3
  <2>4. CASE i = 1 /\ j # 1
    <3>1. j \in 2 .. (Len(rest) + 1)
      BY <1>1, <2>1, <2>4
    <3> QED
      BY <1>2, <1>6, <2>2, <2>4, <3>1
  <2>5. CASE i # 1 /\ j = 1
    <3>1. i \in 2 .. (Len(rest) + 1)
      BY <1>1, <2>1, <2>5
    <3> QED
      BY <1>2, <1>6, <2>2, <2>5, <3>1
  <2>6. CASE i # 1 /\ j # 1
    <3>1. i \in 2 .. (Len(rest) + 1) /\ j \in 2 .. (Len(rest) + 1)
      BY <1>1, <2>1, <2>6
    <3>2. i - 1 = j - 1
      BY <1>1, <1>6, <2>2, <3>1 DEF Distinct
    <3> QED
      BY <3>1, <3>2
  <2> QED
    BY <2>3, <2>4, <2>5, <2>6
<1>7. Distinct(SubSeq(all, 1, m))
  BY <1>5, <1>6 DEF Distinct
<1> QED
  BY <1>3, <1>4, <1>5, <1>7 DEF LengthFits

\* A cell with no payload holds one entry; what payload there was is given back
\* (WriteFeedbackCell).
LEMMA WriteCellKeeps ==
  ASSUME NEW G, NEW k, CellOK(k, payloads, G), NEW state \in States, state # "polymorphic",
         NEW e \in G, WriteCell(k, Holding(state, e), payloads)
  PROVE  CellOK(cell', payloads', G)
<1> DEFINE new == Holding(state, e)
<1>1. new \in [state : States, entry : G, sidecar : 0 .. 2] /\ new.sidecar = 0 /\ new.state = state
  BY DEF Holding
<1>2. cell' = new /\ DOMAIN payloads' = {}
  <2>1. CASE HasSidecar(k)
    <3>1. payloads' = Restrict(payloads, DOMAIN payloads \ {k.sidecar})
      BY <1>1, <2>1 DEF WriteCell, HasSidecar
    <3>2. DOMAIN payloads \ {k.sidecar} = {}
      BY DEF CellOK
    <3> QED
      BY <3>1, <3>2 DEF Restrict, WriteCell
  <2>2. CASE ~HasSidecar(k)
    BY <2>2 DEF WriteCell, HasSidecar, CellOK
  <2> QED
    BY <2>1, <2>2
<1> HIDE DEF new
<1> QED
  BY <1>1, <1>2 DEF CellOK, HasSidecar

\* A payload is written in place or into a new one, for which the old one is
\* given back; with no memory for it the cell stays (UpdateCallFeedbackAtSlot).
LEMMA WriteEntriesKeeps ==
  ASSUME NEW G, NEW k, CellOK(k, payloads, G), Blank \in G,
         NEW state \in {"polymorphic", "megamorphic"},
         NEW es \in Seq(G), Distinct(es), LengthFits(state, es), WriteEntries(k, state, es)
  PROVE  CellOK(cell', payloads', G)
<1>1. CASE HasSidecar(k) /\ k.state = state
  <2>1. cell' = k /\ payloads' = [payloads EXCEPT ![k.sidecar] = es]
    BY <1>1 DEF WriteEntries, WriteCell
  <2>2. k.sidecar \in DOMAIN payloads
    BY <1>1 DEF CellOK, HasSidecar
  <2>3. DOMAIN payloads' = DOMAIN payloads /\ payloads'[k.sidecar] = es
    BY <2>1, <2>2
  <2> QED
    BY <1>1, <2>1, <2>3 DEF CellOK
<1>2. CASE ~(HasSidecar(k) /\ k.state = state)
  <2> DEFINE id == Min((1 .. 2) \ DOMAIN payloads)
             new == [state |-> state, entry |-> Blank, sidecar |-> id]
             data == [i \in DOMAIN payloads \cup {id} |-> IF i = id THEN es ELSE payloads[i]]
  <2>1. id \in 1 .. 2 /\ id \notin DOMAIN payloads
    <3>1. DOMAIN payloads = {} \/ DOMAIN payloads = {1} \/ DOMAIN payloads = {2}
      BY DEF CellOK
    <3>2. \E x \in (1 .. 2) \ DOMAIN payloads : \A y \in (1 .. 2) \ DOMAIN payloads : x <= y
      BY <3>1
    <3> QED
      BY <3>2 DEF Min
  <2> HIDE DEF id
  <2>2. \/ WriteCell(k, new, data)
        \/ cell' = k /\ UNCHANGED payloads
    BY <1>2 DEF WriteEntries, id
  <2>3. CASE cell' = k /\ UNCHANGED payloads
    BY <2>3 DEF CellOK
  <2>4. CASE WriteCell(k, new, data)
    <3>1. DOMAIN data = {id} \cup DOMAIN payloads /\ data[id] = es
      BY <2>1
    <3>2. DOMAIN payloads = {k.sidecar} \ {0} /\ id # k.sidecar
      BY <2>1 DEF CellOK
    <3>3. new.sidecar = id
      OBVIOUS
    <3> HIDE DEF data
    <3>4. payloads' = IF HasSidecar(k) THEN Restrict(data, DOMAIN data \ {k.sidecar}) ELSE data
      BY <2>4, <3>2, <3>3 DEF WriteCell
    <3>5. DOMAIN payloads' = {id} /\ payloads'[id] = es
      <4>1. CASE HasSidecar(k)
        BY <3>1, <3>2, <3>4, <4>1 DEF Restrict
      <4>2. CASE ~HasSidecar(k)
        BY <3>1, <3>2, <3>4, <4>2 DEF HasSidecar
      <4> QED
        BY <4>1, <4>2
    <3>6. cell' = new
      BY <2>4 DEF WriteCell
    <3>7. new \in [state : States, entry : G, sidecar : 0 .. 2] /\ new.state = state
      BY <2>1 DEF States
    <3> QED
      BY <2>1, <3>3, <3>5, <3>6, <3>7 DEF CellOK, HasSidecar
  <2> QED
    BY <2>2, <2>3, <2>4
<1> QED
  BY <1>1, <1>2

\* Recording a call keeps the cell in order: the callee's new entry takes the
\* place of its old one, or finds a place of its own (NextCallTransition).
LEMMA UpdateCallKeeps ==
  ASSUME NEW G, NEW k, CellOK(k, payloads, G), Blank \in G, NEW c, Candidate(c) \in G,
         UpdateCall(k, c)
  PROVE  CellOK(cell', payloads', G)
<1> DEFINE new == Candidate(c)
           es == EntriesOf(k)
           known == {i \in DOMAIN es : es[i].callee = c}
<1>1. /\ es \in Seq(G) /\ Distinct(es) /\ Len(es) \in Nat
      /\ ~HasSidecar(k) => es = <<k.entry>>
      /\ k.state = "polymorphic" => Len(es) = 2
  BY EntriesOfCell
<1>2. new.callee = c /\ new \in G
  BY DEF Candidate
<1>3. k.state \in States /\ k.entry \in G
  BY DEF CellOK
<1>4. DOMAIN es = 1 .. Len(es)
  BY <1>1
<1>5. ASSUME known # {} PROVE Min(known) \in known
  <2>1. known \subseteq Nat
    BY <1>4
  <2> HIDE DEF known
  <2> QED
    BY <1>5, <2>1, LeastIsIn
<1>6. CASE k.state = "generic"
  <2>1. WriteCell(k, Holding("monomorphic", new), payloads)
    BY <1>6 DEF UpdateCall
  <2> QED
    BY <1>2, <2>1, WriteCellKeeps DEF States
<1>7. CASE k.state = "monomorphic"
  <2>1. ~HasSidecar(k)
    BY <1>7 DEF CellOK
  <2>2. CASE known # {}
    <3>1. WriteCell(k, Holding("monomorphic", new), payloads)
      BY <1>7, <2>2 DEF UpdateCall
    <3> QED
      BY <1>2, <3>1, WriteCellKeeps DEF States
  <2>3. CASE known = {}
    <3>1. WriteEntries(k, "polymorphic", <<k.entry, new>>)
      BY <1>7, <2>3 DEF UpdateCall
    <3>2. es = <<k.entry>> /\ k.entry.callee # c
      BY <1>1, <2>1, <2>3
    <3> DEFINE two == <<k.entry, new>>
    <3>3. two \in Seq(G) /\ Len(two) = 2 /\ two[1] = k.entry /\ two[2] = new
      BY <1>2, <1>3
    <3> HIDE DEF two
    <3>4. Distinct(two)
      <4>1. \A i \in 1 .. 2 : i = 1 \/ i = 2
        OBVIOUS
      <4> QED
        BY <1>2, <3>2, <3>3, <4>1 DEF Distinct
    <3>5. LengthFits("polymorphic", two)
      BY <3>3 DEF LengthFits
    <3> QED
      BY <3>1, <3>3, <3>4, <3>5, WriteEntriesKeeps DEF two
  <2> QED
    BY <2>2, <2>3
<1>8. CASE k.state = "polymorphic"
  <2>1. CASE known # {}
    <3> DEFINE at == Min(known)
               some == [es EXCEPT ![at] = new]
    <3>1. WriteEntries(k, "polymorphic", some)
      BY <1>8, <2>1 DEF UpdateCall
    <3>2. at \in 1 .. Len(es) /\ es[at].callee = c
      BY <1>4, <1>5, <2>1
    <3> HIDE DEF at, es
    <3>3. some \in Seq(G) /\ Len(some) = Len(es)
      BY <1>1, <1>2, <3>2
    <3>4. \A i \in 1 .. Len(es) : some[i].callee = es[i].callee
      BY <1>1, <1>2, <3>2
    <3> HIDE DEF some
    <3>5. Distinct(some) /\ LengthFits("polymorphic", some)
      BY <1>1, <1>8, <3>3, <3>4 DEF Distinct, LengthFits
    <3> QED
      BY <3>1, <3>3, <3>5, WriteEntriesKeeps
  <2>2. CASE known = {}
    <3>1. WriteEntries(k, "megamorphic", NextMegamorphic(es, new))
      BY <1>8, <2>2 DEF UpdateCall
    <3> QED
      BY <1>1, <1>2, <3>1, NewestFirst, WriteEntriesKeeps
  <2> QED
    BY <2>1, <2>2
<1>9. CASE k.state = "megamorphic"
  <2>1. \/ WriteCell(k, Holding("megamorphic", new), payloads)
        \/ cell' = k /\ UNCHANGED payloads
        \/ WriteEntries(k, "megamorphic", NextMegamorphic(es, new))
    BY <1>9 DEF UpdateCall
  <2>2. CASE WriteCell(k, Holding("megamorphic", new), payloads)
    BY <1>2, <2>2, WriteCellKeeps DEF States
  <2>3. CASE cell' = k /\ UNCHANGED payloads
    BY <2>3 DEF CellOK
  <2>4. CASE WriteEntries(k, "megamorphic", NextMegamorphic(es, new))
    BY <1>1, <1>2, <2>4, NewestFirst, WriteEntriesKeeps
  <2> QED
    BY <2>1, <2>2, <2>3, <2>4
<1> QED
  BY <1>3, <1>6, <1>7, <1>8, <1>9 DEF States

\* A cell whose payload changes in place.
LEMMA PayloadChanges ==
  ASSUME NEW G, NEW H, NEW k, NEW data, NEW more, CellOK(k, data, G), k.entry \in H,
         DOMAIN more = DOMAIN data,
         HasSidecar(k) => /\ more[k.sidecar] \in Seq(H) /\ Distinct(more[k.sidecar])
                          /\ LengthFits(k.state, more[k.sidecar])
  PROVE  CellOK(k, more, H)
<1>1. k \in [state : States, entry : H, sidecar : 0 .. 2]
  BY DEF CellOK
<1> QED
  BY <1>1 DEF CellOK

\* A scrub leaves no entry of a dead callee, seen or unseen, and gives back the
\* payload it empties (ScrubDeadFeedbackCells).
LEMMA ScrubKeeps ==
  ASSUME NEW G, CellOK(cell, payloads, G), NEW dead, Scrub(dead),
         Blank \in G, Zero \notin dead
  PROVE  CellOK(cell', payloads', {e \in G : e.callee \notin dead})
<1> DEFINE H == {e \in G : e.callee \notin dead}
           es == EntriesOf(cell)
           good == {e \in Range(es) : ~EntryDead(e, dead)}
           live == Only(es, good)
<1>1. /\ es \in Seq(G) /\ Distinct(es) /\ Len(es) \in Nat
      /\ ~HasSidecar(cell) => es = <<cell.entry>>
      /\ cell.state = "polymorphic" => Len(es) = 2
      /\ HasSidecar(cell) /\ cell.state # "polymorphic" => Len(es) <= MegamorphicEntries
      /\ HasSidecar(cell) => \A j \in 1 .. Len(payloads[cell.sidecar]) :
                               \/ payloads[cell.sidecar][j].callee = Zero
                               \/ \E i \in 1 .. Len(es) : es[i] = payloads[cell.sidecar][j]
  BY EntriesOfCell
<1> HIDE DEF es
<1>2. \A e \in good : e.callee \notin dead
  BY DEF EntryDead
<1> HIDE DEF good
<1>3. /\ live \in Seq(G) /\ Distinct(live) /\ Len(live) \in Nat /\ Len(live) <= Len(es)
      /\ \A i \in 1 .. Len(live) : live[i] \in good
      /\ Len(live) = Len(es) => \A i \in 1 .. Len(es) : es[i] \in good
  BY <1>1, OnlyKeeps
<1> HIDE DEF live
<1>4. \A i \in 1 .. Len(live) : live[i] \in H
  BY <1>2, <1>3
<1>5. live \in Seq(H)
  BY <1>3, <1>4
<1>6. Blank \in H
  BY DEF Blank
<1>7. \/ Len(live) = Len(es) /\ UNCHANGED <<cell, payloads>>
      \/ live = <<>> /\ es # <<>> /\ WriteCell(cell, Generic, payloads)
      \/ /\ Len(live) = 1 /\ Len(es) > 1
         /\ WriteCell(cell, Holding("monomorphic", live[1]), payloads)
      \/ /\ Len(live) # Len(es) /\ ~(live = <<>> /\ es # <<>>)
         /\ ~(Len(live) = 1 /\ Len(es) > 1)
         /\ WriteEntries(cell, "megamorphic", live)
  BY DEF Scrub, es, good, live
<1>8. ASSUME NEW K \in SUBSET G, CellOK(cell', payloads', K), K \subseteq H
      PROVE  CellOK(cell', payloads', H)
  <2>1. Seq(K) \subseteq Seq(H)
    BY <1>8
  <2> HIDE DEF H
  <2> QED
    BY <1>8, <2>1 DEF CellOK
<1>9. CASE Len(live) = Len(es) /\ UNCHANGED <<cell, payloads>>
  <2>1. \A i \in 1 .. Len(es) : es[i].callee \notin dead
    BY <1>2, <1>3, <1>9
  <2>2. CASE ~HasSidecar(cell)
    <3>1. cell.entry \in G /\ cell.entry.callee \notin dead
      BY <1>1, <2>1, <2>2 DEF CellOK
    <3> QED
      BY <1>9, <2>2, <3>1 DEF CellOK
  <2>3. CASE HasSidecar(cell)
    <3> DEFINE p == payloads[cell.sidecar]
    <3>1. p \in Seq(G) /\ cell.entry = Blank
      BY <2>3 DEF CellOK
    <3>2. \A j \in 1 .. Len(p) : p[j].callee \notin dead
      BY <1>1, <2>1, <2>3
    <3> HIDE DEF p
    <3>3. \A j \in 1 .. Len(p) : p[j] \in H
      BY <3>1, <3>2
    <3>4. p \in Seq(H)
      BY <3>1, <3>3
    <3>5. cell.entry \in H
      BY <1>6, <3>1
    <3> HIDE DEF H
    <3> QED
      <4>1. cell' = cell /\ payloads' = payloads
        BY <1>9
      <4>2. payloads[cell.sidecar] \in Seq(H)
        BY <3>4 DEF p
      <4>3. Distinct(payloads[cell.sidecar]) /\ LengthFits(cell.state, payloads[cell.sidecar])
        BY <2>3 DEF CellOK
      <4>4. CellOK(cell, payloads, H)
        BY <3>5, <4>2, <4>3, PayloadChanges
      <4> QED
        BY <4>1, <4>4 DEF H
  <2> QED
    BY <2>2, <2>3
<1>10. ASSUME NEW state \in {"generic", "monomorphic"}, NEW e \in H,
              WriteCell(cell, Holding(state, e), payloads)
       PROVE  CellOK(cell', payloads', H)
  <2>1. CellOK(cell', payloads', G) /\ cell' = Holding(state, e)
    BY <1>10, WriteCellKeeps DEF WriteCell, States
  <2>2. ~HasSidecar(cell') /\ cell'.entry = e
    BY <2>1 DEF Holding, HasSidecar
  <2>3. cell' \in [state : States, entry : H, sidecar : 0 .. 2]
    BY <2>1, <2>2 DEF CellOK
  <2> HIDE DEF H
  <2> QED
    BY <2>1, <2>2, <2>3 DEF CellOK
<1>11. CASE live = <<>> /\ es # <<>> /\ WriteCell(cell, Generic, payloads)
  <2>1. Generic = Holding("generic", Blank)
    BY DEF Generic, Holding
  <2> QED
    BY <1>6, <1>10, <1>11, <2>1
<1>12. CASE /\ Len(live) = 1 /\ Len(es) > 1
            /\ WriteCell(cell, Holding("monomorphic", live[1]), payloads)
  <2>1. live[1] \in H
    BY <1>4, <1>12
  <2> QED
    BY <1>10, <1>12, <2>1
<1>13. CASE /\ Len(live) # Len(es) /\ ~(live = <<>> /\ es # <<>>)
            /\ ~(Len(live) = 1 /\ Len(es) > 1)
            /\ WriteEntries(cell, "megamorphic", live)
  <2>1. Len(live) # 0
    <3>1. Len(live) = 0 => live = <<>>
      BY <1>3
    <3>2. es = <<>> => Len(es) = 0
      BY <1>1
    <3> QED
      BY <1>13, <3>1, <3>2
  <2>a. /\ Len(live) \in Nat /\ Len(es) \in Nat /\ Len(live) <= Len(es)
        /\ Len(live) # Len(es) /\ ~(Len(live) = 1 /\ Len(es) > 1)
    BY <1>1, <1>3, <1>13
  <2>2. Len(live) >= 2 /\ Len(es) >= 3
    <3>1. PICK m \in Nat, n \in Nat : m = Len(live) /\ n = Len(es)
      BY <2>a
    <3> QED
      BY <2>1, <2>a, <3>1
  <2>3. HasSidecar(cell) /\ cell.state = "megamorphic"
    <3>1. ~HasSidecar(cell) => Len(es) = 1
      BY <1>1
    <3>p. cell.state = "polymorphic" => Len(es) = 2
      BY <1>1
    <3>n. Len(es) # 1 /\ Len(es) # 2
      <4>1. PICK n \in Nat : n = Len(es)
        BY <2>a
      <4> QED
        BY <2>2, <4>1
    <3>2. HasSidecar(cell) /\ cell.state # "polymorphic"
      BY <3>1, <3>p, <3>n
    <3> QED
      BY <3>2 DEF CellOK
  <2>4. cell' = cell /\ payloads' = [payloads EXCEPT ![cell.sidecar] = live]
    BY <1>13, <2>3 DEF WriteEntries, WriteCell
  <2>5. cell.sidecar \in DOMAIN payloads
    BY <2>3 DEF CellOK, HasSidecar
  <2>6. DOMAIN payloads' = DOMAIN payloads /\ payloads'[cell.sidecar] = live
    BY <2>4, <2>5
  <2>7. LengthFits("megamorphic", live)
    <3>1. MegamorphicEntries \in Nat /\ Len(es) <= MegamorphicEntries
      BY <1>1, <2>3, CallCachesAssumption DEF CallCachesAssumption
    <3> QED
      BY <1>1, <1>3, <2>2, <3>1 DEF LengthFits
  <2>8. cell \in [state : States, entry : H, sidecar : 0 .. 2]
    BY <1>6, <2>3 DEF CellOK
  <2> HIDE DEF H
  <2>9. /\ cell' = cell /\ HasSidecar(cell) /\ cell.state = "megamorphic"
        /\ DOMAIN payloads' = DOMAIN payloads /\ payloads'[cell.sidecar] = live
    BY <2>3, <2>4, <2>6
  <2>10. cell.entry = Blank /\ DOMAIN payloads = {cell.sidecar} \ {0}
    BY <2>3 DEF CellOK
  <2>11. live \in Seq(H) /\ Distinct(live)
    BY <1>3, <1>5
  <2>12. CellOK(cell, payloads', H)
    <3>1. cell.entry \in H
      BY <2>8
    <3> QED
      BY <2>7, <2>9, <2>11, <3>1, PayloadChanges
  <2> QED
    BY <2>9, <2>12 DEF H
<1> QED
  BY <1>7, <1>9, <1>11, <1>12, <1>13

-----------------------------------------------------------------------------
(* Entries that are sound                                                  *)

Worlds ==
  /\ holders \in [Holders -> [version : Nat, metatable : Metatables \cup {None}]]
  /\ metas \in [Metatables -> [version : Nat, call : Callable \cup {None}]]

MetaVersion(h) == IF holders[h].metatable = None THEN 0 ELSE metas[holders[h].metatable].version

\* An entry for a value that is not a function was made under versions that have
\* not been exceeded since, and names what the value resolves to as long as they
\* are in force.
Sound(e) ==
  e.target # None =>
    IF e.callee \in Callable THEN e.target = e.callee
    ELSE LET h == HolderOf(e.callee)
         IN  /\ e.shape \in Nat \X Nat
             /\ e.shape[1] <= holders[h].version
             /\ e.shape[1] = holders[h].version => e.shape[2] <= MetaVersion(h)
             /\ e.shape[1] = holders[h].version /\ e.shape[2] = MetaVersion(h)
                  => e.target = Resolve(e.callee)

SoundEntries == {e \in Entry : Sound(e)}

\* The last call ran the function its callee resolves to ...
TargetRight == served # None => served.target = Resolve(served.callee)
\* ... and passed the callee if it is no function.
SelfRight == served # None => (served.self <=> served.callee \notin Callable)

\* What every step of the code keeps; what a step keeps that changes no
\* metamethod behind the versions; what is left if the stub loses no callee.
BaseInv == Worlds /\ CellOK(cell, payloads, Entry)
EntriesInv == CellOK(cell, payloads, SoundEntries) /\ TargetRight
CInv == Worlds /\ EntriesInv

\* Values of different kinds are different.
LEMMA Kinds ==
  /\ \A c \in Callees : c \in Callable \/ c \in Tables \/ c \in Numbers
  /\ \A c \in Callable : c \notin Tables /\ c # "number" /\ c # Zero
  /\ \A c \in Tables : c \notin Callable /\ c # "number" /\ c # Zero
  /\ Zero \in Callees /\ Zero \notin Callable /\ None \notin Callable /\ None \notin Metatables
  /\ \A c \in Callees : HolderOf(c) \in Holders
BY CallCachesAssumption DEF CallCachesAssumption, Callable, Callees, HolderOf, Holders

\* What a callee resolves to, and the versions this depends on.
LEMMA Resolved ==
  ASSUME Worlds, NEW c \in Callees
  PROVE  /\ c \in Callable => Resolve(c) = c /\ Shape(c) = <<>>
         /\ c \notin Callable => LET h == HolderOf(c)
                                 IN  /\ h \in Holders
                                     /\ Shape(c) = <<holders[h].version, MetaVersion(h)>>
                                     /\ holders[h].version \in Nat /\ MetaVersion(h) \in Nat
         /\ Resolve(c) \in Callable \cup {None}
<1>1. CASE c \in Callable
  BY <1>1, Kinds DEF Resolve, Shape
<1>2. CASE c \notin Callable
  <2> DEFINE h == HolderOf(c)
  <2>1. h \in Holders
    BY Kinds
  <2> HIDE DEF h
  <2>2. PICK v \in Nat, m \in Metatables \cup {None} :
          v = holders[h].version /\ m = holders[h].metatable
    BY <2>1 DEF Worlds
  <2>3. m # None => metas[m].version \in Nat /\ metas[m].call \in Callable \cup {None}
    BY DEF Worlds
  <2>4. MetaVersion(h) = IF m = None THEN 0 ELSE metas[m].version
    BY <2>2 DEF MetaVersion
  <2>5. Shape(c) = <<holders[h].version, MetaVersion(h)>>
    BY <1>2 DEF Shape, MetaVersion, h
  <2>6. CASE m = None
    <3>1. Resolve(c) = None
      BY <1>2, <2>2, <2>6 DEF Resolve, h
    <3> QED
      BY <1>2, <2>1, <2>2, <2>4, <2>5, <2>6, <3>1 DEF h
  <2>7. CASE m # None
    <3>1. Resolve(c) = metas[m].call
      BY <1>2, <2>2, <2>7 DEF Resolve, h
    <3> QED
      BY <1>2, <2>1, <2>2, <2>3, <2>4, <2>5, <2>7, <3>1 DEF h
  <2> QED
    BY <2>6, <2>7
<1> QED
  BY <1>1, <1>2

\* A match of a sound entry runs what the callee resolves to
\* (matchCallFeedbackEntry).
LEMMA MatchIsRight ==
  ASSUME Worlds, NEW c \in Callees, NEW e \in SoundEntries, Matches(e, c)
  PROVE  e.target = Resolve(c) /\ e.callee = c
<1>1. e.target # None /\ e.callee = c /\ e.shape = Shape(c) /\ Sound(e)
  BY DEF Matches, SoundEntries
<1>2. CASE c \in Callable
  BY <1>1, <1>2, Resolved DEF Sound
<1>3. CASE c \notin Callable
  <2> DEFINE h == HolderOf(c)
  <2>1. Shape(c) = <<holders[h].version, MetaVersion(h)>>
    BY <1>3, Resolved
  <2>2. e.shape[1] = holders[h].version /\ e.shape[2] = MetaVersion(h)
    BY <1>1, <2>1
  <2> QED
    BY <1>1, <1>3, <2>2 DEF Sound
<1> QED
  BY <1>2, <1>3

\* A new entry and a blank one are sound (AccessKindForCallTarget).
LEMMA NewIsSound ==
  ASSUME Worlds
  PROVE  Blank \in SoundEntries /\ \A c \in Callees : Candidate(c) \in SoundEntries
<1>1. Blank \in SoundEntries
  BY Kinds DEF Blank, SoundEntries, Entry, Sound
<1>2. ASSUME NEW c \in Callees PROVE Candidate(c) \in SoundEntries
  <2> DEFINE new == Candidate(c)
  <2>1. new.callee = c /\ new.target = Resolve(c) /\ new.shape = Shape(c)
    BY DEF Candidate
  <2>2. CASE c \in Callable
    <3>1. new \in Entry
      BY <2>2, Resolved DEF Candidate, Entry
    <3>2. Sound(new)
      BY <2>1, <2>2, Resolved DEF Sound
    <3> QED
      BY <3>1, <3>2 DEF SoundEntries
  <2>3. CASE c \notin Callable
    <3> DEFINE h == HolderOf(c)
    <3>1. PICK v \in Nat, w \in Nat : /\ v = holders[h].version /\ w = MetaVersion(h)
                                      /\ Shape(c) = <<v, w>>
      BY <2>3, Resolved
    <3>2. new \in Entry
      BY <3>1, Resolved DEF Candidate, Entry
    <3> HIDE DEF new
    <3>3. new.shape \in Nat \X Nat /\ new.shape[1] = v /\ new.shape[2] = w
      BY <2>1, <3>1
    <3>4. Sound(new)
      BY <2>1, <2>3, <3>1, <3>3 DEF Sound
    <3> QED
      BY <3>2, <3>4 DEF SoundEntries, new
  <2> QED
    BY <2>2, <2>3
<1> QED
  BY <1>1, <1>2

\* With no metatable changed, sound entries are still sound.
LEMMA SameWorld ==
  ASSUME UNCHANGED world
  PROVE  SoundEntries' = SoundEntries /\ (Worlds => Worlds')
         /\ \A c : Resolve(c)' = Resolve(c)
<1>1. holders' = holders /\ metas' = metas
  BY DEF world
<1> QED
  BY <1>1 DEF SoundEntries, Sound, Resolve, MetaVersion, Worlds

\* Entries may be of a larger set.
LEMMA CellWidens ==
  ASSUME NEW G, NEW H, G \subseteq H, NEW k, NEW data, CellOK(k, data, G)
  PROVE  CellOK(k, data, H)
<1>1. Seq(G) \subseteq Seq(H)
  OBVIOUS
<1>2. k.entry \in H
  BY DEF CellOK
<1>3. HasSidecar(k) => /\ data[k.sidecar] \in Seq(H) /\ Distinct(data[k.sidecar])
                       /\ LengthFits(k.state, data[k.sidecar])
  BY <1>1 DEF CellOK
<1> QED
  BY <1>2, <1>3, PayloadChanges

-----------------------------------------------------------------------------
(* Calls                                                                   *)

\* Native code writes entries of its own (emitUpdateCallFeedbackEligible).
LEMMA NativeUpdateKeeps ==
  ASSUME NEW G, CellOK(cell, payloads, G), Blank \in G, NEW c, Candidate(c) \in G
  PROVE  CellOK(AfterNativeUpdate(c), payloads, G)
<1>1. ASSUME NEW state \in States, state # "polymorphic", NEW e \in G, ~HasSidecar(cell)
      PROVE  CellOK(Holding(state, e), payloads, G)
  BY <1>1 DEF CellOK, Holding, HasSidecar
<1>2. Blank \in G /\ Candidate(c) \in G
  OBVIOUS
<1>3. cell.state = "generic" \/ cell.state = "monomorphic" => ~HasSidecar(cell)
  BY DEF CellOK
<1>4. CASE cell.state = "generic" /\ c \in Closures
  <2>1. AfterNativeUpdate(c) = Holding("monomorphic", Candidate(c))
    BY <1>4 DEF AfterNativeUpdate
  <2> QED
    BY <1>1, <1>2, <1>3, <1>4, <2>1 DEF States
<1>5. CASE c \in Closures /\ cell.state = "monomorphic" /\ ~IsResolved(cell.entry)
           /\ cell.entry.callee # c
  <2>1. AfterNativeUpdate(c) = Holding("megamorphic", Blank)
    BY <1>5 DEF AfterNativeUpdate, BlankMegamorphic
  <2> QED
    BY <1>1, <1>2, <1>3, <1>5, <2>1 DEF States
<1>6. CASE ~(cell.state = "generic" /\ c \in Closures)
           /\ ~(c \in Closures /\ cell.state = "monomorphic" /\ ~IsResolved(cell.entry)
                /\ cell.entry.callee # c)
  <2>1. AfterNativeUpdate(c) = cell
    BY <1>6 DEF AfterNativeUpdate
  <2> QED
    BY <2>1
<1> QED
  BY <1>4, <1>5, <1>6

\* What native code compares are entries of the cell.
LEMMA NativeEntriesSound ==
  ASSUME CellOK(cell, payloads, SoundEntries)
  PROVE  NativeEntries \subseteq SoundEntries
<1>1. CASE ~HasSidecar(cell)
  BY <1>1 DEF NativeEntries, CellOK
<1>2. CASE HasSidecar(cell)
  <2> DEFINE es == payloads[cell.sidecar]
  <2>1. es \in Seq(SoundEntries)
    BY <1>2 DEF CellOK
  <2>2. \A e \in NativeEntries : \E i \in DOMAIN es : e = es[i]
    BY <1>2 DEF NativeEntries
  <2> HIDE DEF es
  <2> QED
    BY <2>1, <2>2
<1> QED
  BY <1>1, <1>2

\* What the stub finds is an entry of the cell that matches (MatchCallFeedbackCell).
LEMMA StubHitMatches ==
  ASSUME NEW k, CellOK(k, payloads, SoundEntries), NEW c, StubHit(k, c).target # None
  PROVE  StubHit(k, c) \in SoundEntries /\ Matches(StubHit(k, c), c)
<1> DEFINE es == EntriesOf(k)
           hits == {i \in DOMAIN es : Matches(es[i], c)}
<1>1. es \in Seq(SoundEntries)
  BY EntriesOfCell
<1>2. StubHit(k, c) = IF hits = {} THEN Blank ELSE es[Min(hits)]
  BY DEF StubHit
<1> HIDE DEF es
<1>3. hits # {}
  BY <1>2 DEF Blank
<1>4. hits \in SUBSET Nat
  BY <1>1
<1>5. Min(hits) \in hits
  <2> HIDE DEF hits
  <2> QED
    BY <1>3, <1>4, LeastIsIn
<1> QED
  BY <1>1, <1>2, <1>3, <1>5

\* However a call is made, it keeps the cell in order (UpdateCallFeedbackAtSlot,
\* emitUpdateCallFeedbackEligible).
LEMMA CallKeepsCell ==
  ASSUME NEW G, CellOK(cell, payloads, G), Blank \in G, NEW c, Candidate(c) \in G, Call(c)
  PROVE  CellOK(cell', payloads', G)
<1> DEFINE k == AfterNativeUpdate(c)
<1>1. CellOK(k, payloads, G)
  BY NativeUpdateKeeps
<1> HIDE DEF k
<1>2. \/ UpdateCall(cell, c) \/ UpdateCall(k, c)
      \/ cell' = k /\ payloads' = payloads
  BY DEF Call, Interpret, CallNatively, CallThroughStub, k
<1>3. CASE UpdateCall(cell, c) \/ UpdateCall(k, c)
  BY <1>1, <1>3, UpdateCallKeeps
<1>4. CASE cell' = k /\ payloads' = payloads
  BY <1>1, <1>4
<1> QED
  BY <1>2, <1>3, <1>4

\* What a call that is recorded says of it.
LEMMA ServeRight ==
  ASSUME NEW c, NEW f, NEW self, Serve(c, f, self), UNCHANGED world, f = Resolve(c)
  PROVE  TargetRight' /\ ((self <=> c \notin Callable) => SelfRight')
<1>1. served'.callee = c /\ served'.target = f /\ served'.self = self
  BY DEF Serve
<1>2. holders' = holders /\ metas' = metas
  BY DEF world
<1>3. Resolve(served.callee)' = Resolve(c)
  BY <1>1, <1>2 DEF Resolve
<1>4. TargetRight'
  BY <1>1, <1>3 DEF TargetRight
<1>5. (self <=> c \notin Callable) => SelfRight'
  BY <1>1 DEF SelfRight
<1> QED
  BY <1>4, <1>5

\* However a call is made, it runs what the callee resolves to; and it passes the
\* callee if it should, unless the stub loses it (handleCallStub).
LEMMA CallServes ==
  ASSUME CInv, NEW c \in Callees, Call(c)
  PROVE  /\ TargetRight'
         /\ Interpret(c) \/ CallNatively(c) \/ ~LosesSelf(c) => SelfRight'
<1>1. Worlds /\ CellOK(cell, payloads, SoundEntries)
  BY DEF CInv, EntriesInv
<1>2. Blank \in SoundEntries /\ Candidate(c) \in SoundEntries
  BY <1>1, NewIsSound
<1>3. UNCHANGED world
  BY DEF Call, Interpret, CallNatively, CallThroughStub, world
<1> DEFINE k == AfterNativeUpdate(c)
<1>5. CellOK(k, payloads, SoundEntries)
  BY <1>1, <1>2, NativeUpdateKeeps
<1>7. ASSUME Interpret(c) PROVE TargetRight' /\ SelfRight'
  <2>1. Serve(c, Resolve(c), c \notin Callable)
    BY <1>7 DEF Interpret
  <2> QED
    BY <1>3, <2>1, ServeRight
<1>8. ASSUME CallNatively(c) PROVE TargetRight' /\ SelfRight'
  <2>1. CASE c \in Closures /\ Serve(c, c, FALSE)
    <3>1. c \in Callable /\ Resolve(c) = c
      BY <1>1, <2>1, Resolved DEF Callable
    <3> QED
      BY <1>3, <2>1, <3>1, ServeRight
  <2>2. CASE c \notin Closures /\ \E e \in NativeHits(c) : Serve(c, e.target, IsResolved(e))
    <3>1. PICK e \in NativeHits(c) : Serve(c, e.target, IsResolved(e))
      BY <2>2
    <3>2. e \in SoundEntries /\ Matches(e, c)
      BY <1>1, NativeEntriesSound DEF NativeHits
    <3>3. e.target = Resolve(c) /\ e.callee = c
      BY <1>1, <3>2, MatchIsRight
    <3>4. IsResolved(e) <=> c \notin Callable
      BY <3>3 DEF IsResolved
    <3> QED
      BY <1>3, <3>1, <3>3, <3>4, ServeRight
  <2> QED
    BY <1>8, <2>1, <2>2 DEF CallNatively
<1>9. ASSUME CallThroughStub(c) PROVE TargetRight' /\ (~LosesSelf(c) => SelfRight')
  <2> DEFINE e == StubHit(k, c)
             self == ~HasSidecar(k) /\ IsResolved(e)
  <2>1. CASE e.target # None /\ Serve(c, e.target, self)
    <3>1. e \in SoundEntries /\ Matches(e, c)
      BY <1>5, <2>1, StubHitMatches
    <3>2. e.target = Resolve(c) /\ e.callee = c
      BY <1>1, <3>1, MatchIsRight
    <3>3. ~LosesSelf(c) => (self <=> c \notin Callable)
      BY <2>1, <3>2 DEF LosesSelf, IsResolved
    <3> HIDE DEF self
    <3> QED
      BY <1>3, <1>9, <2>1, <3>2, <3>3, ServeRight
  <2>2. CASE Serve(c, Resolve(c), c \notin Callable)
    BY <1>3, <2>2, ServeRight
  <2> QED
    BY <1>9, <2>1, <2>2 DEF CallThroughStub
<1> QED
  BY <1>7, <1>8, <1>9 DEF Call

\* Calls change no metatable.
LEMMA CallKeepsWorld ==
  ASSUME NEW c, Call(c)
  PROVE  UNCHANGED world
BY DEF Call, Interpret, CallNatively, CallThroughStub, world

-----------------------------------------------------------------------------
(* Changes                                                                 *)

\* An entry stays sound while what its callee's resolution depends on stays.
LEMMA StaysSound ==
  ASSUME NEW e \in SoundEntries,
         e.callee \notin Callable =>
           LET h == HolderOf(e.callee)
               m == holders[h].metatable
           IN  holders'[h] = holders[h] /\ (m # None => metas'[m] = metas[m])
  PROVE  Sound(e)'
<1>1. Sound(e)
  BY DEF SoundEntries
<1>2. CASE e.target = None \/ e.callee \in Callable
  BY <1>1, <1>2 DEF Sound
<1>3. CASE e.target # None /\ e.callee \notin Callable
  <2> DEFINE c == e.callee
             h == HolderOf(c)
  <2>1. MetaVersion(h)' = MetaVersion(h)
    BY <1>3 DEF MetaVersion
  <2>2. Resolve(c)' = Resolve(c)
    BY <1>3 DEF Resolve
  <2>3. holders'[h] = holders[h]
    BY <1>3
  <2> QED
    BY <1>1, <1>3, <2>1, <2>2, <2>3 DEF Sound
<1> QED
  BY <1>2, <1>3

\* A new metatable raises the version of its holder (SetMetatable, Registry.Set).
LEMMA SetMetatableKeeps ==
  ASSUME CInv, NEW h \in Holders, NEW m \in Metatables \cup {None}, SetMetatable(h, m)
  PROVE  CInv'
<1>1. /\ holders' = [holders EXCEPT ![h] = [version |-> @.version + 1, metatable |-> m]]
      /\ served' = None /\ metas' = metas /\ cell' = cell /\ payloads' = payloads
  BY DEF SetMetatable
<1>2. Worlds /\ CellOK(cell, payloads, SoundEntries)
  BY DEF CInv, EntriesInv
<1>3. PICK v \in Nat : v = holders[h].version
  BY <1>2 DEF Worlds
<1>4. /\ holders'[h] = [version |-> v + 1, metatable |-> m]
      /\ \A g \in Holders : g # h => holders'[g] = holders[g]
      /\ holders' \in [Holders -> [version : Nat, metatable : Metatables \cup {None}]]
  <2>1. holders' = [holders EXCEPT ![h] = [version |-> v + 1, metatable |-> m]]
    BY <1>1, <1>3
  <2>2. [version |-> v + 1, metatable |-> m] \in [version : Nat, metatable : Metatables \cup {None}]
    OBVIOUS
  <2> QED
    BY <1>2, <2>1, <2>2 DEF Worlds
<1>5. ASSUME NEW e \in SoundEntries PROVE e \in SoundEntries'
  <2> DEFINE g == HolderOf(e.callee)
  <2>1. e \in Entry /\ Sound(e) /\ e.callee \in Callees /\ g \in Holders
    BY Kinds DEF SoundEntries, Entry
  <2>2. CASE g # h \/ e.callee \in Callable
    <3>1. Sound(e)'
      BY <1>1, <1>4, <2>1, <2>2, StaysSound
    <3> QED
      BY <2>1, <3>1 DEF SoundEntries
  <2>3. CASE g = h /\ e.callee \notin Callable
    <3>1. e.target # None => e.shape \in Nat \X Nat /\ e.shape[1] <= v
      BY <1>3, <2>1, <2>3 DEF Sound
    <3>2. holders'[g].version = v + 1
      BY <1>4, <2>3
    <3>3. e.target # None => e.shape[1] <= v + 1 /\ e.shape[1] # v + 1
      BY <3>1
    <3>4. Sound(e)'
      BY <2>3, <3>1, <3>2, <3>3 DEF Sound
    <3> QED
      BY <2>1, <3>4 DEF SoundEntries
  <2> QED
    BY <2>2, <2>3
<1>6. CellOK(cell', payloads', SoundEntries')
  BY <1>1, <1>2, <1>5, CellWidens
<1> QED
  BY <1>1, <1>2, <1>4, <1>6 DEF CInv, EntriesInv, Worlds, TargetRight

\* A new metamethod raises the version of its metatable (Table.Set).
LEMMA SetCallKeeps ==
  ASSUME CInv, NEW m \in Metatables, NEW f \in Callable \cup {None}, SetCall(m, f)
  PROVE  CInv'
<1>1. /\ metas' = [metas EXCEPT ![m] = [version |-> @.version + 1, call |-> f]]
      /\ served' = None /\ holders' = holders /\ cell' = cell /\ payloads' = payloads
  BY DEF SetCall
<1>2. Worlds /\ CellOK(cell, payloads, SoundEntries)
  BY DEF CInv, EntriesInv
<1>3. PICK v \in Nat : v = metas[m].version
  BY <1>2 DEF Worlds
<1>4. /\ metas'[m] = [version |-> v + 1, call |-> f]
      /\ \A o \in Metatables : o # m => metas'[o] = metas[o]
      /\ metas' \in [Metatables -> [version : Nat, call : Callable \cup {None}]]
  <2>1. metas' = [metas EXCEPT ![m] = [version |-> v + 1, call |-> f]]
    BY <1>1, <1>3
  <2>2. [version |-> v + 1, call |-> f] \in [version : Nat, call : Callable \cup {None}]
    OBVIOUS
  <2> QED
    BY <1>2, <2>1, <2>2 DEF Worlds
<1>5. ASSUME NEW e \in SoundEntries PROVE e \in SoundEntries'
  <2> DEFINE g == HolderOf(e.callee)
  <2>1. e \in Entry /\ Sound(e) /\ e.callee \in Callees /\ g \in Holders
    BY Kinds DEF SoundEntries, Entry
  <2>2. PICK o \in Metatables \cup {None} : o = holders[g].metatable
    BY <1>2, <2>1 DEF Worlds
  <2>3. CASE o # m \/ e.callee \in Callable
    <3>1. Sound(e)'
      BY <1>1, <1>4, <2>1, <2>2, <2>3, StaysSound
    <3> QED
      BY <2>1, <3>1 DEF SoundEntries
  <2>4. CASE o = m /\ e.callee \notin Callable
    <3>1. m # None
      BY Kinds
    <3>2. MetaVersion(g) = v /\ MetaVersion(g)' = v + 1
      BY <1>1, <1>3, <1>4, <2>2, <2>4, <3>1 DEF MetaVersion
    <3>3. e.target # None => /\ e.shape \in Nat \X Nat
                             /\ e.shape[1] <= holders[g].version
                             /\ e.shape[1] = holders[g].version => e.shape[2] <= v
      BY <2>1, <2>4, <3>2 DEF Sound
    <3>4. e.target # None /\ e.shape[1] = holders[g].version
            => e.shape[2] <= v + 1 /\ e.shape[2] # v + 1
      BY <3>3
    <3>5. Sound(e)'
      BY <1>1, <2>4, <3>2, <3>3, <3>4 DEF Sound
    <3> QED
      BY <2>1, <3>5 DEF SoundEntries
  <2> QED
    BY <2>3, <2>4
<1>6. CellOK(cell', payloads', SoundEntries')
  BY <1>1, <1>2, <1>5, CellWidens
<1> QED
  BY <1>1, <1>2, <1>4, <1>6 DEF CInv, EntriesInv, Worlds, TargetRight

\* A cycle leaves no entry of a dead callee, so what comes to its place finds none
\* (scrubWeakEdges).
LEMMA CollectKeeps ==
  ASSUME CInv, NEW dead \in SUBSET (Callable \cup Tables), Collect(dead)
  PROVE  CInv'
<1>1. /\ Scrub(dead) /\ served' = None /\ metas' = metas
      /\ holders' = [h \in Holders |-> IF h \in dead THEN FreshTable ELSE holders[h]]
  BY DEF Collect
<1>2. Worlds /\ CellOK(cell, payloads, SoundEntries)
  BY DEF CInv, EntriesInv
<1>3. Zero \notin dead /\ "number" \notin dead /\ \A c \in dead : c \in Callable \/ c \in Tables
  BY Kinds
<1>4. Blank \in SoundEntries
  BY <1>2, NewIsSound
<1>5. CellOK(cell', payloads', {e \in SoundEntries : e.callee \notin dead})
  BY <1>1, <1>2, <1>3, <1>4, ScrubKeeps
<1>6. ASSUME NEW e \in SoundEntries, e.callee \notin dead PROVE e \in SoundEntries'
  <2> DEFINE g == HolderOf(e.callee)
  <2>1. e \in Entry /\ e.callee \in Callees /\ g \in Holders
    BY Kinds DEF SoundEntries, Entry
  <2>2. g \notin dead
    BY <1>3, <1>6 DEF HolderOf
  <2>3. holders'[g] = holders[g]
    BY <1>1, <2>1, <2>2
  <2>4. Sound(e)'
    BY <1>1, <2>3, StaysSound
  <2> QED
    BY <2>1, <2>4 DEF SoundEntries
<1>7. {e \in SoundEntries : e.callee \notin dead} \subseteq SoundEntries'
  BY <1>6
<1>8. CellOK(cell', payloads', SoundEntries')
  BY <1>5, <1>7, CellWidens
<1>9. Worlds'
  <2>1. FreshTable \in [version : Nat, metatable : Metatables \cup {None}]
    BY DEF FreshTable
  <2> QED
    BY <1>1, <1>2, <2>1 DEF Worlds
<1> QED
  BY <1>1, <1>8, <1>9 DEF CInv, EntriesInv, TargetRight

\* Whatever changes, the metatables stay metatables and the cell in order, even if
\* a metamethod is replaced behind the versions (emitGenericStringKeySetFlow).
LEMMA ChangeKeepsBase ==
  ASSUME BaseInv,
         Change \/ \E m \in Metatables, f \in Callable : ReplaceCallNatively(m, f)
  PROVE  BaseInv'
<1>1. Worlds /\ CellOK(cell, payloads, Entry)
  BY DEF BaseInv
<1> DEFINE Same == cell' = cell /\ payloads' = payloads
<1>2. ASSUME Worlds', Same PROVE BaseInv'
  BY <1>1, <1>2 DEF BaseInv, CellOK, HasSidecar, Entry
<1>3. ASSUME NEW h \in Holders, NEW m \in Metatables \cup {None}, SetMetatable(h, m)
      PROVE  BaseInv'
  <2>1. /\ holders' = [holders EXCEPT ![h] = [version |-> @.version + 1, metatable |-> m]]
        /\ metas' = metas /\ Same
    BY <1>3 DEF SetMetatable
  <2>2. PICK v \in Nat : v = holders[h].version
    BY <1>1 DEF Worlds
  <2>3. holders' = [holders EXCEPT ![h] = [version |-> v + 1, metatable |-> m]]
    BY <2>1, <2>2
  <2>4. [version |-> v + 1, metatable |-> m] \in [version : Nat, metatable : Metatables \cup {None}]
    OBVIOUS
  <2>5. Worlds'
    BY <1>1, <2>1, <2>3, <2>4 DEF Worlds
  <2> QED
    BY <1>2, <2>1, <2>5
<1>4. ASSUME NEW m \in Metatables, NEW f \in Callable \cup {None}, SetCall(m, f)
      PROVE  BaseInv'
  <2>1. /\ metas' = [metas EXCEPT ![m] = [version |-> @.version + 1, call |-> f]]
        /\ holders' = holders /\ Same
    BY <1>4 DEF SetCall
  <2>2. PICK v \in Nat : v = metas[m].version
    BY <1>1 DEF Worlds
  <2>3. metas' = [metas EXCEPT ![m] = [version |-> v + 1, call |-> f]]
    BY <2>1, <2>2
  <2>4. [version |-> v + 1, call |-> f] \in [version : Nat, call : Callable \cup {None}]
    OBVIOUS
  <2>5. Worlds'
    BY <1>1, <2>1, <2>3, <2>4 DEF Worlds
  <2> QED
    BY <1>2, <2>1, <2>5
<1>5. ASSUME NEW m \in Metatables, NEW f \in Callable, ReplaceCallNatively(m, f)
      PROVE  BaseInv'
  <2>1. metas' = [metas EXCEPT ![m].call = f] /\ holders' = holders /\ Same
    BY <1>5 DEF ReplaceCallNatively
  <2>2. metas' \in [Metatables -> [version : Nat, call : Callable \cup {None}]]
    <3>1. metas[m] \in [version : Nat, call : Callable \cup {None}]
      BY <1>1 DEF Worlds
    <3>2. [metas[m] EXCEPT !.call = f] \in [version : Nat, call : Callable \cup {None}]
      BY <3>1
    <3>3. metas' = [metas EXCEPT ![m] = [metas[m] EXCEPT !.call = f]]
      BY <2>1
    <3> QED
      BY <1>1, <3>2, <3>3 DEF Worlds
  <2>3. Worlds'
    BY <1>1, <2>1, <2>2 DEF Worlds
  <2> QED
    BY <1>2, <2>1, <2>3
<1>6. ASSUME NEW dead \in SUBSET (Callable \cup Tables), Collect(dead)
      PROVE  BaseInv'
  <2>1. /\ Scrub(dead) /\ metas' = metas
        /\ holders' = [h \in Holders |-> IF h \in dead THEN FreshTable ELSE holders[h]]
    BY <1>6 DEF Collect
  <2>2. Zero \notin dead /\ Blank \in Entry
    BY Kinds DEF Blank, Entry
  <2>3. CellOK(cell', payloads', {e \in Entry : e.callee \notin dead})
    BY <1>1, <2>1, <2>2, ScrubKeeps
  <2>4. CellOK(cell', payloads', Entry)
    BY <2>3, CellWidens
  <2>5. FreshTable \in [version : Nat, metatable : Metatables \cup {None}]
    BY DEF FreshTable
  <2>6. Worlds'
    BY <1>1, <2>1, <2>5 DEF Worlds
  <2> QED
    BY <2>4, <2>6 DEF BaseInv, CellOK, HasSidecar, Entry
<1> QED
  BY <1>3, <1>4, <1>5, <1>6 DEF Change

-----------------------------------------------------------------------------
(* The theorems                                                            *)

\* A call site begins with an empty cell, and tables without metatables
\* (NewRegistry).
LEMMA CInvInit == Init => BaseInv /\ CInv /\ SelfRight
<1> SUFFICES ASSUME Init PROVE BaseInv /\ CInv /\ SelfRight
  OBVIOUS
<1>1. Worlds
  BY DEF Init, Worlds, FreshTable
<1>2. /\ cell = Generic /\ payloads = <<>> /\ served = None
      /\ Blank \in SoundEntries /\ SoundEntries \subseteq Entry
  BY <1>1, NewIsSound DEF Init, SoundEntries
<1>3. DOMAIN payloads = {}
  BY <1>2
<1>4. CellOK(cell, payloads, SoundEntries)
  BY <1>2, <1>3 DEF CellOK, Generic, HasSidecar, States
<1>5. CellOK(cell, payloads, Entry)
  BY <1>2, <1>4, CellWidens
<1> QED
  BY <1>1, <1>2, <1>4, <1>5 DEF CInv, BaseInv, EntriesInv, TargetRight, SelfRight

\* Every step of the code keeps the cell in order.
LEMMA BaseInvStep == BaseInv /\ [Next]_vars => BaseInv'
<1> SUFFICES ASSUME BaseInv, [Next]_vars PROVE BaseInv'
  OBVIOUS
<1>1. ASSUME NEW c \in Callees, Call(c) PROVE BaseInv'
  <2>1. Worlds /\ CellOK(cell, payloads, Entry)
    BY DEF BaseInv
  <2>2. Blank \in Entry /\ Candidate(c) \in Entry
    BY <2>1, NewIsSound DEF SoundEntries
  <2>3. CellOK(cell', payloads', Entry)
    BY <1>1, <2>1, <2>2, CallKeepsCell
  <2>4. Worlds'
    BY <1>1, <2>1, CallKeepsWorld, SameWorld
  <2> QED
    BY <2>3, <2>4 DEF BaseInv, CellOK, HasSidecar, Entry
<1>2. CASE Change \/ \E m \in Metatables, f \in Callable : ReplaceCallNatively(m, f)
  BY <1>2, ChangeKeepsBase
<1>3. CASE UNCHANGED vars
  BY <1>3 DEF vars, BaseInv, Worlds, CellOK, HasSidecar
<1> QED
  BY <1>1, <1>2, <1>3 DEF Next

\* Every step that changes no metamethod behind the versions keeps the entries
\* of the cell sound.
LEMMA CInvStep == CInv /\ [VersionedNext]_vars => CInv'
<1> SUFFICES ASSUME CInv, [VersionedNext]_vars PROVE CInv'
  OBVIOUS
<1>1. ASSUME NEW c \in Callees, Call(c) PROVE CInv'
  <2>1. Worlds /\ CellOK(cell, payloads, SoundEntries)
    BY DEF CInv, EntriesInv
  <2>2. Blank \in SoundEntries /\ Candidate(c) \in SoundEntries
    BY <2>1, NewIsSound
  <2>3. CellOK(cell', payloads', SoundEntries)
    BY <1>1, <2>1, <2>2, CallKeepsCell
  <2>4. Worlds' /\ SoundEntries' = SoundEntries
    BY <1>1, <2>1, CallKeepsWorld, SameWorld
  <2>5. TargetRight'
    BY <1>1, CallServes
  <2> QED
    BY <2>3, <2>4, <2>5 DEF CInv, EntriesInv
<1>2. ASSUME Change PROVE CInv'
  BY <1>2, SetMetatableKeeps, SetCallKeeps, CollectKeeps DEF Change
<1>3. CASE UNCHANGED vars
  <2>1. UNCHANGED world /\ cell' = cell /\ payloads' = payloads /\ served' = served
    BY <1>3 DEF vars, world
  <2>2. holders' = holders /\ metas' = metas
    BY <2>1 DEF world
  <2>3. SoundEntries' = SoundEntries /\ Worlds'
    BY <2>1, SameWorld DEF CInv
  <2>4. TargetRight'
    BY <2>1, <2>2 DEF CInv, EntriesInv, TargetRight, Resolve
  <2>5. CellOK(cell', payloads', SoundEntries')
    BY <2>1, <2>3 DEF CInv, EntriesInv
  <2> QED
    BY <2>3, <2>4, <2>5 DEF CInv, EntriesInv
<1> QED
  BY <1>1, <1>2, <1>3 DEF VersionedNext

\* The entries of the cell are sound in every reachable state.
LEMMA CInvHolds == VersionedSpec => []CInv
  BY CInvInit, CInvStep, PTL DEF VersionedSpec

\* Whoever serves a call runs the function the callee resolves to at that moment,
\* the stub too, as long as native code replaces no metamethod in place: what
\* handleCallStub loses is the callee alone, never the function.
THEOREM CachedTargetsAreRight == VersionedSpec => []TargetRight
<1>1. CInv => TargetRight
  BY DEF CInv, EntriesInv
<1> QED
  BY <1>1, CInvHolds, PTL

\* Whoever serves a call, the interpreter, native code or the stub, runs what the
\* callee resolves to at that moment and passes the callee exactly when it should:
\* for any callees, metatables, changes and collections in between, as long as
\* the stub finds no resolved entry in a payload and native code replaces no
\* metamethod in place (handleCallStub, emitGenericStringKeySetFlow).
THEOREM CachedCallsAreRight == ClearSpec => []ServedRight
<1>1. CInv /\ SelfRight => ServedRight
  BY DEF CInv, EntriesInv, TargetRight, SelfRight, ServedRight
<1>2. [ClearNext]_vars => [VersionedNext]_vars
  BY DEF ClearNext, VersionedNext, Call
<1>3. CInv /\ SelfRight /\ [ClearNext]_vars => SelfRight'
  <2> SUFFICES ASSUME CInv, SelfRight, [ClearNext]_vars PROVE SelfRight'
    OBVIOUS
  <2>1. ASSUME NEW c \in Callees,
               Interpret(c) \/ CallNatively(c) \/ (CallThroughStub(c) /\ ~LosesSelf(c))
        PROVE  SelfRight'
    BY <2>1, CallServes DEF Call
  <2>2. CASE Change
    BY <2>2 DEF Change, SetMetatable, SetCall, Collect, SelfRight
  <2>3. CASE UNCHANGED vars
    BY <2>3 DEF vars, SelfRight
  <2> QED
    BY <2>1, <2>2, <2>3 DEF ClearNext
<1>4. Init => SelfRight
  BY CInvInit
<1>5. ClearSpec => []CInv
  BY <1>2, CInvHolds, PTL DEF ClearSpec, VersionedSpec
<1> QED
  BY <1>1, <1>3, <1>4, <1>5, PTL DEF ClearSpec

\* The payloads that are allocated are those the cell names, with as many entries
\* as its state says and no callee twice (WriteFeedbackCell, ScrubDeadFeedbackCells,
\* NextCallTransition).
THEOREM SidecarsAreExact == Spec => []SidecarsExact
<1>1. ASSUME BaseInv PROVE SidecarsExact
  <2>1. CellOK(cell, payloads, Entry)
    BY <1>1 DEF BaseInv
  <2>2. DOMAIN payloads = {cell.sidecar} \ {0}
    BY <2>1 DEF CellOK
  <2>3. ASSUME HasSidecar(cell)
        PROVE  LET es == payloads[cell.sidecar]
               IN /\ IF cell.state = "polymorphic" THEN Len(es) = 2
                     ELSE Len(es) \in 1 .. MegamorphicEntries
                  /\ \A i, j \in DOMAIN es : es[i].callee = es[j].callee => i = j
    <3> DEFINE es == payloads[cell.sidecar]
    <3>1. es \in Seq(Entry) /\ Distinct(es) /\ LengthFits(cell.state, es)
      BY <2>1, <2>3 DEF CellOK
    <3>2. DOMAIN es = 1 .. Len(es)
      BY <3>1
    <3> HIDE DEF es
    <3>3. \A i, j \in DOMAIN es : es[i].callee = es[j].callee => i = j
      BY <3>1, <3>2 DEF Distinct
    <3>4. IF cell.state = "polymorphic" THEN Len(es) = 2 ELSE Len(es) \in 1 .. MegamorphicEntries
      BY <3>1 DEF LengthFits
    <3> QED
      BY <3>3, <3>4 DEF es
  <2> QED
    BY <2>2, <2>3 DEF SidecarsExact
<1> QED
  BY <1>1, CInvInit, BaseInvStep, PTL DEF Spec
=============================================================================
