----------------------------- MODULE HeapProofs -----------------------------
(***************************************************************************)
(* The span allocator never hands out memory twice, for every page size,   *)
(* arena and sequence of requests.  The argument is the frontier: all      *)
(* spans end at or before the bump pointer of the newest page, and a new   *)
(* page starts at or after it.                                             *)
(***************************************************************************)
EXTENDS Heap, WellFoundedInduction, FiniteSetTheorems, TLAPS

(***************************************************************************)
(* Induction over the natural numbers, for sets; sums over finite sets.    *)
(***************************************************************************)
\* A set with 0 that has the successor of each of its numbers has them all.
LEMMA NatSetInduction ==
  ASSUME NEW S, 0 \in S, \A n \in Nat : n \in S => n + 1 \in S
  PROVE  \A n \in Nat : n \in S
<1> DEFINE T == Nat \ S
<1> SUFFICES ASSUME T # {} PROVE FALSE
  OBVIOUS
<1>1. IsWellFoundedOn(OpToRel(<, Nat), Nat)
  BY NatLessThanWellFounded
<1>2. PICK x \in T : \A y \in T : ~(<<y, x>> \in OpToRel(<, Nat))
  <2>1. T \subseteq Nat
    OBVIOUS
  <2> HIDE DEF T
  <2> QED
    BY <1>1, <2>1, WFMin
<1>3. x # 0 /\ x - 1 \in Nat /\ x - 1 < x
  OBVIOUS
<1>4. x - 1 \notin T
  <2>1. x - 1 \in T => <<x - 1, x>> \in OpToRel(<, Nat)
    BY <1>3 DEF OpToRel
  <2> QED
    BY <1>2, <2>1
<1>5. (x - 1) + 1 = x
  OBVIOUS
<1> QED
  BY <1>3, <1>4, <1>5

Pick(s) == CHOOSE x \in s : TRUE
Term(f, g, s) == IF s = {} THEN 0 ELSE f[Pick(s)] + g[s \ {Pick(s)}]
Partial(f, S) == CHOOSE g : g = [s \in SUBSET S |-> Term(f, g, s)]
Sum(f, S) == SumFunctionOnSet(f, S)

Small(S, n) == {s \in SUBSET S : Cardinality(s) <= n}

\* A sum adds its terms one after the other.
LEMMA SumIsPartial ==
  ASSUME NEW f, NEW S
  PROVE  Sum(f, S) = Partial(f, S)[S]
BY DEF Sum, SumFunctionOnSet, FoldFunctionOnSet, MapThenFoldSet, Partial, Term, Pick

\* Without one of its elements a set is smaller.
LEMMA Smaller ==
  ASSUME NEW S, IsFiniteSet(S), NEW s \in SUBSET S, s # {}
  PROVE  /\ Pick(s) \in s /\ IsFiniteSet(s)
         /\ \A x \in s : /\ s \ {x} \in SUBSET S /\ IsFiniteSet(s \ {x})
                         /\ Cardinality(s) \in Nat
                         /\ Cardinality(s \ {x}) = Cardinality(s) - 1
                         /\ Cardinality(s \ {x}) \in Nat
<1>1. Pick(s) \in s
  BY DEF Pick
<1>2. IsFiniteSet(s) /\ Cardinality(s) \in Nat
  BY FS_Subset, FS_CardinalityType
<1>3. ASSUME NEW x \in s
      PROVE  IsFiniteSet(s \ {x}) /\ Cardinality(s \ {x}) = Cardinality(s) - 1
  BY <1>2, FS_RemoveElement
<1>4. \A x \in s : Cardinality(s \ {x}) \in Nat
  BY <1>3, FS_CardinalityType
<1> QED
  BY <1>1, <1>2, <1>3, <1>4

\* Without one of its elements a part of n + 1 elements at most has n at most.
LEMMA SmallerIsSmall ==
  ASSUME NEW S, IsFiniteSet(S), NEW n \in Nat, NEW s \in SUBSET S, s # {},
         Cardinality(s) <= n + 1
  PROVE  Pick(s) \in s /\ \A x \in s : s \ {x} \in Small(S, n)
<1>1. Pick(s) \in s
  BY Smaller
<1>2. ASSUME NEW x \in s PROVE s \ {x} \in Small(S, n)
  <2>1. /\ s \ {x} \in SUBSET S /\ Cardinality(s) \in Nat
        /\ Cardinality(s \ {x}) = Cardinality(s) - 1
    BY Smaller
  <2>2. Cardinality(s \ {x}) <= n
    BY <2>1
  <2> QED
    BY <2>1, <2>2 DEF Small
<1> QED
  BY <1>1, <1>2

\* The partial sums of a finite set exist.
LEMMA PartialExists ==
  ASSUME NEW f, NEW S, IsFiniteSet(S)
  PROVE  \A s \in SUBSET S : Partial(f, S)[s] = Term(f, Partial(f, S), s)
<1> DEFINE N == {n \in Nat : \E g : g = [s \in Small(S, n) |-> Term(f, g, s)]}
<1>1. 0 \in N
  <2> DEFINE g == [s \in Small(S, 0) |-> 0]
  <2>1. \A s \in Small(S, 0) : s = {}
    BY FS_Subset, FS_CardinalityType, FS_EmptySet DEF Small
  <2>2. g = [s \in Small(S, 0) |-> Term(f, g, s)]
    BY <2>1 DEF Term
  <2> QED
    BY <2>2
<1>2. ASSUME NEW n \in Nat, n \in N PROVE n + 1 \in N
  <2>1. PICK g : g = [s \in Small(S, n) |-> Term(f, g, s)]
    BY <1>2
  <2> DEFINE h == [s \in Small(S, n + 1) |-> Term(f, g, s)]
  <2>2. Small(S, n) \subseteq Small(S, n + 1)
    BY FS_Subset, FS_CardinalityType DEF Small
  <2>3. \A s \in Small(S, n) : h[s] = g[s]
    BY <2>1, <2>2
  <2>4. ASSUME NEW s \in Small(S, n + 1), s # {} PROVE s \ {Pick(s)} \in Small(S, n)
    <3>1. s \in SUBSET S /\ Cardinality(s) <= n + 1
      BY DEF Small
    <3> QED
      BY <2>4, <3>1, SmallerIsSmall
  <2>5. ASSUME NEW s \in Small(S, n + 1) PROVE Term(f, h, s) = Term(f, g, s)
    <3>1. CASE s = {}
      BY <3>1 DEF Term
    <3>2. CASE s # {}
      <4>1. h[s \ {Pick(s)}] = g[s \ {Pick(s)}]
        BY <2>3, <2>4, <3>2
      <4> QED
        BY <3>2, <4>1 DEF Term
    <3> QED
      BY <3>1, <3>2
  <2>6. h = [s \in Small(S, n + 1) |-> Term(f, h, s)]
    BY <2>5
  <2> HIDE DEF h
  <2> QED
    BY <2>6
<1>3. Cardinality(S) \in N
  <2>1. Cardinality(S) \in Nat
    BY FS_CardinalityType
  <2> HIDE DEF N
  <2>2. \A n \in Nat : n \in N
    BY <1>1, <1>2, NatSetInduction
  <2> QED
    BY <2>1, <2>2
<1>4. Small(S, Cardinality(S)) = SUBSET S
  BY FS_Subset DEF Small
<1>5. \E g : g = [s \in SUBSET S |-> Term(f, g, s)]
  BY <1>3, <1>4
<1>6. Partial(f, S) = [s \in SUBSET S |-> Term(f, Partial(f, S), s)]
  BY <1>5 DEF Partial
<1> QED
  BY <1>6

\* A part of a finite set has one sum.
LEMMA PartialAgrees ==
  ASSUME NEW f, NEW S, IsFiniteSet(S), NEW T \in SUBSET S
  PROVE  Partial(f, S)[T] = Sum(f, T)
<1> DEFINE a == Partial(f, S)
           b == Partial(f, T)
           N == {n \in Nat : \A s \in Small(T, n) : a[s] = b[s]}
<1>1. IsFiniteSet(T) /\ Cardinality(T) \in Nat
  BY FS_Subset, FS_CardinalityType
<1>2. /\ \A s \in SUBSET S : a[s] = Term(f, a, s)
      /\ \A s \in SUBSET T : b[s] = Term(f, b, s)
  BY <1>1, PartialExists
<1> HIDE DEF a, b
<1>3. 0 \in N
  <2>1. \A s \in Small(T, 0) : s = {}
    BY <1>1, FS_Subset, FS_CardinalityType, FS_EmptySet DEF Small
  <2> QED
    BY <1>2, <2>1 DEF Term
<1>4. ASSUME NEW n \in Nat, n \in N PROVE n + 1 \in N
  <2> SUFFICES ASSUME NEW s \in Small(T, n + 1) PROVE a[s] = b[s]
    OBVIOUS
  <2>1. s \in SUBSET T /\ s \in SUBSET S /\ Cardinality(s) <= n + 1
    BY DEF Small
  <2>2. CASE s = {}
    BY <1>2, <2>1, <2>2 DEF Term
  <2>3. CASE s # {}
    <3>1. s \ {Pick(s)} \in Small(T, n)
      BY <1>1, <2>1, <2>3, SmallerIsSmall
    <3>2. a[s \ {Pick(s)}] = b[s \ {Pick(s)}]
      BY <1>4, <3>1
    <3> QED
      BY <1>2, <2>1, <2>3, <3>2 DEF Term
  <2> QED
    BY <2>2, <2>3
<1>5. Cardinality(T) \in N
  <2> HIDE DEF N
  <2>1. \A n \in Nat : n \in N
    BY <1>3, <1>4, NatSetInduction
  <2> QED
    BY <1>1, <2>1
<1>6. T \in Small(T, Cardinality(T))
  BY <1>1 DEF Small
<1>7. a[T] = b[T]
  BY <1>5, <1>6
<1> QED
  BY <1>7, SumIsPartial DEF a, b

\* The empty sum, and a sum with a first term.
LEMMA SumFirst ==
  ASSUME NEW f, NEW S, IsFiniteSet(S)
  PROVE  Sum(f, S) = IF S = {} THEN 0 ELSE f[Pick(S)] + Sum(f, S \ {Pick(S)})
<1>1. Partial(f, S)[S] = Term(f, Partial(f, S), S)
  BY PartialExists
<1>2. Partial(f, S)[S \ {Pick(S)}] = Sum(f, S \ {Pick(S)})
  BY PartialAgrees
<1> QED
  BY <1>1, <1>2, SumIsPartial DEF Term

\* A sum of natural numbers is one, and any of its terms may be taken out of it.
LEMMA SumTakesOut ==
  ASSUME NEW f, NEW S, IsFiniteSet(S), \A x \in S : f[x] \in Nat
  PROVE  /\ Sum(f, S) \in Nat
         /\ \A x \in S : Sum(f, S) = f[x] + Sum(f, S \ {x})
<1> DEFINE Good(s) == /\ Sum(f, s) \in Nat
                      /\ \A x \in s : Sum(f, s) = f[x] + Sum(f, s \ {x})
           N == {n \in Nat : \A s \in Small(S, n) : Good(s)}
<1>1. 0 \in N
  <2>1. \A s \in Small(S, 0) : s = {} /\ IsFiniteSet(s)
    BY FS_Subset, FS_CardinalityType, FS_EmptySet DEF Small
  <2>2. \A s \in Small(S, 0) : Sum(f, s) = 0
    BY <2>1, SumFirst
  <2> QED
    BY <2>1, <2>2
<1>2. ASSUME NEW n \in Nat, n \in N PROVE n + 1 \in N
  <2>0. \A s : s = {} => Good(s)
    <3>1. Sum(f, {}) = 0
      BY FS_EmptySet, SumFirst
    <3> QED
      BY <3>1
  <2> SUFFICES ASSUME NEW s \in Small(S, n + 1) PROVE Good(s)
    <3> HIDE DEF Good
    <3> QED
      OBVIOUS
  <2> SUFFICES ASSUME s # {} PROVE Good(s)
    <3> HIDE DEF Good
    <3> QED
      BY <2>0
  <2> DEFINE p == Pick(s)
  <2>1. s \in SUBSET S /\ Cardinality(s) <= n + 1
    BY DEF Small
  <2>2. /\ p \in s /\ IsFiniteSet(s)
        /\ \A x \in s : s \ {x} \in Small(S, n)
    BY <2>1, SmallerIsSmall, FS_Subset
  <2>3. Sum(f, s) = f[p] + Sum(f, s \ {p})
    BY <2>2, SumFirst
  <2> HIDE DEF p
  <2>4. \A x \in s : Good(s \ {x})
    BY <1>2, <2>2
  <2>5. \A x \in s : f[x] \in Nat
    BY <2>1
  <2>6. ASSUME NEW x \in s PROVE Sum(f, s) = f[x] + Sum(f, s \ {x})
    <3>1. CASE x = p
      BY <2>3, <3>1
    <3>2. CASE x # p
      <4>1. x \in s \ {p} /\ p \in s \ {x} /\ (s \ {p}) \ {x} = (s \ {x}) \ {p}
        BY <2>2, <3>2
      <4>2. PICK m : m = Sum(f, (s \ {p}) \ {x})
        OBVIOUS
      <4>3. Sum(f, s \ {p}) = f[x] + m /\ Sum(f, s \ {x}) = f[p] + m
        BY <2>2, <2>4, <4>1, <4>2
      <4>4. m \in Nat
        <5>1. (s \ {p}) \ {x} \in Small(S, n)
          <6>1. s \ {p} \in SUBSET S /\ s \ {p} # {} /\ Cardinality(s \ {p}) <= n
            BY <2>2, <4>1 DEF Small
          <6>2. PICK t \in SUBSET S : t = s \ {p}
            BY <6>1
          <6>3. /\ t \ {x} \in SUBSET S /\ Cardinality(t) \in Nat
                /\ Cardinality(t \ {x}) = Cardinality(t) - 1
            BY <4>1, <6>1, <6>2, Smaller
          <6>4. Cardinality(t \ {x}) <= n
            BY <6>1, <6>2, <6>3
          <6> QED
            BY <6>2, <6>3, <6>4 DEF Small
        <5> QED
          BY <1>2, <4>2, <5>1
      <4> QED
        BY <2>2, <2>3, <2>5, <4>3, <4>4
    <3> QED
      BY <3>1, <3>2
  <2>7. Sum(f, s) \in Nat
    BY <2>2, <2>3, <2>4, <2>5
  <2> QED
    BY <2>6, <2>7
<1>3. Cardinality(S) \in N
  <2>1. Cardinality(S) \in Nat
    BY FS_CardinalityType
  <2> HIDE DEF N
  <2>2. \A n \in Nat : n \in N
    BY <1>1, <1>2, NatSetInduction
  <2> QED
    BY <2>1, <2>2
<1>4. S \in Small(S, Cardinality(S))
  BY FS_CardinalityType DEF Small
<1> QED
  BY <1>3, <1>4

\* A sum depends on its terms only.
LEMMA SumSame ==
  ASSUME NEW f, NEW g, NEW S, IsFiniteSet(S), \A x \in S : f[x] = g[x]
  PROVE  Sum(f, S) = Sum(g, S)
<1> DEFINE N == {n \in Nat : \A s \in Small(S, n) : Sum(f, s) = Sum(g, s)}
<1>1. 0 \in N
  <2>1. \A s \in Small(S, 0) : s = {} /\ IsFiniteSet(s)
    BY FS_Subset, FS_CardinalityType, FS_EmptySet DEF Small
  <2>2. \A s \in Small(S, 0) : Sum(f, s) = 0 /\ Sum(g, s) = 0
    BY <2>1, SumFirst
  <2> QED
    BY <2>2
<1>2. ASSUME NEW n \in Nat, n \in N PROVE n + 1 \in N
  <2> SUFFICES ASSUME NEW s \in Small(S, n + 1) PROVE Sum(f, s) = Sum(g, s)
    OBVIOUS
  <2>1. s \in SUBSET S /\ IsFiniteSet(s) /\ Cardinality(s) <= n + 1
    BY FS_Subset DEF Small
  <2>2. CASE s = {}
    BY <2>1, <2>2, SumFirst
  <2>3. CASE s # {}
    <3>1. Pick(s) \in s /\ s \ {Pick(s)} \in Small(S, n)
      BY <2>1, <2>3, SmallerIsSmall
    <3>2. Sum(f, s \ {Pick(s)}) = Sum(g, s \ {Pick(s)})
      BY <1>2, <3>1
    <3>3. f[Pick(s)] = g[Pick(s)]
      BY <2>1, <3>1
    <3> QED
      BY <2>1, <2>3, <3>2, <3>3, SumFirst
  <2> QED
    BY <2>2, <2>3
<1>3. Cardinality(S) \in N
  <2>1. Cardinality(S) \in Nat
    BY FS_CardinalityType
  <2> HIDE DEF N
  <2>2. \A n \in Nat : n \in N
    BY <1>1, <1>2, NatSetInduction
  <2> QED
    BY <2>1, <2>2
<1>4. S \in Small(S, Cardinality(S))
  BY FS_CardinalityType DEF Small
<1> QED
  BY <1>3, <1>4


USE HeapAssumption DEF ObjectAlignment, CommonHeaderSize, Offsets

Frontier == IF pages = <<>> THEN 0 ELSE pages[Len(pages)].start + pages[Len(pages)].used

Layout ==
  /\ nextPage >= ObjectAlignment
  /\ pages # <<>> => LET last == pages[Len(pages)]
                     IN  /\ last.start > 0
                         /\ last.used <= last.size
                         /\ last.start + last.size <= nextPage
  /\ \A off \in Offsets : spans[off].size > 0 /\ End(off) <= Frontier

HInv == TypeOK /\ Layout /\ SpansDisjoint /\ SpansResolvable /\ OrderEnumeratesSpans

\* Aligning rounds up to a multiple of the alignment (alignUp).
LEMMA AlignUpBounds ==
  ASSUME NEW n \in Nat
  PROVE  AlignUp(n) \in Nat /\ n <= AlignUp(n)
  BY DEF AlignUp

\* The last page is the one allocations carve from (currentPage).
LEMMA LastPage ==
  ASSUME TypeOK, pages # <<>>
  PROVE  Len(pages) \in 1..Len(pages) /\ pages[Len(pages)] \in Page
  BY DEF TypeOK

\* The page a request is carved from has room for it and lies at or after the
\* frontier.
LEMMA PageHasRoom ==
  ASSUME TypeOK, Layout, NEW need \in Nat, need > 0
  PROVE  LET opened == PagesFor(need)
             last == opened[Len(opened)]
         IN  /\ opened \in Seq(Page) /\ opened # <<>>
             /\ last.used + need <= last.size
             /\ Frontier <= last.start + last.used
             /\ last.start + last.used > 0
             /\ Len(opened) = Len(pages) => opened = pages /\ last.start + last.size <= nextPage
             /\ Len(opened) # Len(pages) => opened = Append(pages, NewPage(need))
                                            /\ nextPage <= last.start
<1>1. CASE HasCurrentPage(need)
  <2>1. pages # <<>> /\ PagesFor(need) = pages /\ pages[Len(pages)] \in Page
    BY <1>1, LastPage DEF PagesFor, HasCurrentPage
  <2>2. pages[Len(pages)].used + need <= pages[Len(pages)].size
    BY <1>1, <2>1 DEF HasCurrentPage, Remaining, Page
  <2>3. /\ pages \in Seq(Page) /\ pages[Len(pages)].start > 0
        /\ pages[Len(pages)].start + pages[Len(pages)].size <= nextPage
    BY <2>1 DEF TypeOK, Layout
  <2>4. Frontier = pages[Len(pages)].start + pages[Len(pages)].used
        /\ Frontier \in Nat /\ Frontier > 0
    BY <2>1, <2>3 DEF Frontier, Page
  <2> HIDE DEF Frontier
  <2> QED
    BY <2>1, <2>2, <2>3, <2>4
<1>2. CASE ~HasCurrentPage(need)
  <2>1. NewPage(need) \in Page /\ NewPage(need).used = 0 /\ nextPage <= NewPage(need).start
        /\ need <= NewPage(need).size
    BY AlignUpBounds DEF NewPage, Page, TypeOK
  <2>2. PagesFor(need) = Append(pages, NewPage(need))
    BY <1>2 DEF PagesFor
  <2>3. /\ PagesFor(need) \in Seq(Page) /\ Len(PagesFor(need)) = Len(pages) + 1
        /\ PagesFor(need)[Len(PagesFor(need))] = NewPage(need) /\ Len(pages) \in Nat
    BY <2>1, <2>2 DEF TypeOK
  <2>4. Frontier <= nextPage /\ Frontier \in Nat
    <3>1. CASE pages = <<>>
      BY <3>1 DEF Frontier, TypeOK
    <3>2. CASE pages # <<>>
      BY <3>2, LastPage, SMTT(30) DEF Frontier, Layout, TypeOK, Page
    <3> QED
      BY <3>1, <3>2
  <2>5. NewPage(need).start > 0 /\ Frontier <= NewPage(need).start + 0
    BY <2>1, <2>4 DEF TypeOK, Layout, Page
  <2>6. PagesFor(need) # <<>>
    BY <2>3
  <2>7. NewPage(need).start \in Nat /\ NewPage(need).size \in Nat
    BY <2>1 DEF Page
  <2>8. Frontier \in Nat
    BY <2>4
  <2> HIDE DEF Frontier
  <2> QED
    BY <2>1, <2>2, <2>3, <2>5, <2>6, <2>7, <2>8
<1> QED
  BY <1>1, <1>2

-----------------------------------------------------------------------------
(* Steps that only change the state or the owner of spans                  *)

\* The layout depends on the spans' offsets and sizes only, so an operation
\* that keeps both keeps it.
LEMMA SameGeometry ==
  ASSUME HInv, spans' \in [Offsets -> Span], liveBytes' \in Nat,
         \A off \in Offsets : spans'[off].size = spans[off].size,
         UNCHANGED <<spanOrder, pages, nextPage>>
  PROVE  HInv'
<1>1. DOMAIN spans' = Offsets
  OBVIOUS
<1>2. TypeOK'
  BY <1>1 DEF HInv, TypeOK
<1>3. \A off \in Offsets : End(off)' = End(off)
  BY DEF End
<1>4. Layout'
  BY <1>1, <1>3 DEF HInv, Layout, Frontier
<1>5. SpansDisjoint'
  BY <1>1, <1>3 DEF HInv, SpansDisjoint
<1>6. SpansResolvable'
  BY <1>1, <1>3 DEF HInv, SpansResolvable
<1>7. OrderEnumeratesSpans'
  BY <1>1 DEF HInv, OrderEnumeratesSpans
<1> QED
  BY <1>2, <1>4, <1>5, <1>6, <1>7 DEF HInv

\* Handing out a free span again preserves the invariant (reuseFreeSpan).
LEMMA ReuseFreeSpanStep ==
  ASSUME HInv, NEW need \in Nat, NEW k \in {"object", "payload"}, NEW owner \in Nat,
         ReuseFreeSpan(need, k, owner)
  PROVE  HInv'
<1>1. PICK off \in Offsets :
        /\ spans' = [spans EXCEPT ![off] = LiveSpan(spans[off].size, k, owner)]
        /\ liveBytes' = liveBytes + spans[off].size
        /\ UNCHANGED <<spanOrder, pages, nextPage>>
  BY DEF ReuseFreeSpan, BestFits, Fits
<1>2. \A o \in Offsets : spans[o] \in Span
  BY DEF HInv, TypeOK
<1>3. LiveSpan(spans[off].size, k, owner) \in Span
  BY <1>2 DEF LiveSpan, Span
<1>4. spans' \in [Offsets -> Span]
  BY <1>1, <1>3 DEF HInv, TypeOK
<1>5. \A o \in Offsets : spans'[o].size = spans[o].size
  BY <1>1 DEF LiveSpan, HInv, TypeOK
<1>6. liveBytes' \in Nat
  BY <1>1, <1>2 DEF HInv, TypeOK, Span
<1> QED
  BY <1>1, <1>4, <1>5, <1>6, SameGeometry

\* Changing an owner preserves the invariant (SetSpanOwner).
LEMMA SetSpanOwnerStep == HInv /\ SetSpanOwner => HInv'
<1> SUFFICES ASSUME HInv, SetSpanOwner PROVE HInv'
  OBVIOUS
<1>1. PICK off \in Offsets, owner \in Offsets \cup {0} :
        /\ spans' = [spans EXCEPT ![off].owner = owner]
        /\ UNCHANGED <<spanOrder, pages, nextPage, liveBytes>>
  BY DEF SetSpanOwner
<1>2. owner \in Nat
  BY DEF HInv, TypeOK
<1>3. spans' \in [Offsets -> Span] /\ \A o \in Offsets : spans'[o].size = spans[o].size
  BY <1>1, <1>2 DEF HInv, TypeOK, Span
<1> QED
  BY <1>1, <1>3, SameGeometry DEF HInv, TypeOK

\* Freeing a span preserves the invariant (FreeSpan).
LEMMA FreeSpanStep == HInv /\ FreeSpan => HInv'
<1> SUFFICES ASSUME HInv, FreeSpan PROVE HInv'
  OBVIOUS
<1>1. PICK off \in Offsets :
        /\ spans' = [spans EXCEPT ![off].state = "free", ![off].owner = 0]
        /\ liveBytes' = IF spans[off].size >= liveBytes THEN 0 ELSE liveBytes - spans[off].size
        /\ UNCHANGED <<spanOrder, pages, nextPage>>
  BY DEF FreeSpan
<1>2. spans' \in [Offsets -> Span] /\ \A o \in Offsets : spans'[o].size = spans[o].size
  <2>1. spans \in [Offsets -> Span]
    BY DEF HInv, TypeOK
  <2>2. [spans[off] EXCEPT !.state = "free", !.owner = 0] \in Span
        /\ [spans[off] EXCEPT !.state = "free", !.owner = 0].size = spans[off].size
    BY <2>1 DEF Span
  <2>3. spans' = [spans EXCEPT ![off] = [@ EXCEPT !.state = "free", !.owner = 0]]
    BY <1>1, <2>1
  <2> QED
    BY <2>1, <2>2, <2>3
<1>3. liveBytes' \in Nat
  BY <1>1 DEF HInv, TypeOK, Span
<1> QED
  BY <1>1, <1>2, <1>3, SameGeometry

-----------------------------------------------------------------------------
(* Carving                                                                 *)

\* The pages of a request, before anything is carved from them, keep every old
\* page and reach past the frontier.
LEMMA OpenedPages ==
  ASSUME HInv, NEW need \in Nat, need > 0
  PROVE  /\ Len(pages) <= Len(PagesFor(need)) /\ Len(PagesFor(need)) \in Nat
         /\ \A i \in 1..Len(pages) : PagesFor(need)[i] = pages[i]
  BY DEF PagesFor, HInv, TypeOK

\* The new span has an offset of its own and leaves the others as they were.
FreshSpan(need, k, owner) ==
  \E off \in Nat \ Offsets :
    spans' = [o \in Offsets \cup {off} |->
                IF o = off THEN LiveSpan(need, k, owner) ELSE spans[o]]

\* Carving a span past the bump pointer preserves the invariant (allocSpan).
LEMMA CarveSpanStep ==
  ASSUME HInv, NEW need \in Nat, need > 0, NEW k \in {"object", "payload"}, NEW owner \in Nat,
         CarveSpan(need, k, owner)
  PROVE  HInv' /\ FreshSpan(need, k, owner)
<1> DEFINE opened == PagesFor(need)
<1>1. /\ opened \in Seq(Page) /\ opened # <<>>
      /\ opened[Len(opened)].used + need <= opened[Len(opened)].size
      /\ Frontier <= opened[Len(opened)].start + opened[Len(opened)].used
      /\ opened[Len(opened)].start + opened[Len(opened)].used > 0
      /\ Len(opened) = Len(pages) => opened = pages
           /\ opened[Len(opened)].start + opened[Len(opened)].size <= nextPage
      /\ Len(opened) # Len(pages) => nextPage <= opened[Len(opened)].start
  BY PageHasRoom DEF HInv
<1>2. PICK last \in Nat : last = Len(opened) /\ last > 0 /\ last \in 1..last
                         /\ opened \in [1..last -> Page]
  <2> HIDE DEF opened
  <2> QED
    BY <1>1
<1>3. PICK start \in Nat, size \in Nat, used \in Nat :
        opened[last] = [start |-> start, size |-> size, used |-> used]
  <2> HIDE DEF opened
  <2>1. opened[last] \in Page
    BY <1>2
  <2> QED
    BY <2>1 DEF Page
<1>4. PICK off \in Nat : off = start + used
  BY <1>3
<1>5. /\ used + need <= size /\ Frontier <= off /\ off > 0
      /\ last = Len(pages) => opened = pages /\ start + size <= nextPage
      /\ last # Len(pages) => nextPage <= start
  <2> HIDE DEF opened
  <2> QED
    BY <1>1, <1>2, <1>3, <1>4
<1>6. /\ off + need <= ReservedSize
      /\ pages' = [opened EXCEPT ![last] = [start |-> start, size |-> size, used |-> used + need]]
      /\ nextPage' = IF last = Len(pages) THEN nextPage ELSE start + size
      /\ spans' = [o \in Offsets \cup {off} |->
                     IF o = off THEN LiveSpan(need, k, owner) ELSE spans[o]]
      /\ spanOrder' = Append(spanOrder, off)
      /\ liveBytes' = liveBytes + need
  <2>1. /\ off + need <= ReservedSize
        /\ pages' = [opened EXCEPT ![last].used = @ + need]
        /\ nextPage' = IF last = Len(pages) THEN nextPage ELSE start + size
        /\ spans' = [o \in Offsets \cup {off} |->
                       IF o = off THEN LiveSpan(need, k, owner) ELSE spans[o]]
        /\ spanOrder' = Append(spanOrder, off)
        /\ liveBytes' = liveBytes + need
    BY <1>2, <1>3, <1>4 DEF CarveSpan, OpenPage
  <2> HIDE DEF opened
  <2>2. [opened EXCEPT ![last].used = @ + need]
          = [opened EXCEPT ![last] = [start |-> start, size |-> size, used |-> used + need]]
    <3>1. [opened[last] EXCEPT !.used = @ + need]
            = [start |-> start, size |-> size, used |-> used + need]
      BY <1>3
    <3> QED
      BY <3>1
  <2> QED
    BY <2>1, <2>2
<1>7. Len(pages) <= last /\ Len(pages) \in Nat /\ \A i \in 1..Len(pages) : opened[i] = pages[i]
  <2>1. /\ Len(pages) <= Len(opened) /\ Len(pages) \in Nat
        /\ \A i \in 1..Len(pages) : opened[i] = pages[i]
    <3>1. TypeOK /\ Len(pages) \in Nat
      BY DEF HInv, TypeOK
    <3> QED
      BY <3>1, OpenedPages
  <2> HIDE DEF opened
  <2> QED
    BY <1>2, <2>1
<1> HIDE DEF opened
<1>8. \A o \in Offsets : o \in Nat /\ spans[o].size \in Nat /\ End(o) \in Nat
                         /\ o < End(o) /\ End(o) <= off
  <2>1. ASSUME NEW o \in Offsets
        PROVE  o \in Nat /\ spans[o].size \in Nat /\ End(o) \in Nat /\ o < End(o) /\ End(o) <= Frontier
    BY SMTT(30) DEF HInv, Layout, TypeOK, Span, End
  <2>2. Frontier \in Nat
    BY LastPage DEF Frontier, HInv, Page
  <2> QED
    BY <1>5, <2>1, <2>2
<1>9. off \notin Offsets
  BY <1>8
<1>10. /\ DOMAIN spans' = Offsets \cup {off} /\ spans'[off] = LiveSpan(need, k, owner)
       /\ \A o \in Offsets : spans'[o] = spans[o]
  BY <1>6, <1>9
<1>11. /\ pages' \in Seq(Page) /\ Len(pages') = last /\ pages' # <<>>
       /\ pages'[last] = [start |-> start, size |-> size, used |-> used + need]
       /\ \A i \in 1..last : i # last => pages'[i] = opened[i]
  <2>1. [start |-> start, size |-> size, used |-> used + need] \in Page
    BY DEF Page
  <2>2. pages' \in [1..last -> Page]
    BY <1>2, <1>6, <2>1
  <2>3. pages' \in Seq(Page) /\ Len(pages') = last /\ pages' # <<>>
    BY <1>2, <2>2
  <2> QED
    BY <1>2, <1>6, <2>3
<1>lastPage. pages'[last].start = start /\ pages'[last].used = used + need
  BY <1>11
<1>12. Frontier' = off + need
  BY <1>4, <1>11 DEF Frontier
<1>13. End(off)' = off + need /\ \A o \in Offsets : End(o)' = End(o)
  BY <1>9, <1>10 DEF End, LiveSpan
<1>14. nextPage \in Nat /\ nextPage >= 16 /\ nextPage' \in Nat /\ nextPage' >= 16
       /\ nextPage' >= start + size
  <2>1. nextPage \in Nat /\ nextPage >= 16
    BY DEF HInv, TypeOK, Layout
  <2>2. CASE last = Len(pages)
    BY <1>5, <1>6, <2>1, <2>2
  <2>3. CASE last # Len(pages)
    BY <1>3, <1>5, <1>6, <2>1, <2>3
  <2> QED
    BY <2>1, <2>2, <2>3
<1>15. TypeOK'
  <2>1. LiveSpan(need, k, owner) \in Span
    BY DEF LiveSpan, Span
  <2>2. spans' \in [Offsets \cup {off} -> Span]
    BY <1>6, <2>1 DEF HInv, TypeOK
  <2>a. spanOrder \in Seq(Nat) /\ liveBytes \in Nat
    BY DEF HInv, TypeOK
  <2>b. spanOrder' = Append(spanOrder, off) /\ liveBytes' = liveBytes + need
    BY <1>6
  <2>3. spanOrder' \in Seq(Nat) /\ liveBytes' \in Nat
    BY <1>5, <2>a, <2>b
  <2>c. Offsets \subseteq Nat \ {0}
    BY DEF HInv, TypeOK
  <2>4. DOMAIN spans' \subseteq Nat \ {0}
    BY <1>5, <1>10, <2>c
  <2> QED
    BY <1>10, <1>11, <1>14, <2>2, <2>3, <2>4 DEF TypeOK
<1>16. Layout'
  <2>1. start > 0
    BY <1>2, <1>3, <1>5, <1>14 DEF HInv, Layout
  <2>2. \A o \in Offsets : spans'[o].size > 0 /\ End(o)' <= Frontier'
    BY <1>8, <1>10, <1>12, <1>13 DEF HInv, Layout
  <2>3. spans'[off].size > 0 /\ End(off)' <= Frontier'
    BY <1>10, <1>12, <1>13 DEF LiveSpan
  <2>4. LET final == pages'[Len(pages')]
        IN  /\ final.start > 0 /\ final.used <= final.size
            /\ final.start + final.size <= nextPage'
    BY <1>5, <1>11, <1>14, <2>1
  <2> QED
    BY <1>10, <1>14, <2>2, <2>3, <2>4 DEF Layout
<1>17. SpansDisjoint'
  BY <1>8, <1>10, <1>13 DEF HInv, SpansDisjoint
<1>18. SpansResolvable'
  <2>1. ASSUME NEW o \in Offsets
        PROVE  \E i \in 1..last : /\ pages'[i].start <= o
                                  /\ End(o) <= pages'[i].start + pages'[i].used
    <3>1. PICK i \in 1..Len(pages) : pages[i].start <= o /\ End(o) <= pages[i].start + pages[i].used
      BY DEF HInv, SpansResolvable
    <3>2. i \in 1..last /\ opened[i] = pages[i]
      BY <1>2, <1>7
    <3>3. CASE i # last
      BY <1>11, <3>1, <3>2, <3>3
    <3>4. CASE i = last
      <4>1. start <= o /\ End(o) <= start + used
        BY <1>3, <3>1, <3>2, <3>4
      <4>2. End(o) <= start + (used + need)
        BY <1>8, <4>1
      <4> QED
        BY <1>2, <1>lastPage, <4>1, <4>2
    <3> QED
      BY <3>3, <3>4
  <2>2. start <= off /\ off + need <= start + (used + need)
    BY <1>4
  <2>3. \A o \in Offsets : End(o) <= ReservedSize
    BY DEF HInv, SpansResolvable
  <2>4. \E i \in 1..last : /\ pages'[i].start <= off
                           /\ off + need <= pages'[i].start + pages'[i].used
    BY <1>2, <1>lastPage, <2>2
  <2> QED
    BY <1>6, <1>10, <1>11, <1>13, <2>1, <2>3, <2>4 DEF SpansResolvable
<1>19. OrderEnumeratesSpans'
  <2> DEFINE n == Len(spanOrder)
  <2>1. spanOrder \in Seq(Nat) /\ n \in Nat
    BY DEF HInv, TypeOK
  <2>2. /\ Len(spanOrder') = n + 1 /\ spanOrder'[n + 1] = off
        /\ \A i \in 1..n : spanOrder'[i] = spanOrder[i]
    BY <1>6, <2>1
  <2>3. /\ \A i \in 1..n : spanOrder[i] \in Offsets
        /\ \A o \in Offsets : \E i \in 1..n : spanOrder[i] = o
        /\ \A i, j \in 1..n : i < j => spanOrder[i] < spanOrder[j]
    BY DEF HInv, OrderEnumeratesSpans
  <2> HIDE DEF n
  <2>4. \A i \in 1..(n + 1) : i = n + 1 \/ i \in 1..n
    BY <2>1
  <2>5. 1..n \subseteq 1..(n + 1) /\ n + 1 \in 1..(n + 1)
    BY <2>1
  <2>6. {spanOrder'[i] : i \in 1..(n + 1)} = Offsets \cup {off}
    <3>1. \A i \in 1..(n + 1) : spanOrder'[i] \in Offsets \cup {off}
      BY <2>2, <2>3, <2>4
    <3>2. \A o \in Offsets \cup {off} : \E i \in 1..(n + 1) : spanOrder'[i] = o
      BY <2>2, <2>3, <2>5
    <3> QED
      BY <3>1, <3>2
  <2>7. ASSUME NEW i \in 1..(n + 1), NEW j \in 1..(n + 1), i < j
        PROVE  spanOrder'[i] < spanOrder'[j]
    <3>1. i \in 1..n
      BY <2>1, <2>7
    <3>2. CASE j \in 1..n
      BY <2>2, <2>3, <2>7, <3>1, <3>2
    <3>3. CASE j = n + 1
      BY <1>8, <2>2, <2>3, <3>1, <3>3
    <3> QED
      BY <2>4, <3>2, <3>3
  <2> QED
    BY <1>10, <2>2, <2>6, <2>7 DEF OrderEnumeratesSpans
<1> QED
  BY <1>6, <1>9, <1>15, <1>16, <1>17, <1>18, <1>19 DEF HInv, FreshSpan

\* A failed allocation, which may leave a page open, preserves the invariant
\* (allocSpan, EnsureCommitted).
LEMMA ArenaExhaustedStep ==
  ASSUME HInv, NEW need \in Nat, need > 0, ArenaExhausted(need)
  PROVE  HInv' /\ spans' = spans
<1> DEFINE opened == PagesFor(need)
<1>1. /\ opened \in Seq(Page) /\ opened # <<>>
      /\ opened[Len(opened)].used + need <= opened[Len(opened)].size
      /\ Frontier <= opened[Len(opened)].start + opened[Len(opened)].used
      /\ Len(opened) = Len(pages) => opened = pages
           /\ opened[Len(opened)].start + opened[Len(opened)].size <= nextPage
      /\ Len(opened) # Len(pages) => nextPage <= opened[Len(opened)].start
  BY PageHasRoom DEF HInv
<1>2. /\ pages' = opened /\ UNCHANGED <<spans, spanOrder, liveBytes>>
      /\ nextPage' = IF Len(opened) = Len(pages) THEN nextPage
                     ELSE opened[Len(opened)].start + opened[Len(opened)].size
  BY DEF ArenaExhausted, OpenPage
<1>3. /\ Len(pages) <= Len(opened) /\ Len(pages) \in Nat
      /\ \A i \in 1..Len(pages) : opened[i] = pages[i]
  BY OpenedPages DEF HInv, TypeOK
<1> HIDE DEF opened
<1>4. PICK last \in Nat : last = Len(opened) /\ last \in 1..last
  BY <1>1
<1>5. PICK start \in Nat, size \in Nat, used \in Nat :
        opened[last] = [start |-> start, size |-> size, used |-> used]
  <2>1. opened[last] \in Page
    BY <1>1, <1>4
  <2> QED
    BY <2>1 DEF Page
<1>6. \A o \in Offsets : End(o)' = End(o)
  BY <1>2 DEF End
<1>7. nextPage \in Nat /\ nextPage >= 16
  BY DEF HInv, TypeOK, Layout
<1>8. nextPage' \in Nat /\ nextPage' >= 16 /\ start + size <= nextPage' /\ start > 0
  <2>1. CASE last = Len(pages)
    BY <1>1, <1>2, <1>4, <1>5, <1>7, <2>1 DEF HInv, Layout
  <2>2. CASE last # Len(pages)
    BY <1>1, <1>2, <1>4, <1>5, <1>7, <2>2
  <2> QED
    BY <2>1, <2>2
<1>9. TypeOK'
  BY <1>1, <1>2, <1>8 DEF HInv, TypeOK
<1>10. Layout'
  <2>1. Frontier <= start + used /\ used <= size
    BY <1>1, <1>4, <1>5
  <2>2. Frontier' = start + used
    BY <1>1, <1>2, <1>4, <1>5 DEF Frontier
  <2>3. \A o \in Offsets : spans[o].size > 0 /\ End(o)' <= Frontier'
    <3>1. \A o \in Offsets : End(o) \in Nat /\ End(o) <= Frontier
      <4>1. \A o \in Offsets : o \in Nat /\ spans[o] \in Span
        BY DEF HInv, TypeOK
      <4>2. \A o \in Offsets : End(o) \in Nat
        BY <4>1 DEF End, Span
      <4> QED
        BY <4>2 DEF HInv, Layout
    <3>2. Frontier \in Nat
      BY LastPage DEF Frontier, HInv, Page
    <3> QED
      BY <1>6, <2>1, <2>2, <3>1, <3>2 DEF HInv, Layout
  <2> QED
    BY <1>2, <1>4, <1>5, <1>8, <2>1, <2>3 DEF Layout
<1>11. SpansDisjoint'
  BY <1>2, <1>6 DEF HInv, SpansDisjoint
<1>12. SpansResolvable'
  BY <1>2, <1>3, <1>4, <1>6 DEF HInv, SpansResolvable
<1>13. OrderEnumeratesSpans'
  BY <1>2 DEF HInv, OrderEnumeratesSpans
<1> QED
  BY <1>2, <1>9, <1>10, <1>11, <1>12, <1>13 DEF HInv

-----------------------------------------------------------------------------
(* What the pages hold                                                     *)

\* Every byte below a page's bump pointer belongs to a span.
BytesCovered ==
  \A i \in 1..Len(pages) : \A b \in Nat :
    pages[i].start <= b /\ b < pages[i].start + pages[i].used =>
      \E off \in Offsets : off <= b /\ b < End(off)

\* A step that opens no page and resizes no span keeps the bytes covered.
LEMMA SameCover ==
  ASSUME BytesCovered, UNCHANGED pages, DOMAIN spans' = Offsets,
         \A off \in Offsets : spans'[off].size = spans[off].size
  PROVE  BytesCovered'
BY DEF BytesCovered, End

\* A span is carved where the bump pointer was (allocSpan).
LEMMA CarveCovers ==
  ASSUME HInv, BytesCovered, NEW need \in Nat, need > 0,
         NEW k \in {"object", "payload"}, NEW owner \in Nat, CarveSpan(need, k, owner)
  PROVE  BytesCovered'
<1> DEFINE opened == PagesFor(need)
<1>1. /\ opened \in Seq(Page) /\ opened # <<>>
      /\ Len(opened) = Len(pages) => opened = pages
      /\ Len(opened) # Len(pages) => opened = Append(pages, NewPage(need))
  BY PageHasRoom DEF HInv
<1>2. NewPage(need).used = 0
  BY DEF NewPage
<1>3. /\ pages' = [opened EXCEPT ![Len(opened)].used = @ + need]
      /\ spans' = [o \in Offsets \cup {opened[Len(opened)].start + opened[Len(opened)].used} |->
                     IF o = opened[Len(opened)].start + opened[Len(opened)].used
                       THEN LiveSpan(need, k, owner) ELSE spans[o]]
  BY DEF CarveSpan
<1>4. FreshSpan(need, k, owner)
  BY CarveSpanStep
<1>5. pages \in Seq(Page) /\ Len(pages) \in Nat
  BY DEF HInv, TypeOK
<1>6. /\ Len(opened) = Len(pages) \/ Len(opened) = Len(pages) + 1
      /\ Len(opened) # Len(pages) => opened[Len(opened)].used = 0
      /\ \A i \in 1..Len(pages) : opened[i] = pages[i]
  BY <1>1, <1>2, <1>5
<1> HIDE DEF opened
<1>7. PICK last \in Nat : last = Len(opened) /\ last \in 1..last
  BY <1>1
<1>8. PICK start \in Nat, size \in Nat, used \in Nat :
        opened[last] = [start |-> start, size |-> size, used |-> used]
  <2>1. opened[last] \in Page
    BY <1>1, <1>7
  <2> QED
    BY <2>1 DEF Page
<1>9. PICK off \in Nat : off = start + used
  BY <1>8
<1>10. spans' = [o \in Offsets \cup {off} |->
                   IF o = off THEN LiveSpan(need, k, owner) ELSE spans[o]]
  BY <1>3, <1>7, <1>8, <1>9
<1>11. off \notin Offsets
  <2>1. PICK o \in Nat \ Offsets : DOMAIN spans' = Offsets \cup {o}
    BY <1>4 DEF FreshSpan
  <2> QED
    BY <1>10, <2>1
<1>12. /\ End(off)' = off + need /\ off \in DOMAIN spans'
       /\ \A o \in Offsets : o \in DOMAIN spans' /\ End(o)' = End(o)
  BY <1>10, <1>11 DEF End, LiveSpan
<1>13. /\ Len(pages') = last
       /\ pages'[last].start = start /\ pages'[last].used = used + need
       /\ \A i \in 1..last : i # last => pages'[i] = opened[i]
  <2>1. [opened[last] EXCEPT !.used = @ + need]
          = [start |-> start, size |-> size, used |-> used + need]
    BY <1>8
  <2>2. pages' = [opened EXCEPT ![last] = [start |-> start, size |-> size, used |-> used + need]]
    BY <1>3, <1>7, <2>1
  <2>3. opened \in [1..last -> Page] /\ Len(opened) = last
    BY <1>1, <1>7
  <2>4. [start |-> start, size |-> size, used |-> used + need] \in Page
    BY DEF Page
  <2>5. pages' \in [1..last -> Page]
    BY <2>2, <2>3, <2>4
  <2> QED
    BY <1>7, <2>2, <2>3, <2>5
<1> SUFFICES ASSUME NEW i \in 1..last, NEW b \in Nat,
                    pages'[i].start <= b, b < pages'[i].start + pages'[i].used
             PROVE  \E o \in DOMAIN spans' : o <= b /\ b < End(o)'
  BY <1>13 DEF BytesCovered
<1>14. ASSUME i \in 1..Len(pages), pages[i].start <= b, b < pages[i].start + pages[i].used
       PROVE  \E o \in DOMAIN spans' : o <= b /\ b < End(o)'
  BY <1>12, <1>14 DEF BytesCovered
<1>15. CASE i # last
  BY <1>5, <1>6, <1>7, <1>13, <1>14, <1>15
<1>16. CASE i = last /\ b < off
  <2>1. start <= b /\ used # 0
    BY <1>8, <1>9, <1>13, <1>16
  <2>2. last = Len(pages) /\ pages[i] = opened[i]
    BY <1>6, <1>7, <1>8, <1>16, <2>1
  <2> QED
    BY <1>7, <1>8, <1>9, <1>14, <1>16, <2>1, <2>2
<1>17. CASE i = last /\ b >= off
  <2>1. b < off + need
    BY <1>8, <1>9, <1>13, <1>17
  <2> QED
    BY <1>12, <1>17, <2>1
<1> QED
  BY <1>9, <1>15, <1>16, <1>17

\* A page that is opened in vain has nothing below its bump pointer yet.
LEMMA ExhaustedCovers ==
  ASSUME HInv, BytesCovered, NEW need \in Nat, need > 0, ArenaExhausted(need)
  PROVE  BytesCovered'
<1> DEFINE opened == PagesFor(need)
<1>1. /\ opened \in Seq(Page) /\ opened # <<>>
      /\ Len(opened) = Len(pages) => opened = pages
      /\ Len(opened) # Len(pages) => opened = Append(pages, NewPage(need))
  BY PageHasRoom DEF HInv
<1>2. NewPage(need).used = 0
  BY DEF NewPage
<1>3. pages' = opened /\ spans' = spans
  BY DEF ArenaExhausted
<1>4. pages \in Seq(Page) /\ Len(pages) \in Nat
  BY DEF HInv, TypeOK
<1>5. \A i \in 1..Len(opened) : (i \in 1..Len(pages) /\ opened[i] = pages[i]) \/ opened[i].used = 0
  BY <1>1, <1>2, <1>4
<1>6. \A i \in 1..Len(opened) : opened[i].start \in Nat
  <2> HIDE DEF opened
  <2>1. ASSUME NEW i \in 1..Len(opened) PROVE opened[i] \in Page
    BY <1>1
  <2> QED
    BY <2>1 DEF Page
<1> HIDE DEF opened
<1> SUFFICES ASSUME NEW i \in 1..Len(opened), NEW b \in Nat,
                    opened[i].start <= b, b < opened[i].start + opened[i].used
             PROVE  \E o \in Offsets : o <= b /\ b < End(o)
  BY <1>3 DEF BytesCovered, End
<1>7. CASE opened[i].used = 0
  BY <1>6, <1>7
<1>8. CASE i \in 1..Len(pages) /\ opened[i] = pages[i]
  BY <1>8 DEF BytesCovered
<1> QED
  BY <1>5, <1>7, <1>8

-----------------------------------------------------------------------------
(* The live bytes                                                          *)

Sizes == [off \in Offsets |-> spans[off].size]
LiveOffsets == {off \in Offsets : spans[off].state = "live"}

\* The heap has finitely many spans.
LEMMA OffsetsFinite ==
  ASSUME HInv
  PROVE  IsFiniteSet(Offsets)
<1> DEFINE n == Len(spanOrder)
<1>1. spanOrder \in Seq(Nat) /\ n \in Nat
  BY DEF HInv, TypeOK
<1>2. {spanOrder[i] : i \in 1..n} = Offsets
  BY DEF HInv, OrderEnumeratesSpans
<1>3. spanOrder \in [1..n -> Offsets]
  BY <1>1, <1>2
<1>4. spanOrder \in Surjection(1..n, Offsets)
  BY <1>2, <1>3 DEF Surjection
<1>5. IsFiniteSet(1..n)
  BY <1>1, FS_Interval
<1> HIDE DEF n
<1> QED
  BY <1>4, <1>5, FS_Surjection

\* What the counter is of the live spans.
LEMMA LiveSum ==
  ASSUME HInv
  PROVE  /\ LiveBytesExact <=> liveBytes = Sum(Sizes, LiveOffsets)
         /\ IsFiniteSet(LiveOffsets) /\ \A off \in LiveOffsets : Sizes[off] \in Nat
<1>1. LiveBytesExact <=> liveBytes = Sum(Sizes, LiveOffsets)
  BY DEF LiveBytesExact, Sum, Sizes, LiveOffsets
<1>2. LiveOffsets \in SUBSET Offsets
  BY DEF LiveOffsets
<1>3. IsFiniteSet(LiveOffsets)
  BY <1>2, OffsetsFinite, FS_Subset
<1>4. \A off \in LiveOffsets : Sizes[off] \in Nat
  BY DEF LiveOffsets, Sizes, HInv, TypeOK, Span
<1> QED
  BY <1>1, <1>3, <1>4

\* A span that comes to life adds its size.
LEMMA BytesAdded ==
  ASSUME HInv, HInv', LiveBytesExact, NEW off, off \notin LiveOffsets, off \in DOMAIN spans',
         LiveOffsets' = LiveOffsets \cup {off},
         \A o \in LiveOffsets : spans'[o].size = spans[o].size,
         liveBytes' = liveBytes + spans'[off].size
  PROVE  LiveBytesExact'
<1>1. /\ liveBytes = Sum(Sizes, LiveOffsets)
      /\ IsFiniteSet(LiveOffsets) /\ \A o \in LiveOffsets : Sizes[o] \in Nat
  BY LiveSum
<1>2. /\ LiveBytesExact' <=> liveBytes' = Sum(Sizes', LiveOffsets')
      /\ IsFiniteSet(LiveOffsets') /\ \A o \in LiveOffsets' : Sizes'[o] \in Nat
  <2>1. IsFiniteSet(LiveOffsets')
    BY <1>1, FS_AddElement
  <2>2. \A o \in LiveOffsets' : Sizes'[o] \in Nat
    BY DEF LiveOffsets, Sizes, HInv, TypeOK, Span
  <2>3. LiveBytesExact' <=> liveBytes' = Sum(Sizes', LiveOffsets')
    BY DEF LiveBytesExact, Sum, Sizes, LiveOffsets
  <2> QED
    BY <2>1, <2>2, <2>3
<1>3. \A o \in LiveOffsets : Sizes[o] = Sizes'[o]
  BY DEF Sizes, LiveOffsets
<1>4. Sum(Sizes, LiveOffsets) = Sum(Sizes', LiveOffsets)
  BY <1>1, <1>3, SumSame
<1>5. Sum(Sizes', LiveOffsets') = Sizes'[off] + Sum(Sizes', LiveOffsets' \ {off})
  <2>1. off \in LiveOffsets'
    OBVIOUS
  <2> QED
    BY <1>2, <2>1, SumTakesOut
<1>6. LiveOffsets' \ {off} = LiveOffsets
  OBVIOUS
<1>7. Sizes'[off] = spans'[off].size /\ Sizes'[off] \in Nat /\ liveBytes \in Nat
  BY <1>2 DEF Sizes, HInv, TypeOK
<1>8. Sum(Sizes', LiveOffsets') = liveBytes + spans'[off].size
  <2> HIDE DEF Sizes, LiveOffsets
  <2>1. Sum(Sizes', LiveOffsets' \ {off}) = liveBytes
    BY <1>1, <1>4, <1>6
  <2>2. Sum(Sizes', LiveOffsets') = spans'[off].size + liveBytes
    BY <1>5, <1>7, <2>1
  <2>3. spans'[off].size \in Nat
    BY <1>7
  <2> QED
    BY <1>7, <2>2, <2>3
<1> QED
  BY <1>2, <1>8

\* A span that dies takes its size out, and the counter never saturates
\* (FreeSpan).
LEMMA BytesRemoved ==
  ASSUME HInv, HInv', LiveBytesExact, NEW off \in LiveOffsets,
         LiveOffsets' = LiveOffsets \ {off},
         \A o \in LiveOffsets : spans'[o].size = spans[o].size,
         DOMAIN spans' = Offsets,
         liveBytes' = IF spans[off].size >= liveBytes THEN 0 ELSE liveBytes - spans[off].size
  PROVE  LiveBytesExact'
<1>1. /\ liveBytes = Sum(Sizes, LiveOffsets)
      /\ IsFiniteSet(LiveOffsets) /\ \A o \in LiveOffsets : Sizes[o] \in Nat
  BY LiveSum
<1>2. LiveBytesExact' <=> liveBytes' = Sum(Sizes', LiveOffsets')
  BY DEF LiveBytesExact, Sum, Sizes, LiveOffsets
<1>3. \A o \in LiveOffsets \ {off} : Sizes[o] = Sizes'[o]
  BY DEF Sizes, LiveOffsets
<1>4. IsFiniteSet(LiveOffsets \ {off})
  BY <1>1, FS_RemoveElement
<1>5. Sum(Sizes, LiveOffsets \ {off}) = Sum(Sizes', LiveOffsets \ {off})
  BY <1>3, <1>4, SumSame
<1>6. Sum(Sizes, LiveOffsets) = Sizes[off] + Sum(Sizes, LiveOffsets \ {off})
  BY <1>1, SumTakesOut
<1>7. Sum(Sizes, LiveOffsets \ {off}) \in Nat
  BY <1>1, <1>4, SumTakesOut
<1>8. Sizes[off] = spans[off].size /\ Sizes[off] \in Nat
  BY <1>1 DEF Sizes, LiveOffsets
<1>9. PICK rest \in Nat : rest = Sum(Sizes, LiveOffsets \ {off})
  BY <1>7
<1>10. PICK size \in Nat : size = spans[off].size
  BY <1>8
<1>11. liveBytes = size + rest
  BY <1>1, <1>6, <1>8, <1>9, <1>10
<1>12. liveBytes' = rest
  <2>1. liveBytes' = IF size >= liveBytes THEN 0 ELSE liveBytes - size
    BY <1>10
  <2> QED
    BY <1>11, <2>1
<1> QED
  BY <1>2, <1>5, <1>9, <1>12

\* Spans that live on with the sizes they had count as before.
LEMMA BytesSame ==
  ASSUME HInv, LiveBytesExact, LiveOffsets' = LiveOffsets, UNCHANGED liveBytes,
         \A o \in LiveOffsets : Sizes'[o] = Sizes[o]
  PROVE  LiveBytesExact'
<1>1. liveBytes = Sum(Sizes, LiveOffsets) /\ IsFiniteSet(LiveOffsets)
  BY LiveSum
<1>2. LiveBytesExact' <=> liveBytes' = Sum(Sizes', LiveOffsets')
  BY DEF LiveBytesExact, Sum, Sizes, LiveOffsets
<1>3. Sum(Sizes, LiveOffsets) = Sum(Sizes', LiveOffsets)
  BY <1>1, SumSame
<1> QED
  BY <1>1, <1>2, <1>3

\* A span that is handed out again comes back with its whole size
\* (reuseFreeSpan).
LEMMA ReuseAccounts ==
  ASSUME HInv, HInv', BytesCovered, LiveBytesExact, NEW need \in Nat,
         NEW k \in {"object", "payload"}, NEW owner \in Nat, ReuseFreeSpan(need, k, owner)
  PROVE  BytesCovered' /\ LiveBytesExact'
<1>1. PICK off \in Offsets :
        /\ spans[off].state = "free"
        /\ spans' = [spans EXCEPT ![off] = LiveSpan(spans[off].size, k, owner)]
        /\ liveBytes' = liveBytes + spans[off].size
        /\ UNCHANGED <<spanOrder, pages, nextPage>>
  BY DEF ReuseFreeSpan, BestFits, Fits
<1>2. spans \in [Offsets -> Span]
  BY DEF HInv, TypeOK
<1>3. /\ DOMAIN spans' = Offsets
      /\ spans'[off].size = spans[off].size /\ spans'[off].state = "live"
      /\ \A o \in Offsets : o # off => spans'[o] = spans[o]
  BY <1>1, <1>2 DEF LiveSpan
<1>4. \A o \in Offsets : spans'[o].size = spans[o].size
  BY <1>3
<1>5. off \notin LiveOffsets /\ LiveOffsets' = LiveOffsets \cup {off}
  BY <1>1, <1>3 DEF LiveOffsets
<1>6. LiveOffsets \subseteq Offsets
  BY DEF LiveOffsets
<1> QED
  BY <1>1, <1>3, <1>4, <1>5, <1>6, SameCover, BytesAdded

\* A span that is carved adds the aligned size of the request (allocSpan).
LEMMA CarveAccounts ==
  ASSUME HInv, HInv', LiveBytesExact, NEW need \in Nat, need > 0,
         NEW k \in {"object", "payload"}, NEW owner \in Nat, CarveSpan(need, k, owner)
  PROVE  LiveBytesExact'
<1>1. FreshSpan(need, k, owner)
  BY CarveSpanStep
<1>2. PICK off \in Nat \ Offsets :
        spans' = [o \in Offsets \cup {off} |->
                    IF o = off THEN LiveSpan(need, k, owner) ELSE spans[o]]
  BY <1>1 DEF FreshSpan
<1>3. /\ off \in DOMAIN spans' /\ spans'[off].size = need /\ spans'[off].state = "live"
      /\ DOMAIN spans' = Offsets \cup {off}
      /\ \A o \in Offsets : spans'[o] = spans[o]
  BY <1>2 DEF LiveSpan
<1>4. liveBytes' = liveBytes + need
  BY DEF CarveSpan
<1>5. off \notin LiveOffsets /\ LiveOffsets' = LiveOffsets \cup {off}
  BY <1>3 DEF LiveOffsets
<1>6. \A o \in LiveOffsets : spans'[o].size = spans[o].size
  BY <1>3 DEF LiveOffsets
<1> QED
  BY <1>3, <1>4, <1>5, <1>6, BytesAdded

\* An owner that changes moves no bytes (SetSpanOwner).
LEMMA OwnerAccounts ==
  ASSUME HInv, BytesCovered, LiveBytesExact, SetSpanOwner
  PROVE  BytesCovered' /\ LiveBytesExact'
<1>1. PICK off \in Offsets, owner \in Offsets \cup {0} :
        /\ spans' = [spans EXCEPT ![off].owner = owner]
        /\ UNCHANGED <<spanOrder, pages, nextPage, liveBytes>>
  BY DEF SetSpanOwner
<1>2. spans \in [Offsets -> Span]
  BY DEF HInv, TypeOK
<1>3. /\ DOMAIN spans' = Offsets
      /\ \A o \in Offsets : spans'[o].size = spans[o].size /\ spans'[o].state = spans[o].state
  BY <1>1, <1>2 DEF Span
<1>4. LiveOffsets' = LiveOffsets
  BY <1>3 DEF LiveOffsets
<1>5. \A o \in LiveOffsets : Sizes'[o] = Sizes[o]
  BY <1>3 DEF LiveOffsets, Sizes
<1> QED
  BY <1>1, <1>3, <1>4, <1>5, SameCover, BytesSame

\* A freed span stays where it is and takes its bytes out of the counter
\* (FreeSpan).
LEMMA FreeAccounts ==
  ASSUME HInv, HInv', BytesCovered, LiveBytesExact, FreeSpan
  PROVE  BytesCovered' /\ LiveBytesExact'
<1>1. PICK off \in Offsets :
        /\ spans[off].state = "live"
        /\ spans' = [spans EXCEPT ![off].state = "free", ![off].owner = 0]
        /\ liveBytes' = IF spans[off].size >= liveBytes THEN 0 ELSE liveBytes - spans[off].size
        /\ UNCHANGED <<spanOrder, pages, nextPage>>
  BY DEF FreeSpan
<1>2. /\ DOMAIN spans' = Offsets
      /\ \A o \in Offsets : spans'[o].size = spans[o].size
      /\ spans'[off].state = "free"
      /\ \A o \in Offsets : o # off => spans'[o] = spans[o]
  <2>1. spans \in [Offsets -> Span]
    BY DEF HInv, TypeOK
  <2>2. [spans[off] EXCEPT !.state = "free", !.owner = 0].size = spans[off].size
        /\ [spans[off] EXCEPT !.state = "free", !.owner = 0].state = "free"
    BY <2>1 DEF Span
  <2>3. spans' = [spans EXCEPT ![off] = [@ EXCEPT !.state = "free", !.owner = 0]]
    BY <1>1, <2>1
  <2> QED
    BY <2>1, <2>2, <2>3
<1>3. off \in LiveOffsets /\ LiveOffsets' = LiveOffsets \ {off}
  BY <1>1, <1>2 DEF LiveOffsets
<1>4. \A o \in LiveOffsets : spans'[o].size = spans[o].size
  BY <1>2 DEF LiveOffsets
<1> QED
  BY <1>1, <1>2, <1>3, <1>4, SameCover, BytesRemoved

-----------------------------------------------------------------------------
(* The theorems                                                            *)

\* An allocation is one of its three outcomes, with a positive aligned size.
LEMMA AllocOutcomes ==
  ASSUME HInv, AllocObject \/ AllocPayload
  PROVE  \E need \in Nat \ {0}, k \in {"object", "payload"}, owner \in Nat :
           \/ ReuseFreeSpan(need, k, owner)
           \/ CarveSpan(need, k, owner)
           \/ ArenaExhausted(need)
<1>1. CASE AllocObject
  <2>1. PICK size \in Requests : AllocSpan(AtLeast(size, CommonHeaderSize), "object", 0)
    BY <1>1 DEF AllocObject
  <2>2. AtLeast(size, CommonHeaderSize) \in Nat \ {0}
    BY DEF AtLeast
  <2>3. AlignUp(AtLeast(size, CommonHeaderSize)) \in Nat \ {0}
    BY <2>2, AlignUpBounds
  <2> QED
    BY <2>1, <2>3 DEF AllocSpan
<1>2. CASE AllocPayload
  <2>1. PICK size \in Requests, owner \in Offsets \cup {0} : AllocSpan(size, "payload", owner)
    BY <1>2 DEF AllocPayload
  <2>2. AlignUp(size) \in Nat \ {0} /\ owner \in Nat
    BY AlignUpBounds DEF HInv, TypeOK
  <2> QED
    BY <2>1, <2>2 DEF AllocSpan
<1> QED
  BY <1>1, <1>2

\* Every step of the allocator preserves the invariant.
LEMMA HInvStep == HInv /\ [Next]_vars => HInv'
<1> SUFFICES ASSUME HInv, [Next]_vars PROVE HInv'
  OBVIOUS
<1>1. CASE AllocObject \/ AllocPayload
  BY <1>1, AllocOutcomes, ReuseFreeSpanStep, CarveSpanStep, ArenaExhaustedStep
<1>2. CASE UNCHANGED vars
  BY <1>2 DEF vars, HInv, TypeOK, Layout, Frontier, End, SpansDisjoint, SpansResolvable,
              OrderEnumeratesSpans
<1> QED
  BY <1>1, <1>2, SetSpanOwnerStep, FreeSpanStep DEF Next

\* A new heap satisfies the invariant (New).
LEMMA HInvInit == Init => HInv
  BY DEF Init, HInv, TypeOK, Layout, SpansDisjoint, SpansResolvable, OrderEnumeratesSpans

\* The invariant holds in every reachable state of the allocator.
THEOREM HeapInductive == Spec => []HInv
<1> QED
  BY HInvInit, HInvStep, PTL DEF Spec

\* The heap's maps, pages and counters stay well typed; in particular no span
\* ever has the offset 0, which encodes the nil reference.
THEOREM HeapTypeCorrect == Spec => []TypeOK
<1>1. HInv => TypeOK
  BY DEF HInv
<1> QED
  BY <1>1, HeapInductive, PTL

\* Two spans never share a byte: whatever is freed, reused or carved, and
\* however often the arena refuses, two objects never live in the same memory
\* (allocSpan, reuseFreeSpan, FreeSpan).
THEOREM NoSharedMemory == Spec => []SpansDisjoint
<1>1. HInv => SpansDisjoint
  BY DEF HInv
<1> QED
  BY <1>1, HeapInductive, PTL

\* Resolve finds the page of every span, and its bytes are committed (findPage,
\* EnsureCommitted).
THEOREM EverySpanResolves == Spec => []SpansResolvable
<1>1. HInv => SpansResolvable
  BY DEF HInv
<1> QED
  BY <1>1, HeapInductive, PTL

\* The walk order of the collector lists every span once, in address order
\* (WalkSpansChunk).
THEOREM WalkIsComplete == Spec => []OrderEnumeratesSpans
<1>1. HInv => OrderEnumeratesSpans
  BY DEF HInv
<1> QED
  BY <1>1, HeapInductive, PTL

\* What no step does to a span: forget it, resize it, or change its kind while
\* it is live.
SpanStable(off) ==
  /\ off \in DOMAIN spans'
  /\ spans'[off].size = spans[off].size
  /\ spans[off].state = "live" /\ spans'[off].state = "live"
       => spans'[off].kind = spans[off].kind

\* A live span keeps its kind and size until it is freed, and no span is ever
\* forgotten (reuseFreeSpan, allocSpan).
THEOREM LiveSpansKept == Spec => LiveSpansStable
<1>1. ASSUME HInv, [Next]_vars, NEW off \in Offsets PROVE SpanStable(off)
  <2>1. spans[off] \in Span
    BY <1>1 DEF HInv, TypeOK
  <2>2. CASE AllocObject \/ AllocPayload
    <3>1. PICK need \in Nat \ {0}, k \in {"object", "payload"}, owner \in Nat :
            \/ ReuseFreeSpan(need, k, owner)
            \/ CarveSpan(need, k, owner)
            \/ ArenaExhausted(need)
      BY <1>1, <2>2, AllocOutcomes
    <3>2. CASE ReuseFreeSpan(need, k, owner)
      <4>1. PICK o \in Offsets : /\ spans[o].state = "free"
                                 /\ spans' = [spans EXCEPT ![o] = LiveSpan(spans[o].size, k, owner)]
        BY <3>2 DEF ReuseFreeSpan, BestFits, Fits
      <4> QED
        BY <1>1, <4>1 DEF SpanStable, LiveSpan, HInv, TypeOK
    <3>3. CASE CarveSpan(need, k, owner)
      <4>0. need \in Nat /\ need > 0
        OBVIOUS
      <4>1. PICK new \in Nat \ Offsets :
              spans' = [o \in Offsets \cup {new} |->
                          IF o = new THEN LiveSpan(need, k, owner) ELSE spans[o]]
        <5>1. FreshSpan(need, k, owner)
          BY <1>1, <3>3, <4>0, CarveSpanStep
        <5> QED
          BY <5>1 DEF FreshSpan
      <4>2. off \in DOMAIN spans' /\ spans'[off] = spans[off]
        BY <1>1, <4>1
      <4> QED
        BY <4>2 DEF SpanStable
    <3>4. CASE ArenaExhausted(need)
      BY <1>1, <3>4, ArenaExhaustedStep DEF SpanStable
    <3> QED
      BY <3>1, <3>2, <3>3, <3>4
  <2>3. CASE SetSpanOwner
    BY <1>1, <2>1, <2>3 DEF SetSpanOwner, SpanStable, HInv, TypeOK, Span
  <2>4. CASE FreeSpan
    BY <1>1, <2>1, <2>4 DEF FreeSpan, SpanStable, HInv, TypeOK, Span
  <2>5. CASE UNCHANGED vars
    BY <2>5 DEF vars, SpanStable
  <2> QED
    BY <1>1, <2>2, <2>3, <2>4, <2>5 DEF Next
<1>2. HInv /\ [Next]_vars => [\A off \in Offsets : SpanStable(off)]_vars
  BY <1>1
<1>3. [][\A off \in Offsets : SpanStable(off)]_vars => LiveSpansStable
  BY PTL DEF LiveSpansStable, SpanStable
<1> QED
  BY <1>2, <1>3, HeapInductive, PTL DEF Spec

\* The layout, with what the pages hold and what the counter says of it.
TInv == HInv /\ BytesCovered /\ LiveBytesExact

\* A new heap holds nothing (New).
LEMMA TInvInit == Init => TInv
<1> SUFFICES ASSUME Init PROVE TInv
  OBVIOUS
<1>1. HInv /\ BytesCovered /\ liveBytes = 0
  BY HInvInit DEF Init, BytesCovered
<1>2. LiveOffsets = {} /\ IsFiniteSet(LiveOffsets)
  BY FS_EmptySet DEF Init, LiveOffsets
<1>3. Sum(Sizes, LiveOffsets) = 0
  BY <1>2, SumFirst
<1> QED
  BY <1>1, <1>3, LiveSum DEF TInv

\* Every step keeps the pages full and the counter exact.
LEMMA TInvStep == TInv /\ [Next]_vars => TInv'
<1> SUFFICES ASSUME TInv, [Next]_vars PROVE BytesCovered' /\ LiveBytesExact'
  BY HInvStep DEF TInv
<1>1. HInv /\ HInv' /\ BytesCovered /\ LiveBytesExact
  BY HInvStep DEF TInv
<1>2. CASE AllocObject \/ AllocPayload
  <2>1. PICK need \in Nat \ {0}, k \in {"object", "payload"}, owner \in Nat :
          \/ ReuseFreeSpan(need, k, owner)
          \/ CarveSpan(need, k, owner)
          \/ ArenaExhausted(need)
    BY <1>1, <1>2, AllocOutcomes
  <2>2. need \in Nat /\ need > 0
    OBVIOUS
  <2>3. CASE ReuseFreeSpan(need, k, owner)
    BY <1>1, <2>2, <2>3, ReuseAccounts
  <2>4. CASE CarveSpan(need, k, owner)
    BY <1>1, <2>2, <2>4, CarveCovers, CarveAccounts
  <2>5. CASE ArenaExhausted(need)
    <3>1. UNCHANGED <<spans, liveBytes>>
      BY <2>5 DEF ArenaExhausted
    <3>2. LiveBytesExact'
      BY <1>1, <3>1 DEF LiveBytesExact
    <3> QED
      BY <1>1, <2>2, <2>5, <3>2, ExhaustedCovers
  <2> QED
    BY <2>1, <2>3, <2>4, <2>5
<1>3. CASE SetSpanOwner
  BY <1>1, <1>3, OwnerAccounts
<1>4. CASE FreeSpan
  BY <1>1, <1>4, FreeAccounts
<1>5. CASE UNCHANGED vars
  BY <1>1, <1>5 DEF vars, BytesCovered, LiveBytesExact, End
<1> QED
  BY <1>2, <1>3, <1>4, <1>5 DEF Next

\* The pages stay full and the counter exact in every reachable state.
LEMMA TInvHolds == Spec => []TInv
  BY TInvInit, TInvStep, PTL DEF Spec

\* Below the bump pointers no memory is lost: every aligned cell belongs to a
\* span, whatever was freed, reused or given up in between, so a sweep of all
\* spans sweeps the whole heap (allocSpan, WalkSpansChunk).
THEOREM NoMemoryLost == Spec => []PagesTiled
<1>1. ASSUME TInv PROVE PagesTiled
  <2> SUFFICES ASSUME NEW i \in 1..Len(pages),
                      NEW k \in 0..((pages[i].used \div ObjectAlignment) - 1)
               PROVE  \E off \in Offsets :
                        LET cell == pages[i].start + k * ObjectAlignment
                        IN off <= cell /\ cell < End(off)
    BY DEF PagesTiled
  <2>1. pages[i] \in Page
    BY <1>1 DEF TInv, HInv, TypeOK
  <2>2. PICK start \in Nat, used \in Nat : start = pages[i].start /\ used = pages[i].used
    BY <2>1 DEF Page
  <2>3. k \in Nat /\ k * 16 < used
    BY <2>2
  <2>4. PICK cell \in Nat : cell = start + k * 16
    BY <2>2, <2>3
  <2>5. start <= cell /\ cell < start + used
    BY SMTT(30), <2>2, <2>3, <2>4
  <2>6. \E off \in Offsets : off <= cell /\ cell < End(off)
    BY <1>1, <2>2, <2>5 DEF TInv, BytesCovered
  <2> QED
    BY <2>2, <2>4, <2>6
<1> QED
  BY <1>1, TInvHolds, PTL

\* The counter that paces the collector is exactly the bytes in live spans: no
\* double free, undercharged reuse or saturation ever drifts it (FreeSpan,
\* reuseFreeSpan, allocSpan).
THEOREM LiveBytesAreExact == Spec => []LiveBytesExact
<1>1. TInv => LiveBytesExact
  BY DEF TInv
<1> QED
  BY <1>1, TInvHolds, PTL
=============================================================================
