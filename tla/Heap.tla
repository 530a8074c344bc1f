-------------------------------- MODULE Heap --------------------------------
(***************************************************************************)
(* The span allocator of internal/runtime/heap: pages filled by a bump     *)
(* pointer, spans that are freed and handed out again whole, the order in  *)
(* which the collector walks the spans, and the live-byte counter that     *)
(* paces it.  Offsets and sizes are in bytes; offset 0 is reserved.        *)
(* Contents of the spans (headers, payload bytes) are left to the modules  *)
(* of the components that own them.                                        *)
(***************************************************************************)
EXTENDS Naturals, Sequences, Functions

CONSTANTS
  PageSize,      \* bytes of an ordinary page, already aligned by New
  ReservedSize,  \* bytes the native arena has reserved
  Requests       \* sizes callers ask for (0 is rejected before any effect)

ObjectAlignment == 16
CommonHeaderSize == 16

ASSUME HeapAssumption ==
  /\ PageSize \in Nat /\ PageSize > 0 /\ PageSize % ObjectAlignment = 0
  /\ ReservedSize \in Nat
  /\ Requests \subseteq Nat \ {0}

VARIABLES
  spans,      \* heap.allocations: offset -> span, never forgets an offset
  spanOrder,  \* offsets in the order the spans were first carved
  pages,      \* the pages, in the order they were opened
  nextPage,   \* where the next page will start
  liveBytes   \* gc.liveBytes

vars == <<spans, spanOrder, pages, nextPage, liveBytes>>

Span == [size : Nat, kind : {"object", "payload"}, state : {"live", "free"},
         owner : Nat]
Page == [start : Nat, size : Nat, used : Nat]

Offsets == DOMAIN spans

AlignUp(n) == ((n + (ObjectAlignment - 1)) \div ObjectAlignment) * ObjectAlignment

AtLeast(a, b) == IF a < b THEN b ELSE a

TypeOK ==
  /\ DOMAIN spans \subseteq Nat \ {0}
  /\ spans \in [Offsets -> Span]
  /\ spanOrder \in Seq(Nat)
  /\ pages \in Seq(Page)
  /\ nextPage \in Nat
  /\ liveBytes \in Nat

\* Slip: the first page starts at the reserved offset.
InitAtZero ==
  /\ spans = [off \in {} |-> 0]
  /\ spanOrder = <<>>
  /\ pages = <<>>
  /\ nextPage = 0
  /\ liveBytes = 0

Init ==
  /\ spans = [off \in {} |-> 0]
  /\ spanOrder = <<>>
  /\ pages = <<>>
  /\ nextPage = ObjectAlignment
  /\ liveBytes = 0

-----------------------------------------------------------------------------
(* Choosing memory                                                         *)

\* Slip: the reuse scan forgets to skip live spans.
FitsEvenLive(need) == {off \in Offsets : spans[off].size >= need}

\* The smallest free spans that hold the request: reuseFreeSpan ranges over a
\* Go map, so any span of that size may win.
Fits(need) == {off \in Offsets : spans[off].state = "free" /\ spans[off].size >= need}
BestFits(need) ==
  {off \in Fits(need) : \A other \in Fits(need) : spans[off].size <= spans[other].size}

\* Slip: the room in a page ignores what is used of it.
WholePage(page) == page.size

Remaining(page) == page.size - page.used

HasCurrentPage(need) == pages # <<>> /\ Remaining(pages[Len(pages)]) >= need

NewPage(need) ==
  [start |-> AlignUp(nextPage),
   size |-> IF need > PageSize THEN AlignUp(need) ELSE PageSize,
   used |-> 0]

\* Slip: opening a page drops the ones before it.
OnlyNewestPage(need) == IF HasCurrentPage(need) THEN pages ELSE <<NewPage(need)>>

\* The pages once one with room for the request is the last of them.
PagesFor(need) == IF HasCurrentPage(need) THEN pages ELSE Append(pages, NewPage(need))

\* A span's owner is 0 or an object span; a freed object span still qualifies.
ValidOwner(owner) == owner = 0 \/ (owner \in Offsets /\ spans[owner].kind = "object")

LiveSpan(size, kind, owner) ==
  [size |-> size, kind |-> kind, state |-> "live", owner |-> owner]

-----------------------------------------------------------------------------
(* Operations                                                              *)

\* Slip: a reused span is recorded with the size of the request.
ReuseShrunk(need, kind, owner) ==
  \E off \in BestFits(need) :
    /\ spans' = [spans EXCEPT ![off] = LiveSpan(need, kind, owner)]
    /\ liveBytes' = liveBytes + need
    /\ UNCHANGED <<spanOrder, pages, nextPage>>

\* Slip: a reused span is charged with the size of the request.
ReuseUndercharged(need, kind, owner) ==
  \E off \in BestFits(need) :
    /\ spans' = [spans EXCEPT ![off] = LiveSpan(spans[off].size, kind, owner)]
    /\ liveBytes' = liveBytes + need
    /\ UNCHANGED <<spanOrder, pages, nextPage>>

ReuseFreeSpan(need, kind, owner) ==
  \E off \in BestFits(need) :
    /\ spans' = [spans EXCEPT ![off] = LiveSpan(spans[off].size, kind, owner)]
    /\ liveBytes' = liveBytes + spans[off].size
    /\ UNCHANGED <<spanOrder, pages, nextPage>>

\* Slip: opening a page does not move where the next one starts.
OpenInPlace(opened) == nextPage' = nextPage

OpenPage(opened) ==
  nextPage' = IF Len(opened) = Len(pages) THEN nextPage
              ELSE opened[Len(opened)].start + opened[Len(opened)].size

CarveSpan(need, kind, owner) ==
  LET opened == PagesFor(need)
      last == Len(opened)
      off == opened[last].start + opened[last].used
  IN  /\ off + need <= ReservedSize
      /\ pages' = [opened EXCEPT ![last].used = @ + need]
      /\ OpenPage(opened)
      /\ spans' = [o \in Offsets \cup {off} |->
                     IF o = off THEN LiveSpan(need, kind, owner) ELSE spans[o]]
      /\ spanOrder' = Append(spanOrder, off)
      /\ liveBytes' = liveBytes + need

\* The arena cannot commit the span: the call fails, but a page it opened for
\* the request stays.
ArenaExhausted(need) ==
  LET opened == PagesFor(need)
      last == Len(opened)
  IN  /\ opened[last].start + opened[last].used + need > ReservedSize
      /\ pages' = opened
      /\ OpenPage(opened)
      /\ UNCHANGED <<spans, spanOrder, liveBytes>>

AllocSpan(size, kind, owner) ==
  LET need == AlignUp(size) IN
  IF Fits(need) # {} THEN ReuseFreeSpan(need, kind, owner)
  ELSE CarveSpan(need, kind, owner) \/ ArenaExhausted(need)

AllocObject == \E size \in Requests : AllocSpan(AtLeast(size, CommonHeaderSize), "object", 0)

AllocPayload ==
  \E size \in Requests, owner \in Offsets \cup {0} :
    ValidOwner(owner) /\ AllocSpan(size, "payload", owner)

SetSpanOwner ==
  \E off \in Offsets, owner \in Offsets \cup {0} :
    /\ spans[off].kind = "payload"
    /\ ValidOwner(owner)
    /\ spans' = [spans EXCEPT ![off].owner = owner]
    /\ UNCHANGED <<spanOrder, pages, nextPage, liveBytes>>

\* Freeing a free span again does nothing.
FreeSpan ==
  \E off \in Offsets :
    /\ spans[off].state = "live"
    /\ spans' = [spans EXCEPT ![off].state = "free", ![off].owner = 0]
    /\ liveBytes' = IF spans[off].size >= liveBytes THEN 0 ELSE liveBytes - spans[off].size
    /\ UNCHANGED <<spanOrder, pages, nextPage>>

Next == AllocObject \/ AllocPayload \/ SetSpanOwner \/ FreeSpan

Spec == Init /\ [][Next]_vars

-----------------------------------------------------------------------------
(* Properties                                                              *)

End(off) == off + spans[off].size

\* No two spans share a byte, whatever was freed, reused or carved before:
\* two objects never live in the same memory (allocSpan, reuseFreeSpan).
SpansDisjoint ==
  \A a, b \in Offsets : a # b => End(a) <= b \/ End(b) <= a

\* Every span lies inside the used prefix of a page and inside the reserved
\* arena, so Resolve finds the page of any span it is asked for and native code
\* may touch the bytes (findPage, EnsureCommitted).
SpansResolvable ==
  \A off \in Offsets :
    /\ End(off) <= ReservedSize
    /\ \E i \in 1..Len(pages) : /\ pages[i].start <= off
                                /\ End(off) <= pages[i].start + pages[i].used

\* Every aligned cell of a page's used prefix belongs to some span: reuse and
\* page changes lose no memory below the bump pointer, so sweeping all spans
\* sweeps the whole heap.
PagesTiled ==
  \A i \in 1..Len(pages) :
    \A k \in 0..((pages[i].used \div ObjectAlignment) - 1) :
      \E off \in Offsets : LET cell == pages[i].start + k * ObjectAlignment
                           IN off <= cell /\ cell < End(off)

\* The counter that triggers collections is exactly the bytes in live spans:
\* the saturating subtraction of FreeSpan never hides a double free.
LiveBytesExact ==
  liveBytes = SumFunctionOnSet([off \in Offsets |-> spans[off].size],
                               {off \in Offsets : spans[off].state = "live"})

\* The walk order lists every span exactly once and in address order, so a
\* sweep visits each span once per pass (WalkSpansChunk).
OrderEnumeratesSpans ==
  /\ {spanOrder[i] : i \in 1..Len(spanOrder)} = Offsets
  /\ \A i, j \in 1..Len(spanOrder) : i < j => spanOrder[i] < spanOrder[j]

\* A live span keeps its kind and size until it is freed: no allocation ever
\* hands out memory that is still in use, and the walk never forgets a span.
LiveSpansStable ==
  [][\A off \in Offsets :
       /\ off \in DOMAIN spans'
       /\ spans'[off].size = spans[off].size
       /\ spans[off].state = "live" /\ spans'[off].state = "live"
            => spans'[off].kind = spans[off].kind]_vars
=============================================================================
