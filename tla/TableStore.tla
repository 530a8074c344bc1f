----------------------------- MODULE TableStore -----------------------------
(***************************************************************************)
(* One table of the store: the array part, the open-addressed hash part,   *)
(* the version, and the inline caches that read and write the table by     *)
(* slot while the version they recorded is the table's.                    *)
(*                                                                         *)
(* The version is a counter that only ever says whether it has moved since *)
(* a cache recorded it, so a cache carries that answer instead             *)
(* ("current"); that it comes round after 2^32 changes is left out.  A     *)
(* metatable blocks the fast paths; what its own functions do to other     *)
(* tables is not modelled, nor is a failed allocation, which leaves the    *)
(* table as it was.  Native code may store only while no mark phase runs   *)
(* and otherwise takes the path of the host.                               *)
(***************************************************************************)
EXTENDS Naturals, Sequences, FiniteSetsExt

CONSTANTS
  Names,       \* interned strings used as keys
  MetaNames,   \* those that begin with two underscores
  CallName,    \* "__call", one of them
  Indices,     \* positive integers used as keys
  Values, Nil,
  ValuesOf,    \* bound: the values assigned to each key
  Metatables,  \* what SetMetatable may be given
  Hash,        \* the seeded hash of each key
  ArraySizes, HashSizes,      \* capacities New is asked for
  Starts, ListLengths,        \* bounds on the lists SETLIST stores
  MinHashCapacity, LoadShare, \* 16 slots; all but one in 8 may be used
  FirstArray, DenseArray,     \* 16 and 1024: indices that still grow the array
  MaxLenSearchIndex,          \* 2^31 - 1: where the length is no longer sought by doubling
  Sites                       \* instructions that read or write the table

Keys == Names \cup Indices
Content == Values \cup {Nil}
ContentOf(k) == ValuesOf[k] \cup {Nil}

ASSUME TableAssumption ==
  /\ Names \cap Nat = {} /\ Indices \subseteq Nat \ {0}
  /\ MetaNames \subseteq Names /\ CallName \in MetaNames
  /\ Nil \notin Keys \cup Values \cup Metatables \cup Sites
  /\ ValuesOf \in [Keys -> SUBSET Values] /\ Hash \in [Keys -> Nat]
  /\ ArraySizes \subseteq Nat /\ HashSizes \subseteq Nat
  /\ LoadShare \in Nat /\ LoadShare >= 2 /\ MinHashCapacity \in Nat /\ MinHashCapacity >= LoadShare
  /\ FirstArray \in Nat /\ DenseArray \in Nat
  /\ Starts \subseteq Nat \ {0} /\ ListLengths \subseteq Nat
  /\ \A start \in Starts, n \in ListLengths : start..(start + n - 1) \subseteq Indices
  /\ MaxLenSearchIndex \in Nat
  /\ \E i \in 1..(MaxLenSearchIndex - 1) : i \notin Indices

VARIABLES
  array,      \* the array part: Len(array) is ArrayCap
  slots,      \* control bytes and entries of the hash part, from 0
  count,      \* HashCount
  metatable,  \* a table with one is blocked for the fast paths
  cells,      \* the inline cache of each site
  target,     \* the "__call" a call site has cached for this metatable, if it is current
  assigned    \* history: what the assignments so far have made of the table

table == <<array, slots, count, metatable>>
vars == <<table, cells, target, assigned>>

-----------------------------------------------------------------------------
(* The hash part. *)

Empty == [ctrl |-> "empty", key |-> Nil, value |-> Nil]
\* Slip: deletion frees the slot, and the entries behind it cannot be reached.
DeletedAsEmpty == Empty
Deleted == [ctrl |-> "deleted", key |-> Nil, value |-> Nil]
Entry(k, v) == [ctrl |-> "full", key |-> k, value |-> v]

Capacity(part) == Cardinality(DOMAIN part)
MaxLoad(capacity) == capacity - capacity \div LoadShare
NextPowerOfTwo(n) ==
  LET From[m \in Nat \ {0}] == IF m >= n THEN m ELSE From[2 * m]
  IN From[1]
EmptyPart(capacity) == [p \in 0..(capacity - 1) |-> Empty]
NoPart == EmptyPart(0)
NormalizedCapacity(n) == NextPowerOfTwo(Max({n, MinHashCapacity}))

\* Linear probing: the entry of the key if one comes before the first empty slot, and
\* otherwise the slot for a new one, the first deleted slot passed on the way if any.
FindEntry(part, k) ==
  LET capacity == Capacity(part)
      probes == 0..(capacity - 1)
      At(probe) == (Hash[k] + probe) % capacity
      stop == CHOOSE n \in probes \cup {capacity} :
                /\ n = capacity \/ part[At(n)].ctrl = "empty" \/ part[At(n)].key = k
                /\ \A n2 \in 0..(n - 1) : part[At(n2)].ctrl # "empty" /\ part[At(n2)].key # k
      Free == {n \in 0..(stop - 1) : part[At(n)].ctrl = "deleted"}
      found == stop < capacity /\ part[At(stop)].key = k
  IN [found |-> found, slot |-> At(IF found \/ Free = {} THEN stop ELSE Min(Free))]

Found(part, k) == part # NoPart /\ FindEntry(part, k).found
Lookup(part, k) ==
  LET entry == FindEntry(part, k)
  IN IF part # NoPart /\ entry.found THEN part[entry.slot].value ELSE Nil

\* The entries, in slot order, inserted into a new part.
Rehash(part, capacity) ==
  LET filled[n \in 0..Capacity(part)] ==
        IF n = 0 THEN EmptyPart(capacity)
        ELSE LET before == filled[n - 1]
             IN IF part[n - 1].ctrl # "full" THEN before
                ELSE [before EXCEPT ![FindEntry(before, part[n - 1].key).slot] = part[n - 1]]
  IN filled[Capacity(part)]

-----------------------------------------------------------------------------
(* Reading. *)

InArray(k, part) == k \in Indices /\ k <= Len(part)

Get(k) == IF InArray(k, array) /\ array[k] # Nil THEN array[k] ELSE Lookup(slots, k)

\* Slip: the hash part is forgotten.
IntegerKeyInArray(i) == i <= Len(array) /\ array[i] # Nil

IntegerKeyPresent(i) ==
  IF i <= Len(array) THEN array[i] # Nil ELSE i \in Indices /\ Lookup(slots, i) # Nil

\* Counting from one: where the first absent index follows.
LinearLength ==
  Min({n \in 0..(MaxLenSearchIndex - 2) : ~IntegerKeyPresent(n + 1)} \cup {MaxLenSearchIndex})

\* The length of the table: a binary search in the array when its last slot is nil, and
\* otherwise beyond it, doubling the index before the search while that is in range.
Length ==
  LET Bisect[range \in Nat \X Nat] ==
        LET i == range[1]
            j == range[2]
            mid == (i + j) \div 2
        IN IF j - i <= 1 THEN i
           ELSE Bisect[IF IntegerKeyPresent(mid) THEN <<mid, j>> ELSE <<i, mid>>]
      Unbound[range \in Nat \X (Nat \ {0})] ==
        LET j == range[2]
        IN IF ~IntegerKeyPresent(j) THEN Bisect[range]
           ELSE IF j > MaxLenSearchIndex \div 2 THEN LinearLength ELSE Unbound[<<j, 2 * j>>]
      size == Len(array)
  IN IF size > 0 /\ array[size] = Nil THEN Bisect[<<0, size>>]
     ELSE IF slots = NoPart THEN size
     ELSE IF size >= MaxLenSearchIndex THEN LinearLength ELSE Unbound[<<size, size + 1>>]

-----------------------------------------------------------------------------
(* Inline caches. *)

NoAccess == [kind |-> "invalid", key |-> Nil, slot |-> 0]
Generic(kind) == [kind |-> kind, state |-> "generic", access |-> NoAccess, current |-> FALSE]
Megamorphic(cell) == [Generic(cell.kind) EXCEPT !.state = "megamorphic"]
Monomorphic(cell, access) ==
  [kind |-> cell.kind, state |-> "monomorphic", access |-> access, current |-> TRUE]

Getters == {s \in Sites : cells[s].kind = "get"}
Setters == {s \in Sites : cells[s].kind = "set"}
Hits(cell) == cell.state = "monomorphic" /\ cell.current

\* Slip: a nil of the array part is reached by slot too.
DescribeFastNil(k, a, part, meta) ==
  IF meta # Nil THEN NoAccess
  ELSE IF InArray(k, a) THEN [kind |-> "array", key |-> k, slot |-> k - 1]
  ELSE IF k \in Names /\ Lookup(part, k) # Nil
       THEN [kind |-> "hash", key |-> k, slot |-> FindEntry(part, k).slot]
  ELSE NoAccess

\* The slot a cache may use for the key, given the parts and the metatable.
DescribeFast(k, a, part, meta) ==
  IF meta # Nil THEN NoAccess
  ELSE IF InArray(k, a) /\ a[k] # Nil
       THEN [kind |-> "array", key |-> k, slot |-> k - 1]
  ELSE IF k \in Names /\ Lookup(part, k) # Nil
       THEN [kind |-> "hash", key |-> k, slot |-> FindEntry(part, k).slot]
  ELSE NoAccess

NextTableCell(cell, access) ==
  IF access = NoAccess
  THEN IF cell.state = "monomorphic" THEN Megamorphic(cell) ELSE cell
  ELSE IF \/ cell.state = "generic"
          \/ cell.state = "monomorphic"
             /\ cell.access.kind = access.kind /\ cell.access.key = access.key
       THEN Monomorphic(cell, access)
       ELSE Megamorphic(cell)

\* The version moves: no cache is current any more.  The slot of a stale cache is never read.
Stale(cell) == [cell EXCEPT !.current = FALSE, !.access.slot = 0]

\* Who runs an operation: the host or a helper, which touch no cache; the interpreter at a
\* site, whose cache learns how to reach the key; or the slow path of compiled code there,
\* which gives the cache up.
Host == [site |-> Nil, learns |-> FALSE]
Interpreted(s) == [site |-> s, learns |-> TRUE]
Compiled(s) == [site |-> s, learns |-> FALSE]
Runs(sites) == {Interpreted(s) : s \in sites} \cup {Compiled(s) : s \in sites}

\* The caches after an operation that moved the version or not.
Settle(moved, by, access) ==
  /\ cells' = [x \in Sites |->
                LET cell == IF moved THEN Stale(cells[x]) ELSE cells[x]
                IN IF x # by.site THEN cell
                   ELSE NextTableCell(cell, IF by.learns THEN access ELSE NoAccess)]
  /\ target' = IF moved THEN Nil ELSE target

-----------------------------------------------------------------------------
(* Operations. *)

\* New, with the capacities the constructor counted.
Init ==
  /\ \E n \in ArraySizes : array = [i \in 1..(IF n = 0 THEN 0 ELSE NextPowerOfTwo(n)) |-> Nil]
  /\ \E n \in HashSizes : slots = EmptyPart(IF n = 0 THEN 0 ELSE NormalizedCapacity(n))
  /\ count = 0
  /\ metatable = Nil
  /\ cells \in [Sites -> {Generic("get"), Generic("set")}]
  /\ target = Nil
  /\ assigned = [k \in Keys |-> Nil]

\* Slip: nil never takes the array path.
ShouldUseArrayPathNotNil(k, v) ==
  /\ k \in Indices /\ v # Nil
  /\ \/ k <= Len(array)
     \/ Len(array) = 0 /\ k <= FirstArray
     \/ Len(array) > 0 /\ (k <= DenseArray \/ k <= 2 * Len(array))

ShouldUseArrayPath(k, v) ==
  /\ k \in Indices
  /\ \/ k <= Len(array)
     \/ /\ v # Nil
        /\ \/ Len(array) = 0 /\ k <= FirstArray
           \/ Len(array) > 0 /\ (k <= DenseArray \/ k <= 2 * Len(array))

\* A new array payload with the old contents; it moves the version unless it is the first.
EnsureArrayCapacity(minimum) ==
  [i \in 1..Max({NextPowerOfTwo(minimum), Len(array)}) |->
     IF i <= Len(array) THEN array[i] ELSE Nil]

SetArrayValue(i, v, by) ==
  LET grown == IF i <= Len(array) THEN array ELSE EnsureArrayCapacity(i)
      moved == (i > Len(array) /\ array # <<>>) \/ ((grown[i] = Nil) # (v = Nil))
  IN /\ array' = [grown EXCEPT ![i] = v]
     /\ UNCHANGED <<slots, count, metatable>>
     /\ Settle(moved, by, IF v = Nil THEN NoAccess ELSE DescribeFast(i, array', slots, metatable))

\* The entries whose replacement moves the version.
\* Slip: none.
VersionSensitiveNone(k) == FALSE
IsVersionSensitiveKey(k) == k \in MetaNames

\* The hash part a value is stored in: a first one, or one twice the size when another
\* entry would exceed the load, whether or not the key has an entry already.
RoomFor(v) ==
  CASE v = Nil -> slots
    [] v # Nil /\ slots = NoPart -> EmptyPart(NormalizedCapacity(MinHashCapacity))
    [] v # Nil /\ slots # NoPart ->
         IF count + 1 > MaxLoad(Capacity(slots)) THEN Rehash(slots, 2 * Capacity(slots)) ELSE slots

SetHashValue(k, v, by) ==
  LET part == RoomFor(v)
      rehashed == slots # NoPart /\ Capacity(part) # Capacity(slots)
      slot == FindEntry(part, k).slot
      Stored(entry, size, moved) ==
        /\ slots' = [part EXCEPT ![slot] = entry]
        /\ count' = size
        /\ UNCHANGED <<array, metatable>>
        /\ Settle(moved \/ rehashed, by,
                  IF v = Nil THEN NoAccess ELSE DescribeFast(k, array, slots', metatable))
  IN \/ /\ v = Nil /\ ~Found(part, k)
        /\ UNCHANGED table
        /\ Settle(FALSE, by, NoAccess)
     \/ v = Nil /\ Found(part, k) /\ Stored(Deleted, IF count > 0 THEN count - 1 ELSE 0, TRUE)
     \/ v # Nil /\ Found(part, k)
        /\ Stored(Entry(k, v), count, IsVersionSensitiveKey(k) /\ part[slot].value # v)
     \/ v # Nil /\ ~Found(part, k) /\ Stored(Entry(k, v), count + 1, TRUE)

\* Store.Set.
Set(k, v, by) ==
  /\ IF ShouldUseArrayPath(k, v) THEN SetArrayValue(k, v, by) ELSE SetHashValue(k, v, by)
  /\ assigned' = [assigned EXCEPT ![k] = v]

\* The native stub of a store with a string key: it overwrites an entry, whatever the name.
SetNatively(k, v, s) ==
  /\ k \in Names /\ v # Nil /\ Found(slots, k)
  /\ slots' = [slots EXCEPT ![FindEntry(slots, k).slot].value = v]
  /\ UNCHANGED <<array, count, metatable>>
  /\ Settle(FALSE, Interpreted(s), DescribeFast(k, array, slots', metatable))
  /\ assigned' = [assigned EXCEPT ![k] = v]

\* Compiled code stores through its cache, without a call.
SetThroughCell(s, v) ==
  LET access == cells[s].access
  IN /\ Hits(cells[s]) /\ v # Nil
     /\ \/ /\ access.kind = "array"
           /\ array' = [array EXCEPT ![access.slot + 1] = v]
           /\ UNCHANGED slots
        \/ /\ access.kind = "hash"
           /\ slots' = [slots EXCEPT ![access.slot].value = v]
           /\ UNCHANGED array
     /\ UNCHANGED <<count, metatable, cells, target>>
     /\ assigned' = [assigned EXCEPT ![access.key] = v]

\* A table under construction is in no cache that will be asked again: the caches that hold
\* it are those of the constructor's own stores, and a constructor run again makes another.
Unseen == target = Nil /\ \A s \in Sites : ~Hits(cells[s])

Listed(part, start, list) ==
  [i \in DOMAIN part |->
     IF i \in start..(start + Len(list) - 1) THEN list[i - start + 1] ELSE part[i]]

Lists(start, n) == {list \in [1..n -> Content] : \A i \in 1..n : list[i] \in ContentOf(start + i - 1)}

\* The list of a constructor goes to the array part: by Store.SetListArray, which always
\* takes a new payload, or natively when the array has the room.
SetListArray(start, list) ==
  LET grown == EnsureArrayCapacity(start + Len(list) - 1)
      Presence(part) == {i \in DOMAIN part : part[i] # Nil}
  IN /\ Unseen /\ metatable = Nil
     /\ array' = Listed(grown, start, list)
     /\ UNCHANGED <<slots, count, metatable>>
     /\ Settle(array # <<>> \/ Presence(array') # Presence(grown), Host, NoAccess)
     /\ assigned' = Listed(assigned, start, list)

SetListNatively(start, list) ==
  /\ Unseen /\ metatable = Nil
  /\ start + Len(list) - 1 <= Len(array)
  /\ array' = Listed(array, start, list)
  /\ UNCHANGED <<slots, count, metatable, cells, target>>
  /\ assigned' = Listed(assigned, start, list)

SetMetatable(m) ==
  /\ m # metatable
  /\ metatable' = m
  /\ UNCHANGED <<array, slots, count, assigned>>
  /\ Settle(TRUE, Host, NoAccess)

\* A read that does not go through the cache.  The slow path of compiled code looks for
\* names in the hash part and learns like the interpreter; it leaves other keys to a helper.
Read(k, by) ==
  /\ UNCHANGED <<table, assigned>>
  /\ Settle(FALSE, IF k \in Names THEN Interpreted(by.site) ELSE by,
            DescribeFast(k, array, slots, metatable))

\* A call of a value whose metatable this table is: its cache keeps the target.
ResolveCall ==
  /\ Get(CallName) # Nil
  /\ target' = Get(CallName)
  /\ UNCHANGED <<table, cells, assigned>>

Next ==
  \/ \E k \in Keys, by \in {Host} \cup Runs(Setters) : \E v \in ContentOf(k) : Set(k, v, by)
  \/ \E k \in Names, s \in Setters : \E v \in ValuesOf[k] : SetNatively(k, v, s)
  \/ \E s \in {z \in Setters : Hits(cells[z])} : \E v \in ValuesOf[cells[s].access.key] : SetThroughCell(s, v)
  \/ \E start \in Starts, n \in ListLengths : \E list \in Lists(start, n) :
       SetListArray(start, list) \/ SetListNatively(start, list)
  \/ \E m \in Metatables \cup {Nil} : SetMetatable(m)
  \/ \E k \in Keys, by \in Runs(Getters) : Read(k, by)
  \/ ResolveCall

Spec == Init /\ [][Next]_vars

-----------------------------------------------------------------------------
(* Two steps of the code break what follows: the array part grows over an  *)
(* index the hash part holds, and native code overwrites a metamethod.     *)
(* The first breaks the map and the length, the second the targets of calls. *)

GrowsOverEntry ==
  \E p \in DOMAIN slots : slots[p].key \in Len(array) + 1 .. Len(array')

OverwritesMetamethod ==
  \E k \in MetaNames :
    /\ assigned'[k] # assigned[k]
    /\ \E s \in Setters, v \in Values :
         SetNatively(k, v, s) \/ (SetThroughCell(s, v) /\ cells[s].access.key = k)

EntriesKeptSpec == Init /\ [][Next /\ ~GrowsOverEntry]_vars
MetamethodsKeptSpec == Init /\ [][Next /\ ~OverwritesMetamethod]_vars
ClearSpec == Init /\ [][Next /\ ~GrowsOverEntry /\ ~OverwritesMetamethod]_vars
-----------------------------------------------------------------------------
(* Properties. *)

TypeOK ==
  /\ array \in Seq(Content)
  /\ slots \in [0..(Capacity(slots) - 1) ->
                {Empty, Deleted} \cup {Entry(k, v) : k \in Keys, v \in Values}]
  /\ count \in Nat
  /\ metatable \in Metatables \cup {Nil}
  /\ target \in Content
  /\ assigned \in [Keys -> Content]
  /\ \A s \in Sites :
       /\ cells[s].state \in {"generic", "monomorphic", "megamorphic"}
       /\ cells[s].state = "monomorphic" <=> cells[s].access # NoAccess
       /\ cells[s].current => cells[s].state = "monomorphic"

\* No key has two entries; each entry is the one a search for its key ends at, although
\* deletions have left holes in the probe sequences and insertions have filled some; the
\* count is that of the entries and leaves a slot free, so every search ends.
HashSound ==
  LET Full == {p \in DOMAIN slots : slots[p].ctrl = "full"}
  IN /\ \A p \in Full : FindEntry(slots, slots[p].key) = [found |-> TRUE, slot |-> p]
     /\ count = Cardinality(Full)
     /\ slots # NoPart => count <= MaxLoad(Capacity(slots)) /\ count < Capacity(slots)

\* A cache that still matches the version names the slot its key's value is in: compiled
\* code reads the slot without looking at the key or for nil.
CellsSound ==
  \A s \in Sites : Hits(cells[s]) =>
    LET access == cells[s].access
    IN IF access.kind = "array"
       THEN access.slot + 1 = access.key /\ InArray(access.key, array) /\ array[access.key] # Nil
       ELSE access.slot \in DOMAIN slots /\ slots[access.slot].key = access.key
            /\ slots[access.slot].value = Get(access.key)

\* A call through a metatable whose version still matches calls what "__call" is now.
TargetSound == target # Nil => target = Get(CallName)

\* The length is a border: the value at it is present and the next one is not.
LengthIsBorder ==
  LET Present(i) == i \in Indices /\ Get(i) # Nil
  IN (Length = 0 \/ Present(Length)) /\ ~Present(Length + 1)

\* A read finds what was last assigned to the key, by whichever way.
MapKept == \A k \in Keys : Get(k) = assigned[k]
=============================================================================
