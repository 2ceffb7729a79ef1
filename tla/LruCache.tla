------------------------------ MODULE LruCache ------------------------------
(***************************************************************************)
(* LruCache (storage/lru_cache.h), the container of the session table and  *)
(* of the learnt history: elements allocated in blocks, a singly linked    *)
(* free list, a doubly linked list in order of use, and a hash table.      *)
(* Every method is one action, as callers hold their own locks.  An        *)
(* element is its number in order of allocation; Nil is the null pointer.  *)
(* The state is one record, so that the private methods are operators from *)
(* caches to caches.  A failed CHECK ends the program: field ok says that  *)
(* none has failed.                                                        *)
(***************************************************************************)
EXTENDS Integers, Sequences, FiniteSets, SequencesExt

CONSTANTS
  Key,
  NoKey,        \* the key of an element that never had one
  Mixed,        \* the data of more than one key
  Capacities,   \* values of max_elements to construct a cache with
  MaxBlocks,    \* number of blocks_
  SmallLimit,   \* up to this size a cache is a single block
  FirstBlock    \* the first block of a larger cache

VARIABLES
  max_elements,
  cache,
  added         \* history: the keys that AddHistoryEntry put in as new ones

vars == <<max_elements, cache, added>>

Nil == 0
Elements == 1 .. max_elements

\* A value is known by the key whose data (frequency, successors) it holds, or
\* as one with the data of several.
Value == Key \cup {NoKey, Mixed}

-----------------------------------------------------------------------------
\* 1 << n.
Shift[n \in Nat] == IF n = 0 THEN 1 ELSE 2 * Shift[n - 1]

\* The constructor's first block size: doubled until a block MaxBlocks times
\* shifted could hold max elements.
Enough(max, n) == FirstBlock * Shift[n + MaxBlocks] >= max
InitialBlockSize(max) ==
  IF max <= SmallLimit THEN max
  ELSE FirstBlock * Shift[CHOOSE n \in 0 .. max :
                            Enough(max, n) /\ \A m \in 0 .. n - 1 : ~Enough(max, m)]

\* The sizes are such that the blocks can reach them, as those of the code's
\* caches (at most 128, and 10000) do: the last block is at most twice as
\* large as the one before, and the first leaves something for each of the
\* others (64 of at least 129 elements, ten blocks).
ASSUME CapacityAssumption ==
  /\ NoKey \notin Key
  /\ Capacities \subseteq Nat \ {0}
  /\ MaxBlocks \in Nat \ {0} /\ SmallLimit \in Nat /\ FirstBlock \in Nat \ {0}
  /\ \A max \in Capacities :
       /\ max <= InitialBlockSize(max) * (Shift[MaxBlocks] - 1)
       /\ max > SmallLimit => InitialBlockSize(max) + MaxBlocks - 1 <= max

Init ==
  /\ max_elements \in Capacities
  /\ cache = [table |-> [k \in Key |-> Nil],
              next |-> [e \in Elements |-> Nil],
              prev |-> [e \in Elements |-> Nil],
              key |-> [e \in Elements |-> NoKey],
              value |-> [e \in Elements |-> NoKey],
              free_list |-> Nil, lru_head |-> Nil, lru_tail |-> Nil,
              block_count |-> 0, block_capacity |-> 0,
              next_block_size |-> InitialBlockSize(max_elements),
              ok |-> TRUE]
  /\ added = {}

\* AddBlock's rule for the block after one that brings the capacity to cap,
\* with remaining blocks left.
NextBlockSize(size, cap, remaining) ==
  LET left == max_elements - cap
      doubled == 2 * size
      shared == IF doubled > left \div remaining THEN left \div remaining
                                                 ELSE doubled IN
    IF cap + shared > max_elements THEN left ELSE shared

AddBlock(c) ==
  IF ~(c.block_count < MaxBlocks /\ c.block_capacity < max_elements) THEN c
  ELSE
    LET first == c.block_capacity + 1
        last == c.block_capacity + c.next_block_size
        remaining == MaxBlocks - (c.block_count + 1) IN
      [c EXCEPT
        !.block_count = @ + 1,
        !.block_capacity = last,
        !.prev = [e \in Elements |-> IF e \in first .. last THEN Nil ELSE @[e]],
        !.next = [e \in Elements |->
                   IF e \in first .. last
                   THEN IF e = first THEN c.free_list ELSE e - 1
                   ELSE @[e]],
        !.free_list = IF first <= last THEN last ELSE @,
        !.next_block_size =
           IF remaining > 0 THEN NextBlockSize(@, last, remaining) ELSE @]

PushFreeList(c, e) ==
  [c EXCEPT !.prev[e] = Nil, !.next[e] = c.free_list, !.free_list = e]

\* PopFreeList; the element is the c.free_list of before.
PopFreeList(c) ==
  LET r == c.free_list IN
    IF r = Nil THEN c
    ELSE [c EXCEPT
           !.ok = @ /\ c.prev[r] = Nil,
           !.free_list = c.next[r],
           !.prev = [e \in Elements |-> IF e = c.next[r] THEN Nil ELSE @[e]],
           !.next[r] = Nil]

\* NextFreeElement's first half: a block is added when the free list is empty.
Refilled(c) == IF c.free_list = Nil THEN AddBlock(c) ELSE c

RemoveFromLRU(c, e) ==
  [c EXCEPT
    !.lru_head = IF @ = e THEN c.next[e] ELSE @,
    !.lru_tail = IF @ = e THEN c.prev[e] ELSE @,
    !.next = [x \in Elements |-> IF x = e THEN Nil
                                 ELSE IF x = c.prev[e] THEN c.next[e] ELSE @[x]],
    !.prev = [x \in Elements |-> IF x = e THEN Nil
                                 ELSE IF x = c.next[e] THEN c.prev[e] ELSE @[x]]]

\* Mutant: the former head does not point back to the new one.
PushLRUHead_NoBackLink(c, e) ==
  IF c.lru_head = e THEN c
  ELSE LET d == RemoveFromLRU(c, e) IN
         [d EXCEPT
           !.next[e] = d.lru_head,
           !.lru_head = e,
           !.lru_tail = IF @ = Nil THEN e ELSE @]

PushLRUHead(c, e) ==
  IF c.lru_head = e THEN c
  ELSE LET d == RemoveFromLRU(c, e) IN
         [d EXCEPT
           !.next[e] = d.lru_head,
           !.lru_head = e,
           !.prev = [x \in Elements |-> IF x = d.lru_head THEN e ELSE @[x]],
           !.lru_tail = IF @ = Nil THEN e ELSE @]

\* Evict: CHECK_EQ(erased, 1) asks that the table knew the element's key.
Evict(c, e) ==
  LET known == c.table[c.key[e]] # Nil
      erased == [c EXCEPT !.table[c.key[e]] = Nil, !.ok = @ /\ known] IN
    PushFreeList(RemoveFromLRU(erased, e), e)

\* The keys of cache c.
Present(c) == {k \in Key : c.table[k] # Nil}

\* The value v after the data of k was written into it.
Merged(v, k) == IF v \in {NoKey, k} THEN k ELSE Mixed

-----------------------------------------------------------------------------
\* Mutant: the new element is taken before the present one is given back.
Inserted_FreshFirst(k) ==
  LET c1 == Refilled(cache)
      c2 == IF c1.free_list # Nil THEN c1 ELSE Refilled(Evict(c1, c1.lru_tail))
      e == c2.free_list
      c3 == PopFreeList(c2)
      c4 == IF c3.table[k] = Nil THEN c3 ELSE Evict(c3, c3.table[k]) IN
    PushLRUHead([c4 EXCEPT !.key[e] = k, !.table[k] = e], e)

\* Mutant: a full cache loses its most recently used key.
Inserted_EvictsHead(k) ==
  LET c0 == IF cache.table[k] = Nil THEN cache ELSE Evict(cache, cache.table[k])
      c1 == Refilled(c0)
      c2 == IF c1.free_list # Nil THEN c1 ELSE Refilled(Evict(c1, c1.lru_head))
      e == c2.free_list IN
    PushLRUHead([PopFreeList(c2) EXCEPT !.key[e] = k, !.table[k] = e], e)

\* Insert(key): the cache with an element for k at the head of the list.  Its
\* value is the one the element had; the caller sets it.
Inserted(k) ==
  LET c0 == IF cache.table[k] = Nil THEN cache ELSE Evict(cache, cache.table[k])
      c1 == Refilled(c0)
      c2 == IF c1.free_list # Nil THEN c1 ELSE Refilled(Evict(c1, c1.lru_tail))
      e == c2.free_list IN
    PushLRUHead([PopFreeList(c2) EXCEPT !.key[e] = k, !.table[k] = e], e)

\* Insert(key, value): sessions, and entries loaded from the file.
Insert(k) ==
  /\ cache' = LET c == Inserted(k) IN [c EXCEPT !.value[c.table[k]] = k]
  /\ added' = (added \ {k}) \cap Present(cache')
  /\ UNCHANGED max_elements

\* UserHistoryPredictor::Insert: an entry that was there is read and updated
\* through the new element, one that was not is cleared first.
LearnEntry(k) ==
  /\ cache' = LET c == Inserted(k) IN
       [c EXCEPT !.value[c.table[k]] =
          IF k \in Present(cache) THEN Merged(@, k) ELSE k]
  /\ added' = added \cap Present(cache')
  /\ UNCHANGED max_elements

\* UserHistoryPredictor::AddHistoryEntry: the entry is updated as it is found,
\* a new one too.
AddHistoryEntry(k) ==
  /\ cache' = LET c == Inserted(k) IN [c EXCEPT !.value[c.table[k]] = Merged(@, k)]
  /\ added' = (added \cup ({k} \ Present(cache))) \cap Present(cache')
  /\ UNCHANGED max_elements

\* Lookup and MutableLookup.
MutableLookup(k) ==
  /\ cache.table[k] # Nil
  /\ cache' = PushLRUHead(cache, cache.table[k])
  /\ UNCHANGED <<max_elements, added>>

Erase(k) ==
  /\ cache.table[k] # Nil
  /\ cache' = Evict(cache, cache.table[k])
  /\ added' = added \ {k}
  /\ UNCHANGED max_elements

-----------------------------------------------------------------------------
\* Where n steps along the pointers of next lead from start.
Walk(next, start) ==
  LET at[n \in 0 .. max_elements] ==
        IF n = 0 THEN start
        ELSE LET e == at[n - 1] IN IF e = Nil THEN Nil ELSE next[e]
  IN  at

\* The elements that the pointers of next reach from start.
List(next, start) ==
  LET at == Walk(next, start) IN
    [n \in 1 .. Cardinality({m \in 0 .. max_elements : at[m] # Nil}) |-> at[n - 1]]

LruList == List(cache.next, cache.lru_head)
FreeList == List(cache.next, cache.free_list)

\* The cache after the first n elements of q were pushed onto the free list.
Freed(c, q) ==
  LET freed[n \in 0 .. Len(q)] ==
        IF n = 0 THEN c ELSE PushFreeList(freed[n - 1], q[n])
  IN  freed

\* Clear pushes each element of the list onto the free list; the iterator has
\* read the next element before.
Clear ==
  /\ cache' = [Freed(cache, LruList)[Len(LruList)] EXCEPT
                 !.table = [k \in Key |-> Nil],
                 !.lru_head = Nil, !.lru_tail = Nil]
  /\ added' = {}
  /\ UNCHANGED max_elements

Next ==
  \/ \E k \in Key : \/ Insert(k) \/ LearnEntry(k) \/ AddHistoryEntry(k)
                    \/ MutableLookup(k) \/ Erase(k)
  \/ Clear

Spec == Init /\ [][Next]_vars
-----------------------------------------------------------------------------
\* Every field holds a value of its type, and no CHECK of lru_cache.h has
\* failed: an element taken from the free list has no predecessor, an evicted
\* element's key is in the table.
Pointers == Elements \cup {Nil}
Caches ==
  [table : [Key -> Pointers], next : [Elements -> Pointers],
   prev : [Elements -> Pointers], key : [Elements -> Key \cup {NoKey}],
   value : [Elements -> Value],
   free_list : Pointers, lru_head : Pointers, lru_tail : Pointers,
   block_count : 0 .. MaxBlocks, block_capacity : 0 .. max_elements,
   next_block_size : Nat, ok : BOOLEAN]

TypeOK ==
  /\ max_elements \in Capacities
  /\ cache \in Caches /\ cache.ok
  /\ added \subseteq Key

\* Every allocated element is on exactly one of the two lists, once; the list
\* of use is doubly linked from head to tail; and the table leads from each
\* key to the element on that list that carries it.  No order of insertions,
\* look-ups, removals, evictions and added blocks leaks an element, shares one
\* or leaves a stale pointer.
ListsAreConsistent ==
  LET used == LruList
      free == FreeList IN
    /\ TypeOK
    /\ IsInjective(used) /\ IsInjective(free)
    /\ ToSet(used) \cap ToSet(free) = {}
    /\ ToSet(used) \cup ToSet(free) = 1 .. cache.block_capacity
    /\ \A i \in DOMAIN used :
         /\ cache.prev[used[i]] = IF i = 1 THEN Nil ELSE used[i - 1]
         /\ cache.table[cache.key[used[i]]] = used[i]
    /\ cache.lru_tail = IF used = << >> THEN Nil ELSE Last(used)
    /\ \A k \in Key : cache.table[k] # Nil =>
         cache.table[k] \in ToSet(used) /\ cache.key[cache.table[k]] = k

\* What is found under a key holds that key's data, and no other key's unless
\* AddHistoryEntry put the key in: elements are recycled with the data of the
\* key before, but a learnt entry that is inserted again keeps its frequency
\* ("Roll back to the entry state before this commit" relies on it), and an
\* entry that is loaded or learnt as a new one is free of what it held.
EntryHoldsOwnData ==
  \A k \in Key : cache.table[k] # Nil =>
    cache.value[cache.table[k]] = k \/ k \in added

\* Every new entry starts empty, whichever method adds it: the predictor's
\* comment says "`entry` might be reused from the heap, so explicitly clear".
NewEntryIsClear ==
  \A k \in Key : cache.table[k] # Nil => cache.value[cache.table[k]] = k

\* The keys in their order of use.
KeyOrder == LET used == LruList IN [i \in DOMAIN used |-> cache.key[used[i]]]

\* The cache is a bounded map with a least-recently-used order: what the
\* comments of lru_cache.h promise its users.
Map == INSTANCE LruMap WITH
  capacity <- max_elements,
  order <- KeyOrder,
  value <- [k \in Present(cache) |-> cache.value[cache.table[k]]]

\* Each method is one operation of the abstract map, whichever element, block
\* or pointer it touches; a key is evicted only by an insertion into a full
\* cache, and it is the least recently used one.
ImplementsLruMap == Map!Spec
=============================================================================
