------------------------------- MODULE LruMap -------------------------------
(***************************************************************************)
(* What a bounded map with a least-recently-used order promises (the       *)
(* comments of LruCache in storage/lru_cache.h): the keys in their order of *)
(* use, the value of each, and at the limit the eviction of the key that   *)
(* was not used for the longest time.  LruCache.tla shows that the blocks, *)
(* the free list and the pointers of the code implement it;                *)
(* SessionHandler.tla shows that the session table is used as one.         *)
(***************************************************************************)
EXTENDS Integers, Sequences, SequencesExt, KeyLists

CONSTANTS Key, Value

VARIABLES
  capacity,     \* how many keys the map may hold
  order,        \* the keys, most recently used first
  value         \* the value of each key

vars == <<capacity, order, value>>

Present == ToSet(order)

Init ==
  /\ capacity \in Nat \ {0}
  /\ order = << >>
  /\ value = [k \in {} |-> k]

\* Every key but k keeps its value, as long as it has one; k gets any.
Sets(k) ==
  \E v \in Value :
    value' = [x \in ToSet(order') |-> IF x = k THEN v ELSE value[x]]

\* Put a pair in front; a full map loses its last key to a new one.
Insert(k) ==
  LET others == Unlinked(order, {k})
      kept == IF Len(others) = capacity THEN Front(others) ELSE others IN
    /\ order' = <<k>> \o kept
    /\ Sets(k)
    /\ UNCHANGED capacity

\* Look a key up and possibly write through the pointer: it is now the most
\* recently used.
Use(k) ==
  /\ k \in Present
  /\ order' = <<k>> \o Unlinked(order, {k})
  /\ Sets(k)
  /\ UNCHANGED capacity

\* Write through pointers obtained without changing the order.
Write ==
  /\ order' = order
  /\ value' \in [Present -> Value]
  /\ UNCHANGED capacity

\* Remove keys; the others keep their order and their values.
Erase ==
  \E ks \in SUBSET Present :
    /\ order' = Unlinked(order, ks)
    /\ value' = [x \in Present \ ks |-> value[x]]
    /\ UNCHANGED capacity

Next == (\E k \in Key : Insert(k) \/ Use(k)) \/ Write \/ Erase

Spec == Init /\ [][Next]_vars
=============================================================================
