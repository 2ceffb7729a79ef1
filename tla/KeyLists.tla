------------------------------ MODULE KeyLists ------------------------------
(***************************************************************************)
(* Lists of keys in their order of use, as lru_cache.h keeps them.         *)
(***************************************************************************)
EXTENDS Integers, Sequences

\* What is left of the first i keys of q when those of ks go, for each i.
Rest(q, ks) ==
  LET rest[i \in 0 .. Len(q)] ==
        IF i = 0 THEN << >>
        ELSE IF q[i] \in ks THEN rest[i - 1] ELSE Append(rest[i - 1], q[i])
  IN  rest

\* The list without the keys of ks; the others keep their order.
Unlinked(q, ks) == Rest(q, ks)[Len(q)]
=============================================================================
