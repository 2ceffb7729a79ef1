----------------------------- MODULE MCLruCache -----------------------------
(***************************************************************************)
(* Instances of LruCache for TLC: single blocks, and caches that grow by   *)
(* up to two blocks.                                                       *)
(***************************************************************************)
EXTENDS LruCache

CONSTANTS k1, k2, k3, k4

\* No method compares keys: which one comes first does not matter.
KeySymmetry == Permutations(Key)
=============================================================================
