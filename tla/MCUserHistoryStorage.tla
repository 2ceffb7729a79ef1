------------------------ MODULE MCUserHistoryStorage ------------------------
(***************************************************************************)
(* Instances of UserHistoryStorage for TLC.                                *)
(***************************************************************************)
EXTENDS UserHistoryStorage, TLC

CONSTANTS e1, e2, e3

\* Entries are only compared with each other.
Symmetry == Permutations(Entries)
=============================================================================
