---------------------------- MODULE MCDataLoader ----------------------------
(***************************************************************************)
(* Instances of DataLoader for TLC: an urgent request, two of the same      *)
(* priority, and a late one.                                                *)
(***************************************************************************)
EXTENDS DataLoader, TLC

CONSTANTS urgent, first, second, low

PriorityDef ==
  [r \in Requests |-> CASE r = urgent -> 5 [] r = low -> 100 [] OTHER -> 50]
=============================================================================
