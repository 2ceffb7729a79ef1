-------------------------- MODULE MCZenzConversion --------------------------
(***************************************************************************)
(* Instances of ZenzConversion for TLC: a reading of one character, too     *)
(* short for Zenz, and longer ones.                                         *)
(***************************************************************************)
EXTENDS ZenzConversion, TLC

CONSTANTS short, long, longer

LengthDef == [k \in Keys |-> CASE k = short -> 1 [] k = long -> 2 [] OTHER -> 3]
=============================================================================
