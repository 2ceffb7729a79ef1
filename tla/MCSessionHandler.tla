-------------------------- MODULE MCSessionHandler --------------------------
(***************************************************************************)
(* Instances of SessionHandler for TLC.                                    *)
(***************************************************************************)
EXTENDS SessionHandler

CONSTANTS s1, s2, s3, k1, k2, o1, o2, r1, r2

\* The default of the flag --timeout: the server never stops by itself.
DefaultTimeout == -1
=============================================================================
