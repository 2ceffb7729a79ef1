------------------------- MODULE MCSessionWatchDog -------------------------
(***************************************************************************)
(* Instances of SessionWatchDog for TLC.                                   *)
(***************************************************************************)
EXTENDS SessionWatchDog

\* The clock was set back, ran normally, or jumped over a suspend.
AllGaps == {-1, interval, 3 * interval}
=============================================================================
