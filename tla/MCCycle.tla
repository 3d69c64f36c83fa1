------------------------------- MODULE MCCycle -------------------------------
(***************************************************************************)
(* Cycle for three holders in a row.                                       *)
(***************************************************************************)
EXTENDS Cycle

CONSTANTS a, b, c

MCEdge == 1 .. 2
MCSource == <<a, b>>
MCTarget == <<b, c>>

MCMoney == {1, 4}

\* Empty, enough for a sale in each of two ticks, above the threshold.
MCInventory == {0, 2, 3}
=============================================================================
