--------------------------- MODULE MCSideEffects ---------------------------
(***************************************************************************)
(* SideEffects for four holders: two sales to one buyer, by two sellers,   *)
(* in every shape of recruitment, so that a line of three is possible.     *)
(***************************************************************************)
EXTENDS SideEffects

CONSTANTS p, q, r, c

MCSale == 1 .. 2
MCSeller == <<p, q>>
MCBuyer == <<c, c>>

\* Enough for neither sale, for one and for both.
MCMoney == {3, 8}
=============================================================================
