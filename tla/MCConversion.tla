----------------------------- MODULE MCConversion -----------------------------
(***************************************************************************)
(* Conversion, with its records as lists, on the graph of MCSales:         *)
(* everybody knows everybody, and one pair is joined twice.                *)
(***************************************************************************)
EXTENDS ConversionRecords, TLC

CONSTANTS a, b, c

MCEdge == 1 .. 4
MCSource == <<a, a, b, a>>
MCTarget == <<b, c, c, b>>

\* Exactly the buy-in, which is not enough, and more.
MCMoney == {1, 2}

\* No order in which the edges name the consumers.
MCRank == (a :> 2 @@ b :> 3 @@ c :> 1)
=============================================================================
