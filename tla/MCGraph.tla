-------------------------------- MODULE MCGraph --------------------------------
(***************************************************************************)
(* Graphs of up to three people, the sizes and chances that are refused    *)
(* included, written to a log twice.                                       *)
(***************************************************************************)
EXTENDS LoggingBackend

\* A negative chance, none, a half, certainty, and more than twice that.
MCLinkChances == {-2, 0, 2, 4, 10}
=============================================================================
