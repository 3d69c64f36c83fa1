----------------------------- MODULE WorkChannel -----------------------------
(***************************************************************************)
(* What GLBackend::exportData promises: the work thread handles what was   *)
(* exported, each piece once and in FIFO order.  GLBackend.tla implements  *)
(* this specification.                                                     *)
(***************************************************************************)
EXTENDS Integers, Sequences

CONSTANT Task  (* what can be exported *)

VARIABLES exported, handled

vars == <<exported, handled>>

Init == exported = <<>> /\ handled = <<>>

Export(task) == exported' = Append(exported, task) /\ UNCHANGED handled

Handle ==
    /\ Len(handled) < Len(exported)
    /\ handled' = Append(handled, exported[Len(handled) + 1])
    /\ UNCHANGED exported

Next == (\E task \in Task : Export(task)) \/ Handle

Spec == Init /\ [][Next]_vars
=============================================================================
