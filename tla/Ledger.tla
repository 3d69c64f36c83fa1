------------------------------- MODULE Ledger -------------------------------
(***************************************************************************)
(* What a sale promises, without the machinery that decides whether it     *)
(* happens: money and product change hands together, between two different *)
(* holders, never overdrawing the one or selling product the other does    *)
(* not have.  Sales.tla implements this specification.                     *)
(***************************************************************************)
EXTENDS Integers

CONSTANTS Holder,   (* everybody who has money and inventory *)
          Price     (* what one unit of product costs        *)

VARIABLES money, stock

vars == <<money, stock>>

Init ==
    /\ money \in [Holder -> Nat]
    /\ stock \in [Holder -> Nat]

\* One unit of product goes from s to b, and its price from b to s.
Trade(s, b) ==
    /\ s # b
    /\ stock[s] > 0
    /\ money[b] >= Price
    /\ stock' = [stock EXCEPT ![s] = @ - 1, ![b] = @ + 1]
    /\ money' = [money EXCEPT ![s] = @ + Price, ![b] = @ - Price]

Next == \E s, b \in Holder : Trade(s, b)

Spec == Init /\ [][Next]_vars
=============================================================================
