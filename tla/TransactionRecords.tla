-------------------------- MODULE TransactionRecords --------------------------
(***************************************************************************)
(* ListTransactionRecord: what the three handlers of a tick give back, and *)
(* how the lists of all edges or vertices become the one list of the tick. *)
(*                                                                         *)
(* A list is a sequence of records with an id.  leftFold merges one list   *)
(* after the other into the first, each of at most one record.  A          *)
(* comparator is the set of pairs of ids for which it answers true, and    *)
(* only one of the two is an order.                                        *)
(***************************************************************************)
EXTENDS Integers, SequencesExt

\* std::list::merge of an element: in front of the first record that it is
\* less than, and behind all the others.
PlaceFor(less, record, list) ==
    Min({i \in DOMAIN list : <<record.id, list[i].id>> \in less}
            \cup {Len(list) + 1})

\* Mutant: a record of an id that is there already is not taken.
MergeAsASet(less, lhs, rhs) ==
    IF rhs = <<>> \/ \E i \in DOMAIN lhs : lhs[i].id = rhs[1].id THEN lhs
    ELSE InsertAt(lhs, PlaceFor(less, rhs[1], lhs), rhs[1])

MergeListTransactionRecords(less, lhs, rhs) ==
    IF rhs = <<>> THEN lhs
    ELSE InsertAt(lhs, PlaceFor(less, rhs[1], lhs), rhs[1])

LeftFold(less, start, toMerge) ==
    FoldLeft(LAMBDA acc, list : MergeListTransactionRecords(less, acc, list),
             start, toMerge)

-----------------------------------------------------------------------------
(* The comparator of the sales is deepCompareUniquePtrs: whether the two   *)
(* are equal.  The id of a Sale is a hash of the tick, the price and the   *)
(* parties; two refusals are equal when their reasons are.                 *)

IdsOf(list) == {list[i].id : i \in DOMAIN list}

DeepCompareUniquePtrs(ids) == {<<id, id>> : id \in ids}

\* Every record becomes a list of its own, and then they are folded.
ReduceSales(start, records) ==
    LeftFold(DeepCompareUniquePtrs(IdsOf(start) \cup IdsOf(records)), start,
             [i \in DOMAIN records |-> <<records[i]>>])

\* The sales by the company come first, and the others are merged into them.
AllSalesRecords(restockSales, sales) ==
    ReduceSales(ReduceSales(<<>>, restockSales), ReduceSales(<<>>, sales))

-----------------------------------------------------------------------------
(* What is asked of the lists. *)

\* No two records with the same id of ids.
OnlyOneOfEach(ids, list) ==
    \A i, j \in DOMAIN list : list[i].id = list[j].id /\ list[i].id \in ids => i = j

\* Nothing stands between two equal records but their equals.
StandTogether(list) ==
    \A k, m, n \in DOMAIN list :
        k <= m /\ m <= n /\ list[k].id = list[n].id => list[m].id = list[k].id

\* The records with an id of ids stand in merged as they do in the first n of
\* list, whatever stands between them.
StandAsIn(ids, list, n, merged) ==
    LET here == {i \in 1 .. n : list[i].id \in ids}
        there == {k \in DOMAIN merged : merged[k].id \in ids}
    IN \E place \in [here -> there] :
            /\ \A i, j \in here : i < j => place[i] < place[j]
            /\ \A k \in there : \E i \in here : place[i] = k
            /\ \A i \in here : merged[place[i]] = list[i]
=============================================================================
