------------------------------- MODULE MCSales -------------------------------
(***************************************************************************)
(* Sales on the graph of the tests (one distributor or more among three    *)
(* holders, every pair joined), with one pair joined twice.                *)
(*                                                                         *)
(* The lists of records are compared with what they amount to.             *)
(***************************************************************************)
EXTENDS Sales, TransactionRecords

CONSTANTS a, b, c

MCEdge == 1 .. 4
MCSource == <<a, a, b, a>>
MCTarget == <<b, c, c, b>>

\* Too little for one unit, or enough for two.
MCMoney == {1, 4}

\* Empty, at the threshold, above it.
MCInventory == {0, 2, 3}

\* Two sales and two kinds of refusals, told apart by when they were made.
MCSaleIds == {"sale1", "sale2"}
MCLists(n) ==
    {[i \in DOMAIN ids |-> [id |-> ids[i], made |-> i]] :
        ids \in SeqOf(MCSaleIds \cup {"BOTH_DISTRIBUTORS", "NO_INVENTORY"}, n)}

FirstMade(list, record) == Min({i \in DOMAIN list : list[i].id = record.id})

\* An equality for a comparator does not sort: equal records stand together,
\* the latest first, in the order in which the first of each was made.
ASSUME EqualRecordsStandTogether ==
    \A list \in MCLists(4) :
        ReduceSales(<<>>, list) =
            SortSeq(list, LAMBDA fst, snd :
                        \/ FirstMade(list, fst) < FirstMade(list, snd)
                        \/ fst.id = snd.id /\ fst.made > snd.made)

\* Nor does the second merge, of what the company gave back and all others,
\* part them.
ASSUME EqualRecordsStayTogether ==
    \A own \in MCLists(2), list \in MCLists(3) :
        StandTogether(AllSalesRecords(own, list))

\* Where no two edges join the same two people, only refusals can be equal
\* within a tick.  So the sales are paid out in the order in which they were
\* made, whatever was refused in between, by the company or by somebody else.
ASSUME SalesKeepTheirOrder ==
    \A own \in MCLists(2), list \in MCLists(4) :
        LET IsSale(record) == record.id \in MCSaleIds
            refused == SelectSeq(own, LAMBDA record : ~IsSale(record))
            sales == SelectSeq(list, IsSale)
            all == AllSalesRecords(refused, list)
        IN OnlyOneOfEach(MCSaleIds, list) =>
            /\ SelectSeq(all, IsSale) = sales
            /\ StandAsIn(MCSaleIds, list, Len(list), all)
=============================================================================
