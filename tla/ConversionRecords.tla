-------------------------- MODULE ConversionRecords --------------------------
(***************************************************************************)
(* Simulation::applyConversions again, with the records as the lists they  *)
(* are: one per edge, in the order of the visit, folded into one, which is *)
(* searched for every vertex.  Conversion.tla only says that the search    *)
(* finds the first record of a consumer; here that is a property.          *)
(***************************************************************************)
EXTENDS Conversion, TransactionRecords

CONSTANT Rank  \* the order of the ids as strings

ASSUME RankAssumption == IsInjective(Rank) /\ Rank \in [Holder -> Nat]

VARIABLES
    vecConversions,  \* what the handler has given back, edge after edge
    conversionRecs   \* the fold of it

listVars == <<vecConversions, conversionRecs>>

RecordsInit ==
    /\ Init
    /\ vecConversions = <<>>
    /\ conversionRecs = <<>>

-----------------------------------------------------------------------------
\* Mutant: not less, but not greater either.
CompareOrEqual ==
    {pair \in Holder \X Holder : Rank[pair[1]] <= Rank[pair[2]]}

\* compareUniqueables, of records that are never null.
CompareUniqueables ==
    {pair \in Holder \X Holder : Rank[pair[1]] < Rank[pair[2]]}

\* conversionHandler on one edge.
Handle(e) ==
    /\ TestConversion(e)
    /\ vecConversions' = Append(vecConversions,
            IF e \in recorded'
            THEN <<[id |-> ConsumerOf(e), convertedBy |-> DistributorOf(e)]>>
            ELSE <<>>)
    /\ UNCHANGED conversionRecs

Fold ==
    /\ ProcessConversions
    /\ conversionRecs' = LeftFold(CompareUniqueables, <<>>, vecConversions)
    /\ UNCHANGED vecConversions

\* find_if on the list.
LookupConversionRecord(h) ==
    LET found == {i \in DOMAIN conversionRecs : conversionRecs[i].id = h}
    IN IF found = {} THEN None ELSE conversionRecs[Min(found)].convertedBy

RecordsNext ==
    \/ \E e \in Edge : Handle(e)
    \/ Fold
    \/ (\E h \in Holder : Skip(h) \/ Convert(h)) /\ UNCHANGED listVars
    \/ Return /\ UNCHANGED listVars

RecordsSpec == RecordsInit /\ [][RecordsNext]_<<vars, listVars>>

-----------------------------------------------------------------------------
(* Properties *)

\* The one list stands for what Conversion.tla says of the records.  It has a
\* record for every edge that was recorded, so its size is what the final
\* assertion compares with; and sorting it by consumer does not change who
\* recruits whom: of several records of one consumer the search finds the one
\* that was made on the edge visited first.
ListIsFaithful ==
    step \in {"converting", "converted", "aborted"} =>
        /\ Len(conversionRecs) = Cardinality(recorded)
        /\ \A h \in Holder : LookupConversionRecord(h) = convertedBy[h]

\* A consumer that has been won over on several edges has as many records and
\* is converted once.  With assertions, that is what aborts the program, and
\* the only thing that does: two records of one consumer.
AbortsOnlyOnRivals ==
    step \in {"converted", "aborted"} =>
        /\ numConversions = Cardinality(IdsOf(conversionRecs))
        /\ step = "aborted" <=> Debug /\ \E i, j \in DOMAIN conversionRecs :
                i # j /\ conversionRecs[i].id = conversionRecs[j].id
=============================================================================
