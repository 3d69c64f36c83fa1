----------------------------- MODULE Conversion -----------------------------
(***************************************************************************)
(* Simulation::applyConversions: every edge is tested for a consumer that  *)
(* its distributor wins over, the conversions are recorded, and then each  *)
(* vertex with a record is replaced in the graph by a new distributor,     *)
(* while the graph is being filtered for the vertices with a record.       *)
(*                                                                         *)
(* ConversionHandler::operator() is not implemented: it records nothing.   *)
(* What it is there to record is what ConversionHandler::getPredicate      *)
(* finds.  The rest of the code is complete, and here it is given, edge by *)
(* edge, nothing or what the predicate finds: the behaviours of today's    *)
(* program are those in which no edge is recorded.                         *)
(***************************************************************************)
EXTENDS Population

CONSTANTS
    BuyIn,  \* distributionOptions->buyIn
    Debug   \* whether assertions are compiled in

ASSUME ConversionAssumption ==
    BuyIn \in Nat /\ Debug \in BOOLEAN

VARIABLES
    step,           \* how far the call has come, or how it ended
    untested,       \* the edges forEachEdge has not visited yet
    recorded,       \* the edges with a Conversion record
    convertedBy,    \* per consumer, Conversion::convertedBy of its first record
    unvisited,      \* the vertices the filtered iteration has not passed
    numConversions  \* numMutated of mutateVerticesWithPredicate

recordVars == <<untested, recorded, convertedBy>>
conversionVars == <<step, recordVars, unvisited, numConversions>>
vars == <<roster, money, inventory, conversionVars>>

ConversionEnded == {"converted", "aborted", "threw", "undefined"}

ConversionStart ==
    /\ step = "testing"
    /\ untested = Edge
    /\ recorded = {}
    /\ convertedBy = [h \in Holder |-> None]
    /\ unvisited = Holder
    /\ numConversions = 0

Init == PopulationInit /\ ConversionStart

-----------------------------------------------------------------------------
(* predF and testConversion on one edge. *)

\* One end is a consumer and no distributor, the other a distributor.
Pair(e) == IsDistributor(Source[e]) # IsDistributor(Target[e])

ConsumerOf(e) == IF IsDistributor(Source[e]) THEN Target[e] ELSE Source[e]

\* Mutant: a distributor is a Consumer too, so the first cast succeeds.
FirstConsumer(e) == Source[e]

DistributorOf(e) == IF IsDistributor(Source[e]) THEN Source[e] ELSE Target[e]

\* Strictly more than the buy-in, which nobody is ever charged.
CanBecomeDistributor(h) == ~IsDistributor(h) /\ BuyIn < money[h]

Testing(e) == step = "testing" /\ e \in untested

Tested(e) == untested' = untested \ {e}

NoRecord(e) ==
    /\ Tested(e)
    /\ UNCHANGED <<step, recorded, convertedBy, unvisited, numConversions,
                   roster, money, inventory>>

Unimplemented(e) == Testing(e) /\ NoRecord(e)

CastFailed(e) == Testing(e) /\ ~Pair(e) /\ NoRecord(e)

CantBeDistributor(e) ==
    /\ Testing(e) /\ Pair(e)
    /\ ~CanBecomeDistributor(ConsumerOf(e))
    /\ NoRecord(e)

Sampled(e) ==
    /\ Testing(e) /\ Pair(e)
    /\ CanBecomeDistributor(ConsumerOf(e))
    /\ chance[DistributorOf(e)] # "null"

\* The conversion chance is another one than the sales chance: either way.
ProcFailed(e) == Sampled(e) /\ NoRecord(e)

\* list::merge is stable, and lookupConversionRecord finds the first record of
\* a consumer.
Record(e) ==
    /\ Sampled(e)
    /\ Tested(e)
    /\ recorded' = recorded \cup {e}
    /\ convertedBy' = IF convertedBy[ConsumerOf(e)] # None THEN convertedBy
                      ELSE [convertedBy EXCEPT ![ConsumerOf(e)] = DistributorOf(e)]
    /\ UNCHANGED <<step, unvisited, numConversions, roster, money, inventory>>

\* Util::sampleFrom throws at a probability above one.  No object is wrapped,
\* and no vertex has changed yet.
SampleThrows(e) ==
    /\ Sampled(e)
    /\ step' = "threw"
    /\ UNCHANGED <<recordVars, unvisited, numConversions, roster, money,
                   inventory>>

\* The chance of a distributor that was itself recruited is a null pointer.
TestUndefined(e) ==
    /\ Testing(e) /\ Pair(e)
    /\ CanBecomeDistributor(ConsumerOf(e))
    /\ chance[DistributorOf(e)] = "null"
    /\ step' = "undefined"
    /\ UNCHANGED <<recordVars, unvisited, numConversions, roster, money,
                   inventory>>

TestConversion(e) ==
    \/ Unimplemented(e)
    \/ CastFailed(e)
    \/ CantBeDistributor(e)
    \/ ProcFailed(e)
    \/ Record(e)
    \/ SampleThrows(e)
    \/ TestUndefined(e)

-----------------------------------------------------------------------------
(* processConversions. *)

ProcessConversions ==
    /\ step = "testing"
    /\ untested = {}
    /\ step' = "converting"
    /\ UNCHANGED <<recordVars, unvisited, numConversions, roster, money,
                   inventory>>

HasRecord(h) == convertedBy[h] # None

\* Mutant: a vertex that is passed over is taken off the count.
SkipUncounted(h) ==
    /\ step = "converting"
    /\ h \in unvisited
    /\ ~HasRecord(h)
    /\ unvisited' = unvisited \ {h}
    /\ numConversions' = numConversions - 1
    /\ UNCHANGED <<step, recordVars, roster, money, inventory>>

Skip(h) ==
    /\ step = "converting"
    /\ h \in unvisited
    /\ ~HasRecord(h)
    /\ unvisited' = unvisited \ {h}
    /\ UNCHANGED <<step, recordVars, numConversions, roster, money, inventory>>

\* Mutant: the recruit is put beside its recruiter, not under it.
BecomeDistributorOfUpline(h) ==
    /\ role' = [role EXCEPT ![h] = "distributor"]
    /\ recruitedBy' = [recruitedBy EXCEPT ![h] = recruitedBy[convertedBy[h]]]
    /\ chance' = [chance EXCEPT ![h] = "null"]

\* Mutant: the recruit keeps the chances it had as a consumer.
BecomeDistributorWithChances(h) ==
    /\ role' = [role EXCEPT ![h] = "distributor"]
    /\ recruitedBy' = [recruitedBy EXCEPT ![h] = convertedBy[h]]
    /\ UNCHANGED chance

\* A new object takes the consumer's place, with its id, money and inventory.
\* Its constructor leaves both ChanceContributors null.
BecomeDistributor(h) ==
    /\ role' = [role EXCEPT ![h] = "distributor"]
    /\ recruitedBy' = [recruitedBy EXCEPT ![h] = convertedBy[h]]
    /\ chance' = [chance EXCEPT ![h] = "null"]

\* Mutant: the records are counted, not the vertices.
ConvertCounted(h) ==
    /\ step = "converting"
    /\ h \in unvisited
    /\ HasRecord(h)
    /\ unvisited' = unvisited \ {h}
    /\ BecomeDistributor(h)
    /\ numConversions' = numConversions
            + Cardinality({e \in recorded : h \in {Source[e], Target[e]}})
    /\ UNCHANGED <<step, recordVars, money, inventory, company>>

\* Mutant: the filtered iterator is advanced once more.
ConvertAndAdvance(h) ==
    /\ step = "converting"
    /\ h \in unvisited
    /\ HasRecord(h)
    /\ \E g \in unvisited : unvisited' = unvisited \ {g, h}
    /\ BecomeDistributor(h)
    /\ numConversions' = numConversions + 1
    /\ UNCHANGED <<step, recordVars, money, inventory, company>>

\* The four exceptions and the assert of the mutation are left out:
\* NoConversionFails says that none is reached.
Convert(h) ==
    /\ step = "converting"
    /\ h \in unvisited
    /\ HasRecord(h)
    /\ unvisited' = unvisited \ {h}
    /\ BecomeDistributor(h)
    /\ numConversions' = numConversions + 1
    /\ UNCHANGED <<step, recordVars, money, inventory, company>>

\* assert(numConversions == records.size())
Return ==
    /\ step = "converting"
    /\ unvisited = {}
    /\ step' = IF Debug /\ numConversions # Cardinality(recorded)
               THEN "aborted" ELSE "converted"
    /\ UNCHANGED <<recordVars, unvisited, numConversions, roster, money,
                   inventory>>

Next ==
    \/ \E e \in Edge : TestConversion(e)
    \/ ProcessConversions
    \/ \E h \in Holder : Skip(h) \/ Convert(h)
    \/ Return

Spec == Init /\ [][Next]_vars
-----------------------------------------------------------------------------
(* Properties *)

TypeOK ==
    /\ PopulationTypeOK
    /\ step \in {"testing", "converting"} \cup ConversionEnded
    /\ untested \subseteq Edge
    /\ recorded \subseteq Edge
    /\ convertedBy \in [Holder -> Holder \cup {None}]
    /\ unvisited \subseteq Holder
    /\ numConversions \in Nat

\* The records are made before the first vertex changes and used after some
\* have changed.  None goes stale: when a vertex is reached that has a record
\* it is still a consumer, and the recruiter in the record is a distributor.
\* So neither the assert nor an exception of the mutation can be reached.
NoConversionFails ==
    step = "converting" =>
        \A h \in unvisited :
            HasRecord(h) => ~IsDistributor(h) /\ IsDistributor(convertedBy[h])

\* The roster is handed on in the shape the sales expect of it: lines of
\* recruiters without a circle, distributors only, recruits without a chance.
HandsOnARoster == RosterShape

\* A recruit is recruited by somebody who won it over on an edge between them,
\* and a record never goes unheeded.
RecordsAreHonoured ==
    step \in {"converted", "aborted"} =>
        \A h \in Holder :
            HasRecord(h) <=> \E e \in recorded :
                {h, recruitedBy[h]} = {Source[e], Target[e]}

\* Every conversion is a recruitment between acquaintances, for good.
Acquainted == {<<Source[e], Target[e]>> : e \in Edge}
RecruitmentOf == INSTANCE Recruitment
ImplementsRecruitment == RecruitmentOf!Spec
=============================================================================
