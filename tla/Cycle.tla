-------------------------------- MODULE Cycle --------------------------------
(***************************************************************************)
(* Simulation::cycleCallBackends, called tick after tick: the conversions, *)
(* the sales, their side effects, and a copy of the graph that is handed   *)
(* to the backends.  The three parts are those of Conversion, Sales and    *)
(* SideEffects, one after the other in one thread, on the same people.     *)
(***************************************************************************)
EXTENDS Population, Sequences

CONSTANTS
    Price, WholesaleCost, One, Commission,  \* what SideEffects is about
    BenefitFormula,                         \* the one apply is asked for
    BuyIn,                                  \* what Conversion is about
    BuildType,                              \* assertions are for Debug only
    MaxTicks                                \* bound on the ticks exported

ASSUME CycleAssumption ==
    /\ \A e \in Edge : Source[e] # Target[e]
    /\ Edge # {}
    /\ MaxTicks \in Nat
    /\ BenefitFormula \in {"CompanyCommission", "ChainedPercentWithGuarantee"}
    /\ BuildType \in {"Debug", "Release"}

VARIABLES
    step, untested, recorded, convertedBy, unvisited, numConversions,
    stage, pending, outcome, restockSet, restocked,
    disbursed, effectStage, due, sale, beneficiaries, currentBeneficiary,
    paid, before,
    phase,     \* which part of cycle is running, "over" if it does not return
    exported,  \* how many ticks the backends have been given
    data,      \* what they were given last
    begun      \* what this tick found: role, money and inventory

conversionVars == <<step, untested, recorded, convertedBy, unvisited,
                    numConversions>>
salesVars == <<stage, pending, outcome, restockSet, restocked>>
effectVars == <<disbursed, effectStage, due, sale, beneficiaries,
                currentBeneficiary, paid, before>>
cycleVars == <<exported, data, begun>>
people == <<roster, money, inventory>>
vars == <<people, conversionVars, salesVars, effectVars, phase, cycleVars>>

Conversions == INSTANCE Conversion WITH Debug <- BuildType = "Debug"
Sales == INSTANCE Sales
Effects == INSTANCE SideEffects WITH
    Sale <- Edge, Seller <- Source, Buyer <- Target, stage <- effectStage,
    companyPaysCommission <- BenefitFormula = "CompanyCommission",
    companySupplied <- company, debug <- BuildType = "Debug"

-----------------------------------------------------------------------------
Found == [role |-> role, money |-> money, inventory |-> inventory]

\* The copy constructor of a consumer does not copy the inventory.
CopiedInventory == [h \in Holder |-> IF IsDistributor(h) THEN inventory[h] ELSE 0]

\* The clone of the graph and the records of the tick.
Data == [role |-> role, money |-> money, inventory |-> CopiedInventory,
         restockSet |-> restockSet, sold |-> Sales!Sold, recorded |-> recorded]

Init ==
    /\ PopulationInit
    /\ company = FALSE                     \* Simulation never sets it
    /\ Conversions!ConversionStart
    /\ stage = "restocking"
    /\ pending = Edge
    /\ outcome = [e \in Edge |-> "none"]
    /\ restockSet = {}
    /\ restocked = [h \in Holder |-> "none"]
    /\ disbursed = 0
    /\ effectStage = "records"
    /\ due = {}
    /\ sale \in Edge                       \* not read before a record begins
    /\ beneficiaries = <<>>
    /\ currentBeneficiary = Source[sale]
    /\ paid = 0
    /\ before = [money |-> money, disbursed |-> 0]
    /\ phase = "conversion"
    /\ exported = 0
    /\ data = Data
    /\ begun = Found

ApplyConversions ==
    /\ phase = "conversion"
    /\ Conversions!Next
    /\ UNCHANGED <<salesVars, effectVars, phase, cycleVars>>

BeginSales ==
    /\ phase = "conversion"
    /\ step = "converted"
    /\ phase' = "sales"
    /\ UNCHANGED <<people, conversionVars, salesVars, effectVars, cycleVars>>

ApplySales ==
    /\ phase = "sales"
    /\ Sales!Next
    /\ UNCHANGED <<conversionVars, effectVars, phase, cycleVars>>

\* The records that are no sales are skipped.
BeginEffects ==
    /\ phase = "sales"
    /\ stage = "sold"
    /\ phase' = "effects"
    /\ due' = Sales!Sold
    /\ effectStage' = IF Sales!Sold = {} THEN "done" ELSE "records"
    /\ UNCHANGED <<people, conversionVars, salesVars, cycleVars, disbursed,
                   sale, beneficiaries, currentBeneficiary, paid, before>>

ApplyEffects ==
    /\ phase = "effects"
    /\ Effects!Next
    /\ UNCHANGED <<roster, inventory, conversionVars, salesVars, phase, cycleVars>>

BeginCopy ==
    /\ phase = "effects"
    /\ effectStage = "done"
    /\ phase' = "copying"
    /\ UNCHANGED <<people, conversionVars, salesVars, effectVars, cycleVars>>

\* The copy constructor of a distributor dereferences both of its chances.
CanBeCloned(h) == chance[h] # "null"

CloneUndefined ==
    /\ phase = "copying"
    /\ \E h \in Holder : ~CanBeCloned(h)
    /\ phase' = "over"
    /\ UNCHANGED <<people, conversionVars, salesVars, effectVars, cycleVars>>

\* The backends get the copy, and the next tick starts from the graph itself.
ExportData ==
    /\ phase = "copying"
    /\ exported < MaxTicks
    /\ \A h \in Holder : CanBeCloned(h)
    /\ data' = Data
    /\ exported' = exported + 1
    /\ begun' = Found
    /\ phase' = "conversion"
    /\ step' = "testing"
    /\ untested' = Edge
    /\ recorded' = {}
    /\ convertedBy' = [h \in Holder |-> None]
    /\ unvisited' = Holder
    /\ numConversions' = 0
    /\ stage' = "restocking"
    /\ pending' = Edge
    /\ outcome' = [e \in Edge |-> "none"]
    /\ restockSet' = {}
    /\ restocked' = [h \in Holder |-> "none"]
    /\ UNCHANGED <<people, effectVars>>

\* An exception, a failed assertion or undefined behaviour in a part.
Fails ==
    /\ \/ phase = "conversion" /\ step \in {"aborted", "threw", "undefined"}
       \/ phase = "sales" /\ stage \in {"threw", "undefined"}
       \/ phase = "effects" /\ effectStage \in Effects!Ended \ {"done"}
    /\ phase' = "over"
    /\ UNCHANGED <<people, conversionVars, salesVars, effectVars, cycleVars>>

Next ==
    \/ ApplyConversions
    \/ BeginSales
    \/ ApplySales
    \/ BeginEffects
    \/ ApplyEffects
    \/ BeginCopy
    \/ CloneUndefined
    \/ ExportData
    \/ Fails

Spec == Init /\ [][Next]_vars
-----------------------------------------------------------------------------
(* Properties *)

\* What Sales.tla assumes of the population holds in every tick, not only the
\* first: nobody overdrawn, the roster in its shape, room in every inventory.
SalesStartAsAssumed ==
    phase = "sales" /\ stage = "restocking" =>
        /\ PopulationTypeOK
        /\ RosterShape
        /\ \A h \in Holder : inventory[h] + Cardinality(Edge) < InventoryWidth

\* No record is ever paid out: a seller that can be sampled has not been
\* recruited, and the walk up from a seller without a recruiter is undefined.
NobodyIsPaid ==
    phase = "effects" => effectStage \in {"records", "walking", "undefined", "done"}

\* An exception out of a tick, of the conversions or of the sales, leaves no
\* money or product of this tick moved: one that would have is undefined
\* behaviour, for it takes Sale records with it.
ExceptionsMoveNothing ==
    "threw" \in {step, stage} =>
        money = begun.money /\ inventory = begun.inventory

\* A tick that reaches the backends sold nothing and recruited nobody.
ExportedTicksAreInert ==
    phase = "copying" /\ (\A h \in Holder : CanBeCloned(h)) =>
        Sales!Sold = {} /\ recorded = {} /\ Found = begun

\* So the backends are shown the same thing over and over: after the first
\* tick nothing they are given ever differs from what they were given before.
BackendsSeeNothingMove == [][exported > 0 => data' = data]_vars
=============================================================================
