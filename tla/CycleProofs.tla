----------------------------- MODULE CycleProofs -----------------------------
(***************************************************************************)
(* What a whole tick comes to, for every population, graph, price and      *)
(* number of ticks, with and without conversions.                          *)
(***************************************************************************)
EXTENDS Cycle, FiniteSetTheorems, TLAPS

(***************************************************************************)
(* The inductive invariant.  Its heart is that a holder has null chances   *)
(* iff it was recruited: a seller that was sampled was not recruited, so   *)
(* the payment of its sale gets nowhere, and a recruit cannot be copied.   *)
(* The rest says what the tick has left as it found it.                    *)
(***************************************************************************)
Typed ==
    /\ role \in [Holder -> {"consumer", "distributor"}]
    /\ recruitedBy \in [Holder -> Holder \cup {None}]
    /\ chance \in [Holder -> Chance]
    /\ convertedBy \in [Holder -> Holder \cup {None}]
    /\ unvisited \subseteq Holder
    /\ recorded \subseteq Edge
    /\ outcome \in [Edge -> Sales!Reason \cup {"none"}]
    /\ begun = [role |-> begun.role, money |-> begun.money,
                inventory |-> begun.inventory]
    /\ begun.role \in [Holder -> {"consumer", "distributor"}]
    /\ exported \in Nat

NullIffRecruited == \A h \in Holder : chance[h] = "null" <=> recruitedBy[h] # None

NewRolesAreRecruits ==
    \A h \in Holder : role[h] # begun.role[h] => recruitedBy[h] # None

RecordsRecruit ==
    /\ recorded # {} => \E h \in Holder : convertedBy[h] # None
    /\ \A h \in Holder \ unvisited : convertedBy[h] # None => recruitedBy[h] # None
    /\ step = "testing" => unvisited = Holder
    /\ step = "converted" => unvisited = {}

SellersNotRecruited == \A e \in Sales!Sold : recruitedBy[Source[e]] = None

PendingIsOpen == \A e \in pending : e \in Edge /\ outcome[e] = "none"

QuietTick ==
    phase # "over" /\ Sales!Sold = {} =>
        money = begun.money /\ inventory = begun.inventory

ThrownTick ==
    "threw" \in {step, stage} =>
        money = begun.money /\ inventory = begun.inventory

NeedingRestock(r, i) == {h \in Holder : r[h] = "distributor" /\ i[h] > RestockThreshold}

RestockSetKept ==
    stage # "restocking" /\ Sales!Sold = {} =>
        restockSet = NeedingRestock(role, inventory)

Positions ==
    /\ phase = "conversion" => stage = "restocking"
    /\ stage = "restocking" => Sales!Sold = {}
    /\ phase \in {"sales", "effects", "copying"} => step = "converted"
    /\ phase \in {"effects", "copying"} => stage = "sold"
    /\ phase = "copying" => Sales!Sold = {}

WalksGetNowhere ==
    phase = "effects" =>
        \/ Sales!Sold = {} /\ effectStage = "done"
        \/ /\ effectStage \in {"records", "walking", "undefined"}
           /\ due \subseteq Sales!Sold
           /\ effectStage = "walking" =>
                sale \in Sales!Sold /\ currentBeneficiary = Source[sale]

InertData ==
    [role |-> begun.role, money |-> begun.money,
     inventory |-> [h \in Holder |->
        IF begun.role[h] = "distributor" THEN begun.inventory[h] ELSE 0],
     restockSet |-> NeedingRestock(begun.role, begun.inventory),
     sold |-> {}, recorded |-> {}]

DataIsInert == exported > 0 => data = InertData

IInv ==
    /\ Typed
    /\ NullIffRecruited
    /\ NewRolesAreRecruits
    /\ RecordsRecruit
    /\ SellersNotRecruited
    /\ PendingIsOpen
    /\ QuietTick
    /\ ThrownTick
    /\ RestockSetKept
    /\ Positions
    /\ WalksGetNowhere
    /\ DataIsInert

-----------------------------------------------------------------------------
LEMMA InitInvariant == Init => IInv
  <1> SUFFICES ASSUME Init PROVE IInv
    OBVIOUS
  <1>1. Typed
    BY DEF Init, PopulationInit, Conversions!ConversionStart, Found, Typed
  <1>2. Sales!Sold = {}
    BY DEF Init, Sales!Sold
  <1>3. NullIffRecruited /\ NewRolesAreRecruits /\ RecordsRecruit
    BY DEF Init, PopulationInit, RosterShape, Conversions!ConversionStart, Found,
        NullIffRecruited, NewRolesAreRecruits, RecordsRecruit
  <1>4. /\ SellersNotRecruited /\ PendingIsOpen /\ QuietTick /\ RestockSetKept
        /\ Positions /\ WalksGetNowhere /\ DataIsInert /\ ThrownTick
    BY <1>2 DEF Init, Found, SellersNotRecruited, PendingIsOpen, QuietTick,
        RestockSetKept, Positions, WalksGetNowhere, DataIsInert, ThrownTick,
        Conversions!ConversionStart
  <1>5. QED
    BY <1>1, <1>3, <1>4 DEF IInv

(* Steps that touch neither people nor records. *)
LEMMA QuietStep ==
    ASSUME IInv,
           UNCHANGED <<role, recruitedBy, chance, money, inventory>>,
           UNCHANGED <<recorded, convertedBy, unvisited, step>>,
           UNCHANGED <<stage, pending, outcome, restockSet, exported, data, begun>>,
           Positions', WalksGetNowhere',
           phase = "over" => phase' = "over"
    PROVE  IInv'
  <1>1. Sales!Sold' = Sales!Sold
    BY DEF Sales!Sold
  <1>2. Typed' /\ NullIffRecruited' /\ NewRolesAreRecruits' /\ RecordsRecruit'
    BY DEF IInv, Typed, NullIffRecruited, NewRolesAreRecruits, RecordsRecruit
  <1>3. SellersNotRecruited' /\ PendingIsOpen' /\ QuietTick' /\ RestockSetKept'
    BY <1>1 DEF IInv, SellersNotRecruited, PendingIsOpen, QuietTick,
        RestockSetKept, NeedingRestock
  <1>4. DataIsInert' /\ ThrownTick'
    BY DEF IInv, DataIsInert, InertData, NeedingRestock, ThrownTick
  <1>5. QED
    BY <1>2, <1>3, <1>4 DEF IInv

-----------------------------------------------------------------------------
(* The conversions. *)

(* What a step of the conversions leaves to show. *)
LEMMA ConversionStep ==
    ASSUME IInv, phase = "conversion",
           UNCHANGED <<salesVars, effectVars, phase, cycleVars>>,
           UNCHANGED <<money, inventory>>,
           Typed', NullIffRecruited', NewRolesAreRecruits', RecordsRecruit'
    PROVE  IInv'
  <1>1. Sales!Sold' = Sales!Sold /\ Sales!Sold = {} /\ stage = "restocking"
    BY DEF Sales!Sold, salesVars, IInv, Positions
  <1>2. SellersNotRecruited' /\ PendingIsOpen' /\ RestockSetKept' /\ QuietTick'
    BY <1>1 DEF SellersNotRecruited, PendingIsOpen, RestockSetKept, QuietTick,
        IInv, salesVars, cycleVars
  <1>3. Positions' /\ WalksGetNowhere'
    BY <1>1 DEF Positions, WalksGetNowhere, salesVars
  <1>4. DataIsInert' /\ ThrownTick'
    BY <1>1 DEF IInv, DataIsInert, InertData, NeedingRestock, QuietTick,
        ThrownTick, cycleVars
  <1>5. QED
    BY <1>2, <1>3, <1>4 DEF IInv

LEMMA ApplyConversionsStep ==
    ASSUME IInv, ApplyConversions PROVE IInv'
  <1>1. /\ phase = "conversion"
        /\ UNCHANGED <<salesVars, effectVars, phase, cycleVars>>
        /\ outcome' = outcome /\ begun' = begun /\ exported' = exported
        /\ Conversions!Next
    BY DEF ApplyConversions, salesVars, cycleVars
  <1>2. ASSUME NEW h \in Holder, Conversions!Convert(h)
        PROVE  IInv'
    <2>1. /\ h \in unvisited /\ convertedBy[h] # None /\ step = "converting"
          /\ unvisited' = unvisited \ {h}
          /\ role' = [role EXCEPT ![h] = "distributor"]
          /\ recruitedBy' = [recruitedBy EXCEPT ![h] = convertedBy[h]]
          /\ chance' = [chance EXCEPT ![h] = "null"]
          /\ UNCHANGED <<step, recorded, convertedBy, money, inventory>>
      BY <1>2 DEF Conversions!Convert, Conversions!HasRecord,
          Conversions!BecomeDistributor, Conversions!recordVars
    <2>2. Typed'
      BY <1>1, <2>1 DEF IInv, Typed, Chance
    <2>3. NullIffRecruited' /\ NewRolesAreRecruits'
      BY <1>1, <2>1 DEF IInv, Typed, NullIffRecruited, NewRolesAreRecruits
    <2>4. RecordsRecruit'
      BY <2>1 DEF IInv, Typed, RecordsRecruit
    <2>5. QED
      BY <1>1, <2>1, <2>2, <2>3, <2>4, ConversionStep
  <1>3. ASSUME UNCHANGED <<role, recruitedBy, chance, money, inventory>>,
               Typed', RecordsRecruit'
        PROVE  IInv'
    <2>1. NullIffRecruited' /\ NewRolesAreRecruits'
      BY <1>1, <1>3 DEF IInv, NullIffRecruited, NewRolesAreRecruits
    <2>2. QED
      BY <1>1, <1>3, <2>1, ConversionStep
  <1>4. ASSUME NEW e \in Edge, Conversions!NoRecord(e) PROVE IInv'
    <2>1. UNCHANGED <<role, recruitedBy, chance, money, inventory, step,
                      recorded, convertedBy, unvisited>>
      BY <1>4 DEF Conversions!NoRecord, Conversions!roster
    <2>2. Typed' /\ RecordsRecruit'
      BY <1>1, <2>1 DEF IInv, Typed, RecordsRecruit
    <2>3. QED
      BY <1>3, <2>1, <2>2
  <1>5. ASSUME NEW e \in Edge, Conversions!Record(e) PROVE IInv'
    <2> DEFINE c == Conversions!ConsumerOf(e)
               d == Conversions!DistributorOf(e)
    <2>1. /\ UNCHANGED <<role, recruitedBy, chance, money, inventory,
                         step, unvisited>>
          /\ step = "testing"
          /\ recorded' = recorded \cup {e}
          /\ convertedBy' = IF convertedBy[c] # None THEN convertedBy
                            ELSE [convertedBy EXCEPT ![c] = d]
      BY <1>5 DEF Conversions!Record, Conversions!Sampled, Conversions!Testing,
          Conversions!roster
    <2>2. c \in Holder /\ d \in Holder
      BY PopulationAssumption DEF Conversions!ConsumerOf, Conversions!DistributorOf
    <2>3. Typed'
      BY <1>1, <2>1, <2>2 DEF IInv, Typed
    <2>4. convertedBy'[c] # None
      BY <2>1, <2>2, PopulationAssumption DEF IInv, Typed
    <2>5. RecordsRecruit'
      BY <2>1, <2>2, <2>4 DEF IInv, RecordsRecruit
    <2>6. QED
      BY <1>3, <2>1, <2>3, <2>5
  <1>6. ASSUME NEW e \in Edge,
               Conversions!SampleThrows(e) \/ Conversions!TestUndefined(e)
        PROVE  IInv'
    <2>1. /\ UNCHANGED <<role, recruitedBy, chance, money, inventory,
                         recorded, convertedBy, unvisited>>
          /\ step' \in {"threw", "undefined"}
      BY <1>6 DEF Conversions!SampleThrows, Conversions!TestUndefined,
          Conversions!roster, Conversions!recordVars
    <2>2. Typed' /\ RecordsRecruit'
      BY <1>1, <2>1 DEF IInv, Typed, RecordsRecruit
    <2>3. QED
      BY <1>3, <2>1, <2>2
  <1>7. ASSUME Conversions!ProcessConversions \/ Conversions!Return PROVE IInv'
    <2>1. /\ UNCHANGED <<role, recruitedBy, chance, money, inventory,
                         recorded, convertedBy, unvisited>>
          /\ step' # "testing"
          /\ step' = "converted" => unvisited = {}
      BY <1>7 DEF Conversions!ProcessConversions, Conversions!Return,
          Conversions!roster, Conversions!recordVars
    <2>2. Typed' /\ RecordsRecruit'
      BY <1>1, <2>1 DEF IInv, Typed, RecordsRecruit
    <2>3. QED
      BY <1>3, <2>1, <2>2
  <1>8. ASSUME NEW h \in Holder, Conversions!Skip(h) PROVE IInv'
    <2>1. /\ UNCHANGED <<role, recruitedBy, chance, money, inventory,
                         recorded, convertedBy, step>>
          /\ step = "converting"
          /\ convertedBy[h] = None
          /\ unvisited' = unvisited \ {h}
      BY <1>8 DEF Conversions!Skip, Conversions!HasRecord, Conversions!roster,
          Conversions!recordVars
    <2>2. Typed' /\ RecordsRecruit'
      BY <1>1, <2>1 DEF IInv, Typed, RecordsRecruit
    <2>3. QED
      BY <1>3, <2>1, <2>2
  <1>9. QED
    BY <1>1, <1>2, <1>4, <1>5, <1>6, <1>7, <1>8
    DEF Conversions!Next, Conversions!TestConversion, Conversions!Unimplemented,
        Conversions!CastFailed, Conversions!CantBeDistributor,
        Conversions!ProcFailed

-----------------------------------------------------------------------------
(* The sales. *)

(* A step that reports no sale keeps everything but the position. *)
LEMMA NoSaleStep ==
    ASSUME IInv, phase = "sales",
           UNCHANGED <<conversionVars, effectVars, phase, cycleVars>>,
           UNCHANGED <<role, recruitedBy, chance, money, inventory>>,
           outcome' \in [Edge -> Sales!Reason \cup {"none"}],
           Sales!Sold' = Sales!Sold,
           stage' # "restocking",
           stage' = "threw" => stage = "threw" \/ Sales!Sold = {},
           PendingIsOpen', RestockSetKept'
    PROVE  IInv'
  <1>1. Typed' /\ NullIffRecruited' /\ NewRolesAreRecruits' /\ RecordsRecruit'
    BY DEF IInv, Typed, NullIffRecruited, NewRolesAreRecruits, RecordsRecruit,
        conversionVars, cycleVars
  <1>2. SellersNotRecruited' /\ QuietTick'
    BY DEF IInv, SellersNotRecruited, QuietTick, cycleVars
  <1>3. Positions' /\ WalksGetNowhere'
    BY DEF IInv, Positions, WalksGetNowhere, conversionVars
  <1>4. DataIsInert' /\ ThrownTick'
    BY DEF IInv, DataIsInert, InertData, NeedingRestock, QuietTick, ThrownTick,
        Positions, conversionVars, cycleVars
  <1>5. QED
    BY <1>1, <1>2, <1>3, <1>4 DEF IInv

(* What a sale leaves: its seller was sampled, so nobody recruited it. *)
LEMMA SellStep ==
    ASSUME IInv, ApplySales, NEW e \in Edge, Sales!Sell(e)
    PROVE  IInv'
  <1>1. /\ phase = "sales" /\ stage = "selling"
        /\ UNCHANGED <<conversionVars, effectVars, phase, cycleVars>>
        /\ UNCHANGED <<role, recruitedBy, chance, stage, restockSet>>
        /\ outcome' = [outcome EXCEPT ![e] = "SUCCESS"]
        /\ pending' = pending \ {e}
        /\ chance[Source[e]] # "null"
        /\ step = "converted" /\ step' = "converted"
    BY DEF ApplySales, Sales!Sell, Sales!Sampled, Sales!SaleIsPossible,
        Sales!SellerReady, Sales!Visiting, Sales!Report, Sales!Visit,
        Sales!Parties, Sales!roster, IInv, Positions, conversionVars
  <1>2. Source[e] \in Holder
    BY PopulationAssumption
  <1>3. recruitedBy[Source[e]] = None
    BY <1>1, <1>2 DEF IInv, NullIffRecruited
  <1>4. Typed' /\ NullIffRecruited' /\ NewRolesAreRecruits' /\ RecordsRecruit'
    BY <1>1 DEF IInv, Typed, NullIffRecruited, NewRolesAreRecruits,
        RecordsRecruit, conversionVars, cycleVars, Sales!Reason
  <1>5. Sales!Sold' = Sales!Sold \cup {e}
    BY <1>1 DEF Sales!Sold, IInv, Typed
  <1>6. SellersNotRecruited' /\ PendingIsOpen' /\ QuietTick' /\ RestockSetKept'
    BY <1>1, <1>3, <1>5 DEF IInv, Typed, SellersNotRecruited, PendingIsOpen,
        QuietTick, RestockSetKept
  <1>7. Positions' /\ WalksGetNowhere'
    BY <1>1 DEF IInv, Positions, WalksGetNowhere, conversionVars
  <1>8. DataIsInert' /\ ThrownTick'
    BY <1>1 DEF IInv, DataIsInert, InertData, NeedingRestock, ThrownTick, cycleVars
  <1>9. QED
    BY <1>4, <1>6, <1>7, <1>8 DEF IInv

LEMMA ApplySalesStep ==
    ASSUME IInv, ApplySales PROVE IInv'
  <1>1. /\ phase = "sales"
        /\ UNCHANGED <<conversionVars, effectVars, phase, cycleVars>>
        /\ Sales!Next
    BY DEF ApplySales
  <1>2. outcome \in [Edge -> Sales!Reason \cup {"none"}]
    BY DEF IInv, Typed
  <1>3. ASSUME Sales!RestockHandlers PROVE IInv'
    <2>1. /\ UNCHANGED <<role, recruitedBy, chance, money, inventory, outcome,
                         pending>>
          /\ stage' = "selling"
          /\ restockSet' = NeedingRestock(role, inventory)
      BY <1>3 DEF Sales!RestockHandlers, Sales!roster, Sales!IsDistributor,
          Sales!NeedsRestock, NeedingRestock
    <2>2. Sales!Sold' = Sales!Sold
      BY <2>1 DEF Sales!Sold
    <2>3. RestockSetKept' /\ PendingIsOpen'
      BY <2>1 DEF RestockSetKept, NeedingRestock, IInv, PendingIsOpen
    <2>4. QED
      BY <1>1, <1>2, <2>1, <2>2, <2>3, NoSaleStep
  <1>4. ASSUME stage # "restocking", stage' # "restocking",
               stage' = "threw" => stage = "threw" \/ Sales!Sold = {},
               UNCHANGED <<role, recruitedBy, chance, money, inventory,
                           restockSet>>,
               \/ outcome' = outcome /\ pending' \subseteq pending
               \/ \E e \in pending, r \in Sales!Reason \ {"SUCCESS"} :
                    /\ outcome' = [outcome EXCEPT ![e] = r]
                    /\ pending' = pending \ {e}
        PROVE  IInv'
    <2>1. outcome' \in [Edge -> Sales!Reason \cup {"none"}]
      BY <1>2, <1>4
    <2>2. Sales!Sold' = Sales!Sold
      BY <1>2, <1>4 DEF Sales!Sold, IInv, PendingIsOpen
    <2>3. RestockSetKept' /\ PendingIsOpen'
      BY <1>2, <1>4, <2>2 DEF IInv, RestockSetKept, NeedingRestock, PendingIsOpen
    <2>4. QED
      BY <1>1, <1>4, <2>1, <2>2, <2>3, NoSaleStep
  <1>5. ASSUME NEW e \in Edge, Sales!SaleHandlerCall(e), ~Sales!Sell(e)
        PROVE  IInv'
    <2>1. /\ stage = "selling" /\ e \in pending
          /\ UNCHANGED <<role, recruitedBy, chance, money, inventory, restockSet>>
      BY <1>5 DEF Sales!SaleHandlerCall, Sales!SellerNotDistributor,
          Sales!SellerRestocking, Sales!NoInventory, Sales!BothDistributors,
          Sales!ChanceFailed, Sales!ChanceThrows, Sales!InsufficientFunds,
          Sales!TouchUndefined, Sales!Throw, Sales!Undefined, Sales!Report,
          Sales!Sampled, Sales!SaleIsPossible, Sales!SellerReady,
          Sales!Visiting, Sales!roster
    <2>2. CASE \E r \in Sales!Reason \ {"SUCCESS"} : Sales!Report(e, r)
      BY <1>4, <2>1, <2>2 DEF Sales!Report, Sales!Visit
    <2>3. CASE Sales!Throw(e)
      BY <1>4, <2>1, <2>3 DEF Sales!Throw, Sales!Visit
    <2>4. CASE Sales!Undefined(e)
      BY <1>4, <2>1, <2>4 DEF Sales!Undefined, Sales!Visit
    <2>5. QED
      BY <1>5, <2>2, <2>3, <2>4
      DEF Sales!SaleHandlerCall, Sales!SellerNotDistributor,
          Sales!SellerRestocking, Sales!NoInventory, Sales!BothDistributors,
          Sales!ChanceFailed, Sales!ChanceThrows, Sales!InsufficientFunds,
          Sales!TouchUndefined, Sales!Reason
  <1>6. ASSUME \/ Sales!LookupRestockPops
               \/ \E h \in Holder : Sales!RestockSale(h)
               \/ Sales!Return
        PROVE  IInv'
    <2>1. /\ stage # "restocking" /\ stage' \notin {"restocking", "threw"}
          /\ UNCHANGED <<role, recruitedBy, chance, money, inventory, restockSet,
                         outcome, pending>>
      BY <1>6 DEF Sales!LookupRestockPops, Sales!RestockSale, Sales!Return,
          Sales!roster
    <2>2. QED
      BY <1>4, <2>1
  <1>7. QED
    BY <1>1, <1>3, <1>5, <1>6, SellStep DEF Sales!Next

-----------------------------------------------------------------------------
(* The side effects get no further than the seller. *)
LEMMA ApplyEffectsStep ==
    ASSUME IInv, ApplyEffects PROVE IInv'
  <1>1. /\ phase = "effects" /\ Effects!Next
        /\ UNCHANGED <<roster, inventory, conversionVars, salesVars,
                       phase, cycleVars>>
    BY DEF ApplyEffects
  <1>2. /\ effectStage \in {"records", "walking", "undefined"}
        /\ due \subseteq Sales!Sold
        /\ effectStage = "walking" =>
                sale \in Sales!Sold /\ currentBeneficiary = Source[sale]
    <2>1. Effects!Next => effectStage # "done"
      BY DEF Effects!Next, Effects!StartRecord, Effects!WalkUp, Effects!Audit,
          Effects!Charge, Effects!InsufficientFunds, Effects!PaySeller,
          Effects!UnknownBeneficiary, Effects!PayCommission, Effects!EndRecord,
          Effects!TouchUndefined, Effects!ToPay
    <2>2. QED
      BY <1>1, <2>1 DEF IInv, WalksGetNowhere
  <1>3. Sales!Sold' = Sales!Sold
    BY <1>1 DEF salesVars, Sales!Sold
  <1>4. ~Effects!WalkUp
    BY <1>2 DEF Effects!WalkUp, Effects!Up, IInv, SellersNotRecruited
  <1>5. \/ \E r \in due : Effects!StartRecord(r)
        \/ Effects!TouchUndefined
    BY <1>1, <1>2, <1>4 DEF Effects!Next, Effects!Audit,
        Effects!Charge, Effects!InsufficientFunds, Effects!PaySeller,
        Effects!UnknownBeneficiary, Effects!PayCommission, Effects!EndRecord,
        Effects!ToPay
  <1>6. money' = money /\ WalksGetNowhere'
    <2>1. CASE \E r \in due : Effects!StartRecord(r)
      BY <1>1, <1>2, <1>3, <2>1 DEF Effects!StartRecord, WalksGetNowhere
    <2>2. CASE Effects!TouchUndefined
      BY <1>1, <1>2, <1>3, <2>2 DEF Effects!TouchUndefined, WalksGetNowhere
    <2>3. QED
      BY <1>5, <2>1, <2>2
  <1>7. Positions'
    BY <1>1, <1>3 DEF IInv, Positions, conversionVars, salesVars
  <1>8. QED
    BY <1>1, <1>6, <1>7, QuietStep DEF roster, conversionVars, salesVars, cycleVars

-----------------------------------------------------------------------------
(* The joints of the tick. *)
LEMMA PhaseStep ==
    ASSUME IInv,
           BeginSales \/ BeginEffects \/ BeginCopy \/ CloneUndefined \/ Fails
    PROVE  IInv'
  <1>1. /\ UNCHANGED <<people, conversionVars, salesVars, cycleVars>>
        /\ phase # "over"
    BY DEF BeginSales, BeginEffects, BeginCopy, CloneUndefined, Fails
  <1>2. Sales!Sold' = Sales!Sold
    BY <1>1 DEF salesVars, Sales!Sold
  <1>3. Positions' /\ WalksGetNowhere'
    BY <1>1, <1>2 DEF IInv, Positions, WalksGetNowhere, BeginSales, BeginEffects,
        BeginCopy, CloneUndefined, Fails, conversionVars, salesVars, effectVars
  <1>4. QED
    BY <1>1, <1>3, QuietStep DEF people, roster, conversionVars, salesVars,
        cycleVars

(* What can be copied is what the tick began with. *)
LEMMA CopyIsInert ==
    ASSUME IInv, phase = "copying", \A h \in Holder : CanBeCloned(h)
    PROVE  /\ Sales!Sold = {} /\ recorded = {} /\ Found = begun
           /\ Data = InertData
  <1>1. Sales!Sold = {} /\ stage = "sold" /\ step = "converted"
    BY DEF IInv, Positions
  <1>2. \A h \in Holder : recruitedBy[h] = None
    BY DEF IInv, NullIffRecruited, CanBeCloned
  <1>3. role = begun.role
    BY <1>2 DEF IInv, Typed, NewRolesAreRecruits
  <1>4. recorded = {}
    BY <1>1, <1>2 DEF IInv, RecordsRecruit
  <1>5. money = begun.money /\ inventory = begun.inventory
    BY <1>1 DEF IInv, QuietTick
  <1>6. restockSet = NeedingRestock(begun.role, begun.inventory)
    BY <1>1, <1>3, <1>5 DEF IInv, RestockSetKept
  <1>7. begun = [role |-> begun.role, money |-> begun.money,
                 inventory |-> begun.inventory]
    BY DEF IInv, Typed
  <1>8. Found = begun
    BY <1>3, <1>5, <1>7 DEF Found
  <1>9. CopiedInventory = [h \in Holder |-> IF begun.role[h] = "distributor"
                                            THEN begun.inventory[h] ELSE 0]
    BY <1>3, <1>5 DEF CopiedInventory, IsDistributor
  <1>10. Data = InertData
    BY <1>1, <1>3, <1>4, <1>5, <1>6, <1>9 DEF Data, InertData
  <1>11. QED
    BY <1>1, <1>4, <1>8, <1>10

LEMMA ExportDataStep ==
    ASSUME IInv, ExportData PROVE IInv'
  <1>1. /\ Found = begun /\ Data = InertData
        /\ UNCHANGED <<people, effectVars>>
        /\ exported' = exported + 1 /\ data' = Data /\ begun' = Found
        /\ phase' = "conversion" /\ stage' = "restocking" /\ step' = "testing"
        /\ recorded' = {} /\ convertedBy' = [h \in Holder |-> None]
        /\ unvisited' = Holder
        /\ pending' = Edge /\ outcome' = [e \in Edge |-> "none"]
    BY CopyIsInert DEF ExportData
  <1>2. Sales!Sold' = {}
    BY <1>1 DEF Sales!Sold
  <1>3. Typed' /\ NullIffRecruited'
    BY <1>1 DEF IInv, Typed, NullIffRecruited, people, roster
  <1>4. NewRolesAreRecruits' /\ RecordsRecruit'
    BY <1>1 DEF Found, NewRolesAreRecruits, RecordsRecruit, people, roster
  <1>5. SellersNotRecruited' /\ PendingIsOpen' /\ QuietTick' /\ RestockSetKept'
    BY <1>1, <1>2 DEF Found, SellersNotRecruited, PendingIsOpen, QuietTick,
        RestockSetKept, people
  <1>6. Positions' /\ WalksGetNowhere'
    BY <1>1, <1>2 DEF Positions, WalksGetNowhere
  <1>7. DataIsInert' /\ ThrownTick'
    BY <1>1 DEF DataIsInert, InertData, NeedingRestock, ThrownTick
  <1>8. QED
    BY <1>3, <1>4, <1>5, <1>6, <1>7 DEF IInv

LEMMA NextInvariant == IInv /\ [Next]_vars => IInv'
  <1> SUFFICES ASSUME IInv, [Next]_vars PROVE IInv'
    OBVIOUS
  <1>1. CASE UNCHANGED vars
    <2>1. /\ UNCHANGED <<people, conversionVars, salesVars, effectVars, phase,
                         cycleVars>>
          /\ Sales!Sold' = Sales!Sold
      BY <1>1 DEF vars, salesVars, Sales!Sold
    <2>2. Positions' /\ WalksGetNowhere'
      BY <2>1 DEF IInv, Positions, WalksGetNowhere, conversionVars, salesVars,
          effectVars
    <2>3. QED
      BY <2>1, <2>2, QuietStep DEF people, roster, conversionVars, salesVars,
          cycleVars
  <1>2. QED
    BY <1>1, ApplyConversionsStep, ApplySalesStep, ApplyEffectsStep, PhaseStep,
        ExportDataStep DEF Next

LEMMA Invariance == Spec => []IInv
  BY InitInvariant, NextInvariant, PTL DEF Spec

-----------------------------------------------------------------------------
(* No Sale record of any tick is ever paid out. *)
THEOREM NoPayments == Spec => []NobodyIsPaid
  <1>1. IInv => NobodyIsPaid
    BY DEF IInv, WalksGetNowhere, NobodyIsPaid
  <1>2. QED
    BY <1>1, Invariance, PTL

(* A tick that an exception ends has left all money and products in place. *)
THEOREM ExceptionsAreClean == Spec => []ExceptionsMoveNothing
  <1>1. IInv => ExceptionsMoveNothing
    BY DEF IInv, ThrownTick, ExceptionsMoveNothing
  <1>2. QED
    BY <1>1, Invariance, PTL

(* A tick that can be copied has sold nothing, recruited nobody, and left   *)
(* everything as it found it.                                              *)
THEOREM InertTicks == Spec => []ExportedTicksAreInert
  <1>1. IInv => ExportedTicksAreInert
    BY CopyIsInert DEF ExportedTicksAreInert
  <1>2. QED
    BY <1>1, Invariance, PTL

(* The backends are never shown anything but what they were shown first. *)
THEOREM NothingToSee == Spec => BackendsSeeNothingMove
  <1>1. IInv /\ [Next]_vars => [exported > 0 => data' = data]_vars
    <2> SUFFICES ASSUME IInv, Next, exported > 0 PROVE data' = data
      OBVIOUS
    <2>1. CASE ExportData
      BY <2>1, CopyIsInert DEF ExportData, IInv, DataIsInert
    <2>2. CASE ~ExportData
      BY <2>2 DEF Next, ApplyConversions, BeginSales, ApplySales, BeginEffects,
          ApplyEffects, BeginCopy, CloneUndefined, Fails, cycleVars
    <2>3. QED
      BY <2>1, <2>2
  <1>2. QED
    BY <1>1, Invariance, PTL DEF Spec, BackendsSeeNothingMove

-----------------------------------------------------------------------------
(***************************************************************************)
(* What the sales of a tick start from.  A tick that was exported left     *)
(* everybody's money and stock as the first tick found them; and the       *)
(* conversions, which do recruit, hang a consumer under a distributor, so  *)
(* that the roster keeps its shape.  That needs the records to be about    *)
(* consumers as long as they are not converted.                            *)
(***************************************************************************)
BegunWithRoom ==
    /\ begun.money \in [Holder -> Nat]
    /\ begun.inventory \in [Holder -> Nat]
    /\ \A h \in Holder : begun.inventory[h] + Cardinality(Edge) < InventoryWidth

RosterIsSound ==
    /\ Forest(recruitedBy)
    /\ \A h \in Holder : recruitedBy[h] # None =>
            IsDistributor(h) /\ IsDistributor(recruitedBy[h])

RecordsAreOfConsumers ==
    \A h \in Holder : convertedBy[h] # None =>
        /\ IsDistributor(convertedBy[h])
        /\ h \in unvisited => ~IsDistributor(h)

StartInv ==
    /\ IInv
    /\ BegunWithRoom
    /\ company \in BOOLEAN
    /\ RosterIsSound
    /\ RecordsAreOfConsumers

(* Somebody who recruited nobody can be recruited by anybody else. *)
LEMMA NewLeaf ==
    ASSUME NEW f \in [Holder -> Holder \cup {None}], Forest(f),
           NEW c \in Holder, NEW d \in Holder, c # d,
           \A h \in Holder : f[h] # c
    PROVE  Forest([f EXCEPT ![c] = d])
  <1> DEFINE g == [f EXCEPT ![c] = d]
  <1> SUFFICES ASSUME NEW circle \in (SUBSET Holder) \ {{}}
               PROVE  \E h \in circle : g[h] \notin circle
    BY DEF Forest
  <1>1. CASE circle = {c}
    BY <1>1
  <1>2. CASE circle # {c}
    <2>1. circle \ {c} \in (SUBSET Holder) \ {{}}
      BY <1>2
    <2>2. PICK h \in circle \ {c} : f[h] \notin circle \ {c}
      BY <2>1 DEF Forest
    <2>3. g[h] = f[h] /\ f[h] # c
      BY <2>2
    <2>4. QED
      BY <2>2, <2>3
  <1>3. QED
    BY <1>1, <1>2

LEMMA StartInit == Init => StartInv
  <1> SUFFICES ASSUME Init PROVE StartInv
    OBVIOUS
  <1>1. BegunWithRoom
    <2>1. money \in [Holder -> Nat]
      BY PopulationAssumption DEF Init, PopulationInit
    <2>2. inventory \in [Holder -> StartInventory]
      BY DEF Init, PopulationInit
    <2>3. inventory \in [Holder -> Nat]
          /\ \A h \in Holder : inventory[h] + Cardinality(Edge) < InventoryWidth
      BY <2>2, RoomAssumption
    <2>4. begun.money = money /\ begun.inventory = inventory
      BY DEF Init, Found
    <2>5. QED
      BY <2>1, <2>3, <2>4 DEF BegunWithRoom
  <1>2. company \in BOOLEAN /\ RosterIsSound
    BY DEF Init, PopulationInit, RosterShape, RosterIsSound
  <1>3. RecordsAreOfConsumers
    BY DEF Init, Conversions!ConversionStart, RecordsAreOfConsumers
  <1>4. QED
    BY <1>1, <1>2, <1>3, InitInvariant DEF StartInv

LEMMA ConversionKeepsTheRoster ==
    ASSUME StartInv, ApplyConversions
    PROVE  RosterIsSound' /\ RecordsAreOfConsumers'
  <1>1. Conversions!Next
    BY DEF ApplyConversions
  <1>2. /\ role \in [Holder -> {"consumer", "distributor"}]
        /\ recruitedBy \in [Holder -> Holder \cup {None}]
        /\ convertedBy \in [Holder -> Holder \cup {None}]
    BY DEF StartInv, IInv, Typed
  <1>3. ASSUME NEW h \in Holder, Conversions!Convert(h)
        PROVE  RosterIsSound' /\ RecordsAreOfConsumers'
    <2> DEFINE d == convertedBy[h]
    <2>1. /\ h \in unvisited /\ d # None
          /\ unvisited' = unvisited \ {h}
          /\ role' = [role EXCEPT ![h] = "distributor"]
          /\ recruitedBy' = [recruitedBy EXCEPT ![h] = d]
          /\ convertedBy' = convertedBy
      BY <1>3 DEF Conversions!Convert, Conversions!HasRecord,
          Conversions!BecomeDistributor, Conversions!recordVars
    <2>2. d \in Holder /\ role[d] = "distributor" /\ role[h] # "distributor"
      BY <1>2, <2>1 DEF StartInv, RecordsAreOfConsumers, IsDistributor
    <2>3. \A g \in Holder : recruitedBy[g] # h
      BY <2>2, PopulationAssumption DEF StartInv, RosterIsSound, IsDistributor
    <2>4. Forest(recruitedBy')
      BY <1>2, <2>1, <2>2, <2>3, NewLeaf DEF StartInv, RosterIsSound
    <2>5. ASSUME NEW g \in Holder, recruitedBy'[g] # None
          PROVE  role'[g] = "distributor" /\ role'[recruitedBy'[g]] = "distributor"
      <3>1. CASE g = h
        BY <1>2, <2>1, <2>2, <3>1
      <3>2. CASE g # h
        <4>1. recruitedBy'[g] = recruitedBy[g] /\ recruitedBy[g] \in Holder
          BY <1>2, <2>1, <2>5, <3>2
        <4>2. role[g] = "distributor" /\ role[recruitedBy[g]] = "distributor"
          BY <2>5, <4>1 DEF StartInv, RosterIsSound, IsDistributor
        <4>3. QED
          BY <1>2, <2>1, <4>1, <4>2
      <3>3. QED
        BY <3>1, <3>2
    <2>6. ASSUME NEW g \in Holder, convertedBy[g] # None
          PROVE  /\ role'[convertedBy[g]] = "distributor"
                 /\ g \in unvisited' => role'[g] # "distributor"
      <3>1. /\ convertedBy[g] \in Holder /\ role[convertedBy[g]] = "distributor"
            /\ g \in unvisited => role[g] # "distributor"
        BY <1>2, <2>6 DEF StartInv, RecordsAreOfConsumers, IsDistributor
      <3>2. QED
        BY <1>2, <2>1, <3>1
    <2>7. QED
      BY <2>1, <2>4, <2>5, <2>6 DEF RosterIsSound, RecordsAreOfConsumers,
          IsDistributor, Forest
  <1>4. ASSUME NEW e \in Edge, Conversions!Record(e)
        PROVE  RosterIsSound' /\ RecordsAreOfConsumers'
    <2> DEFINE c == Conversions!ConsumerOf(e)
               d == Conversions!DistributorOf(e)
    <2>1. /\ UNCHANGED <<role, recruitedBy, unvisited>>
          /\ convertedBy' = IF convertedBy[c] # None THEN convertedBy
                            ELSE [convertedBy EXCEPT ![c] = d]
          /\ Conversions!Pair(e) /\ Conversions!CanBecomeDistributor(c)
      BY <1>4 DEF Conversions!Record, Conversions!Sampled, Conversions!roster
    <2>2. c \in Holder /\ d \in Holder
      BY PopulationAssumption DEF Conversions!ConsumerOf, Conversions!DistributorOf
    <2>3. role[c] # "distributor" /\ role[d] = "distributor"
      BY <2>1 DEF Conversions!Pair, Conversions!CanBecomeDistributor,
          Conversions!DistributorOf, Conversions!IsDistributor
    <2>4. QED
      BY <1>2, <2>1, <2>2, <2>3 DEF StartInv, RosterIsSound, Forest,
          RecordsAreOfConsumers, IsDistributor
  <1>5. ASSUME UNCHANGED <<role, recruitedBy, convertedBy>>,
               unvisited' \subseteq unvisited
        PROVE  RosterIsSound' /\ RecordsAreOfConsumers'
    BY <1>5 DEF StartInv, RosterIsSound, RecordsAreOfConsumers, Forest, IsDistributor
  <1>6. ASSUME NEW e \in Edge,
               Conversions!NoRecord(e) \/ Conversions!SampleThrows(e)
                    \/ Conversions!TestUndefined(e)
        PROVE  RosterIsSound' /\ RecordsAreOfConsumers'
    BY <1>5, <1>6 DEF Conversions!NoRecord, Conversions!SampleThrows,
        Conversions!TestUndefined, Conversions!roster, Conversions!recordVars
  <1>7. ASSUME NEW h \in Holder, Conversions!Skip(h)
        PROVE  RosterIsSound' /\ RecordsAreOfConsumers'
    BY <1>5, <1>7 DEF Conversions!Skip, Conversions!roster, Conversions!recordVars
  <1>8. ASSUME Conversions!ProcessConversions \/ Conversions!Return
        PROVE  RosterIsSound' /\ RecordsAreOfConsumers'
    BY <1>5, <1>8 DEF Conversions!ProcessConversions, Conversions!Return,
        Conversions!roster, Conversions!recordVars
  <1>9. QED
    BY <1>1, <1>3, <1>4, <1>6, <1>7, <1>8
    DEF Conversions!Next, Conversions!TestConversion, Conversions!Unimplemented,
        Conversions!CastFailed, Conversions!CantBeDistributor,
        Conversions!ProcFailed

LEMMA ConversionsSupplyNoCompany ==
    ASSUME ApplyConversions PROVE UNCHANGED company
  BY DEF ApplyConversions, Conversions!Next, Conversions!TestConversion,
      Conversions!Unimplemented, Conversions!CastFailed,
      Conversions!CantBeDistributor, Conversions!ProcFailed, Conversions!NoRecord,
      Conversions!Record, Conversions!SampleThrows, Conversions!TestUndefined,
      Conversions!ProcessConversions, Conversions!Skip, Conversions!Convert,
      Conversions!Return, Conversions!roster

LEMMA SalesRecruitNobody ==
    ASSUME ApplySales PROVE UNCHANGED <<role, recruitedBy, company>>
  BY DEF ApplySales, Sales!Next, Sales!SaleHandlerCall,
      Sales!SellerNotDistributor, Sales!SellerRestocking, Sales!NoInventory,
      Sales!BothDistributors, Sales!ChanceFailed, Sales!ChanceThrows,
      Sales!InsufficientFunds, Sales!Sell, Sales!TouchUndefined,
      Sales!Undefined, Sales!Throw,
      Sales!Report, Sales!RestockHandlers, Sales!LookupRestockPops,
      Sales!RestockSale, Sales!Return, Sales!roster

LEMMA StartStep == StartInv /\ [Next]_vars => StartInv'
  <1> SUFFICES ASSUME StartInv, [Next]_vars PROVE StartInv'
    OBVIOUS
  <1>1. IInv'
    BY NextInvariant DEF StartInv
  <1>2. BegunWithRoom'
    <2>1. begun' = begun
      BY CopyIsInert DEF Next, ApplyConversions, BeginSales, ApplySales,
          BeginEffects, ApplyEffects, BeginCopy, CloneUndefined, ExportData,
          Fails, vars, cycleVars, StartInv
    <2>2. QED
      BY <2>1 DEF StartInv, BegunWithRoom
  <1>3. company' = company
    BY ConversionsSupplyNoCompany, SalesRecruitNobody DEF Next, BeginSales,
        BeginEffects, ApplyEffects, BeginCopy, CloneUndefined, ExportData, Fails,
        vars, people, roster
  <1>4. CASE ApplyConversions
    BY <1>1, <1>2, <1>3, <1>4, ConversionKeepsTheRoster DEF StartInv
  <1>5. CASE ~ApplyConversions
    <2>1. UNCHANGED <<role, recruitedBy>>
      BY <1>5, SalesRecruitNobody DEF Next, BeginSales, BeginEffects,
          ApplyEffects, BeginCopy, CloneUndefined, ExportData, Fails, vars, people,
          roster
    <2>2. RosterIsSound'
      BY <2>1 DEF StartInv, RosterIsSound, Forest, IsDistributor
    <2>3. RecordsAreOfConsumers'
      <3>1. CASE ExportData
        BY <3>1 DEF ExportData, RecordsAreOfConsumers
      <3>2. CASE ~ExportData
        <4>1. UNCHANGED <<convertedBy, unvisited>>
          BY <1>5, <3>2 DEF Next, BeginSales, ApplySales, BeginEffects,
              ApplyEffects, BeginCopy, CloneUndefined, Fails, vars, conversionVars
        <4>2. QED
          BY <2>1, <4>1 DEF StartInv, RecordsAreOfConsumers, IsDistributor
      <3>3. QED
        BY <3>1, <3>2
    <2>4. QED
      BY <1>1, <1>2, <1>3, <2>2, <2>3 DEF StartInv
  <1>6. QED
    BY <1>4, <1>5

(* Whatever a tick did, the sales of the next find what Sales.tla assumes of *)
(* the first: nobody overdrawn, the roster in its shape, room in every stock. *)
THEOREM EverySaleStartsAsTheFirst == Spec => []SalesStartAsAssumed
  <1>1. StartInv => SalesStartAsAssumed
    <2> SUFFICES ASSUME StartInv, phase = "sales", stage = "restocking"
                 PROVE  /\ PopulationTypeOK
                        /\ RosterShape
                        /\ \A h \in Holder :
                            inventory[h] + Cardinality(Edge) < InventoryWidth
      BY DEF SalesStartAsAssumed
    <2>1. money = begun.money /\ inventory = begun.inventory
      BY DEF StartInv, IInv, Positions, QuietTick
    <2>2. /\ money \in [Holder -> Nat] /\ inventory \in [Holder -> Nat]
          /\ \A h \in Holder : inventory[h] + Cardinality(Edge) < InventoryWidth
      BY <2>1 DEF StartInv, BegunWithRoom
    <2>3. Cardinality(Edge) \in Nat /\ InventoryWidth \in Nat
      BY PopulationAssumption, FS_CardinalityType
    <2>4. \A h \in Holder : inventory[h] \in 0 .. InventoryWidth - 1
      BY <2>2, <2>3
    <2>5. PopulationTypeOK
      <3>1. inventory \in [Holder -> 0 .. InventoryWidth - 1]
        BY <2>2, <2>4
      <3>2. QED
        BY <2>2, <3>1 DEF StartInv, IInv, Typed, PopulationTypeOK
    <2>6. RosterShape
      BY DEF StartInv, RosterIsSound, IInv, NullIffRecruited, RosterShape
    <2>7. QED
      BY <2>2, <2>5, <2>6
  <1>2. Spec => []StartInv
    BY StartInit, StartStep, PTL DEF Spec
  <1>3. QED
    BY <1>1, <1>2, PTL
=============================================================================
