----------------------------- MODULE SalesProofs -----------------------------
(***************************************************************************)
(* What Sales.tla promises, for every population, graph and price.         *)
(***************************************************************************)
EXTENDS Sales, FiniteSetTheorems, TLAPS

(***************************************************************************)
(* The inductive invariant.  RestockSetNeverStale is not inductive alone:  *)
(* that a sale leaves the set as it is needs the threshold comparison of   *)
(* both parties, and that the unsigned arithmetic is plain arithmetic,     *)
(* which Room bounds by the visits still to come.                          *)
(***************************************************************************)
Room ==
    \A h \in Holder : inventory[h] + Cardinality(pending) < InventoryWidth

RefusedDistributors ==
    \A e \in Edge : outcome[e] = "NO_INVENTORY" =>
        IsDistributor(Source[e]) /\ inventory[Source[e]] = 0

VisitedNotRestocking ==
    stage \in {"selling", "supplying", "sold"} =>
        \A e \in Edge \ pending : Source[e] \notin restockSet

AllVisited == stage \in {"supplying", "sold"} => pending = {}

NothingYet == stage = "restocking" =>
    pending = Edge /\ \A e \in Edge : outcome[e] = "none"

IInv ==
    /\ TypeOK
    /\ Room
    /\ Solvent
    /\ RestockSetNeverStale
    /\ RefusedDistributors
    /\ VisitedNotRestocking
    /\ AllVisited
    /\ NothingYet

-----------------------------------------------------------------------------
(* Unsigned arithmetic away from its ends is plain arithmetic. *)
LEMMA PlainIncrement ==
    ASSUME NEW i \in Nat, i + 1 < InventoryWidth
    PROVE  Increment(i) = i + 1
  BY PopulationAssumption DEF Increment

LEMMA PlainDecrement ==
    ASSUME NEW i \in Nat, 0 < i, i < InventoryWidth
    PROVE  Decrement(i) = i - 1
  BY PopulationAssumption DEF Decrement

(* Visiting an edge leaves one visit fewer to come. *)
LEMMA OneVisitFewer ==
    ASSUME NEW P \in SUBSET Edge, NEW e \in P
    PROVE  /\ P \ {e} \in SUBSET Edge
           /\ Cardinality(P) \in Nat
           /\ Cardinality(P \ {e}) = Cardinality(P) - 1
  <1>1. IsFiniteSet(P)
    BY FS_Subset, PopulationAssumption
  <1>2. QED
    BY <1>1, FS_RemoveElement, FS_CardinalityType

(* A sale is a trade of the ledger, and stays clear of both ends of the     *)
(* unsigned range.                                                         *)
LEMMA SaleIsATrade ==
    ASSUME IInv, NEW e \in Edge, Sell(e)
    PROVE  /\ Source[e] \in Holder /\ Target[e] \in Holder
           /\ IsDistributor(Source[e]) /\ ~IsDistributor(Target[e])
           /\ Source[e] \notin restockSet
           /\ inventory' = [inventory EXCEPT ![Source[e]] = @ - 1,
                                             ![Target[e]] = @ + 1]
           /\ LedgerOf!Trade(Source[e], Target[e])
  <1> DEFINE s == Source[e]
             b == Target[e]
  <1>1. s \in Holder /\ b \in Holder
    BY PopulationAssumption
  <1>2. /\ e \in pending /\ pending \in SUBSET Edge
        /\ IsDistributor(s) /\ ~IsDistributor(b) /\ s # b
        /\ s \notin restockSet
        /\ inventory[s] > 0
        /\ money[b] >= Price
    BY DEF IInv, TypeOK, Sell, Sampled, SaleIsPossible, SellerReady, Visiting, HasInventory, IsDistributor
  <1>3. /\ inventory \in [Holder -> 0 .. InventoryWidth - 1]
        /\ money \in [Holder -> Nat]
        /\ InventoryWidth \in Nat
    BY PopulationAssumption DEF IInv, TypeOK, PopulationTypeOK
  <1>4. inventory[b] + 1 < InventoryWidth
    <2>1. Cardinality(pending) >= 1
      <3>1. Cardinality(pending \ {e}) \in Nat
        <4>1. IsFiniteSet(pending \ {e})
          BY <1>2, FS_Subset, PopulationAssumption
        <4>2. QED
          BY <4>1, FS_CardinalityType
      <3>2. QED
        BY <3>1, <1>2, OneVisitFewer
    <2>2. inventory[b] + Cardinality(pending) < InventoryWidth
      BY <1>1 DEF IInv, Room
    <2>3. Cardinality(pending) \in Nat
      BY <1>2, OneVisitFewer
    <2>4. QED
      BY <2>1, <2>2, <2>3, <1>1, <1>3
  <1>5. Increment(inventory[b]) = inventory[b] + 1
    BY <1>1, <1>3, <1>4, PlainIncrement
  <1>6. Decrement(inventory[s]) = inventory[s] - 1
    BY <1>1, <1>2, <1>3, PlainDecrement
  <1>7. /\ inventory' = [inventory EXCEPT ![b] = Increment(@), ![s] = Decrement(@)]
        /\ money' = [money EXCEPT ![b] = @ - Price, ![s] = @ + Price]
    BY DEF Sell, AtomicallyDoSaleSideEffects
  <1>8. inventory' = [inventory EXCEPT ![s] = @ - 1, ![b] = @ + 1]
    BY <1>1, <1>2, <1>3, <1>5, <1>6, <1>7
  <1>9. money' = [money EXCEPT ![s] = @ + Price, ![b] = @ - Price]
    BY <1>1, <1>2, <1>3, <1>7
  <1>10. QED
    BY <1>1, <1>2, <1>8, <1>9 DEF LedgerOf!Trade

-----------------------------------------------------------------------------
LEMMA InitInvariant == Init => IInv
  <1> SUFFICES ASSUME Init PROVE IInv
    OBVIOUS
  <1> USE PopulationAssumption, RoomAssumption
  <1>1. Cardinality(Edge) \in Nat
    BY FS_CardinalityType
  <1>2. PopulationTypeOK /\ Solvent /\ Room
    <2>1. /\ inventory \in [Holder -> StartInventory]
          /\ money \in [Holder -> StartMoney]
          /\ pending = Edge
      BY DEF Init, PopulationInit
    <2>2. \A h \in Holder : inventory[h] \in Nat
                            /\ inventory[h] + Cardinality(Edge) < InventoryWidth
      BY <2>1
    <2>3. inventory \in [Holder -> 0 .. InventoryWidth - 1]
      BY <1>1, <2>1, <2>2
    <2>4. money \in [Holder -> Nat] /\ Solvent
      <3>1. money \in [Holder -> Nat]
        BY <2>1
      <3>2. QED
        BY <3>1 DEF Solvent
    <2>5. Room
      BY <2>1, <2>2 DEF Room
    <2>6. QED
      BY <2>3, <2>4, <2>5 DEF Init, PopulationInit, PopulationTypeOK
  <1>3. TypeOK
    BY <1>2 DEF Init, TypeOK
  <1>4. QED
    BY <1>2, <1>3 DEF Init, IInv, RestockSetNeverStale, RefusedDistributors,
        VisitedNotRestocking, AllVisited, NothingYet

(* A step that leaves people and purses alone keeps what is said of them. *)
LEMMA PeopleUntouched ==
    ASSUME IInv, UNCHANGED <<roster, money, inventory>>,
           pending' \in SUBSET pending
    PROVE  PopulationTypeOK' /\ Room' /\ Solvent'
  <1>1. PopulationTypeOK' /\ Solvent'
    BY DEF IInv, TypeOK, PopulationTypeOK, Solvent, roster
  <1>2. Cardinality(pending') <= Cardinality(pending)
        /\ Cardinality(pending') \in Nat /\ Cardinality(pending) \in Nat
    <2>1. IsFiniteSet(pending)
      BY FS_Subset, PopulationAssumption DEF IInv, TypeOK
    <2>2. QED
      BY <2>1, FS_Subset, FS_CardinalityType
  <1>3. Room'
    BY <1>2, PopulationAssumption DEF IInv, Room, TypeOK, PopulationTypeOK
  <1>4. QED
    BY <1>1, <1>3

LEMMA RestockHandlersStep ==
    ASSUME IInv, RestockHandlers PROVE IInv'
  <1>1. PopulationTypeOK' /\ Room' /\ Solvent'
    BY PeopleUntouched DEF RestockHandlers, roster, IInv, TypeOK, PopulationTypeOK
  <1>2. TypeOK'
    BY <1>1 DEF RestockHandlers, IInv, TypeOK, Ended
  <1>3. RestockSetNeverStale'
    BY DEF RestockHandlers, RestockSetNeverStale, IsDistributor, NeedsRestock,
        roster
  <1>4. RefusedDistributors' /\ VisitedNotRestocking' /\ AllVisited' /\ NothingYet'
    BY DEF RestockHandlers, RefusedDistributors, VisitedNotRestocking,
        AllVisited, NothingYet, IInv, roster, IsDistributor
  <1>5. QED
    BY <1>1, <1>2, <1>3, <1>4 DEF IInv

(* Every visit that moves no product keeps the set and the refusals, as     *)
(* long as a new refusal is just.                                          *)
LEMMA QuietVisit ==
    ASSUME IInv, NEW e \in Edge, Visiting(e), Visit(e),
           UNCHANGED <<roster, money, inventory, restockSet, restocked>>,
           outcome' \in [Edge -> Reason \cup {"none"}],
           \A d \in Edge : outcome'[d] = "NO_INVENTORY" =>
                \/ outcome[d] = "NO_INVENTORY"
                \/ IsDistributor(Source[d]) /\ inventory[Source[d]] = 0,
           \/ stage' \in {"threw", "undefined"}
           \/ stage' = stage /\ Source[e] \notin restockSet
    PROVE  IInv'
  <1>1. /\ pending' \in SUBSET pending
        /\ pending' \in SUBSET Edge
        /\ restocked' = restocked /\ restockSet' = restockSet
        /\ stage = "selling"
        /\ stage' \in {"selling", "threw", "undefined"}
    BY DEF Visit, Visiting, IInv, TypeOK
  <1>2. PopulationTypeOK' /\ Room' /\ Solvent'
    BY <1>1, PeopleUntouched DEF roster
  <1>3. TypeOK'
    BY <1>1, <1>2 DEF IInv, TypeOK, Ended
  <1>4. RestockSetNeverStale'
    BY <1>1 DEF IInv, RestockSetNeverStale, IsDistributor, NeedsRestock, roster
  <1>5. RefusedDistributors'
    BY DEF IInv, RefusedDistributors, IsDistributor, roster
  <1>6. VisitedNotRestocking' /\ AllVisited' /\ NothingYet'
    BY <1>1 DEF IInv, VisitedNotRestocking, AllVisited, NothingYet, Visit
  <1>7. QED
    BY <1>2, <1>3, <1>4, <1>5, <1>6 DEF IInv

(* A visit that reports a reason why there was no sale. *)
LEMMA ReportStep ==
    ASSUME IInv, NEW e \in Edge, NEW r \in Reason,
           Visiting(e), Report(e, r),
           UNCHANGED <<money, inventory>>,
           Source[e] \notin restockSet,
           r = "NO_INVENTORY" => IsDistributor(Source[e])
                                 /\ inventory[Source[e]] = 0
    PROVE  IInv'
  <1>1. outcome \in [Edge -> Reason \cup {"none"}]
    BY DEF IInv, TypeOK
  <1>2. outcome' = [outcome EXCEPT ![e] = r]
    BY DEF Report
  <1>3. outcome' \in [Edge -> Reason \cup {"none"}]
    BY <1>1, <1>2
  <1>4. \A d \in Edge : outcome'[d] = "NO_INVENTORY" =>
            \/ outcome[d] = "NO_INVENTORY"
            \/ IsDistributor(Source[d]) /\ inventory[Source[d]] = 0
    BY <1>1, <1>2
  <1>5. /\ Visit(e) /\ stage' = stage
        /\ UNCHANGED <<roster, money, inventory, restockSet, restocked>>
    BY DEF Report
  <1>6. QED
    BY <1>3, <1>4, <1>5, QuietVisit

LEMMA ThrowStep ==
    ASSUME IInv, NEW e \in Edge, Visiting(e), Throw(e) \/ Undefined(e)
    PROVE  IInv'
  <1>1. /\ Visit(e) /\ outcome' = outcome
        /\ UNCHANGED <<roster, money, inventory, restockSet, restocked>>
        /\ stage' \in {"threw", "undefined"}
    BY DEF Throw, Undefined
  <1>2. outcome \in [Edge -> Reason \cup {"none"}]
    BY DEF IInv, TypeOK
  <1>3. QED
    BY <1>1, <1>2, QuietVisit

LEMMA SellStep ==
    ASSUME IInv, NEW e \in Edge, Sell(e)
    PROVE  IInv'
  <1> DEFINE s == Source[e]
             b == Target[e]
  <1>1. /\ s \in Holder /\ b \in Holder /\ s # b
        /\ IsDistributor(s) /\ ~IsDistributor(b) /\ s \notin restockSet
        /\ inventory[s] > 0 /\ money[b] >= Price
        /\ inventory' = [inventory EXCEPT ![s] = @ - 1, ![b] = @ + 1]
        /\ money' = [money EXCEPT ![s] = @ + Price, ![b] = @ - Price]
    BY SaleIsATrade DEF LedgerOf!Trade
  <1>2. /\ stage = "selling" /\ e \in pending
        /\ pending' = pending \ {e}
        /\ outcome' = [outcome EXCEPT ![e] = "SUCCESS"]
        /\ UNCHANGED <<stage, restockSet, restocked, roster>>
    BY DEF Sell, Sampled, SaleIsPossible, SellerReady, Visiting,
        Report, Visit
  <1>3. /\ inventory \in [Holder -> 0 .. InventoryWidth - 1]
        /\ money \in [Holder -> Nat]
        /\ pending \in SUBSET Edge
    BY DEF IInv, TypeOK, PopulationTypeOK
  <1>4. /\ Cardinality(pending) \in Nat
        /\ Cardinality(pending') = Cardinality(pending) - 1
        /\ Cardinality(pending') \in Nat
    <2>1. IsFiniteSet(pending')
      BY <1>2, <1>3, FS_Subset, PopulationAssumption
    <2>2. QED
      BY <1>2, <1>3, <2>1, OneVisitFewer, FS_CardinalityType
  <1>5. Room'
    <2>1. \A h \in Holder : inventory[h] + Cardinality(pending) < InventoryWidth
      BY DEF IInv, Room
    <2>2. \A h \in Holder : inventory'[h] <= inventory[h] + 1
      BY <1>1, <1>3
    <2>3. \A h \in Holder : inventory'[h] \in Int /\ inventory[h] \in Int
      BY <1>1, <1>3
    <2>4. QED
      BY <1>4, <2>1, <2>2, <2>3, PopulationAssumption DEF Room
  <1>6. Solvent'
    <2> SUFFICES ASSUME NEW h \in Holder PROVE money'[h] >= 0
      BY DEF Solvent
    <2>1. money[h] >= 0 /\ Price \in Nat
      BY PriceAssumption DEF IInv, Solvent
    <2>2. QED
      BY <1>1, <1>3, <2>1
  <1>7. TypeOK'
    <2>1. inventory' \in [Holder -> 0 .. InventoryWidth - 1]
      <3>1. \A h \in Holder : inventory'[h] \in Int /\ inventory'[h] >= 0
        BY <1>1, <1>3
      <3>2. \A h \in Holder : inventory'[h] < InventoryWidth
        BY <1>4, <1>5, <3>1, PopulationAssumption DEF Room
      <3>3. QED
        BY <1>1, <1>3, <3>1, <3>2, PopulationAssumption
    <2>2. money' \in [Holder -> Nat]
      <3>1. money' \in [Holder -> Int]
        BY <1>1, <1>3, PriceAssumption
      <3>2. QED
        BY <1>6, <3>1 DEF Solvent
    <2>3. PopulationTypeOK'
      BY <1>2, <2>1, <2>2 DEF IInv, TypeOK, PopulationTypeOK, roster
    <2>4. QED
      BY <1>2, <2>3 DEF IInv, TypeOK, Reason, Ended
  <1>8. RestockSetNeverStale'
    <2>1. restockSet = {h \in Holder : IsDistributor(h) /\ NeedsRestock(h)}
      BY <1>2 DEF IInv, RestockSetNeverStale
    <2>2. ASSUME NEW h \in Holder
          PROVE  h \in restockSet' <=> (IsDistributor(h) /\ NeedsRestock(h))'
      <3>1. CASE h = s
        <4>1. ~(inventory[s] > RestockThreshold)
          BY <1>1, <2>1 DEF NeedsRestock
        <4>2. inventory'[s] = inventory[s] - 1
          BY <1>1, <1>3
        <4>3. ~(inventory'[s] > RestockThreshold)
          BY <1>1, <1>3, <4>1, <4>2, PopulationAssumption
        <4>4. QED
          BY <1>1, <1>2, <3>1, <4>3 DEF NeedsRestock
      <3>2. CASE h = b
        BY <1>1, <1>2, <2>1, <3>2 DEF IsDistributor, roster
      <3>3. CASE h # s /\ h # b
        BY <1>1, <1>2, <1>3, <2>1, <3>3 DEF IsDistributor, NeedsRestock, roster
      <3>4. QED
        BY <3>1, <3>2, <3>3
    <2>3. restockSet' \subseteq Holder
      BY <1>2 DEF IInv, TypeOK
    <2>4. QED
      BY <2>2, <2>3 DEF RestockSetNeverStale
  <1>9. RefusedDistributors'
    <2> SUFFICES ASSUME NEW d \in Edge, outcome'[d] = "NO_INVENTORY"
                 PROVE  IsDistributor(Source[d])' /\ inventory'[Source[d]] = 0
      BY DEF RefusedDistributors
    <2>1. outcome[d] = "NO_INVENTORY"
      BY <1>2 DEF IInv, TypeOK
    <2>2. IsDistributor(Source[d]) /\ inventory[Source[d]] = 0
      BY <2>1 DEF IInv, RefusedDistributors
    <2>3. Source[d] # s /\ Source[d] # b /\ Source[d] \in Holder
      BY <1>1, <2>2, PopulationAssumption
    <2>4. QED
      BY <1>1, <1>2, <1>3, <2>2, <2>3 DEF IsDistributor, roster
  <1>10. VisitedNotRestocking' /\ AllVisited' /\ NothingYet'
    BY <1>1, <1>2 DEF IInv, VisitedNotRestocking, AllVisited, NothingYet
  <1>11. QED
    BY <1>5, <1>6, <1>7, <1>8, <1>9, <1>10 DEF IInv

(* SaleHandler, whatever it decides about the edge. *)
LEMMA SaleHandlerStep ==
    ASSUME IInv, NEW e \in Edge, SaleHandlerCall(e)
    PROVE  IInv'
  <1>1. /\ Source[e] \in Holder /\ Target[e] \in Holder
        /\ inventory[Source[e]] \in Nat
    BY PopulationAssumption DEF IInv, TypeOK, PopulationTypeOK
  <1>2. Visiting(e) => restockSet = {h \in Holder : IsDistributor(h) /\ NeedsRestock(h)}
    BY DEF Visiting, IInv, RestockSetNeverStale
  <1>3. CASE SellerNotDistributor(e)
    <2>1. Source[e] \notin restockSet
      BY <1>2, <1>3 DEF SellerNotDistributor
    <2>2. Visiting(e) /\ Report(e, "SELLER_NOT_DISTRIBUTOR")
          /\ UNCHANGED <<money, inventory>>
      BY <1>1, <1>3 DEF SellerNotDistributor
    <2>3. QED
      BY <2>1, <2>2, ReportStep DEF Reason
  <1>4. CASE SellerRestocking(e)
    BY <1>4, ThrowStep DEF SellerRestocking
  <1>5. CASE NoInventory(e)
    <2>1. IsDistributor(Source[e]) /\ inventory[Source[e]] = 0
      BY <1>1, <1>5 DEF NoInventory, HasInventory
    <2>2. Visiting(e) /\ Report(e, "NO_INVENTORY") /\ Source[e] \notin restockSet
          /\ UNCHANGED <<money, inventory>>
      BY <1>1, <1>5 DEF NoInventory
    <2>3. QED
      BY <2>1, <2>2, ReportStep DEF Reason
  <1>6. CASE BothDistributors(e)
    <2>1. Visiting(e) /\ Report(e, "BOTH_DISTRIBUTORS") /\ Source[e] \notin restockSet
          /\ UNCHANGED <<money, inventory>>
      BY <1>1, <1>6 DEF BothDistributors, SellerReady
    <2>2. QED
      BY <2>1, ReportStep DEF Reason
  <1>7. CASE \/ ChanceFailed(e) \/ ChanceThrows(e) \/ InsufficientFunds(e)
             \/ TouchUndefined(e)
    <2>1. Visiting(e) /\ Undefined(e)
      BY <1>7 DEF ChanceFailed, ChanceThrows, InsufficientFunds, TouchUndefined,
          Sampled, SaleIsPossible, SellerReady
    <2>2. QED
      BY <2>1, ThrowStep
  <1>8. CASE Sell(e)
    BY <1>8, SellStep
  <1>9. QED
    BY <1>3, <1>4, <1>5, <1>6, <1>7, <1>8 DEF SaleHandlerCall

(* What happens after the edges: nobody gains or loses anything. *)
LEMMA AfterTheEdges ==
    ASSUME IInv, UNCHANGED <<pending, outcome, restockSet, roster, money,
                             inventory>>,
           restocked' \in [Holder -> Reason \cup {"none"}],
           \/ stage' \in {"supplying", "sold", "undefined"} /\ stage = "supplying"
           \/ /\ stage' \in {"supplying", "undefined"}
              /\ stage = "selling" /\ pending = {}
    PROVE  IInv'
  <1>1. PopulationTypeOK' /\ Room' /\ Solvent'
    BY PeopleUntouched DEF roster, IInv, TypeOK, PopulationTypeOK
  <1>2. TypeOK'
    BY <1>1 DEF IInv, TypeOK, Ended
  <1>3. RestockSetNeverStale' /\ RefusedDistributors'
    BY DEF IInv, RestockSetNeverStale, RefusedDistributors, IsDistributor,
        NeedsRestock, roster
  <1>4. VisitedNotRestocking' /\ AllVisited' /\ NothingYet'
    BY DEF IInv, VisitedNotRestocking, AllVisited, NothingYet
  <1>5. QED
    BY <1>1, <1>2, <1>3, <1>4 DEF IInv

LEMMA NextInvariant == IInv /\ [Next]_vars => IInv'
  <1> SUFFICES ASSUME IInv, [Next]_vars PROVE IInv'
    OBVIOUS
  <1>1. CASE RestockHandlers
    BY <1>1, RestockHandlersStep
  <1>2. CASE \E e \in Edge : SaleHandlerCall(e)
    BY <1>2, SaleHandlerStep
  <1>3. CASE LookupRestockPops
    <2>1. restocked' \in [Holder -> Reason \cup {"none"}]
      BY <1>3 DEF LookupRestockPops, IInv, TypeOK
    <2>2. QED
      BY <1>3, <2>1, AfterTheEdges DEF LookupRestockPops
  <1>4. CASE \E h \in Holder : RestockSale(h)
    <2>1. restocked' \in [Holder -> Reason \cup {"none"}]
      BY <1>4 DEF RestockSale, IInv, TypeOK, Reason
    <2>2. /\ stage = "supplying" /\ stage' \in {"supplying", "undefined"}
          /\ UNCHANGED <<pending, outcome, restockSet, roster, money,
                         inventory>>
      BY <1>4 DEF RestockSale
    <2>3. QED
      BY <2>1, <2>2, AfterTheEdges
  <1>5. CASE Return
    <2>1. restocked' \in [Holder -> Reason \cup {"none"}]
      BY <1>5 DEF Return, IInv, TypeOK
    <2>2. QED
      BY <1>5, <2>1, AfterTheEdges DEF Return
  <1>6. CASE UNCHANGED vars
    BY <1>6 DEF vars, salesVars, roster, IInv, TypeOK, PopulationTypeOK, Room,
        Solvent, RestockSetNeverStale, RefusedDistributors,
        VisitedNotRestocking, AllVisited, NothingYet, IsDistributor, NeedsRestock
  <1>7. QED
    BY <1>1, <1>2, <1>3, <1>4, <1>5, <1>6 DEF Next

LEMMA Invariance == Spec => []IInv
  BY InitInvariant, NextInvariant, PTL DEF Spec

-----------------------------------------------------------------------------
(* Type correctness of the whole call, the people and its own bookkeeping. *)
THEOREM TypeCorrect == Spec => []TypeOK
  <1>1. IInv => TypeOK
    BY DEF IInv
  <1>2. QED
    BY <1>1, Invariance, PTL

(* No sequence of sales overdraws anybody. *)
THEOREM Solvency == Spec => []Solvent
  <1>1. IInv => Solvent
    BY DEF IInv
  <1>2. QED
    BY <1>1, Invariance, PTL

(* The RestockSet computed before the first sale of a tick still names exactly *)
(* the distributors that need to restock after any number of sales.           *)
THEOREM RestockSetStable == Spec => []RestockSetNeverStale
  <1>1. IInv => RestockSetNeverStale
    BY DEF IInv
  <1>2. QED
    BY <1>1, Invariance, PTL

(* A refusal for want of inventory is never overtaken by a later sale. *)
THEOREM RefusalsAreFinal == Spec => []RefusedForGood
  <1>1. IInv => RefusedForGood
    BY DEF IInv, RefusedDistributors, RefusedForGood
  <1>2. QED
    BY <1>1, Invariance, PTL

(* Only a population without a restocking distributor at a source gets through *)
(* all of its edges.                                                          *)
THEOREM Survivors == Spec => []SurvivorsHadNoRestockingSeller
  <1>1. IInv => SurvivorsHadNoRestockingSeller
    BY DEF IInv, AllVisited, VisitedNotRestocking, SurvivorsHadNoRestockingSeller
  <1>2. QED
    BY <1>1, Invariance, PTL

(* Whatever the graph, the order of its edges, the chances and the failures:   *)
(* what a tick does to money and products is a sequence of fair trades.       *)
THEOREM Refinement == Spec => ImplementsLedger
  <1>1. Init => LedgerOf!Init
    BY PopulationAssumption, RoomAssumption DEF Init, PopulationInit, LedgerOf!Init
  <1>2. IInv /\ [Next]_vars => [LedgerOf!Next]_(LedgerOf!vars)
    <2> SUFFICES ASSUME IInv, [Next]_vars
                 PROVE  LedgerOf!Next \/ UNCHANGED <<money, inventory>>
      BY DEF LedgerOf!vars
    <2>1. ASSUME NEW e \in Edge, Sell(e) PROVE LedgerOf!Next
      BY <2>1, SaleIsATrade DEF LedgerOf!Next
    <2>2. ASSUME NEW e \in Edge, SaleHandlerCall(e), ~Sell(e)
          PROVE  UNCHANGED <<money, inventory>>
      BY <2>2 DEF SaleHandlerCall, SellerNotDistributor, SellerRestocking,
          NoInventory, BothDistributors, ChanceFailed, ChanceThrows,
          InsufficientFunds, TouchUndefined, Throw, Undefined
    <2>3. CASE RestockHandlers \/ LookupRestockPops \/ Return \/ UNCHANGED vars
      BY <2>3 DEF RestockHandlers, LookupRestockPops, Return, vars
    <2>4. CASE \E h \in Holder : RestockSale(h)
      BY <2>4 DEF RestockSale
    <2>5. QED
      BY <2>1, <2>2, <2>3, <2>4 DEF Next
  <1>3. QED
    BY <1>1, <1>2, Invariance, PTL DEF Spec, ImplementsLedger, LedgerOf!Spec

-----------------------------------------------------------------------------
(***************************************************************************)
(* Why a tick ends in undefined behaviour, and what its records account    *)
(* for.  Both rest on this, that an edge is visited once, so what is said  *)
(* of it is never overwritten.                                             *)
(***************************************************************************)
Untold == \A e \in pending : outcome[e] = "none"

CauseInv == Untold /\ UndefinedHasACause

(* A report is of an edge of which nothing was said, and is kept. *)
LEMMA ReportIsNews ==
    ASSUME IInv, Untold, NEW e \in Edge, Visiting(e), NEW r, Report(e, r)
    PROVE  /\ outcome[e] = "none" /\ pending' = pending \ {e}
           /\ \A d \in Edge : outcome'[d] = IF d = e THEN r ELSE outcome[d]
           /\ stage = "selling" /\ stage' = "selling"
  BY DEF Report, Visit, Visiting, Untold, IInv, TypeOK

(* A visit that ends the tick: what stopped it stays where it stopped. *)
LEMMA UnwindingHasACause ==
    ASSUME IInv, CauseInv, NEW e \in Edge, Visiting(e),
           Throw(e) \/ Undefined(e),
           stage' = "undefined" =>
               \/ Source[e] \in restockSet /\ Sold # {}
               \/ /\ IsDistributor(Source[e])
                  /\ ~IsDistributor(Target[e])
                  /\ \/ \E h \in Parties(e) : chance[h] # "sure"
                     \/ money[Target[e]] < Price
    PROVE  CauseInv'
  <1>1. /\ pending' = pending \ {e} /\ e \in pending /\ outcome[e] = "none"
        /\ UNCHANGED <<outcome, role, chance, money, restockSet>>
    BY DEF Throw, Undefined, Visit, Visiting, roster, CauseInv, Untold
  <1>2. Untold'
    BY <1>1 DEF CauseInv, Untold
  <1>3. UndefinedHasACause'
    BY <1>1 DEF UndefinedHasACause, Sold, IsDistributor, Parties
  <1>4. QED
    BY <1>2, <1>3 DEF CauseInv

LEMMA SaleHandlerHasACause ==
    ASSUME IInv, CauseInv, NEW e \in Edge, SaleHandlerCall(e)
    PROVE  CauseInv'
  <1>1. CASE \E r \in Reason : Visiting(e) /\ Report(e, r)
    <2>1. PICK r \in Reason : Visiting(e) /\ Report(e, r)
      BY <1>1
    <2>2. Untold' /\ stage' = "selling"
      BY <2>1, ReportIsNews DEF CauseInv, Untold, IInv, TypeOK
    <2>3. QED
      BY <2>2 DEF CauseInv, UndefinedHasACause
  <1>2. CASE SellerRestocking(e)
    <2>1. Visiting(e) /\ Throw(e) /\ Source[e] \in restockSet
      BY <1>2 DEF SellerRestocking
    <2>2. stage' = "undefined" => Sold # {}
      BY <2>1 DEF Throw
    <2>3. QED
      BY <2>1, <2>2, UnwindingHasACause
  <1>3. CASE \/ ChanceFailed(e) \/ ChanceThrows(e) \/ InsufficientFunds(e)
             \/ TouchUndefined(e)
    <2>1. /\ Visiting(e) /\ Undefined(e)
          /\ IsDistributor(Source[e]) /\ ~IsDistributor(Target[e])
      BY <1>3 DEF ChanceFailed, ChanceThrows, InsufficientFunds, TouchUndefined,
          Sampled, SaleIsPossible, SellerReady
    <2>2. \/ \E h \in Parties(e) : chance[h] # "sure"
          \/ money[Target[e]] < Price
      BY <1>3 DEF ChanceFailed, ChanceThrows, InsufficientFunds, TouchUndefined,
          SomeSide
    <2>3. QED
      BY <2>1, <2>2, UnwindingHasACause
  <1>4. \/ SellerRestocking(e)
        \/ ChanceFailed(e) \/ ChanceThrows(e) \/ InsufficientFunds(e)
           \/ TouchUndefined(e)
        \/ \E r \in Reason : Visiting(e) /\ Report(e, r)
    BY DEF SaleHandlerCall, SellerNotDistributor, NoInventory, BothDistributors,
        Sell, Sampled, SaleIsPossible, SellerReady, Reason
  <1>5. QED
    BY <1>1, <1>2, <1>3, <1>4

(* After the edges only the null company is left to go wrong. *)
LEMMA AfterTheEdgesHasACause ==
    ASSUME CauseInv, UNCHANGED <<pending, outcome, restockSet, roster>>,
           stage # "undefined",
           stage' = "undefined" => restockSet # {} /\ ~company
    PROVE  CauseInv'
  BY DEF CauseInv, Untold, UndefinedHasACause, roster

LEMMA CauseInvariance == Spec => []CauseInv
  <1>1. Init => CauseInv
    BY DEF Init, CauseInv, Untold, UndefinedHasACause
  <1>2. IInv /\ CauseInv /\ [Next]_vars => CauseInv'
    <2> SUFFICES ASSUME IInv, CauseInv, [Next]_vars PROVE CauseInv'
      OBVIOUS
    <2>1. CASE \E e \in Edge : SaleHandlerCall(e)
      BY <2>1, SaleHandlerHasACause
    <2>2. CASE RestockHandlers
      BY <2>2 DEF RestockHandlers, CauseInv, Untold, UndefinedHasACause
    <2>3. CASE LookupRestockPops \/ Return
      BY <2>3, AfterTheEdgesHasACause DEF LookupRestockPops, Return
    <2>4. CASE \E h \in Holder : RestockSale(h)
      <3>1. PICK h \in Holder : RestockSale(h)
        BY <2>4
      <3>2. restockSet # {} /\ stage = "supplying"
        BY <3>1 DEF RestockSale
      <3>3. QED
        BY <3>1, <3>2, AfterTheEdgesHasACause DEF RestockSale
    <2>5. CASE UNCHANGED vars
      BY <2>5 DEF vars, salesVars, roster, CauseInv, Untold, UndefinedHasACause,
                  Sold, Parties, IsDistributor
    <2>6. QED
      BY <2>1, <2>2, <2>3, <2>4, <2>5 DEF Next
  <1>3. QED
    BY <1>1, <1>2, Invariance, PTL DEF Spec

(* Where a tick becomes undefined, there is a null company to restock from or *)
(* an edge on which a visit stopped, for one of the reasons named.            *)
THEOREM CausesOfUndefined == Spec => []UndefinedHasACause
  <1>1. CauseInv => UndefinedHasACause
    BY DEF CauseInv
  <1>2. QED
    BY <1>1, CauseInvariance, PTL

-----------------------------------------------------------------------------
(* The sales of h at one end, before and after one more. *)
LEMMA OneMoreRecord ==
    ASSUME NEW S \in SUBSET Edge, NEW e \in Edge \ S, NEW End \in [Edge -> Holder],
           NEW h \in Holder
    PROVE  LET of(R) == Cardinality({d \in R : End[d] = h})
           IN /\ of(S) \in Nat
              /\ of(S \cup {e}) = IF End[e] = h THEN of(S) + 1 ELSE of(S)
  <1> DEFINE Of == {d \in S : End[d] = h}
  <1>1. IsFiniteSet(Of)
    BY FS_Subset, PopulationAssumption
  <1>2. Cardinality(Of) \in Nat
    BY <1>1, FS_CardinalityType
  <1>3. CASE End[e] = h
    <2>1. {d \in S \cup {e} : End[d] = h} = Of \cup {e} /\ e \notin Of
      BY <1>3
    <2>2. Cardinality(Of \cup {e}) = Cardinality(Of) + 1
      BY <1>1, <2>1, FS_AddElement
    <2>3. QED
      BY <1>2, <1>3, <2>1, <2>2
  <1>4. CASE End[e] # h
    <2>1. {d \in S \cup {e} : End[d] = h} = Of
      BY <1>4
    <2>2. QED
      BY <1>2, <1>4, <2>1
  <1>5. QED
    BY <1>3, <1>4

LEMMA OneUnitMore ==
    ASSUME NEW x \in Int
    PROVE  /\ Price * x \in Int
           /\ Price * (x + 1) = Price * x + Price
           /\ Price * (x - 1) = Price * x - Price
  BY PriceAssumption

(* A sale is accounted for by its record. *)
LEMMA SaleIsRecorded ==
    ASSUME IInv, Untold, NEW e \in Edge, Sell(e), NEW h \in Holder
    PROVE  PurseByRecords(h)' = PurseByRecords(h)
           /\ StockByRecords(h)' = StockByRecords(h)
  <1> DEFINE s == Source[e]
             b == Target[e]
             net == BoughtBy(h) - SoldBy(h)
  <1>1. /\ s \in Holder /\ b \in Holder /\ s # b
        /\ inventory' = [inventory EXCEPT ![s] = @ - 1, ![b] = @ + 1]
        /\ money' = [money EXCEPT ![s] = @ + Price, ![b] = @ - Price]
    BY SaleIsATrade DEF LedgerOf!Trade
  <1>2. /\ inventory \in [Holder -> Int] /\ money \in [Holder -> Int]
        /\ Price \in Int
    BY PopulationAssumption, PriceAssumption DEF IInv, TypeOK, PopulationTypeOK
  <1>3. Visiting(e) /\ Report(e, "SUCCESS")
    BY DEF Sell, Sampled, SaleIsPossible, SellerReady
  <1>4. Sold' = Sold \cup {e} /\ Sold \in SUBSET Edge /\ e \in Edge \ Sold
    BY <1>3, ReportIsNews DEF Sold
  <1>5. /\ BoughtBy(h) \in Nat /\ SoldBy(h) \in Nat
        /\ BoughtBy(h)' = IF b = h THEN BoughtBy(h) + 1 ELSE BoughtBy(h)
        /\ SoldBy(h)' = IF s = h THEN SoldBy(h) + 1 ELSE SoldBy(h)
    <2>1. Source \in [Edge -> Holder] /\ Target \in [Edge -> Holder]
      BY PopulationAssumption
    <2>2. /\ Cardinality({d \in Sold : Target[d] = h}) \in Nat
          /\ Cardinality({d \in Sold \cup {e} : Target[d] = h})
                = IF Target[e] = h THEN Cardinality({d \in Sold : Target[d] = h}) + 1
                                   ELSE Cardinality({d \in Sold : Target[d] = h})
      BY <1>4, <2>1, OneMoreRecord
    <2>3. /\ Cardinality({d \in Sold : Source[d] = h}) \in Nat
          /\ Cardinality({d \in Sold \cup {e} : Source[d] = h})
                = IF Source[e] = h THEN Cardinality({d \in Sold : Source[d] = h}) + 1
                                   ELSE Cardinality({d \in Sold : Source[d] = h})
      BY <1>4, <2>1, OneMoreRecord
    <2>4. QED
      BY <1>4, <2>2, <2>3 DEF BoughtBy, SoldBy
  <1>6. net \in Int /\ money[h] \in Int /\ inventory[h] \in Int
    BY <1>2, <1>5
  <1>7. /\ Price * net \in Int
        /\ Price * (net + 1) = Price * net + Price
        /\ Price * (net - 1) = Price * net - Price
    BY <1>6, OneUnitMore
  <1>8. CASE h = s
    <2>1. /\ (BoughtBy(h) - SoldBy(h))' = net - 1
          /\ (SoldBy(h) - BoughtBy(h))' = (SoldBy(h) - BoughtBy(h)) + 1
      BY <1>1, <1>5, <1>8
    <2>2. money'[h] = money[h] + Price /\ inventory'[h] = inventory[h] - 1
      BY <1>1, <1>2, <1>8
    <2>3. money'[h] + Price * (net - 1) = money[h] + Price * net
      BY <1>2, <1>6, <1>7, <2>2
    <2>4. QED
      BY <1>5, <1>6, <2>1, <2>2, <2>3 DEF PurseByRecords, StockByRecords
  <1>9. CASE h = b
    <2>1. /\ (BoughtBy(h) - SoldBy(h))' = net + 1
          /\ (SoldBy(h) - BoughtBy(h))' = (SoldBy(h) - BoughtBy(h)) - 1
      BY <1>1, <1>5, <1>9
    <2>2. money'[h] = money[h] - Price /\ inventory'[h] = inventory[h] + 1
      BY <1>1, <1>2, <1>9
    <2>3. money'[h] + Price * (net + 1) = money[h] + Price * net
      BY <1>2, <1>6, <1>7, <2>2
    <2>4. QED
      BY <1>5, <1>6, <2>1, <2>2, <2>3 DEF PurseByRecords, StockByRecords
  <1>10. CASE h # s /\ h # b
    <2>1. money'[h] = money[h] /\ inventory'[h] = inventory[h]
      BY <1>1, <1>2, <1>10
    <2>2. BoughtBy(h)' = BoughtBy(h) /\ SoldBy(h)' = SoldBy(h)
      BY <1>5, <1>10
    <2>3. QED
      BY <2>1, <2>2 DEF PurseByRecords, StockByRecords
  <1>11. QED
    BY <1>8, <1>9, <1>10

(* Any other step moves nothing and makes no record of a sale. *)
LEMMA NoSaleNoRecord ==
    ASSUME IInv, Untold, [Next]_vars, ~\E e \in Edge : Sell(e)
    PROVE  UNCHANGED <<money, inventory>> /\ Sold' = Sold
  <1>1. ASSUME NEW e \in Edge, SaleHandlerCall(e)
        PROVE  UNCHANGED <<money, inventory>> /\ Sold' = Sold
    <2>1. CASE \E r \in Reason \ {"SUCCESS"} :
                Visiting(e) /\ Report(e, r) /\ UNCHANGED <<money, inventory>>
      BY <2>1, ReportIsNews DEF Sold
    <2>2. CASE Throw(e) \/ Undefined(e)
      BY <2>2 DEF Throw, Undefined, Sold
    <2>3. QED
      BY <1>1, <2>1, <2>2 DEF SaleHandlerCall, SellerNotDistributor,
          SellerRestocking, NoInventory, BothDistributors, ChanceFailed,
          ChanceThrows, InsufficientFunds, TouchUndefined, SellerReady, Reason
  <1>2. CASE RestockHandlers \/ LookupRestockPops \/ Return \/ UNCHANGED vars
    BY <1>2 DEF RestockHandlers, LookupRestockPops, Return, vars, salesVars, Sold
  <1>3. CASE \E h \in Holder : RestockSale(h)
    BY <1>3 DEF RestockSale, Sold
  <1>4. QED
    BY <1>1, <1>2, <1>3 DEF Next

(* Whatever becomes of a tick, and however many sales a holder is party to:   *)
(* take back what its records say, and it has what it began the tick with.   *)
THEOREM RecordsAccount == Spec => NothingMovesUnrecorded
  <1>1. IInv /\ CauseInv /\ [Next]_vars =>
            [\A h \in Holder : PurseByRecords(h)' = PurseByRecords(h)
                               /\ StockByRecords(h)' = StockByRecords(h)]_vars
    <2> SUFFICES ASSUME IInv, Untold, [Next]_vars, NEW h \in Holder
                 PROVE  PurseByRecords(h)' = PurseByRecords(h)
                        /\ StockByRecords(h)' = StockByRecords(h)
      BY DEF CauseInv
    <2>1. CASE \E e \in Edge : Sell(e)
      BY <2>1, SaleIsRecorded
    <2>2. CASE ~\E e \in Edge : Sell(e)
      BY <2>2, NoSaleNoRecord
      DEF PurseByRecords, StockByRecords, SoldBy, BoughtBy
    <2>3. QED
      BY <2>1, <2>2
  <1>2. QED
    BY <1>1, Invariance, CauseInvariance, PTL DEF Spec, NothingMovesUnrecorded
=============================================================================
