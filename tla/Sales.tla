-------------------------------- MODULE Sales --------------------------------
(***************************************************************************)
(* Simulation::applySales, one call of it: who needs to restock, then one  *)
(* SaleHandler call per edge, then one per holder that restocks, with the  *)
(* company as the seller.                                                  *)
(*                                                                         *)
(* The code runs in one thread.  What makes it hard is what a call leaves  *)
(* behind: SaleHandler::saleIsPossible wraps the two objects of a          *)
(* promising pair in new shared_ptrs, although the graph owns them         *)
(* already, by std::make_shared.  The new pointers cannot delete what they *)
(* hold: the first time the last copy of one goes, with a failed chance or *)
(* an exception, is undefined behaviour.  A Sale record keeps its copies,  *)
(* so a sale is well defined for as long as its record lives.              *)
(*                                                                         *)
(* Stage "undefined" is undefined behaviour (such a delete, a null         *)
(* dereference): any outcome of it is covered by the fact that nothing is  *)
(* claimed of what follows.                                                *)
(***************************************************************************)
EXTENDS Population

CONSTANT Price  \* standardProductCost

ASSUME PriceAssumption == Price \in Nat

VARIABLES
    stage,       \* how far the call has come, or how it ended
    pending,     \* the edges forEachEdge has not visited yet
    outcome,     \* per edge, the SalesResult, or SUCCESS for a Sale record
    restockSet,  \* the RestockSet of this tick
    restocked    \* per holder, the SalesResult of its purchase from the company

salesVars == <<stage, pending, outcome, restockSet, restocked>>
vars == <<roster, money, inventory, salesVars>>

\* SalesResult::Reason.  Some of it SaleHandler never reports, and some only
\* after undefined behaviour.
Reason == {"UNKNOWN", "SELLER_NOT_DISTRIBUTOR", "BUYER_NOT_CONSUMER",
           "BOTH_DISTRIBUTORS", "NO_INVENTORY", "NEEDS_RESTOCK",
           "CONSUMER_INSUFFICIENT_FUNDS", "CHANCE_FAILED", "SUCCESS"}

Ended == {"sold", "threw", "undefined"}

Init ==
    /\ PopulationInit
    /\ stage = "restocking"
    /\ pending = Edge
    /\ outcome = [e \in Edge |-> "none"]
    /\ restockSet = {}
    /\ restocked = [h \in Holder |-> "none"]

-----------------------------------------------------------------------------
Sold == {e \in Edge : outcome[e] = "SUCCESS"}

Parties(e) == {Source[e], Target[e]}

-----------------------------------------------------------------------------
(* SaleHandler on one edge: every way saleIsPossible, the chance and the   *)
(* construction of the Sale can turn out, in the order of the code.        *)

Visiting(e) == stage = "selling" /\ e \in pending

Visit(e) == pending' = pending \ {e}

Report(e, reason) ==
    /\ Visit(e)
    /\ outcome' = [outcome EXCEPT ![e] = reason]
    /\ UNCHANGED <<stage, restockSet, restocked, roster>>

\* From here on nothing is claimed of the call.
Undefined(e) ==
    /\ Visit(e)
    /\ stage' = "undefined"
    /\ UNCHANGED <<outcome, restockSet, restocked, roster, money, inventory>>

\* An exception before the pair is wrapped leaves applySales, and takes the
\* records made so far with it.
Throw(e) ==
    /\ Visit(e)
    /\ stage' = IF Sold = {} THEN "threw" ELSE "undefined"
    /\ UNCHANGED <<outcome, restockSet, restocked, roster, money, inventory>>

\* Mutant: the RestockSet is not consulted.
SellerReadyAlways(e) ==
    Visiting(e) /\ IsDistributor(Source[e]) /\ HasInventory(Source[e])

SellerReady(e) ==
    /\ Visiting(e)
    /\ IsDistributor(Source[e])
    /\ Source[e] \notin restockSet
    /\ HasInventory(Source[e])

SaleIsPossible(e) == SellerReady(e) /\ ~IsDistributor(Target[e])

Sampled(e) ==
    SaleIsPossible(e) /\ \A h \in Parties(e) : chance[h] # "null"

\* The chance of a sale is the product of both sides.
SomeSide(e, kind) == \E h \in Parties(e) : chance[h] = kind

MayPass(e) == SomeSide(e, "excessive") => SomeSide(e, "fickle")

AtomicallyDoSaleSideEffects(s, b) ==
    /\ inventory' = [inventory EXCEPT ![b] = Increment(@), ![s] = Decrement(@)]
    /\ money' = [money EXCEPT ![b] = @ - Price, ![s] = @ + Price]

SellerNotDistributor(e) ==
    /\ Visiting(e)
    /\ ~IsDistributor(Source[e])
    /\ Report(e, "SELLER_NOT_DISTRIBUTOR")
    /\ UNCHANGED <<money, inventory>>

\* needsRestock answers SUCCESS for a member of the set and
\* SaleIsPossibleResult::bad refuses a success.
SellerRestocking(e) ==
    /\ Visiting(e)
    /\ IsDistributor(Source[e])
    /\ Source[e] \in restockSet
    /\ Throw(e)

NoInventory(e) ==
    /\ Visiting(e)
    /\ IsDistributor(Source[e])
    /\ Source[e] \notin restockSet
    /\ ~HasInventory(Source[e])
    /\ Report(e, "NO_INVENTORY")
    /\ UNCHANGED <<money, inventory>>

\* Mutant: the side effects come before the checks.
BothDistributorsCharged(e) ==
    /\ SellerReady(e)
    /\ IsDistributor(Target[e])
    /\ AtomicallyDoSaleSideEffects(Source[e], Target[e])
    /\ Report(e, "BOTH_DISTRIBUTORS")

\* BUYER_NOT_CONSUMER, before it, is for no vertex: they are all Consumers.
BothDistributors(e) ==
    /\ SellerReady(e)
    /\ IsDistributor(Target[e])
    /\ Report(e, "BOTH_DISTRIBUTORS")
    /\ UNCHANGED <<money, inventory>>

\* The result of saleIsPossible, which has the pair, goes before anything can
\* be reported.
ChanceFailed(e) ==
    /\ Sampled(e)
    /\ SomeSide(e, "fickle")
    /\ Undefined(e)

\* Util::sampleFrom throws at a probability above one, with the pair wrapped.
ChanceThrows(e) ==
    /\ Sampled(e)
    /\ SomeSide(e, "excessive")
    /\ Undefined(e)

\* Mutant: the whole purse cannot be spent.
InsufficientFundsAtThePrice(e) ==
    /\ Sampled(e)
    /\ MayPass(e)
    /\ money[Target[e]] <= Price
    /\ Undefined(e)

\* The constructor of Sale is the only place that looks at the price.  Its
\* exception unwinds with the pair wrapped.
InsufficientFunds(e) ==
    /\ Sampled(e)
    /\ MayPass(e)
    /\ money[Target[e]] < Price
    /\ Undefined(e)

\* Mutant: nobody looks at the price.
SellOnCredit(e) ==
    /\ Sampled(e)
    /\ MayPass(e)
    /\ AtomicallyDoSaleSideEffects(Source[e], Target[e])
    /\ Report(e, "SUCCESS")

\* Mutant: the record is lost.
SellForgotten(e) ==
    /\ Sampled(e)
    /\ MayPass(e)
    /\ money[Target[e]] >= Price
    /\ AtomicallyDoSaleSideEffects(Source[e], Target[e])
    /\ Report(e, "CHANCE_FAILED")

Sell(e) ==
    /\ Sampled(e)
    /\ MayPass(e)
    /\ money[Target[e]] >= Price
    /\ AtomicallyDoSaleSideEffects(Source[e], Target[e])
    /\ Report(e, "SUCCESS")

\* The chance of a recruit is dereferenced.
TouchUndefined(e) ==
    /\ SaleIsPossible(e)
    /\ SomeSide(e, "null")
    /\ Undefined(e)

SaleHandlerCall(e) ==
    \/ SellerNotDistributor(e)
    \/ SellerRestocking(e)
    \/ NoInventory(e)
    \/ BothDistributors(e)
    \/ ChanceFailed(e)
    \/ ChanceThrows(e)
    \/ InsufficientFunds(e)
    \/ Sell(e)
    \/ TouchUndefined(e)

-----------------------------------------------------------------------------
(* The three loops of applySales. *)

RestockHandlers ==
    /\ stage = "restocking"
    /\ restockSet' = {h \in Holder : IsDistributor(h) /\ NeedsRestock(h)}
    /\ stage' = "selling"
    /\ UNCHANGED <<pending, outcome, restocked, roster, money, inventory>>

\* Every id of the set is that of a vertex, so each is found.
LookupRestockPops ==
    /\ stage = "selling"
    /\ pending = {}
    /\ stage' = "supplying"
    /\ UNCHANGED <<pending, outcome, restockSet, restocked, roster, money,
                   inventory>>

\* SaleHandler with an empty RestockSet and the company as the seller.  Its
\* stock is unlimited and the buyer is a distributor.  When the pointer is
\* null, the cast of the null reference may fault or may fail quietly.
RestockSale(h) ==
    /\ stage = "supplying"
    /\ h \in restockSet
    /\ restocked[h] = "none"
    /\ \/ /\ company
          /\ IsDistributor(h)
          /\ restocked' = [restocked EXCEPT ![h] = "BOTH_DISTRIBUTORS"]
          /\ UNCHANGED stage
       \/ /\ ~company
          /\ restocked' = [restocked EXCEPT ![h] = "SELLER_NOT_DISTRIBUTOR"]
          /\ UNCHANGED stage
       \/ /\ ~company
          /\ stage' = "undefined"
          /\ UNCHANGED restocked
    /\ UNCHANGED <<pending, outcome, restockSet, roster, money, inventory>>

Return ==
    /\ stage = "supplying"
    /\ \A h \in restockSet : restocked[h] # "none"
    /\ stage' = "sold"
    /\ UNCHANGED <<pending, outcome, restockSet, restocked, roster, money,
                   inventory>>

Next ==
    \/ RestockHandlers
    \/ \E e \in Edge : SaleHandlerCall(e)
    \/ LookupRestockPops
    \/ \E h \in Holder : RestockSale(h)
    \/ Return

Spec == Init /\ [][Next]_vars
-----------------------------------------------------------------------------
(* Properties *)

TypeOK ==
    /\ PopulationTypeOK
    /\ stage \in {"restocking", "selling", "supplying"} \cup Ended
    /\ pending \subseteq Edge
    /\ outcome \in [Edge -> Reason \cup {"none"}]
    /\ restockSet \subseteq Holder
    /\ restocked \in [Holder -> Reason \cup {"none"}]

\* Nobody is ever overdrawn, however many distributors sell to one consumer:
\* the price is checked against the money each sale finds, after the others.
Solvent == \A h \in Holder : money[h] >= 0

\* The RestockSet is computed once and read during all the sales of the tick.
\* It never goes stale: a member cannot sell or buy, so it keeps what put it
\* in the set, and a seller that is no member cannot come to belong.
RestockSetNeverStale ==
    stage # "restocking" =>
        restockSet = {h \in Holder : IsDistributor(h) /\ NeedsRestock(h)}

\* A distributor that was once refused for want of inventory stays without
\* for the rest of the tick: no later sale or restock sale of the same call
\* would have made the refusal unjust.
RefusedForGood ==
    \A e \in Edge : outcome[e] = "NO_INVENTORY" => inventory[Source[e]] = 0

\* A tick that gets through all of its edges had no restocking distributor
\* at the source of any: the first one visited ends the tick by an exception.
SurvivorsHadNoRestockingSeller ==
    stage \in {"supplying", "sold"} =>
        \A e \in Edge : Source[e] \notin restockSet

\* Undefined behaviour has one of four causes: a restock sale by the null
\* company; or a visit without an outcome, of a restocking seller when a sale
\* has been made, of a pair that is not certain to buy, or of a buyer that
\* cannot pay the price, after all it has bought before.
UndefinedHasACause ==
    stage = "undefined" =>
        \/ restockSet # {} /\ ~company
        \/ \E e \in Edge \ pending :
            /\ outcome[e] = "none"
            /\ \/ Source[e] \in restockSet /\ Sold # {}
               \/ /\ IsDistributor(Source[e])
                  /\ ~IsDistributor(Target[e])
                  /\ \/ \E h \in Parties(e) : chance[h] # "sure"
                     \/ money[Target[e]] < Price

\* What a holder began the tick with, by what it has and the Sale records say.
SoldBy(h) == Cardinality({e \in Sold : Source[e] = h})
BoughtBy(h) == Cardinality({e \in Sold : Target[e] = h})
PurseByRecords(h) == money[h] + Price * (BoughtBy(h) - SoldBy(h))
StockByRecords(h) == inventory[h] + (SoldBy(h) - BoughtBy(h))

\* The records and the side effects of sales never part, however the call ends:
\* no refusal, exception or restock sale moves money or products that no Sale
\* record accounts for, and no record is of a sale that did not happen.
NothingMovesUnrecorded ==
    [][\A h \in Holder : PurseByRecords(h)' = PurseByRecords(h)
                         /\ StockByRecords(h)' = StockByRecords(h)]_vars

\* Every sale is a trade of the ledger: two different parties, covered by the
\* stock of one and the money of the other, with no unsigned wrap-around and
\* nobody overdrawn, however many distributors sell to one consumer.
LedgerOf == INSTANCE Ledger WITH stock <- inventory
ImplementsLedger == LedgerOf!Spec

\* What RestockSaleHandler and processSales say the restock sales are for: who
\* is in the RestockSet is restocked by the company.
RestockSetIsRestocked ==
    stage = "sold" /\ company =>
        \A h \in restockSet : restocked[h] = "SUCCESS"
=============================================================================
