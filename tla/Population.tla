----------------------------- MODULE Population -----------------------------
(***************************************************************************)
(* The people of one simulation: the CapitalHolder objects, the graph that *)
(* joins them, and what its ChanceContributor can do to whoever samples    *)
(* it, the null one included.                                              *)
(*                                                                         *)
(* Vertices are the members of Holder.  Edges are named, because the       *)
(* adjacency list of the code keeps parallel edges; each has the source    *)
(* and the target boost::edges reports, although the graph is undirected.  *)
(***************************************************************************)
EXTENDS Integers, FiniteSets

CONSTANTS
    Holder, None,                \* the vertices; the null pointer
    Edge, Source, Target,        \* the edges and their two ends
    StartMoney, StartInventory,  \* what a holder may begin with
    RestockThreshold,            \* Distributor::getRestockThreshold
    InventoryWidth               \* number of values of an Inventory (unsigned)

VARIABLES
    role,         \* "consumer" or "distributor", the dynamic type
    recruitedBy,  \* Distributor::recruitedBy, None if null
    chance,       \* the sales ChanceContributor, a member of Chance
    money, inventory,
    company       \* whether Simulation::company is not null

roster == <<role, recruitedBy, chance, company>>

ASSUME PopulationAssumption ==
    /\ None \notin Holder
    /\ IsFiniteSet(Edge)
    /\ Source \in [Edge -> Holder]
    /\ Target \in [Edge -> Holder]
    /\ StartMoney \subseteq Nat
    /\ RestockThreshold \in Nat
    /\ InventoryWidth \in Nat

\* A tick adds at most one unit per edge to an inventory, and no inventory
\* starts so close to the largest unsigned value that this could wrap it.
ASSUME RoomAssumption ==
    /\ StartInventory \subseteq Nat
    /\ \A i \in StartInventory : i + Cardinality(Edge) < InventoryWidth

-----------------------------------------------------------------------------
\* A probability of one, one below it, one above it (nothing bounds a
\* StaticChanceContributor), and no contributor at all.
Chance == {"sure", "fickle", "excessive", "null"}

IsDistributor(h) == role[h] = "distributor"

\* The comparison is the code's: a holder "needs" stock when it has more
\* than the threshold.
NeedsRestock(h) == inventory[h] > RestockThreshold

\* Mutant: off by one.
HasInventoryOrNone(h) == inventory[h] >= 0

HasInventory(h) == inventory[h] > 0

Increment(i) == (i + 1) % InventoryWidth
Decrement(i) == (i - 1) % InventoryWidth

\* Recruiters were distributors before their recruits were: following them
\* never leads in a circle.
Forest(recruiter) ==
    \A circle \in (SUBSET Holder) \ {{}} :
        \E h \in circle : recruiter[h] \notin circle

\* Only a distributor has or is a recruiter.  The constructor that records a
\* recruiter leaves both ChanceContributors null; every other one sets them.
RosterShape ==
    /\ Forest(recruitedBy)
    /\ \A h \in Holder : recruitedBy[h] # None =>
            IsDistributor(h) /\ IsDistributor(recruitedBy[h])
    /\ \A h \in Holder : chance[h] = "null" <=> recruitedBy[h] # None

PopulationInit ==
    /\ role \in [Holder -> {"consumer", "distributor"}]
    /\ recruitedBy \in [Holder -> Holder \cup {None}]
    /\ chance \in [Holder -> Chance]
    /\ RosterShape
    /\ money \in [Holder -> StartMoney]
    /\ inventory \in [Holder -> StartInventory]
    /\ company \in BOOLEAN

PopulationTypeOK ==
    /\ role \in [Holder -> {"consumer", "distributor"}]
    /\ recruitedBy \in [Holder -> Holder \cup {None}]
    /\ chance \in [Holder -> Chance]
    /\ money \in [Holder -> Nat]
    /\ inventory \in [Holder -> 0 .. InventoryWidth - 1]
    /\ company \in BOOLEAN
=============================================================================
