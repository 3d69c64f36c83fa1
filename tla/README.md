# Pyramid scheme simulator: specification

TLA+ specifications of the simulator in `src/`: what one tick of the
simulation does to people, money and product, how sales are paid out up the
line of recruiters, how the threads of the OpenGL backend work together, and how
the graph comes to its layout. TLC checks them on small instances; TLAPS proves the safety properties for
every graph, population and number of ticks.

## The system

| component | state | operations | hard part |
|---|---|---|---|
| people (`CapitalHolder`, `Consumer`, `Distributor`, `Actors`) | money, inventory (unsigned), recruiter, chance | sell, buy, become a distributor, clone | ownership by `shared_ptr`, null chances of recruits |
| `PopulationGraph` | people as vertices, undirected edges | build from the options, visit vertices and edges, replace those that satisfy a predicate, clone, audit, print | a hash that must agree with an equality; handlers change what is being visited |
| sales (`RestockHandler`, `SaleHandler`, `RestockSaleHandler`, `Simulation::applySales`) | restock set, record per edge | three loops per tick | restock set read after the inventories changed; exceptions in the middle of a tick; a second owner for objects that have one |
| side effects (`SalesSideEffects`) | beneficiary chain, payment mapping | walk, audit, charge, pay | failures between charge and payment; a loop that asks the wrong beneficiary |
| conversion (`ConversionHandler`, `Simulation::applyConversions`) | conversion records | test, convert | order of conversions, record and vertex counts |
| cycle (`Simulation::cycle`) | the above, copied for the backends | one tick, export | what of one tick the next sees |
| OpenGL backend (`GLBackend`, `GLWorkThread`, `AtomicDeque`, `EventPoller`) | two queues, two flags, three threads | export, interrupt, join, pop, poll | data races, shutdown, liveness |
| signals (`Signals`) | weak pointer to the simulation | handler | runs in any thread, joins threads |
| logging backend | line iterator, interrupt flag | write a tick | interrupt between two lines |
| configuration (`BoundedOption`, `Config`) | options with ranges | set, get, audit | a value stored before it is checked |
| records (`ListTransactionRecord`) | one list per edge or vertex, one list per tick | fold, merge, search | a merge that assumes sorted lists, under a comparator that is an equality |
| layout (`GraphLayout`) | points with position, speed and acceleration; the options | `calculateLayout`: ticks until a condition fails | what one call leaves to the next; forces applied while the points are iterated; a loop that may not end |
| rendering (`VAOHandle`, `MatrixState`, ...) | OpenGL objects | draw | none a state model would find |

One tick calls, in one thread, conversion, sales and side effects, then copies
the graph and hands the copy to every backend. The backends run threads of
their own and meet the simulation only in `exportData`, `interrupt` and `join`.
The main program of the repository prints a greeting and `runCycle` has no
definition; what drives the handlers are the tests and the OpenGL demo, so
initial states are stated at each component's interface.

## Modules

| module | models | composes |
|---|---|---|
| `Population` | people and graph: the variables, what the program may start from | |
| `Ledger` | abstract: trades between two holders, covered on both sides | |
| `Sales` | `Simulation::applySales` and the handlers | extends `Population`, implements `Ledger` |
| `SideEffects` | `SalesSideEffects::apply` | |
| `Recruitment` | abstract: a consumer joins an acquainted distributor, once and for good | |
| `Conversion` | `Simulation::applyConversions`, `processConversions`, `ConversionHandler`, the filtered mutation of vertices | extends `Population`, implements `Recruitment` |
| `Cycle` | `Simulation::cycleCallBackends` tick after tick, and the copied graph | instances of `Conversion`, `Sales` and `SideEffects` on one population |
| `TransactionRecords` | the fold and the merge of `ListTransactionRecord`, the comparator of the sales | |
| `ConversionRecords` | `Conversion` again, with its records as the lists they are | extends `Conversion` and `TransactionRecords` |
| `PopulationGraph` | `buildGraph`, the mutation of edges, `auditGraph`, `toString` | |
| `LoggingBackend` | `SpdLoggingBackend` under an interrupt | extends `PopulationGraph` |
| `WorkChannel` | abstract: a FIFO channel, each piece handled once | |
| `GLBackend` | backend threads, `AtomicDeque`, `EventPoller`, SIGINT | implements `WorkChannel` |
| `Layout` | `GraphLayout`, from `makeGraph` to what `calculateLayout` returns | |
| `SalesProofs`, `SideEffectsProofs`, `ConversionProofs`, `CycleProofs`, `PopulationGraphProofs`, `GLBackendProofs`, `LayoutProofs` | theorems | each extends its module; `PopulationGraphProofs` and `ConversionProofs` extend `LoggingBackend` and `ConversionRecords`, and so are about those too |
| `FoldProofs` | induction over finite sets, sums, left folds, and the theorem about `TransactionRecords` | extended by the proofs that add up, count or fold |
| `MCSales`, `MCSideEffects`, `MCConversion`, `MCCycle`, `MCGraph`, `MCLayout` | instances for TLC | `MCSales` extends `TransactionRecords` too |

`GLBackend` has a small state of its own and needs no instance.

Every operator under a comment `Mutant:` is a plausible bug in place of the
definition that follows it; it is used by no specification. The bug breaks the
property `PROJECT.json` lists it with, which shows that the property depends on
that line of code.

### Sales

`stage` is the position in `applySales`: `restocking` (the set is computed from
all vertices, `RestockHandlers`), `selling` (one `SaleHandlerCall` per pending
edge, in any order: `forEachEdge` follows Boost's storage order, which the
model leaves open), `supplying` (`RestockSale` by the company per member of the
set), and the ways out: `sold` (returns), `threw` (an exception leaves
`applySales`), `undefined`.

Each early return of `saleIsPossible` is an action of its own and they carry
the code's guards in the code's order: `SellerNotDistributor`,
`SellerRestocking`, `NoInventory`, `BothDistributors`, then `ChanceFailed`,
`ChanceThrows`, and the exception of the `Sale` constructor (`InsufficientFunds`)
before the side effects of `Sell`. `BUYER_NOT_CONSUMER` has no action because every
`CapitalHolder` class derives from `Consumer`, and `CONSUMER_INSUFFICIENT_FUNDS`,
which is declared as well, is reported by nothing. Who is a seller depends on the
side of the edge: `boost::edges` reports a fixed source and target.

`saleIsPossible` wraps two objects the graph owns in new `shared_ptr`s. Vertices
come from `make_shared`, so the new pointers cannot delete what they hold: the
first time the last copy of one goes is undefined behaviour, whoever else points
to the object. A failed chance, a chance that throws and a buyer without the money
are therefore `Undefined` at once. A `Sale` record keeps its two pointers, which
puts that off until the records go: an exception after a sale is undefined
(`Throw`), and so is the end of a tick that sold anything. The last lies behind what
`Sales` models, since the records are given to `cycle`; `Cycle` need not model it
either, because no tick with a sale gets to its end (`NobodyIsPaid`). The null chance
of a recruit is undefined when it is sampled.

`company` says whether the pointer to the company is null. `Simulation` never
sets it; `MCSales` covers both values, because `RestockSaleHandler` is written for a
company that exists.

`money` is an integer: only `Price` is ever moved, so a unit that divides every
amount exists. `inventory` wraps at `InventoryWidth`. A chance is `sure`,
`fickle`, `excessive` or `null`. The chance of a sale is the product of two
(`ChanceContributor::operator+` makes an intersection): it can fail if one is
fickle, and throw if one is excessive, above 1, which nothing rules out for a
`StaticChanceContributor`; with a fickle other side it may still pass. Negative chances are left out.

### SideEffects

Starts from any sale records and recruiters with the shape the classes allow
(recruiters form a forest, buyers are consumers). One action per step that can
fail: a turn of the `do` loop (`WalkUp`), the audit (`Audit`, asserts only in
Debug), the charge of the buyer, each payment. `SellerPayment` is what the chained formula comes to
because both `min`s take the smaller value; `InMapping` says who has an entry in
its payment mapping. `downstreamPercent * soldFor` is the constant `Commission`.

Records start in any order although the list has one; the properties hold
for every order. `companyPaysCommission` (which of the two formulas `apply` is
asked for), `companySupplied` and `debug` are chosen in `Init` and stay as they
are, so that one run covers every combination.

### Conversion

`ConversionHandler::operator()` is a TODO that returns no records; everything
around it (`getPredicate`, `lookupConversionRecord`, `processConversions`,
`mutateVerticesWithPredicate`) is complete. The model lets each edge record
either nothing, as the program does today, or what `predF` finds
(`TestConversion`), so that the code that is waiting for the records is checked
on them. A consumer needs more than `BuyIn`; the chance is sampled in the order
of the code; sampling a recruit's null chance is `undefined`, and a chance above 1
throws (`SampleThrows`) before any vertex has changed.

`unvisited` are the vertices the filtered iteration has not passed. `Convert`
replaces a vertex by a new distributor whose recruiter is looked up at that
moment, `Skip` passes one without a record. At the end `Return` compares the
number of replaced vertices to the number of records and, with assertions,
aborts when they differ. That happens exactly when the list has two records of
one consumer (`AbortsOnlyOnRivals`, which is stated of the list in
`ConversionRecords`). The exceptions inside the
mutation have no actions; `NoConversionFails` states that their conditions are
never met, and it is proved.

### Records

The handlers of a tick return a `ListTransactionRecord` per edge or vertex, and
`leftFold` merges them into one. `MergeListTransactionRecords` is
`std::list::merge` for lists of at most one record, which all of them are; a
comparator is the set of pairs for which it answers true.

Conversions are compared by `compareUniqueables`, a strict order of the ids.
`ConversionRecords` keeps the list of every edge in the order of the visit,
folds them, and searches the result as `lookupConversionRecord` does.
`Conversion` has a set of edges and a function in their place;
`ListIsFaithful` says they agree, with two records for one consumer too, where the one
that was made first must stay in front. `RecordsSpec` implies `Spec`, so
everything else of `Conversion` is checked on the lists as well.

Sales are compared by `deepCompareUniquePtrs`, which answers whether the two are
*equal*. A merge under that does not sort. `MCSales` states what it does, for all
lists of up to four records, as three assumptions that TLC evaluates:
`EqualRecordsStandTogether` (equal records, which are refusals for one reason,
stand together with the latest first), `EqualRecordsStayTogether` (the second
merge does not part them) and `SalesKeepTheirOrder` (sales that
differ keep the order in which they were made). The last is what lets `Sales`
and `SideEffects` speak of the sales of a tick without the list, and it is proved
for lists of every length (`UniqueRecordsKeepTheirOrder`); so is that equal
records are not parted (`EqualRecordsAreNotParted`).

### Cycle

`phase` is the part of `cycle` that runs, and each part is an instance of the
module for it, with `company` false. After the side effects the graph is
copied: the copy constructor of a distributor dereferences its chances, so
`CanBeCloned` fails for recruits (`CloneUndefined`), and the copy constructor of
a consumer does not copy its inventory (`CopiedInventory`). `data` is what the
backends were given last. `now` is never advanced, so every tick is tick 0.

Together these give the surprising result the module is there for: no tick in
which anything is sold and kept, or anybody is recruited, gets as far as the
backends. `BackendsSeeNothingMove` says it of two exports and is in the run;
`ExportedTicksAreInert` says it of the tick between and is a theorem only. A tick
that is left by an exception has moved nothing either (`ExceptionsMoveNothing`): one
that sold something takes its records with it, which is undefined behaviour. A tick
that could be paid out would end there as well, since its records hold pointers that
must not be the last.

### PopulationGraph and LoggingBackend

An id is a number that compares as its string does. `drawn` remembers for which
ordered pairs `testEdge` came up; `edges` is the `unordered_set`, whose
`emplace` finds an equal element only among those with the same hash; `links`
is the edge list of Boost in the order of insertion, by descriptor.
`SampleFrom` keeps the ends of the range apart: a chance of 0 may still come up
(`<=`), a chance of 1 always does, and one above 1 throws. Chances are in
quarters, since what matters is 0, 1, between and beyond; `linkChance / 2` is
exact for even numbers of them.

The visits run a function that counts, for each person, how often it has been
replaced (`touched`). `FilteredResult` asks its predicate when the iterator
comes to an edge, which is what Boost's filtered iterator does.
`VisitsSeeTheirWrites` is about both: a visit that worked on values read before
the first edge would lose counts, and a filter that had been asked beforehand
would let an edge through whose ends an earlier edge has already replaced.

`LoggingBackend` writes a tick line by line. `CheckFlag` and `WriteLine` are two
steps, because the interrupt can come between them. An interrupt is possible at
any moment once there is a simulation. The title, the lines of the graph and
the empty line that `std::endl` leaves are counted; what they say is not
modelled.

### GLBackend

Three threads (`main`, `worker`, `poller`), each a program counter, and the
signal handler that suspends the thread it runs in. An operation on a deque is
two steps, because its lock is released before it starts: the thread is
`emplacing`, `popping`, `adding` or `getting`, and then the operation takes
effect. If the other thread is inside an operation on the same deque at that
moment, `Outcome` lets the process become `undefined`. `NullTicks` are the
pieces of work that are null pointers, which is all the demo ever exports: they
are popped and not told from an empty queue.

The main thread may export, `join` (as the test does) or let the backend be
destroyed (`Destroy`) at any time, since neither order nor number is fixed by
the library. Where the code would call `std::terminate` (a joinable thread
destroyed, a thread joining itself, an exception out of a thread) `life` is
`terminated`. The destruction is two steps: once the last pointer to the simulation
is gone (`Destroy`) the handler's `simPtr.lock()` fails and it exits without an
interrupt (`HandlerExits`), unless `~GLBackend` (`DestroyBackend`) is faster. A handler
that waits in `join` holds a pointer of its own, so nothing is destroyed under it.

`UserQuits` is the only event of SDL: others keep the loop of `poll` going, which
changes nothing here. `Simulation::interrupt` and `GLBackend::interrupt` are public,
but only the handler calls them; a call by the main thread is not modelled, and
`JoinNeverReturns` holds because there is none.

### Layout

One thread, and a call at a time: `CalculateLayout` begins one, `Condition`
is evaluated, and a tick goes through `ApplyCoulombsLaw` once per ordered pair
of points, `ApplyHookesLaw` once per spring, `AttractToCenter`, `UpdateVelocity`
and `UpdatePosition`. The passes over pairs and springs are a step each, because
the code writes two points back while it iterates over them, and a pair may be
a point with itself. `Return` copies the positions and takes the box around them.

The points are on a line, which no force between points of a line ever leaves,
at whole numbers, and a division is rounded towards zero. `ForcesCancel` is
therefore exact here, where the code satisfies it up to the rounding of doubles.
Every point has the mass 1.0 and every spring the length 1.0 that `makeGraph` gives
them. Two lines of the code decide what the module is about: the number of a
tick is also its length, so that the first tick of every call has none, and the
loop goes on *while* the energy is below the threshold. `placed` and `results` are
history: where the points were put, and what the calls returned.

## Runs

| run | expects | shows |
|---|---|---|
| `MCSales` | pass | the sales of a tick, with and without a company, and what the merge makes of their records: trades that are covered and recorded, the restock set, where undefined behaviour comes from |
| `MCSalesRestock` | violation | the company sells nothing to those who are to be restocked |
| `MCSideEffects` | pass | both formulas, with and without a company and assertions: who is paid, and what an exception leaves |
| `MCSideEffectsAudit` | violation | the chain does not end as the audit demands |
| `MCConversion` | pass | one `applyConversions`, with its lists: records, fold and search, recruiters, the count assertion |
| `MCCycle` | pass | two ticks: what one part leaves to the next, what an exception has moved, what is exported |
| `MCGraph` | pass | construction, visits and log of every graph of up to three people |
| `MCGLBackend` | pass | order, promptness, conservation of quit requests, end |
| `MCGLBackendDeque` | violation | the deque's lock does not exclude |
| `MCGLBackendQuit` | violation | a request to quit may be ignored forever |
| `MCLayout` | pass | two calls on one layout: forces that cancel, ticks without length, what is final, the end of every call that has a maximum |
| `MCLayoutOnce` | violation | a second call does not return what the first did |

Deadlock is not checked: each specification has an end it is meant to reach
(`stage`, `step` and `pc` name the ways) or may reach (`GLBackend` after `life` is
over, `Cycle` in phase "over" or after `MaxTicks`, `Layout` when nobody calls it
again, or at `TickBound`).

### Bounds

* `MCSales`: three holders, four edges: the smallest graph in which a buyer has
  two sellers, a seller has two buyers, and one pair is joined twice (the
  program's own graphs are simple, see `SimpleGraph`; those of the tests, made by
  `graphFromTuples`, need not be). Money 1 or 4 against a price of 2 (not enough,
  or enough for exactly two). Inventory 0, 2, 3 against a threshold of 2: none, at
  the threshold, above it. `InventoryWidth` 8 leaves room above every start
  value, so a wrap could only be one at zero.
* `MCSideEffects`: four holders, two sales to one buyer by two sellers, every
  forest of recruiters: lines up to three people, shared heads, seller recruited
  by seller, and no recruiter at all. Money enough for neither sale, one or two.
* `MCConversion`: the same graph as `MCSales`, so that a consumer can be won over by
  two distributors, and twice by one. Money equal to the buy-in, which is not
  enough, and one more. Inventory plays no part and is 0.
* `MCCycle`: three holders in a row and `MaxTicks` 2, because what matters is what the
  first tick leaves to the second. The shortest row in which somebody both buys
  and is next to somebody else that does. One build and one formula; the other is
  covered by the proofs.
* `MCGraph`: sizes 1 (refused) to 3, since two people have one pair and the third
  makes an edge that shares a vertex. Chances below 0, 0, one half, 1 and above
  2, of which the last is one that would make `sampleFrom` throw if it were not
  refused. `MaxTicks` 2, so that a log can be cut between ticks or inside one.
* `MCGLBackend`: `MaxTicks` 3 exports, the first null; `MaxQuits` 2 requests, so
  that one can be in each queue; one signal. The queue can be longer than one
  while the worker is busy, which FIFO needs.
* `MCLayout`: three people, so that a force can act on a point from both sides,
  unconnected, as a pair and a stranger, in a row, in a triangle. They are placed
  at 0, 1 or 3: in one place (no direction to be pushed in), side by side (at the
  length of a spring), beyond it. Twice the threshold is 0 (the loop does not
  run), 17 (it ends when two of three have got to a speed), 49 (more than three points
  at `MaxSpeed` 4 ever have: it ends by the maximum alone). At most 0 to 3 ticks, since the
  first of them is empty and the second only starts the points; without a
  maximum `TickBound` cuts off after 4. `MaxCalls` 2, because what matters is what the first
  call leaves to the second.

### Fairness

`SideEffects` and the construction of the graph are single-threaded calls: weak
fairness of `Next` (of `Prepare`, in `LoggingSpec`) says the thread runs. `Sales`,
`Conversion` and `Cycle` are only claimed to be safe: each of their loops walks a
finite set once. `GLBackend`
assumes weak fairness of each thread's steps (the scheduler) and of an export
that has begun. It assumes none of the layout (it need not converge, and may
throw), of the user, of the signal, or of the main thread starting an export or
deciding to end. In `Layout`, weak fairness of `Running` says that a call which has
begun is run by its thread; that there is another call is up to the caller. Even
so `LayoutEnds` only claims an end for a layout with a maximum: without one, points
that come to rest keep the condition true for ever.

## Proofs

`tlapm` checks all theorems for arbitrary constants under the named assumptions.
`RoomAssumption` (a tick adds at most one unit per edge, and no inventory starts
that close to the largest unsigned value) is the only one the code does not
enforce. That people, edges and nodes are finitely many is assumed where something
is counted or added up.

* `FoldProofs`. The induction theorems of the library take a predicate, which the
  provers cannot instantiate; here the smallest counterexample is taken from a *set* of
  them (`SubsetInduction`, `UpTo`). From that come the existence of the function
  behind `SumFunctionOnSet` and what a sum does when one summand changes
  (`SumOfChanged`), that `FoldLeft` computes what a loop over the sequence computes
  (`LoopOfAFold`), and what the loop of `leftFold` does to a list. The theorem
  `UniqueRecordsKeepTheirOrder` follows the merge record by record: one that has no
  equal goes to the end, any other only shifts those behind it.
  `EqualRecordsAreNotParted` takes the other records: one that has an equal goes in
  front of the first of them.

* `SalesProofs`. `Solvent` and `RefusedForGood` rest on types. The inductive
  invariant adds to the type invariant that the set is right
  (`RestockSetNeverStale`), that sold edges join a distributor outside the set
  to a consumer, and a bound on each inventory by the number of visited edges,
  which with `RoomAssumption` keeps `% InventoryWidth` from ever wrapping. That
  bound is what makes `ImplementsLedger` provable: each `Sell` is then a
  `Trade`, everything else a stutter. A second invariant adds that an edge still
  pending has no outcome (`Untold`), from which `UndefinedHasACause` follows: an edge
  that ended the tick has none either and stays where the cause can be read off.
  `NothingMovesUnrecorded` (`RecordsAccount`) counts: a step that records a sale adds
  one edge to those sold by its seller and one to those bought by its buyer, any other
  none, and the money and stock of both ends change by as much.
* `SideEffectsProofs`. `ChainIsALine` needs that each link of `beneficiaries`
  was the recruiter of the one before and that the walk is below
  `currentBeneficiary` in the rank of the forest, so that nobody is met twice.
  `TopRecruiterNeverPaid` follows from every member of the chain having a recruiter, and so
  does `DebugMovesNothing`: the audit of such a chain cannot succeed. For
  `MoneyAccounted`, `Accounts` keeps the books inside a record: nothing is booked before
  the first payment, from which on the company's formula is even with what it
  books, and the chained formula never leaves the people richer, because the seller's
  share is at most the price (`SellerPaymentBound`). `ApplyIsFinite` counts down the
  people above the current beneficiary: each payment goes one rank up a forest
  that has as many ranks as people, so no walk is endless.
* `ConversionProofs`. The invariant says of each record that its recruiter was a
  distributor before the mutation began and still is, that the person it is about
  is a consumer until it is visited, and that the visited ones have been
  converted exactly if they have a record. From it follow that no exception of the
  mutation is reached, that recruiters stay a forest (a recruit never was a recruiter), and
  that every step is a step of `Recruitment` or a stutter. `CountInv` counts:
  as many were converted as are visited and have a record (`Counted`). `RecordsSpec` implies `Spec`, because the lists only add variables; its own
  invariant says that the fold of the lists so far is sorted by consumer
  (`SortedById`), has a record per recorded edge, and has the first record made for each
  consumer in front (`FirstNames`). `OnlyRivalsAbort` puts the two together: those who have a record
  are the ids of the list (`IdsAreConverted`), and a list has as many ids as records
  exactly if no two of its records are of one id (`AsManyIdsAsRecords`), since
  a function onto a finite set of the same size is one to one.
* `CycleProofs`. The people a phase starts from are related to those the tick found
  (`begun`). A sale that is kept needs a seller with a chance, hence without a
  recruiter, and the walk of the side effects begins by dereferencing that
  recruiter; a recruit has no chances and the copy dereferences them. So a tick
  that gets to its export left everything as it was. While a tick has sold nothing it
  has moved nothing, and `Throw` is an exception only then, whence
  `ExceptionsMoveNothing` (`ThrownTick`). `StartInv`, for `SalesStartAsAssumed`, says
  that conversion only adds leaves to the forest of recruiters (`NewLeaf`), and that a
  tick which was exported left money and stock as the first tick found them.
* `PopulationGraphProofs`. `SimpleGraph` needs that `edges` has no two elements for one
  pair (`NoTwins`), which rests on the lemma `SameEdgeSameHash`, that what has been read
  is not in the set any more (`ReadEdgesAreGone`), and that descriptors lead to the
  vertex with their id (`DescriptorsFindTheirPop`), so that different ids become
  different vertices. For `LinksFollowTheDraws`, `DInv` adds that the ids
  differ and that a pair was drawn, in one direction or the other, exactly if it is
  in `edges` or in `links` (`DrawsAreKept`). `BuildIsFinite` gives each pair two
  steps, one for the draw and one for the edge it may add; `LoopsBegin` says where the
  two indices start and end, and `edges` stays finite.
  A visit of the edges is one step of the model and a fold over `links`. For
  `VisitsSeeTheirWrites` it becomes a loop (`MutateIsALoop`), of which `ReplacedOncePerPersonMet`
  says by induction that after each turn everybody has been replaced once per person met;
  the set of those grows by one with each link, because no two links join the same
  two people. `VisitInv` adds that every draw uses a chance that was
  checked, and `AuditNeverFails` is a corollary.
* The same module, for `LoggingBackend`. `LogInv` says that the lines still to be
  written are the end of the last tick, that until the interrupt the written and the
  unwritten lines are all there are, and that a late line was begun before the
  interrupt. It uses the invariant of the graph, because the number of lines of a tick
  is counted from a graph that does not change any more.
* `GLBackendProofs`. `ImplementsChannel`: `exported` is `handled` followed by the
  reverse of `workQueue`. `OneTaskAfterInterrupt`: a task popped late leaves the
  worker where it must look at the flag. `OrderlyEndMeansNoWindow`: a worker
  that has ended never had a context, and only a simulation that is being destroyed lets
  the handler exit before that. `JoinNeverReturns` rests on that and on
  the handler staying in the thread that received the signal. `QInv` adds which
  values the program counters and flags can have together and the counts of the
  requests to quit, for `QuitsConserved` and the type invariant.
* `LayoutProofs`. `LayoutInv` says of a layout with at most one tick (`Quiet`) that nobody
  has a speed and that a tick which runs is number 0; `OneTickIsNone` follows. After a
  call that the energy ended (`Final`) the energy is still too high and no tick runs,
  which gives `StoppedIsFinal`. The lemmas before it say that forces are whole
  numbers, so nothing is ever divided by zero. `ForcesCancel` needs that
  the accelerations are cleared before each tick, and that each visit adds a
  force to one end and its opposite to the other, which may be the same point.
  `CallsAreFinite` needs that no tick is begun at the maximum and that the list of a
  loop is never longer than what it was made from (`WithinTheMaximum`).

Proved and not in any run of their own: `Solvent` (implied by `ImplementsLedger`),
`RefusedForGood` (no distributor ever buys), `JoinNeverReturns` (close to
`OrderlyEndMeansNoWindow`), `SurvivorsHadNoRestockingSeller` (by
`RestockSetNeverStale` and the guards), `DebugMovesNothing` (by
`TopRecruiterNeverPaid` and the audit), `HandsOnARoster` (what `Conversion` leaves to
`Sales`) and `ExportedTicksAreInert` (its consequence `BackendsSeeNothingMove` is).
So are the measures behind the three liveness properties of single calls:
`EveryStepCounts` of `SideEffects`, of `PopulationGraph` and of `Layout` says that
each step makes a number, `StepsLeft`, smaller; `ApplyIsFinite`, `BuildIsFinite` and
`CallsAreFinite` prove it together with `StepsLeft` never being negative (of a layout:
if it has a maximum). `EffectsEnd`, `BuildEnds` and `LayoutEnds`, which the runs
check, are what that means for a thread that keeps running.

Every invariant and every action property of the runs that pass, and each of the
refinements, is stated by a theorem. Only model-checked:

* Liveness (`EffectsEnd`, `BuildEnds`, `InterruptEnds`, `WorkTakenUp`,
  `LayoutEnds`): it needs `ENABLED`, which is beyond the prover. That no call of the
  side effects, of the construction or of a layout with a maximum takes steps
  without end is proved (`ApplyIsFinite`, `BuildIsFinite`, `CallsAreFinite`); that
  it does not stop on its way is not.
* That of equal records the latest is first (`EqualRecordsStandTogether`), for lists
  of up to four records.

## Disagreements with the documentation

Shown by a run:

* `RestockSaleHandler.cpp:10-11`, `TransactionObjects.hpp:233`: the company's sale
  handler computes "the actual sales records" for the people "that need to be
  restocked". It refuses every buyer that is a distributor, and no other is in the
  set, so nobody is restocked. (`README.md:17` of the repository lists buying from the
  company as still to be done.)
* `SalesSideEffects.cpp:350-352`: the last beneficiary has no recruiter. The
  walk stops one short, so it always has one.
* `AtomicDeque.hpp:55-56`: the mutex is held. The guard is a temporary.
* `GLBackend.cpp:47-48`: the user can exit by the window. The poll thread ends
  when it first finds no event.
* `DataClasses.cpp:277-278`: calling `calculateLayout` several times should run
  the simulation only once. A second call runs it again from where the first
  stopped, with the speeds it had then.

Met while reading:

* `SalesResult.hpp:34-43`: a distributor that restocks gets `NEEDS_RESTOCK` for
  all its results. `needsRestock` has its answers swapped, which happens to let
  others sell, and `SaleIsPossibleResult::bad` throws for members of the set.
* `SalesResult.hpp:44`: a consumer with insufficient funds is a result. Nothing
  reports it; the buyer's funds are an exception of the `Sale` constructor.
* `CapitalHolder.hpp:140`: a distributor needs to restock when its inventory is
  *above* the threshold.
* `SalesSideEffects.cpp:125`: the seller covers his cost. `min(1.0, ...)`.
* `Util.cpp:22-25`: a probability above 1 is always true. It throws.
* `BoundedOption.hpp:79`: `hasOption` is true when there is none. Nobody calls it.
* `BoundedOption.hpp:36`: `setOption` keeps a value that it then refuses. Only
  constructors call it, and the object is gone with the exception.
* `Config.cpp:142`: `standard + 1 <= wholesale` is an error "must be at least the
  wholesale product cost + 1"; a standard cost equal to the wholesale cost passes.
* `Config.hpp:205-207`: the maximum number of relationships. `buildGraph` does not
  look at it (`PopulationGraph.cpp:115-122`), nor does anything else.
* `PopulationGraph.cpp:55`: the vertices without edges. The loop collects those
  that are the source of none, so somebody who is only a target is printed as well.
* `GraphLayout.hpp:158-162` declares `forEachSpring` without `const` and `forEachPoint`
  with it; `Layout.cpp:62` and `Layout.cpp:96` define them the other way round.
* `Layout.cpp:370`: an energy *threshold* (`minEnergyThreshold`). The loop goes on
  while the energy is below it; a layout at rest and without a maximum stays in it.
* `Sale.cpp:79-84`: the funds after a sale. The seller's record subtracts the
  price as the buyer's does.
* `Config.cpp:136-150`: the audit of the prices. Nothing calls it.
* `PopulationGraph.cpp:159`: `allowDisconnectedSubgraphs` is not looked at;
  `getDisconnectedSubgraphs` has no caller and writes through the first element
  of a vector that has none.

## Plan

Done, in this order: sales, side effects, the OpenGL backend, conversion, the
cycle, the graph and the logging backend, the layout, the lists of records; and
the theorems of each. Still open, in order of importance:

1. Both backends at once under `Simulation::interrupt`, and `signalHandler` for a
   simulation with more than one backend.
2. That the cycle implements an abstract roster of its own, as the conversion does,
   and that what it hands to each part is an initial state of that part's module. And
   the other half of `EqualRecordsStandTogether`, for lists of any length.
3. The audit of the prices in `Config`, once something calls it.
4. The matrix stack of the renderer.

## Not modelled

Rendering and OpenGL resources (calls into a driver), doubles (positions,
probabilities and amounts are whole numbers or kinds), all text but the lines that
`toString` and the logging backend choose to write (`printGraphLayout` among it),
the drivers and tests, the build, `graphFromTuples` (tests only),
`getDisconnectedSubgraphs` (no caller, and it writes through the first element of
an empty vector), `GraphRecords.hpp` (records nothing makes), the installation of
the signal handler, and
the header-only dependencies. A second signal during the handler is left out:
the handler ends in `exit` or waits in `join`.
