---------------------------- MODULE PopulationGraph ----------------------------
(***************************************************************************)
(* The graph of people from the configuration it is asked for to its last  *)
(* edge (PopulationGraph::buildGraph), the visits that rewrite its         *)
(* vertices through its edges, and the text it is printed as.              *)
(*                                                                         *)
(* buildGraph runs in one thread.  What is left open is the random: the    *)
(* ids and how their strings compare, the outcome of each draw, and the    *)
(* order in which a hash set gives its elements back.                      *)
(***************************************************************************)
EXTENDS Integers, SequencesExt

CONSTANTS
    Unique,          \* the ids, as numbers that compare as their strings do
    GraphSizes,      \* what the configuration may ask for
    LinkChances,     \* in quarters: an even number of them
    EdgeLimits

Certain == 4         \* the probability one, in quarters

ASSUME GraphAssumption ==
    /\ Unique \subseteq Nat
    /\ GraphSizes \subseteq Nat
    /\ LinkChances \subseteq Int
    /\ EdgeLimits \subseteq Nat

VARIABLES
    config,          \* Config::GraphGenerationOptions
    pc,              \* where buildGraph is
    vertices,        \* the ids generated, in order
    i, j,            \* the indices of the two nested loops
    edges,           \* the unordered_set<UndirectedEdge>
    drawn,           \* history: the pairs for which testEdge came up
    popDescriptors,  \* id -> vertex descriptor
    pops,            \* the boost graph: the vertices, by descriptor,
    links,           \* its edges <<source, target>>, in order of insertion
    touched          \* how often a visit has replaced each of the vertices

building == <<vertices, i, j, edges, drawn>>
graph == <<popDescriptors, pops, links>>
vars == <<config, pc, building, graph, touched>>

UndirectedEdge == [v1 : Unique, v2 : Unique]

-----------------------------------------------------------------------------
\* UndirectedEdge::operator==, getLt, getGt and the hash: the hash is that of
\* the two strings one after the other, and strings of one length that differ
\* are taken to hash differently.
SameEdge(e, f) == \/ e.v1 = f.v1 /\ e.v2 = f.v2
                  \/ e.v1 = f.v2 /\ e.v2 = f.v1

Lt(e) == IF e.v1 < e.v2 THEN e.v1 ELSE e.v2
Gt(e) == IF e.v2 > e.v1 THEN e.v2 ELSE e.v1
\* Mutant: the strings in the order they came.
HashAsGiven(e) == <<e.v1, e.v2>>

Hash(e) == <<Lt(e), Gt(e)>>

\* unordered_set::emplace looks for an equal element among those whose hash
\* is the same, and for no other.
Emplace(set, e) ==
    IF \E f \in set : Hash(f) = Hash(e) /\ SameEdge(f, e)
    THEN set ELSE set \union {e}

\* unordered_map::operator[] makes a descriptor 0, the first vertex, of an id
\* it does not find.
Descriptor(u) == IF u \in DOMAIN popDescriptors THEN popDescriptors[u] ELSE 1

\* Util::sampleFrom.  The draw may be 0 exactly, which is <= any probability
\* that is not negative, and is always < 1; a probability of more than one is
\* an exception and no draw.
SamplingThrows(probability) == probability > Certain
SampleFrom(probability) ==
    CASE probability < 0 \/ SamplingThrows(probability) -> {FALSE}
      [] probability = Certain -> {TRUE}
      [] OTHER -> {TRUE, FALSE}

\* BoundedOption::rangeCheck, and the ranges that the options of the graph
\* have: the two counts have no upper end that matters.
InRange(option, low, high) == low <= option /\ option <= high
Accepted == /\ InRange(config.linkChance, 0, Certain)
            /\ config.graphSize >= 2
            /\ config.maxEdgesPerVertex >= 2

Init ==
    /\ config \in [graphSize : GraphSizes, linkChance : LinkChances,
                   maxEdgesPerVertex : EdgeLimits]
    /\ pc = "configuration"
    /\ vertices = <<>>
    /\ i = 1 /\ j = 1
    /\ edges = {}
    /\ drawn = {}
    /\ popDescriptors = <<>>
    /\ pops = <<>>
    /\ links = <<>>
    /\ touched = <<>>

\* Mutant: PercentOption does not check its range.
ConfigureUnchecked ==
    /\ pc = "configuration"
    /\ pc' = IF config.graphSize >= 2 /\ config.maxEdgesPerVertex >= 2
             THEN "vertices" ELSE "OptionNotInRange"
    /\ UNCHANGED <<config, building, graph, touched>>

\* GraphGenerationOptions: a BoundedOption that is not in its range throws.
Configure ==
    /\ pc = "configuration"
    /\ pc' = IF Accepted THEN "vertices" ELSE "OptionNotInRange"
    /\ UNCHANGED <<config, building, graph, touched>>

\* Unique::newUnique: two random ids are never the same.
NewVertex ==
    /\ pc = "vertices" /\ Len(vertices) < config.graphSize
    /\ \E u \in Unique \ Range(vertices) : vertices' = Append(vertices, u)
    /\ UNCHANGED <<config, pc, i, j, edges, drawn, graph, touched>>

VerticesGenerated ==
    /\ pc = "vertices" /\ Len(vertices) = config.graphSize
    /\ pc' = "edges"
    /\ UNCHANGED <<config, building, graph, touched>>

\* The next turn of the inner loop, or the first of the next outer one.
NextPair == IF j < Len(vertices) THEN i' = i /\ j' = j + 1
                                 ELSE i' = i + 1 /\ j' = 1

Chance == config.linkChance \div 2    \* for each of the two ordered pairs
Distinct == i <= Len(vertices) /\ vertices[i] # vertices[j]

\* No edge from a vertex to itself.
SkipLoop ==
    /\ pc = "edges" /\ i <= Len(vertices) /\ ~Distinct
    /\ NextPair
    /\ UNCHANGED <<config, pc, vertices, edges, drawn, graph, touched>>

TestEdge(hit) ==
    /\ pc = "edges" /\ Distinct
    /\ hit \in SampleFrom(Chance)
    /\ pc' = IF SamplingThrows(Chance) THEN "SampleFromException" ELSE pc
    /\ LET e == [v1 |-> vertices[i], v2 |-> vertices[j]]
       IN IF hit THEN /\ edges' = Emplace(edges, e)
                      /\ drawn' = drawn \union {<<e.v1, e.v2>>}
                 ELSE UNCHANGED <<edges, drawn>>
    /\ NextPair
    /\ UNCHANGED <<config, vertices, graph, touched>>

EdgesDrawn ==
    /\ pc = "edges" /\ i > Len(vertices)
    /\ pc' = "pops"
    /\ UNCHANGED <<config, building, graph, touched>>

\* Mutant: the descriptor is not kept.
InsertPopForgotten ==
    /\ pc = "pops" /\ Len(pops) < Len(vertices)
    /\ pops' = Append(pops, vertices[Len(pops) + 1])
    /\ UNCHANGED <<config, pc, building, popDescriptors, links, touched>>

\* insertPop: a consumer in the boost graph, and where it is.
InsertPop ==
    /\ pc = "pops" /\ Len(pops) < Len(vertices)
    /\ LET u == vertices[Len(pops) + 1]
       IN /\ pops' = Append(pops, u)
          /\ popDescriptors' = [w \in DOMAIN popDescriptors \union {u} |->
                                   IF w = u THEN Len(pops) + 1
                                   ELSE popDescriptors[w]]
    /\ UNCHANGED <<config, pc, building, links, touched>>

PopsInserted ==
    /\ pc = "pops" /\ Len(pops) = Len(vertices)
    /\ pc' = "links"
    /\ UNCHANGED <<config, building, graph, touched>>

\* The set is read in the order of its buckets, which may be any; edges is
\* from here on what has not been read.
AddEdge ==
    /\ pc = "links"
    /\ \E e \in edges :
          /\ links' = Append(links, <<Descriptor(e.v1), Descriptor(e.v2)>>)
          /\ edges' = edges \ {e}
    /\ UNCHANGED <<config, pc, vertices, i, j, drawn, popDescriptors, pops,
                   touched>>

Built ==
    /\ pc = "links" /\ edges = {}
    /\ pc' = "built"
    /\ touched' = [d \in DOMAIN pops |-> 0]
    /\ UNCHANGED <<config, building, graph>>

-----------------------------------------------------------------------------
\* Mutant: the pair is read from a copy made before the visit.
MutateStale(visit, link) ==
    [touched |-> [[visit.touched EXCEPT ![link[1]] = 1] EXCEPT ![link[2]] = 1],
     numMutated |-> visit.numMutated + 1]

\* mutateEdges on a function that replaces both people by ones that have been
\* touched once more.  The pair is read, and then each end is written: the
\* source first.
Mutate(visit, link) ==
    LET s == visit.touched[link[1]] + 1
        t == visit.touched[link[2]] + 1
    IN [touched |-> [[visit.touched EXCEPT ![link[1]] = s] EXCEPT ![link[2]] = t],
        numMutated |-> visit.numMutated + 1]

\* Mutant: the edges are filtered before any is visited.
AskedBefore(visit, link) == [s |-> 0, t |-> 0]

\* The iterator of a filtered graph asks the predicate when it comes to an
\* edge, of the people the graph has by then.
Asked(visit, link) ==
    [s |-> visit.touched[link[1]], t |-> visit.touched[link[2]]]

Start == [touched |-> [d \in DOMAIN pops |-> 0], numMutated |-> 0]

MutateEdgesResult == FoldLeft(Mutate, Start, links)
FilteredResult(predicate) ==
    FoldLeft(LAMBDA visit, link : IF Asked(visit, link) \in predicate
                                  THEN Mutate(visit, link) ELSE visit,
             Start, links)

\* A predicate is the set of what it is true of.
Untouched == {[s |-> 0, t |-> 0]}
Anyone == [s : Nat, t : Nat]

MutateEdges ==
    /\ pc = "built"
    /\ touched' = MutateEdgesResult.touched
    /\ pc' = "mutated"
    /\ UNCHANGED <<config, building, graph>>

MutateEdgesWithPredicate ==
    /\ pc = "built"
    /\ touched' = FilteredResult(Untouched).touched
    /\ pc' = "filtered"
    /\ UNCHANGED <<config, building, graph>>

\* auditGraph throws unless each visit counts what boost counts.
AuditGraph ==
    /\ pc = "built"
    /\ pc' = IF /\ MutateEdgesResult.numMutated = Len(links)
                /\ FilteredResult(Anyone).numMutated = Len(links)
             THEN "audited" ELSE "AuditGraphException"
    /\ UNCHANGED <<config, building, graph, touched>>

\* toString: a line for each edge under the id of its source, and a line for
\* each id that has not been the source of one.
PrintedEdges == {<<pops[l[1]], pops[l[2]]>> : l \in Range(links)}
PrintedAlone == Range(pops) \ {e[1] : e \in PrintedEdges}
PrintedLines == Len(links) + Cardinality(PrintedAlone)

Next ==
    \/ Configure \/ NewVertex \/ VerticesGenerated
    \/ SkipLoop \/ (\E hit \in BOOLEAN : TestEdge(hit))
    \/ EdgesDrawn \/ InsertPop \/ PopsInserted \/ AddEdge \/ Built
    \/ MutateEdges \/ MutateEdgesWithPredicate \/ AuditGraph

Spec == Init /\ [][Next]_vars /\ WF_vars(Next)

-----------------------------------------------------------------------------
Finished == {"built", "mutated", "filtered", "audited"}
Failed == {"OptionNotInRange", "SampleFromException", "AuditGraphException"}
Linked(a, b) == \E l \in Range(links) : {l[1], l[2]} = {a, b}
Acquaintances(d) == {n \in DOMAIN pops : n # d /\ Linked(d, n)}

\* The shape of the state: indices within the vertices, edges between ids
\* that were generated, links between vertices of the graph.
TypeOK ==
    /\ config \in [graphSize : GraphSizes, linkChance : LinkChances,
                   maxEdgesPerVertex : EdgeLimits]
    /\ pc \in {"configuration", "vertices", "edges", "pops", "links"}
             \union Finished \union Failed
    /\ vertices \in Seq(Unique)
    /\ i \in 1 .. Len(vertices) + 1 /\ j \in 1 .. Len(vertices) + 1
    /\ edges \subseteq UndirectedEdge
    /\ drawn \subseteq Unique \X Unique
    /\ popDescriptors \in [Range(pops) -> 1 .. Len(pops)]
    /\ pops \in Seq(Unique)
    /\ links \in Seq((1 .. Len(pops)) \X (1 .. Len(pops)))
    /\ touched \in Seq(Nat)

\* Nobody is linked to themselves, and no two edges of the graph join the same
\* two people, however the draws for the two directions come out: a sale is
\* tried once for each acquaintance.
SimpleGraph ==
    \A k, m \in DOMAIN links :
        /\ links[k][1] # links[k][2]
        /\ {links[k][1], links[k][2]} = {links[m][1], links[m][2]} => k = m

\* Two people of the finished graph are linked exactly if one of the two draws
\* for them came up: no edge is lost or moved between the set of ids, the
\* descriptors and the boost graph.
LinksFollowTheDraws ==
    pc \in Finished => \A a, b \in DOMAIN pops : a # b =>
        (Linked(a, b) <=> {<<pops[a], pops[b]>>, <<pops[b], pops[a]>>}
                              \intersect drawn # {})

\* A visit of the edges looks at people as they are by then, when it replaces
\* them and when it asks its predicate.  So no replacement is lost: everybody
\* has been replaced once for each acquaintance.  And a predicate that asks for
\* two untouched people makes it touch nobody twice and leave no two untouched
\* acquaintances.
VisitsSeeTheirWrites ==
    /\ pc = "mutated" =>
            \A d \in DOMAIN pops : touched[d] = Cardinality(Acquaintances(d))
    /\ pc = "filtered" => \A d \in DOMAIN pops :
            /\ touched[d] <= 1
            /\ touched[d] = 0 => \A n \in Acquaintances(d) : touched[n] = 1

\* Whatever is asked for, construction comes to an end: with a graph or by
\* refusing an option, never by Util::sampleFrom throwing halfway.
BuildEnds == <>(pc \in Finished \union {"OptionNotInRange"})

\* How many steps are left at most: two for each pair that may be drawn and its
\* edge may be added, one for each id and one for each vertex.
PairsLeft == (Len(vertices) + 1 - i) * Len(vertices) - (j - 1)

StepsLeft ==
    LET n == config.graphSize
    IN CASE pc = "configuration" -> 2 * (n * n) + 2 * n + 6
         [] pc = "vertices" -> 2 * (n * n) + n + 5 + (n - Len(vertices))
         [] pc = "edges" -> 2 * PairsLeft + Cardinality(edges) + n + 4
         [] pc = "pops" -> (n - Len(pops)) + Cardinality(edges) + 3
         [] pc = "links" -> Cardinality(edges) + 2
         [] pc = "built" -> 1
         [] OTHER -> 0

\* Neither the two nested loops nor the one over the set of edges goes round
\* without coming to its end, however the draws come out.
EveryStepCounts == [][StepsLeft' < StepsLeft]_vars
=============================================================================
