------------------------- MODULE PopulationGraphProofs -------------------------
(***************************************************************************)
(* What PopulationGraph.tla promises of the graph that buildGraph makes,   *)
(* for every size and chance, and what LoggingBackend.tla promises of its  *)
(* log, for every number of ticks and wherever the interrupt comes.        *)
(***************************************************************************)
EXTENDS LoggingBackend, FoldProofs, SequenceTheorems

(***************************************************************************)
(* The inductive invariant.  That two links join different people comes    *)
(* from the set, which holds no edge in both directions, through the       *)
(* descriptors, which take an id to the one vertex that has it: so the     *)
(* invariant follows the ids from the set to the descriptors and the pops, *)
(* and keeps the links apart from what is still in the set.                *)
(***************************************************************************)
EdgesJoinVertices ==
    \A e \in edges : /\ e \in UndirectedEdge
                     /\ e.v1 # e.v2
                     /\ e.v1 \in Range(vertices) /\ e.v2 \in Range(vertices)

NoTwins == \A e, f \in edges : SameEdge(e, f) => e = f

PopsAreVertices ==
    /\ Len(pops) <= Len(vertices)
    /\ \A k \in 1 .. Len(pops) : pops[k] = vertices[k]

DescriptorsFindTheirPop ==
    /\ DOMAIN popDescriptors = Range(pops)
    /\ \A u \in DOMAIN popDescriptors :
          popDescriptors[u] \in 1 .. Len(pops) /\ pops[popDescriptors[u]] = u

LinksJoinPops ==
    \A k \in 1 .. Len(links) :
        links[k] \in (1 .. Len(pops)) \X (1 .. Len(pops))

ReadEdgesAreGone ==
    \A k \in 1 .. Len(links) : \A e \in edges :
        {pops[links[k][1]], pops[links[k][2]]} # {e.v1, e.v2}

InOrder ==
    /\ pc \in {"configuration", "vertices"} => edges = {} /\ j = 1
    /\ pc \in {"links"} \union Finished => Len(pops) = Len(vertices)
    /\ pc \in {"configuration", "vertices", "edges", "pops"} => links = <<>>

LoopIndices ==
    /\ i \in Nat \ {0} /\ j \in Nat \ {0}
    /\ i <= Len(vertices) => j <= Len(vertices)

IInv ==
    /\ vertices \in Seq(Unique) /\ pops \in Seq(Unique) /\ links \in Seq(Nat \X Nat)
    /\ EdgesJoinVertices
    /\ NoTwins
    /\ PopsAreVertices
    /\ DescriptorsFindTheirPop
    /\ LinksJoinPops
    /\ ReadEdgesAreGone
    /\ LoopIndices
    /\ InOrder
    /\ SimpleGraph

-----------------------------------------------------------------------------
(* The hash agrees with the equality: equal edges are in the same bucket. *)
LEMMA SameEdgeSameHash ==
    ASSUME NEW e \in UndirectedEdge, NEW f \in UndirectedEdge, SameEdge(e, f)
    PROVE  Hash(e) = Hash(f)
<1>1. e.v1 \in Nat /\ e.v2 \in Nat /\ f.v1 \in Nat /\ f.v2 \in Nat
  BY GraphAssumption DEF UndirectedEdge, GraphAssumption
<1>2. Lt(e) = Lt(f) /\ Gt(e) = Gt(f)
  BY <1>1 DEF SameEdge, Lt, Gt
<1> QED
  BY <1>2 DEF Hash

(* Whatever is inserted, the set keeps each edge in one direction. *)
LEMMA EmplaceKeepsNoTwins ==
    ASSUME NEW S, S \subseteq UndirectedEdge, NEW g \in UndirectedEdge,
           \A e, f \in S : SameEdge(e, f) => e = f
    PROVE  \A e, f \in Emplace(S, g) : SameEdge(e, f) => e = f
<1>1. CASE \E f \in S : Hash(f) = Hash(g) /\ SameEdge(f, g)
  BY <1>1 DEF Emplace
<1>2. CASE ~ \E f \in S : Hash(f) = Hash(g) /\ SameEdge(f, g)
  <2>1. \A f \in S : ~SameEdge(f, g)
    BY <1>2, SameEdgeSameHash
  <2>2. \A e, f : SameEdge(e, f) => SameEdge(f, e)
    BY DEF SameEdge
  <2>3. Emplace(S, g) = S \union {g}
    BY <1>2 DEF Emplace
  <2> QED
    BY <2>1, <2>2, <2>3
<1> QED
  BY <1>1, <1>2

(* A sequence that grows keeps its elements and gains one. *)
LEMMA RangeOfAppend ==
    ASSUME NEW S, NEW s \in Seq(S), NEW x \in S
    PROVE  /\ Append(s, x) \in Seq(S)
           /\ Len(Append(s, x)) = Len(s) + 1
           /\ \A k \in 1 .. Len(s) : Append(s, x)[k] = s[k]
           /\ Append(s, x)[Len(s) + 1] = x
           /\ Range(Append(s, x)) = Range(s) \union {x}
<1>1. /\ Append(s, x) \in Seq(S)
      /\ Len(Append(s, x)) = Len(s) + 1
      /\ \A k \in 1 .. Len(s) : Append(s, x)[k] = s[k]
      /\ Append(s, x)[Len(s) + 1] = x
  OBVIOUS
<1>2. DOMAIN Append(s, x) = 1 .. Len(s) + 1 /\ DOMAIN s = 1 .. Len(s)
        /\ Len(s) \in Nat
  BY <1>1
<1>3. Range(Append(s, x)) \subseteq Range(s) \union {x}
  <2> SUFFICES ASSUME NEW k \in 1 .. Len(s) + 1
               PROVE  Append(s, x)[k] \in Range(s) \union {x}
    BY <1>2 DEF Range
  <2>1. CASE k = Len(s) + 1
    BY <1>1, <2>1
  <2>2. CASE k \in 1 .. Len(s)
    BY <1>1, <1>2, <2>2 DEF Range
  <2> QED
    BY <2>1, <2>2, <1>2
<1>4. Range(s) \union {x} \subseteq Range(Append(s, x))
  <2>1. x \in Range(Append(s, x))
    BY <1>1, <1>2 DEF Range
  <2>2. ASSUME NEW k \in 1 .. Len(s) PROVE s[k] \in Range(Append(s, x))
    <3>1. k \in DOMAIN Append(s, x) /\ Append(s, x)[k] = s[k]
      BY <1>1, <1>2
    <3> QED
      BY <3>1 DEF Range
  <2> QED
    BY <2>1, <2>2, <1>2 DEF Range
<1> QED
  BY <1>1, <1>3, <1>4

-----------------------------------------------------------------------------
LEMMA InitIInv == Init => IInv
<1> SUFFICES ASSUME Init PROVE IInv
  OBVIOUS
<1>1. /\ vertices = <<>> /\ pops = <<>> /\ links = <<>> /\ edges = {}
      /\ popDescriptors = <<>> /\ pc = "configuration"
  BY DEF Init
<1>2. vertices \in Seq(Unique) /\ pops \in Seq(Unique) /\ links \in Seq(Nat \X Nat)
  BY <1>1
<1>3. EdgesJoinVertices /\ NoTwins
  BY <1>1 DEF EdgesJoinVertices, NoTwins
<1>4. DescriptorsFindTheirPop
  BY <1>1 DEF DescriptorsFindTheirPop, Range
<1>5. PopsAreVertices /\ LinksJoinPops /\ ReadEdgesAreGone
  BY <1>1 DEF PopsAreVertices, LinksJoinPops, ReadEdgesAreGone
<1>6. LoopIndices /\ InOrder /\ SimpleGraph
  BY <1>1 DEF Init, LoopIndices, InOrder, SimpleGraph, Finished
<1> QED
  BY <1>2, <1>3, <1>4, <1>5, <1>6 DEF IInv

(* A step that leaves the ids, the set and the graph alone, and moves pc      *)
(* forward, keeps the invariant.                                             *)
LEMMA OnlyPcMoves ==
    ASSUME IInv, UNCHANGED <<vertices, i, j, edges, popDescriptors, pops, links>>,
           InOrder'
    PROVE  IInv'
<1>1. /\ vertices' = vertices /\ i' = i /\ j' = j /\ edges' = edges
      /\ popDescriptors' = popDescriptors /\ pops' = pops /\ links' = links
  OBVIOUS
<1>2. /\ vertices' \in Seq(Unique) /\ pops' \in Seq(Unique)
      /\ links' \in Seq(Nat \X Nat)
  BY <1>1 DEF IInv
<1>3. EdgesJoinVertices' /\ NoTwins'
  BY <1>1 DEF IInv, EdgesJoinVertices, NoTwins, SameEdge
<1>4. PopsAreVertices' /\ DescriptorsFindTheirPop'
  BY <1>1 DEF IInv, PopsAreVertices, DescriptorsFindTheirPop
<1>5. LinksJoinPops' /\ ReadEdgesAreGone'
  BY <1>1 DEF IInv, LinksJoinPops, ReadEdgesAreGone
<1>6. LoopIndices' /\ SimpleGraph'
  BY <1>1 DEF IInv, LoopIndices, SimpleGraph
<1> QED
  BY <1>2, <1>3, <1>4, <1>5, <1>6 DEF IInv

-----------------------------------------------------------------------------
LEMMA NewVertexStep == ASSUME IInv, NewVertex PROVE IInv'
<1>1. PICK u \in Unique : vertices' = Append(vertices, u)
  BY DEF NewVertex
<1>2. /\ pc = "vertices" /\ Len(vertices) \in Nat
      /\ UNCHANGED <<pc, edges, popDescriptors, pops, links>>
  BY DEF NewVertex, graph, IInv
<1>3. edges = {} /\ links = <<>>
  BY <1>2 DEF IInv, InOrder, Finished
<1>4. /\ vertices' \in Seq(Unique) /\ Len(vertices') = Len(vertices) + 1
      /\ \A k \in 1 .. Len(vertices) : vertices'[k] = vertices[k]
  BY <1>1, RangeOfAppend DEF IInv
<1>5. EdgesJoinVertices' /\ NoTwins'
  BY <1>2, <1>3 DEF EdgesJoinVertices, NoTwins
<1>6. PopsAreVertices'
  <2>1. /\ Len(pops) \in Nat /\ Len(pops) <= Len(vertices)
        /\ \A k \in 1 .. Len(pops) : pops[k] = vertices[k]
    BY DEF IInv, PopsAreVertices
  <2> QED
    BY <2>1, <1>2, <1>4 DEF PopsAreVertices
<1>7. DescriptorsFindTheirPop' /\ LinksJoinPops' /\ ReadEdgesAreGone' /\ SimpleGraph'
  BY <1>2, <1>3
     DEF IInv, DescriptorsFindTheirPop, LinksJoinPops, ReadEdgesAreGone, SimpleGraph
<1>8. LoopIndices' /\ InOrder'
  <2>1. i' = i /\ j' = j /\ j = 1 /\ i \in Nat \ {0}
    BY <1>2 DEF NewVertex, IInv, InOrder, LoopIndices
  <2> QED
    BY <2>1, <1>2, <1>3, <1>4 DEF LoopIndices, InOrder, Finished
<1> QED
  BY <1>2, <1>4, <1>5, <1>6, <1>7, <1>8 DEF IInv

LEMMA NextPairStaysInside ==
    ASSUME LoopIndices, Len(vertices) \in Nat, NextPair, UNCHANGED vertices
    PROVE  LoopIndices'
<1> QED
  BY DEF LoopIndices, NextPair

LEMMA SkipLoopStep == ASSUME IInv, SkipLoop PROVE IInv'
<1>1. /\ pc = "edges" /\ NextPair
      /\ UNCHANGED <<pc, vertices, edges, popDescriptors, pops, links>>
  BY DEF SkipLoop, graph
<1>2. LoopIndices'
  BY <1>1, NextPairStaysInside DEF IInv
<1>3. InOrder'
  BY <1>1 DEF IInv, InOrder, Finished
<1> QED
  BY <1>1, <1>2, <1>3
     DEF IInv, EdgesJoinVertices, NoTwins, PopsAreVertices, SameEdge,
     DescriptorsFindTheirPop, LinksJoinPops, ReadEdgesAreGone, SimpleGraph

LEMMA TestEdgeStep ==
    ASSUME IInv, NEW hit \in BOOLEAN, TestEdge(hit)
    PROVE  IInv'
<1> DEFINE g == [v1 |-> vertices[i], v2 |-> vertices[j]]
<1>1. /\ pc = "edges" /\ pc' \in {"edges", "SampleFromException"}
      /\ Distinct /\ NextPair
      /\ edges' \in {edges, Emplace(edges, g)}
      /\ UNCHANGED <<vertices, popDescriptors, pops, links>>
  BY DEF TestEdge, graph
<1>2. LoopIndices'
  BY <1>1, NextPairStaysInside DEF IInv
<1>3. links = <<>>
  BY <1>1 DEF IInv, InOrder, Finished
<1>4. /\ g \in UndirectedEdge /\ g.v1 # g.v2
      /\ g.v1 \in Range(vertices) /\ g.v2 \in Range(vertices)
  <2>1. i \in DOMAIN vertices /\ j \in DOMAIN vertices
    BY <1>1 DEF IInv, LoopIndices, Distinct
  <2>2. vertices[i] \in Unique /\ vertices[j] \in Unique
    BY <2>1 DEF IInv
  <2> QED
    BY <1>1, <2>1, <2>2 DEF Distinct, UndirectedEdge, Range
<1>5. edges' \subseteq edges \union {g}
  BY <1>1 DEF Emplace
<1>6. EdgesJoinVertices'
  BY <1>1, <1>4, <1>5 DEF IInv, EdgesJoinVertices
<1>7. NoTwins'
  <2>1. edges \subseteq UndirectedEdge
    BY DEF IInv, EdgesJoinVertices
  <2>2. \A e, f \in Emplace(edges, g) : SameEdge(e, f) => e = f
    BY <1>4, <2>1, EmplaceKeepsNoTwins DEF IInv, NoTwins
  <2> QED
    BY <1>1, <2>2 DEF IInv, NoTwins, SameEdge
<1>8. InOrder'
  BY <1>1, <1>3 DEF InOrder, Finished
<1>9. PopsAreVertices' /\ DescriptorsFindTheirPop' /\ LinksJoinPops' /\ SimpleGraph'
  BY <1>1 DEF IInv, PopsAreVertices, DescriptorsFindTheirPop, LinksJoinPops, SimpleGraph
<1>10. ReadEdgesAreGone'
  BY <1>1, <1>3 DEF ReadEdgesAreGone
<1> QED
  BY <1>1, <1>2, <1>6, <1>7, <1>8, <1>9, <1>10 DEF IInv

LEMMA InsertPopStep == ASSUME IInv, InsertPop PROVE IInv'
<1> DEFINE u == vertices[Len(pops) + 1]
<1>1. /\ pc = "pops" /\ Len(pops) < Len(vertices)
      /\ pops' = Append(pops, u)
      /\ popDescriptors' = [w \in DOMAIN popDescriptors \union {u} |->
                               IF w = u THEN Len(pops) + 1
                               ELSE popDescriptors[w]]
      /\ UNCHANGED <<pc, vertices, i, j, edges, links>>
  BY DEF InsertPop, building
<1>2. u \in Unique /\ Len(pops) \in Nat /\ Len(vertices) \in Nat
  BY <1>1 DEF IInv
<1>3. /\ pops' \in Seq(Unique) /\ Len(pops') = Len(pops) + 1
      /\ \A k \in 1 .. Len(pops) : pops'[k] = pops[k]
      /\ pops'[Len(pops) + 1] = u
      /\ Range(pops') = Range(pops) \union {u}
  BY <1>1, <1>2, RangeOfAppend DEF IInv
<1>4. links = <<>>
  BY <1>1 DEF IInv, InOrder, Finished
<1>5. PopsAreVertices'
  BY <1>1, <1>2, <1>3 DEF IInv, PopsAreVertices
<1>6. DescriptorsFindTheirPop'
  <2>1. DOMAIN popDescriptors' = Range(pops')
    BY <1>1, <1>3 DEF IInv, DescriptorsFindTheirPop
  <2>2. ASSUME NEW w \in DOMAIN popDescriptors'
        PROVE  popDescriptors'[w] \in 1 .. Len(pops') /\ pops'[popDescriptors'[w]] = w
    <3>1. CASE w = u
      BY <3>1, <1>1, <1>2, <1>3
    <3>2. CASE w # u
      <4>1. w \in DOMAIN popDescriptors /\ popDescriptors'[w] = popDescriptors[w]
        BY <3>2, <1>1
      <4>2. popDescriptors[w] \in 1 .. Len(pops) /\ pops[popDescriptors[w]] = w
        BY <4>1 DEF IInv, DescriptorsFindTheirPop
      <4> QED
        BY <4>1, <4>2, <1>2, <1>3
    <3> QED
      BY <3>1, <3>2
  <2> QED
    BY <2>1, <2>2 DEF DescriptorsFindTheirPop
<1>7. LinksJoinPops' /\ ReadEdgesAreGone' /\ SimpleGraph'
  BY <1>1, <1>4 DEF LinksJoinPops, ReadEdgesAreGone, SimpleGraph
<1>8. InOrder' /\ LoopIndices' /\ EdgesJoinVertices' /\ NoTwins'
  BY <1>1, <1>4
     DEF IInv, InOrder, Finished, LoopIndices, EdgesJoinVertices, NoTwins, SameEdge
<1> QED
  BY <1>1, <1>3, <1>4, <1>5, <1>6, <1>7, <1>8 DEF IInv

(* When all the vertices are in, the descriptors of an edge are its ends. *)
LEMMA DescriptorsOfAnEdge ==
    ASSUME IInv, pc = "links", NEW e \in edges
    PROVE  /\ Descriptor(e.v1) \in 1 .. Len(pops) /\ pops[Descriptor(e.v1)] = e.v1
           /\ Descriptor(e.v2) \in 1 .. Len(pops) /\ pops[Descriptor(e.v2)] = e.v2
           /\ Descriptor(e.v1) # Descriptor(e.v2)
<1>1. Len(pops) = Len(vertices) /\ Len(pops) \in Nat
  BY DEF IInv, InOrder
<1>2. Range(vertices) \subseteq Range(pops)
  <2>1. \A k \in 1 .. Len(pops) : pops[k] = vertices[k]
    BY DEF IInv, PopsAreVertices
  <2>2. DOMAIN pops = 1 .. Len(pops) /\ DOMAIN vertices = 1 .. Len(pops)
    BY <1>1 DEF IInv
  <2> QED
    BY <2>1, <2>2 DEF Range
<1>3. e.v1 \in DOMAIN popDescriptors /\ e.v2 \in DOMAIN popDescriptors /\ e.v1 # e.v2
  BY <1>2 DEF IInv, EdgesJoinVertices, DescriptorsFindTheirPop
<1>4. Descriptor(e.v1) = popDescriptors[e.v1] /\ Descriptor(e.v2) = popDescriptors[e.v2]
  BY <1>3 DEF Descriptor
<1> QED
  BY <1>3, <1>4 DEF IInv, DescriptorsFindTheirPop

LEMMA AddEdgeStep == ASSUME IInv, AddEdge PROVE IInv'
<1>1. /\ pc = "links"
      /\ UNCHANGED <<pc, vertices, i, j, popDescriptors, pops>>
  BY DEF AddEdge
<1>2. PICK e \in edges :
         /\ links' = Append(links, <<Descriptor(e.v1), Descriptor(e.v2)>>)
         /\ edges' = edges \ {e}
  BY DEF AddEdge
<1> DEFINE s == Descriptor(e.v1)
           t == Descriptor(e.v2)
<1>3. Len(pops) = Len(vertices) /\ Len(pops) \in Nat
  BY <1>1 DEF IInv, InOrder
<1>5. /\ s \in 1 .. Len(pops) /\ pops[s] = e.v1
      /\ t \in 1 .. Len(pops) /\ pops[t] = e.v2
      /\ s # t
  BY <1>1, DescriptorsOfAnEdge
<1>6. /\ links' \in Seq(Nat \X Nat)
      /\ Len(links') = Len(links) + 1 /\ Len(links) \in Nat
      /\ \A k \in 1 .. Len(links) : links'[k] = links[k]
      /\ links'[Len(links) + 1] = <<s, t>>
  <2>1. <<s, t>> \in Nat \X Nat /\ links \in Seq(Nat \X Nat)
    BY <1>3, <1>5 DEF IInv
  <2> QED
    BY <1>2, <2>1, RangeOfAppend
<1>7. EdgesJoinVertices' /\ NoTwins'
  BY <1>1, <1>2 DEF IInv, EdgesJoinVertices, NoTwins, SameEdge
<1>8. LinksJoinPops'
  <2> SUFFICES ASSUME NEW k \in 1 .. Len(links) + 1
               PROVE  links'[k] \in (1 .. Len(pops)) \X (1 .. Len(pops))
    BY <1>1, <1>6 DEF LinksJoinPops
  <2>1. CASE k = Len(links) + 1
    BY <2>1, <1>5, <1>6
  <2>2. CASE k \in 1 .. Len(links)
    BY <2>2, <1>6 DEF IInv, LinksJoinPops
  <2> QED
    BY <2>1, <2>2, <1>6
<1>9. ReadEdgesAreGone'
  <2> SUFFICES ASSUME NEW k \in 1 .. Len(links) + 1, NEW f \in edges, f # e
               PROVE  {pops[links'[k][1]], pops[links'[k][2]]} # {f.v1, f.v2}
    BY <1>1, <1>2, <1>6 DEF ReadEdgesAreGone
  <2>1. CASE k = Len(links) + 1
    <3>1. {e.v1, e.v2} # {f.v1, f.v2}
      <4>1. ~SameEdge(e, f)
        BY DEF IInv, NoTwins
      <4> QED
        BY <4>1 DEF SameEdge
    <3>2. links'[k] = <<s, t>>
      BY <2>1, <1>6
    <3>3. links'[k][1] = s /\ links'[k][2] = t
      BY <3>2
    <3>4. pops[links'[k][1]] = e.v1 /\ pops[links'[k][2]] = e.v2
      BY <3>3, <1>5
    <3> HIDE DEF s, t
    <3> QED
      BY <3>1, <3>4, Zenon
  <2>2. CASE k \in 1 .. Len(links)
    BY <2>2, <1>6 DEF IInv, ReadEdgesAreGone
  <2>3. k \in 1 .. Len(links) \/ k = Len(links) + 1
    BY <1>6
  <2> QED
    BY <2>1, <2>2, <2>3, Zenon
<1>10. SimpleGraph'
  <2>1. ASSUME NEW k \in 1 .. Len(links)
        PROVE  {links[k][1], links[k][2]} # {s, t}
    <3>1. {pops[links[k][1]], pops[links[k][2]]} # {e.v1, e.v2}
      BY DEF IInv, ReadEdgesAreGone
    <3> QED
      BY <3>1, <1>5
  <2>2. DOMAIN links' = 1 .. Len(links) + 1 /\ DOMAIN links = 1 .. Len(links)
    BY <1>6 DEF IInv
  <2> SUFFICES ASSUME NEW k \in 1 .. Len(links) + 1, NEW m \in 1 .. Len(links) + 1
               PROVE  /\ links'[k][1] # links'[k][2]
                      /\ {links'[k][1], links'[k][2]} = {links'[m][1], links'[m][2]}
                            => k = m
    BY <2>2 DEF SimpleGraph
  <2>3. CASE k \in 1 .. Len(links) /\ m \in 1 .. Len(links)
    BY <2>2, <2>3, <1>6 DEF IInv, SimpleGraph
  <2>4. CASE k \in 1 .. Len(links) /\ m = Len(links) + 1
    <3>1. links[k][1] # links[k][2]
      BY <2>2, <2>4 DEF IInv, SimpleGraph
    <3>2. links'[k] = links[k] /\ links'[m] = <<s, t>>
      BY <2>4, <1>6
    <3>3. {links[k][1], links[k][2]} # {s, t}
      BY <2>1, <2>4
    <3>4. links'[m][1] = s /\ links'[m][2] = t
      BY <3>2
    <3> HIDE DEF s, t
    <3> QED
      BY <3>1, <3>2, <3>3, <3>4
  <2>5. CASE k = Len(links) + 1 /\ m \in 1 .. Len(links)
    <3>1. links'[m] = links[m] /\ links'[k] = <<s, t>>
      BY <2>5, <1>6
    <3>2. {links[m][1], links[m][2]} # {s, t}
      BY <2>1, <2>5
    <3>3. links'[k][1] = s /\ links'[k][2] = t /\ s # t
      BY <3>1, <1>5
    <3> HIDE DEF s, t
    <3> QED
      BY <3>1, <3>2, <3>3
  <2>6. CASE k = Len(links) + 1 /\ m = Len(links) + 1
    <3>1. links'[k] = <<s, t>> /\ s # t
      BY <2>6, <1>5, <1>6
    <3>2. links'[k][1] # links'[k][2]
      BY <3>1
    <3> QED
      BY <3>2, <2>6
  <2>7. /\ k \in 1 .. Len(links) \/ k = Len(links) + 1
        /\ m \in 1 .. Len(links) \/ m = Len(links) + 1
    BY <1>6
  <2> QED
    BY <2>3, <2>4, <2>5, <2>6, <2>7, Zenon
<1>11. /\ vertices' \in Seq(Unique) /\ pops' \in Seq(Unique)
       /\ PopsAreVertices' /\ DescriptorsFindTheirPop' /\ LoopIndices'
  BY <1>1 DEF IInv, PopsAreVertices, DescriptorsFindTheirPop, LoopIndices
<1>12. InOrder'
  BY <1>1, <1>3 DEF InOrder, Finished
<1> QED
  BY <1>6, <1>7, <1>8, <1>9, <1>10, <1>11, <1>12 DEF IInv

(* The other steps leave the ids, the set and the graph alone. *)
LEMMA OtherSteps ==
    ASSUME IInv,
           \/ Configure \/ VerticesGenerated \/ EdgesDrawn \/ PopsInserted
           \/ Built \/ MutateEdges \/ MutateEdgesWithPredicate \/ AuditGraph
           \/ UNCHANGED vars
    PROVE  IInv'
<1>1. UNCHANGED <<vertices, i, j, edges, popDescriptors, pops, links>>
  BY DEF Configure, VerticesGenerated, EdgesDrawn, PopsInserted, Built,
     MutateEdges, MutateEdgesWithPredicate, AuditGraph, vars, building, graph
<1>2. InOrder
  BY DEF IInv
<1>3. InOrder'
  <2>1. CASE Configure
    BY <2>1, <1>1, <1>2 DEF Configure, InOrder, Finished
  <2>2. CASE VerticesGenerated
    BY <2>2, <1>1, <1>2 DEF VerticesGenerated, InOrder, Finished
  <2>3. CASE EdgesDrawn
    BY <2>3, <1>1, <1>2 DEF EdgesDrawn, InOrder, Finished
  <2>4. CASE PopsInserted
    BY <2>4, <1>1, <1>2 DEF PopsInserted, InOrder, Finished
  <2>5. CASE Built
    BY <2>5, <1>1, <1>2 DEF Built, InOrder, Finished
  <2>6. CASE MutateEdges
    BY <2>6, <1>1, <1>2 DEF MutateEdges, InOrder, Finished
  <2>7. CASE MutateEdgesWithPredicate
    BY <2>7, <1>1, <1>2 DEF MutateEdgesWithPredicate, InOrder, Finished
  <2>8. CASE AuditGraph
    <3>1. pc = "built" /\ pc' \in {"audited", "AuditGraphException"}
      BY <2>8 DEF AuditGraph
    <3> QED
      BY <3>1, <1>1, <1>2 DEF InOrder, Finished
  <2>9. CASE UNCHANGED vars
    BY <2>9, <1>1, <1>2 DEF vars, InOrder, Finished
  <2> QED
    BY <2>1, <2>2, <2>3, <2>4, <2>5, <2>6, <2>7, <2>8, <2>9
<1> QED
  BY <1>1, <1>3, OnlyPcMoves

LEMMA GraphStep == ASSUME IInv, [Next]_vars PROVE IInv'
<1>1. CASE NewVertex
  BY <1>1, NewVertexStep
<1>2. CASE SkipLoop
  BY <1>2, SkipLoopStep
<1>3. ASSUME NEW hit \in BOOLEAN, TestEdge(hit) PROVE IInv'
  BY <1>3, TestEdgeStep
<1>4. CASE InsertPop
  BY <1>4, InsertPopStep
<1>5. CASE AddEdge
  BY <1>5, AddEdgeStep
<1>6. CASE \/ Configure \/ VerticesGenerated \/ EdgesDrawn \/ PopsInserted
           \/ Built \/ MutateEdges \/ MutateEdgesWithPredicate \/ AuditGraph
           \/ UNCHANGED vars
  BY <1>6, OtherSteps
<1> QED
  BY <1>1, <1>2, <1>3, <1>4, <1>5, <1>6 DEF Next

(* Nobody is linked to themselves and no two people are linked twice, by any  *)
(* construction of the graph.                                                *)
THEOREM GraphIsSimple == Spec => []SimpleGraph
<1>1. IInv => SimpleGraph
  BY DEF IInv
<1> QED
  BY <1>1, InitIInv, GraphStep, PTL DEF Spec
-----------------------------------------------------------------------------
(***************************************************************************)
(* The graph has the links that were drawn: a pair is drawn, in one of its *)
(* directions at least, exactly if it is in the set or already a link, and *)
(* an id names one vertex.                                                 *)
(***************************************************************************)
IdsDiffer ==
    \A k, m \in 1 .. Len(vertices) : vertices[k] = vertices[m] => k = m

Drawn(x, y) == <<x, y>> \in drawn \/ <<y, x>> \in drawn
InSet(x, y) == \E e \in edges : {e.v1, e.v2} = {x, y}
IsLink(x, y) ==
    \E k \in 1 .. Len(links) : {pops[links[k][1]], pops[links[k][2]]} = {x, y}

DrawsAreKept == \A x, y \in Unique : Drawn(x, y) <=> InSet(x, y) \/ IsLink(x, y)

DInv ==
    /\ IInv
    /\ IdsDiffer
    /\ DrawsAreKept
    /\ pc \in Finished => edges = {}

LEMMA DrawsNewVertex == ASSUME DInv, NewVertex PROVE DInv'
<1>1. PICK u \in Unique \ Range(vertices) : vertices' = Append(vertices, u)
  BY DEF NewVertex
<1>2. /\ Len(vertices') = Len(vertices) + 1 /\ Len(vertices) \in Nat
      /\ \A k \in 1 .. Len(vertices) : vertices'[k] = vertices[k]
      /\ vertices'[Len(vertices) + 1] = u
  BY <1>1, RangeOfAppend DEF DInv, IInv
<1>3. \A k \in 1 .. Len(vertices) : vertices[k] # u
  BY <1>1 DEF DInv, IInv, Range
<1>4. IdsDiffer'
  BY <1>2, <1>3 DEF DInv, IdsDiffer
<1>5. DrawsAreKept' /\ ~(pc' \in Finished)
  BY DEF NewVertex, graph, DInv, DrawsAreKept, Drawn, InSet, IsLink, Finished
<1>6. IInv'
  BY NewVertexStep DEF DInv
<1> QED
  BY <1>4, <1>5, <1>6 DEF DInv

LEMMA DrawsTestEdge ==
    ASSUME DInv, NEW hit \in BOOLEAN, TestEdge(hit)
    PROVE  DInv'
<1> DEFINE g == [v1 |-> vertices[i], v2 |-> vertices[j]]
<1>1. /\ pc = "edges" /\ ~(pc' \in Finished)
      /\ UNCHANGED <<vertices, pops, links>>
      /\ \/ hit /\ edges' = Emplace(edges, g)
            /\ drawn' = drawn \union {<<vertices[i], vertices[j]>>}
         \/ ~hit /\ UNCHANGED <<edges, drawn>>
  BY DEF TestEdge, graph, Finished
<1>2. IInv' /\ IdsDiffer'
  BY <1>1, TestEdgeStep DEF DInv, IdsDiffer
<1>3. DrawsAreKept'
  <2> SUFFICES ASSUME NEW x \in Unique, NEW y \in Unique
               PROVE  Drawn(x, y)' <=> InSet(x, y)' \/ IsLink(x, y)'
    BY DEF DrawsAreKept
  <2>1. IsLink(x, y)' <=> IsLink(x, y)
    BY <1>1 DEF IsLink
  <2>2. Drawn(x, y) <=> InSet(x, y) \/ IsLink(x, y)
    BY DEF DInv, DrawsAreKept
  <2>3. CASE ~hit
    BY <1>1, <2>1, <2>2, <2>3 DEF Drawn, InSet
  <2>4. CASE hit
    <3>1. Drawn(x, y)' <=> Drawn(x, y) \/ {g.v1, g.v2} = {x, y}
      BY <1>1, <2>4 DEF Drawn
    <3>2. InSet(x, y)' <=> InSet(x, y) \/ {g.v1, g.v2} = {x, y}
      <4>1. CASE edges' = edges \union {g}
        BY <4>1 DEF InSet
      <4>2. CASE edges' # edges \union {g}
        <5>1. edges' = edges /\ \E f \in edges : SameEdge(f, g)
          BY <1>1, <2>4, <4>2 DEF Emplace
        <5>2. PICK f \in edges : {f.v1, f.v2} = {g.v1, g.v2}
          BY <5>1 DEF SameEdge
        <5> QED
          BY <5>1, <5>2 DEF InSet
      <4> QED
        BY <4>1, <4>2
    <3> QED
      BY <2>1, <2>2, <3>1, <3>2
  <2> QED
    BY <2>3, <2>4
<1> QED
  BY <1>1, <1>2, <1>3 DEF DInv

LEMMA DrawsInsertPop == ASSUME DInv, InsertPop PROVE DInv'
<1>1. /\ pc = "pops" /\ pc' = pc
      /\ UNCHANGED <<vertices, edges, drawn, links>>
  BY DEF InsertPop, building
<1>2. links = <<>> /\ Len(links) = 0
  BY <1>1 DEF DInv, IInv, InOrder, Finished
<1>3. DrawsAreKept'
  <2>1. Len(links') = 0 /\ 1 .. 0 = {}
    BY <1>1, <1>2
  <2>2. \A x, y : ~IsLink(x, y) /\ ~IsLink(x, y)'
    BY <1>2, <2>1 DEF IsLink
  <2>3. \A x, y : (Drawn(x, y)' <=> Drawn(x, y)) /\ (InSet(x, y)' <=> InSet(x, y))
    BY <1>1 DEF Drawn, InSet
  <2> QED
    BY <2>2, <2>3 DEF DInv, DrawsAreKept
<1>4. IInv' /\ IdsDiffer' /\ ~(pc' \in Finished)
  BY <1>1, InsertPopStep DEF DInv, IdsDiffer, Finished
<1> QED
  BY <1>3, <1>4 DEF DInv

LEMMA DrawsAddEdge == ASSUME DInv, AddEdge PROVE DInv'
<1>1. /\ pc = "links" /\ pc' = pc
      /\ UNCHANGED <<vertices, drawn, pops>>
  BY DEF AddEdge
<1>2. PICK e \in edges :
         /\ links' = Append(links, <<Descriptor(e.v1), Descriptor(e.v2)>>)
         /\ edges' = edges \ {e}
  BY DEF AddEdge
<1> DEFINE s == Descriptor(e.v1)
           t == Descriptor(e.v2)
<1>3. s \in 1 .. Len(pops) /\ pops[s] = e.v1 /\ t \in 1 .. Len(pops) /\ pops[t] = e.v2
  BY <1>1, DescriptorsOfAnEdge DEF DInv
<1>4. /\ Len(links') = Len(links) + 1 /\ Len(links) \in Nat
      /\ \A k \in 1 .. Len(links) : links'[k] = links[k]
      /\ links'[Len(links) + 1] = <<s, t>>
  <2>1. <<s, t>> \in Nat \X Nat /\ links \in Seq(Nat \X Nat)
    BY <1>3 DEF DInv, IInv
  <2> QED
    BY <1>2, <2>1, RangeOfAppend
<1>5. ASSUME NEW x \in Unique, NEW y \in Unique
      PROVE  Drawn(x, y)' <=> InSet(x, y)' \/ IsLink(x, y)'
  <2>1. Drawn(x, y)' <=> InSet(x, y) \/ IsLink(x, y)
    BY <1>1 DEF DInv, DrawsAreKept, Drawn
  <2>2. InSet(x, y) <=> InSet(x, y)' \/ {e.v1, e.v2} = {x, y}
    BY <1>2 DEF InSet
  <2>3. IsLink(x, y)' <=> IsLink(x, y) \/ {e.v1, e.v2} = {x, y}
    <3>1. links'[Len(links) + 1][1] = s /\ links'[Len(links) + 1][2] = t
      BY <1>4
    <3> HIDE DEF s, t
    <3>2. {pops[links'[Len(links) + 1][1]], pops[links'[Len(links) + 1][2]]}
             = {e.v1, e.v2}
      BY <1>3, <3>1
    <3>3. 1 .. Len(links') = 1 .. Len(links) \union {Len(links) + 1}
      BY <1>4
    <3> QED
      BY <1>1, <1>4, <3>2, <3>3 DEF IsLink
  <2> QED
    BY <2>1, <2>2, <2>3
<1>6. DrawsAreKept'
  BY <1>5 DEF DrawsAreKept
<1>7. IInv' /\ IdsDiffer' /\ ~(pc' \in Finished)
  BY <1>1, AddEdgeStep DEF DInv, IdsDiffer, Finished
<1> QED
  BY <1>6, <1>7 DEF DInv

(* The other steps leave the draws, the set and the graph alone. *)
LEMMA DrawsOther ==
    ASSUME DInv, [Next]_vars,
           \/ SkipLoop \/ Configure \/ VerticesGenerated \/ EdgesDrawn
           \/ PopsInserted \/ Built \/ MutateEdges \/ MutateEdgesWithPredicate
           \/ AuditGraph \/ UNCHANGED vars
    PROVE  DInv'
<1>1. UNCHANGED <<vertices, edges, drawn, pops, links>>
  BY DEF SkipLoop, Configure, VerticesGenerated, EdgesDrawn, PopsInserted, Built,
     MutateEdges, MutateEdgesWithPredicate, AuditGraph, vars, building, graph
<1>2. pc' \in Finished => pc \in Finished \/ edges = {}
  BY DEF SkipLoop, Configure, VerticesGenerated, EdgesDrawn, PopsInserted, Built,
     MutateEdges, MutateEdgesWithPredicate, AuditGraph, vars, Finished
<1>3. DrawsAreKept' /\ IdsDiffer'
  BY <1>1 DEF DInv, DrawsAreKept, Drawn, InSet, IsLink, IdsDiffer
<1>4. IInv'
  BY GraphStep DEF DInv
<1> QED
  BY <1>1, <1>2, <1>3, <1>4 DEF DInv

LEMMA DrawsInvariance == Spec => []DInv
<1>1. Init => DInv
  <2> SUFFICES ASSUME Init PROVE DInv
    OBVIOUS
  <2>1. Len(vertices) = 0 /\ Len(links) = 0 /\ edges = {} /\ drawn = {}
    BY DEF Init
  <2>2. IdsDiffer /\ DrawsAreKept
    BY <2>1 DEF IdsDiffer, DrawsAreKept, Drawn, InSet, IsLink
  <2> QED
    BY <2>1, <2>2, InitIInv DEF DInv
<1>2. DInv /\ [Next]_vars => DInv'
  BY DrawsNewVertex, DrawsTestEdge, DrawsInsertPop, DrawsAddEdge, DrawsOther
     DEF Next
<1> QED
  BY <1>1, <1>2, PTL DEF Spec

(* However the draws come out and the set is ordered: the people linked are  *)
(* those drawn, no more and no fewer.                                        *)
THEOREM LinksAreTheDraws == Spec => []LinksFollowTheDraws
<1>1. DInv => LinksFollowTheDraws
  <2> SUFFICES ASSUME DInv, pc \in Finished, NEW a \in DOMAIN pops,
                      NEW b \in DOMAIN pops, a # b
               PROVE  Linked(a, b) <=> Drawn(pops[a], pops[b])
    BY DEF LinksFollowTheDraws, Drawn
  <2>1. /\ DOMAIN pops = 1 .. Len(pops) /\ DOMAIN links = 1 .. Len(links)
        /\ Len(pops) <= Len(vertices) /\ Len(pops) \in Nat /\ Len(vertices) \in Nat
        /\ pops[a] \in Unique /\ pops[b] \in Unique
    BY DEF DInv, IInv, PopsAreVertices
  <2>2. \A k, m \in DOMAIN pops : pops[k] = pops[m] => k = m
    BY <2>1 DEF DInv, IdsDiffer, IInv, PopsAreVertices
  <2>3. Drawn(pops[a], pops[b]) <=> IsLink(pops[a], pops[b])
    BY <2>1 DEF DInv, DrawsAreKept, InSet
  <2>4. ASSUME NEW k \in 1 .. Len(links)
        PROVE  {pops[links[k][1]], pops[links[k][2]]} = {pops[a], pops[b]}
                    <=> {links[k][1], links[k][2]} = {a, b}
    <3>1. links[k][1] \in DOMAIN pops /\ links[k][2] \in DOMAIN pops
      BY <2>1 DEF DInv, IInv, LinksJoinPops
    <3> QED
      BY <2>2, <3>1
  <2>5. Linked(a, b) <=> \E k \in 1 .. Len(links) : {links[k][1], links[k][2]} = {a, b}
    BY <2>1 DEF Linked, Range
  <2>6. IsLink(pops[a], pops[b])
           <=> \E k \in 1 .. Len(links) : {links[k][1], links[k][2]} = {a, b}
    BY <2>4 DEF IsLink
  <2> QED
    BY <2>3, <2>5, <2>6
<1> QED
  BY <1>1, DrawsInvariance, PTL

-----------------------------------------------------------------------------
(***************************************************************************)
(* The log.  Its inductive invariant:                                      *)
(*                                                                         *)
(* Unused: until the first export the graph may change, but no line has    *)
(*   been counted by it yet.                                               *)
(* LinesAreTheRest: what is to be written is the end of the last tick.     *)
(* NothingLeftOut: as long as a line may be written, those written and     *)
(*   those to be written are all the lines of all the ticks.               *)
(* Late: a line is late if it was begun before the interrupt and written   *)
(*   after; when it has been, no other is begun.                           *)
(***************************************************************************)
LoggingTyped ==
    /\ exports \in Nat
    /\ lines \in Seq(Nat \X Nat)
    /\ log \in Seq(Nat \X Nat)

Unused ==
    exports = 0 => lines = <<>> /\ log = <<>> /\ ~checked

LinesAreTheRest ==
    /\ Len(lines) <= LinesOfATick
    /\ \A n \in 1 .. Len(lines) :
            lines[n] = <<exports, LinesOfATick - Len(lines) + n>>
    /\ checked => lines # <<>>

NothingLeftOut ==
    ~interruptedFlag \/ checked =>
        Len(log) + Len(lines) = exports * LinesOfATick

Late ==
    /\ ~interruptedFlag => late = 0
    /\ checked => late = 0
    /\ late \in {0, 1}

LogInv ==
    /\ IInv
    /\ LoggingTyped
    /\ Unused
    /\ exports # 0 => LinesAreTheRest /\ NothingLeftOut
    /\ LogIsAPrefix
    /\ Late

-----------------------------------------------------------------------------
LEMMA LinesOfATickType ==
    ASSUME IInv PROVE LinesOfATick \in Nat /\ LinesOfATick > 0
<1>1. pops \in Seq(Unique) /\ links \in Seq(Nat \X Nat)
  BY DEF IInv
<1>2. pops \in Surjection(1 .. Len(pops), Range(pops))
  <2>1. DOMAIN pops = 1 .. Len(pops) /\ pops \in [1 .. Len(pops) -> Unique]
    BY <1>1
  <2>2. \A k \in 1 .. Len(pops) : pops[k] \in Range(pops)
    BY <2>1 DEF Range
  <2>3. \A u \in Range(pops) : \E k \in 1 .. Len(pops) : pops[k] = u
    BY <2>1 DEF Range
  <2>4. pops \in [1 .. Len(pops) -> Range(pops)]
    BY <2>1, <2>2
  <2> QED
    BY <2>3, <2>4 DEF Surjection
<1>3. IsFiniteSet(Range(pops))
  BY <1>1, <1>2, FS_Interval, FS_Surjection
<1>4. PrintedAlone \in SUBSET Range(pops)
  BY DEF PrintedAlone
<1>5. Cardinality(PrintedAlone) \in Nat
  BY <1>3, <1>4, FS_Subset, FS_CardinalityType
<1> QED
  BY <1>1, <1>5 DEF LinesOfATick, PrintedLines

LEMMA SameLinesOfATick ==
    ASSUME UNCHANGED vars PROVE LinesOfATick' = LinesOfATick
  BY DEF vars, graph, LinesOfATick, PrintedLines, PrintedAlone, PrintedEdges,
         Range

(* The tick and the number within it of the n-th line of a log. *)
Place(size, n) ==
    <<(n - 1) \div size + 1, ((n - 1) % size) + 1>>

(* The line that is written when some are left of the last tick. *)
LEMMA PlaceOfALine ==
    ASSUME NEW size \in Nat, size > 0, NEW tick \in Nat, tick > 0,
           NEW left \in 1 .. size, NEW n \in Nat,
           n = tick * size - left + 1
    PROVE  Place(size, n) = <<tick, size - left + 1>>
<1> DEFINE q == (n - 1) \div size
           r == (n - 1) % size
           t == tick - 1
<1>1. n - 1 \in Int /\ n - 1 = t * size + (size - left) /\ t \in Nat
  OBVIOUS
<1>2. q \in Int /\ r \in 0 .. size - 1 /\ n - 1 = size * q + r
  BY <1>1
<1> HIDE DEF q, r, t
<1>3. q = t
  <2>1. CASE q > t
    <3>1. q - t - 1 \in Nat /\ size * (q - t - 1) \in Nat
      BY <1>1, <1>2, <2>1
    <3>2. size * q = t * size + size + size * (q - t - 1)
      BY <1>1, <1>2
    <3> QED
      BY <1>1, <1>2, <3>1, <3>2
  <2>2. CASE q < t
    <3>1. t - q - 1 \in Nat /\ size * (t - q - 1) \in Nat
      BY <1>1, <1>2, <2>2
    <3>2. t * size = size * q + size + size * (t - q - 1)
      BY <1>1, <1>2
    <3> QED
      BY <1>1, <1>2, <3>1, <3>2
  <2> QED
    BY <1>1, <1>2, <2>1, <2>2
<1>4. r = size - left
  BY <1>1, <1>2, <1>3
<1> QED
  BY <1>1, <1>3, <1>4 DEF q, r, t, Place

-----------------------------------------------------------------------------
LEMMA LoggingInitInv == LoggingInit => LogInv
<1> SUFFICES ASSUME LoggingInit PROVE LogInv
  OBVIOUS
<1>1. IInv
  BY InitIInv DEF LoggingInit
<1>2. LoggingTyped /\ Unused /\ Late
  BY DEF LoggingInit, LoggingTyped, Unused, Late
<1>3. LogIsAPrefix
  <2>1. log = <<>> /\ DOMAIN log = {}
    BY DEF LoggingInit
  <2> QED
    BY <2>1 DEF LogIsAPrefix
<1> QED
  BY <1>1, <1>2, <1>3 DEF LogInv, LoggingInit

LEMMA PrepareStep == ASSUME LogInv, Prepare PROVE LogInv'
<1>1. IInv'
  BY GraphStep DEF LogInv, Prepare
<1>2. UNCHANGED loggingVars /\ exports = 0 /\ log = <<>>
  BY DEF LogInv, Unused, Prepare
<1>3. LoggingTyped' /\ Unused' /\ Late' /\ exports' = 0
  BY <1>2 DEF LogInv, LoggingTyped, Unused, Late, loggingVars
<1>4. LogIsAPrefix'
  <2>1. log' = <<>> /\ DOMAIN log' = {}
    BY <1>2 DEF loggingVars
  <2> QED
    BY <2>1 DEF LogIsAPrefix
<1> QED
  BY <1>1, <1>3, <1>4 DEF LogInv

(* A step of the logging leaves the graph and so the lines of a tick alone. *)
LEMMA GraphUntouched ==
    ASSUME LogInv, UNCHANGED vars
    PROVE  /\ IInv'
           /\ LinesOfATick' = LinesOfATick
           /\ LinesOfATick \in Nat /\ LinesOfATick > 0
<1>1. IInv'
  BY GraphStep DEF LogInv
<1> QED
  BY <1>1, SameLinesOfATick, LinesOfATickType DEF LogInv

LEMMA ExportDataStep == ASSUME LogInv, ExportData PROVE LogInv'
<1>1. /\ IInv'
      /\ LinesOfATick' = LinesOfATick
      /\ LinesOfATick \in Nat /\ LinesOfATick > 0
  BY GraphUntouched DEF ExportData
<1> DEFINE size == LinesOfATick
<1> HIDE DEF size
<1>2. /\ lines = <<>> /\ exports' = exports + 1 /\ exports \in Nat
      /\ lines' = [n \in 1 .. size |-> <<exports + 1, n>>]
      /\ UNCHANGED <<interruptedFlag, checked, log, late>>
      /\ size \in Nat /\ size > 0 /\ size = LinesOfATick
  BY <1>1 DEF ExportData, LogInv, LoggingTyped, size
<1>3. lines' \in Seq(Nat \X Nat) /\ Len(lines') = size
  BY <1>2
<1>4. ~checked
  BY <1>2 DEF LogInv, Unused, LinesAreTheRest
<1>5. LoggingTyped' /\ Unused' /\ Late'
  BY <1>2, <1>3 DEF LogInv, LoggingTyped, Unused, Late
<1>6. LinesAreTheRest'
  BY <1>1, <1>2, <1>3, <1>4 DEF LinesAreTheRest
<1>7. NothingLeftOut'
  <2> SUFFICES ASSUME ~interruptedFlag
               PROVE  Len(log) + size = (exports + 1) * size
    BY <1>1, <1>2, <1>3, <1>4 DEF NothingLeftOut
  <2>1. Len(log) = exports * size
    <3>1. CASE exports = 0
      BY <1>2, <3>1 DEF LogInv, Unused
    <3>2. CASE exports # 0
      BY <1>2, <3>2 DEF LogInv, NothingLeftOut, LoggingTyped
    <3> QED
      BY <3>1, <3>2
  <2> QED
    BY <1>2, <2>1
<1>8. LogIsAPrefix'
  BY <1>1, <1>2 DEF LogInv, LogIsAPrefix
<1> QED
  BY <1>1, <1>5, <1>6, <1>7, <1>8 DEF LogInv

LEMMA WriteLineStep == ASSUME LogInv, WriteLine PROVE LogInv'
<1>1. /\ IInv'
      /\ LinesOfATick' = LinesOfATick
      /\ LinesOfATick \in Nat /\ LinesOfATick > 0
  BY GraphUntouched DEF WriteLine
<1> DEFINE size == LinesOfATick
<1> HIDE DEF size
<1>2. /\ checked /\ ~checked'
      /\ log' = Append(log, Head(lines)) /\ lines' = Tail(lines)
      /\ UNCHANGED <<interruptedFlag, exports>>
      /\ late' = late + (IF interruptedFlag THEN 1 ELSE 0)
      /\ size \in Nat /\ size > 0 /\ size = LinesOfATick
  BY <1>1 DEF WriteLine, LogInv, LoggingTyped, size
<1>3. exports # 0 /\ exports \in Nat /\ late = 0
  BY <1>2 DEF LogInv, Unused, Late, LoggingTyped
<1>4. /\ lines \in Seq(Nat \X Nat) /\ lines # <<>> /\ log \in Seq(Nat \X Nat)
      /\ Len(lines) \in 1 .. size
      /\ \A n \in 1 .. Len(lines) : lines[n] = <<exports, size - Len(lines) + n>>
      /\ Len(log) + Len(lines) = exports * size
  <2>1. lines \in Seq(Nat \X Nat) /\ log \in Seq(Nat \X Nat)
    BY DEF LogInv, LoggingTyped
  <2>2. /\ lines # <<>> /\ Len(lines) \in 1 .. size
        /\ \A n \in 1 .. Len(lines) : lines[n] = <<exports, size - Len(lines) + n>>
    BY <1>2, <1>3, <2>1 DEF LogInv, LinesAreTheRest, LoggingTyped
  <2>3. Len(log) + Len(lines) = exports * size
    BY <1>2, <1>3 DEF LogInv, NothingLeftOut
  <2> QED
    BY <2>1, <2>2, <2>3
<1>5. /\ Head(lines) = lines[1] /\ Head(lines) \in Nat \X Nat
      /\ lines' \in Seq(Nat \X Nat) /\ Len(lines') = Len(lines) - 1
      /\ \A n \in 1 .. Len(lines') : lines'[n] = lines[n + 1]
  BY <1>2, <1>4
<1>6. /\ log' \in Seq(Nat \X Nat) /\ Len(log') = Len(log) + 1
      /\ \A n \in 1 .. Len(log) : log'[n] = log[n]
      /\ log'[Len(log) + 1] = lines[1]
  BY <1>2, <1>4, <1>5
<1>7. LoggingTyped' /\ Unused' /\ Late'
  <2>1. LoggingTyped' /\ Unused'
    BY <1>2, <1>3, <1>5, <1>6 DEF LogInv, LoggingTyped, Unused
  <2>2. late' = IF interruptedFlag THEN 1 ELSE 0
    BY <1>2, <1>3
  <2>3. Late'
    BY <1>2, <2>2 DEF Late
  <2> QED
    BY <2>1, <2>3
<1>8. LinesAreTheRest'
  <2>1. Len(lines') = Len(lines) - 1 /\ Len(lines) \in 1 .. size /\ size \in Nat
    BY <1>2, <1>4, <1>5
  <2>2. ASSUME NEW n \in 1 .. Len(lines')
        PROVE  lines'[n] = <<exports, size - Len(lines') + n>>
    <3>1. n + 1 \in 1 .. Len(lines) /\ lines'[n] = lines[n + 1]
      BY <1>5, <2>1
    <3>2. lines[n + 1] = <<exports, size - Len(lines) + (n + 1)>>
      BY <1>4, <3>1
    <3>3. size - Len(lines) + (n + 1) = size - Len(lines') + n
      BY <2>1
    <3> QED
      BY <3>1, <3>2, <3>3
  <2>3. exports' = exports /\ LinesOfATick' = size /\ ~checked'
    BY <1>1, <1>2
  <2> QED
    BY <2>1, <2>2, <2>3 DEF LinesAreTheRest
<1>9. NothingLeftOut'
  <2>1. exports * size \in Int
    BY <1>2, <1>3
  <2> QED
    BY <1>1, <1>2, <1>4, <1>5, <1>6, <2>1 DEF NothingLeftOut
<1>10. LogIsAPrefix'
  <2> DEFINE n == Len(log) + 1
  <2>1. n \in Nat /\ n = exports * size - Len(lines) + 1
    <3>1. exports * size \in Int /\ Len(log) \in Nat /\ Len(lines) \in Nat
      BY <1>2, <1>3, <1>4
    <3> QED
      BY <1>4, <3>1
  <2>2. lines[1] = <<exports, size - Len(lines) + 1>>
    BY <1>4
  <2> HIDE DEF n
  <2>3. lines[1] = <<(n - 1) \div size + 1, ((n - 1) % size) + 1>>
    <3>1. /\ size \in Nat /\ size > 0 /\ exports \in Nat /\ exports > 0
          /\ Len(lines) \in 1 .. size
      BY <1>2, <1>3, <1>4
    <3>2. Place(size, n) = <<exports, size - Len(lines) + 1>>
      BY <2>1, <3>1, PlaceOfALine
    <3> QED
      BY <2>2, <3>2 DEF Place
  <2>4. DOMAIN log' = 1 .. n /\ DOMAIN log = 1 .. Len(log) /\ n = Len(log) + 1
        /\ Len(log) \in Nat
    BY <1>4, <1>6 DEF n
  <2> SUFFICES ASSUME NEW m \in DOMAIN log'
               PROVE  log'[m] = <<(m - 1) \div size + 1, ((m - 1) % size) + 1>>
    BY <1>1, <1>2 DEF LogIsAPrefix
  <2>5. CASE m = n
    BY <1>6, <2>3, <2>4, <2>5
  <2>6. CASE m # n
    <3>1. m \in DOMAIN log /\ log'[m] = log[m]
      BY <1>6, <2>4, <2>6
    <3> QED
      BY <1>2, <3>1 DEF LogInv, LogIsAPrefix
  <2> QED
    BY <2>5, <2>6
<1> QED
  BY <1>1, <1>3, <1>7, <1>8, <1>9, <1>10 DEF LogInv

LEMMA FlagsStep ==
    ASSUME LogInv, CheckFlag \/ GiveUp \/ Interrupt \/ UNCHANGED allVars
    PROVE  LogInv'
<1>1. /\ IInv'
      /\ LinesOfATick' = LinesOfATick
      /\ LinesOfATick \in Nat /\ LinesOfATick > 0
  BY GraphUntouched DEF CheckFlag, GiveUp, Interrupt, allVars
<1>2. UNCHANGED <<exports, log, late>>
  BY DEF CheckFlag, GiveUp, Interrupt, allVars, loggingVars
<1>3. LogIsAPrefix'
  BY <1>1, <1>2 DEF LogInv, LogIsAPrefix
<1>4. CASE CheckFlag
  BY <1>1, <1>3, <1>4
  DEF CheckFlag, LogInv, LoggingTyped, Unused, LinesAreTheRest, NothingLeftOut,
      Late
<1>5. CASE GiveUp
  BY <1>1, <1>3, <1>5
  DEF GiveUp, LogInv, LoggingTyped, Unused, LinesAreTheRest, NothingLeftOut,
      Late
<1>6. CASE Interrupt
  BY <1>1, <1>3, <1>6
  DEF Interrupt, LogInv, LoggingTyped, Unused, LinesAreTheRest, NothingLeftOut,
      Late
<1>7. CASE UNCHANGED allVars
  BY <1>1, <1>3, <1>7
  DEF allVars, loggingVars, LogInv, LoggingTyped, Unused, LinesAreTheRest,
      NothingLeftOut, Late
<1> QED
  BY <1>4, <1>5, <1>6, <1>7

LEMMA LogStep == ASSUME LogInv, [LoggingNext]_allVars PROVE LogInv'
  BY PrepareStep, ExportDataStep, WriteLineStep, FlagsStep
  DEF LoggingNext, WriteString

LEMMA LogInvariance == LoggingSpec => []LogInv
  BY LoggingInitInv, LogStep, PTL DEF LoggingSpec

-----------------------------------------------------------------------------
(* Whatever graph is logged and whenever the interrupt comes, the log is the  *)
(* beginning of what would have been written without it.                     *)
THEOREM NoGapsInTheLog == LoggingSpec => []LogIsAPrefix
<1>1. LogInv => LogIsAPrefix
  BY DEF LogInv
<1> QED
  BY <1>1, LogInvariance, PTL

(* Of all the lines of all the ticks at most one is written after the        *)
(* interrupt: the one that had been begun.                                   *)
THEOREM InterruptedWithinALine == LoggingSpec => []AtMostOneLateLine
<1>1. LogInv => AtMostOneLateLine
  BY DEF LogInv, Late, AtMostOneLateLine
<1> QED
  BY <1>1, LogInvariance, PTL

-----------------------------------------------------------------------------
(***************************************************************************)
(* The visits, as loops over the links.                                    *)
(***************************************************************************)
People == 1 .. Len(pops)

Visit == [touched : [People -> Nat], numMutated : Nat]

Loop(v) ==
    /\ v \in [0 .. Len(links) -> Visit]
    /\ v[0] = Start

MutateLoop(v) ==
    /\ Loop(v)
    /\ \A k \in 1 .. Len(links) : v[k] = Mutate(v[k - 1], links[k])

MutateIf(predicate, visit, link) ==
    IF Asked(visit, link) \in predicate THEN Mutate(visit, link) ELSE visit

FilteredLoop(predicate, v) ==
    /\ Loop(v)
    /\ \A k \in 1 .. Len(links) : v[k] = MutateIf(predicate, v[k - 1], links[k])

LEMMA LinksAreOfPeople ==
    ASSUME IInv
    PROVE  /\ Len(links) \in Nat /\ Len(pops) \in Nat
           /\ DOMAIN links = 1 .. Len(links) /\ DOMAIN pops = People
           /\ \A k \in 1 .. Len(links) : links[k] \in People \X People
  BY DEF IInv, LinksJoinPops, People

LEMMA StartType == ASSUME IInv PROVE Start \in Visit
  <1>1. DOMAIN pops = People
    BY LinksAreOfPeople
  <1>2. QED
    BY <1>1 DEF Start, Visit

LEMMA MutateType ==
    ASSUME NEW visit \in Visit, NEW link \in People \X People
    PROVE  /\ Mutate(visit, link) \in Visit
           /\ Mutate(visit, link).numMutated = visit.numMutated + 1
           /\ link[1] # link[2] =>
                \A d \in People : Mutate(visit, link).touched[d] =
                    IF d \in {link[1], link[2]} THEN visit.touched[d] + 1
                    ELSE visit.touched[d]
  <1> DEFINE s == visit.touched[link[1]] + 1
             t == visit.touched[link[2]] + 1
             first == [visit.touched EXCEPT ![link[1]] = s]
             both == [first EXCEPT ![link[2]] = t]
  <1>1. /\ visit.touched \in [People -> Nat] /\ visit.numMutated \in Nat
        /\ link[1] \in People /\ link[2] \in People
    BY DEF Visit
  <1>2. s \in Nat /\ t \in Nat
    BY <1>1
  <1> HIDE DEF s, t
  <1>3. first \in [People -> Nat]
        /\ \A d \in People : first[d] = IF d = link[1] THEN s ELSE visit.touched[d]
    BY <1>1, <1>2
  <1> HIDE DEF first
  <1>4. both \in [People -> Nat]
        /\ \A d \in People : both[d] = IF d = link[2] THEN t ELSE first[d]
    BY <1>1, <1>2, <1>3
  <1> HIDE DEF both
  <1>5. Mutate(visit, link) =
            [touched |-> both, numMutated |-> visit.numMutated + 1]
    BY DEF Mutate, both, first, s, t
  <1>6. Mutate(visit, link) \in Visit
    BY <1>1, <1>4, <1>5 DEF Visit
  <1>7. ASSUME link[1] # link[2], NEW d \in People
        PROVE  both[d] = IF d \in {link[1], link[2]} THEN visit.touched[d] + 1
                         ELSE visit.touched[d]
    BY <1>3, <1>4, <1>7 DEF s, t
  <1>8. QED
    BY <1>5, <1>6, <1>7

LEMMA MutateIsALoop ==
    ASSUME IInv
    PROVE  \E v : MutateLoop(v) /\ MutateEdgesResult = v[Len(links)]
  <1> DEFINE n == Len(links)
             F == [vl \in Visit \X (People \X People) |-> Mutate(vl[1], vl[2])]
             Equation(g, s) == IF s = {} THEN Start
                               ELSE Mutate(g[s \ {Max(s)}], links[Max(s)])
             Answers(g) == g = [s \in SUBSET DOMAIN links |-> Equation(g, s)]
  <1>1. /\ n \in Nat /\ DOMAIN links = 1 .. n
        /\ \A k \in 1 .. n : links[k] \in People \X People
    BY LinksAreOfPeople
  <1>2. F \in [Visit \X (People \X People) -> Visit]
        /\ \A visit \in Visit, link \in People \X People :
                F[visit, link] = Mutate(visit, link)
    BY MutateType
  <1>3. Start \in Visit
    BY StartType
  <1>4. MutateEdgesResult = (CHOOSE g : Answers(g))[DOMAIN links]
    BY DEF MutateEdgesResult, FoldLeft, MapThenFoldSet
  <1> HIDE DEF n, F
  <1>5. ASSUME NEW g, Solution(Visit, F, Start, links, n, g)
        PROVE  MutateEdgesResult = ValueOf(g, n)
    <2>1. \A s \in SUBSET (1 .. n) : g[s] = Equation(g, s)
      <3> SUFFICES ASSUME NEW s \in SUBSET (1 .. n), s # {}
                   PROVE  F[g[Below(s)], links[Max(s)]]
                              = Mutate(g[s \ {Max(s)}], links[Max(s)])
        BY <1>5 DEF Turn, Solution
      <3>1. Below(s) \in SUBSET (1 .. n) /\ Max(s) \in 1 .. n
        BY <1>1, BelowIsSmaller
      <3>2. g[Below(s)] \in Visit /\ links[Max(s)] \in People \X People
        BY <1>1, <1>5, <3>1 DEF Solution
      <3>3. QED
        BY <1>2, <3>2 DEF Below
    <2>2. Answers(g)
      BY <1>1, <1>5, <2>1 DEF Solution
    <2> DEFINE h == CHOOSE g_1 : Answers(g_1)
    <2>3. Answers(h)
      <3> HIDE DEF Answers
      <3>1. QED
        BY <2>2
    <2>4. \A s \in SUBSET (1 .. n) : h[s] = Equation(h, s)
      <3> HIDE DEF h, Equation
      <3>1. QED
        BY <1>1, <2>3
    <2>5. \A s \in SUBSET (1 .. n) :
              (s = {} \/ h[Below(s)] = g[Below(s)]) => h[s] = g[s]
      <3> HIDE DEF h, Answers
      <3>1. QED
        BY <2>1, <2>4 DEF Below
    <2> HIDE DEF h
    <2>6. \A s \in SUBSET (1 .. n) : h[s] = g[s]
      <3>1. n \in Nat
        BY <1>1
      <3>2. QED
        BY ONLY <2>5, <3>1, FoldIsUnique
    <2>7. MutateEdgesResult = h[1 .. n]
      BY <1>1, <1>4 DEF h
    <2>8. QED
      BY <2>6, <2>7 DEF ValueOf
  <1>6. IsFold(Visit, People \X People, F, Start, links, n)
    BY <1>1, <1>2, <1>3 DEF IsFold
  <1>7. PICK v : /\ LoopValues(Visit, F, Start, links, n, v)
                 /\ MutateEdgesResult = v[n]
    <2> HIDE DEF Answers, Equation
    <2>1. \A g : Solution(Visit, F, Start, links, n, g) =>
                    MutateEdgesResult = ValueOf(g, n)
      BY <1>5
    <2>2. QED
      BY ONLY <1>6, <2>1, LoopOfAFold
  <1>8. ASSUME NEW k \in 1 .. n PROVE v[k] = Mutate(v[k - 1], links[k])
    <2>1. k - 1 \in 0 .. n
      BY <1>1
    <2>2. v[k - 1] \in Visit /\ links[k] \in People \X People
      BY <1>1, <1>7, <2>1 DEF LoopValues
    <2>3. QED
      BY <1>2, <1>7, <2>2 DEF LoopValues
  <1>9. QED
    BY <1>7, <1>8 DEF MutateLoop, Loop, LoopValues, n

\* The same for a visit with a predicate.
LEMMA FilteredIsALoop ==
    ASSUME IInv, NEW predicate
    PROVE  \E v : FilteredLoop(predicate, v)
                    /\ FilteredResult(predicate) = v[Len(links)]
  <1> DEFINE n == Len(links)
             F == [vl \in Visit \X (People \X People) |-> MutateIf(predicate, vl[1], vl[2])]
             Equation(g, s) == IF s = {} THEN Start
                               ELSE MutateIf(predicate, g[s \ {Max(s)}], links[Max(s)])
             Answers(g) == g = [s \in SUBSET DOMAIN links |-> Equation(g, s)]
  <1>1. /\ n \in Nat /\ DOMAIN links = 1 .. n
        /\ \A k \in 1 .. n : links[k] \in People \X People
    BY LinksAreOfPeople
  <1>2. F \in [Visit \X (People \X People) -> Visit]
        /\ \A visit \in Visit, link \in People \X People :
                F[visit, link] = MutateIf(predicate, visit, link)
    BY MutateType DEF MutateIf
  <1>3. Start \in Visit
    BY StartType
  <1>4. FilteredResult(predicate) = (CHOOSE g : Answers(g))[DOMAIN links]
    BY DEF FilteredResult, FoldLeft, MapThenFoldSet, MutateIf
  <1> HIDE DEF n, F
  <1>5. ASSUME NEW g, Solution(Visit, F, Start, links, n, g)
        PROVE  FilteredResult(predicate) = ValueOf(g, n)
    <2>1. \A s \in SUBSET (1 .. n) : g[s] = Equation(g, s)
      <3> SUFFICES ASSUME NEW s \in SUBSET (1 .. n), s # {}
                   PROVE  F[g[Below(s)], links[Max(s)]]
                              = MutateIf(predicate, g[s \ {Max(s)}], links[Max(s)])
        BY <1>5 DEF Turn, Solution
      <3>1. Below(s) \in SUBSET (1 .. n) /\ Max(s) \in 1 .. n
        BY <1>1, BelowIsSmaller
      <3>2. g[Below(s)] \in Visit /\ links[Max(s)] \in People \X People
        BY <1>1, <1>5, <3>1 DEF Solution
      <3>3. QED
        BY <1>2, <3>2 DEF Below
    <2>2. Answers(g)
      BY <1>1, <1>5, <2>1 DEF Solution
    <2> DEFINE h == CHOOSE g_1 : Answers(g_1)
    <2>3. Answers(h)
      <3> HIDE DEF Answers
      <3>1. QED
        BY <2>2
    <2>4. \A s \in SUBSET (1 .. n) : h[s] = Equation(h, s)
      <3> HIDE DEF h, Equation
      <3>1. QED
        BY <1>1, <2>3
    <2>5. \A s \in SUBSET (1 .. n) :
              (s = {} \/ h[Below(s)] = g[Below(s)]) => h[s] = g[s]
      <3> HIDE DEF h, Answers
      <3>1. QED
        BY <2>1, <2>4 DEF Below
    <2> HIDE DEF h
    <2>6. \A s \in SUBSET (1 .. n) : h[s] = g[s]
      <3>1. n \in Nat
        BY <1>1
      <3>2. QED
        BY ONLY <2>5, <3>1, FoldIsUnique
    <2>7. FilteredResult(predicate) = h[1 .. n]
      BY <1>1, <1>4 DEF h
    <2>8. QED
      BY <2>6, <2>7 DEF ValueOf
  <1>6. IsFold(Visit, People \X People, F, Start, links, n)
    BY <1>1, <1>2, <1>3 DEF IsFold
  <1>7. PICK v : /\ LoopValues(Visit, F, Start, links, n, v)
                 /\ FilteredResult(predicate) = v[n]
    <2> HIDE DEF Answers, Equation
    <2>1. \A g : Solution(Visit, F, Start, links, n, g) =>
                    FilteredResult(predicate) = ValueOf(g, n)
      BY <1>5
    <2>2. QED
      BY ONLY <1>6, <2>1, LoopOfAFold
  <1>8. ASSUME NEW k \in 1 .. n PROVE v[k] = MutateIf(predicate, v[k - 1], links[k])
    <2>1. k - 1 \in 0 .. n
      BY <1>1
    <2>2. v[k - 1] \in Visit /\ links[k] \in People \X People
      BY <1>1, <1>7, <2>1 DEF LoopValues
    <2>3. QED
      BY <1>2, <1>7, <2>2 DEF LoopValues
  <1>9. QED
    BY <1>7, <1>8 DEF FilteredLoop, Loop, LoopValues, n

\* Whom one has been linked to by the first k links.
Met(d, k) ==
    {n \in People : /\ n # d
                    /\ \E m \in 1 .. k : {links[m][1], links[m][2]} = {d, n}}

LEMMA MetIsFinite ==
    ASSUME IInv, NEW d, NEW k
    PROVE  IsFiniteSet(Met(d, k)) /\ Cardinality(Met(d, k)) \in Nat
  <1>1. IsFiniteSet(People)
    BY LinksAreOfPeople, FS_Interval DEF People
  <1>2. Met(d, k) \in SUBSET People
    BY DEF Met
  <1>3. QED
    BY <1>1, <1>2, FS_Subset, FS_CardinalityType

LEMMA NobodyIsMetYet ==
    ASSUME NEW d PROVE Met(d, 0) = {}
  BY DEF Met

\* The next link joins two people who have not met.
LEMMA MetByTheNextLink ==
    ASSUME IInv, NEW k \in 0 .. Len(links) - 1, NEW d \in People
    PROVE  LET a == links[k + 1][1]
               b == links[k + 1][2]
           IN  /\ a # b /\ a \in People /\ b \in People
               /\ d = a => b \notin Met(d, k) /\ Met(d, k + 1) = Met(d, k) \union {b}
               /\ d = b => a \notin Met(d, k) /\ Met(d, k + 1) = Met(d, k) \union {a}
               /\ d \notin {a, b} => Met(d, k + 1) = Met(d, k)
  <1> DEFINE a == links[k + 1][1]
             b == links[k + 1][2]
  <1>1. /\ Len(links) \in Nat /\ DOMAIN links = 1 .. Len(links)
        /\ k + 1 \in DOMAIN links
        /\ links[k + 1] \in People \X People
    BY LinksAreOfPeople
  <1>2. a # b /\ a \in People /\ b \in People
    <2>1. a # b
      BY <1>1 DEF IInv, SimpleGraph
    <2>2. QED
      BY <1>1, <2>1
  <1>3. \A m \in 1 .. k : {links[m][1], links[m][2]} # {a, b}
    <2> SUFFICES ASSUME NEW m \in 1 .. k, {links[m][1], links[m][2]} = {a, b}
                 PROVE  FALSE
      OBVIOUS
    <2>1. m \in DOMAIN links /\ k + 1 \in DOMAIN links /\ m # k + 1
      BY <1>1
    <2>2. QED
      BY <2>1 DEF IInv, SimpleGraph
  <1>4. \A m : m \in 1 .. k + 1 <=> m \in 1 .. k \/ m = k + 1
    BY <1>1
  <1>5. \A n : n \in Met(d, k + 1) <=>
            n \in Met(d, k) \/ (n \in People /\ n # d /\ {a, b} = {d, n})
    BY <1>4 DEF Met
  <1> HIDE DEF a, b
  <1>6. d = a => b \notin Met(d, k) /\ Met(d, k + 1) = Met(d, k) \union {b}
    <2> SUFFICES ASSUME d = a
                 PROVE  b \notin Met(d, k) /\ Met(d, k + 1) = Met(d, k) \union {b}
      OBVIOUS
    <2>1. b \notin Met(d, k)
      BY <1>3 DEF Met
    <2>2. \A n : {a, b} = {d, n} <=> n = b
      BY <1>2
    <2>3. QED
      BY <1>2, <1>5, <2>1, <2>2
  <1>7. d = b => a \notin Met(d, k) /\ Met(d, k + 1) = Met(d, k) \union {a}
    <2> SUFFICES ASSUME d = b
                 PROVE  a \notin Met(d, k) /\ Met(d, k + 1) = Met(d, k) \union {a}
      OBVIOUS
    <2>1. a \notin Met(d, k)
      BY <1>3 DEF Met
    <2>2. \A n : {a, b} = {d, n} <=> n = a
      BY <1>2
    <2>3. QED
      BY <1>2, <1>5, <2>1, <2>2
  <1>8. d \notin {a, b} => Met(d, k + 1) = Met(d, k)
    BY <1>2, <1>5
  <1>9. QED
    BY <1>2, <1>6, <1>7, <1>8 DEF a, b

(* No replacement is lost: after any number of links everybody has been   *)
(* replaced once for each person met.                                      *)
LEMMA ReplacedOncePerPersonMet ==
    ASSUME IInv, NEW v, MutateLoop(v)
    PROVE  \A k \in 0 .. Len(links) : \A d \in People :
                v[k].touched[d] = Cardinality(Met(d, k))
  <1> DEFINE n == Len(links)
             Replaced(k) == \A d \in People : v[k].touched[d] = Cardinality(Met(d, k))
             Good == {k \in 0 .. n : Replaced(k)}
  <1>1. n \in Nat /\ v \in [0 .. n -> Visit]
    BY LinksAreOfPeople DEF MutateLoop, Loop
  <1>2. 0 \in Good
    <2>1. \A d \in People : v[0].touched[d] = 0
      BY LinksAreOfPeople DEF MutateLoop, Loop, Start
    <2>2. \A d \in People : Cardinality(Met(d, 0)) = 0
      BY NobodyIsMetYet, FS_EmptySet
    <2>3. QED
      BY <1>1, <2>1, <2>2
  <1>3. ASSUME NEW k \in 0 .. n - 1, k \in Good PROVE k + 1 \in Good
    <2> DEFINE a == links[k + 1][1]
               b == links[k + 1][2]
    <2>1. k \in 0 .. n /\ k + 1 \in 1 .. n /\ v[k] \in Visit /\ (k + 1) - 1 = k
      BY <1>1
    <2>2. links[k + 1] \in People \X People /\ v[k + 1] = Mutate(v[k], links[k + 1])
      BY <2>1, LinksAreOfPeople DEF MutateLoop
    <2>3. ASSUME NEW d \in People
          PROVE  v[k + 1].touched[d] = Cardinality(Met(d, k + 1))
      <3>1. /\ a # b
            /\ d = a => b \notin Met(d, k) /\ Met(d, k + 1) = Met(d, k) \union {b}
            /\ d = b => a \notin Met(d, k) /\ Met(d, k + 1) = Met(d, k) \union {a}
            /\ d \notin {a, b} => Met(d, k + 1) = Met(d, k)
        BY MetByTheNextLink
      <3>2. v[k + 1].touched[d] =
                IF d \in {a, b} THEN v[k].touched[d] + 1 ELSE v[k].touched[d]
        BY <2>1, <2>2, <3>1, MutateType
      <3>3. v[k].touched[d] = Cardinality(Met(d, k))
        BY <1>3
      <3>4. IsFiniteSet(Met(d, k)) /\ Cardinality(Met(d, k)) \in Nat
        BY MetIsFinite
      <3> HIDE DEF a, b
      <3>5. CASE d = a
        <4>1. Cardinality(Met(d, k) \union {b}) = Cardinality(Met(d, k)) + 1
          BY <3>1, <3>4, <3>5, FS_AddElement
        <4>2. QED
          BY <3>1, <3>2, <3>3, <3>5, <4>1
      <3>6. CASE d = b
        <4>1. Cardinality(Met(d, k) \union {a}) = Cardinality(Met(d, k)) + 1
          BY <3>1, <3>4, <3>6, FS_AddElement
        <4>2. QED
          BY <3>1, <3>2, <3>3, <3>6, <4>1
      <3>7. CASE d \notin {a, b}
        BY <3>1, <3>2, <3>3, <3>7
      <3>8. QED
        BY <3>5, <3>6, <3>7
    <2>4. k + 1 \in 0 .. n
      BY <2>1
    <2>5. QED
      BY <2>3, <2>4
  <1>4. 0 .. n \subseteq Good
    <2> HIDE DEF Good, n
    <2>1. QED
      BY <1>1, <1>2, <1>3, UpTo
  <1>5. QED
    BY <1>4

(* With the predicate nobody is touched twice, and of every link that has  *)
(* been passed one end is touched.                                         *)
LEMMA OneEndIsTouched ==
    ASSUME IInv, NEW v, FilteredLoop(Untouched, v)
    PROVE  \A k \in 0 .. Len(links) :
              /\ \A d \in People : v[k].touched[d] \in {0, 1}
              /\ \A m \in 1 .. k : 1 \in {v[k].touched[links[m][1]],
                                          v[k].touched[links[m][2]]}
  <1> DEFINE n == Len(links)
             Apart(k) ==
                /\ \A d \in People : v[k].touched[d] \in {0, 1}
                /\ \A m \in 1 .. k : 1 \in {v[k].touched[links[m][1]],
                                            v[k].touched[links[m][2]]}
             Good == {k \in 0 .. n : Apart(k)}
  <1>1. n \in Nat /\ v \in [0 .. n -> Visit]
    BY LinksAreOfPeople DEF FilteredLoop, Loop
  <1>2. 0 \in Good
    <2>1. \A d \in People : v[0].touched[d] = 0
      BY LinksAreOfPeople DEF FilteredLoop, Loop, Start
    <2>2. QED
      BY <1>1, <2>1
  <1>3. ASSUME NEW k \in 0 .. n - 1, k \in Good PROVE k + 1 \in Good
    <2> DEFINE a == links[k + 1][1]
               b == links[k + 1][2]
    <2>1. /\ k \in 0 .. n /\ k + 1 \in 1 .. n /\ v[k] \in Visit /\ (k + 1) - 1 = k
          /\ k + 1 \in 0 .. n
          /\ \A m \in 1 .. k + 1 : m \in 1 .. k \/ m = k + 1
          /\ \A m \in 1 .. k : m \in 1 .. n
      BY <1>1
    <2>2. /\ links[k + 1] \in People \X People
          /\ v[k + 1] = MutateIf(Untouched, v[k], links[k + 1])
      BY <2>1, LinksAreOfPeople DEF FilteredLoop
    <2>3. a # b /\ a \in People /\ b \in People
      BY <2>2, MetByTheNextLink
    <2>4. \A m \in 1 .. n : links[m][1] \in People /\ links[m][2] \in People
      BY LinksAreOfPeople
    <2>5. /\ \A d \in People : v[k].touched[d] \in {0, 1}
          /\ \A m \in 1 .. k : 1 \in {v[k].touched[links[m][1]],
                                      v[k].touched[links[m][2]]}
      BY <1>3
    <2>6. CASE v[k].touched[a] = 0 /\ v[k].touched[b] = 0
      <3>1. v[k + 1] = Mutate(v[k], links[k + 1])
        BY <2>2, <2>6 DEF MutateIf, Asked, Untouched
      <3>2. \A d \in People : v[k + 1].touched[d] =
                IF d \in {a, b} THEN v[k].touched[d] + 1 ELSE v[k].touched[d]
        BY <2>1, <2>2, <2>3, <3>1, MutateType
      <3> HIDE DEF a, b
      <3>3. \A d \in People : v[k + 1].touched[d] =
                IF d \in {a, b} THEN 1 ELSE v[k].touched[d]
        BY <2>3, <2>6, <3>2
      <3>4. \A d \in People : /\ v[k + 1].touched[d] \in {0, 1}
                              /\ v[k].touched[d] = 1 => v[k + 1].touched[d] = 1
        BY <2>5, <3>3
      <3>5. \A m \in 1 .. k : 1 \in {v[k + 1].touched[links[m][1]],
                                     v[k + 1].touched[links[m][2]]}
        BY <2>1, <2>4, <2>5, <3>4
      <3>6. v[k + 1].touched[links[k + 1][1]] = 1
        BY <2>3, <3>3 DEF a
      <3>7. Apart(k + 1)
        BY <2>1, <3>4, <3>5, <3>6
      <3>8. QED
        BY <2>1, <3>7
    <2>7. CASE ~(v[k].touched[a] = 0 /\ v[k].touched[b] = 0)
      <3>1. v[k + 1] = v[k]
        BY <2>2, <2>7 DEF MutateIf, Asked, Untouched
      <3>2. 1 \in {v[k].touched[a], v[k].touched[b]}
        BY <2>3, <2>5, <2>7
      <3>3. Apart(k + 1)
        BY <2>1, <2>5, <3>1, <3>2
      <3>4. QED
        BY <2>1, <3>3
    <2>8. QED
      BY <2>6, <2>7
  <1>4. 0 .. n \subseteq Good
    <2> HIDE DEF Good, n
    <2>1. QED
      BY <1>1, <1>2, <1>3, UpTo
  <1>5. QED
    BY <1>4

(* A visit counts the links that it has mutated. *)
LEMMA VisitsAreCounted ==
    ASSUME IInv
    PROVE  /\ MutateEdgesResult.numMutated = Len(links)
           /\ FilteredResult(Anyone).numMutated = Len(links)
  <1>1. ASSUME NEW v, Loop(v),
               \A k \in 1 .. Len(links) : v[k] = Mutate(v[k - 1], links[k])
        PROVE  v[Len(links)].numMutated = Len(links)
    <2> DEFINE n == Len(links)
               Good == {k \in 0 .. n : v[k].numMutated = k}
    <2>1. n \in Nat /\ v \in [0 .. n -> Visit]
      BY <1>1, LinksAreOfPeople DEF Loop
    <2>2. 0 \in Good
      BY <1>1, <2>1 DEF Loop, Start
    <2>3. ASSUME NEW k \in 0 .. n - 1, k \in Good PROVE k + 1 \in Good
      <3>1. k \in 0 .. n /\ k + 1 \in 1 .. n /\ v[k] \in Visit /\ (k + 1) - 1 = k
        BY <2>1
      <3>2. links[k + 1] \in People \X People /\ v[k + 1] = Mutate(v[k], links[k + 1])
        BY <1>1, <3>1, LinksAreOfPeople
      <3>3. v[k + 1].numMutated = k + 1
        BY <2>3, <3>1, <3>2, MutateType
      <3>4. QED
        BY <3>1, <3>3
    <2>4. 0 .. n \subseteq Good
      <3> HIDE DEF Good, n
      <3>1. QED
        BY <2>1, <2>2, <2>3, UpTo
    <2>5. QED
      BY <2>1, <2>4
  <1>2. PICK v : MutateLoop(v) /\ MutateEdgesResult = v[Len(links)]
    BY MutateIsALoop
  <1>3. PICK w : /\ FilteredLoop(Anyone, w)
                 /\ FilteredResult(Anyone) = w[Len(links)]
    BY FilteredIsALoop
  <1>4. ASSUME NEW k \in 1 .. Len(links)
        PROVE  w[k] = Mutate(w[k - 1], links[k])
    <2>1. k - 1 \in 0 .. Len(links) /\ links[k] \in People \X People
      BY LinksAreOfPeople
    <2>2. w[k - 1] \in Visit
      BY <1>3, <2>1 DEF FilteredLoop, Loop
    <2>3. Asked(w[k - 1], links[k]) \in Anyone
      BY <2>1, <2>2 DEF Asked, Anyone, Visit
    <2>4. QED
      BY <1>3, <2>3 DEF FilteredLoop, MutateIf
  <1>5. QED
    BY <1>1, <1>2, <1>3, <1>4 DEF MutateLoop, FilteredLoop

LEMMA AcquaintancesAreMet ==
    ASSUME IInv, NEW d \in People
    PROVE  Acquaintances(d) = Met(d, Len(links))
  <1>1. DOMAIN pops = People /\ DOMAIN links = 1 .. Len(links)
    BY LinksAreOfPeople
  <1>2. \A n : Linked(d, n) <=>
            \E m \in 1 .. Len(links) : {links[m][1], links[m][2]} = {d, n}
    BY <1>1 DEF Linked, Range
  <1>3. QED
    BY <1>1, <1>2 DEF Acquaintances, Met

-----------------------------------------------------------------------------
(* The types. *)

LEMMA TouchedType ==
    ASSUME IInv, MutateEdges \/ MutateEdgesWithPredicate
    PROVE  touched' \in Seq(Nat)
  <1>1. \E v : Loop(v) /\ touched' = v[Len(links)].touched
    <2>1. CASE MutateEdges
      BY <2>1, MutateIsALoop DEF MutateEdges, MutateLoop
    <2>2. CASE MutateEdgesWithPredicate
      BY <2>2, FilteredIsALoop DEF MutateEdgesWithPredicate, FilteredLoop
    <2>3. QED
      BY <2>1, <2>2
  <1>2. touched' \in [People -> Nat]
    BY <1>1, LinksAreOfPeople DEF Loop, Visit
  <1>3. QED
    BY <1>2, LinksAreOfPeople DEF People

LEMMA TypeInit == Init => TypeOK
  <1> SUFFICES ASSUME Init PROVE TypeOK
    OBVIOUS
  <1>1. /\ vertices = <<>> /\ pops = <<>> /\ links = <<>> /\ touched = <<>>
        /\ popDescriptors = <<>> /\ edges = {} /\ drawn = {} /\ i = 1 /\ j = 1
        /\ pc = "configuration" /\ Len(vertices) = 0
    BY DEF Init
  <1>2. popDescriptors \in [Range(pops) -> 1 .. Len(pops)]
    BY <1>1 DEF Range
  <1>3. links \in Seq((1 .. Len(pops)) \X (1 .. Len(pops)))
    BY <1>1
  <1>4. QED
    BY <1>1, <1>2, <1>3 DEF Init, TypeOK

LEMMA TypeStep ==
    ASSUME IInv, IInv', TypeOK, [Next]_vars PROVE TypeOK'
  <1>1. /\ vertices' \in Seq(Unique) /\ pops' \in Seq(Unique)
        /\ edges' \subseteq UndirectedEdge
    BY DEF IInv, EdgesJoinVertices
  <1>2. links' \in Seq((1 .. Len(pops')) \X (1 .. Len(pops')))
    <2>1. links' \in Seq(Nat \X Nat) /\ \A k \in 1 .. Len(links') :
                links'[k] \in (1 .. Len(pops')) \X (1 .. Len(pops'))
      BY DEF IInv, LinksJoinPops
    <2>2. QED
      BY <2>1
  <1>3. config' = config
    BY DEF Next, Configure, NewVertex, VerticesGenerated, SkipLoop, TestEdge,
        EdgesDrawn, InsertPop, PopsInserted, AddEdge, Built, MutateEdges,
        MutateEdgesWithPredicate, AuditGraph, vars
  <1>4. pc' \in {"configuration", "vertices", "edges", "pops", "links"}
                    \union Finished \union Failed
    BY DEF TypeOK, Finished, Failed, Next, Configure, NewVertex,
        VerticesGenerated, SkipLoop, TestEdge, EdgesDrawn, InsertPop,
        PopsInserted, AddEdge, Built, MutateEdges, MutateEdgesWithPredicate,
        AuditGraph, vars
  <1>5. i' \in 1 .. Len(vertices') + 1 /\ j' \in 1 .. Len(vertices') + 1
    <2>1. /\ Len(vertices) \in Nat /\ i \in 1 .. Len(vertices) + 1
          /\ j \in 1 .. Len(vertices) + 1
      BY DEF IInv, TypeOK
    <2>2. CASE NewVertex
      <3>1. Len(vertices') = Len(vertices) + 1 /\ i' = i /\ j' = j
        BY <2>2, RangeOfAppend DEF NewVertex, IInv
      <3>2. QED
        BY <2>1, <3>1
    <2>3. CASE NextPair /\ i <= Len(vertices) /\ vertices' = vertices
      BY <2>1, <2>3 DEF NextPair
    <2>4. CASE UNCHANGED <<vertices, i, j>>
      BY <2>1, <2>4
    <2>5. QED
      BY <2>2, <2>3, <2>4 DEF Next, Configure, VerticesGenerated, SkipLoop,
          TestEdge, Distinct, EdgesDrawn, InsertPop, PopsInserted, AddEdge, Built,
          MutateEdges, MutateEdgesWithPredicate, AuditGraph, vars, building
  <1>6. drawn' \subseteq Unique \X Unique
    <2>1. CASE UNCHANGED drawn
      BY <2>1 DEF TypeOK
    <2>2. ASSUME NEW hit \in BOOLEAN, TestEdge(hit)
          PROVE  drawn' \subseteq Unique \X Unique
      <3>1. i \in 1 .. Len(vertices) /\ j \in 1 .. Len(vertices)
        BY <2>2 DEF TestEdge, Distinct, IInv, LoopIndices
      <3>2. vertices[i] \in Unique /\ vertices[j] \in Unique
        BY <3>1 DEF IInv
      <3>3. drawn' \subseteq drawn \union {<<vertices[i], vertices[j]>>}
        BY <2>2 DEF TestEdge
      <3>4. QED
        BY <3>2, <3>3 DEF TypeOK
    <2>3. QED
      BY <2>1, <2>2 DEF Next, Configure, NewVertex, VerticesGenerated, SkipLoop,
          EdgesDrawn, InsertPop, PopsInserted, AddEdge, Built, MutateEdges,
          MutateEdgesWithPredicate, AuditGraph, vars, building
  <1>7. popDescriptors' \in [Range(pops') -> 1 .. Len(pops')]
    <2>1. /\ DOMAIN popDescriptors' = Range(pops')
          /\ \A u \in DOMAIN popDescriptors' : popDescriptors'[u] \in 1 .. Len(pops')
      BY DEF IInv, DescriptorsFindTheirPop
    <2>2. popDescriptors' = [u \in DOMAIN popDescriptors' |-> popDescriptors'[u]]
      <3>1. CASE InsertPop
        BY <3>1 DEF InsertPop
      <3>2. CASE popDescriptors' = popDescriptors
        BY <3>2 DEF TypeOK
      <3>3. QED
        BY <3>1, <3>2 DEF Next, Configure, NewVertex, VerticesGenerated, SkipLoop,
            TestEdge, EdgesDrawn, PopsInserted, AddEdge, Built, MutateEdges,
            MutateEdgesWithPredicate, AuditGraph, vars, graph
    <2>3. QED
      BY <2>1, <2>2
  <1>8. touched' \in Seq(Nat)
    <2>1. CASE MutateEdges \/ MutateEdgesWithPredicate
      BY <2>1, TouchedType
    <2>2. CASE Built
      <3>1. touched' = [d \in 1 .. Len(pops) |-> 0] /\ Len(pops) \in Nat
        BY <2>2, LinksAreOfPeople DEF Built, People
      <3>2. QED
        BY <3>1
    <2>3. CASE UNCHANGED touched
      BY <2>3 DEF TypeOK
    <2>4. QED
      BY <2>1, <2>2, <2>3 DEF Next, Configure, NewVertex, VerticesGenerated,
          SkipLoop, TestEdge, EdgesDrawn, InsertPop, PopsInserted, AddEdge,
          AuditGraph, vars, graph
  <1>9. QED
    BY <1>1, <1>2, <1>3, <1>4, <1>5, <1>6, <1>7, <1>8 DEF TypeOK

-----------------------------------------------------------------------------
(* Construction and audit never throw. *)

\* The draws are made only with a chance that has been checked.
ChanceChecked ==
    /\ pc \notin {"configuration", "OptionNotInRange"} => Accepted
    /\ pc \notin {"SampleFromException", "AuditGraphException"}

VisitInv == IInv /\ TypeOK /\ ChanceChecked /\ VisitsSeeTheirWrites

LEMMA MutateEdgesStep ==
    ASSUME IInv, MutateEdges PROVE VisitsSeeTheirWrites'
  <1>1. PICK v : MutateLoop(v) /\ MutateEdgesResult = v[Len(links)]
    BY MutateIsALoop
  <1>2. touched' = v[Len(links)].touched /\ pc' = "mutated"
        /\ pops' = pops /\ links' = links
    BY <1>1 DEF MutateEdges, graph
  <1>3. ASSUME NEW d \in DOMAIN pops
        PROVE  touched'[d] = Cardinality(Acquaintances(d))
    <2>1. d \in People /\ Len(links) \in 0 .. Len(links)
      BY <1>3, LinksAreOfPeople
    <2>2. v[Len(links)].touched[d] = Cardinality(Met(d, Len(links)))
      BY <1>1, <2>1, ReplacedOncePerPersonMet
    <2>3. QED
      BY <1>2, <2>1, <2>2, AcquaintancesAreMet
  <1>4. QED
    BY <1>2, <1>3 DEF VisitsSeeTheirWrites, Acquaintances, Linked

LEMMA MutateEdgesWithPredicateStep ==
    ASSUME IInv, MutateEdgesWithPredicate PROVE VisitsSeeTheirWrites'
  <1>1. PICK v : /\ FilteredLoop(Untouched, v)
                 /\ FilteredResult(Untouched) = v[Len(links)]
    BY FilteredIsALoop
  <1>2. touched' = v[Len(links)].touched /\ pc' = "filtered"
        /\ pops' = pops /\ links' = links
    BY <1>1 DEF MutateEdgesWithPredicate, graph
  <1>3. /\ \A d \in People : touched'[d] \in {0, 1}
        /\ \A m \in 1 .. Len(links) :
                1 \in {touched'[links[m][1]], touched'[links[m][2]]}
    <2>1. Len(links) \in 0 .. Len(links)
      BY LinksAreOfPeople
    <2>2. QED
      BY <1>1, <1>2, <2>1, OneEndIsTouched
  <1>4. DOMAIN pops = People
    BY LinksAreOfPeople
  <1>5. ASSUME NEW d \in People, touched'[d] = 0, NEW n \in Acquaintances(d)
        PROVE  touched'[n] = 1
    <2>1. n \in Met(d, Len(links))
      BY <1>5, AcquaintancesAreMet
    <2>2. PICK m \in 1 .. Len(links) : {links[m][1], links[m][2]} = {d, n}
      BY <2>1 DEF Met
    <2>3. 1 \in {touched'[d], touched'[n]}
      BY <1>3, <2>2
    <2>4. QED
      BY <1>5, <2>3
  <1>6. QED
    BY <1>2, <1>3, <1>4, <1>5 DEF VisitsSeeTheirWrites, Acquaintances, Linked

LEMMA ChanceCheckedStep ==
    ASSUME IInv, TypeOK, ChanceChecked, [Next]_vars PROVE ChanceChecked'
  <1>1. CASE AuditGraph
    <2>1. pc' = "audited" /\ config' = config /\ pc = "built"
      BY <1>1, VisitsAreCounted DEF AuditGraph
    <2>2. QED
      BY <2>1 DEF ChanceChecked, Accepted, InRange
  <1>2. ASSUME NEW hit \in BOOLEAN, TestEdge(hit) PROVE ChanceChecked'
    <2>1. pc = "edges" /\ config' = config
          /\ pc' = IF SamplingThrows(Chance) THEN "SampleFromException" ELSE pc
      BY <1>2 DEF TestEdge
    <2>2. Accepted
      BY <2>1 DEF ChanceChecked
    <2>3. ~SamplingThrows(Chance)
      <3>1. \A c \in 0 .. 4 : ~(c \div 2 > 4)
        OBVIOUS
      <3>2. config.linkChance \in Int
        BY GraphAssumption DEF TypeOK
      <3>3. QED
        BY <2>2, <3>1, <3>2
        DEF Accepted, InRange, SamplingThrows, Chance, Certain
    <2>4. QED
      BY <2>1, <2>2, <2>3 DEF ChanceChecked, Accepted, InRange
  <1>3. CASE Configure
    BY <1>3 DEF Configure, ChanceChecked, Accepted, InRange
  <1>4. CASE \/ NewVertex \/ VerticesGenerated \/ SkipLoop \/ EdgesDrawn
             \/ InsertPop \/ PopsInserted \/ AddEdge \/ Built \/ MutateEdges
             \/ MutateEdgesWithPredicate \/ UNCHANGED vars
    BY <1>4 DEF NewVertex, VerticesGenerated, SkipLoop, EdgesDrawn, InsertPop,
        PopsInserted, AddEdge, Built, MutateEdges, MutateEdgesWithPredicate, vars,
        ChanceChecked, Accepted, InRange
  <1>5. QED
    BY <1>1, <1>2, <1>3, <1>4 DEF Next

LEMMA VisitsStep ==
    ASSUME IInv, ChanceChecked, VisitsSeeTheirWrites, [Next]_vars
    PROVE  VisitsSeeTheirWrites'
  <1>1. CASE UNCHANGED vars
    BY <1>1 DEF vars, graph, VisitsSeeTheirWrites, Acquaintances, Linked
  <1>2. CASE ~(MutateEdges \/ MutateEdgesWithPredicate \/ UNCHANGED vars)
    <2>1. pc' \notin {"mutated", "filtered"}
      BY <1>2 DEF Next, Configure, NewVertex, VerticesGenerated, SkipLoop,
          TestEdge, EdgesDrawn, InsertPop, PopsInserted, AddEdge, Built, AuditGraph
    <2>2. QED
      BY <2>1 DEF VisitsSeeTheirWrites
  <1>3. QED
    BY <1>1, <1>2, MutateEdgesStep, MutateEdgesWithPredicateStep

LEMMA VisitInvariance == Spec => []VisitInv
  <1>1. Init => VisitInv
    BY InitIInv, TypeInit DEF Init, VisitInv, ChanceChecked, VisitsSeeTheirWrites
  <1>2. VisitInv /\ [Next]_vars => VisitInv'
    BY GraphStep, TypeStep, ChanceCheckedStep, VisitsStep DEF VisitInv
  <1>3. QED
    BY <1>1, <1>2, PTL DEF Spec

(* mutateEdges replaces everybody once for each acquaintance, with no        *)
(* replacement lost; with a predicate that asks for two untouched people it  *)
(* touches nobody twice and leaves no two acquaintances untouched.           *)
THEOREM NoReplacementIsLost == Spec => []VisitsSeeTheirWrites
  <1>1. VisitInv => VisitsSeeTheirWrites
    BY DEF VisitInv
  <1>2. QED
    BY <1>1, VisitInvariance, PTL

(* auditGraph never finds a visit that counts other than the graph does, and *)
(* sampleFrom never gets a probability that it throws at.                    *)
THEOREM AuditNeverFails ==
    Spec => [](pc \notin {"SampleFromException", "AuditGraphException"})
  <1>1. VisitInv => pc \notin {"SampleFromException", "AuditGraphException"}
    BY DEF VisitInv, ChanceChecked
  <1>2. QED
    BY <1>1, VisitInvariance, PTL

-----------------------------------------------------------------------------
(***************************************************************************)
(* Construction is finite.  Each pair is worth two steps: the one that     *)
(* draws for it, and the one that adds the edge drawn.                     *)
(***************************************************************************)
LoopsBegin ==
    /\ pc = "configuration" => vertices = <<>>
    /\ pc = "vertices" => Len(vertices) <= config.graphSize
    /\ pc \in {"edges", "pops"} => Len(vertices) = config.graphSize
    /\ pc \in {"configuration", "vertices"} => i = 1 /\ j = 1
    /\ pc = "edges" /\ i > Len(vertices) => j = 1
    /\ pc \in {"configuration", "vertices", "edges"} => pops = <<>>

BuildInv == IsFiniteSet(edges) /\ LoopsBegin

LEMMA SizesInNumbers ==
    ASSUME TypeOK
    PROVE  /\ config.graphSize \in Nat
           /\ Len(vertices) \in Nat /\ Len(pops) \in Nat
           /\ i \in 1 .. Len(vertices) + 1 /\ j \in 1 .. Len(vertices) + 1
  <1>1. config.graphSize \in Nat
    BY GraphAssumption DEF TypeOK
  <1>2. vertices \in Seq(Unique) /\ pops \in Seq(Unique)
    BY DEF TypeOK
  <1>3. Len(vertices) \in Nat /\ Len(pops) \in Nat
    BY <1>2
  <1>4. QED
    BY <1>1, <1>3 DEF TypeOK

LEMMA LoopsBeginInit == Init => BuildInv
  BY FS_EmptySet DEF Init, BuildInv, LoopsBegin

LEMMA EdgesStayFinite ==
    ASSUME IsFiniteSet(edges), [Next]_vars PROVE IsFiniteSet(edges')
  <1>1. CASE UNCHANGED edges
    BY <1>1
  <1>2. ASSUME NEW hit \in BOOLEAN, TestEdge(hit) PROVE IsFiniteSet(edges')
    <2>1. \/ UNCHANGED edges
          \/ \E e : edges' = Emplace(edges, e)
      BY <1>2 DEF TestEdge
    <2>2. \A e : Emplace(edges, e) \in {edges, edges \union {e}}
      BY DEF Emplace
    <2>3. QED
      BY <2>1, <2>2, FS_AddElement
  <1>3. CASE AddEdge
    <2>1. PICK e \in edges : edges' = edges \ {e}
      BY <1>3 DEF AddEdge
    <2>2. QED
      BY <2>1, FS_RemoveElement
  <1>4. CASE \/ Configure \/ NewVertex \/ VerticesGenerated \/ SkipLoop \/ EdgesDrawn
             \/ InsertPop \/ PopsInserted \/ Built \/ MutateEdges
             \/ MutateEdgesWithPredicate \/ AuditGraph \/ UNCHANGED vars
    BY <1>1, <1>4 DEF Configure, NewVertex, VerticesGenerated, SkipLoop, EdgesDrawn,
        InsertPop, PopsInserted, Built, MutateEdges, MutateEdgesWithPredicate,
        AuditGraph, vars, building
  <1>5. QED
    BY <1>2, <1>3, <1>4 DEF Next

LEMMA LoopsBeginStep ==
    ASSUME TypeOK, LoopsBegin, [Next]_vars PROVE LoopsBegin'
  <1>1. /\ config.graphSize \in Nat /\ Len(vertices) \in Nat
        /\ i \in 1 .. Len(vertices) + 1 /\ j \in 1 .. Len(vertices) + 1
    BY SizesInNumbers
  <1>2. CASE Configure
    <2>1. /\ pc = "configuration" /\ pc' \in {"vertices", "OptionNotInRange"}
          /\ UNCHANGED <<config, vertices, i, j, pops>>
      BY <1>2 DEF Configure, building, graph
    <2>2. vertices = <<>> /\ Len(vertices) = 0 /\ i = 1 /\ j = 1 /\ pops = <<>>
      BY <2>1 DEF LoopsBegin
    <2>3. QED
      BY <1>1, <2>1, <2>2 DEF LoopsBegin
  <1>3. CASE NewVertex
    <2>1. /\ pc = "vertices" /\ Len(vertices) < config.graphSize
          /\ UNCHANGED <<config, pc, i, j, pops>>
          /\ \E u \in Unique : vertices' = Append(vertices, u)
      BY <1>3 DEF NewVertex, graph
    <2>2. Len(vertices') = Len(vertices) + 1
      BY <2>1, RangeOfAppend DEF TypeOK
    <2>3. QED
      BY <1>1, <2>1, <2>2 DEF LoopsBegin
  <1>4. CASE VerticesGenerated
    BY <1>4 DEF VerticesGenerated, building, graph, LoopsBegin
  <1>5. ASSUME NEW hit \in BOOLEAN, SkipLoop \/ TestEdge(hit) PROVE LoopsBegin'
    <2>1. /\ pc = "edges" /\ pc' \in {"edges", "SampleFromException"}
          /\ i <= Len(vertices) /\ NextPair /\ UNCHANGED <<config, vertices, pops>>
      BY <1>5 DEF SkipLoop, TestEdge, Distinct, graph
    <2>2. i' > Len(vertices) => j' = 1
      BY <1>1, <2>1 DEF NextPair
    <2>3. QED
      BY <2>1, <2>2 DEF LoopsBegin
  <1>6. CASE EdgesDrawn
    BY <1>6 DEF EdgesDrawn, building, graph, LoopsBegin
  <1>7. CASE InsertPop
    BY <1>7 DEF InsertPop, building, LoopsBegin
  <1>8. CASE \/ PopsInserted \/ AddEdge \/ Built \/ MutateEdges
             \/ MutateEdgesWithPredicate \/ AuditGraph
    <2>1. pc' \in {"links"} \union Finished \union Failed
      BY <1>8 DEF PopsInserted, AddEdge, Built, MutateEdges,
          MutateEdgesWithPredicate, AuditGraph, Finished, Failed
    <2>2. QED
      BY <2>1 DEF LoopsBegin, Finished, Failed
  <1>9. CASE UNCHANGED vars
    BY <1>9 DEF vars, building, graph, LoopsBegin
  <1>10. QED
    BY <1>2, <1>3, <1>4, <1>5, <1>6, <1>7, <1>8, <1>9 DEF Next

(* The two loops go over Len(vertices) times Len(vertices) pairs. *)
LEMMA NextPairCounts ==
    ASSUME VisitInv, LoopsBegin, pc = "edges", i <= Len(vertices), NextPair,
           UNCHANGED vertices
    PROVE  PairsLeft \in Int /\ PairsLeft' = PairsLeft - 1
  <1> DEFINE n == Len(vertices)
             rows == n + 1 - i
  <1>1. n \in Nat /\ i \in 1 .. n + 1 /\ j \in 1 .. n /\ rows \in Nat
    <2>1. LoopIndices /\ TypeOK
      BY DEF VisitInv, IInv
    <2>2. QED
      BY <2>1, SizesInNumbers DEF LoopIndices
  <1>2. PairsLeft = rows * n - (j - 1)
    BY DEF PairsLeft
  <1>3. CASE j < n
    <2>1. PairsLeft' = rows * n - ((j + 1) - 1)
      <3>1. i' = i /\ j' = j + 1 /\ vertices' = vertices
        BY <1>3 DEF NextPair
      <3>2. PairsLeft' = (Len(vertices) + 1 - i) * Len(vertices) - ((j + 1) - 1)
        BY <3>1 DEF PairsLeft
      <3>3. QED
        BY <3>2
    <2> HIDE DEF rows, n
    <2>2. rows * n \in Nat
      BY <1>1, OneFactorLess
    <2>3. QED
      BY <1>1, <1>2, <2>1, <2>2
  <1>4. CASE ~(j < n)
    <2>1. PairsLeft' = (n + 1 - (i + 1)) * n - (1 - 1)
      BY <1>4 DEF PairsLeft, NextPair
    <2>2. n + 1 - (i + 1) = rows - 1 /\ j = n
      BY <1>1, <1>4
    <2>3. PairsLeft' = (rows - 1) * n - (1 - 1)
      BY <2>1, <2>2
    <2> HIDE DEF rows, n
    <2>4. rows * n \in Nat /\ (rows - 1) * n = rows * n - n
      BY <1>1, OneFactorLess
    <2>5. QED
      BY <1>1, <1>2, <2>2, <2>3, <2>4
  <1>5. QED
    BY <1>3, <1>4

(* What is left at the two ends of the loop over pairs. *)
LEMMA PairsAtTheEnds ==
    ASSUME TypeOK, LoopsBegin
    PROVE  LET n == config.graphSize
           IN /\ n * n \in Nat
              /\ pc = "vertices" /\ Len(vertices) = n => PairsLeft = n * n
              /\ pc = "edges" /\ i > Len(vertices) => PairsLeft = 0
  <1> DEFINE n == Len(vertices)
  <1>1. /\ config.graphSize \in Nat /\ n \in Nat
        /\ i \in 1 .. n + 1 /\ j \in 1 .. n + 1
    BY SizesInNumbers
  <1>2. config.graphSize * config.graphSize \in Nat /\ n * n \in Nat
    BY <1>1, OneFactorLess
  <1>3. ASSUME pc = "vertices", n = config.graphSize
        PROVE  PairsLeft = config.graphSize * config.graphSize
    <2>1. PairsLeft = (n + 1 - 1) * n - (1 - 1)
      BY <1>3 DEF PairsLeft, LoopsBegin
    <2>2. n + 1 - 1 = n
      BY <1>1
    <2>3. PairsLeft = n * n - (1 - 1)
      BY <2>1, <2>2
    <2>4. QED
      BY <1>2, <1>3, <2>3
  <1>4. ASSUME pc = "edges", i > n PROVE PairsLeft = 0
    <2>1. n + 1 - i = 0 /\ j = 1
      BY <1>1, <1>4 DEF LoopsBegin
    <2>2. PairsLeft = 0 * n - (1 - 1)
      BY <2>1 DEF PairsLeft
    <2>3. QED
      BY <1>1, <2>2
  <1>5. QED
    BY <1>2, <1>3, <1>4

LEMMA BuildStepCounts ==
    ASSUME VisitInv, VisitInv', BuildInv, Next PROVE StepsLeft' < StepsLeft
  <1> DEFINE n == config.graphSize
             square == n * n
             size == Cardinality(edges)
  <1>1. /\ n \in Nat /\ Len(vertices) \in Nat /\ Len(pops) \in Nat
        /\ square \in Nat /\ size \in Nat /\ UNCHANGED config
    <2>1. UNCHANGED config
      BY DEF Next, Configure, NewVertex, VerticesGenerated, SkipLoop, TestEdge,
          EdgesDrawn, InsertPop, PopsInserted, AddEdge, Built, MutateEdges,
          MutateEdgesWithPredicate, AuditGraph
    <2>2. QED
      BY <2>1, SizesInNumbers, PairsAtTheEnds, FS_CardinalityType
      DEF VisitInv, BuildInv
  <1>2. CASE Configure
    <2>1. /\ StepsLeft = 2 * square + 2 * n + 6 /\ vertices' = <<>>
          /\ \/ pc' = "vertices"
             \/ pc' = "OptionNotInRange"
      BY <1>2 DEF Configure, building, StepsLeft, BuildInv, LoopsBegin
    <2>2. Len(vertices') = 0
      BY <2>1
    <2>3. \/ StepsLeft' = 2 * square + n + 5 + (n - 0)
          \/ StepsLeft' = 0
      BY <1>1, <2>1, <2>2 DEF StepsLeft
    <2> HIDE DEF square
    <2>4. QED
      BY <1>1, <2>1, <2>3
  <1>3. CASE NewVertex
    <2>1. /\ pc = "vertices" /\ pc' = "vertices"
          /\ \E u \in Unique : vertices' = Append(vertices, u)
      BY <1>3 DEF NewVertex
    <2>2. Len(vertices') = Len(vertices) + 1
      BY <2>1, RangeOfAppend DEF VisitInv, IInv
    <2>3. /\ StepsLeft = 2 * square + n + 5 + (n - Len(vertices))
          /\ StepsLeft' = 2 * square + n + 5 + (n - (Len(vertices) + 1))
      BY <1>1, <2>1, <2>2 DEF StepsLeft
    <2> HIDE DEF square
    <2>4. QED
      BY <1>1, <2>3
  <1>4. CASE VerticesGenerated
    <2>1. /\ pc = "vertices" /\ pc' = "edges" /\ Len(vertices) = n
          /\ UNCHANGED <<vertices, i, j, edges>>
      BY <1>4 DEF VerticesGenerated, building
    <2>2. edges = {} /\ size = 0 /\ PairsLeft = square
      BY <2>1, PairsAtTheEnds, FS_EmptySet
      DEF VisitInv, IInv, InOrder, BuildInv
    <2>3. PairsLeft' = square /\ Cardinality(edges') = 0
      BY <2>1, <2>2 DEF PairsLeft
    <2>4. /\ StepsLeft = 2 * square + n + 5 + (n - n)
          /\ StepsLeft' = 2 * square + 0 + n + 4
      BY <1>1, <2>1, <2>3 DEF StepsLeft
    <2> HIDE DEF square
    <2>5. QED
      BY <1>1, <2>4
  <1>5. ASSUME NEW hit \in BOOLEAN, SkipLoop \/ TestEdge(hit)
        PROVE  StepsLeft' < StepsLeft
    <2>1. /\ pc = "edges" /\ i <= Len(vertices) /\ NextPair /\ UNCHANGED vertices
          /\ pc' \in {"edges", "SampleFromException"}
          /\ edges' = edges \/ \E e : edges' = Emplace(edges, e)
      BY <1>5 DEF SkipLoop, TestEdge, Distinct
    <2>2. pc' = "edges"
      BY <2>1 DEF VisitInv, ChanceChecked
    <2>3. PairsLeft \in Int /\ PairsLeft' = PairsLeft - 1
      BY <2>1, NextPairCounts DEF BuildInv
    <2>4. Cardinality(edges') \in {size, size + 1}
      <3>1. \A e : Emplace(edges, e) \in {edges, edges \union {e}}
        BY DEF Emplace
      <3>2. \A e : Cardinality(edges \union {e}) \in {size, size + 1}
        BY FS_AddElement DEF BuildInv
      <3>3. QED
        BY <2>1, <3>1, <3>2
    <2>5. /\ StepsLeft = 2 * PairsLeft + size + n + 4
          /\ StepsLeft' = 2 * (PairsLeft - 1) + Cardinality(edges') + n + 4
      BY <1>1, <2>1, <2>2, <2>3 DEF StepsLeft
    <2>6. QED
      BY <1>1, <2>3, <2>4, <2>5
  <1>6. CASE EdgesDrawn
    <2>1. /\ pc = "edges" /\ pc' = "pops" /\ i > Len(vertices)
          /\ UNCHANGED <<edges, pops>>
      BY <1>6 DEF EdgesDrawn, building, graph
    <2>2. PairsLeft = 0 /\ Len(pops') = 0
      BY <2>1, PairsAtTheEnds DEF VisitInv, BuildInv, LoopsBegin
    <2>3. /\ StepsLeft = 2 * 0 + size + n + 4
          /\ StepsLeft' = (n - 0) + size + 3
      BY <1>1, <2>1, <2>2 DEF StepsLeft
    <2>4. QED
      BY <1>1, <2>3
  <1>7. CASE InsertPop
    <2>1. /\ pc = "pops" /\ pc' = "pops" /\ UNCHANGED edges
          /\ pops' = Append(pops, vertices[Len(pops) + 1])
      BY <1>7 DEF InsertPop, building
    <2>2. Len(pops') = Len(pops) + 1
      BY <2>1 DEF VisitInv, IInv
    <2>3. /\ StepsLeft = (n - Len(pops)) + size + 3
          /\ StepsLeft' = (n - (Len(pops) + 1)) + size + 3
      BY <1>1, <2>1, <2>2 DEF StepsLeft
    <2>4. QED
      BY <1>1, <2>3
  <1>8. CASE PopsInserted
    <2>1. /\ pc = "pops" /\ pc' = "links" /\ Len(pops) = n /\ UNCHANGED edges
      BY <1>8 DEF PopsInserted, building, BuildInv, LoopsBegin
    <2>2. StepsLeft = (n - n) + size + 3 /\ StepsLeft' = size + 2
      BY <1>1, <2>1 DEF StepsLeft
    <2>3. QED
      BY <1>1, <2>2
  <1>9. CASE AddEdge
    <2>1. PICK e \in edges : edges' = edges \ {e}
      BY <1>9 DEF AddEdge
    <2>2. Cardinality(edges') = size - 1
      BY <2>1, FS_RemoveElement DEF BuildInv
    <2>3. pc = "links" /\ pc' = "links"
      BY <1>9 DEF AddEdge
    <2>4. StepsLeft = size + 2 /\ StepsLeft' = (size - 1) + 2
      BY <2>2, <2>3 DEF StepsLeft
    <2>5. QED
      BY <1>1, <2>4
  <1>10. CASE Built
    <2>1. pc = "links" /\ pc' = "built"
      BY <1>10 DEF Built
    <2>2. StepsLeft = size + 2 /\ StepsLeft' = 1
      BY <2>1 DEF StepsLeft
    <2>3. QED
      BY <1>1, <2>2
  <1>11. CASE MutateEdges \/ MutateEdgesWithPredicate \/ AuditGraph
    <2>1. pc = "built" /\ pc' \in {"mutated", "filtered", "audited", "AuditGraphException"}
      BY <1>11 DEF MutateEdges, MutateEdgesWithPredicate, AuditGraph
    <2>2. StepsLeft = 1 /\ StepsLeft' = 0
      BY <2>1 DEF StepsLeft
    <2>3. QED
      BY <2>2
  <1>12. QED
    BY <1>2, <1>3, <1>4, <1>5, <1>6, <1>7, <1>8, <1>9, <1>10, <1>11 DEF Next

(* The number of steps that are left is never negative either. *)
LEMMA StepsLeftIsANumber ==
    ASSUME VisitInv, BuildInv PROVE StepsLeft \in Nat
  <1> DEFINE n == config.graphSize
             square == n * n
             size == Cardinality(edges)
  <1>1. /\ n \in Nat /\ Len(vertices) \in Nat /\ Len(pops) \in Nat
        /\ square \in Nat /\ size \in Nat
    BY SizesInNumbers, PairsAtTheEnds, FS_CardinalityType DEF VisitInv, BuildInv
  <1>2. /\ pc = "vertices" => Len(vertices) <= n
        /\ pc = "pops" => Len(pops) <= n
    BY DEF BuildInv, LoopsBegin, VisitInv, IInv, PopsAreVertices
  <1>3. pc = "edges" => PairsLeft \in Nat
    <2> DEFINE m == Len(vertices)
               rows == m + 1 - i
    <2> SUFFICES ASSUME pc = "edges" PROVE PairsLeft \in Nat
      OBVIOUS
    <2>1. m \in Nat /\ i \in 1 .. m + 1 /\ j \in 1 .. m + 1
      BY SizesInNumbers DEF VisitInv
    <2>2. CASE i > m
      BY <2>2, PairsAtTheEnds DEF VisitInv, BuildInv
    <2>3. CASE i <= m
      <3>1. rows \in Nat /\ rows > 0 /\ j <= m
        BY <2>1, <2>3 DEF VisitInv, IInv, LoopIndices
      <3>2. PairsLeft = rows * m - (j - 1)
        BY DEF PairsLeft
      <3> HIDE DEF rows, m
      <3>3. rows * m \in Nat /\ rows * m >= m
        BY <2>1, <3>1, OneFactorLess
      <3>4. QED
        BY <2>1, <3>1, <3>2, <3>3
    <2>4. QED
      BY <2>1, <2>2, <2>3
  <1>4. CASE pc \in {"configuration", "vertices", "edges", "pops"}
    <2>1. /\ pc = "configuration" => StepsLeft = 2 * square + 2 * n + 6
          /\ pc = "vertices" => StepsLeft = 2 * square + n + 5 + (n - Len(vertices))
          /\ pc = "edges" => StepsLeft = 2 * PairsLeft + size + n + 4
          /\ pc = "pops" => StepsLeft = (n - Len(pops)) + size + 3
      BY DEF StepsLeft
    <2> HIDE DEF square, n, size
    <2>2. CASE pc = "configuration"
      BY <1>1, <2>1, <2>2
    <2>3. CASE pc = "vertices"
      BY <1>1, <1>2, <2>1, <2>3
    <2>4. CASE pc = "edges"
      BY <1>1, <1>3, <2>1, <2>4
    <2>5. CASE pc = "pops"
      BY <1>1, <1>2, <2>1, <2>5
    <2>6. QED
      BY <1>4, <2>2, <2>3, <2>4, <2>5
  <1>5. CASE pc \notin {"configuration", "vertices", "edges", "pops"}
    <2>1. StepsLeft \in {size + 2, 1, 0}
      BY <1>5 DEF StepsLeft
    <2>2. QED
      BY <1>1, <2>1
  <1>6. QED
    BY <1>4, <1>5

(* buildGraph is finite: whatever the options and the draws, each step of it *)
(* is one of a number of steps known before.                                 *)
THEOREM BuildIsFinite == Spec => [](StepsLeft \in Nat) /\ EveryStepCounts
  <1>1. VisitInv /\ BuildInv => StepsLeft \in Nat
    BY StepsLeftIsANumber
  <1>2. VisitInv /\ VisitInv' /\ BuildInv /\ [Next]_vars => [StepsLeft' < StepsLeft]_vars
    BY BuildStepCounts
  <1>3. VisitInv /\ BuildInv /\ [Next]_vars => BuildInv'
    BY EdgesStayFinite, LoopsBeginStep DEF BuildInv, VisitInv
  <1>4. QED
    BY <1>1, <1>2, <1>3, LoopsBeginInit, VisitInvariance, PTL DEF Spec, EveryStepCounts

-----------------------------------------------------------------------------
LEMMA LoggingTypeInit == LoggingInit => LoggingTypeOK
  <1> DEFINE Line == (1 .. MaxTicks) \X Nat
  <1> HIDE DEF Line
  <1>1. <<>> \in Seq(Line)
    OBVIOUS
  <1>2. LoggingInit => TypeOK
    BY TypeInit DEF LoggingInit, Init
  <1>3. LoggingInit => lines \in Seq(Line) /\ log \in Seq(Line)
    BY <1>1 DEF LoggingInit
  <1>4. LoggingInit => exports \in 0 .. MaxTicks /\ late \in Nat
    BY LoggingAssumption DEF LoggingInit
  <1>5. LoggingInit => interruptedFlag \in BOOLEAN /\ checked \in BOOLEAN
    BY Zenon DEF LoggingInit
  <1>6. QED
    BY <1>2, <1>3, <1>4, <1>5 DEF LoggingTypeOK, Line

LEMMA LoggingTypeStep ==
    ASSUME LogInv, LogInv', LoggingTypeOK, [LoggingNext]_allVars
    PROVE  LoggingTypeOK'
  <1> USE LoggingAssumption
  <1> DEFINE Line == (1 .. MaxTicks) \X Nat
  <1>1. TypeOK'
    <2>1. [Next]_vars
      BY DEF LoggingNext, Prepare, ExportData, WriteString, CheckFlag, WriteLine,
          GiveUp, Interrupt, allVars
    <2>2. QED
      BY <2>1, TypeStep DEF LogInv, LoggingTypeOK
  <1>2. late' \in Nat
    BY DEF LogInv, Late
  <1>3. interruptedFlag' \in BOOLEAN /\ checked' \in BOOLEAN
    BY DEF LoggingTypeOK, LoggingNext, Prepare, ExportData, WriteString,
        CheckFlag, WriteLine, GiveUp, Interrupt, allVars, loggingVars
  <1>4. CASE ExportData
    <2>1. exports \in 0 .. MaxTicks /\ exports < MaxTicks
          /\ LinesOfATick \in Nat /\ exports' = exports + 1 /\ log' = log
          /\ lines' = [n \in 1 .. LinesOfATick |-> <<exports + 1, n>>]
      BY <1>4, LinesOfATickType DEF ExportData, LoggingTypeOK, LogInv
    <2>2. exports + 1 \in 1 .. MaxTicks
      BY <2>1
    <2>3. lines' \in Seq(Line)
      BY <2>1, <2>2
    <2>4. QED
      BY <1>1, <1>2, <1>3, <2>1, <2>2, <2>3 DEF LoggingTypeOK
  <1>5. CASE WriteLine
    <2>1. lines # <<>>
      BY <1>5 DEF WriteLine, LogInv, Unused, LinesAreTheRest
    <2> HIDE DEF Line
    <2>2. lines \in Seq(Line) /\ log \in Seq(Line)
      BY DEF LoggingTypeOK, Line
    <2>3. lines' \in Seq(Line) /\ log' \in Seq(Line)
      BY <1>5, <2>1, <2>2 DEF WriteLine
    <2>4. exports' = exports
      BY <1>5 DEF WriteLine
    <2>5. QED
      BY <1>1, <1>2, <1>3, <2>3, <2>4 DEF LoggingTypeOK, Line
  <1>6. CASE Prepare \/ CheckFlag \/ GiveUp \/ Interrupt \/ UNCHANGED allVars
    <2>1. exports' = exports /\ log' = log /\ lines' \in {lines, <<>>}
      BY <1>6 DEF Prepare, CheckFlag, GiveUp, Interrupt, allVars, loggingVars
    <2>2. lines \in Seq(Line)
      BY DEF LoggingTypeOK
    <2> HIDE DEF Line
    <2>3. <<>> \in Seq(Line)
      OBVIOUS
    <2>4. lines' \in Seq(Line)
      BY <2>1, <2>2, <2>3
    <2>5. QED
      BY <1>1, <1>2, <1>3, <2>1, <2>4 DEF LoggingTypeOK, Line
  <1>7. QED
    BY <1>4, <1>5, <1>6 DEF LoggingNext, WriteString

(* The state of the graph and of its log, through every interleaving of the  *)
(* ticks with an interrupt.                                                  *)
THEOREM LoggingTypeCorrect == LoggingSpec => []LoggingTypeOK
  <1>1. LogInv /\ LoggingTypeOK /\ [LoggingNext]_allVars => LoggingTypeOK'
    BY LogStep, LoggingTypeStep
  <1>2. QED
    BY <1>1, LogInvariance, LoggingTypeInit, PTL DEF LoggingSpec
=============================================================================
