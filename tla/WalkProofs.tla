------------------------------ MODULE WalkProofs ------------------------------
(***************************************************************************)
(* Proofs about walks over relationships that others change meanwhile: a   *)
(* traversal, and the walk that expands a search, tell what was there, all *)
(* of it unless they name a bound, and keep to their budgets.              *)
(***************************************************************************)
EXTENDS LibraryProofs

(* Relationships *)

\* What is untouched is there, and what is there has been seen.
GraphFits ==
    /\ edge \in [EdgeId -> {"absent", "active", "closed"}]
    /\ row \in [Node -> {"in", "out", "gone"}]
    /\ steady \subseteq {e \in EdgeId : edge[e] = "active"}
    /\ {e \in EdgeId : edge[e] = "active"} \subseteq seen
    /\ seen \subseteq EdgeId

\* Where an edge leads is one of its ends.
LEMMA FarIsANode ==
  ASSUME NEW e \in EdgeId, NEW n \in Node
  PROVE  Far(e, n) \in Node /\ Far(e, n) \in {Links[e].subject, Links[e].object}
  BY GraphAssumption DEF Far

\* No hop is needed where one begins.
LEMMA WithinStarts ==
  ASSUME NEW from \in SUBSET Node, NEW edges, NEW direction, NEW n \in from
  PROVE  n \in Within(0, from, edges, direction)
<1>1. [i \in 0 .. 0 |-> n] \in [0 .. 0 -> Node] /\ [i \in 0 .. 0 |-> n][0] = n
  OBVIOUS
<1>2. \A i \in 1 .. 0 : FALSE
  OBVIOUS
<1>3. QED
  BY <1>1, <1>2 DEF Within

\* One more edge is one more hop.
LEMMA WithinGoesOn ==
  ASSUME NEW hops \in Nat, NEW from, NEW edges \in SUBSET EdgeId, NEW direction, NEW n,
         n \in Within(hops, from, edges, direction),
         NEW e \in edges, Follows(e, n, direction)
  PROVE  Far(e, n) \in Within(hops + 1, from, edges, direction)
<1>1. PICK stops \in [0 .. hops -> Node] :
        /\ stops[0] \in from /\ stops[hops] = n
        /\ \A i \in 1 .. hops :
              \/ stops[i] = stops[i - 1]
              \/ \E f \in edges :
                    Follows(f, stops[i - 1], direction) /\ stops[i] = Far(f, stops[i - 1])
  BY DEF Within
<1>2. n \in Node /\ Far(e, n) \in Node
  BY FarIsANode DEF Within
<1> DEFINE more == [i \in 0 .. hops + 1 |-> IF i <= hops THEN stops[i] ELSE Far(e, n)]
<1>3. /\ more \in [0 .. hops + 1 -> Node]
      /\ \A i \in 0 .. hops : more[i] = stops[i]
      /\ more[hops + 1] = Far(e, n)
  <2>1. \A i \in 0 .. hops + 1 : (IF i <= hops THEN stops[i] ELSE Far(e, n)) \in Node
    BY <1>1, <1>2
  <2>2. QED
    BY <2>1
<1> HIDE DEF more
<1>4. more[0] \in from
  BY <1>1, <1>3
<1>5. ASSUME NEW i \in 1 .. hops + 1
      PROVE  \/ more[i] = more[i - 1]
             \/ \E f \in edges :
                   Follows(f, more[i - 1], direction) /\ more[i] = Far(f, more[i - 1])
  <2>1. CASE i = hops + 1
    <3>1. i - 1 = hops /\ more[i - 1] = n
      BY <1>1, <1>3, <2>1
    <3>2. QED
      BY <1>3, <2>1, <3>1
  <2>2. CASE i \in 1 .. hops
    <3>1. i - 1 \in 0 .. hops /\ i \in 0 .. hops
      BY <2>2
    <3>2. more[i] = stops[i] /\ more[i - 1] = stops[i - 1]
      BY <1>3, <3>1
    <3>3. QED
      BY <1>1, <2>2, <3>2
  <2>3. QED
    BY <2>1, <2>2
<1>6. Far(e, n) \in Node /\ hops + 1 \in Nat
  BY <1>2
<1>7. QED
  BY <1>3, <1>4, <1>5, <1>6 DEF Within

\* More hops lead no less far: one may stay where one is.
LEMMA WithinLonger ==
  ASSUME NEW hops \in Nat, NEW more \in Nat, hops <= more, NEW from, NEW edges, NEW direction
  PROVE  Within(hops, from, edges, direction) \subseteq Within(more, from, edges, direction)
<1> SUFFICES ASSUME NEW n \in Within(hops, from, edges, direction)
             PROVE  n \in Within(more, from, edges, direction)
  OBVIOUS
<1>1. PICK stops \in [0 .. hops -> Node] :
        /\ stops[0] \in from /\ stops[hops] = n
        /\ \A i \in 1 .. hops :
              \/ stops[i] = stops[i - 1]
              \/ \E f \in edges :
                    Follows(f, stops[i - 1], direction) /\ stops[i] = Far(f, stops[i - 1])
  BY DEF Within
<1> DEFINE longer == [i \in 0 .. more |-> IF i <= hops THEN stops[i] ELSE n]
<1>2. n \in Node
  BY DEF Within
<1>3. /\ longer \in [0 .. more -> Node]
      /\ \A i \in 0 .. hops : longer[i] = stops[i]
      /\ \A i \in hops .. more : longer[i] = n
  <2>1. \A i \in 0 .. more : (IF i <= hops THEN stops[i] ELSE n) \in Node
    BY <1>1, <1>2
  <2>2. \A i \in hops .. more : i \in 0 .. more /\ (i <= hops => i = hops)
    OBVIOUS
  <2>3. \A i \in 0 .. hops : i \in 0 .. more
    OBVIOUS
  <2>4. QED
    BY <1>1, <2>1, <2>2, <2>3
<1> HIDE DEF longer
<1>4. longer[0] \in from /\ longer[more] = n
  BY <1>1, <1>3
<1>5. ASSUME NEW i \in 1 .. more
      PROVE  \/ longer[i] = longer[i - 1]
             \/ \E f \in edges :
                   Follows(f, longer[i - 1], direction) /\ longer[i] = Far(f, longer[i - 1])
  <2>1. CASE i <= hops
    <3>1. i \in 1 .. hops /\ i - 1 \in 0 .. hops /\ i \in 0 .. hops
      BY <2>1
    <3>2. longer[i] = stops[i] /\ longer[i - 1] = stops[i - 1]
      BY <1>3, <3>1
    <3>3. QED
      BY <1>1, <3>1, <3>2
  <2>2. CASE ~(i <= hops)
    <3>1. i - 1 \in hops .. more /\ i \in hops .. more
      BY <2>2
    <3>2. QED
      BY <1>3, <3>1
  <2>3. QED
    BY <2>1, <2>2
<1>6. QED
  BY <1>2, <1>3, <1>4, <1>5 DEF Within

\* More edges lead no less far.
LEMMA WithinGrows ==
  ASSUME NEW hops, NEW from, NEW edges, NEW more, edges \subseteq more, NEW direction
  PROVE  Within(hops, from, edges, direction) \subseteq Within(hops, from, more, direction)
<1> SUFFICES ASSUME NEW n \in Within(hops, from, edges, direction)
             PROVE  n \in Within(hops, from, more, direction)
  OBVIOUS
<1>1. PICK stops \in [0 .. hops -> Node] :
        /\ stops[0] \in from /\ stops[hops] = n
        /\ \A i \in 1 .. hops :
              \/ stops[i] = stops[i - 1]
              \/ \E f \in edges :
                    Follows(f, stops[i - 1], direction) /\ stops[i] = Far(f, stops[i - 1])
  BY DEF Within
<1>2. \A i \in 1 .. hops :
         \/ stops[i] = stops[i - 1]
         \/ \E f \in more :
               Follows(f, stops[i - 1], direction) /\ stops[i] = Far(f, stops[i - 1])
  BY <1>1
<1>3. n \in Node
  BY DEF Within
<1>4. QED
  BY <1>1, <1>2, <1>3 DEF Within

\* What is reachable leads on to what is reachable.
LEMMA ReachableGoesOn ==
  ASSUME NEW from \in SUBSET Node, NEW edges \in SUBSET EdgeId, NEW direction
  PROVE  /\ from \subseteq Reachable(from, edges, direction, {})
         /\ \A n \in Reachable(from, edges, direction, {}), e \in edges :
              Follows(e, n, direction) => Far(e, n) \in Reachable(from, edges, direction, {})
<1>1. from \subseteq Reachable(from, edges, direction, {})
  BY DEF Reachable
<1>2. ASSUME NEW n \in Reachable(from, edges, direction, {}), NEW e \in edges,
             Follows(e, n, direction)
      PROVE  Far(e, n) \in Reachable(from, edges, direction, {})
  <2>1. Far(e, n) \in Node
    BY FarIsANode DEF Reachable
  <2>2. ASSUME NEW S \in SUBSET Node, from \subseteq S, Shut(S, edges, direction, {})
        PROVE  Far(e, n) \in S
    <3>1. n \in S
      BY <2>2 DEF Reachable
    <3>2. QED
      BY <1>2, <2>2, <3>1 DEF Shut
  <2>3. QED
    BY <2>1, <2>2 DEF Reachable
<1>3. QED
  BY <1>1, <1>2

\* More edges reach no less.
LEMMA ReachableGrows ==
  ASSUME NEW from, NEW edges, NEW more, edges \subseteq more, NEW direction, NEW closed
  PROVE  Reachable(from, edges, direction, closed) \subseteq Reachable(from, more, direction, closed)
<1>1. \A S \in SUBSET Node : Shut(S, more, direction, closed) => Shut(S, edges, direction, closed)
  BY DEF Shut
<1>2. QED
  BY <1>1 DEF Reachable

\* What so many hops lead to is reachable.
LEMMA WithinReaches ==
  ASSUME NEW hops \in Nat, NEW from \in SUBSET Node, NEW edges \in SUBSET EdgeId, NEW direction
  PROVE  Within(hops, from, edges, direction) \subseteq Reachable(from, edges, direction, {})
<1> SUFFICES ASSUME NEW n \in Within(hops, from, edges, direction)
             PROVE  n \in Reachable(from, edges, direction, {})
  OBVIOUS
<1>1. PICK stops \in [0 .. hops -> Node] :
        /\ stops[0] \in from /\ stops[hops] = n
        /\ \A i \in 1 .. hops :
              \/ stops[i] = stops[i - 1]
              \/ \E f \in edges :
                    Follows(f, stops[i - 1], direction) /\ stops[i] = Far(f, stops[i - 1])
  BY DEF Within
<1> DEFINE G == {i \in 0 .. hops : stops[i] \in Reachable(from, edges, direction, {})}
<1>2. 0 \in G
  <2>1. stops[0] \in Reachable(from, edges, direction, {})
    BY <1>1, ReachableGoesOn
  <2>2. QED
    BY <2>1
<1>3. ASSUME NEW i \in 1 .. hops, i - 1 \in G PROVE i \in G
  <2>1. stops[i - 1] \in Reachable(from, edges, direction, {})
    BY <1>3
  <2>2. stops[i] \in Reachable(from, edges, direction, {})
    BY <1>1, <2>1, ReachableGoesOn
  <2>3. QED
    BY <2>2
<1>4. 0 .. hops \subseteq G
  <2> HIDE DEF G
  <2>1. QED
    BY <1>2, <1>3, Upward
<1>5. QED
  BY <1>1, <1>4

\* A set of nodes that given edges do not lead out of holds what they reach.
LEMMA ReachableStays ==
  ASSUME NEW from, NEW S \in SUBSET Node, from \subseteq S, NEW edges, NEW direction, NEW closed,
         Shut(S, edges, direction, closed)
  PROVE  Reachable(from, edges, direction, closed) \subseteq S
  BY DEF Reachable

----

\* A finite set of numbers in order: each once, no other.
LEMMA InOrderIs ==
  ASSUME NEW I, I \subseteq Nat, IsFiniteSet(I)
  PROVE  InOrder(I) \in Seq(I) /\ Len(InOrder(I)) = Cardinality(I) /\ Range(InOrder(I)) = I
<1> DEFINE n == Cardinality(I)
           nth == [k \in 1 .. n |-> Nth(I, k)]
<1>1. n \in Nat /\ \A k \in 1 .. n : Nth(I, k) \in I /\ Cardinality({j \in I : j <= Nth(I, k)}) = k
  BY NthIs
<1>2. nth \in Injection(1 .. n, I)
  <2>1. nth \in [1 .. n -> I]
    BY <1>1
  <2>2. \A k, m \in 1 .. n : Nth(I, k) = Nth(I, m) => k = m
    BY <1>1
  <2>3. QED
    BY <2>1, <2>2 DEF Injection, IsInjective
<1>3. nth \in Surjection(1 .. n, I)
  <2>1. IsFiniteSet(1 .. n) /\ Cardinality(1 .. n) = n
    BY <1>1, FS_Interval
  <2> HIDE DEF nth
  <2>2. QED
    BY <1>2, <2>1, FS_Injection
<1>4. InOrder(I) = nth /\ nth \in [1 .. n -> I]
  BY <1>1 DEF InOrder
<1>5. \A i \in I : \E k \in 1 .. n : nth[k] = i
  BY <1>3 DEF Surjection
<1> HIDE DEF nth
<1>6. nth \in Seq(I) /\ Len(nth) = n /\ DOMAIN nth = 1 .. n
  BY <1>1, <1>4, InSeq
<1>7. Range(nth) = I
  BY <1>4, <1>5 DEF Range
<1>8. QED
  BY <1>4, <1>6, <1>7

\* The edges that lead on from a node.
Leaving(n, direction) == {e \in EdgeId : edge[e] = "active" /\ Follows(e, n, direction)}

\* The rows of a scan: edges to follow, no more than were left to scan, and all
\* of them unless there was a row too many.
LEMMA RowsAre ==
  ASSUME NEW n, NEW direction, NEW remaining \in Nat
  PROVE  LET edges == Rows(n, direction, remaining)
             taken == Cut(edges, remaining)
         IN  /\ taken \in Seq(EdgeId) /\ Len(taken) <= remaining
             /\ Range(taken) \subseteq Leaving(n, direction)
             /\ Len(edges) > remaining => Len(taken) = remaining
             /\ ~(Len(edges) > remaining) => Range(taken) = Leaving(n, direction)
<1> DEFINE F == Leaving(n, direction)
           all == Followable(n, direction)
           edges == Rows(n, direction, remaining)
           taken == Cut(edges, remaining)
<1>1. F \subseteq Nat /\ F \subseteq EdgeId /\ IsFiniteSet(F)
  <2>1. F \in SUBSET EdgeId
    BY DEF Leaving
  <2> HIDE DEF F
  <2>2. QED
    BY <2>1, GraphAssumption, FS_Subset
<1>2. all \in Seq(F) /\ Range(all) = F
  <2>1. all = InOrder(F)
    BY DEF Followable, Leaving
  <2> HIDE DEF F
  <2>2. QED
    BY <1>1, <2>1, InOrderIs
<1> HIDE DEF F, all
<1>3. all \in Seq(EdgeId) /\ Len(all) \in Nat /\ DOMAIN all = 1 .. Len(all)
  BY <1>1, <1>2, SeqMonotonic, LenProperties
<1>4. CASE Len(all) <= remaining
  <2>1. SubSeq(all, 1, Len(all)) = all
    <3>1. /\ SubSeq(all, 1, Len(all)) \in Seq(EdgeId)
          /\ Len(SubSeq(all, 1, Len(all))) = Len(all)
          /\ \A i \in 1 .. Len(all) : SubSeq(all, 1, Len(all))[i] = all[i]
      BY <1>3, SubSeqProperties
    <3>2. QED
      BY <1>3, <3>1, SeqEqual
  <2>2. edges = all
    BY <1>4, <2>1 DEF Rows, all
  <2>3. ~(Len(edges) > remaining)
    BY <1>3, <1>4, <2>2
  <2>5. taken = edges
    BY <2>3 DEF Cut
  <2>4. QED
    BY <1>1, <1>2, <1>3, <1>4, <2>2, <2>3, <2>5 DEF F
<1>5. CASE ~(Len(all) <= remaining)
  <2>1. edges = SubSeq(all, 1, remaining + 1)
    BY <1>5 DEF Rows, all
  <2>2. remaining + 1 \in Nat /\ remaining + 1 <= Len(all) /\ remaining <= Len(all)
    BY <1>3, <1>5
  <2>3. edges \in Seq(EdgeId) /\ Len(edges) = remaining + 1
        /\ \A i \in 1 .. remaining + 1 : edges[i] = all[i]
    <3> HIDE DEF edges
    <3>1. QED
      BY <1>3, <2>1, <2>2, SubSeqProperties
  <2>4. Len(edges) > remaining /\ taken = SubSeq(edges, 1, remaining)
    <3>1. Len(edges) > remaining
      BY <2>3
    <3>2. QED
      BY <3>1 DEF Cut
  <2> HIDE DEF edges, taken
  <2>5. /\ taken \in Seq(EdgeId) /\ Len(taken) = remaining
        /\ \A i \in 1 .. remaining : taken[i] = edges[i]
    BY <2>3, <2>4, SubSeqProperties
  <2>6. \A i \in 1 .. remaining : i \in DOMAIN all /\ taken[i] = all[i]
    BY <1>3, <2>2, <2>3, <2>5
  <2>7. DOMAIN taken = 1 .. remaining
    BY <2>5, LenProperties
  <2>8. Range(taken) \subseteq F
    BY <1>2, <2>6, <2>7 DEF Range
  <2>9. QED
    BY <2>4, <2>5, <2>8 DEF F, edges, taken
<1>6. QED
  BY <1>4, <1>5

\* A node has an edge to follow exactly if the probe finds one.
LEMMA ProbeIs ==
  ASSUME NEW n, NEW direction, Followable(n, direction) = <<>>
  PROVE  Leaving(n, direction) = {}
<1> DEFINE F == Leaving(n, direction)
<1>1. F \subseteq Nat /\ F \subseteq EdgeId /\ IsFiniteSet(F)
  <2>1. F \in SUBSET EdgeId
    BY DEF Leaving
  <2> HIDE DEF F
  <2>2. QED
    BY <2>1, GraphAssumption, FS_Subset
<1>2. InOrder(F) = <<>>
  BY DEF Followable, Leaving
<1> HIDE DEF F
<1>3. Range(InOrder(F)) = F
  BY <1>1, InOrderIs
<1>4. QED
  BY <1>2, <1>3 DEF F, Range

-----------------------------------------------------------------------------
(* A traversal *)

\* Why a walk may be cut short.
Cuts == {"depth", "visited", "edges", "deadline", "candidates"}

\* What a walk keeps of a node.
Frames == [node : Node, depth : Nat, path : Seq(EdgeId)]

\* What a walk may be.
Walks == [phase : {"idle", "not_found", "bfs", "done"}, direction : Direction,
          maxDepth : Nat, maxVisited : Nat, maxEdges : Nat, queue : Seq(Frames),
          visited : SUBSET Node, nodes : Seq(Frames), edges : SUBSET EdgeId,
          scanned : Nat, truncated : SUBSET Cuts]

\* The frames of the seeds, and of all it has visited.
SeedFrames == {Frame(s, 0, <<>>) : s \in Seeds}
FramesOf(w) == SeedFrames \cup Range(w.nodes)

\* A node was visited no deeper than that.
Reached(w, n, most) == \E g \in FramesOf(w) : g.node = n /\ g.depth <= most

\* Every untouched edge from a node has been followed.
Explored(w, g, kept) ==
    \A e \in kept : Follows(e, g.node, w.direction) => Reached(w, Far(e, g.node), g.depth + 1)

\* A node is still to be scanned, or explored, or refused for its depth.
Settled(w, g, kept) ==
    \/ g \in Range(w.queue)
    \/ Explored(w, g, kept)
    \/ g.depth >= w.maxDepth /\ "depth" \in w.truncated

\* The path to a node is a chain of edges that were scanned.
Led(w, g) ==
    /\ Len(g.path) = g.depth
    /\ IsChain(g.path, g.node, w.direction)
    /\ Range(g.path) \subseteq w.edges

\* What a walk has found: one path to each node, no longer than it need be, all of
\* it within the budgets.
Found(w, kept) ==
    /\ w.visited = {g.node : g \in FramesOf(w)}
    /\ w.scanned <= w.maxEdges
    /\ Cardinality(w.visited) <= w.maxVisited \/ w.visited \subseteq Seeds
    /\ \A g \in FramesOf(w) : Led(w, g)
    /\ \A g \in Range(w.nodes) :
          g.depth # 0 /\ g.node \notin Within(g.depth - 1, Seeds, kept, w.direction)

\* The queue holds the nodes of two depths, the nearer first.
Layered(w) ==
    /\ Range(w.queue) \subseteq FramesOf(w)
    /\ \A i, j \in DOMAIN w.queue : i <= j => w.queue[i].depth <= w.queue[j].depth
    /\ \A i \in DOMAIN w.queue, g \in FramesOf(w) : g.depth <= w.queue[i].depth + 1
    /\ \A e \in w.edges : {Links[e].subject, Links[e].object} \subseteq w.visited

\* A walk at rest: what it found is settled, and its answer is complete unless it
\* names a bound.
WalkFits(w, kept) ==
    /\ w \in Walks
    /\ w.phase \in {"idle", "not_found"} => w.nodes = <<>> /\ w.visited = {} /\ w.scanned = 0
    /\ w.phase \in {"bfs", "done"} => Found(w, kept)
    /\ w.phase = "bfs" => Layered(w) /\ \A g \in FramesOf(w) : Settled(w, g, kept)
    /\ w.phase = "done" /\ w.truncated = {} => \A g \in FramesOf(w) : Explored(w, g, kept)

\* A traversal's walk over the graph.
TraversalInv ==
    /\ GraphFits /\ WalkFits(walk, steady)
    /\ call # "traverse" => walk = NoWalk

\* A set as a sequence: every member, in some order.
LEMMA SetToSeqIs ==
  ASSUME NEW S, IsFiniteSet(S)
  PROVE  SetToSeq(S) \in Seq(S) /\ Range(SetToSeq(S)) = S
<1> DEFINE n == Cardinality(S)
           q == SetToSeq(S)
<1>1. n \in Nat /\ ExistsBijection(1 .. n, S)
  BY FS_CardinalityType
<1>2. \E f \in [1 .. n -> S] : IsInjective(f)
  BY <1>1 DEF ExistsBijection, Bijection, Injection
<1>3. q \in [1 .. n -> S] /\ IsInjective(q)
  BY <1>2 DEF SetToSeq
<1> HIDE DEF q
<1>4. q \in Injection(1 .. n, S)
  BY <1>3 DEF Injection
<1>5. IsFiniteSet(1 .. n) /\ Cardinality(1 .. n) = n
  BY <1>1, FS_Interval
<1>6. q \in Surjection(1 .. n, S)
  BY <1>4, <1>5, FS_Injection
<1>7. \A i \in S : \E k \in 1 .. n : q[k] = i
  BY <1>6 DEF Surjection
<1>8. q \in Seq(S) /\ DOMAIN q = 1 .. n
  <2> HIDE DEF n
  <2>1. QED
    BY <1>1, <1>3, InSeq
<1>9. Range(q) = S
  BY <1>3, <1>7, <1>8 DEF Range
<1>10. QED
  BY <1>8, <1>9 DEF q

\* No edge leads to a seed.
LEMMA ChainStarts ==
  ASSUME NEW s \in Seeds, NEW direction
  PROVE  IsChain(<<>>, s, direction)
<1>1. s \in Node
  BY WalkAssumption
<1>2. [i \in 0 .. 0 |-> s] \in [0 .. 0 -> Node] /\ [i \in 0 .. 0 |-> s][0] = s
  BY <1>1
<1>3. Len(<<>>) = 0 /\ \A i \in 1 .. 0 : FALSE
  BY EmptySeq
<1>4. QED
  BY <1>2, <1>3 DEF IsChain

\* A chain goes on by an edge that is followed.
LEMMA ChainGoesOn ==
  ASSUME NEW path \in Seq(EdgeId), NEW n \in Node, NEW direction, IsChain(path, n, direction),
         NEW e \in EdgeId, Follows(e, n, direction)
  PROVE  IsChain(Append(path, e), Far(e, n), direction)
<1> DEFINE len == Len(path)
           longer == Append(path, e)
           far == Far(e, n)
<1>1. PICK s \in Seeds, stops \in [0 .. len -> Node] :
        /\ stops[0] = s /\ stops[len] = n
        /\ \A i \in 1 .. len :
              Follows(path[i], stops[i - 1], direction) /\ Far(path[i], stops[i - 1]) = stops[i]
  BY DEF IsChain
<1>2. /\ len \in Nat /\ Len(longer) = len + 1 /\ longer[len + 1] = e
      /\ \A i \in 1 .. len : longer[i] = path[i]
  BY AppendProperties, LenProperties
<1>3. far \in Node
  BY FarIsANode
<1> HIDE DEF len, longer, far
<1> DEFINE more == [i \in 0 .. len + 1 |-> IF i <= len THEN stops[i] ELSE far]
<1>4. /\ more \in [0 .. len + 1 -> Node]
      /\ \A i \in 0 .. len : more[i] = stops[i]
      /\ more[len + 1] = far
  <2>1. \A i \in 0 .. len + 1 : (IF i <= len THEN stops[i] ELSE far) \in Node
    BY <1>1, <1>2, <1>3
  <2>2. QED
    BY <1>2, <2>1
<1> HIDE DEF more
<1>5. more[0] = s
  BY <1>1, <1>2, <1>4
<1>6. ASSUME NEW i \in 1 .. len + 1
      PROVE  Follows(longer[i], more[i - 1], direction) /\ Far(longer[i], more[i - 1]) = more[i]
  <2>1. CASE i = len + 1
    <3>1. i - 1 = len /\ more[i - 1] = n /\ longer[i] = e /\ more[i] = far
      BY <1>1, <1>2, <1>4, <2>1
    <3>2. QED
      BY <3>1 DEF far
  <2>2. CASE i \in 1 .. len
    <3>1. i - 1 \in 0 .. len /\ i \in 0 .. len
      BY <1>2, <2>2
    <3>2. more[i] = stops[i] /\ more[i - 1] = stops[i - 1] /\ longer[i] = path[i]
      BY <1>2, <1>4, <2>2, <3>1
    <3>3. QED
      BY <1>1, <2>2, <3>2
  <2>3. QED
    BY <1>2, <2>1, <2>2
<1>7. QED
  BY <1>2, <1>4, <1>5, <1>6 DEF IsChain, longer, far

----

\* The frame an edge leads to.
Onward(frame, e) == Frame(Far(e, frame.node), frame.depth + 1, Append(frame.path, e))

\* What taking a row comes to.
Taken(w, v, frame, e) ==
    /\ v \in Walks /\ v.direction = w.direction /\ v.maxDepth = w.maxDepth
    /\ v.maxVisited = w.maxVisited /\ v.maxEdges = w.maxEdges
    /\ v.scanned = w.scanned + 1 /\ v.edges = w.edges \cup {e}

\* It stops the walk,
Stopped(w, v) ==
    /\ v.phase = "done" /\ v.truncated = w.truncated \cup {"visited"}
    /\ v.visited = w.visited /\ v.nodes = w.nodes /\ v.queue = w.queue

\* leads to nothing new,
Known(w, v, frame, e) ==
    /\ v.phase = "bfs" /\ v.truncated = w.truncated
    /\ v.visited = w.visited /\ v.nodes = w.nodes /\ v.queue = w.queue
    /\ e \in w.edges \/ Far(e, frame.node) \in w.visited

\* or to a node not seen before.
Discovered(w, v, frame, e) ==
    /\ v.phase = "bfs" /\ v.truncated = w.truncated
    /\ ~(Cardinality(w.visited) >= w.maxVisited) /\ Far(e, frame.node) \notin w.visited
    /\ v.visited = w.visited \cup {Far(e, frame.node)}
    /\ v.queue = Append(w.queue, Onward(frame, e)) /\ v.nodes = Append(w.nodes, Onward(frame, e))

\* Where a row leads is a frame.
LEMMA NextIsAFrame ==
  ASSUME NEW frame \in Frames, NEW e \in EdgeId
  PROVE  Onward(frame, e) \in Frames
<1>1. frame.node \in Node /\ frame.depth \in Nat /\ frame.path \in Seq(EdgeId)
  BY DEF Frames
<1>2. Far(e, frame.node) \in Node /\ Append(frame.path, e) \in Seq(EdgeId) /\ frame.depth + 1 \in Nat
  BY <1>1, FarIsANode, AppendProperties
<1>3. QED
  BY <1>2 DEF Onward, Frame, Frames

\* A row is one of these, and nothing once the walk is done.
LEMMA TakenIs ==
  ASSUME NEW w \in Walks, NEW frame \in Frames, NEW e \in EdgeId
  PROVE  LET v == TakeEdge(w, frame, e)
         IN  /\ v \in Walks
             /\ w.phase = "done" => v = w
             /\ w.phase = "bfs" =>
                  /\ Taken(w, v, frame, e)
                  /\ Stopped(w, v) \/ Known(w, v, frame, e) \/ Discovered(w, v, frame, e)
<1> DEFINE v == TakeEdge(w, frame, e)
           n == Far(e, frame.node)
           counted == [w EXCEPT !.scanned = @ + 1]
           met == [counted EXCEPT !.edges = @ \cup {e}]
           next == Onward(frame, e)
<1>1. CASE w.phase = "done"
  BY <1>1 DEF TakeEdge
<1>2. CASE w.phase # "done"
  <2>1. frame.node \in Node /\ n \in Node /\ next \in Frames
    BY FarIsANode, NextIsAFrame DEF Frames
  <2>2. /\ counted \in Walks /\ counted.phase = w.phase /\ counted.scanned = w.scanned + 1
        /\ counted.direction = w.direction /\ counted.maxDepth = w.maxDepth
        /\ counted.maxVisited = w.maxVisited /\ counted.maxEdges = w.maxEdges
        /\ counted.truncated = w.truncated /\ counted.visited = w.visited
        /\ counted.nodes = w.nodes /\ counted.queue = w.queue /\ counted.edges = w.edges
    <3>1. w.scanned \in Nat /\ w.scanned + 1 \in Nat
      BY DEF Walks
    <3> DEFINE more == w.scanned + 1
    <3>2. counted = [w EXCEPT !.scanned = more]
      OBVIOUS
    <3> HIDE DEF more
    <3>3. QED
      BY <3>1, <3>2 DEF Walks, more
  <2>3. CASE e \in w.edges
    <3>1. v = counted
      BY <1>2, <2>3 DEF TakeEdge
    <3> HIDE DEF v, counted
    <3>2. w.edges = w.edges \cup {e}
      BY <2>3
    <3>3. w.phase = "bfs" => Taken(w, v, frame, e) /\ Known(w, v, frame, e)
      BY <2>2, <2>3, <3>1, <3>2 DEF Taken, Known
    <3>4. QED
      BY <1>2, <2>2, <3>1, <3>3 DEF v
  <2>4. CASE e \notin w.edges
    <3>1. v = Visit(met, frame, e, n)
      BY <1>2, <2>4 DEF TakeEdge
    <3> HIDE DEF counted
    <3>2. /\ met \in Walks /\ met.phase = w.phase /\ met.scanned = w.scanned + 1
          /\ met.direction = w.direction /\ met.maxDepth = w.maxDepth
          /\ met.maxVisited = w.maxVisited /\ met.maxEdges = w.maxEdges
          /\ met.truncated = w.truncated /\ met.visited = w.visited
          /\ met.nodes = w.nodes /\ met.queue = w.queue /\ met.edges = w.edges \cup {e}
      BY <2>2 DEF Walks
    <3> HIDE DEF met, v, n
    <3>3. CASE Cardinality(w.visited) >= w.maxVisited
      <4>1. v = Stop(Mark(met, "visited"))
        BY <1>2, <3>1, <3>2, <3>3 DEF Visit
      <4>2. /\ v \in Walks /\ v.phase = "done" /\ v.scanned = met.scanned
            /\ v.direction = met.direction /\ v.maxDepth = met.maxDepth
            /\ v.maxVisited = met.maxVisited /\ v.maxEdges = met.maxEdges
            /\ v.truncated = met.truncated \cup {"visited"} /\ v.visited = met.visited
            /\ v.nodes = met.nodes /\ v.queue = met.queue /\ v.edges = met.edges
        BY <3>2, <4>1 DEF Stop, Mark, Walks, Cuts
      <4>3. Taken(w, v, frame, e) /\ Stopped(w, v)
        BY <3>2, <4>2 DEF Taken, Stopped
      <4>4. QED
        BY <1>2, <4>2, <4>3 DEF v
    <3>4. CASE ~(Cardinality(w.visited) >= w.maxVisited) /\ n \in w.visited
      <4>1. v = met
        BY <1>2, <3>1, <3>2, <3>4 DEF Visit
      <4>2. w.phase = "bfs" => Taken(w, v, frame, e) /\ Known(w, v, frame, e)
        BY <3>2, <3>4, <4>1 DEF Taken, Known, n
      <4>3. QED
        BY <1>2, <3>2, <4>1, <4>2 DEF v
    <3>5. CASE ~(Cardinality(w.visited) >= w.maxVisited) /\ n \notin w.visited
      <4>1. v = [met EXCEPT !.visited = @ \cup {n}, !.queue = Append(@, next),
                            !.nodes = Append(@, next)]
        BY <1>2, <3>1, <3>2, <3>5 DEF Visit, Onward, n
      <4>2. Append(met.queue, next) \in Seq(Frames) /\ Append(met.nodes, next) \in Seq(Frames)
        <5>1. met.queue \in Seq(Frames) /\ met.nodes \in Seq(Frames)
          BY <3>2 DEF Walks
        <5> HIDE DEF next
        <5>2. QED
          BY <2>1, <5>1, AppendProperties
      <4> HIDE DEF next
      <4>3. /\ v \in Walks /\ v.phase = met.phase /\ v.scanned = met.scanned
            /\ v.direction = met.direction /\ v.maxDepth = met.maxDepth
            /\ v.maxVisited = met.maxVisited /\ v.maxEdges = met.maxEdges
            /\ v.truncated = met.truncated /\ v.visited = met.visited \cup {n}
            /\ v.nodes = Append(met.nodes, next) /\ v.queue = Append(met.queue, next)
            /\ v.edges = met.edges
        BY <2>1, <3>2, <4>1, <4>2 DEF Walks
      <4>4. w.phase = "bfs" => Taken(w, v, frame, e) /\ Discovered(w, v, frame, e)
        BY <3>2, <3>5, <4>3 DEF Taken, Discovered, n, next
      <4>5. QED
        BY <1>2, <4>3, <4>4 DEF v
    <3>6. QED
      BY <3>3, <3>4, <3>5
  <2>5. QED
    BY <2>3, <2>4
<1>3. QED
  BY <1>1, <1>2

\* The states a scan goes through, one for each row.
ScanRuns(s, begun, frame, edges) ==
    /\ s[0] = begun
    /\ FoldLeft(LAMBDA w, e : TakeEdge(w, frame, e), begun, edges) = s[Len(edges)]
    /\ \A i \in 1 .. Len(edges) : s[i] = TakeEdge(s[i - 1], frame, edges[i])

\* A scan takes its rows in turn.
LEMMA ScanSteps ==
  ASSUME NEW begun \in Walks, NEW frame \in Frames, NEW edges \in Seq(EdgeId)
  PROVE  \E s \in [0 .. Len(edges) -> Walks] : ScanRuns(s, begun, frame, edges)
<1> DEFINE n == Len(edges)
           Turn(x, i) == TakeEdge(x, frame, edges[i])
           step == [t \in (1 .. n) \X Walks |-> Turn(t[2], t[1])]
           Body(h, s) == IF s = {} THEN begun ELSE Turn(h[s \ {Max(s)}], Max(s))
<1>1. n \in Nat /\ DOMAIN edges = 1 .. n
  BY LenProperties
<1>2. /\ begun \in Walks
      /\ \A x \in Walks, i \in 1 .. n : Turn(x, i) \in Walks
  <2> SUFFICES ASSUME NEW x \in Walks, NEW i \in 1 .. n PROVE TakeEdge(x, frame, edges[i]) \in Walks
    OBVIOUS
  <2>1. edges[i] \in EdgeId
    BY <1>1, LenProperties
  <2>2. QED
    BY <2>1, TakenIs
<1> HIDE DEF Turn
<1>3. step \in [(1 .. n) \X Walks -> Walks]
  <2> SUFFICES ASSUME NEW t \in (1 .. n) \X Walks PROVE Turn(t[2], t[1]) \in Walks
    OBVIOUS
  <2>1. t[1] \in 1 .. n /\ t[2] \in Walks
    OBVIOUS
  <2>2. QED
    BY <1>2, <2>1
<1>4. PICK g \in [SUBSET (1 .. n) -> Walks] : FoldsBy(g, begun, step, n)
  <2>1. n \in Nat /\ begun \in Walks
    BY <1>1, <1>2
  <2> HIDE DEF step, n
  <2>2. QED
    BY <1>3, <2>1, FoldExists
<1>5. \A s \in SUBSET (1 .. n) : g[s] = Body(g, s)
  <2> SUFFICES ASSUME NEW s \in SUBSET (1 .. n), s # {} PROVE g[s] = Turn(g[s \ {Max(s)}], Max(s))
    BY <1>4 DEF FoldsBy
  <2>1. Max(s) \in 1 .. n /\ s \ {Max(s)} \in SUBSET (1 .. n)
    BY <1>1, MaxIs
  <2>2. g[s \ {Max(s)}] \in Walks
    BY <1>4, <2>1
  <2>3. step[<<Max(s), g[s \ {Max(s)}]>>] = Turn(g[s \ {Max(s)}], Max(s))
    BY <2>1, <2>2
  <2> HIDE DEF step
  <2>4. QED
    BY <1>4, <2>3 DEF FoldsBy
<1>6. g = [s \in SUBSET (1 .. n) |-> Body(g, s)]
  <2> HIDE DEF Body
  <2>1. QED
    BY <1>4, <1>5
<1>7. FoldLeft(LAMBDA w, e : TakeEdge(w, frame, e), begun, edges) = (CHOOSE h : h = [s \in SUBSET DOMAIN edges |-> Body(h, s)])[DOMAIN edges]
  BY DEF Turn, FoldLeft, MapThenFoldSet
<1>8. PICK h : h = [s \in SUBSET (1 .. n) |-> Body(h, s)] /\ FoldLeft(LAMBDA w, e : TakeEdge(w, frame, e), begun, edges) = h[1 .. n]
  <2> HIDE DEF Body
  <2>1. QED
    BY <1>1, <1>6, <1>7
<1>9. StepsBy(h, Walks, begun, step, n)
  <2> SUFFICES ASSUME NEW s \in SUBSET (1 .. n)
      PROVE  /\ s = {} => h[s] = begun
             /\ s # {} /\ h[s \ {Max(s)}] \in Walks => h[s] = step[<<Max(s), h[s \ {Max(s)}]>>]
    <3> HIDE DEF step, n
    <3>1. QED
      BY DEF StepsBy
  <2>1. h[s] = Body(h, s)
    <3> HIDE DEF Body
    <3>1. QED
      BY <1>8
  <2>2. s # {} => Max(s) \in 1 .. n
    BY <1>1, MaxIs
  <2>3. s # {} /\ h[s \ {Max(s)}] \in Walks =>
          step[<<Max(s), h[s \ {Max(s)}]>>] = Turn(h[s \ {Max(s)}], Max(s))
    BY <2>2
  <2> HIDE DEF step
  <2>4. QED
    BY <2>1, <2>3
<1>10. PICK f \in [0 .. n -> Walks] :
          f[n] = h[1 .. n] /\ RunsBy(f, begun, step, n)
  <2>1. n \in Nat /\ begun \in Walks
    BY <1>1, <1>2
  <2> HIDE DEF step, n
  <2>2. QED
    BY <1>3, <1>9, <2>1, FoldSteps
<1>11. ASSUME NEW i \in 1 .. n PROVE f[i] = Turn(f[i - 1], i)
  <2>1. i - 1 \in 0 .. n
    BY <1>1
  <2>2. f[i - 1] \in Walks
    BY <1>10, <2>1
  <2>3. step[<<i, f[i - 1]>>] = Turn(f[i - 1], i)
    BY <2>2
  <2> HIDE DEF step
  <2>4. QED
    BY <1>10, <2>3 DEF RunsBy
<1>12. QED
  BY <1>8, <1>10, <1>11 DEF Turn, RunsBy, ScanRuns

\* The members of a sequence.
LEMMA SeqRange ==
  ASSUME NEW S, NEW s \in Seq(S)
  PROVE  /\ s \in Seq(Range(s)) /\ Len(s) \in Nat /\ DOMAIN s = 1 .. Len(s)
         /\ \A i \in DOMAIN s : s[i] \in S /\ s[i] \in Range(s)
         /\ Range(s) \subseteq S
<1>1. Len(s) \in Nat /\ DOMAIN s = 1 .. Len(s) /\ s \in [1 .. Len(s) -> S]
  BY LenProperties
<1>2. s \in [1 .. Len(s) -> Range(s)] /\ Range(s) \subseteq S
  BY <1>1 DEF Range
<1>3. s \in Seq(Range(s))
  BY <1>1, <1>2, InSeq
<1>4. QED
  BY <1>1, <1>2, <1>3

\* What is left when the first is taken.
LEMMA TailIs ==
  ASSUME NEW S, NEW s \in Seq(S), s # <<>>
  PROVE  /\ Head(s) = s[1] /\ Head(s) \in S /\ 1 \in DOMAIN s
         /\ Tail(s) \in Seq(S) /\ Range(s) = Range(Tail(s)) \cup {Head(s)}
         /\ \A i \in DOMAIN Tail(s) : i + 1 \in DOMAIN s /\ Tail(s)[i] = s[i + 1]
<1>1. /\ Head(s) \in S /\ Tail(s) \in Seq(S) /\ Len(s) \in Nat /\ Len(s) # 0
      /\ Len(Tail(s)) = Len(s) - 1 /\ \A i \in 1 .. Len(Tail(s)) : Tail(s)[i] = s[i + 1]
  BY HeadTailProperties, LenProperties, EmptySeq
<1>2. DOMAIN s = 1 .. Len(s) /\ DOMAIN Tail(s) = 1 .. Len(s) - 1 /\ Head(s) = s[1]
  BY <1>1, LenProperties, HeadTailProperties
<1>3. 1 \in DOMAIN s /\ \A i \in DOMAIN Tail(s) : i + 1 \in DOMAIN s /\ Tail(s)[i] = s[i + 1]
  BY <1>1, <1>2
<1>4. \A i \in DOMAIN s : i = 1 \/ (i - 1 \in DOMAIN Tail(s) /\ (i - 1) + 1 = i)
  BY <1>1, <1>2
<1>5. \A i \in DOMAIN s : s[i] = Head(s) \/ s[i] \in Range(Tail(s))
  BY <1>2, <1>3, <1>4 DEF Range
<1>6. Range(s) = Range(Tail(s)) \cup {Head(s)}
  <2>1. Range(s) \subseteq Range(Tail(s)) \cup {Head(s)}
    <3>1. SUFFICES ASSUME NEW e \in Range(s) PROVE e \in Range(Tail(s)) \cup {Head(s)}
      OBVIOUS
    <3>2. PICK i \in DOMAIN s : e = s[i]
      BY DEF Range
    <3>3. QED
      BY <1>5, <3>2
  <2>2. Range(Tail(s)) \subseteq Range(s)
    BY <1>3 DEF Range
  <2>3. Head(s) \in Range(s)
    BY <1>2, <1>3 DEF Range
  <2>4. QED
    BY <2>1, <2>2, <2>3
<1>7. QED
  BY <1>1, <1>2, <1>3, <1>6

\* An edge that is followed from a node joins it to the far end.
LEMMA EndsAre ==
  ASSUME NEW e \in EdgeId, NEW n, NEW direction \in Direction, Follows(e, n, direction)
  PROVE  {Links[e].subject, Links[e].object} = {n, Far(e, n)}
<1>1. Links[e].subject = n \/ Links[e].object = n
  BY DEF Follows, Direction
<1>2. QED
  BY <1>1 DEF Far

\* The frames of a walk.
LEMMA SeedFramesAre == SeedFrames \subseteq Frames
<1>1. <<>> \in Seq(EdgeId)
  BY EmptySeq
<1>2. \A s \in Seeds : Frame(s, 0, <<>>) \in Frames
  BY <1>1, WalkAssumption DEF Frames, Frame
<1>3. QED
  BY <1>2 DEF SeedFrames

\* Those of the seeds are among them.
LEMMA FramesAre ==
  ASSUME NEW w \in Walks
  PROVE  /\ FramesOf(w) \subseteq Frames /\ Range(w.nodes) \subseteq FramesOf(w)
         /\ \A s \in Seeds : Frame(s, 0, <<>>) \in FramesOf(w)
<1>1. w.nodes \in Seq(Frames)
  BY DEF Walks
<1>2. Range(w.nodes) \subseteq Frames
  BY <1>1, SeqRange
<1>3. QED
  BY <1>2, SeedFramesAre DEF FramesOf, SeedFrames

----

\* During the scan of a frame: the others are in order, or have been explored.
Under(w, f, kept) ==
    /\ Range(w.queue) \subseteq FramesOf(w)
    /\ \A i, j \in DOMAIN w.queue : i <= j => w.queue[i].depth <= w.queue[j].depth
    /\ \A i \in DOMAIN w.queue : f.depth <= w.queue[i].depth
    /\ \A g \in FramesOf(w) : g.depth <= f.depth + 1
    /\ \A e \in w.edges : {Links[e].subject, Links[e].object} \subseteq w.visited
    /\ \A g \in FramesOf(w) : g = f \/ Settled(w, g, kept)

\* Whatever is nearer than the frame's node has been visited.
LEMMA NearestVisited ==
  ASSUME NEW w \in Walks, NEW kept \in SUBSET EdgeId, NEW f \in FramesOf(w),
         Found(w, kept), Under(w, f, kept), f.depth < w.maxDepth,
         NEW n \in Within(f.depth, Seeds, kept, w.direction)
  PROVE  n \in w.visited
<1> DEFINE d == f.depth
<1>1. FramesOf(w) \subseteq Frames /\ d \in Nat /\ w.maxDepth \in Nat
  BY FramesAre DEF Frames, Walks
<1>2. PICK stops \in [0 .. d -> Node] :
        /\ stops[0] \in Seeds /\ stops[d] = n
        /\ \A i \in 1 .. d :
              \/ stops[i] = stops[i - 1]
              \/ \E e \in kept :
                    Follows(e, stops[i - 1], w.direction) /\ stops[i] = Far(e, stops[i - 1])
  BY DEF Within
<1> HIDE DEF d
<1> DEFINE G == {i \in 0 .. d : Reached(w, stops[i], i)}
<1>3. 0 \in G
  <2>1. Frame(stops[0], 0, <<>>) \in FramesOf(w)
    BY <1>2, FramesAre
  <2>2. Frame(stops[0], 0, <<>>).node = stops[0] /\ Frame(stops[0], 0, <<>>).depth <= 0
    BY DEF Frame
  <2>3. Reached(w, stops[0], 0)
    BY <2>1, <2>2 DEF Reached
  <2>4. QED
    BY <1>1, <2>3
<1>4. ASSUME NEW i \in 1 .. d, i - 1 \in G PROVE i \in G
  <2>1. PICK g \in FramesOf(w) : g.node = stops[i - 1] /\ g.depth <= i - 1
    BY <1>4 DEF Reached
  <2>2. g.depth \in Nat /\ i \in Nat /\ i <= d
    BY <1>1, <2>1 DEF Frames
  <2>3. CASE stops[i] = stops[i - 1]
    <3>1. g.depth <= i
      BY <2>1, <2>2
    <3>2. Reached(w, stops[i], i)
      BY <2>1, <2>3, <3>1 DEF Reached
    <3>3. QED
      BY <3>2
  <2>4. CASE stops[i] # stops[i - 1]
    <3>1. PICK e \in kept : Follows(e, g.node, w.direction) /\ stops[i] = Far(e, g.node)
      BY <1>2, <2>1, <2>4
    <3>2. g.depth < d /\ ~(g.depth >= w.maxDepth)
      BY <1>1, <2>1, <2>2 DEF d
    <3>3. g # f
      BY <1>1, <3>2 DEF d
    <3>4. g \notin Range(w.queue)
      <4>1. ASSUME NEW j \in DOMAIN w.queue, w.queue[j] = g PROVE FALSE
        <5>1. d <= g.depth
          BY <4>1 DEF Under, d
        <5>2. QED
          BY <1>1, <2>2, <3>2, <5>1
      <4>2. QED
        BY <4>1 DEF Range
    <3>5. Explored(w, g, kept)
      BY <3>2, <3>3, <3>4 DEF Under, Settled
    <3>6. PICK h \in FramesOf(w) : h.node = stops[i] /\ h.depth <= g.depth + 1
      BY <3>1, <3>5 DEF Explored, Reached
    <3>7. h.depth \in Nat
      BY <1>1 DEF Frames
    <3>8. h.depth <= i
      BY <2>1, <2>2, <3>6, <3>7
    <3>9. Reached(w, stops[i], i)
      BY <3>6, <3>8 DEF Reached
    <3>10. QED
      BY <3>9
  <2>5. QED
    BY <2>3, <2>4
<1>5. 0 .. d \subseteq G
  <2> HIDE DEF G
  <2>1. QED
    BY <1>1, <1>3, <1>4, Upward
<1>6. Reached(w, n, d)
  BY <1>1, <1>2, <1>5
<1>7. QED
  BY <1>6 DEF Found, Reached

\* A walk that visits nothing new has found what it had.
LEMMA FoundStays ==
  ASSUME NEW w, NEW v, NEW kept, Found(w, kept), v.nodes = w.nodes, v.visited = w.visited,
         v.direction = w.direction, v.maxVisited = w.maxVisited, w.edges \subseteq v.edges,
         v.scanned <= v.maxEdges
  PROVE  Found(v, kept)
<1>1. FramesOf(v) = FramesOf(w)
  BY DEF FramesOf
<1>2. \A g \in FramesOf(v) : Led(v, g)
  BY <1>1 DEF Found, Led
<1>3. QED
  BY <1>1, <1>2 DEF Found

\* A node stays settled as a walk goes on,
LEMMA SettledStays ==
  ASSUME NEW w, NEW v, NEW kept, NEW g, Settled(w, g, kept), FramesOf(w) \subseteq FramesOf(v),
         Range(w.queue) \subseteq Range(v.queue), v.direction = w.direction, v.maxDepth = w.maxDepth,
         w.truncated \subseteq v.truncated
  PROVE  Settled(v, g, kept)
<1>1. \A n, k : Reached(w, n, k) => Reached(v, n, k)
  BY DEF Reached
<1>2. Explored(w, g, kept) => Explored(v, g, kept)
  BY <1>1 DEF Explored
<1>3. QED
  BY <1>2 DEF Settled

\* and so do the others while a frame is scanned.
LEMMA UnderStays ==
  ASSUME NEW w, NEW v, NEW kept, NEW f, NEW e, Under(w, f, kept),
         v.nodes = w.nodes, v.visited = w.visited, v.queue = w.queue,
         v.direction = w.direction, v.maxDepth = w.maxDepth, v.truncated = w.truncated,
         v.edges = w.edges \cup {e}, {Links[e].subject, Links[e].object} \subseteq v.visited
  PROVE  Under(v, f, kept)
<1>1. FramesOf(v) = FramesOf(w)
  BY DEF FramesOf
<1>2. \A g \in FramesOf(v) : g = f \/ Settled(v, g, kept)
  BY <1>1, SettledStays DEF Under
<1>3. \A i \in v.edges : {Links[i].subject, Links[i].object} \subseteq v.visited
  BY DEF Under
<1>4. QED
  BY <1>1, <1>2, <1>3 DEF Under

\* What is appended, when a node is discovered.
LEMMA FramesGrow ==
  ASSUME NEW w \in Walks, NEW v, NEW f \in Frames, NEW e \in EdgeId, Discovered(w, v, f, e)
  PROVE  /\ FramesOf(v) = FramesOf(w) \cup {Onward(f, e)}
         /\ Range(v.nodes) = Range(w.nodes) \cup {Onward(f, e)}
         /\ Range(v.queue) = Range(w.queue) \cup {Onward(f, e)}
         /\ DOMAIN w.queue = 1 .. Len(w.queue) /\ Len(w.queue) \in Nat
         /\ DOMAIN v.queue = 1 .. Len(w.queue) + 1
         /\ \A i \in 1 .. Len(w.queue) : v.queue[i] = w.queue[i]
         /\ v.queue[Len(w.queue) + 1] = Onward(f, e)
<1>1. w.nodes \in Seq(Frames) /\ w.queue \in Seq(Frames)
  BY DEF Walks
<1>2. w.nodes \in Seq(Range(w.nodes)) /\ w.queue \in Seq(Range(w.queue))
  BY <1>1, SeqRange
<1>3. v.nodes = Append(w.nodes, Onward(f, e)) /\ v.queue = Append(w.queue, Onward(f, e))
  BY DEF Discovered
<1>4. Range(v.nodes) = Range(w.nodes) \cup {Onward(f, e)}
  BY <1>2, <1>3, Appends
<1>5. /\ Range(v.queue) = Range(w.queue) \cup {Onward(f, e)}
      /\ DOMAIN w.queue = 1 .. Len(w.queue) /\ Len(w.queue) \in Nat
      /\ DOMAIN v.queue = 1 .. Len(w.queue) + 1
      /\ \A i \in 1 .. Len(w.queue) : v.queue[i] = w.queue[i]
      /\ v.queue[Len(w.queue) + 1] = Onward(f, e)
  <2> DEFINE q == w.queue
             t == v.queue
             g == Onward(f, e)
  <2>1. q \in Seq(Range(q)) /\ t = Append(q, g)
    BY <1>2, <1>3
  <2> HIDE DEF q, t, g
  <2>2. Range(t) = Range(q) \cup {g} /\ Len(q) \in Nat
    BY <2>1, Appends
  <2>3. DOMAIN q = 1 .. Len(q) /\ DOMAIN t = 1 .. Len(q) + 1
    BY <2>1, Appends
  <2>4. (\A i \in 1 .. Len(q) : t[i] = q[i]) /\ t[Len(q) + 1] = g
    BY <2>1, Appends
  <2>5. QED
    BY <2>2, <2>3, <2>4 DEF q, t, g
<1>6. QED
  BY <1>4, <1>5 DEF FramesOf

\* The frame a row leads to.
LEMMA NextIs ==
  ASSUME NEW f, NEW e
  PROVE  /\ Onward(f, e).node = Far(e, f.node) /\ Onward(f, e).depth = f.depth + 1
         /\ Onward(f, e).path = Append(f.path, e)
  BY DEF Onward, Frame

\* A node is discovered at its least depth: whatever is nearer had been visited.
LEMMA FoundGrows ==
  ASSUME NEW w \in Walks, NEW v, NEW kept \in SUBSET EdgeId, NEW f \in FramesOf(w), NEW e \in EdgeId,
         Found(w, kept), Under(w, f, kept), f.depth < w.maxDepth,
         Follows(e, f.node, w.direction), Taken(w, v, f, e), Discovered(w, v, f, e),
         v.scanned <= v.maxEdges
  PROVE  Found(v, kept)
<1> DEFINE g == Onward(f, e)
<1>1. FramesOf(w) \subseteq Frames /\ f \in Frames /\ g \in Frames
  BY FramesAre, NextIsAFrame
<1>2. /\ f.node \in Node /\ f.depth \in Nat /\ f.path \in Seq(EdgeId)
      /\ g.node = Far(e, f.node) /\ g.depth = f.depth + 1 /\ g.path = Append(f.path, e)
  BY <1>1, NextIs DEF Frames
<1>3. FramesOf(v) = FramesOf(w) \cup {g} /\ Range(v.nodes) = Range(w.nodes) \cup {g}
  BY <1>1, FramesGrow
<1>4. w.edges \subseteq v.edges /\ e \in v.edges /\ v.direction = w.direction /\ v.maxVisited = w.maxVisited
  BY DEF Taken
<1> HIDE DEF g
<1>5. v.visited = {h.node : h \in FramesOf(v)}
  BY <1>2, <1>3 DEF Found, Discovered
<1>6. Cardinality(v.visited) <= v.maxVisited
  <2>1. IsFiniteSet(w.visited) /\ w.visited \in SUBSET Node /\ w.maxVisited \in Nat
    BY GraphAssumption, FS_Subset DEF Walks
  <2>2. Cardinality(w.visited) \in Nat
    BY <2>1, FS_CardinalityType
  <2>3. v.visited = w.visited \cup {g.node} /\ g.node \notin w.visited
    BY <1>2 DEF Discovered
  <2>4. Cardinality(v.visited) = Cardinality(w.visited) + 1
    BY <2>1, <2>3, FS_AddElement
  <2>5. ~(Cardinality(w.visited) >= w.maxVisited)
    BY DEF Discovered
  <2>6. QED
    BY <1>4, <2>1, <2>2, <2>4, <2>5
<1>7. Led(v, g)
  <2>1. Led(w, f)
    BY DEF Found
  <2>2. Len(g.path) = g.depth
    BY <1>2, <2>1, AppendProperties DEF Led
  <2>3. IsChain(g.path, g.node, v.direction)
    BY <1>2, <1>4, <2>1, ChainGoesOn DEF Led
  <2>4. Range(g.path) \subseteq v.edges
    <3> DEFINE p == f.path
               q == g.path
    <3>1. p \in Seq(Range(p)) /\ q = Append(p, e)
      BY <1>2, SeqRange
    <3>2. Range(p) \subseteq v.edges
      BY <1>4, <2>1 DEF Led
    <3> HIDE DEF p, q
    <3>3. Range(q) = Range(p) \cup {e}
      BY <3>1, Appends
    <3>4. QED
      BY <1>4, <3>2, <3>3 DEF q
  <2>5. QED
    BY <2>2, <2>3, <2>4 DEF Led
<1>8. \A h \in FramesOf(w) : Led(v, h)
  BY <1>4 DEF Found, Led
<1>9. g.depth # 0 /\ g.node \notin Within(g.depth - 1, Seeds, kept, v.direction)
  <2>1. g.depth # 0 /\ g.depth - 1 = f.depth
    BY <1>2
  <2>2. g.node \notin w.visited
    BY <1>2 DEF Discovered
  <2>3. g.node \notin Within(f.depth, Seeds, kept, w.direction)
    BY <2>2, NearestVisited
  <2>4. QED
    BY <1>4, <2>1, <2>3
<1>10. \A h \in Range(w.nodes) :
          h.depth # 0 /\ h.node \notin Within(h.depth - 1, Seeds, kept, v.direction)
  BY <1>4 DEF Found
<1>11. QED
  BY <1>3, <1>5, <1>6, <1>7, <1>8, <1>9, <1>10 DEF Found

\* The node discovered stands last in the queue.
LEMMA UnderGrows ==
  ASSUME NEW w \in Walks, NEW v, NEW kept \in SUBSET EdgeId, NEW f \in FramesOf(w), NEW e \in EdgeId,
         Found(w, kept), Under(w, f, kept),
         Follows(e, f.node, w.direction), Taken(w, v, f, e), Discovered(w, v, f, e)
  PROVE  Under(v, f, kept)
<1> DEFINE g == Onward(f, e)
           l == Len(w.queue)
<1>1. FramesOf(w) \subseteq Frames /\ f \in Frames /\ g \in Frames
  BY FramesAre, NextIsAFrame
<1>2. /\ f.node \in Node /\ f.depth \in Nat
      /\ g.node = Far(e, f.node) /\ g.depth = f.depth + 1
  BY <1>1, NextIs DEF Frames
<1>3. /\ FramesOf(v) = FramesOf(w) \cup {g} /\ Range(v.queue) = Range(w.queue) \cup {g}
      /\ DOMAIN w.queue = 1 .. l /\ l \in Nat /\ DOMAIN v.queue = 1 .. l + 1
      /\ \A i \in 1 .. l : v.queue[i] = w.queue[i]
      /\ v.queue[l + 1] = g
  BY <1>1, FramesGrow
<1>4. /\ v.edges = w.edges \cup {e} /\ v.direction = w.direction /\ v.maxDepth = w.maxDepth
      /\ v.truncated = w.truncated /\ v.visited = w.visited \cup {g.node}
  BY <1>2 DEF Taken, Discovered
<1> HIDE DEF g, l
<1>5. \A i \in 1 .. l : w.queue[i] \in FramesOf(w)
  BY <1>3 DEF Under, Range
<1>6. ASSUME NEW i \in 1 .. l + 1, NEW j \in 1 .. l + 1, i <= j
      PROVE  v.queue[i].depth <= v.queue[j].depth
  <2>1. CASE j \in 1 .. l
    <3>1. i \in 1 .. l
      BY <1>3, <1>6, <2>1
    <3>2. QED
      BY <1>3, <1>6, <2>1, <3>1 DEF Under
  <2>2. CASE j = l + 1 /\ i \in 1 .. l
    <3>1. v.queue[i].depth <= f.depth + 1
      BY <1>3, <1>5, <2>2 DEF Under
    <3>2. QED
      BY <1>2, <1>3, <2>2, <3>1
  <2>3. CASE j = l + 1 /\ i = l + 1
    <3>1. g.depth <= g.depth
      BY <1>2
    <3>2. QED
      BY <1>3, <2>3, <3>1
  <2>4. QED
    BY <1>3, <2>1, <2>2, <2>3
<1>7. ASSUME NEW i \in 1 .. l + 1 PROVE f.depth <= v.queue[i].depth
  <2>1. CASE i \in 1 .. l
    BY <1>3, <2>1 DEF Under
  <2>2. CASE i = l + 1
    <3>1. f.depth <= g.depth
      BY <1>2
    <3>2. QED
      BY <1>3, <2>2, <3>1
  <2>3. QED
    BY <1>3, <2>1, <2>2
<1>8. \A h \in FramesOf(v) : h.depth <= f.depth + 1
  <2>1. g.depth <= f.depth + 1
    BY <1>2
  <2>2. QED
    BY <1>3, <2>1 DEF Under
<1>9. ASSUME NEW i \in v.edges PROVE {Links[i].subject, Links[i].object} \subseteq v.visited
  <2>1. CASE i \in w.edges
    BY <1>4, <2>1 DEF Under
  <2>2. CASE i = e
    <3>1. {Links[e].subject, Links[e].object} = {f.node, g.node}
      <4>1. w.direction \in Direction
        BY DEF Walks
      <4>2. QED
        BY <1>2, <4>1, EndsAre
    <3>2. f.node \in w.visited
      BY DEF Found
    <3>3. QED
      BY <1>4, <2>2, <3>1, <3>2
  <2>3. QED
    BY <1>4, <2>1, <2>2
<1>10. ASSUME NEW h \in FramesOf(v), h # f PROVE Settled(v, h, kept)
  <2>1. CASE h = g
    BY <1>3, <2>1 DEF Settled
  <2>2. CASE h \in FramesOf(w)
    <3>1. Settled(w, h, kept)
      BY <1>10, <2>2 DEF Under
    <3>2. FramesOf(w) \subseteq FramesOf(v) /\ Range(w.queue) \subseteq Range(v.queue)
      BY <1>3
    <3>3. QED
      BY <1>4, <3>1, <3>2, SettledStays
  <2>3. QED
    BY <1>3, <2>1, <2>2
<1>11. Range(v.queue) \subseteq FramesOf(v)
  BY <1>3 DEF Under
<1>12. QED
  BY <1>3, <1>6, <1>7, <1>8, <1>9, <1>10, <1>11 DEF Under

\* A scan, when i of its rows have been taken.
Scanning(w, begun, f, kept, edges, i) ==
    /\ w \in Walks /\ w.phase \in {"bfs", "done"}
    /\ w.direction = begun.direction /\ w.maxDepth = begun.maxDepth /\ w.maxEdges = begun.maxEdges
    /\ Found(w, kept) /\ f \in FramesOf(w) /\ w.scanned <= begun.scanned + i
    /\ w.phase = "done" => w.truncated # {}
    /\ w.phase = "bfs" =>
         /\ w.scanned = begun.scanned + i /\ Under(w, f, kept)
         /\ \A j \in 1 .. i : Reached(w, Far(edges[j], f.node), f.depth + 1)

\* One more row of a scan.
LEMMA RowTaken ==
  ASSUME NEW begun \in Walks, NEW kept \in SUBSET EdgeId, NEW f, NEW edges \in Seq(EdgeId),
         NEW i \in 1 .. Len(edges), NEW w, Scanning(w, begun, f, kept, edges, i - 1),
         f.depth < begun.maxDepth, begun.scanned + Len(edges) <= begun.maxEdges,
         Follows(edges[i], f.node, begun.direction),
         NEW v, v = TakeEdge(w, f, edges[i])
  PROVE  Scanning(v, begun, f, kept, edges, i)
<1> DEFINE e == edges[i]
<1>1. /\ w \in Walks /\ w.phase \in {"bfs", "done"} /\ Found(w, kept) /\ f \in FramesOf(w)
      /\ w.direction = begun.direction /\ w.maxDepth = begun.maxDepth /\ w.maxEdges = begun.maxEdges
      /\ w.scanned <= begun.scanned + (i - 1)
  BY DEF Scanning
<1>2. e \in EdgeId /\ i \in Nat /\ i <= Len(edges) /\ Len(edges) \in Nat
  BY LenProperties
<1>3. f \in Frames /\ w.scanned \in Nat /\ begun.scanned \in Nat /\ begun.maxEdges \in Nat
      /\ f.depth \in Nat /\ f.node \in Node
  BY <1>1, FramesAre DEF Walks, Frames
<1> HIDE DEF e
<1>4. /\ v \in Walks
      /\ w.phase = "done" => v = w
      /\ w.phase = "bfs" =>
           /\ Taken(w, v, f, e)
           /\ Stopped(w, v) \/ Known(w, v, f, e) \/ Discovered(w, v, f, e)
  BY <1>1, <1>2, <1>3, TakenIs DEF e
<1>5. CASE w.phase = "done"
  <2>1. w.scanned <= begun.scanned + i
    BY <1>1, <1>2, <1>3
  <2>2. v = w
    BY <1>4, <1>5
  <2>3. QED
    BY <1>5, <2>1, <2>2 DEF Scanning
<1>6. CASE w.phase = "bfs"
  <2>1. /\ v.direction = w.direction /\ v.maxDepth = w.maxDepth /\ v.maxEdges = w.maxEdges
        /\ v.maxVisited = w.maxVisited /\ v.scanned = w.scanned + 1 /\ v.edges = w.edges \cup {e}
    BY <1>4, <1>6 DEF Taken
  <2>2. w.scanned = begun.scanned + (i - 1) /\ Under(w, f, kept)
    BY <1>6 DEF Scanning
  <2>3. v.scanned = begun.scanned + i /\ v.scanned <= v.maxEdges
    BY <1>1, <1>2, <1>3, <2>1, <2>2
  <2>4. v.scanned <= begun.scanned + i
    BY <1>2, <1>3, <2>3
  <2>5. \A j \in 1 .. i - 1 : Reached(w, Far(edges[j], f.node), f.depth + 1)
    BY <1>6 DEF Scanning
  <2>6. Follows(e, f.node, w.direction) /\ w.direction \in Direction /\ f.depth < w.maxDepth
    BY <1>1 DEF e, Walks
  <2>7. CASE Stopped(w, v)
    <3>1. Found(v, kept)
      BY <1>1, <2>1, <2>3, <2>7, FoundStays DEF Stopped
    <3>2. FramesOf(v) = FramesOf(w)
      BY <2>7 DEF Stopped, FramesOf
    <3>3. v.phase = "done" /\ v.truncated # {}
      BY <2>7 DEF Stopped
    <3>4. QED
      BY <1>1, <1>4, <2>1, <2>4, <3>1, <3>2, <3>3 DEF Scanning
  <2>8. CASE Known(w, v, f, e)
    <3>1. Found(v, kept)
      BY <1>1, <2>1, <2>3, <2>8, FoundStays DEF Known
    <3>2. FramesOf(v) = FramesOf(w) /\ f \in FramesOf(v)
      BY <1>1, <2>8 DEF Known, FramesOf
    <3>3. {Links[e].subject, Links[e].object} = {f.node, Far(e, f.node)}
      BY <1>2, <2>6, EndsAre
    <3>4. f.node \in w.visited
      BY <1>1 DEF Found
    <3>5. {Links[e].subject, Links[e].object} \subseteq w.visited
      BY <2>2, <2>8, <3>3, <3>4 DEF Known, Under
    <3>6. Under(v, f, kept)
      BY <2>1, <2>2, <2>8, <3>5, UnderStays DEF Known
    <3>7. Far(e, f.node) \in w.visited
      BY <3>3, <3>5
    <3>8. Reached(w, Far(e, f.node), f.depth + 1)
      BY <1>1, <2>2, <3>7 DEF Found, Under, Reached
    <3>9. \A n, k : Reached(w, n, k) => Reached(v, n, k)
      BY <3>2 DEF Reached
    <3>10. ASSUME NEW j \in 1 .. i PROVE Reached(v, Far(edges[j], f.node), f.depth + 1)
      <4>1. j = i \/ j \in 1 .. i - 1
        BY <1>2
      <4>2. QED
        BY <2>5, <3>8, <3>9, <4>1 DEF e
    <3>11. v.phase = "bfs"
      BY <2>8 DEF Known
    <3>12. QED
      BY <1>1, <1>4, <2>1, <2>3, <2>4, <3>1, <3>2, <3>6, <3>10, <3>11 DEF Scanning
  <2>9. CASE Discovered(w, v, f, e)
    <3>1. Taken(w, v, f, e)
      BY <1>4, <1>6
    <3>2. Found(v, kept)
      BY <1>1, <1>2, <2>2, <2>3, <2>6, <2>9, <3>1, FoundGrows
    <3>3. Under(v, f, kept)
      BY <1>1, <1>2, <2>2, <2>6, <2>9, <3>1, UnderGrows
    <3>4. FramesOf(v) = FramesOf(w) \cup {Onward(f, e)}
      BY <1>1, <1>2, <1>3, <2>9, FramesGrow
    <3>5. f \in FramesOf(v) /\ Onward(f, e) \in FramesOf(v)
      BY <1>1, <3>4
    <3>6. Onward(f, e).node = Far(e, f.node) /\ Onward(f, e).depth <= f.depth + 1
      BY <1>3, NextIs
    <3>7. Reached(v, Far(e, f.node), f.depth + 1)
      BY <3>5, <3>6 DEF Reached
    <3>8. \A n, k : Reached(w, n, k) => Reached(v, n, k)
      BY <3>4 DEF Reached
    <3>10. ASSUME NEW j \in 1 .. i PROVE Reached(v, Far(edges[j], f.node), f.depth + 1)
      <4>1. j = i \/ j \in 1 .. i - 1
        BY <1>2
      <4>2. QED
        BY <2>5, <3>7, <3>8, <4>1 DEF e
    <3>11. v.phase = "bfs"
      BY <2>9 DEF Discovered
    <3>12. QED
      BY <1>1, <1>4, <2>1, <2>3, <2>4, <3>2, <3>3, <3>5, <3>10, <3>11 DEF Scanning
  <2>10. QED
    BY <1>4, <1>6, <2>7, <2>8, <2>9
<1>7. QED
  BY <1>1, <1>5, <1>6

\* The rows of a scan, taken in turn.
Swept(begun, f, edges) == FoldLeft(LAMBDA w, e : TakeEdge(w, f, e), begun, edges)

\* And when they have all been.
LEMMA RowsTaken ==
  ASSUME NEW begun \in Walks, NEW kept \in SUBSET EdgeId, NEW f \in Frames, NEW edges \in Seq(EdgeId),
         Scanning(begun, begun, f, kept, edges, 0),
         f.depth < begun.maxDepth, begun.scanned + Len(edges) <= begun.maxEdges,
         \A e \in Range(edges) : Follows(e, f.node, begun.direction)
  PROVE  Scanning(Swept(begun, f, edges), begun, f, kept, edges, Len(edges))
<1> DEFINE n == Len(edges)
           taken == Swept(begun, f, edges)
<1>1. PICK s \in [0 .. Len(edges) -> Walks] : ScanRuns(s, begun, f, edges)
  BY ScanSteps
<1>2. n \in Nat /\ DOMAIN edges = 1 .. n
  BY LenProperties
<1>3. s[0] = begun /\ taken = s[n] /\ \A i \in 1 .. n : s[i] = TakeEdge(s[i - 1], f, edges[i])
  BY <1>1 DEF ScanRuns, Swept
<1> HIDE DEF taken
<1> DEFINE G == {i \in 0 .. n : Scanning(s[i], begun, f, kept, edges, i)}
<1>4. 0 \in G
  BY <1>2, <1>3
<1>5. ASSUME NEW i \in 1 .. n, i - 1 \in G PROVE i \in G
  <2>1. Scanning(s[i - 1], begun, f, kept, edges, i - 1)
    BY <1>5
  <2>2. Follows(edges[i], f.node, begun.direction)
    BY <1>2 DEF Range
  <2>3. Scanning(s[i], begun, f, kept, edges, i)
    <3> HIDE DEF G
    <3>1. s[i] = TakeEdge(s[i - 1], f, edges[i])
      BY <1>3
    <3>2. QED
      BY <2>1, <2>2, <3>1, RowTaken
  <2>4. QED
    BY <2>3
<1>6. 0 .. n \subseteq G
  <2> HIDE DEF G, n
  <2>1. QED
    BY <1>2, <1>4, <1>5, Upward
<1>7. n \in G
  BY <1>2, <1>6
<1>8. QED
  BY <1>3, <1>7 DEF taken

\* What taking the first frame from the queue comes to.
Dequeued(w, v) ==
    /\ v \in Walks /\ v.phase = w.phase /\ v.direction = w.direction
    /\ v.maxDepth = w.maxDepth /\ v.maxVisited = w.maxVisited /\ v.maxEdges = w.maxEdges
    /\ v.queue = Tail(w.queue) /\ v.visited = w.visited /\ v.nodes = w.nodes
    /\ v.edges = w.edges /\ v.scanned = w.scanned /\ v.truncated = w.truncated
    /\ Head(w.queue) \in Frames /\ Head(w.queue) = w.queue[1] /\ 1 \in DOMAIN w.queue
    /\ Range(w.queue) = Range(v.queue) \cup {Head(w.queue)}
    /\ \A i \in DOMAIN v.queue :
          i \in Nat /\ i + 1 \in DOMAIN w.queue /\ v.queue[i] = w.queue[i + 1]

\* A walk without the first frame of its queue is a walk.
LEMMA PoppedIs ==
  ASSUME NEW w \in Walks, w.queue # <<>>, NEW v, v = [w EXCEPT !.queue = Tail(@)]
  PROVE  Dequeued(w, v)
<1>1. w.queue \in Seq(Frames)
  BY DEF Walks
<1>2. /\ Head(w.queue) = w.queue[1] /\ Head(w.queue) \in Frames /\ 1 \in DOMAIN w.queue
      /\ Tail(w.queue) \in Seq(Frames) /\ Range(w.queue) = Range(Tail(w.queue)) \cup {Head(w.queue)}
      /\ \A i \in DOMAIN Tail(w.queue) : i + 1 \in DOMAIN w.queue /\ Tail(w.queue)[i] = w.queue[i + 1]
  BY <1>1, TailIs
<1>3. \A i \in DOMAIN Tail(w.queue) : i \in Nat
  BY <1>2, LenProperties
<1> DEFINE rest == Tail(w.queue)
<1>4. v = [w EXCEPT !.queue = rest]
  OBVIOUS
<1>5. rest \in Seq(Frames)
  BY <1>2
<1> HIDE DEF rest
<1>6. /\ v \in Walks /\ v.phase = w.phase /\ v.direction = w.direction
      /\ v.maxDepth = w.maxDepth /\ v.maxVisited = w.maxVisited /\ v.maxEdges = w.maxEdges
      /\ v.queue = rest /\ v.visited = w.visited /\ v.nodes = w.nodes
      /\ v.edges = w.edges /\ v.scanned = w.scanned /\ v.truncated = w.truncated
  BY <1>4, <1>5 DEF Walks
<1>7. QED
  BY <1>2, <1>3, <1>6 DEF rest, Dequeued

\* What is left is in order.
LEMMA LayersStay ==
  ASSUME NEW w \in Walks, w.queue # <<>>, Layered(w), NEW v, v = [w EXCEPT !.queue = Tail(@)]
  PROVE  /\ Layered(v) /\ Head(w.queue) \in FramesOf(v) /\ FramesOf(v) = FramesOf(w)
         /\ \A i \in DOMAIN v.queue : Head(w.queue).depth <= v.queue[i].depth
         /\ \A g \in FramesOf(v) : g.depth <= Head(w.queue).depth + 1
<1>1. /\ v.visited = w.visited /\ v.nodes = w.nodes /\ v.edges = w.edges
      /\ Head(w.queue) = w.queue[1] /\ 1 \in DOMAIN w.queue
      /\ Range(w.queue) = Range(v.queue) \cup {Head(w.queue)}
      /\ \A i \in DOMAIN v.queue : i \in Nat /\ i + 1 \in DOMAIN w.queue /\ v.queue[i] = w.queue[i + 1]
  <2>1. Dequeued(w, v)
    BY PoppedIs
  <2>2. QED
    BY <2>1 DEF Dequeued
<1>2. FramesOf(v) = FramesOf(w)
  BY <1>1 DEF FramesOf
<1>3. Range(v.queue) \subseteq FramesOf(v) /\ Head(w.queue) \in FramesOf(v)
  BY <1>1, <1>2 DEF Layered
<1>4. ASSUME NEW i \in DOMAIN v.queue, NEW j \in DOMAIN v.queue, i <= j
      PROVE  v.queue[i].depth <= v.queue[j].depth
  <2>1. i + 1 <= j + 1 /\ i + 1 \in DOMAIN w.queue /\ j + 1 \in DOMAIN w.queue
    BY <1>1, <1>4
  <2>2. w.queue[i + 1].depth <= w.queue[j + 1].depth
    BY <2>1 DEF Layered
  <2>3. QED
    BY <1>1, <2>2
<1>5. ASSUME NEW i \in DOMAIN v.queue
      PROVE  /\ Head(w.queue).depth <= v.queue[i].depth
             /\ \A g \in FramesOf(v) : g.depth <= v.queue[i].depth + 1
  <2>1. 1 <= i + 1 /\ i + 1 \in DOMAIN w.queue
    BY <1>1
  <2>2. w.queue[1].depth <= w.queue[i + 1].depth
    BY <1>1, <2>1 DEF Layered
  <2>3. \A g \in FramesOf(w) : g.depth <= w.queue[i + 1].depth + 1
    BY <2>1 DEF Layered
  <2>4. QED
    BY <1>1, <1>2, <2>2, <2>3
<1>6. \A g \in FramesOf(v) : g.depth <= Head(w.queue).depth + 1
  BY <1>1, <1>2 DEF Layered
<1>7. \A e \in v.edges : {Links[e].subject, Links[e].object} \subseteq v.visited
  BY <1>1 DEF Layered
<1>8. QED
  BY <1>2, <1>3, <1>4, <1>5, <1>6, <1>7 DEF Layered

\* The same walk, but for its phase and the bounds it met.
SameWalk(w, v) ==
    /\ v \in Walks /\ v.direction = w.direction
    /\ v.maxDepth = w.maxDepth /\ v.maxVisited = w.maxVisited /\ v.maxEdges = w.maxEdges
    /\ v.queue = w.queue /\ v.visited = w.visited /\ v.nodes = w.nodes
    /\ v.edges = w.edges /\ v.scanned = w.scanned

\* A reason is noted.
LEMMA MarkIs ==
  ASSUME NEW w \in Walks, NEW r \in Cuts
  PROVE  /\ SameWalk(w, Mark(w, r)) /\ Mark(w, r).phase = w.phase
         /\ Mark(w, r).truncated = w.truncated \cup {r}
  BY DEF Mark, Walks, SameWalk

\* A walk stops.
LEMMA StopIs ==
  ASSUME NEW w \in Walks
  PROVE  /\ SameWalk(w, Stop(w)) /\ Stop(w).phase = "done" /\ Stop(w).truncated = w.truncated
  BY DEF Stop, Walks, SameWalk

\* The same walk has found the same.
LEMMA SameFound ==
  ASSUME NEW w \in Walks, NEW v, NEW kept, SameWalk(w, v), Found(w, kept)
  PROVE  Found(v, kept) /\ FramesOf(v) = FramesOf(w)
<1>1. v.scanned <= v.maxEdges
  BY DEF SameWalk, Found
<1>2. Found(v, kept)
  BY <1>1, FoundStays DEF SameWalk
<1>3. QED
  BY <1>2 DEF SameWalk, FramesOf

\* A walk that stops at a bound.
LEMMA StoppedFits ==
  ASSUME NEW w \in Walks, NEW kept, Found(w, kept), NEW r \in Cuts
  PROVE  WalkFits(Stop(Mark(w, r)), kept)
<1> DEFINE m == Mark(w, r)
           v == Stop(m)
<1>1. SameWalk(w, m) /\ m.truncated = w.truncated \cup {r}
  BY MarkIs
<1>2. m \in Walks /\ Found(m, kept)
  BY <1>1, SameFound DEF SameWalk
<1> HIDE DEF m
<1>3. SameWalk(m, v) /\ v.phase = "done" /\ v.truncated = m.truncated
  BY <1>2, StopIs
<1> HIDE DEF v
<1>4. v \in Walks /\ Found(v, kept)
  BY <1>2, <1>3, SameFound DEF SameWalk
<1>5. v.truncated # {}
  BY <1>1, <1>3
<1>6. WalkFits(v, kept)
  BY <1>3, <1>4, <1>5 DEF WalkFits
<1>7. QED
  BY <1>6 DEF v, m

\* What a walk is when its first frame has been taken.
LEMMA PoppedFits ==
  ASSUME NEW w, NEW kept, WalkFits(w, kept), w.phase = "bfs", w.queue # <<>>,
         NEW v, v = [w EXCEPT !.queue = Tail(@)], NEW f, f = Head(w.queue)
  PROVE  /\ w \in Walks /\ Dequeued(w, v) /\ v \in Walks /\ f \in Frames /\ f \in FramesOf(v)
         /\ Found(v, kept) /\ Layered(v) /\ Under(v, f, kept)
<1>1. w \in Walks /\ Found(w, kept) /\ Layered(w) /\ \A g \in FramesOf(w) : Settled(w, g, kept)
  BY DEF WalkFits
<1>2. Dequeued(w, v)
  BY <1>1, PoppedIs
<1>3. /\ v \in Walks /\ v.direction = w.direction /\ v.maxVisited = w.maxVisited
      /\ v.maxEdges = w.maxEdges /\ v.visited = w.visited /\ v.nodes = w.nodes
      /\ v.edges = w.edges /\ v.scanned = w.scanned /\ f \in Frames
      /\ v.maxDepth = w.maxDepth /\ v.truncated = w.truncated
      /\ Range(w.queue) = Range(v.queue) \cup {f}
  BY <1>2 DEF Dequeued
<1>4. Found(v, kept)
  <2>1. v.scanned <= v.maxEdges
    BY <1>1, <1>3 DEF Found
  <2>2. QED
    BY <1>1, <1>3, <2>1, FoundStays
<1>5. /\ Layered(v) /\ f \in FramesOf(v) /\ FramesOf(v) = FramesOf(w)
      /\ \A i \in DOMAIN v.queue : f.depth <= v.queue[i].depth
      /\ \A g \in FramesOf(v) : g.depth <= f.depth + 1
  BY <1>1, LayersStay
<1>6. ASSUME NEW g \in FramesOf(v), g # f PROVE Settled(v, g, kept)
  <2>1. Settled(w, g, kept)
    BY <1>1, <1>5
  <2>2. \A n, k : Reached(w, n, k) => Reached(v, n, k)
    BY <1>5 DEF Reached
  <2>3. Explored(w, g, kept) => Explored(v, g, kept)
    BY <1>3, <2>2 DEF Explored
  <2>4. g \in Range(w.queue) => g \in Range(v.queue)
    BY <1>3, <1>6
  <2>5. QED
    BY <1>3, <2>1, <2>3, <2>4 DEF Settled
<1>7. Under(v, f, kept)
  BY <1>5, <1>6 DEF Under, Layered
<1>8. QED
  BY <1>1, <1>2, <1>3, <1>4, <1>5, <1>7

\* A reason noted leaves the others as they are.
LEMMA UnderMarked ==
  ASSUME NEW w, NEW v, NEW kept, NEW f, Under(w, f, kept), SameWalk(w, v), w.truncated \subseteq v.truncated
  PROVE  Under(v, f, kept)
<1>1. FramesOf(v) = FramesOf(w)
  BY DEF FramesOf, SameWalk
<1>2. \A g \in FramesOf(v) : g = f \/ Settled(v, g, kept)
  BY <1>1, SettledStays DEF Under, SameWalk
<1>3. QED
  BY <1>1, <1>2 DEF Under, SameWalk

\* A scan, to its end.
LEMMA ScanFits ==
  ASSUME NEW w, NEW kept \in SUBSET EdgeId, WalkFits(w, kept), w.phase = "bfs", w.queue # <<>>,
         NEW f, f = Head(w.queue), f.depth < w.maxDepth,
         NEW taken \in Seq(EdgeId), Len(taken) <= w.maxEdges - w.scanned,
         \A e \in Range(taken) : Follows(e, f.node, w.direction),
         NEW more \in BOOLEAN, more => Len(taken) = w.maxEdges - w.scanned,
         ~more => \A e \in kept : Follows(e, f.node, w.direction) => e \in Range(taken),
         NEW rest, rest = [w EXCEPT !.queue = Tail(@)],
         NEW begun, begun = IF more THEN Mark(rest, "edges") ELSE rest,
         NEW last, last = Swept(begun, f, taken)
  PROVE  WalkFits(IF last.phase # "done" /\ last.scanned >= w.maxEdges
                  THEN Stop(Mark(last, "edges")) ELSE last, kept)
<1>1. /\ w \in Walks /\ Dequeued(w, rest) /\ rest \in Walks /\ f \in Frames /\ f \in FramesOf(rest)
      /\ Found(rest, kept) /\ Layered(rest) /\ Under(rest, f, kept)
  BY PoppedFits
<1>2. /\ SameWalk(rest, begun) /\ begun.phase = rest.phase /\ rest.truncated \subseteq begun.truncated
  <2>1. SameWalk(rest, rest)
    BY <1>1 DEF SameWalk
  <2>2. "edges" \in Cuts
    BY DEF Cuts
  <2>3. QED
    BY <1>1, <2>1, <2>2, MarkIs
<1>3. begun \in Walks /\ Found(begun, kept) /\ FramesOf(begun) = FramesOf(rest) /\ Under(begun, f, kept)
  BY <1>1, <1>2, SameFound, UnderMarked DEF SameWalk
<1>4. /\ begun.phase = "bfs" /\ begun.direction = w.direction /\ begun.maxDepth = w.maxDepth
      /\ begun.maxEdges = w.maxEdges /\ begun.scanned = w.scanned
  BY <1>1, <1>2 DEF Dequeued, SameWalk
<1>5. w.scanned \in Nat /\ w.maxEdges \in Nat /\ Len(taken) \in Nat
  BY <1>1, LenProperties DEF Walks
<1>6. begun.scanned + Len(taken) <= begun.maxEdges /\ begun.scanned <= begun.scanned + 0 /\ begun.scanned = begun.scanned + 0
  BY <1>4, <1>5
<1>7. Scanning(begun, begun, f, kept, taken, 0)
  <2>1. \A j \in 1 .. 0 : FALSE
    OBVIOUS
  <2>2. QED
    BY <1>1, <1>3, <1>4, <1>6, <2>1 DEF Scanning
<1>8. Scanning(last, begun, f, kept, taken, Len(taken))
  BY <1>1, <1>3, <1>4, <1>6, <1>7, RowsTaken
<1>9. /\ last \in Walks /\ last.phase \in {"bfs", "done"} /\ Found(last, kept) /\ f \in FramesOf(last)
      /\ last.direction = w.direction
      /\ last.phase = "done" => last.truncated # {}
      /\ last.phase = "bfs" =>
           /\ last.scanned = w.scanned + Len(taken) /\ Under(last, f, kept)
           /\ \A j \in 1 .. Len(taken) : Reached(last, Far(taken[j], f.node), f.depth + 1)
  BY <1>4, <1>8 DEF Scanning
<1>10. CASE last.phase = "done"
  <2>1. WalkFits(last, kept)
    BY <1>9, <1>10 DEF WalkFits
  <2>2. QED
    BY <1>10, <2>1
<1>11. CASE last.phase = "bfs" /\ last.scanned >= w.maxEdges
  <2>1. "edges" \in Cuts
    BY DEF Cuts
  <2>2. WalkFits(Stop(Mark(last, "edges")), kept)
    BY <1>9, <2>1, StoppedFits
  <2>3. QED
    BY <1>11, <2>2
<1>12. CASE last.phase = "bfs" /\ ~(last.scanned >= w.maxEdges)
  <2>1. ~more
    BY <1>5, <1>9, <1>12
  <2>2. Explored(last, f, kept)
    <3>1. SUFFICES ASSUME NEW e \in kept, Follows(e, f.node, last.direction)
                   PROVE  Reached(last, Far(e, f.node), f.depth + 1)
      BY DEF Explored
    <3>2. e \in Range(taken)
      BY <1>9, <2>1, <3>1
    <3>3. PICK j \in 1 .. Len(taken) : taken[j] = e
      BY <3>2, LenProperties DEF Range
    <3>4. QED
      BY <1>9, <1>12, <3>3
  <2>3. \A g \in FramesOf(last) : Settled(last, g, kept)
    BY <1>9, <1>12, <2>2 DEF Under, Settled
  <2>4. Layered(last)
    <3>1. ASSUME NEW i \in DOMAIN last.queue, NEW g \in FramesOf(last)
          PROVE  g.depth <= last.queue[i].depth + 1
      <4>1. FramesOf(last) \subseteq Frames /\ last.queue[i] \in FramesOf(last)
        BY <1>9, <1>12, FramesAre DEF Under, Range
      <4>2. g.depth \in Nat /\ f.depth \in Nat /\ last.queue[i].depth \in Nat
        BY <1>1, <4>1 DEF Frames
      <4>3. g.depth <= f.depth + 1 /\ f.depth <= last.queue[i].depth
        BY <1>9, <1>12 DEF Under
      <4>4. QED
        BY <4>2, <4>3
    <3>2. QED
      BY <1>9, <1>12, <3>1 DEF Under, Layered
  <2>5. WalkFits(last, kept)
    BY <1>9, <1>12, <2>3, <2>4 DEF WalkFits
  <2>6. QED
    BY <1>12, <2>5
<1>13. QED
  BY <1>9, <1>10, <1>11, <1>12

\* The probe of a node at the depth bound.
LEMMA ProbeFits ==
  ASSUME NEW w, NEW kept \in SUBSET EdgeId, WalkFits(w, kept), w.phase = "bfs", w.queue # <<>>,
         NEW f, f = Head(w.queue), f.depth >= w.maxDepth,
         NEW any \in BOOLEAN, ~any => \A e \in kept : ~Follows(e, f.node, w.direction),
         NEW rest, rest = [w EXCEPT !.queue = Tail(@)],
         NEW v, v = IF any THEN Mark(rest, "depth") ELSE rest
  PROVE  WalkFits(v, kept)
<1>1. /\ w \in Walks /\ Dequeued(w, rest) /\ rest \in Walks /\ f \in Frames /\ f \in FramesOf(rest)
      /\ Found(rest, kept) /\ Layered(rest) /\ Under(rest, f, kept)
  BY PoppedFits
<1>2. /\ SameWalk(rest, v) /\ v.phase = rest.phase /\ rest.truncated \subseteq v.truncated
      /\ any => "depth" \in v.truncated
  <2>1. SameWalk(rest, rest)
    BY <1>1 DEF SameWalk
  <2>2. "depth" \in Cuts
    BY DEF Cuts
  <2>3. QED
    BY <1>1, <2>1, <2>2, MarkIs
<1>3. v \in Walks /\ Found(v, kept) /\ FramesOf(v) = FramesOf(rest) /\ Under(v, f, kept)
  BY <1>1, <1>2, SameFound, UnderMarked DEF SameWalk
<1>4. v.phase = "bfs" /\ v.direction = w.direction /\ v.maxDepth = w.maxDepth
  <2>1. rest.phase = w.phase /\ rest.direction = w.direction /\ rest.maxDepth = w.maxDepth
    BY <1>1 DEF Dequeued
  <2>2. QED
    BY <1>2, <2>1 DEF SameWalk
<1>5. Settled(v, f, kept)
  <2>1. CASE any
    BY <1>2, <1>4, <2>1 DEF Settled
  <2>2. CASE ~any
    BY <1>4, <2>2 DEF Settled, Explored
  <2>3. QED
    BY <2>1, <2>2
<1>6. \A g \in FramesOf(v) : Settled(v, g, kept)
  BY <1>3, <1>5 DEF Under
<1>7. Layered(v)
  <2>1. v.queue = rest.queue /\ v.edges = rest.edges /\ v.visited = rest.visited
    BY <1>2 DEF SameWalk
  <2>2. \A i \in DOMAIN v.queue, g \in FramesOf(v) : g.depth <= v.queue[i].depth + 1
    BY <1>1, <1>3, <2>1 DEF Layered
  <2>3. Range(v.queue) \subseteq FramesOf(v)
    BY <1>3 DEF Under
  <2>4. QED
    BY <1>1, <2>1, <2>2, <2>3 DEF Layered
<1>8. QED
  BY <1>3, <1>4, <1>6, <1>7 DEF WalkFits

\* A walk whose time is up.
LEMMA LateFits ==
  ASSUME NEW w, NEW kept, WalkFits(w, kept), w.phase = "bfs", w.queue # <<>>,
         NEW rest, rest = [w EXCEPT !.queue = Tail(@)]
  PROVE  WalkFits(Stop(Mark(rest, "deadline")), kept)
<1>1. rest \in Walks /\ Found(rest, kept)
  BY PoppedFits
<1>2. "deadline" \in Cuts
  BY DEF Cuts
<1>3. QED
  BY <1>1, <1>2, StoppedFits

\* A walk that has nothing left to do.
LEMMA EmptyFits ==
  ASSUME NEW w, NEW kept, WalkFits(w, kept), w.phase = "bfs", w.queue = <<>>
  PROVE  WalkFits(Stop(w), kept)
<1>1. w \in Walks /\ Found(w, kept) /\ \A g \in FramesOf(w) : Settled(w, g, kept)
  BY DEF WalkFits
<1> DEFINE v == Stop(w)
<1>2. SameWalk(w, v) /\ v.phase = "done" /\ v.truncated = w.truncated
  BY <1>1, StopIs
<1> HIDE DEF v
<1>3. v \in Walks /\ Found(v, kept) /\ FramesOf(v) = FramesOf(w)
  BY <1>1, <1>2, SameFound DEF SameWalk
<1>4. ASSUME v.truncated = {}, NEW g \in FramesOf(v) PROVE Explored(v, g, kept)
  <2>1. Range(w.queue) = {}
    BY DEF Range
  <2>2. Explored(w, g, kept)
    BY <1>1, <1>2, <1>3, <1>4, <2>1 DEF Settled
  <2>3. QED
    BY <1>2, <1>3, <2>2 DEF Explored, Reached, SameWalk
<1>5. WalkFits(v, kept)
  BY <1>2, <1>3, <1>4 DEF WalkFits
<1>6. QED
  BY <1>5 DEF v

\* When fewer edges are kept, no more is asked.
LEMMA FewerKept ==
  ASSUME NEW w, NEW kept, NEW fewer, fewer \subseteq kept, WalkFits(w, kept)
  PROVE  WalkFits(w, fewer)
<1>1. \A g : Explored(w, g, kept) => Explored(w, g, fewer)
  BY DEF Explored
<1>2. \A g : Settled(w, g, kept) => Settled(w, g, fewer)
  BY <1>1 DEF Settled
<1>3. Found(w, kept) => Found(w, fewer)
  <2>1. ASSUME NEW g, g.node \notin Within(g.depth - 1, Seeds, kept, w.direction)
        PROVE  g.node \notin Within(g.depth - 1, Seeds, fewer, w.direction)
    BY <2>1, WithinGrows
  <2>2. QED
    BY <2>1 DEF Found
<1>4. QED
  BY <1>1, <1>2, <1>3 DEF WalkFits

\* What others do to the graph during a walk.
Moves ==
    \/ \E e \in EdgeId : Relate(e) \/ Invalidate(e)
    \/ \E n \in Node : EraseNode(n) \/ LeaveLens(n)

\* They only take from what is untouched and add to what was seen.
LEMMA GraphMoves ==
  ASSUME GraphFits, Moves
  PROVE  GraphFits' /\ steady' \subseteq steady /\ seen \subseteq seen'
<1>1. ASSUME NEW e \in EdgeId, Relate(e)
      PROVE  GraphFits' /\ steady' \subseteq steady /\ seen \subseteq seen'
  BY <1>1 DEF GraphFits, Relate
<1>2. ASSUME NEW e \in EdgeId, Invalidate(e)
      PROVE  GraphFits' /\ steady' \subseteq steady /\ seen \subseteq seen'
  BY <1>2 DEF GraphFits, Invalidate
<1>3. ASSUME NEW n \in Node, EraseNode(n)
      PROVE  GraphFits' /\ steady' \subseteq steady /\ seen \subseteq seen'
  BY <1>3 DEF GraphFits, EraseNode
<1>4. ASSUME NEW n \in Node, LeaveLens(n)
      PROVE  GraphFits' /\ steady' \subseteq steady /\ seen \subseteq seen'
  BY <1>4 DEF GraphFits, LeaveLens
<1>5. QED
  BY <1>1, <1>2, <1>3, <1>4 DEF Moves

\* When a call begins, all that is there is untouched.
LEMMA GraphRestarts ==
  ASSUME GraphFits, steady' = {e \in EdgeId : edge[e] = "active"}, seen' = steady', UNCHANGED <<edge, row>>
  PROVE  GraphFits'
  BY DEF GraphFits

\* A walk of no steps.
Written(p, d, m, v, s, q, V, none) ==
    [phase |-> p, direction |-> d, maxDepth |-> m, maxVisited |-> v, maxEdges |-> s, queue |-> q,
     visited |-> V, nodes |-> none, edges |-> {}, scanned |-> 0, truncated |-> {}]
IsWalk(w, p, d, s, q, V, none) ==
    /\ w \in Walks /\ w.phase = p /\ w.direction = d /\ w.maxEdges = s /\ w.queue = q
    /\ w.visited = V /\ w.nodes = none /\ w.edges = {} /\ w.scanned = 0

\* It is a walk.
LEMMA WalkIs ==
  ASSUME NEW p \in {"idle", "not_found", "bfs"}, NEW d \in Direction, NEW m \in Nat, NEW v \in Nat,
         NEW s \in Nat, NEW q \in Seq(Frames), NEW none \in Seq(Frames), NEW V \in SUBSET Node
  PROVE  IsWalk(Written(p, d, m, v, s, q, V, none), p, d, s, q, V, none)
<1>1. PICK w : w = Written(p, d, m, v, s, q, V, none)
  OBVIOUS
<1>2. IsWalk(w, p, d, s, q, V, none)
  BY <1>1 DEF Walks, Written, IsWalk
<1>3. QED
  BY <1>1, <1>2

\* No walk, or one whose seeds are not there.
LEMMA NoWalkFits ==
  ASSUME NEW p \in {"idle", "not_found"}, NEW kept
  PROVE  WalkFits([NoWalk EXCEPT !.phase = p], kept)
<1>1. PICK none : none = <<>>
  OBVIOUS
<1>2. none \in Seq(Frames)
  BY <1>1, EmptySeq
<1>3. [NoWalk EXCEPT !.phase = p] = Written(p, "out", 0, 0, 0, none, {}, none)
  <2>1. NoWalk = Written("idle", "out", 0, 0, 0, none, {}, none)
    BY <1>1 DEF NoWalk, Written
  <2>2. [Written("idle", "out", 0, 0, 0, none, {}, none) EXCEPT !.phase = p]
          = Written(p, "out", 0, 0, 0, none, {}, none)
    BY ONLY TRUE DEF Written
  <2>3. QED
    BY ONLY <2>1, <2>2
<1>4. p \in {"idle", "not_found", "bfs"} /\ "out" \in Direction /\ 0 \in Nat /\ {} \in SUBSET Node
  BY DEF Direction
<1>5. IsWalk(Written(p, "out", 0, 0, 0, none, {}, none), p, "out", 0, none, {}, none)
  BY <1>2, <1>4, WalkIs
<1>6. PICK w : w = Written(p, "out", 0, 0, 0, none, {}, none)
  OBVIOUS
<1>7. WalkFits(w, kept)
  BY <1>1, <1>5, <1>6 DEF WalkFits, IsWalk
<1>8. QED
  BY <1>3, <1>6, <1>7

\* A walk that begins.
LEMMA WalkBegins ==
  ASSUME NEW d \in Direction, NEW m \in Nat, NEW v \in Nat, NEW s \in Nat, NEW kept,
         NEW q \in Seq(Frames), Range(q) = SeedFrames, NEW none \in Seq(Frames), Range(none) = {},
         NEW w \in Walks, w.phase = "bfs", w.direction = d, w.maxEdges = s, w.queue = q,
         w.visited = Seeds, w.nodes = none, w.edges = {}, w.scanned = 0
  PROVE  WalkFits(w, kept)
<1>1. FramesOf(w) = SeedFrames /\ Range(w.nodes) = {} /\ Range(w.queue) = SeedFrames
  BY DEF FramesOf
<1>2. \A g \in SeedFrames : g.node \in Seeds /\ g.depth = 0 /\ g.path = <<>>
  BY DEF SeedFrames, Frame
<1>3. Found(w, kept)
  <2>1. w.visited = {g.node : g \in FramesOf(w)}
    <3>1. \A t \in Seeds : Frame(t, 0, <<>>) \in SeedFrames /\ Frame(t, 0, <<>>).node = t
      BY DEF SeedFrames, Frame
    <3>2. QED
      BY <1>1, <1>2, <3>1
  <2>2. ASSUME NEW g \in FramesOf(w) PROVE Led(w, g)
    <3>1. Len(g.path) = g.depth /\ Range(g.path) = {}
      <4>1. Len(<<>>) = 0 /\ Range(<<>>) = {}
        BY EmptySeq DEF Range
      <4>2. QED
        BY <1>1, <1>2, <4>1
    <3>2. IsChain(g.path, g.node, w.direction)
      BY <1>1, <1>2, ChainStarts
    <3>3. QED
      BY <3>1, <3>2 DEF Led
  <2>3. w.scanned <= w.maxEdges /\ w.visited \subseteq Seeds
    OBVIOUS
  <2>4. QED
    BY <1>1, <2>1, <2>2, <2>3 DEF Found
<1>4. Layered(w)
  <2>1. \A i \in DOMAIN w.queue : w.queue[i] \in SeedFrames
    BY <1>1 DEF Range
  <2>2. \A i \in DOMAIN w.queue : w.queue[i].depth = 0
    BY <1>2, <2>1
  <2>3. \A i, j \in DOMAIN w.queue : w.queue[i].depth <= w.queue[j].depth
    BY <2>2
  <2>4. \A i \in DOMAIN w.queue, g \in FramesOf(w) : g.depth <= w.queue[i].depth + 1
    BY <1>1, <1>2, <2>2
  <2>5. QED
    BY <1>1, <2>3, <2>4 DEF Layered
<1>5. QED
  BY <1>1, <1>3, <1>4 DEF WalkFits, Settled

\* A walk that begins at its seeds.
LEMMA BegunFits ==
  ASSUME NEW d \in Direction, NEW m \in Depths, NEW v \in Visits, NEW s \in Scans, NEW kept,
         NEW w, w = [NoWalk EXCEPT
                       !.phase = "bfs", !.direction = d, !.maxDepth = m,
                       !.maxVisited = v, !.maxEdges = s, !.visited = Seeds,
                       !.queue = SetToSeq({Frame(t, 0, <<>>) : t \in Seeds})]
  PROVE  WalkFits(w, kept)
<1> DEFINE q == SetToSeq({Frame(t, 0, <<>>) : t \in Seeds})
<1>1. q \in Seq(SeedFrames) /\ Range(q) = SeedFrames
  <2>1. IsFiniteSet(Seeds)
    BY GraphAssumption, WalkAssumption, FS_Subset
  <2>2. IsFiniteSet(SeedFrames)
    <3> DEFINE seed == [t \in Seeds |-> Frame(t, 0, <<>>)]
    <3>1. {seed[t] : t \in Seeds} = SeedFrames
      BY DEF SeedFrames
    <3>2. seed \in Surjection(Seeds, {seed[t] : t \in Seeds})
      BY DEF Surjection
    <3> HIDE DEF seed
    <3>3. QED
      BY <2>1, <3>1, <3>2, FS_Surjection
  <2>3. QED
    BY <2>2, SetToSeqIs DEF SeedFrames
<1> HIDE DEF q
<1>2. PICK none : none = <<>>
  OBVIOUS
<1>3. none \in Seq(Frames) /\ Range(none) = {}
  BY <1>2, EmptySeq DEF Range
<1>4. q \in Seq(Frames)
  BY <1>1, SeedFramesAre, SeqMonotonic
<1>5. w = Written("bfs", d, m, v, s, q, Seeds, none)
  BY <1>2 DEF NoWalk, Written, q
<1>6. m \in Nat /\ v \in Nat /\ s \in Nat /\ Seeds \in SUBSET Node
  BY WalkAssumption
<1>7. IsWalk(Written("bfs", d, m, v, s, q, Seeds, none), "bfs", d, s, q, Seeds, none)
  BY <1>3, <1>4, <1>6, WalkIs
<1>8. IsWalk(w, "bfs", d, s, q, Seeds, none)
  BY ONLY <1>5, <1>7
<1>9. /\ w \in Walks /\ w.phase = "bfs" /\ w.direction = d /\ w.maxEdges = s /\ w.queue = q
      /\ w.visited = Seeds /\ w.nodes = none /\ w.edges = {} /\ w.scanned = 0
  BY ONLY <1>8 DEF IsWalk
<1>10. QED
  BY <1>1, <1>3, <1>4, <1>6, <1>9, WalkBegins

\* Nobody walks at first.
LEMMA TraversalInitially == Init => TraversalInv
<1> SUFFICES ASSUME Init PROVE TraversalInv
  OBVIOUS
<1>1. walk = NoWalk /\ GraphInit
  BY DEF Init, TraversalInit
<1>2. GraphFits
  BY <1>1 DEF GraphInit, GraphFits
<1>3. NoWalk = [NoWalk EXCEPT !.phase = "idle"]
  BY DEF NoWalk
<1>4. PICK w, kept : w = walk /\ kept = steady
  OBVIOUS
<1>5. WalkFits([NoWalk EXCEPT !.phase = "idle"], kept)
  BY NoWalkFits
<1>6. QED
  BY <1>1, <1>2, <1>3, <1>4, <1>5 DEF TraversalInv

\* A step of a traversal.
LEMMA TraversalSteps ==
  ASSUME TraversalInv, TraversalNext
  PROVE  GraphFits' /\ WalkFits(walk', steady')
<1>1. GraphFits /\ WalkFits(walk, steady)
  BY DEF TraversalInv
<1>2. PICK w, v, kept, after : w = walk /\ v = walk' /\ kept = steady /\ after = steady'
  OBVIOUS
<1>3. WalkFits(w, kept) /\ w \in Walks /\ kept \in SUBSET EdgeId
  BY <1>1, <1>2 DEF WalkFits, GraphFits
<1>4. ASSUME NEW d \in Direction, NEW k \in Depths, NEW m \in Visits, NEW s \in Scans,
             Traverse(d, k, m, s)
      PROVE  GraphFits' /\ WalkFits(v, after)
  <2>1. GraphFits'
    BY <1>1, <1>4, GraphRestarts DEF Traverse
  <2>2. \/ v = [NoWalk EXCEPT !.phase = "not_found"]
        \/ v = [NoWalk EXCEPT
                  !.phase = "bfs", !.direction = d, !.maxDepth = k,
                  !.maxVisited = m, !.maxEdges = s, !.visited = Seeds,
                  !.queue = SetToSeq({Frame(t, 0, <<>>) : t \in Seeds})]
    BY <1>2, <1>4 DEF Traverse
  <2>3. WalkFits(v, after)
    BY <2>2, NoWalkFits, BegunFits
  <2>4. QED
    BY <2>1, <2>3
<1>5. ASSUME UNCHANGED graphVars PROVE GraphFits' /\ after = kept
  BY <1>1, <1>2, <1>5 DEF GraphFits, graphVars
<1>6. PICK rest : rest = [w EXCEPT !.queue = Tail(@)]
  OBVIOUS
<1>7. rest = Popped
  BY <1>2, <1>6 DEF Popped
<1>8. PICK f : f = Head(w.queue)
  OBVIOUS
<1>9. PICK leaving : leaving = Leaving(f.node, w.direction)
  OBVIOUS
<1>10. \A e \in kept : Follows(e, f.node, w.direction) => e \in leaving
  BY <1>1, <1>2, <1>9 DEF Leaving, GraphFits
<1>11. CASE ProbeDepth
  <2>1. w.phase = "bfs" /\ w.queue # <<>> /\ f.depth >= w.maxDepth /\ UNCHANGED graphVars
    BY <1>2, <1>8, <1>11 DEF ProbeDepth
  <2>2. PICK any \in BOOLEAN : any = (Followable(f.node, w.direction) # <<>>)
    OBVIOUS
  <2>3. v = IF any THEN Mark(rest, "depth") ELSE rest
    BY <1>2, <1>7, <1>8, <1>11, <2>2 DEF ProbeDepth
  <2>4. ~any => \A e \in kept : ~Follows(e, f.node, w.direction)
    BY <1>9, <1>10, <2>2, ProbeIs
  <2>5. WalkFits(v, kept)
    BY <1>3, <1>6, <1>8, <2>1, <2>3, <2>4, ProbeFits
  <2>6. QED
    BY <1>2, <1>5, <2>1, <2>5
<1>12. CASE DeadlinePasses
  <2>1. w.phase = "bfs" /\ w.queue # <<>> /\ v = Stop(Mark(rest, "deadline")) /\ UNCHANGED graphVars
    BY <1>2, <1>7, <1>12 DEF DeadlinePasses
  <2>2. WalkFits(v, kept)
    BY <1>3, <1>6, <2>1, LateFits
  <2>3. QED
    BY <1>2, <1>5, <2>1, <2>2
<1>13. CASE ScanNode
  <2>1. w.phase = "bfs" /\ w.queue # <<>> /\ f.depth < w.maxDepth /\ UNCHANGED graphVars
    BY <1>2, <1>8, <1>13 DEF ScanNode
  <2>2. PICK left : left = w.maxEdges - w.scanned
    OBVIOUS
  <2>3. left \in Nat
    <3>1. w.maxEdges \in Nat /\ w.scanned \in Nat /\ w.scanned <= w.maxEdges
      BY <1>3, <2>1 DEF Walks, WalkFits, Found
    <3>2. QED
      BY <2>2, <3>1
  <2>4. PICK listed : listed = Rows(f.node, w.direction, left)
    OBVIOUS
  <2>5. PICK taken : taken = Cut(listed, left)
    OBVIOUS
  <2>6. /\ taken \in Seq(EdgeId) /\ Len(taken) <= left
        /\ Range(taken) \subseteq leaving
        /\ Len(listed) > left => Len(taken) = left
        /\ ~(Len(listed) > left) => Range(taken) = leaving
    BY <1>9, <2>3, <2>4, <2>5, RowsAre
  <2>7. PICK more \in BOOLEAN : more <=> Len(listed) > left
    <3>1. CASE Len(listed) > left
      <4>1. TRUE \in BOOLEAN /\ (TRUE <=> Len(listed) > left)
        BY <3>1
      <4>2. QED
        BY <4>1
    <3>2. CASE ~(Len(listed) > left)
      <4>1. FALSE \in BOOLEAN /\ (FALSE <=> Len(listed) > left)
        BY <3>2
      <4>2. QED
        BY <4>1
    <3>3. QED
      BY <3>1, <3>2
  <2>8. PICK begun : begun = IF more THEN Mark(rest, "edges") ELSE rest
    OBVIOUS
  <2>9. PICK last : last = Swept(begun, f, taken)
    OBVIOUS
  <2>10. v = IF last.phase # "done" /\ last.scanned >= w.maxEdges
             THEN Stop(Mark(last, "edges")) ELSE last
    <3>1. v = Scanned(f, left, listed)
      BY <1>2, <1>8, <1>13, <2>2, <2>4 DEF ScanNode
    <3>2. Scanned(f, left, listed) =
            IF last.phase # "done" /\ last.scanned >= w.maxEdges
            THEN Stop(Mark(last, "edges")) ELSE last
      <4>1. begun = IF Len(listed) > left THEN Mark(Popped, "edges") ELSE Popped
        BY <1>7, <2>7, <2>8
      <4>2. last = FoldLeft(LAMBDA x, e : TakeEdge(x, f, e),
                            IF Len(listed) > left THEN Mark(Popped, "edges") ELSE Popped,
                            Cut(listed, left))
        BY <2>5, <2>9, <4>1 DEF Swept
      <4>3. QED
        BY <1>2, <4>2 DEF Scanned
    <3>3. QED
      BY <3>1, <3>2
  <2>11. \A e \in Range(taken) : Follows(e, f.node, w.direction)
    BY <1>9, <2>6 DEF Leaving
  <2>12. ~more => \A e \in kept : Follows(e, f.node, w.direction) => e \in Range(taken)
    BY <1>10, <2>6, <2>7
  <2>13. more => Len(taken) = w.maxEdges - w.scanned
    BY <2>2, <2>6, <2>7
  <2>14. Len(taken) <= w.maxEdges - w.scanned
    BY <2>2, <2>6
  <2>15. taken \in Seq(EdgeId)
    BY <2>6
  <2>16. WalkFits(IF last.phase # "done" /\ last.scanned >= w.maxEdges
                  THEN Stop(Mark(last, "edges")) ELSE last, kept)
    BY <1>3, <1>6, <1>8, <2>1, <2>8, <2>9, <2>11, <2>12, <2>13, <2>14, <2>15, ScanFits
  <2>17. QED
    BY <1>2, <1>5, <2>1, <2>10, <2>16
<1>14. CASE QueueEmpty
  <2>1. w.phase = "bfs" /\ w.queue = <<>> /\ v = Stop(w) /\ UNCHANGED graphVars
    BY <1>2, <1>14 DEF QueueEmpty
  <2>2. WalkFits(v, kept)
    BY <1>3, <2>1, EmptyFits
  <2>3. QED
    BY <1>2, <1>5, <2>1, <2>2
<1>15. CASE /\ UNCHANGED walk
            /\ \/ \E e \in EdgeId : Relate(e) \/ Invalidate(e)
               \/ \E n \in Node : EraseNode(n)
  <2>1. Moves
    BY <1>15 DEF Moves
  <2>2. GraphFits' /\ after \subseteq kept /\ v = w
    BY <1>1, <1>2, <1>15, <2>1, GraphMoves
  <2>3. WalkFits(v, after)
    BY <1>3, <2>2, FewerKept
  <2>4. QED
    BY <1>2, <2>2, <2>3
<1>16. QED
  BY <1>2, <1>4, <1>11, <1>12, <1>13, <1>14, <1>15 DEF TraversalNext

\* What the invariant says of a walk is what its answer promises.
LEMMA WalkTells ==
  ASSUME TraversalInv
  PROVE  WalkKeepsItsBudget /\ UntruncatedWalkIsComplete /\ PathsAreShortest
<1>1. WalkFits(walk, steady) /\ walk \in Walks /\ steady \in SUBSET EdgeId
  BY DEF TraversalInv, WalkFits, GraphFits
<1>2. walk.phase \in {"idle", "not_found"} \/ walk.phase \in {"bfs", "done"}
  BY <1>1 DEF Walks
<1>3. WalkKeepsItsBudget
  <2>1. walk.maxEdges \in Nat
    BY <1>1 DEF Walks
  <2>2. QED
    BY <1>1, <1>2, <2>1 DEF WalkFits, Found, WalkKeepsItsBudget
<1>4. UntruncatedWalkIsComplete
  <2> SUFFICES ASSUME walk.phase = "done", walk.truncated = {}
               PROVE  Reachable(Seeds, steady, walk.direction, {}) \subseteq walk.visited
    BY DEF UntruncatedWalkIsComplete
  <2>1. /\ walk.visited = {g.node : g \in FramesOf(walk)}
        /\ \A g \in FramesOf(walk) : Explored(walk, g, steady)
    BY <1>1 DEF WalkFits, Found
  <2>2. Shut(walk.visited, steady, walk.direction, {})
    BY <2>1 DEF Shut, Explored, Reached
  <2>3. Seeds \subseteq walk.visited
    <3>1. \A s \in Seeds : Frame(s, 0, <<>>) \in FramesOf(walk) /\ Frame(s, 0, <<>>).node = s
      BY DEF FramesOf, SeedFrames, Frame
    <3>2. QED
      BY <2>1, <3>1
  <2>4. walk.visited \in SUBSET Node
    BY <1>1 DEF Walks
  <2>5. PICK V, kept, d : V = walk.visited /\ kept = steady /\ d = walk.direction
    OBVIOUS
  <2>6. Reachable(Seeds, kept, d, {}) \subseteq V
    BY <2>2, <2>3, <2>4, <2>5, ReachableStays
  <2>7. QED
    BY <2>5, <2>6
<1>5. PathsAreShortest
  <2> SUFFICES ASSUME NEW i \in 1 .. Len(walk.nodes)
               PROVE  LET found == walk.nodes[i]
                      IN  /\ Len(found.path) = found.depth
                          /\ IsChain(found.path, found.node, walk.direction)
                          /\ \A j \in 1 .. Len(found.path) : found.path[j] \in walk.edges
                          /\ found.node \notin Within(found.depth - 1, Seeds, steady, walk.direction)
    BY DEF PathsAreShortest
  <2>1. PICK g : g = walk.nodes[i]
    OBVIOUS
  <2>2. walk.nodes \in Seq(Frames)
    BY <1>1 DEF Walks
  <2>3. g \in Range(walk.nodes) /\ g \in Frames
    <3>1. PICK nodes : nodes = walk.nodes
      OBVIOUS
    <3>2. DOMAIN nodes = 1 .. Len(nodes) /\ \A k \in DOMAIN nodes : nodes[k] \in Frames /\ nodes[k] \in Range(nodes)
      BY <2>2, <3>1, SeqRange
    <3>3. QED
      BY <2>1, <3>1, <3>2
  <2>4. walk.phase \in {"bfs", "done"}
    <3>1. walk.nodes # <<>>
      BY <2>2, LenProperties
    <3>2. QED
      BY <1>1, <1>2, <3>1 DEF WalkFits
  <2>5. Found(walk, steady) /\ g \in FramesOf(walk)
    BY <1>1, <2>3, <2>4 DEF WalkFits, FramesOf
  <2>6. /\ Led(walk, g) /\ g.node \notin Within(g.depth - 1, Seeds, steady, walk.direction)
    BY <2>3, <2>5 DEF Found
  <2>7. g.path \in Seq(EdgeId)
    BY <2>3 DEF Frames
  <2>8. \A j \in 1 .. Len(g.path) : g.path[j] \in Range(g.path)
    BY <2>7, LenProperties DEF Range
  <2>9. QED
    BY <2>1, <2>6, <2>8 DEF Led
<1>6. QED
  BY <1>3, <1>4, <1>5

\* What a search does to the graph: others move in it, or the call begins.
LEMMA SearchTouches ==
  ASSUME GraphFits, ExpansionNext
  PROVE  /\ GraphFits'
         /\ \/ UNCHANGED graphVars
            \/ Moves /\ UNCHANGED search /\ search.phase \notin {"idle", "done"}
            \/ /\ \E d \in Direction, k \in ExpandDepths, c \in CandidateCaps, l \in BOOLEAN, r \in Rankings :
                     Search(d, k, c, l, r)
               /\ steady' = {e \in EdgeId : edge[e] = "active"} /\ seen' = steady'
               /\ UNCHANGED <<edge, row>>
<1>1. CASE \E d \in Direction, k \in ExpandDepths, c \in CandidateCaps, l \in BOOLEAN, r \in Rankings :
             Search(d, k, c, l, r)
  <2>1. steady' = {e \in EdgeId : edge[e] = "active"} /\ seen' = steady' /\ UNCHANGED <<edge, row>>
    BY <1>1 DEF Search
  <2>2. QED
    BY <1>1, <2>1, GraphRestarts
<1>2. CASE UNCHANGED graphVars
  BY <1>2 DEF GraphFits, graphVars
<1>3. CASE UNCHANGED search /\ Moves /\ search.phase \notin {"idle", "done"}
  BY <1>3, GraphMoves
<1>4. FilterKnownSys \/ (\E m \in SeedCaps : SeedExpansion(m)) \/ ProbeFrontier \/ ExpansionDeadline
      \/ ScansSpent \/ ExpandNode \/ FrontierEmpty \/ FetchCandidates => UNCHANGED graphVars
  BY DEF FilterKnownSys, SeedExpansion, ProbeFrontier, ExpansionDeadline, ScansSpent, ExpandNode,
         FrontierEmpty, FetchCandidates
<1>5. QED
  BY <1>1, <1>2, <1>3, <1>4 DEF ExpansionNext, Moves

\* A step leaves the walk in order.
LEMMA TraversalStays == TraversalInv /\ [Next]_vars => TraversalInv'
<1> SUFFICES ASSUME TraversalInv, [Next]_vars PROVE TraversalInv'
  OBVIOUS
<1>1. GraphFits /\ WalkFits(walk, steady) /\ (call # "traverse" => walk = NoWalk)
  BY DEF TraversalInv
<1>2. call' = call
  BY DEF Next, vars
<1>3. CASE call = "traverse" /\ TraversalNext
  <2>1. GraphFits' /\ WalkFits(walk', steady')
    BY <1>3, TraversalSteps
  <2>2. QED
    BY <1>2, <1>3, <2>1 DEF TraversalInv
<1>4. CASE UNCHANGED graphVars /\ UNCHANGED walk
  BY <1>1, <1>2, <1>4 DEF TraversalInv, GraphFits, graphVars
<1>5. CASE call = "search" /\ ExpansionNext /\ UNCHANGED walk
  <2>1. GraphFits'
    BY <1>1, <1>5, SearchTouches
  <2>2. walk' = NoWalk
    BY <1>1, <1>5
  <2>3. PICK after : after = steady'
    OBVIOUS
  <2>4. NoWalk = [NoWalk EXCEPT !.phase = "idle"]
    BY DEF NoWalk
  <2>5. WalkFits([NoWalk EXCEPT !.phase = "idle"], after)
    BY NoWalkFits
  <2>6. WalkFits(walk', steady')
    BY <2>2, <2>3, <2>4, <2>5
  <2>7. QED
    BY <1>2, <2>1, <2>2, <2>6 DEF TraversalInv
<1>6. QED
  BY <1>3, <1>4, <1>5 DEF Next, vars

-----------------------------------------------------------------------------
(* An expansion *)

\* What a search lists, and where it goes on from.
Entries == [node : Node, expanded : BOOLEAN, depth : Nat, from : SUBSET Node]
Fronts == [node : Node, depth : Nat, seed : Node]

\* What a search may be.
Searches == [phase : {"idle", "refilter", "expand", "bfs", "fetch", "done"},
             direction : Direction, maxDepth : Nat, maxCandidates : Nat, lens : BOOLEAN,
             hits : Seq(Entries), seeds : SUBSET Node, queue : Seq(Fronts),
             found : Seq(Entries), scanned : Nat, truncated : SUBSET Cuts]

\* No node is listed twice.
Distinct(entries) == \A i, j \in DOMAIN entries : entries[i].node = entries[j].node => i = j

\* A hit is joined to its seeds, and to one of them within its depth.
Vouched(s, hit, met) ==
    /\ hit.from \subseteq s.seeds
    /\ \A t \in hit.from : hit.node \in Reachable({t}, met, s.direction, {})
    /\ \E t \in hit.from : hit.node \in Within(hit.depth, {t}, met, s.direction)

\* Every untouched edge from a node leads to what is known.
Spread(s, n, kept) ==
    \A e \in kept : Follows(e, n, s.direction) => Far(e, n) \in NodesOf(s.hits) \cup NodesOf(s.found)

\* What an expansion has: direct hits, candidates apart from them that are vouched
\* for, and nodes it may yet go on from.
Stands(s, met) ==
    /\ Distinct(s.hits) /\ Distinct(s.found) /\ NodesOf(s.hits) \cap NodesOf(s.found) = {}
    /\ s.seeds \subseteq NodesOf(s.hits)
    /\ \A i \in DOMAIN s.hits : ~s.hits[i].expanded
    /\ \A i \in DOMAIN s.found : s.found[i].expanded /\ Vouched(s, s.found[i], met)
    /\ \A i \in DOMAIN s.queue :
          /\ s.queue[i].seed \in s.seeds
          /\ s.queue[i].node \in Within(s.queue[i].depth, {s.queue[i].seed}, met, s.direction)

\* Unless a bound was met, what is known is explored or waits in the queue.
Expanding(s, kept) ==
    s.truncated = {} => \A n \in s.seeds \cup NodesOf(s.found) :
                            n \in NodesOf(s.queue) \/ Spread(s, n, kept)

\* An expansion at rest.
SearchFits(s, kept, met) ==
    /\ s \in Searches
    /\ s.scanned <= MaxScans /\ Len(s.found) <= s.maxCandidates
    /\ s.phase # "done" => Stands(s, met) /\ Expanding(s, kept)
    /\ s.phase \in {"idle", "refilter", "expand"} => s.seeds = {} /\ s.found = <<>> /\ s.queue = <<>>
    /\ s.phase = "fetch" /\ s.truncated = {} => s.queue = <<>>

\* What is in the lens.
There == {n \in Node : row[n] = "in"}

\* The hits of the ranking, and those of the walk.
DirectOf(s) == {i \in DOMAIN s.hits : ~s.hits[i].expanded}
AddedOf(s) == {i \in DOMAIN s.hits : s.hits[i].expanded}

\* What its answer must be.
Complete(s, kept, there) ==
    s.seeds # {} /\ s.truncated = {} =>
        LET passive == {s.hits[i].node : i \in DirectOf(s)} \ s.seeds
        IN  Reachable(s.seeds, kept, s.direction, passive) \cap there \subseteq NodesOf(s.hits)
Supported(s, met) ==
    /\ \A i \in DirectOf(s), j \in AddedOf(s) : i < j
    /\ Distinct(s.hits)
    /\ \A i \in AddedOf(s) : Vouched(s, s.hits[i], met)
AnswerFits(s, kept, met, there) ==
    s.phase = "done" => Complete(s, kept, there) /\ Supported(s, met)

\* A search's expansion over the graph, and its answer when it is done.
SearchInv ==
    /\ GraphFits /\ SearchFits(search, steady, seen) /\ AnswerFits(search, steady, seen, There)
    /\ call # "search" => search = NoSearch

\* A node as a candidate, and in the queue.
Entry(n, f) == [node |-> n, expanded |-> TRUE, depth |-> f.depth + 1, from |-> {f.seed}]
Beyond(n, f) == Frontier(n, f.depth + 1, f.seed)

\* The same hits or candidates, otherwise provenanced.
Renewed(a, b) ==
    DOMAIN a = DOMAIN b /\ \A i \in DOMAIN a : a[i].node = b[i].node /\ a[i].expanded = b[i].expanded

\* One of them has another seed that leads to it.
Vouches(a, b, n, f) ==
    \E i \in DOMAIN a :
        /\ a[i].node = n /\ \A j \in DOMAIN a : j # i => b[j] = a[j]
        /\ b[i].from \in {a[i].from, a[i].from \cup {f.seed}} /\ b[i].depth >= a[i].depth

\* What a row of an expansion costs, whatever it leads to.
Tried(s, v) ==
    /\ v.direction = s.direction /\ v.maxDepth = s.maxDepth /\ v.maxCandidates = s.maxCandidates
    /\ v.seeds = s.seeds /\ v.scanned = s.scanned + 1

\* A row leads to a hit,
Hits(s, v, n) ==
    /\ n \in NodesOf(s.hits) /\ v.phase = s.phase /\ v.truncated = s.truncated
    /\ v.queue = s.queue /\ v.found = s.found /\ Renewed(s.hits, v.hits)

\* to a candidate found before,
Again(s, v, n, f) ==
    /\ v.phase = s.phase /\ v.truncated = s.truncated
    /\ v.queue = s.queue /\ v.hits = s.hits /\ Renewed(s.found, v.found) /\ Len(v.found) = Len(s.found)
    /\ Vouches(s.found, v.found, n, f)

\* to one too many,
Full(s, v) ==
    /\ v.phase = "fetch" /\ v.truncated = s.truncated \cup {"candidates"}
    /\ v.queue = s.queue /\ v.hits = s.hits /\ v.found = s.found

\* or to a new one.
Newly(s, v, n, f) ==
    /\ n \notin NodesOf(s.hits) /\ n \notin NodesOf(s.found) /\ Len(s.found) < s.maxCandidates
    /\ v.phase = s.phase /\ v.truncated = s.truncated /\ v.hits = s.hits
    /\ v.found = Append(s.found, Entry(n, f)) /\ v.queue = Append(s.queue, Beyond(n, f))

\* The place of an entry.
LEMMA AtIs ==
  ASSUME NEW entries, NEW n \in NodesOf(entries)
  PROVE  At(entries, n) \in DOMAIN entries /\ entries[At(entries, n)].node = n
BY DEF NodesOf, At

\* Another seed leads to one entry, with a depth of its own.
LEMMA ProvenanceIs ==
  ASSUME NEW a \in Seq(Entries), NEW i \in DOMAIN a, NEW f \in Fronts, NEW depth \in Nat, NEW b,
         b = [a EXCEPT ![i] = WithSeed(a[i], f.seed, depth)]
  PROVE  /\ b \in Seq(Entries) /\ Renewed(a, b) /\ Len(b) = Len(a)
         /\ \A j \in DOMAIN a : j # i => b[j] = a[j]
         /\ b[i].from \in {a[i].from, a[i].from \cup {f.seed}} /\ b[i].depth = depth
<1>1. DOMAIN a = 1 .. Len(a) /\ Len(a) \in Nat /\ \A j \in DOMAIN a : a[j] \in Entries
  BY LenProperties
<1>2. PICK c : c = WithSeed(a[i], f.seed, depth)
  OBVIOUS
<1>3. /\ c \in Entries /\ c.node = a[i].node /\ c.expanded = a[i].expanded
      /\ c.from \in {a[i].from, a[i].from \cup {f.seed}} /\ c.depth = depth
  <2>1. PICK from : from = IF Cardinality(a[i].from) < MaxFrom THEN a[i].from \cup {f.seed} ELSE a[i].from
    OBVIOUS
  <2>2. c = [a[i] EXCEPT !.from = from, !.depth = depth]
    BY <1>2, <2>1 DEF WithSeed
  <2>3. from \in {a[i].from, a[i].from \cup {f.seed}}
    BY <2>1
  <2>4. a[i] \in Entries /\ f.seed \in Node
    BY <1>1 DEF Fronts
  <2>5. QED
    BY ONLY <2>2, <2>3, <2>4, depth \in Nat DEF Entries
<1>4. b = [a EXCEPT ![i] = c]
  BY <1>2
<1>5. DOMAIN b = 1 .. Len(a) /\ b[i] = c /\ \A j \in DOMAIN a : j # i => b[j] = a[j]
  BY ONLY <1>1, <1>4
<1>6. \A j \in 1 .. Len(a) : b[j] \in Entries
  BY <1>1, <1>3, <1>5
<1>7. b \in [1 .. Len(a) -> Entries]
  <2>1. b = [j \in 1 .. Len(a) |-> b[j]]
    BY ONLY <1>1, <1>4
  <2>2. QED
    BY ONLY <1>6, <2>1
<1>8. b \in Seq(Entries) /\ Len(b) = Len(a)
  BY <1>1, <1>7, InSeq
<1>9. Renewed(a, b)
  <2>1. \A j \in DOMAIN a : a[j].node = b[j].node /\ a[j].expanded = b[j].expanded
    BY ONLY <1>3, <1>5
  <2>2. QED
    BY ONLY <1>1, <1>5, <2>1 DEF Renewed
<1>10. QED
  BY <1>3, <1>5, <1>8, <1>9

\* What a row of an expansion does.
LEMMA MeetIs ==
  ASSUME NEW s \in Searches, NEW f \in Fronts, NEW e \in EdgeId
  PROVE  LET v == Meet(s, f, e)
             n == Far(e, f.node)
         IN  /\ v \in Searches
             /\ s.phase = "fetch" => v = s
             /\ s.phase # "fetch" =>
                  /\ Tried(s, v)
                  /\ Hits(s, v, n) \/ Again(s, v, n, f) \/ Full(s, v) \/ Newly(s, v, n, f)
<1> DEFINE v == Meet(s, f, e)
           n == Far(e, f.node)
<1>1. CASE s.phase = "fetch"
  <2>1. v = s
    BY <1>1 DEF Meet
  <2>2. QED
    BY <1>1, <2>1
<1>2. CASE s.phase # "fetch"
  <2>1. n \in Node /\ f.depth + 1 \in Nat /\ f.seed \in Node
    BY FarIsANode DEF Fronts
  <2>2. PICK counted : counted = [s EXCEPT !.scanned = @ + 1]
    OBVIOUS
  <2>3. /\ counted \in Searches /\ Tried(s, counted)
        /\ counted.phase = s.phase /\ counted.truncated = s.truncated
        /\ counted.queue = s.queue /\ counted.hits = s.hits /\ counted.found = s.found
    <3>1. PICK more : more = s.scanned + 1
      OBVIOUS
    <3>2. more \in Nat
      BY <3>1 DEF Searches
    <3>3. counted = [s EXCEPT !.scanned = more]
      BY <2>2, <3>1
    <3>4. /\ counted \in Searches /\ counted.scanned = more
          /\ counted.direction = s.direction /\ counted.maxDepth = s.maxDepth
          /\ counted.maxCandidates = s.maxCandidates /\ counted.seeds = s.seeds
          /\ counted.phase = s.phase /\ counted.truncated = s.truncated
          /\ counted.queue = s.queue /\ counted.hits = s.hits /\ counted.found = s.found
      BY <3>2, <3>3 DEF Searches
    <3>5. QED
      BY ONLY <3>1, <3>4 DEF Tried
  <2>4. v = IF n \in NodesOf(s.hits) THEN Corroborate(counted, At(s.hits, n), f)
            ELSE IF n \in NodesOf(s.found) THEN MergeProv(counted, At(s.found, n), f)
            ELSE IF Len(s.found) >= s.maxCandidates
                 THEN Fetching(Marked(counted, "candidates"))
            ELSE Discover(counted, n, f)
    BY <1>2, <2>2 DEF Meet
  <2>5. counted.hits \in Seq(Entries) /\ counted.found \in Seq(Entries) /\ counted.queue \in Seq(Fronts)
    BY <2>3 DEF Searches
  <2> HIDE DEF v, n
  <2>6. CASE n \in NodesOf(s.hits)
    <3>1. PICK i : i = At(s.hits, n)
      OBVIOUS
    <3>2. i \in DOMAIN counted.hits
      BY <2>3, <2>6, <3>1, AtIs
    <3>3. PICK depth : depth = IF counted.hits[i].depth = 0 \/ f.depth + 1 < counted.hits[i].depth
                               THEN f.depth + 1 ELSE counted.hits[i].depth
      OBVIOUS
    <3>4. depth \in Nat
      <4>1. counted.hits[i] \in Entries
        BY <2>5, <3>2, LenProperties
      <4>2. QED
        BY <2>1, <3>3, <4>1 DEF Entries
    <3>5. PICK b : b = [counted.hits EXCEPT ![i] = WithSeed(counted.hits[i], f.seed, depth)]
      OBVIOUS
    <3>6. b \in Seq(Entries) /\ Renewed(counted.hits, b)
      BY <2>5, <3>2, <3>4, <3>5, ProvenanceIs
    <3>7. v = [counted EXCEPT !.hits = b]
      <4>1. v = Corroborate(counted, i, f)
        BY <2>4, <2>6, <3>1
      <4>2. QED
        BY ONLY <3>3, <3>5, <4>1 DEF Corroborate
    <3>8. /\ v \in Searches /\ v.hits = b /\ v.scanned = counted.scanned
          /\ v.direction = counted.direction /\ v.maxDepth = counted.maxDepth
          /\ v.maxCandidates = counted.maxCandidates /\ v.seeds = counted.seeds
          /\ v.phase = counted.phase /\ v.truncated = counted.truncated
          /\ v.queue = counted.queue /\ v.found = counted.found
      BY ONLY <2>3, <3>6, <3>7 DEF Searches
    <3>9. Tried(s, v) /\ Hits(s, v, n)
      BY ONLY <2>3, <2>6, <3>6, <3>8 DEF Tried, Hits
    <3>10. QED
      BY <1>2, <3>8, <3>9 DEF v, n
  <2>7. CASE n \notin NodesOf(s.hits) /\ n \in NodesOf(s.found)
    <3>1. PICK i : i = At(s.found, n)
      OBVIOUS
    <3>2. i \in DOMAIN counted.found /\ counted.found[i].node = n
      BY <2>3, <2>7, <3>1, AtIs
    <3>3. PICK depth : depth = IF f.depth + 1 > counted.found[i].depth
                               THEN f.depth + 1 ELSE counted.found[i].depth
      OBVIOUS
    <3>4. depth \in Nat
      <4>1. counted.found[i] \in Entries
        BY <2>5, <3>2, LenProperties
      <4>2. QED
        BY <2>1, <3>3, <4>1 DEF Entries
    <3>5. PICK b : b = [counted.found EXCEPT ![i] = WithSeed(counted.found[i], f.seed, depth)]
      OBVIOUS
    <3>6. b \in Seq(Entries) /\ Renewed(counted.found, b) /\ Len(b) = Len(counted.found)
      BY <2>5, <3>2, <3>4, <3>5, ProvenanceIs
    <3>7. /\ \A j \in DOMAIN counted.found : j # i => b[j] = counted.found[j]
          /\ b[i].from \in {counted.found[i].from, counted.found[i].from \cup {f.seed}}
          /\ b[i].depth = depth
      BY <2>5, <3>2, <3>4, <3>5, ProvenanceIs
    <3>8. Vouches(counted.found, b, n, f)
      <4>1. counted.found[i].depth \in Nat
        <5>1. counted.found[i] \in Entries
          BY <2>5, <3>2, LenProperties
        <5>2. QED
          BY <5>1 DEF Entries
      <4>2. depth >= counted.found[i].depth
        BY ONLY <2>1, <3>3, <4>1
      <4>3. QED
        BY ONLY <3>2, <3>7, <4>2 DEF Vouches
    <3>9. v = [counted EXCEPT !.found = b]
      <4>1. v = MergeProv(counted, i, f)
        BY <2>4, <2>7, <3>1
      <4>2. QED
        BY ONLY <3>3, <3>5, <4>1 DEF MergeProv
    <3>10. /\ v \in Searches /\ v.hits = counted.hits /\ v.scanned = counted.scanned
           /\ v.direction = counted.direction /\ v.maxDepth = counted.maxDepth
           /\ v.maxCandidates = counted.maxCandidates /\ v.seeds = counted.seeds
           /\ v.phase = counted.phase /\ v.truncated = counted.truncated
           /\ v.queue = counted.queue /\ v.found = b
      BY ONLY <2>3, <3>6, <3>9 DEF Searches
    <3>11. Tried(s, v) /\ Again(s, v, n, f)
      BY ONLY <2>3, <2>7, <3>6, <3>8, <3>10 DEF Tried, Again
    <3>12. QED
      BY <1>2, <3>10, <3>11 DEF v, n
  <2>8. CASE n \notin NodesOf(s.hits) /\ n \notin NodesOf(s.found) /\ Len(s.found) >= s.maxCandidates
    <3>1. v = Fetching(Marked(counted, "candidates"))
      BY <2>4, <2>8
    <3>2. /\ v \in Searches /\ v.hits = counted.hits /\ v.scanned = counted.scanned
          /\ v.direction = counted.direction /\ v.maxDepth = counted.maxDepth
          /\ v.maxCandidates = counted.maxCandidates /\ v.seeds = counted.seeds
          /\ v.phase = "fetch" /\ v.truncated = counted.truncated \cup {"candidates"}
          /\ v.queue = counted.queue /\ v.found = counted.found
      BY ONLY <2>3, <3>1 DEF Searches, Fetching, Marked, Cuts
    <3>3. Tried(s, v) /\ Full(s, v)
      BY ONLY <2>3, <3>2 DEF Tried, Full
    <3>4. QED
      BY <1>2, <3>2, <3>3 DEF v, n
  <2>9. CASE n \notin NodesOf(s.hits) /\ n \notin NodesOf(s.found) /\ ~(Len(s.found) >= s.maxCandidates)
    <3>1. PICK hit, front : hit = Entry(n, f) /\ front = Beyond(n, f)
      OBVIOUS
    <3>2. hit \in Entries /\ front \in Fronts
      BY <2>1, <3>1 DEF Entry, Beyond, Frontier, Entries, Fronts
    <3>3. PICK found, queue : found = Append(counted.found, hit) /\ queue = Append(counted.queue, front)
      OBVIOUS
    <3>4. found \in Seq(Entries) /\ queue \in Seq(Fronts)
      BY <2>5, <3>2, <3>3, AppendProperties
    <3>5. v = [counted EXCEPT !.found = found, !.queue = queue]
      <4>1. v = Discover(counted, n, f)
        BY <2>4, <2>9
      <4>2. QED
        BY ONLY <3>1, <3>3, <4>1 DEF Discover, Entry, Beyond
    <3>6. /\ v \in Searches /\ v.hits = counted.hits /\ v.scanned = counted.scanned
          /\ v.direction = counted.direction /\ v.maxDepth = counted.maxDepth
          /\ v.maxCandidates = counted.maxCandidates /\ v.seeds = counted.seeds
          /\ v.phase = counted.phase /\ v.truncated = counted.truncated
          /\ v.queue = queue /\ v.found = found
      BY ONLY <2>3, <3>4, <3>5 DEF Searches
    <3>7. Len(s.found) < s.maxCandidates
      <4>1. Len(s.found) \in Nat /\ s.maxCandidates \in Nat
        BY <2>3, <2>5, LenProperties DEF Searches
      <4>2. QED
        BY <2>9, <4>1
    <3>8. Tried(s, v) /\ Newly(s, v, n, f)
      BY ONLY <2>3, <2>9, <3>1, <3>3, <3>6, <3>7 DEF Tried, Newly
    <3>9. QED
      BY <1>2, <3>6, <3>8 DEF v, n
  <2>10. QED
    BY <2>6, <2>7, <2>8, <2>9
<1>3. QED
  BY <1>1, <1>2

\* The states an expansion goes through, one for each row.
SpreadRuns(s, begun, frame, edges) ==
    /\ s[0] = begun
    /\ FoldLeft(LAMBDA x, e : Meet(x, frame, e), begun, edges) = s[Len(edges)]
    /\ \A i \in 1 .. Len(edges) : s[i] = Meet(s[i - 1], frame, edges[i])

\* An expansion meets the rows of a scan in turn.
LEMMA MeetSteps ==
  ASSUME NEW begun \in Searches, NEW frame \in Fronts, NEW edges \in Seq(EdgeId)
  PROVE  \E s \in [0 .. Len(edges) -> Searches] : SpreadRuns(s, begun, frame, edges)
<1> DEFINE n == Len(edges)
           Turn(x, i) == Meet(x, frame, edges[i])
           step == [t \in (1 .. n) \X Searches |-> Turn(t[2], t[1])]
           Body(h, s) == IF s = {} THEN begun ELSE Turn(h[s \ {Max(s)}], Max(s))
<1>1. n \in Nat /\ DOMAIN edges = 1 .. n
  BY LenProperties
<1>2. /\ begun \in Searches
      /\ \A x \in Searches, i \in 1 .. n : Turn(x, i) \in Searches
  <2> SUFFICES ASSUME NEW x \in Searches, NEW i \in 1 .. n PROVE Meet(x, frame, edges[i]) \in Searches
    OBVIOUS
  <2>1. edges[i] \in EdgeId
    BY <1>1, LenProperties
  <2>2. QED
    BY <2>1, MeetIs
<1> HIDE DEF Turn
<1>3. step \in [(1 .. n) \X Searches -> Searches]
  <2> SUFFICES ASSUME NEW t \in (1 .. n) \X Searches PROVE Turn(t[2], t[1]) \in Searches
    OBVIOUS
  <2>1. t[1] \in 1 .. n /\ t[2] \in Searches
    OBVIOUS
  <2>2. QED
    BY <1>2, <2>1
<1>4. PICK g \in [SUBSET (1 .. n) -> Searches] : FoldsBy(g, begun, step, n)
  <2>1. n \in Nat /\ begun \in Searches
    BY <1>1, <1>2
  <2> HIDE DEF step, n
  <2>2. QED
    BY <1>3, <2>1, FoldExists
<1>5. \A s \in SUBSET (1 .. n) : g[s] = Body(g, s)
  <2> SUFFICES ASSUME NEW s \in SUBSET (1 .. n), s # {} PROVE g[s] = Turn(g[s \ {Max(s)}], Max(s))
    BY <1>4 DEF FoldsBy
  <2>1. Max(s) \in 1 .. n /\ s \ {Max(s)} \in SUBSET (1 .. n)
    BY <1>1, MaxIs
  <2>2. g[s \ {Max(s)}] \in Searches
    BY <1>4, <2>1
  <2>3. step[<<Max(s), g[s \ {Max(s)}]>>] = Turn(g[s \ {Max(s)}], Max(s))
    BY <2>1, <2>2
  <2> HIDE DEF step
  <2>4. QED
    BY <1>4, <2>3 DEF FoldsBy
<1>6. g = [s \in SUBSET (1 .. n) |-> Body(g, s)]
  <2> HIDE DEF Body
  <2>1. QED
    BY <1>4, <1>5
<1>7. FoldLeft(LAMBDA x, e : Meet(x, frame, e), begun, edges) = (CHOOSE h : h = [s \in SUBSET DOMAIN edges |-> Body(h, s)])[DOMAIN edges]
  BY DEF Turn, FoldLeft, MapThenFoldSet
<1>8. PICK h : h = [s \in SUBSET (1 .. n) |-> Body(h, s)] /\ FoldLeft(LAMBDA x, e : Meet(x, frame, e), begun, edges) = h[1 .. n]
  <2> HIDE DEF Body
  <2>1. QED
    BY <1>1, <1>6, <1>7
<1>9. StepsBy(h, Searches, begun, step, n)
  <2> SUFFICES ASSUME NEW s \in SUBSET (1 .. n)
      PROVE  /\ s = {} => h[s] = begun
             /\ s # {} /\ h[s \ {Max(s)}] \in Searches => h[s] = step[<<Max(s), h[s \ {Max(s)}]>>]
    <3> HIDE DEF step, n
    <3>1. QED
      BY DEF StepsBy
  <2>1. h[s] = Body(h, s)
    <3> HIDE DEF Body
    <3>1. QED
      BY <1>8
  <2>2. s # {} => Max(s) \in 1 .. n
    BY <1>1, MaxIs
  <2>3. s # {} /\ h[s \ {Max(s)}] \in Searches =>
          step[<<Max(s), h[s \ {Max(s)}]>>] = Turn(h[s \ {Max(s)}], Max(s))
    BY <2>2
  <2> HIDE DEF step
  <2>4. QED
    BY <2>1, <2>3
<1>10. PICK f \in [0 .. n -> Searches] :
          f[n] = h[1 .. n] /\ RunsBy(f, begun, step, n)
  <2>1. n \in Nat /\ begun \in Searches
    BY <1>1, <1>2
  <2> HIDE DEF step, n
  <2>2. QED
    BY <1>3, <1>9, <2>1, FoldSteps
<1>11. ASSUME NEW i \in 1 .. n PROVE f[i] = Turn(f[i - 1], i)
  <2>1. i - 1 \in 0 .. n
    BY <1>1
  <2>2. f[i - 1] \in Searches
    BY <1>10, <2>1
  <2>3. step[<<i, f[i - 1]>>] = Turn(f[i - 1], i)
    BY <2>2
  <2> HIDE DEF step
  <2>4. QED
    BY <1>10, <2>3 DEF RunsBy
<1>12. QED
  BY <1>8, <1>10, <1>11 DEF Turn, RunsBy, SpreadRuns

\* Entries otherwise provenanced are of the same nodes.
LEMMA NodesStay ==
  ASSUME NEW a, NEW b, Renewed(a, b)
  PROVE  NodesOf(b) = NodesOf(a) /\ (Distinct(a) => Distinct(b))
BY DEF Renewed, NodesOf, Distinct

\* What is appended stands last.
LEMMA PlacesGrow ==
  ASSUME NEW S, NEW a \in Seq(S), NEW x, NEW b, b = Append(a, x)
  PROVE  /\ Len(a) \in Nat /\ DOMAIN a = 1 .. Len(a) /\ DOMAIN b = 1 .. Len(a) + 1 /\ Len(b) = Len(a) + 1
         /\ \A i \in 1 .. Len(a) : b[i] = a[i]
         /\ b[Len(a) + 1] = x
<1>1. a \in Seq(Range(a)) /\ Len(a) \in Nat /\ DOMAIN a = 1 .. Len(a)
  BY SeqRange
<1>2. DOMAIN b = 1 .. Len(a) + 1 /\ Len(b) = Len(a) + 1
  BY <1>1, Appends
<1>3. \A i \in 1 .. Len(a) : b[i] = a[i]
  BY <1>1, Appends
<1>4. b[Len(a) + 1] = x
  BY <1>1, Appends
<1>5. QED
  BY <1>1, <1>2, <1>3, <1>4

\* An entry appended is of one more node.
LEMMA NodesGrow ==
  ASSUME NEW S, NEW a \in Seq(S), NEW x, NEW b, b = Append(a, x), NEW n, n = x.node
  PROVE  /\ NodesOf(b) = NodesOf(a) \cup {n}
         /\ Distinct(a) /\ n \notin NodesOf(a) => Distinct(b)
<1>1. Len(a) \in Nat /\ DOMAIN a = 1 .. Len(a) /\ DOMAIN b = 1 .. Len(a) + 1
  BY PlacesGrow
<1>2. \A i \in 1 .. Len(a) : b[i] = a[i]
  BY PlacesGrow
<1>3. b[Len(a) + 1] = x
  BY PlacesGrow
<1>4. \A i \in DOMAIN b : i \in DOMAIN a \/ i = Len(a) + 1
  BY <1>1
<1>5. DOMAIN a \subseteq DOMAIN b /\ Len(a) + 1 \in DOMAIN b
  BY <1>1
<1>6. NodesOf(b) = NodesOf(a) \cup {n}
  BY <1>1, <1>2, <1>3, <1>4, <1>5 DEF NodesOf
<1>7. Distinct(a) /\ n \notin NodesOf(a) => Distinct(b)
  BY <1>1, <1>2, <1>3, <1>4 DEF NodesOf, Distinct
<1>8. QED
  BY <1>6, <1>7

\* An expansion in the middle of a scan, after i of its rows.
Spreading(s, begun, f, kept, met, edges, i) ==
    /\ s \in Searches
    /\ s.phase \in {"bfs", "fetch"} /\ (s.phase = "fetch" => s.truncated # {})
    /\ s.direction = begun.direction /\ s.maxCandidates = begun.maxCandidates /\ s.seeds = begun.seeds
    /\ s.scanned <= begun.scanned + i /\ Len(s.found) <= s.maxCandidates
    /\ begun.truncated \subseteq s.truncated
    /\ Stands(s, met)
    /\ s.truncated = {} =>
          /\ \A n \in s.seeds \cup NodesOf(s.found) :
                n = f.node \/ n \in NodesOf(s.queue) \/ Spread(s, n, kept)
          /\ \A j \in 1 .. i : Far(edges[j], f.node) \in NodesOf(s.hits) \cup NodesOf(s.found)

\* What the walk of an expansion may say of a node the row leads to.
Backed(s, n, f, met) ==
    /\ f.seed \in s.seeds /\ n \in Reachable({f.seed}, met, s.direction, {})
    /\ n \in Within(f.depth + 1, {f.seed}, met, s.direction)

\* An edge that was seen backs what it leads to.
LEMMA RowBacks ==
  ASSUME NEW s \in Searches, NEW met \in SUBSET EdgeId, NEW f \in Fronts, f.seed \in s.seeds,
         f.node \in Within(f.depth, {f.seed}, met, s.direction),
         NEW e \in met, Follows(e, f.node, s.direction)
  PROVE  Backed(s, Far(e, f.node), f, met)
<1>1. f.depth \in Nat /\ f.depth + 1 \in Nat /\ {f.seed} \in SUBSET Node
  BY DEF Fronts
<1>2. PICK n, depth, d : n = f.node /\ depth = f.depth /\ d = s.direction
  OBVIOUS
<1>3. Far(e, n) \in Within(depth + 1, {f.seed}, met, d)
  BY <1>1, <1>2, WithinGoesOn
<1>4. Within(depth + 1, {f.seed}, met, d) \subseteq Reachable({f.seed}, met, d, {})
  BY <1>1, <1>2, WithinReaches
<1>5. QED
  BY <1>2, <1>3, <1>4 DEF Backed

\* The same edges and seeds vouch for the same.
LEMMA SameVouched ==
  ASSUME NEW s, NEW v, NEW met, NEW hit, v.seeds = s.seeds, v.direction = s.direction,
         Vouched(s, hit, met)
  PROVE  Vouched(v, hit, met)
BY DEF Vouched

\* A node's edges lead to what is known as more is known.
LEMMA SpreadStays ==
  ASSUME NEW s, NEW v, NEW kept, NEW n, v.direction = s.direction, Spread(s, n, kept),
         NodesOf(s.hits) \subseteq NodesOf(v.hits), NodesOf(s.found) \subseteq NodesOf(v.found)
  PROVE  Spread(v, n, kept)
BY DEF Spread

\* What an expansion has is in order when a row leads to a hit,
LEMMA StandsAfterHit ==
  ASSUME NEW s, NEW v, NEW met, NEW n, Stands(s, met), Tried(s, v), Hits(s, v, n)
  PROVE  Stands(v, met) /\ NodesOf(v.hits) = NodesOf(s.hits)
<1>1. NodesOf(v.hits) = NodesOf(s.hits) /\ (Distinct(s.hits) => Distinct(v.hits))
  BY NodesStay DEF Hits
<1>2. \A i \in DOMAIN v.hits : i \in DOMAIN s.hits /\ v.hits[i].expanded = s.hits[i].expanded
  BY DEF Hits, Renewed
<1>3. \A i \in DOMAIN v.found : v.found[i].expanded /\ Vouched(v, v.found[i], met)
  BY SameVouched DEF Stands, Tried, Hits
<1>4. QED
  BY <1>1, <1>2, <1>3 DEF Stands, Tried, Hits

\* to a candidate found before,
LEMMA StandsAgain ==
  ASSUME NEW s \in Searches, NEW v \in Searches, NEW met, NEW n, NEW f,
         Stands(s, met), Tried(s, v), Again(s, v, n, f), Backed(s, n, f, met)
  PROVE  Stands(v, met) /\ NodesOf(v.found) = NodesOf(s.found)
<1>1. NodesOf(v.found) = NodesOf(s.found) /\ (Distinct(s.found) => Distinct(v.found))
  BY NodesStay DEF Again
<1>2. ASSUME NEW j \in DOMAIN v.found PROVE v.found[j].expanded /\ Vouched(v, v.found[j], met)
  <2>1. /\ j \in DOMAIN s.found /\ s.found[j].expanded /\ Vouched(s, s.found[j], met)
        /\ v.found[j].node = s.found[j].node /\ v.found[j].expanded = s.found[j].expanded
    BY <1>2 DEF Again, Renewed, Stands
  <2>2. PICK i \in DOMAIN s.found :
           /\ s.found[i].node = n /\ \A k \in DOMAIN s.found : k # i => v.found[k] = s.found[k]
           /\ v.found[i].from \in {s.found[i].from, s.found[i].from \cup {f.seed}}
           /\ v.found[i].depth >= s.found[i].depth
    BY DEF Again, Vouches
  <2>3. CASE j # i
    BY <2>1, <2>2, <2>3, SameVouched DEF Tried
  <2>4. CASE j = i
    <3>1. PICK hit, old : hit = v.found[j] /\ old = s.found[j]
      OBVIOUS
    <3>2. /\ Vouched(s, old, met) /\ hit.node = old.node /\ old.node = n
          /\ hit.from \in {old.from, old.from \cup {f.seed}} /\ hit.depth >= old.depth
      BY <2>1, <2>2, <2>4, <3>1
    <3>3. v.seeds = s.seeds /\ v.direction = s.direction
      BY DEF Tried
    <3>4. f.seed \in s.seeds /\ n \in Reachable({f.seed}, met, s.direction, {})
      BY DEF Backed
    <3>5. Vouched(v, hit, met)
      <4>1. hit.from \subseteq v.seeds
        BY <3>2, <3>3, <3>4 DEF Vouched
      <4>2. \A t \in hit.from : hit.node \in Reachable({t}, met, v.direction, {})
        BY <3>2, <3>3, <3>4 DEF Vouched
      <4>3. PICK t \in old.from : old.node \in Within(old.depth, {t}, met, s.direction)
        BY <3>2 DEF Vouched
      <4>4. old.depth \in Nat /\ hit.depth \in Nat
        <5>1. old \in Entries
          BY <2>1, <3>1, SeqRange DEF Searches
        <5>2. hit \in Entries
          BY <1>2, <3>1, SeqRange DEF Searches
        <5>3. QED
          BY <5>1, <5>2 DEF Entries
      <4>5. old.node \in Within(hit.depth, {t}, met, s.direction)
        <5>1. PICK less, most, from, d : less = old.depth /\ most = hit.depth /\ from = {t} /\ d = s.direction
          OBVIOUS
        <5>2. Within(less, from, met, d) \subseteq Within(most, from, met, d)
          BY <3>2, <4>4, <5>1, WithinLonger
        <5>3. QED
          BY <4>3, <5>1, <5>2
      <4>6. QED
        BY <3>2, <3>3, <4>1, <4>2, <4>5 DEF Vouched
    <3>6. QED
      BY <2>1, <3>1, <3>5
  <2>5. QED
    BY <2>3, <2>4
<1>3. QED
  BY <1>1, <1>2 DEF Stands, Tried, Again

\* or to a new one.
LEMMA StandsNewly ==
  ASSUME NEW s \in Searches, NEW v \in Searches, NEW met, NEW n \in Node, NEW f \in Fronts,
         Stands(s, met), Tried(s, v), Newly(s, v, n, f), Backed(s, n, f, met)
  PROVE  /\ Stands(v, met) /\ NodesOf(v.found) = NodesOf(s.found) \cup {n}
         /\ NodesOf(v.queue) = NodesOf(s.queue) \cup {n} /\ Len(v.found) <= v.maxCandidates
<1>1. PICK hit, front, depth : hit = Entry(n, f) /\ front = Beyond(n, f) /\ depth = f.depth + 1
  OBVIOUS
<1>2. /\ hit \in Entries /\ hit.node = n /\ hit.expanded /\ hit.depth = depth /\ hit.from = {f.seed}
      /\ front \in Fronts /\ front.node = n /\ front.depth = depth /\ front.seed = f.seed
  <2>1. depth \in Nat /\ f.seed \in Node
    BY <1>1 DEF Fronts
  <2>2. QED
    BY <1>1, <2>1 DEF Entry, Beyond, Frontier, Entries, Fronts
<1>3. /\ v.found = Append(s.found, hit) /\ v.queue = Append(s.queue, front)
      /\ v.hits = s.hits /\ v.seeds = s.seeds /\ v.direction = s.direction
      /\ v.maxCandidates = s.maxCandidates
      /\ n \notin NodesOf(s.hits) /\ n \notin NodesOf(s.found) /\ Len(s.found) < s.maxCandidates
  BY <1>1 DEF Newly, Tried
<1>4. s.found \in Seq(Entries) /\ s.queue \in Seq(Fronts) /\ s.maxCandidates \in Nat
  BY DEF Searches
<1>5. PICK a, b, p, q : a = s.found /\ b = v.found /\ p = s.queue /\ q = v.queue
  OBVIOUS
<1>6. a \in Seq(Entries) /\ b = Append(a, hit) /\ p \in Seq(Fronts) /\ q = Append(p, front)
  BY <1>3, <1>4, <1>5
<1>7. NodesOf(b) = NodesOf(a) \cup {n} /\ (Distinct(a) => Distinct(b))
  <2>1. n = hit.node /\ n \notin NodesOf(a)
    BY <1>2, <1>3, <1>5
  <2>2. a \in Seq(Entries) /\ b = Append(a, hit)
    BY <1>6
  <2>3. NodesOf(b) = NodesOf(a) \cup {n}
    BY ONLY <2>1, <2>2, NodesGrow
  <2>4. Distinct(a) => Distinct(b)
    BY ONLY <2>1, <2>2, NodesGrow
  <2>5. QED
    BY <2>3, <2>4
<1>8. NodesOf(q) = NodesOf(p) \cup {n}
  <2>1. n = front.node /\ p \in Seq(Fronts) /\ q = Append(p, front)
    BY <1>2, <1>6
  <2>2. QED
    BY ONLY <2>1, NodesGrow
<1>9. /\ Len(a) \in Nat /\ DOMAIN a = 1 .. Len(a) /\ DOMAIN b = 1 .. Len(a) + 1 /\ Len(b) = Len(a) + 1
       /\ \A i \in 1 .. Len(a) : b[i] = a[i]
  BY <1>6, PlacesGrow
<1>10. b[Len(a) + 1] = hit
  BY <1>6, PlacesGrow
<1>11. /\ Len(p) \in Nat /\ DOMAIN p = 1 .. Len(p) /\ DOMAIN q = 1 .. Len(p) + 1
       /\ \A i \in 1 .. Len(p) : q[i] = p[i]
       /\ q[Len(p) + 1] = front
  BY <1>6, PlacesGrow
<1>12. /\ f.seed \in s.seeds /\ n \in Reachable({f.seed}, met, s.direction, {})
      /\ n \in Within(depth, {f.seed}, met, s.direction)
  BY <1>1 DEF Backed
<1>13. ASSUME NEW i \in DOMAIN b PROVE b[i].expanded /\ Vouched(v, b[i], met)
  <2>1. CASE i \in DOMAIN a
    <3>1. s.found[i].expanded /\ Vouched(s, s.found[i], met)
      BY <1>5, <2>1 DEF Stands
    <3>2. PICK old : old = s.found[i] /\ old = b[i]
      BY <1>5, <1>9, <2>1
    <3>3. Vouched(v, old, met)
      BY <1>3, <3>1, <3>2, SameVouched
    <3>4. QED
      BY <3>1, <3>2, <3>3
  <2>2. CASE i \notin DOMAIN a
    <3>1. Vouched(v, hit, met)
      BY <1>2, <1>3, <1>12 DEF Vouched
    <3>2. i = Len(a) + 1
      BY <1>9, <2>2
    <3>3. b[i] = b[Len(a) + 1]
      BY <3>2
    <3>4. b[i] = hit
      BY ONLY <1>10, <3>3
    <3>5. hit.expanded
      BY <1>2
    <3>6. QED
      BY ONLY <3>1, <3>4, <3>5
  <2>3. QED
    BY <2>1, <2>2
<1>14. ASSUME NEW i \in DOMAIN q
       PROVE  /\ q[i].seed \in v.seeds
              /\ q[i].node \in Within(q[i].depth, {q[i].seed}, met, v.direction)
  <2>1. CASE i \in DOMAIN p
    <3>1. q[i] = s.queue[i] /\ i \in DOMAIN s.queue
      BY <1>5, <1>11, <2>1
    <3>2. /\ s.queue[i].seed \in s.seeds
          /\ s.queue[i].node \in Within(s.queue[i].depth, {s.queue[i].seed}, met, s.direction)
      BY <3>1 DEF Stands
    <3>3. QED
      BY <1>3, <3>1, <3>2
  <2>2. CASE i = Len(p) + 1
    <3>1. q[i] = front
      BY <1>11, <2>2
    <3>2. QED
      BY <1>2, <1>3, <1>12, <3>1
  <2>3. QED
    BY <1>11, <2>1, <2>2
<1>15. Stands(v, met)
  <2>1. NodesOf(v.hits) \cap NodesOf(v.found) = {}
    BY <1>3, <1>5, <1>7 DEF Stands
  <2>2. QED
    BY <1>3, <1>5, <1>7, <1>13, <1>14, <2>1 DEF Stands
<1>16. Len(v.found) <= v.maxCandidates
  BY <1>3, <1>4, <1>5, <1>9
<1>17. QED
  BY <1>5, <1>7, <1>8, <1>15, <1>16

\* A row of an expansion keeps what is true of it so far.
LEMMA RowMet ==
  ASSUME NEW begun \in Searches, NEW kept, NEW met \in SUBSET EdgeId, NEW f \in Fronts,
         f.seed \in begun.seeds, f.node \in Within(f.depth, {f.seed}, met, begun.direction),
         NEW edges \in Seq(EdgeId), NEW i \in 1 .. Len(edges),
         edges[i] \in met, Follows(edges[i], f.node, begun.direction),
         NEW s, Spreading(s, begun, f, kept, met, edges, i - 1),
         NEW v, v = Meet(s, f, edges[i])
  PROVE  Spreading(v, begun, f, kept, met, edges, i)
<1>1. /\ s \in Searches /\ Stands(s, met)
      /\ s.phase \in {"bfs", "fetch"} /\ (s.phase = "fetch" => s.truncated # {})
      /\ s.direction = begun.direction /\ s.maxCandidates = begun.maxCandidates /\ s.seeds = begun.seeds
      /\ s.scanned <= begun.scanned + (i - 1) /\ Len(s.found) <= s.maxCandidates
      /\ begun.truncated \subseteq s.truncated
  BY DEF Spreading
<1>2. PICK e : e = edges[i] /\ e \in EdgeId /\ e \in met
  BY LenProperties
<1>3. PICK n : n = Far(e, f.node)
  OBVIOUS
<1>4. n \in Node
  BY <1>2, <1>3, FarIsANode DEF Fronts
<1>5. /\ v \in Searches
      /\ s.phase = "fetch" => v = s
      /\ s.phase # "fetch" =>
           /\ Tried(s, v)
           /\ Hits(s, v, n) \/ Again(s, v, n, f) \/ Full(s, v) \/ Newly(s, v, n, f)
  BY <1>1, <1>2, <1>3, MeetIs
<1>6. Backed(s, n, f, met)
  BY <1>1, <1>2, <1>3, RowBacks
<1>7. s.scanned \in Nat /\ begun.scanned \in Nat /\ i \in Nat
  <2>1. Len(edges) \in Nat
    BY LenProperties
  <2>2. QED
    BY <1>1, <2>1 DEF Searches
<1>8. s.scanned <= begun.scanned + i /\ s.scanned + 1 <= begun.scanned + i
  BY <1>1, <1>7
<1>9. \A j \in 1 .. i : j \in 1 .. i - 1 \/ j = i
  BY <1>7
<1>10. /\ s.truncated = {} =>
            \A m \in s.seeds \cup NodesOf(s.found) :
               m = f.node \/ m \in NodesOf(s.queue) \/ Spread(s, m, kept)
       /\ s.truncated = {} => \A j \in 1 .. i - 1 : Far(edges[j], f.node) \in NodesOf(s.hits) \cup NodesOf(s.found)
  BY DEF Spreading
<1>11. CASE s.phase = "fetch"
  <2>1. v = s /\ s.truncated # {}
    BY <1>1, <1>5, <1>11
  <2>2. QED
    BY <1>1, <1>8, <2>1 DEF Spreading
<1>12. CASE s.phase # "fetch" /\ Full(s, v)
  <2>1. Tried(s, v) /\ v.truncated # {}
    BY <1>5, <1>12 DEF Full
  <2>2. Stands(v, met)
    <3>1. \A j \in DOMAIN v.found : v.found[j].expanded /\ Vouched(v, v.found[j], met)
      BY <1>1, <1>12, <2>1, SameVouched DEF Stands, Tried, Full
    <3>2. QED
      BY <1>1, <1>12, <2>1, <3>1 DEF Stands, Tried, Full
  <2>3. /\ v.phase = "fetch" /\ v.direction = begun.direction /\ v.maxCandidates = begun.maxCandidates
        /\ v.seeds = begun.seeds /\ v.scanned <= begun.scanned + i /\ Len(v.found) <= v.maxCandidates
        /\ begun.truncated \subseteq v.truncated
    BY <1>1, <1>8, <1>12, <2>1 DEF Tried, Full
  <2>4. QED
    BY <1>5, <2>1, <2>2, <2>3 DEF Spreading
<1>13. ASSUME Tried(s, v), v.phase = s.phase, v.truncated = s.truncated, Stands(v, met),
              NodesOf(s.hits) \subseteq NodesOf(v.hits), NodesOf(s.found) \subseteq NodesOf(v.found),
              NodesOf(s.queue) \subseteq NodesOf(v.queue), Len(v.found) <= v.maxCandidates,
              \A m \in NodesOf(v.found) : m \in NodesOf(s.found) \/ m \in NodesOf(v.queue),
              n \in NodesOf(v.hits) \cup NodesOf(v.found)
       PROVE  Spreading(v, begun, f, kept, met, edges, i)
  <2>1. v.direction = s.direction /\ v.seeds = s.seeds /\ v.maxCandidates = s.maxCandidates /\ v.scanned = s.scanned + 1
    BY <1>13 DEF Tried
  <2>2. ASSUME v.truncated = {}, NEW m \in v.seeds \cup NodesOf(v.found)
        PROVE  m = f.node \/ m \in NodesOf(v.queue) \/ Spread(v, m, kept)
    <3>1. CASE m \in s.seeds \cup NodesOf(s.found)
      <4>1. m = f.node \/ m \in NodesOf(s.queue) \/ Spread(s, m, kept)
        BY <1>10, <1>13, <2>2, <3>1
      <4>2. Spread(s, m, kept) => Spread(v, m, kept)
        BY <1>13, <2>1, SpreadStays
      <4>3. QED
        BY <1>13, <4>1, <4>2
    <3>2. QED
      BY <1>13, <2>1, <2>2, <3>1
  <2>3. ASSUME v.truncated = {}, NEW j \in 1 .. i
        PROVE  Far(edges[j], f.node) \in NodesOf(v.hits) \cup NodesOf(v.found)
    <3>1. CASE j \in 1 .. i - 1
      BY <1>10, <1>13, <2>3, <3>1
    <3>2. CASE j = i
      BY <1>2, <1>3, <1>13, <3>2
    <3>3. QED
      BY <1>9, <3>1, <3>2
  <2>4. v.scanned <= begun.scanned + i
    BY <1>8, <2>1
  <2>5. /\ v.phase \in {"bfs", "fetch"} /\ (v.phase = "fetch" => v.truncated # {})
        /\ v.direction = begun.direction /\ v.maxCandidates = begun.maxCandidates /\ v.seeds = begun.seeds
        /\ begun.truncated \subseteq v.truncated
    BY <1>1, <1>13, <2>1
  <2>6. QED
    BY <1>5, <1>13, <2>2, <2>3, <2>4, <2>5 DEF Spreading
<1>14. CASE s.phase # "fetch" /\ Hits(s, v, n)
  <2>1. Tried(s, v)
    BY <1>5, <1>14
  <2>2. Stands(v, met) /\ NodesOf(v.hits) = NodesOf(s.hits)
    BY <1>1, <1>14, <2>1, StandsAfterHit
  <2>3. v.phase = s.phase /\ v.truncated = s.truncated /\ v.queue = s.queue /\ v.found = s.found
        /\ n \in NodesOf(s.hits)
    BY <1>14 DEF Hits
  <2>4. Len(v.found) <= v.maxCandidates
    BY <1>1, <2>1, <2>3 DEF Tried
  <2>5. QED
    BY <1>13, <2>1, <2>2, <2>3, <2>4
<1>15. CASE s.phase # "fetch" /\ Again(s, v, n, f)
  <2>1. Tried(s, v)
    BY <1>5, <1>15
  <2>2. Stands(v, met) /\ NodesOf(v.found) = NodesOf(s.found)
    BY <1>1, <1>5, <1>6, <1>15, <2>1, StandsAgain
  <2>3. v.phase = s.phase /\ v.truncated = s.truncated /\ v.queue = s.queue /\ v.hits = s.hits
        /\ Len(v.found) = Len(s.found) /\ n \in NodesOf(s.found)
    BY <1>15 DEF Again, Vouches, NodesOf
  <2>4. Len(v.found) <= v.maxCandidates
    BY <1>1, <2>1, <2>3 DEF Tried
  <2>5. QED
    BY <1>13, <2>1, <2>2, <2>3, <2>4
<1>16. CASE s.phase # "fetch" /\ Newly(s, v, n, f)
  <2>1. Tried(s, v)
    BY <1>5, <1>16
  <2>2. /\ Stands(v, met) /\ NodesOf(v.found) = NodesOf(s.found) \cup {n}
        /\ NodesOf(v.queue) = NodesOf(s.queue) \cup {n} /\ Len(v.found) <= v.maxCandidates
    <3>1. s \in Searches /\ Stands(s, met) /\ Newly(s, v, n, f)
      BY <1>1, <1>16
    <3>2. v \in Searches
      BY <1>5
    <3>3. Stands(v, met)
      BY ONLY <1>4, <1>6, <2>1, <3>1, <3>2, StandsNewly
    <3>4. NodesOf(v.found) = NodesOf(s.found) \cup {n}
      BY ONLY <1>4, <1>6, <2>1, <3>1, <3>2, StandsNewly
    <3>5. NodesOf(v.queue) = NodesOf(s.queue) \cup {n} /\ Len(v.found) <= v.maxCandidates
      BY ONLY <1>4, <1>6, <2>1, <3>1, <3>2, StandsNewly
    <3>6. QED
      BY <3>3, <3>4, <3>5
  <2>3. v.phase = s.phase /\ v.truncated = s.truncated /\ v.hits = s.hits
    BY <1>16 DEF Newly
  <2>4. QED
    BY <1>13, <2>1, <2>2, <2>3
<1>17. QED
  BY <1>5, <1>11, <1>12, <1>14, <1>15, <1>16

\* An expansion that meets the rows of a scan.
Spreads(begun, f, edges) == FoldLeft(LAMBDA x, e : Meet(x, f, e), begun, edges)

\* At their end it is in order.
LEMMA RowsMet ==
  ASSUME NEW begun \in Searches, NEW kept, NEW met \in SUBSET EdgeId, NEW f \in Fronts,
         f.seed \in begun.seeds, f.node \in Within(f.depth, {f.seed}, met, begun.direction),
         NEW edges \in Seq(EdgeId),
         \A e \in Range(edges) : e \in met /\ Follows(e, f.node, begun.direction),
         Spreading(begun, begun, f, kept, met, edges, 0)
  PROVE  Spreading(Spreads(begun, f, edges), begun, f, kept, met, edges, Len(edges))
<1> DEFINE n == Len(edges)
<1>1. PICK s \in [0 .. n -> Searches] : SpreadRuns(s, begun, f, edges)
  BY MeetSteps
<1>2. n \in Nat
  BY LenProperties
<1>3. s[0] = begun /\ Spreads(begun, f, edges) = s[n]
  BY <1>1 DEF SpreadRuns, Spreads
<1> DEFINE G == {i \in 0 .. n : Spreading(s[i], begun, f, kept, met, edges, i)}
<1>4. 0 \in G
  BY <1>2, <1>3
<1>5. ASSUME NEW i \in 1 .. n, i - 1 \in G PROVE i \in G
  <2>1. Spreading(s[i - 1], begun, f, kept, met, edges, i - 1)
    BY <1>5
  <2>2. s[i] = Meet(s[i - 1], f, edges[i])
    BY <1>1 DEF SpreadRuns
  <2>3. edges[i] \in Range(edges)
    BY LenProperties DEF Range
  <2>4. edges[i] \in met /\ Follows(edges[i], f.node, begun.direction)
    BY <2>3
  <2>5. PICK x, v : x = s[i - 1] /\ v = s[i]
    OBVIOUS
  <2>6. Spreading(v, begun, f, kept, met, edges, i)
    BY <2>1, <2>2, <2>4, <2>5, RowMet
  <2>7. QED
    BY <1>2, <2>5, <2>6
<1> HIDE DEF G
<1>6. 0 .. n \subseteq G
  BY <1>2, <1>4, <1>5, Upward
<1>7. n \in G
  BY <1>2, <1>6
<1>8. QED
  BY <1>3, <1>7 DEF G

\* The same expansion, its phase, its queue and its reasons apart.
SameSearch(s, v) ==
    /\ v \in Searches /\ v.direction = s.direction /\ v.maxDepth = s.maxDepth
    /\ v.maxCandidates = s.maxCandidates /\ v.hits = s.hits /\ v.seeds = s.seeds
    /\ v.found = s.found /\ v.scanned = s.scanned

\* A reason is noted.
LEMMA MarkedIs ==
  ASSUME NEW s \in Searches, NEW r \in Cuts
  PROVE  /\ SameSearch(s, Marked(s, r)) /\ Marked(s, r).phase = s.phase /\ Marked(s, r).queue = s.queue
         /\ Marked(s, r).truncated = s.truncated \cup {r}
BY DEF Searches, Marked, SameSearch

\* An expansion that goes no further.
LEMMA FetchingIs ==
  ASSUME NEW s \in Searches
  PROVE  /\ SameSearch(s, Fetching(s)) /\ Fetching(s).phase = "fetch" /\ Fetching(s).queue = s.queue
         /\ Fetching(s).truncated = s.truncated
BY DEF Searches, Fetching, SameSearch

\* It has what it had, its queue apart.
LEMMA SameStands ==
  ASSUME NEW s, NEW v, NEW met, SameSearch(s, v), Stands(s, met),
         \A i \in DOMAIN v.queue : \E j \in DOMAIN s.queue : v.queue[i] = s.queue[j]
  PROVE  Stands(v, met)
<1>1. /\ v.hits = s.hits /\ v.found = s.found /\ v.seeds = s.seeds /\ v.direction = s.direction
  BY DEF SameSearch
<1>2. \A i \in DOMAIN v.found : v.found[i].expanded /\ Vouched(v, v.found[i], met)
  BY <1>1, SameVouched DEF Stands
<1>3. ASSUME NEW i \in DOMAIN v.queue
      PROVE  /\ v.queue[i].seed \in v.seeds
             /\ v.queue[i].node \in Within(v.queue[i].depth, {v.queue[i].seed}, met, v.direction)
  <2>1. PICK j \in DOMAIN s.queue : v.queue[i] = s.queue[j]
    BY <1>3
  <2>2. /\ s.queue[j].seed \in s.seeds
        /\ s.queue[j].node \in Within(s.queue[j].depth, {s.queue[j].seed}, met, s.direction)
    BY DEF Stands
  <2>3. QED
    BY <1>1, <2>1, <2>2
<1>4. QED
  BY <1>1, <1>2, <1>3 DEF Stands

\* What is left of an expansion without the node it goes on from.
LeftOver(s, rest, f, met) ==
    /\ SameSearch(s, rest) /\ rest.phase = s.phase /\ rest.truncated = s.truncated
    /\ Stands(rest, met) /\ f \in Fronts
    /\ f.seed \in s.seeds /\ f.node \in Within(f.depth, {f.seed}, met, s.direction)
    /\ \A n \in NodesOf(s.queue) : n = f.node \/ n \in NodesOf(rest.queue)

\* That is in order.
LEMMA RestStands ==
  ASSUME NEW s \in Searches, NEW met, Stands(s, met), s.queue # <<>>,
         NEW rest, rest = [s EXCEPT !.queue = Tail(@)], NEW f, f = Head(s.queue)
  PROVE  LeftOver(s, rest, f, met)
<1>1. PICK q, t : q = s.queue /\ t = Tail(s.queue)
  OBVIOUS
<1>2. q \in Seq(Fronts) /\ q # <<>> /\ t = Tail(q) /\ f = Head(q)
  BY <1>1 DEF Searches
<1>3. /\ f = q[1] /\ f \in Fronts /\ 1 \in DOMAIN q /\ t \in Seq(Fronts)
      /\ \A i \in DOMAIN t : i + 1 \in DOMAIN q /\ t[i] = q[i + 1]
  BY <1>2, TailIs
<1>4. rest = [s EXCEPT !.queue = t]
  BY <1>1
<1>5. SameSearch(s, rest) /\ rest.phase = s.phase /\ rest.truncated = s.truncated /\ rest.queue = t
  BY <1>3, <1>4 DEF Searches, SameSearch
<1>6. \A i \in DOMAIN rest.queue : \E j \in DOMAIN s.queue : rest.queue[i] = s.queue[j]
  BY <1>1, <1>3, <1>5
<1>7. Stands(rest, met)
  BY <1>5, <1>6, SameStands
<1>8. f.seed \in s.seeds /\ f.node \in Within(f.depth, {f.seed}, met, s.direction)
  BY <1>1, <1>3 DEF Stands
<1>9. ASSUME NEW i \in DOMAIN q PROVE q[i].node = f.node \/ q[i].node \in NodesOf(t)
  <2>1. CASE i = 1
    BY <1>3, <2>1
  <2>2. CASE i # 1
    <3>1. DOMAIN q = 1 .. Len(q) /\ Len(q) \in Nat /\ DOMAIN t = 1 .. Len(t) /\ Len(t) = Len(q) - 1
      BY <1>2, <1>3, LenProperties, HeadTailProperties
    <3>2. i - 1 \in DOMAIN t /\ (i - 1) + 1 = i
      BY <2>2, <3>1
    <3>3. t[i - 1] = q[i]
      BY <1>3, <3>2
    <3>4. QED
      BY <3>2, <3>3 DEF NodesOf
  <2>3. QED
    BY <2>1, <2>2
<1>10. \A n \in NodesOf(s.queue) : n = f.node \/ n \in NodesOf(rest.queue)
  BY <1>1, <1>5, <1>9 DEF NodesOf
<1>11. QED
  BY <1>3, <1>5, <1>7, <1>8, <1>10 DEF LeftOver

\* An expansion that a bound cut short before it scanned a node.
LEMMA CutFits ==
  ASSUME NEW s, NEW kept, NEW met, SearchFits(s, kept, met), s.phase = "bfs", s.queue # <<>>,
         NEW rest, rest = [s EXCEPT !.queue = Tail(@)], NEW r \in Cuts
  PROVE  /\ SearchFits(Fetching(Marked(rest, r)), kept, met)
         /\ Fetching(Marked(rest, r)).phase # "done"
<1>1. s \in Searches /\ Stands(s, met) /\ s.scanned <= MaxScans /\ Len(s.found) <= s.maxCandidates
  BY DEF SearchFits
<1>2. PICK f : f = Head(s.queue)
  OBVIOUS
<1>3. SameSearch(s, rest) /\ Stands(rest, met)
  <2>1. LeftOver(s, rest, f, met)
    BY <1>1, <1>2, RestStands
  <2>2. QED
    BY <2>1 DEF LeftOver
<1>4. PICK m : m = Marked(rest, r)
  OBVIOUS
<1>5. PICK v : v = Fetching(m)
  OBVIOUS
<1>6. SameSearch(rest, m) /\ m.queue = rest.queue /\ m.truncated = rest.truncated \cup {r}
  BY <1>3, <1>4, MarkedIs DEF SameSearch
<1>7. SameSearch(m, v) /\ v.phase = "fetch" /\ v.queue = m.queue /\ v.truncated = m.truncated
  BY <1>5, <1>6, FetchingIs DEF SameSearch
<1>8. SameSearch(rest, v) /\ SameSearch(s, v) /\ v.queue = rest.queue /\ v.truncated # {}
  BY <1>3, <1>6, <1>7 DEF SameSearch
<1>9. Stands(v, met)
  BY <1>3, <1>8, SameStands
<1>10. v \in Searches /\ v.scanned = s.scanned /\ v.found = s.found /\ v.maxCandidates = s.maxCandidates
  BY <1>8 DEF SameSearch
<1>11. SearchFits(v, kept, met)
  BY <1>1, <1>7, <1>8, <1>9, <1>10 DEF SearchFits, Expanding
<1>12. QED
  BY <1>4, <1>5, <1>7, <1>11

\* One that only asked whether there is an edge to follow.
LEMMA AskedFits ==
  ASSUME NEW s, NEW kept, NEW met, SearchFits(s, kept, met), s.phase = "bfs", s.queue # <<>>,
         NEW f, f = Head(s.queue),
         NEW any \in BOOLEAN, ~any => \A e \in kept : ~Follows(e, f.node, s.direction),
         NEW rest, rest = [s EXCEPT !.queue = Tail(@)],
         NEW v, v = IF any THEN Marked(rest, "depth") ELSE rest
  PROVE  SearchFits(v, kept, met) /\ v.phase # "done"
<1>1. /\ s \in Searches /\ Stands(s, met) /\ s.scanned <= MaxScans /\ Len(s.found) <= s.maxCandidates
      /\ Expanding(s, kept)
  BY DEF SearchFits
<1>2. /\ SameSearch(s, rest) /\ rest.phase = s.phase /\ rest.truncated = s.truncated /\ Stands(rest, met)
      /\ \A n \in NodesOf(s.queue) : n = f.node \/ n \in NodesOf(rest.queue)
  <2>1. LeftOver(s, rest, f, met)
    BY <1>1, RestStands
  <2>2. QED
    BY <2>1 DEF LeftOver
<1>3. CASE any
  <2>1. /\ SameSearch(rest, v) /\ v.queue = rest.queue /\ v.phase = rest.phase /\ v.truncated # {}
    <3>1. PICK r : r = "depth"
      OBVIOUS
    <3>2. r \in Cuts /\ rest \in Searches /\ v = Marked(rest, r)
      BY <1>2, <1>3, <3>1 DEF Cuts, SameSearch
    <3>3. /\ SameSearch(rest, v) /\ v.phase = rest.phase /\ v.queue = rest.queue
          /\ v.truncated = rest.truncated \cup {r}
      BY ONLY <3>2, MarkedIs
    <3>4. QED
      BY <3>3
  <2>2. Stands(v, met)
    BY <1>2, <2>1, SameStands
  <2>3. SameSearch(s, v)
    BY <1>2, <2>1 DEF SameSearch
  <2>4. v \in Searches /\ v.scanned = s.scanned /\ v.found = s.found /\ v.maxCandidates = s.maxCandidates
    BY <2>3 DEF SameSearch
  <2>5. QED
    BY <1>1, <1>2, <2>1, <2>2, <2>4 DEF SearchFits, Expanding
<1>4. CASE ~any
  <2>1. v = rest /\ \A e \in kept : ~Follows(e, f.node, s.direction)
    BY <1>4
  <2>2. v \in Searches /\ v.scanned = s.scanned /\ v.found = s.found /\ v.maxCandidates = s.maxCandidates
        /\ v.direction = s.direction /\ v.hits = s.hits /\ v.seeds = s.seeds
    BY <1>2, <2>1 DEF SameSearch
  <2>3. Spread(v, f.node, kept)
    BY <2>1, <2>2 DEF Spread
  <2>4. ASSUME v.truncated = {}, NEW n \in v.seeds \cup NodesOf(v.found)
        PROVE  n \in NodesOf(v.queue) \/ Spread(v, n, kept)
    <3>1. n \in NodesOf(s.queue) \/ Spread(s, n, kept)
      BY <1>1, <1>2, <2>1, <2>2, <2>4 DEF Expanding
    <3>2. Spread(s, n, kept) => Spread(v, n, kept)
      BY <2>2 DEF Spread
    <3>3. QED
      BY <1>2, <2>1, <2>3, <3>1, <3>2
  <2>5. Expanding(v, kept)
    BY <2>4 DEF Expanding
  <2>6. v.phase = "bfs"
    BY <1>2, <2>1
  <2>7. QED
    BY <1>1, <1>2, <2>1, <2>2, <2>5, <2>6 DEF SearchFits
<1>5. QED
  BY <1>3, <1>4

\* One that scanned a node.
LEMMA SpreadFits ==
  ASSUME NEW s, NEW kept \in SUBSET EdgeId, NEW met \in SUBSET EdgeId,
         SearchFits(s, kept, met), s.phase = "bfs", s.queue # <<>>, s.scanned < MaxScans,
         NEW f, f = Head(s.queue),
         NEW taken \in Seq(EdgeId), Len(taken) <= MaxScans - s.scanned,
         \A e \in Range(taken) : e \in met /\ Follows(e, f.node, s.direction),
         NEW more \in BOOLEAN,
         ~more => \A e \in kept : Follows(e, f.node, s.direction) => e \in Range(taken),
         NEW rest, rest = [s EXCEPT !.queue = Tail(@)],
         NEW begun, begun = IF more THEN Marked(rest, "edges") ELSE rest,
         NEW v, v = Spreads(begun, f, taken)
  PROVE  SearchFits(v, kept, met) /\ v.phase # "done"
<1>1. /\ s \in Searches /\ Stands(s, met) /\ Len(s.found) <= s.maxCandidates
      /\ Expanding(s, kept)
  BY DEF SearchFits
<1>2. /\ SameSearch(s, rest) /\ rest.phase = s.phase /\ rest.truncated = s.truncated /\ Stands(rest, met)
      /\ f \in Fronts /\ f.seed \in s.seeds /\ f.node \in Within(f.depth, {f.seed}, met, s.direction)
      /\ \A n \in NodesOf(s.queue) : n = f.node \/ n \in NodesOf(rest.queue)
  <2>1. LeftOver(s, rest, f, met)
    BY <1>1, RestStands
  <2>2. QED
    BY <2>1 DEF LeftOver
<1>3. /\ SameSearch(rest, begun) /\ begun.queue = rest.queue /\ begun.phase = rest.phase
      /\ rest.truncated \subseteq begun.truncated /\ (more => begun.truncated # {})
  <2>1. CASE more
    <3>1. PICK r : r = "edges"
      OBVIOUS
    <3>2. r \in Cuts /\ rest \in Searches /\ begun = Marked(rest, r)
      BY <1>2, <2>1, <3>1 DEF Cuts, SameSearch
    <3>3. /\ SameSearch(rest, begun) /\ begun.phase = rest.phase /\ begun.queue = rest.queue
          /\ begun.truncated = rest.truncated \cup {r}
      BY ONLY <3>2, MarkedIs
    <3>4. QED
      BY <3>3
  <2>2. CASE ~more
    BY <1>2, <2>2 DEF SameSearch
  <2>3. QED
    BY <2>1, <2>2
<1>4. Stands(begun, met)
  BY <1>2, <1>3, SameStands
<1>5. /\ begun \in Searches /\ begun.direction = s.direction /\ begun.maxCandidates = s.maxCandidates
      /\ begun.hits = s.hits /\ begun.seeds = s.seeds /\ begun.found = s.found /\ begun.scanned = s.scanned
  BY <1>2, <1>3 DEF SameSearch
<1>6. Spreading(begun, begun, f, kept, met, taken, 0)
  <2>1. begun.scanned \in Nat /\ begun.scanned <= begun.scanned + 0
    <3>1. begun.scanned \in Nat
      BY <1>5 DEF Searches
    <3>2. QED
      BY <3>1
  <2>2. begun.phase = "bfs" /\ Len(begun.found) <= begun.maxCandidates
    BY <1>1, <1>2, <1>3, <1>5
  <2>3. ASSUME begun.truncated = {}, NEW n \in begun.seeds \cup NodesOf(begun.found)
        PROVE  n = f.node \/ n \in NodesOf(begun.queue) \/ Spread(begun, n, kept)
    <3>1. n \in NodesOf(s.queue) \/ Spread(s, n, kept)
      BY <1>1, <1>2, <1>3, <1>5, <2>3 DEF Expanding
    <3>2. Spread(s, n, kept) => Spread(begun, n, kept)
      BY <1>5 DEF Spread
    <3>3. QED
      BY <1>2, <1>3, <3>1, <3>2
  <2>4. \A j \in 1 .. 0 : FALSE
    OBVIOUS
  <2>5. QED
    BY <1>4, <1>5, <2>1, <2>2, <2>3, <2>4 DEF Spreading
<1>7. Spreading(v, begun, f, kept, met, taken, Len(taken))
  <2>1. f.seed \in begun.seeds /\ f.node \in Within(f.depth, {f.seed}, met, begun.direction)
    BY <1>2, <1>5
  <2>2. \A e \in Range(taken) : e \in met /\ Follows(e, f.node, begun.direction)
    BY <1>5
  <2>3. Spreading(Spreads(begun, f, taken), begun, f, kept, met, taken, Len(taken))
    BY <1>2, <1>5, <1>6, <2>1, <2>2, RowsMet
  <2>4. QED
    BY <2>3
<1>8. /\ v \in Searches /\ v.phase \in {"bfs", "fetch"} /\ (v.phase = "fetch" => v.truncated # {})
      /\ v.direction = s.direction /\ v.scanned <= s.scanned + Len(taken) /\ Len(v.found) <= v.maxCandidates
      /\ begun.truncated \subseteq v.truncated /\ Stands(v, met)
  BY <1>5, <1>7 DEF Spreading
<1>9. v.scanned <= MaxScans
  <2>1. v.scanned \in Nat /\ s.scanned \in Nat /\ Len(taken) \in Nat /\ MaxScans \in Nat
    BY <1>1, <1>8, ExpansionAssumption, LenProperties DEF Searches
  <2>2. QED
    BY <1>8, <2>1
<1>10. Expanding(v, kept)
  <2> SUFFICES ASSUME v.truncated = {}, NEW n \in v.seeds \cup NodesOf(v.found)
               PROVE  n \in NodesOf(v.queue) \/ Spread(v, n, kept)
    BY DEF Expanding
  <2>1. ~more
    BY <1>3, <1>8
  <2>2. Spread(v, f.node, kept)
    <3> SUFFICES ASSUME NEW e \in kept, Follows(e, f.node, s.direction)
                 PROVE  Far(e, f.node) \in NodesOf(v.hits) \cup NodesOf(v.found)
      BY <1>8 DEF Spread
    <3>1. e \in Range(taken)
      BY <2>1
    <3>2. PICK j \in 1 .. Len(taken) : taken[j] = e
      BY <3>1, LenProperties DEF Range
    <3>3. Far(taken[j], f.node) \in NodesOf(v.hits) \cup NodesOf(v.found)
      BY <1>7 DEF Spreading
    <3>4. QED
      BY <3>2, <3>3
  <2>3. n = f.node \/ n \in NodesOf(v.queue) \/ Spread(v, n, kept)
    BY <1>7 DEF Spreading
  <2>4. QED
    BY <2>2, <2>3
<1>11. QED
  BY <1>8, <1>9, <1>10 DEF SearchFits

\* One that has nothing left to go on from.
LEMMA DrainedFits ==
  ASSUME NEW s, NEW kept, NEW met, SearchFits(s, kept, met), s.phase = "bfs", s.queue = <<>>
  PROVE  SearchFits(Fetching(s), kept, met) /\ Fetching(s).phase # "done"
<1>1. /\ s \in Searches /\ Stands(s, met) /\ s.scanned <= MaxScans /\ Len(s.found) <= s.maxCandidates
      /\ Expanding(s, kept)
  BY DEF SearchFits
<1>2. PICK v : v = Fetching(s)
  OBVIOUS
<1>3. SameSearch(s, v) /\ v.phase = "fetch" /\ v.queue = s.queue /\ v.truncated = s.truncated
  BY <1>1, <1>2, FetchingIs
<1>4. Stands(v, met)
  BY <1>1, <1>3, SameStands
<1>5. v \in Searches /\ v.scanned = s.scanned /\ v.found = s.found /\ v.maxCandidates = s.maxCandidates
      /\ v.direction = s.direction /\ v.hits = s.hits /\ v.seeds = s.seeds
  BY <1>3 DEF SameSearch
<1>6. Expanding(v, kept)
  BY <1>1, <1>3, <1>5 DEF Expanding, Spread
<1>7. SearchFits(v, kept, met)
  BY <1>1, <1>3, <1>4, <1>5, <1>6 DEF SearchFits
<1>8. QED
  BY <1>2, <1>3, <1>7

\* Fewer edges are untouched, and more were there for a while.
LEMMA LaterFits ==
  ASSUME NEW s, NEW kept, NEW fewer, fewer \subseteq kept, NEW met, NEW more, met \subseteq more,
         SearchFits(s, kept, met)
  PROVE  SearchFits(s, fewer, more)
<1>1. \A from, hops, d : Within(hops, from, met, d) \subseteq Within(hops, from, more, d)
  BY WithinGrows
<1>2. \A from, d : Reachable(from, met, d, {}) \subseteq Reachable(from, more, d, {})
  BY ReachableGrows
<1>3. \A hit : Vouched(s, hit, met) => Vouched(s, hit, more)
  BY <1>1, <1>2 DEF Vouched
<1>4. Stands(s, met) => Stands(s, more)
  BY <1>1, <1>3 DEF Stands
<1>5. Expanding(s, kept) => Expanding(s, fewer)
  BY DEF Expanding, Spread
<1>6. QED
  BY <1>4, <1>5 DEF SearchFits

\* The places of the candidates are ordered by their depths.
LEMMA ShallowerOrders ==
  ASSUME NEW N \in Nat, NEW depth \in [1 .. N -> Nat],
         \A i \in 1 .. N : search.found[i].depth = depth[i]
  PROVE  /\ \A i \in 1 .. N : ~Shallower(i, i)
         /\ \A i, j, m \in 1 .. N : Shallower(i, j) /\ Shallower(j, m) => Shallower(i, m)
         /\ \A i, j \in 1 .. N : i # j => Shallower(i, j) \/ Shallower(j, i)
<1>1. \A i, j \in 1 .. N : Shallower(i, j) <=> depth[i] < depth[j] \/ (depth[i] = depth[j] /\ i < j)
  BY DEF Shallower
<1>2. \A i \in 1 .. N : depth[i] \in Nat /\ i \in Nat
  OBVIOUS
<1>3. QED
  BY <1>1, <1>2

\* Sorted by them they are the same candidates, each once.
LEMMA ByDepthIs ==
  ASSUME NEW found \in Seq(Entries), search.found = found
  PROVE  /\ ByDepth \in Seq(Entries) /\ Range(ByDepth) = Range(found)
         /\ Distinct(found) => Distinct(ByDepth)
<1> DEFINE S == DOMAIN found
           before(i) == {j \in S : Shallower(j, i)}
           place(i) == 1 + Cardinality(before(i))
           at == [i \in S |-> place(i)]
<1>1. PICK N : N = Len(found)
  OBVIOUS
<1>2. S = 1 .. N /\ N \in Nat /\ \A i \in S : found[i] \in Entries
  BY <1>1, LenProperties
<1>3. IsFiniteSet(S) /\ Cardinality(S) = N
  BY <1>2, FS_Interval
<1>4. ByDepth = [k \in S |-> found[CHOOSE i \in S : place(i) = k]]
  BY DEF ByDepth
<1>5. /\ \A i \in S : ~Shallower(i, i)
      /\ \A i, j, m \in S : Shallower(i, j) /\ Shallower(j, m) => Shallower(i, m)
      /\ \A i, j \in S : i # j => Shallower(i, j) \/ Shallower(j, i)
  <2>1. PICK depth : depth = [i \in 1 .. N |-> found[i].depth]
    OBVIOUS
  <2>2. depth \in [1 .. N -> Nat] /\ \A i \in 1 .. N : search.found[i].depth = depth[i]
    <3>1. \A i \in 1 .. N : found[i].depth \in Nat
      BY <1>2 DEF Entries
    <3>2. QED
      BY <2>1, <3>1
  <2>3. /\ \A i \in 1 .. N : ~Shallower(i, i)
        /\ \A i, j, m \in 1 .. N : Shallower(i, j) /\ Shallower(j, m) => Shallower(i, m)
        /\ \A i, j \in 1 .. N : i # j => Shallower(i, j) \/ Shallower(j, i)
    BY <1>2, <2>2, ShallowerOrders
  <2>4. QED
    BY <1>2, <2>3
<1> HIDE DEF S
<1>6. \A i \in S : IsFiniteSet(before(i)) /\ Cardinality(before(i)) \in Nat /\ place(i) \in 1 .. N
  <2> SUFFICES ASSUME NEW i \in S
               PROVE  IsFiniteSet(before(i)) /\ Cardinality(before(i)) \in Nat /\ place(i) \in 1 .. N
    OBVIOUS
  <2>1. before(i) \in SUBSET S /\ before(i) # S
    BY <1>5
  <2> HIDE DEF before
  <2>2. IsFiniteSet(before(i)) /\ Cardinality(before(i)) <= N /\ Cardinality(before(i)) # N
    BY <1>3, <2>1, FS_Subset
  <2>3. Cardinality(before(i)) \in Nat
    BY <2>2, FS_CardinalityType
  <2>4. QED
    BY <1>2, <2>2, <2>3
<1>7. ASSUME NEW i \in S, NEW j \in S, Shallower(i, j) PROVE place(i) < place(j)
  <2>1. before(i) \in SUBSET before(j) /\ before(i) # before(j)
    <3>1. \A m \in S : Shallower(m, i) => Shallower(m, j)
      BY <1>5, <1>7
    <3>2. i \in before(j) /\ i \notin before(i)
      BY <1>5, <1>7
    <3>3. QED
      BY <3>1, <3>2
  <2>2. IsFiniteSet(before(j)) /\ Cardinality(before(i)) \in Nat /\ Cardinality(before(j)) \in Nat
    BY <1>6
  <2> HIDE DEF before
  <2>3. Cardinality(before(i)) <= Cardinality(before(j)) /\ Cardinality(before(i)) # Cardinality(before(j))
    BY <2>1, <2>2, FS_Subset
  <2>4. QED
    BY <2>2, <2>3
<1> HIDE DEF before, place
<1>8. at \in Injection(S, 1 .. N)
  <2>1. at \in [S -> 1 .. N]
    BY <1>6
  <2>2. \A i, j \in S : at[i] = at[j] => i = j
    <3> SUFFICES ASSUME NEW i \in S, NEW j \in S, place(i) = place(j), i # j PROVE FALSE
      OBVIOUS
    <3>1. place(i) < place(j) \/ place(j) < place(i)
      BY <1>5, <1>7
    <3>2. place(i) \in 1 .. N /\ place(j) \in 1 .. N
      BY <1>6
    <3>3. QED
      BY <1>2, <3>1, <3>2
  <2>3. QED
    BY <2>1, <2>2 DEF Injection, IsInjective
<1>9. IsFiniteSet(1 .. N) /\ Cardinality(1 .. N) = N
  BY <1>2, FS_Interval
<1>10. at \in Surjection(S, 1 .. N)
  <2> HIDE DEF at
  <2>1. QED
    BY <1>3, <1>8, <1>9, FS_Injection
<1>11. \A k \in 1 .. N : \E i \in S : place(i) = k
  BY <1>10 DEF Surjection
<1> DEFINE whose(k) == CHOOSE i \in S : place(i) = k
<1>12. \A k \in S : whose(k) \in S /\ place(whose(k)) = k
  BY <1>2, <1>11
<1>13. \A i \in S : place(i) \in S /\ whose(place(i)) = i
  <2> SUFFICES ASSUME NEW i \in S PROVE place(i) \in S /\ whose(place(i)) = i
    OBVIOUS
  <2>1. place(i) \in S
    BY <1>2, <1>6
  <2>2. PICK j : j = whose(place(i))
    OBVIOUS
  <2>3. j \in S /\ place(j) = place(i)
    BY <1>12, <2>1, <2>2
  <2>4. j = i
    BY <1>8, <2>3 DEF Injection, IsInjective
  <2>5. QED
    BY <2>1, <2>2, <2>4
<1>14. ByDepth = [k \in S |-> found[whose(k)]]
  BY <1>4
<1> HIDE DEF whose
<1>15. ByDepth \in Seq(Entries) /\ DOMAIN ByDepth = S
  <2>1. PICK sorted : sorted = ByDepth
    OBVIOUS
  <2>2. sorted \in [1 .. N -> Entries]
    BY <1>2, <1>12, <1>14, <2>1
  <2>3. sorted \in Seq(Entries) /\ DOMAIN sorted = 1 .. N
    BY <1>2, <2>2, InSeq
  <2>4. QED
    BY <1>2, <2>1, <2>3
<1>16. \A k \in S : ByDepth[k] = found[whose(k)]
  BY <1>14
<1>17. Range(ByDepth) = Range(found)
  <2>1. \A k \in S : ByDepth[k] \in Range(found)
    BY <1>12, <1>16 DEF Range, S
  <2>2. ASSUME NEW i \in S PROVE found[i] \in Range(ByDepth)
    <3>1. ByDepth[place(i)] = found[i] /\ place(i) \in S
      BY <1>13, <1>16
    <3>2. QED
      BY <1>15, <3>1 DEF Range
  <2>3. Range(ByDepth) \subseteq Range(found)
    BY <1>15, <2>1 DEF Range
  <2>4. Range(found) \subseteq Range(ByDepth)
    BY <2>2 DEF Range, S
  <2>5. QED
    BY <2>3, <2>4
<1>18. ASSUME Distinct(found) PROVE Distinct(ByDepth)
  <2> SUFFICES ASSUME NEW i \in S, NEW j \in S, ByDepth[i].node = ByDepth[j].node PROVE i = j
    BY <1>15 DEF Distinct
  <2>1. PICK p, q : p = whose(i) /\ q = whose(j)
    OBVIOUS
  <2>2. p \in S /\ q \in S /\ found[p].node = found[q].node
    BY <1>12, <1>16, <2>1
  <2>3. p = q
    BY <1>18, <2>2 DEF Distinct, S
  <2>4. QED
    BY <1>12, <2>1, <2>3
<1>19. QED
  BY <1>15, <1>17, <1>18

\* Some of the entries, in their order.
LEMMA SomeOf ==
  ASSUME NEW entries \in Seq(Entries), Distinct(entries), NEW I, I \subseteq DOMAIN entries
  PROVE  /\ Among(entries, I) \in Seq(Entries) /\ Distinct(Among(entries, I))
         /\ Range(Among(entries, I)) = {entries[i] : i \in I}
<1>1. IsInjective(entries)
  BY DEF Distinct, IsInjective
<1>2. PICK some : some = Among(entries, I)
  OBVIOUS
<1>3. some \in Seq(Entries) /\ IsInjective(some) /\ Range(some) = {entries[i] : i \in I}
  BY <1>1, <1>2, AmongKeeps
<1>4. ASSUME NEW i \in DOMAIN some, NEW j \in DOMAIN some, some[i].node = some[j].node PROVE i = j
  <2>1. some[i] \in Range(some) /\ some[j] \in Range(some)
    BY DEF Range
  <2>2. PICK p \in I, q \in I : some[i] = entries[p] /\ some[j] = entries[q]
    BY <1>3, <2>1
  <2>3. p = q
    BY <1>4, <2>2 DEF Distinct
  <2>4. some[i] = some[j]
    BY <2>2, <2>3
  <2>5. QED
    BY <1>3, <2>4 DEF IsInjective
<1>5. Distinct(some)
  BY <1>4 DEF Distinct
<1>6. QED
  BY <1>2, <1>3, <1>5

\* The hits that are read again.
LEMMA RefilteredFits ==
  ASSUME NEW s, NEW kept, NEW met, SearchFits(s, kept, met), s.phase = "refilter",
         NEW I, I \subseteq DOMAIN s.hits,
         NEW v, v = [s EXCEPT !.phase = "expand", !.hits = Among(s.hits, I)]
  PROVE  SearchFits(v, kept, met) /\ v.phase # "done"
<1>1. /\ s \in Searches /\ Stands(s, met) /\ s.scanned <= MaxScans /\ Len(s.found) <= s.maxCandidates
      /\ s.seeds = {} /\ s.found = <<>> /\ s.queue = <<>>
  BY DEF SearchFits
<1>2. PICK hits, some : hits = s.hits /\ some = Among(s.hits, I)
  OBVIOUS
<1>3. hits \in Seq(Entries) /\ Distinct(hits)
  BY <1>1, <1>2 DEF Searches, Stands
<1>4. /\ some \in Seq(Entries) /\ Distinct(some) /\ Range(some) = {hits[i] : i \in I}
  BY <1>2, <1>3, SomeOf
<1>5. v = [s EXCEPT !.phase = "expand", !.hits = some]
  BY <1>2
<1>6. /\ v \in Searches /\ v.phase = "expand" /\ v.hits = some /\ v.seeds = s.seeds /\ v.found = s.found
      /\ v.queue = s.queue /\ v.scanned = s.scanned /\ v.maxCandidates = s.maxCandidates
  BY ONLY <1>1, <1>4, <1>5 DEF Searches
<1>7. PICK none : none = <<>>
  OBVIOUS
<1>8. DOMAIN none = {} /\ NodesOf(none) = {} /\ Distinct(none)
  BY <1>7, EmptySeq DEF NodesOf, Distinct
<1>9. \A i \in DOMAIN some : ~some[i].expanded
  <2> SUFFICES ASSUME NEW i \in DOMAIN some PROVE ~some[i].expanded
    OBVIOUS
  <2>1. some[i] \in Range(some)
    BY DEF Range
  <2>2. PICK j \in I : some[i] = hits[j]
    BY <1>4, <2>1
  <2>3. j \in DOMAIN s.hits /\ ~s.hits[j].expanded
    BY <1>1 DEF Stands
  <2>4. QED
    BY <1>2, <2>2, <2>3
<1>10. v.found = none /\ v.queue = none /\ v.seeds = {}
  BY <1>1, <1>6, <1>7
<1>11. Stands(v, met)
  BY <1>4, <1>6, <1>8, <1>9, <1>10 DEF Stands
<1>12. Expanding(v, kept)
  BY <1>8, <1>10 DEF Expanding
<1>13. QED
  BY <1>1, <1>6, <1>11, <1>12 DEF SearchFits

\* The seeds in the queue.
Fronted(chosen) == [i \in DOMAIN chosen |-> Frontier(chosen[i].node, 0, chosen[i].node)]
Sown(s, seeds, queue) == [s EXCEPT !.phase = "bfs", !.seeds = seeds, !.queue = queue]

\* An expansion that begins at its seeds.
LEMMA SeededFits ==
  ASSUME NEW s, NEW kept, NEW met, SearchFits(s, kept, met), s.phase = "expand",
         NEW n \in Nat, n <= Len(s.hits), NEW chosen, chosen = SubSeq(s.hits, 1, n),
         NEW queue, queue = Fronted(chosen), NEW seeds, seeds = NodesOf(chosen), NEW v, v = Sown(s, seeds, queue)
  PROVE  SearchFits(v, kept, met) /\ v.phase # "done"
<1>1. /\ s \in Searches /\ Stands(s, met) /\ s.scanned <= MaxScans /\ Len(s.found) <= s.maxCandidates
      /\ s.found = <<>>
  BY DEF SearchFits
<1>2. PICK hits : hits = s.hits
  OBVIOUS
<1>3. /\ hits \in Seq(Entries) /\ DOMAIN hits = 1 .. Len(hits) /\ Len(hits) \in Nat
      /\ \A i \in DOMAIN hits : hits[i] \in Entries
  <2>1. hits \in Seq(Entries)
    BY <1>1, <1>2 DEF Searches
  <2>2. QED
    BY <2>1, LenProperties
<1>4. n <= Len(hits) /\ chosen = SubSeq(hits, 1, n)
  BY <1>2
<1>5. DOMAIN chosen = 1 .. n /\ \A i \in 1 .. n : chosen[i] = hits[i] /\ chosen[i] \in Entries
  <2>1. chosen \in Seq(Entries) /\ Len(chosen) = n /\ \A i \in 1 .. n : chosen[i] = hits[i]
    <3>1. \A i \in 1 .. n : hits[i] \in Entries
      BY <1>3, <1>4
    <3>2. SubSeq(hits, 1, n) \in Seq(Entries)
      BY ONLY <3>1, SubSeqProperties
    <3>3. Len(SubSeq(hits, 1, n)) = n
      BY ONLY <3>1, SubSeqProperties
    <3>4. \A i \in 1 .. n : SubSeq(hits, 1, n)[i] = hits[i]
      BY ONLY <3>1, SubSeqProperties
    <3>5. QED
      BY <1>4, <3>2, <3>3, <3>4
  <2>2. QED
    BY <2>1, LenProperties
<1>6. seeds = {chosen[i].node : i \in 1 .. n}
  BY <1>5 DEF NodesOf
<1>7. seeds \in SUBSET Node /\ \A i \in 1 .. n : chosen[i].node \in seeds /\ chosen[i].node \in Node
  BY <1>5, <1>6 DEF Entries
<1>8. seeds \subseteq NodesOf(hits)
  BY <1>3, <1>4, <1>5, <1>6 DEF NodesOf
<1>9. queue \in Seq(Fronts) /\ DOMAIN queue = 1 .. n
  <2>1. queue \in [1 .. n -> Fronts]
    BY <1>5, <1>7 DEF Fronted, Frontier, Fronts
  <2>2. QED
    BY <2>1, InSeq
<1>10. \A i \in 1 .. n : queue[i].node = chosen[i].node /\ queue[i].depth = 0 /\ queue[i].seed = chosen[i].node
  BY <1>5 DEF Fronted, Frontier
<1>11. v = [s EXCEPT !.phase = "bfs", !.seeds = seeds, !.queue = queue]
  BY DEF Sown
<1>12. /\ v \in Searches /\ v.phase = "bfs" /\ v.hits = s.hits /\ v.seeds = seeds /\ v.found = s.found
       /\ v.queue = queue /\ v.scanned = s.scanned /\ v.maxCandidates = s.maxCandidates
       /\ v.direction = s.direction
  BY ONLY <1>1, <1>7, <1>9, <1>11 DEF Searches
<1>13. PICK none : none = <<>>
  OBVIOUS
<1>14. DOMAIN none = {} /\ NodesOf(none) = {} /\ Distinct(none) /\ v.found = none
  <2>1. DOMAIN none = {}
    BY ONLY <1>13, EmptySeq
  <2>2. QED
    BY ONLY <1>1, <1>12, <1>13, <2>1 DEF NodesOf, Distinct
<1>15. ASSUME NEW i \in DOMAIN queue
       PROVE  /\ queue[i].seed \in seeds
              /\ queue[i].node \in Within(queue[i].depth, {queue[i].seed}, met, v.direction)
  <2>1. PICK t, d : t = chosen[i].node /\ d = v.direction
    OBVIOUS
  <2>2. t \in seeds /\ t \in Node
    BY <1>7, <1>9, <1>15, <2>1
  <2>3. {t} \in SUBSET Node /\ t \in {t}
    BY <2>2
  <2>4. t \in Within(0, {t}, met, d)
    BY <2>3, WithinStarts
  <2>5. QED
    BY <1>9, <1>10, <1>15, <2>1, <2>2, <2>4
<1>16. Stands(v, met)
  <2>1. Distinct(hits) /\ \A i \in DOMAIN hits : ~hits[i].expanded
    BY <1>1, <1>2 DEF Stands
  <2>2. \A i \in DOMAIN v.found : FALSE
    BY <1>14
  <2>3. /\ Distinct(v.hits) /\ Distinct(v.found) /\ NodesOf(v.hits) \cap NodesOf(v.found) = {}
        /\ v.seeds \subseteq NodesOf(v.hits)
    BY <1>2, <1>8, <1>12, <1>14, <2>1
  <2>4. \A i \in DOMAIN v.hits : ~v.hits[i].expanded
    BY <1>2, <1>12, <2>1
  <2>5. ASSUME NEW i \in DOMAIN v.queue
        PROVE  /\ v.queue[i].seed \in v.seeds
               /\ v.queue[i].node \in Within(v.queue[i].depth, {v.queue[i].seed}, met, v.direction)
    <3>1. i \in DOMAIN queue /\ v.queue[i] = queue[i] /\ v.seeds = seeds
      BY <1>12
    <3>2. QED
      BY <1>15, <3>1
  <2>6. QED
    BY <2>2, <2>3, <2>4, <2>5 DEF Stands
<1>17. Expanding(v, kept)
  <2>1. ASSUME NEW m \in seeds PROVE m \in NodesOf(queue)
    <3>1. PICK i \in 1 .. n : m = chosen[i].node
      BY <1>6
    <3>2. i \in DOMAIN queue /\ queue[i].node = m
      BY <1>9, <1>10, <3>1
    <3>3. QED
      BY <3>2 DEF NodesOf
  <2>2. QED
    BY <1>12, <1>14, <2>1 DEF Expanding
<1>18. QED
  BY <1>1, <1>12, <1>16, <1>17 DEF SearchFits

\* One that has no hit to begin at is done.
LEMMA UnseededFits ==
  ASSUME NEW s, NEW kept, NEW met, SearchFits(s, kept, met), s.phase = "expand",
         NEW there, NEW v, v = [s EXCEPT !.phase = "done"]
  PROVE  SearchFits(v, kept, met) /\ Complete(v, kept, there) /\ Supported(v, met)
<1>1. /\ s \in Searches /\ Stands(s, met) /\ s.scanned <= MaxScans /\ Len(s.found) <= s.maxCandidates
      /\ s.seeds = {}
  BY DEF SearchFits
<1>2. /\ v \in Searches /\ v.phase = "done" /\ v.hits = s.hits /\ v.seeds = s.seeds /\ v.found = s.found
      /\ v.scanned = s.scanned /\ v.maxCandidates = s.maxCandidates
  BY ONLY <1>1, v = [s EXCEPT !.phase = "done"] DEF Searches
<1>3. SearchFits(v, kept, met)
  BY <1>1, <1>2 DEF SearchFits
<1>4. Complete(v, kept, there)
  BY <1>1, <1>2 DEF Complete
<1>5. Supported(v, met)
  <2>1. AddedOf(v) = {}
    BY <1>1, <1>2 DEF AddedOf, Stands
  <2>2. QED
    BY <1>1, <1>2, <2>1 DEF Supported, Stands
<1>6. QED
  BY <1>3, <1>4, <1>5

\* What was found is fetched under the filters of the search and stands below.
LEMMA FetchedFits ==
  ASSUME NEW s, NEW kept \in SUBSET EdgeId, NEW met, SearchFits(s, kept, met), s.phase = "fetch",
         NEW there, NEW sorted \in Seq(Entries), Range(sorted) = Range(s.found), Distinct(sorted),
         NEW fetched, fetched = {k \in DOMAIN sorted : sorted[k].node \in there},
         NEW v, v = [s EXCEPT !.phase = "done", !.hits = s.hits \o Among(sorted, fetched)]
  PROVE  SearchFits(v, kept, met) /\ Complete(v, kept, there) /\ Supported(v, met)
<1>1. /\ s \in Searches /\ Stands(s, met) /\ s.scanned <= MaxScans /\ Len(s.found) <= s.maxCandidates
      /\ Expanding(s, kept) /\ (s.truncated = {} => s.queue = <<>>)
  BY DEF SearchFits
<1>2. PICK hits, added, all : hits = s.hits /\ added = Among(sorted, fetched) /\ all = hits \o added
  OBVIOUS
<1>3. hits \in Seq(Entries) /\ Distinct(hits)
  BY <1>1, <1>2 DEF Searches, Stands
<1>4. added \in Seq(Entries) /\ Distinct(added) /\ Range(added) = {sorted[k] : k \in fetched}
  BY <1>2, SomeOf
<1>5. /\ all \in Seq(Entries)
      /\ \A i \in 1 .. Len(hits) + Len(added) :
            all[i] = IF i <= Len(hits) THEN hits[i] ELSE added[i - Len(hits)]
  BY <1>2, <1>3, <1>4, ConcatProperties
<1>6. Len(all) = Len(hits) + Len(added)
  BY <1>2, <1>3, <1>4, ConcatProperties
<1>7. PICK m \in Nat, n \in Nat : m = Len(hits) /\ n = Len(added)
  BY <1>3, <1>4, LenProperties
<1>8. DOMAIN hits = 1 .. m /\ DOMAIN added = 1 .. n /\ DOMAIN all = 1 .. m + n
  BY <1>3, <1>4, <1>5, <1>6, <1>7, LenProperties
<1>9. \A i \in 1 .. m : all[i] = hits[i] /\ i \in DOMAIN all
  BY <1>5, <1>7, <1>8
<1>10. \A i \in 1 .. n : all[m + i] = added[i] /\ m + i \in DOMAIN all
  <2> SUFFICES ASSUME NEW i \in 1 .. n PROVE all[m + i] = added[i] /\ m + i \in DOMAIN all
    OBVIOUS
  <2>1. m + i \in 1 .. m + n /\ ~(m + i <= m) /\ (m + i) - m = i
    OBVIOUS
  <2>2. QED
    BY <1>5, <1>7, <1>8, <2>1
<1>11. \A i \in DOMAIN all : i \in 1 .. m \/ (i - m \in 1 .. n /\ i = m + (i - m))
  BY <1>8
<1>12. v = [s EXCEPT !.phase = "done", !.hits = all]
  BY <1>2
<1>13. /\ v \in Searches /\ v.phase = "done" /\ v.hits = all /\ v.seeds = s.seeds /\ v.found = s.found
       /\ v.scanned = s.scanned /\ v.maxCandidates = s.maxCandidates /\ v.truncated = s.truncated
       /\ v.direction = s.direction
  BY ONLY <1>1, <1>5, <1>12 DEF Searches
<1>14. SearchFits(v, kept, met)
  BY <1>1, <1>13 DEF SearchFits
<1>15. \A i \in 1 .. m : ~hits[i].expanded
  BY <1>1, <1>2, <1>8 DEF Stands
<1>16. ASSUME NEW i \in 1 .. n
       PROVE  added[i] \in Range(s.found)
  <2>1. added[i] \in Range(added)
    BY <1>8 DEF Range
  <2>2. PICK k \in fetched : added[i] = sorted[k]
    BY <1>4, <2>1
  <2>3. sorted[k] \in Range(sorted)
    BY DEF Range
  <2>4. QED
    BY <2>2, <2>3
<1>17. ASSUME NEW x \in Range(s.found)
       PROVE  x.expanded /\ Vouched(s, x, met) /\ x.node \in NodesOf(s.found)
  <2>1. PICK i \in DOMAIN s.found : x = s.found[i]
    BY <1>17 DEF Range
  <2>2. QED
    BY <1>1, <2>1 DEF Stands, NodesOf
<1>18. \A i \in 1 .. n : added[i].expanded
  BY <1>16, <1>17
<1>19. DirectOf(v) = 1 .. m /\ \A i \in AddedOf(v) : i - m \in 1 .. n /\ i = m + (i - m) /\ i \notin 1 .. m
  <2>1. DOMAIN v.hits = 1 .. m + n /\ \A i \in 1 .. m : i \in 1 .. m + n
    BY <1>8, <1>13
  <2>2. ASSUME NEW i \in 1 .. m PROVE i \in DirectOf(v) /\ i \notin AddedOf(v)
    <3>1. v.hits[i] = hits[i]
      BY <1>9, <1>13
    <3>2. ~v.hits[i].expanded
      BY <1>15, <3>1
    <3>3. QED
      BY <2>1, <3>2 DEF DirectOf, AddedOf
  <2>3. ASSUME NEW i \in DOMAIN v.hits, i \notin 1 .. m
        PROVE  i \notin DirectOf(v) /\ i - m \in 1 .. n /\ i = m + (i - m)
    <3>1. i - m \in 1 .. n /\ i = m + (i - m)
      BY <2>1, <2>3
    <3>2. PICK q \in 1 .. n : i = m + q
      BY <3>1
    <3>3. v.hits[i] = added[q]
      BY <1>10, <1>13, <3>2
    <3>4. v.hits[i].expanded
      BY <1>18, <3>3
    <3>5. QED
      BY <3>1, <3>4 DEF DirectOf
  <2>4. DirectOf(v) \subseteq DOMAIN v.hits /\ AddedOf(v) \subseteq DOMAIN v.hits
    BY DEF DirectOf, AddedOf
  <2>5. DirectOf(v) = 1 .. m
    BY <2>2, <2>3, <2>4
  <2>6. QED
    BY <2>2, <2>3, <2>4, <2>5
<1>20. Supported(v, met)
  <2>1. \A i \in DirectOf(v), j \in AddedOf(v) : i < j
    <3> SUFFICES ASSUME NEW i \in DirectOf(v), NEW j \in AddedOf(v) PROVE i < j
      OBVIOUS
    <3>1. i \in 1 .. m /\ j - m \in 1 .. n /\ j = m + (j - m)
      BY <1>19
    <3>2. PICK q \in 1 .. n : j = m + q
      BY <3>1
    <3>3. QED
      BY <3>1, <3>2
  <2>2. ASSUME NEW i \in DOMAIN all, NEW j \in DOMAIN all, all[i].node = all[j].node PROVE i = j
    <3>1. \A p \in 1 .. m, q \in 1 .. n : hits[p].node # added[q].node
      <4>1. NodesOf(hits) \cap NodesOf(s.found) = {}
        BY <1>1, <1>2 DEF Stands
      <4>2. \A p \in 1 .. m : hits[p].node \in NodesOf(hits)
        BY <1>8 DEF NodesOf
      <4>3. \A q \in 1 .. n : added[q].node \in NodesOf(s.found)
        BY <1>16, <1>17
      <4>4. QED
        BY <4>1, <4>2, <4>3
    <3>2. CASE i \in 1 .. m /\ j \in 1 .. m
      BY <1>3, <1>8, <1>9, <2>2, <3>2 DEF Distinct
    <3>3. CASE i \in 1 .. m /\ j \notin 1 .. m
      <4>1. PICK q \in 1 .. n : j = m + q
        BY <1>11, <3>3
      <4>2. all[i] = hits[i] /\ all[j] = added[q]
        BY <1>9, <1>10, <3>3, <4>1
      <4>3. QED
        BY <2>2, <3>1, <3>3, <4>2
    <3>4. CASE i \notin 1 .. m /\ j \in 1 .. m
      <4>1. PICK q \in 1 .. n : i = m + q
        BY <1>11, <3>4
      <4>2. all[j] = hits[j] /\ all[i] = added[q]
        BY <1>9, <1>10, <3>4, <4>1
      <4>3. QED
        BY <2>2, <3>1, <3>4, <4>2
    <3>5. CASE i \notin 1 .. m /\ j \notin 1 .. m
      <4>1. PICK p \in 1 .. n, q \in 1 .. n : i = m + p /\ j = m + q
        BY <1>11, <3>5
      <4>2. all[i] = added[p] /\ all[j] = added[q]
        BY <1>10, <4>1
      <4>3. p = q
        BY <1>4, <1>8, <2>2, <4>2 DEF Distinct
      <4>4. QED
        BY <4>1, <4>3
    <3>6. QED
      BY <3>2, <3>3, <3>4, <3>5
  <2>3. Distinct(v.hits)
    <3>1. Distinct(all)
      BY <2>2 DEF Distinct
    <3>2. QED
      BY <1>13, <3>1
  <2>4. ASSUME NEW i \in AddedOf(v) PROVE Vouched(v, v.hits[i], met)
    <3>1. PICK q \in 1 .. n : i = m + q
      BY <1>19
    <3>2. PICK x : x = added[q]
      OBVIOUS
    <3>3. v.hits[i] = x /\ x \in Range(s.found)
      BY <1>10, <1>13, <1>16, <3>1, <3>2
    <3>4. Vouched(s, x, met)
      BY <1>17, <3>3
    <3>5. Vouched(v, x, met)
      BY <1>13, <3>4, SameVouched
    <3>6. QED
      BY <3>3, <3>5
  <2>5. QED
    BY <2>1, <2>3, <2>4 DEF Supported
<1>21. Complete(v, kept, there)
  <2> SUFFICES ASSUME v.truncated = {},
                      NEW passive, passive = {v.hits[i].node : i \in DirectOf(v)} \ v.seeds
               PROVE  Reachable(v.seeds, kept, v.direction, passive) \cap there \subseteq NodesOf(v.hits)
    BY DEF Complete
  <2>1. PICK V : V = NodesOf(hits) \cup NodesOf(s.found)
    OBVIOUS
  <2>2. passive = NodesOf(hits) \ s.seeds
    <3>1. {v.hits[i].node : i \in DirectOf(v)} = {all[i].node : i \in 1 .. m}
      BY <1>13, <1>19
    <3>2. {all[i].node : i \in 1 .. m} = {hits[i].node : i \in DOMAIN hits}
      BY <1>8, <1>9
    <3>3. QED
      BY <1>13, <3>1, <3>2 DEF NodesOf
  <2>3. PICK none : none = <<>>
    OBVIOUS
  <2>4. s.queue = none /\ NodesOf(none) = {}
    <3>1. s.queue = none
      BY <1>1, <1>13, <2>3
    <3>2. DOMAIN none = {}
      BY ONLY <2>3, EmptySeq
    <3>3. QED
      BY <3>1, <3>2 DEF NodesOf
  <2>5. \A x \in s.seeds \cup NodesOf(s.found) : Spread(s, x, kept)
    BY <1>1, <1>13, <2>4 DEF Expanding
  <2>6. Shut(V, kept, s.direction, passive)
    BY <1>2, <2>1, <2>2, <2>5 DEF Shut, Spread
  <2>7. V \in SUBSET Node /\ s.seeds \subseteq V
    <3>1. s.found \in Seq(Entries)
      BY <1>1 DEF Searches
    <3>2. \A i \in DOMAIN s.found : s.found[i] \in Entries
      BY <3>1, SeqRange
    <3>3. \A i \in DOMAIN hits : hits[i] \in Entries
      BY <1>3, SeqRange
    <3>4. s.seeds \subseteq NodesOf(hits)
      BY <1>1, <1>2 DEF Stands
    <3>5. QED
      BY <2>1, <3>2, <3>3, <3>4 DEF NodesOf, Entries
  <2>8. PICK from, d : from = s.seeds /\ d = s.direction
    OBVIOUS
  <2>9. Reachable(from, kept, d, passive) \subseteq V
    BY <2>6, <2>7, <2>8, ReachableStays
  <2>10. ASSUME NEW x \in V, x \in there PROVE x \in NodesOf(v.hits)
    <3>1. CASE x \in NodesOf(hits)
      <4>1. PICK i \in 1 .. m : hits[i].node = x
        BY <1>8, <3>1 DEF NodesOf
      <4>2. i \in DOMAIN v.hits /\ v.hits[i].node = x
        BY <1>9, <1>13, <4>1
      <4>3. QED
        BY <4>2 DEF NodesOf
    <3>2. CASE x \in NodesOf(s.found)
      <4>1. PICK i \in DOMAIN s.found : s.found[i].node = x
        BY <3>2 DEF NodesOf
      <4>2. s.found[i] \in Range(sorted)
        BY DEF Range
      <4>3. PICK k \in DOMAIN sorted : sorted[k] = s.found[i]
        BY <4>2 DEF Range
      <4>4. k \in fetched
        BY <2>10, <4>1, <4>3
      <4>5. sorted[k] \in Range(added)
        BY <1>4, <4>4
      <4>6. PICK q \in 1 .. n : added[q] = sorted[k]
        BY <1>8, <4>5 DEF Range
      <4>7. m + q \in DOMAIN v.hits /\ v.hits[m + q].node = x
        BY <1>10, <1>13, <4>1, <4>3, <4>6
      <4>8. QED
        BY <4>7 DEF NodesOf
    <3>3. QED
      BY <2>1, <2>10, <3>1, <3>2
  <2>11. QED
    BY <1>13, <2>8, <2>9, <2>10
<1>22. QED
  BY <1>14, <1>20, <1>21

\* An expansion of no steps.
Asked(p, d, m, c, l, hits, none) ==
    [phase |-> p, direction |-> d, maxDepth |-> m, maxCandidates |-> c, lens |-> l, hits |-> hits,
     seeds |-> {}, queue |-> none, found |-> none, scanned |-> 0, truncated |-> {}]
SearchOf(p, d, m, c, l, hits) ==
    [NoSearch EXCEPT
       !.phase = p, !.direction = d, !.maxDepth = m, !.maxCandidates = c, !.lens = l, !.hits = hits]
IsSearch(s, p, hits, none) ==
    /\ s \in Searches /\ s.phase = p /\ s.hits = hits /\ s.seeds = {} /\ s.queue = none /\ s.found = none
    /\ s.scanned = 0 /\ s.truncated = {}

\* What a search is when it begins.
LEMMA AskedIs ==
  ASSUME NEW p, NEW d, NEW m, NEW c, NEW l, NEW hits, NEW none, none = <<>>, NEW v,
         v = SearchOf(p, d, m, c, l, hits)
  PROVE  v = Asked(p, d, m, c, l, hits, none)
BY DEF SearchOf, Asked, NoSearch

\* It is a search.
LEMMA SearchIs ==
  ASSUME NEW p \in {"idle", "refilter", "expand"}, NEW d \in Direction, NEW m \in Nat, NEW c \in Nat,
         NEW l \in BOOLEAN, NEW hits \in Seq(Entries), NEW none, none \in Seq(Entries), none \in Seq(Fronts)
  PROVE  /\ IsSearch(Asked(p, d, m, c, l, hits, none), p, hits, none)
         /\ Asked(p, d, m, c, l, hits, none).maxCandidates = c
<1>1. PICK s : s = Asked(p, d, m, c, l, hits, none)
  OBVIOUS
<1>2. IsSearch(s, p, hits, none) /\ s.maxCandidates = c
  BY <1>1 DEF Searches, Asked, IsSearch
<1>3. QED
  BY <1>1, <1>2

\* A search that has not expanded anything.
LEMMA AskedStands ==
  ASSUME NEW p \in {"idle", "refilter", "expand"}, NEW hits \in Seq(Entries), Distinct(hits),
         \A i \in DOMAIN hits : ~hits[i].expanded, NEW none, none = <<>>,
         NEW s, IsSearch(s, p, hits, none), NEW kept, NEW met
  PROVE  SearchFits(s, kept, met) /\ s.phase # "done"
<1>1. /\ s \in Searches /\ s.phase = p /\ s.hits = hits /\ s.seeds = {} /\ s.queue = none /\ s.found = none
      /\ s.scanned = 0
  BY DEF IsSearch
<1>2. Len(none) = 0 /\ DOMAIN none = {} /\ NodesOf(none) = {} /\ Distinct(none)
  BY EmptySeq DEF NodesOf, Distinct
<1>3. s.maxCandidates \in Nat /\ MaxScans \in Nat
  BY <1>1, ExpansionAssumption DEF Searches
<1>4. s.scanned <= MaxScans /\ Len(s.found) <= s.maxCandidates
  BY <1>1, <1>2, <1>3
<1>5. Stands(s, met)
  BY <1>1, <1>2 DEF Stands
<1>6. Expanding(s, kept)
  BY <1>1, <1>2 DEF Expanding
<1>7. QED
  BY <1>1, <1>4, <1>5, <1>6 DEF SearchFits

\* No search has anything to answer for.
LEMMA NoSearchFits ==
  ASSUME NEW kept, NEW met
  PROVE  SearchFits(NoSearch, kept, met) /\ NoSearch.phase # "done"
<1>1. PICK none : none = <<>>
  OBVIOUS
<1>2. /\ none \in Seq(Entries) /\ none \in Seq(Fronts)
      /\ Distinct(none) /\ \A i \in DOMAIN none : ~none[i].expanded
  BY <1>1, EmptySeq DEF Distinct
<1>3. NoSearch = Asked("idle", "out", 0, 0, FALSE, none, none)
  BY <1>1 DEF NoSearch, Asked
<1>4. PICK p, d, l : p = "idle" /\ d = "out" /\ l = FALSE
  OBVIOUS
<1>5. p \in {"idle", "refilter", "expand"} /\ d \in Direction /\ l \in BOOLEAN /\ 0 \in Nat
  BY <1>4 DEF Direction
<1>6. IsSearch(Asked(p, d, 0, 0, l, none, none), p, none, none)
  BY <1>2, <1>5, SearchIs
<1>7. PICK s : s = Asked(p, d, 0, 0, l, none, none)
  OBVIOUS
<1>8. SearchFits(s, kept, met) /\ s.phase # "done"
  BY <1>1, <1>2, <1>5, <1>6, <1>7, AskedStands
<1>9. QED
  BY <1>3, <1>4, <1>7, <1>8

\* What the ranking lists, as hits.
LEMMA RankedFits ==
  ASSUME NEW d \in Direction, NEW m \in Nat, NEW c \in Nat, NEW l \in BOOLEAN, NEW ranking \in Rankings,
         NEW kept, NEW met, NEW p, p = IF l THEN "refilter" ELSE "expand",
         NEW hits, hits = [i \in DOMAIN ranking |-> Hit(ranking[i])], NEW none, none = <<>>,
         NEW v, v = Asked(p, d, m, c, l, hits, none)
  PROVE  SearchFits(v, kept, met) /\ v.phase # "done"
<1>1. PICK k \in 0 .. Limit : ranking \in [1 .. k -> Node]
  BY DEF Rankings
<1>2. k \in Nat /\ IsInjective(ranking)
  BY <1>1, ExpansionAssumption DEF Rankings
<1>3. \A n \in Node : Hit(n) \in Entries /\ Hit(n).node = n /\ ~Hit(n).expanded
  BY DEF Hit, Entries
<1>4. hits \in [1 .. k -> Entries]
  BY <1>1, <1>3
<1>5. hits \in Seq(Entries) /\ DOMAIN hits = 1 .. k
  BY <1>2, <1>4, InSeq
<1>6. \A i \in 1 .. k : ranking[i] \in Node /\ hits[i] = Hit(ranking[i])
  BY <1>1
<1>7. Distinct(hits)
  BY <1>1, <1>2, <1>3, <1>5, <1>6 DEF Distinct, IsInjective
<1>8. \A i \in DOMAIN hits : ~hits[i].expanded
  BY <1>3, <1>5, <1>6
<1>9. none \in Seq(Entries) /\ none \in Seq(Fronts)
  BY EmptySeq
<1>10. p \in {"idle", "refilter", "expand"}
  OBVIOUS
<1>11. IsSearch(v, p, hits, none)
  <2>1. IsSearch(Asked(p, d, m, c, l, hits, none), p, hits, none)
    BY ONLY <1>5, <1>9, <1>10, SearchIs
  <2>2. QED
    BY ONLY <2>1, v = Asked(p, d, m, c, l, hits, none)
<1>12. QED
  BY <1>5, <1>7, <1>8, <1>10, <1>11, AskedStands

\* What the answer of an expansion must be is what the properties ask of it.
LEMMA AnswersTell ==
  ASSUME AnswerFits(search, steady, seen, There)
  PROVE  UntruncatedExpansionIsComplete /\ AssociationIsSupported
<1>1. DirectOf(search) = Direct /\ AddedOf(search) = Added
  BY DEF DirectOf, AddedOf, Direct, Added
<1>2. UntruncatedExpansionIsComplete
  <2> SUFFICES ASSUME search.phase = "done", search.seeds # {}, search.truncated = {},
                      NEW passive, passive = {search.hits[i].node : i \in Direct} \ search.seeds,
                      NEW n, n \in Reachable(search.seeds, steady, search.direction, passive), row[n] = "in"
               PROVE  n \in NodesOf(search.hits)
    BY DEF UntruncatedExpansionIsComplete
  <2>1. Reachable(search.seeds, steady, search.direction, passive) \cap There \subseteq NodesOf(search.hits)
    BY <1>1 DEF AnswerFits, Complete
  <2>2. n \in There
    BY DEF Reachable, There
  <2>3. QED
    BY <2>1, <2>2
<1>3. AssociationIsSupported
  <2> SUFFICES ASSUME search.phase = "done"
               PROVE  /\ \A i \in Direct, j \in Added : i < j
                      /\ IsInjective([i \in DOMAIN search.hits |-> search.hits[i].node])
                      /\ \A i \in Added : Vouched(search, search.hits[i], seen)
    BY DEF AssociationIsSupported, Vouched
  <2>1. Supported(search, seen)
    BY DEF AnswerFits
  <2>2. IsInjective([i \in DOMAIN search.hits |-> search.hits[i].node])
    BY <2>1 DEF Supported, Distinct, IsInjective
  <2>3. QED
    BY <1>1, <2>1, <2>2 DEF Supported
<1>4. QED
  BY <1>2, <1>3

\* A step of a search.
LEMMA SearchSteps ==
  ASSUME GraphFits, SearchFits(search, steady, seen), ExpansionNext
  PROVE  /\ GraphFits' /\ SearchFits(search', steady', seen')
         /\ AnswerFits(search', steady', seen', There')
<1>1. PICK s, v, kept, met, there :
         s = search /\ v = search' /\ kept = steady /\ met = seen /\ there = There
  OBVIOUS
<1>2. PICK after, then, still : after = steady' /\ then = seen' /\ still = There'
  OBVIOUS
<1>3. /\ SearchFits(s, kept, met) /\ s \in Searches
      /\ kept \in SUBSET EdgeId /\ met \in SUBSET EdgeId /\ kept \subseteq met
  BY <1>1 DEF SearchFits, GraphFits
<1>4. GraphFits'
  BY SearchTouches
<1>5. SUFFICES SearchFits(v, after, then) /\ AnswerFits(v, after, then, still)
  BY <1>1, <1>2, <1>4
<1>6. ASSUME NEW d \in Direction, NEW m \in ExpandDepths, NEW c \in CandidateCaps, NEW l \in BOOLEAN,
             NEW r \in Rankings, Search(d, m, c, l, r)
      PROVE  SearchFits(v, after, then) /\ v.phase # "done"
  <2>1. PICK p : p = IF l THEN "refilter" ELSE "expand"
    OBVIOUS
  <2>2. PICK hits, none : hits = [i \in DOMAIN r |-> Hit(r[i])] /\ none = <<>>
    OBVIOUS
  <2>3. v = SearchOf(p, d, m, c, l, hits)
    BY <1>1, <1>6, <2>1, <2>2 DEF Search, SearchOf
  <2>4. v = Asked(p, d, m, c, l, hits, none)
    BY ONLY <2>2, <2>3, AskedIs
  <2>5. m \in Nat /\ c \in Nat
    BY ExpansionAssumption
  <2>6. QED
    BY <2>1, <2>2, <2>4, <2>5, RankedFits
<1>7. ASSUME UNCHANGED graphVars PROVE after = kept /\ then = met /\ still = there
  BY <1>1, <1>2, <1>7 DEF graphVars, There
<1>8. ASSUME FilterKnownSys PROVE SearchFits(v, after, then) /\ v.phase # "done"
  <2>1. PICK I : I = {i \in DOMAIN s.hits : row[s.hits[i].node] = "in"}
    OBVIOUS
  <2>2. s.phase = "refilter" /\ I \subseteq DOMAIN s.hits /\ UNCHANGED graphVars
    BY <1>1, <1>8, <2>1 DEF FilterKnownSys
  <2>3. v = [s EXCEPT !.phase = "expand", !.hits = Among(s.hits, I)]
    BY <1>1, <1>8, <2>1 DEF FilterKnownSys
  <2>4. SearchFits(v, kept, met) /\ v.phase # "done"
    BY <1>3, <2>2, <2>3, RefilteredFits
  <2>5. QED
    BY <1>7, <2>2, <2>4
<1>9. ASSUME NEW most \in SeedCaps, SeedExpansion(most)
      PROVE  SearchFits(v, after, then) /\ AnswerFits(v, after, then, still)
  <2>1. PICK chosen : chosen = SubSeq(s.hits, 1, IF Len(s.hits) < most THEN Len(s.hits) ELSE most)
    OBVIOUS
  <2>2. /\ s.phase = "expand" /\ UNCHANGED graphVars /\ most \in Nat
        /\ v = IF chosen = <<>> THEN [s EXCEPT !.phase = "done"]
               ELSE [s EXCEPT
                       !.phase = "bfs", !.seeds = {chosen[i].node : i \in DOMAIN chosen},
                       !.queue = [i \in DOMAIN chosen |-> Frontier(chosen[i].node, 0, chosen[i].node)]]
    BY <1>1, <1>9, <2>1, ExpansionAssumption DEF SeedExpansion
  <2>3. CASE chosen = <<>>
    <3>1. v = [s EXCEPT !.phase = "done"]
      BY <2>2, <2>3
    <3>2. SearchFits(v, kept, met) /\ Complete(v, kept, there) /\ Supported(v, met)
      BY <1>3, <2>2, <3>1, UnseededFits
    <3>3. QED
      BY <1>7, <2>2, <3>2 DEF AnswerFits
  <2>4. CASE chosen # <<>>
    <3>1. PICK queue : queue = Fronted(chosen)
      OBVIOUS
    <3>2. PICK seeds : seeds = NodesOf(chosen)
      OBVIOUS
    <3>3. v = Sown(s, seeds, queue)
      BY <2>2, <2>4, <3>1, <3>2 DEF Fronted, Sown, NodesOf
    <3>4. SearchFits(s, kept, met) /\ s.phase = "expand" /\ most \in Nat
      BY <1>3, <2>2
    <3>5. PICK n \in Nat : n <= Len(s.hits) /\ chosen = SubSeq(s.hits, 1, n)
      <4>1. Len(s.hits) \in Nat
        BY <1>3, LenProperties DEF Searches
      <4>2. QED
        BY <2>1, <3>4, <4>1
    <3>6. SearchFits(v, kept, met) /\ v.phase # "done"
      BY ONLY <3>1, <3>2, <3>3, <3>4, <3>5, SeededFits
    <3>7. QED
      BY <1>7, <2>2, <3>6 DEF AnswerFits
  <2>5. QED
    BY <2>3, <2>4
<1>10. PICK rest : rest = [s EXCEPT !.queue = Tail(@)]
  OBVIOUS
<1>11. rest = Rest
  BY <1>1, <1>10 DEF Rest
<1>12. PICK f : f = Head(s.queue)
  OBVIOUS
<1>13. PICK leaving : leaving = Leaving(f.node, s.direction)
  OBVIOUS
<1>14. /\ \A e \in kept : Follows(e, f.node, s.direction) => e \in leaving
       /\ \A e \in leaving : e \in met /\ Follows(e, f.node, s.direction)
  BY <1>1, <1>13 DEF Leaving, GraphFits
<1>15. ASSUME ProbeFrontier PROVE SearchFits(v, after, then) /\ v.phase # "done"
  <2>1. s.phase = "bfs" /\ s.queue # <<>> /\ UNCHANGED graphVars
    BY <1>1, <1>15 DEF ProbeFrontier
  <2>2. PICK any \in BOOLEAN : any = (Followable(f.node, s.direction) # <<>>)
    OBVIOUS
  <2>3. v = IF any THEN Marked(rest, "depth") ELSE rest
    BY <1>1, <1>11, <1>12, <1>15, <2>2 DEF ProbeFrontier
  <2>4. ~any => \A e \in kept : ~Follows(e, f.node, s.direction)
    BY <1>13, <1>14, <2>2, ProbeIs
  <2>5. SearchFits(v, kept, met) /\ v.phase # "done"
    BY <1>3, <1>10, <1>12, <2>1, <2>3, <2>4, AskedFits
  <2>6. QED
    BY <1>7, <2>1, <2>5
<1>16. ASSUME ExpansionDeadline \/ ScansSpent PROVE SearchFits(v, after, then) /\ v.phase # "done"
  <2>1. s.phase = "bfs" /\ s.queue # <<>> /\ UNCHANGED graphVars
    BY <1>1, <1>16 DEF ExpansionDeadline, ScansSpent, BeforeBound
  <2>2. PICK r \in Cuts : v = Fetching(Marked(rest, r))
    BY <1>1, <1>11, <1>16 DEF ExpansionDeadline, ScansSpent, Cuts
  <2>3. /\ SearchFits(Fetching(Marked(rest, r)), kept, met)
        /\ Fetching(Marked(rest, r)).phase # "done"
    BY <1>3, <1>10, <2>1, CutFits
  <2>4. QED
    BY <1>7, <2>1, <2>2, <2>3
<1>17. ASSUME ExpandNode PROVE SearchFits(v, after, then) /\ v.phase # "done"
  <2>1. s.phase = "bfs" /\ s.queue # <<>> /\ s.scanned < MaxScans /\ UNCHANGED graphVars
    BY <1>1, <1>17 DEF ExpandNode, BeforeBound
  <2>2. PICK left : left = MaxScans - s.scanned
    OBVIOUS
  <2>3. left \in Nat
    <3>1. s.scanned \in Nat /\ MaxScans \in Nat
      BY <1>3, ExpansionAssumption DEF Searches
    <3>2. QED
      BY <2>1, <2>2, <3>1
  <2>4. PICK listed : listed = Rows(f.node, s.direction, left)
    OBVIOUS
  <2>5. PICK taken : taken = Cut(listed, left)
    OBVIOUS
  <2>6. /\ taken \in Seq(EdgeId) /\ Len(taken) <= left
        /\ Range(taken) \subseteq leaving
        /\ ~(Len(listed) > left) => Range(taken) = leaving
    BY <1>13, <2>3, <2>4, <2>5, RowsAre
  <2>7. PICK more \in BOOLEAN : more <=> Len(listed) > left
    <3>1. CASE Len(listed) > left
      <4>1. TRUE \in BOOLEAN /\ (TRUE <=> Len(listed) > left)
        BY <3>1
      <4>2. QED
        BY <4>1
    <3>2. CASE ~(Len(listed) > left)
      <4>1. FALSE \in BOOLEAN /\ (FALSE <=> Len(listed) > left)
        BY <3>2
      <4>2. QED
        BY <4>1
    <3>3. QED
      BY <3>1, <3>2
  <2>8. PICK begun : begun = IF more THEN Marked(rest, "edges") ELSE rest
    OBVIOUS
  <2>9. v = Spreads(begun, f, taken)
    <3>1. begun = IF Len(listed) > left THEN Marked(Rest, "edges") ELSE Rest
      BY <1>11, <2>7, <2>8
    <3> DEFINE front == Head(search.queue)
               remaining == MaxScans - search.scanned
               fetched == Rows(front.node, search.direction, remaining)
    <3>2. search' = Spreads(IF Len(fetched) > remaining THEN Marked(Rest, "edges") ELSE Rest,
                            front, Cut(fetched, remaining))
      BY <1>17 DEF ExpandNode, Spreads
    <3>3. front = f /\ remaining = left /\ fetched = listed
      BY <1>1, <1>12, <2>2, <2>4
    <3> HIDE DEF front, remaining, fetched
    <3>4. QED
      BY <1>1, <2>5, <3>1, <3>2, <3>3
  <2>10. \A e \in Range(taken) : e \in met /\ Follows(e, f.node, s.direction)
    BY <1>14, <2>6
  <2>11. ~more => \A e \in kept : Follows(e, f.node, s.direction) => e \in Range(taken)
    BY <1>14, <2>6, <2>7
  <2>12. Len(taken) <= MaxScans - s.scanned /\ taken \in Seq(EdgeId)
    BY <2>2, <2>6
  <2>13. SearchFits(v, kept, met) /\ v.phase # "done"
    BY ONLY <1>3, <1>10, <1>12, <2>1, <2>8, <2>9, <2>10, <2>11, <2>12, SpreadFits
  <2>14. QED
    BY <1>7, <2>1, <2>13
<1>18. ASSUME FrontierEmpty PROVE SearchFits(v, after, then) /\ v.phase # "done"
  <2>1. s.phase = "bfs" /\ s.queue = <<>> /\ v = Fetching(s) /\ UNCHANGED graphVars
    BY <1>1, <1>18 DEF FrontierEmpty
  <2>2. SearchFits(Fetching(s), kept, met) /\ Fetching(s).phase # "done"
    BY <1>3, <2>1, DrainedFits
  <2>3. QED
    BY <1>7, <2>1, <2>2
<1>19. ASSUME FetchCandidates PROVE SearchFits(v, after, then) /\ AnswerFits(v, after, then, still)
  <2>1. PICK sorted, found : sorted = ByDepth /\ found = s.found
    OBVIOUS
  <2>2. PICK fetched : fetched = {k \in DOMAIN sorted : sorted[k].node \in there}
    OBVIOUS
  <2>3. found \in Seq(Entries) /\ Distinct(found) /\ search.found = found
    <3>1. s.phase = "fetch"
      BY <1>1, <1>19 DEF FetchCandidates
    <3>2. QED
      BY <1>1, <1>3, <2>1, <3>1 DEF SearchFits, Stands, Searches
  <2>4. sorted \in Seq(Entries) /\ Range(sorted) = Range(found) /\ Distinct(sorted)
    BY <2>1, <2>3, ByDepthIs
  <2>5. fetched = {k \in DOMAIN ByDepth : row[ByDepth[k].node] = "in"}
    <3>1. \A k \in DOMAIN sorted : sorted[k] \in Entries
      BY <2>4, SeqRange
    <3>2. \A k \in DOMAIN sorted : sorted[k].node \in Node
      BY <3>1 DEF Entries
    <3>3. QED
      BY <1>1, <2>1, <2>2, <3>2 DEF There
  <2>6. /\ s.phase = "fetch" /\ UNCHANGED graphVars
        /\ v = [s EXCEPT !.phase = "done", !.hits = s.hits \o Among(sorted, fetched)]
    BY <1>1, <1>19, <2>1, <2>5 DEF FetchCandidates
  <2>7. SearchFits(v, kept, met) /\ Complete(v, kept, there) /\ Supported(v, met)
    <3>1. /\ SearchFits(s, kept, met) /\ s.phase = "fetch" /\ kept \in SUBSET EdgeId
          /\ sorted \in Seq(Entries) /\ Range(sorted) = Range(s.found) /\ Distinct(sorted)
      BY <1>3, <2>1, <2>4, <2>6
    <3>2. v = [s EXCEPT !.phase = "done", !.hits = s.hits \o Among(sorted, fetched)]
      BY <2>6
    <3>3. QED
      BY ONLY <2>2, <3>1, <3>2, FetchedFits
  <2>8. QED
    BY <1>7, <2>6, <2>7 DEF AnswerFits
<1>20. ASSUME search.phase \notin {"idle", "done"}, UNCHANGED search, Moves
       PROVE  SearchFits(v, after, then) /\ v.phase # "done"
  <2>1. after \subseteq kept /\ met \subseteq then
    BY <1>1, <1>2, <1>20, GraphMoves
  <2>2. v = s /\ s.phase # "done"
    BY <1>1, <1>20
  <2>3. SearchFits(s, after, then)
    BY <1>3, <2>1, LaterFits
  <2>4. QED
    BY <2>2, <2>3
<1>21. v.phase # "done" => AnswerFits(v, after, then, still)
  BY DEF AnswerFits
<1>22. QED
  BY <1>6, <1>8, <1>9, <1>15, <1>16, <1>17, <1>18, <1>19, <1>20, <1>21 DEF ExpansionNext, Moves

\* Nobody searches at first.
LEMMA SearchInitially == Init => SearchInv
<1> SUFFICES ASSUME Init PROVE SearchInv
  OBVIOUS
<1>1. search = NoSearch /\ GraphInit
  BY DEF Init, ExpansionInit
<1>2. GraphFits
  BY <1>1 DEF GraphInit, GraphFits
<1>3. PICK kept, met : kept = steady /\ met = seen
  OBVIOUS
<1>4. SearchFits(NoSearch, kept, met) /\ NoSearch.phase # "done"
  BY NoSearchFits
<1>5. QED
  BY <1>1, <1>2, <1>3, <1>4 DEF SearchInv, AnswerFits

\* A step leaves the search in order.
LEMMA SearchStays == TraversalInv /\ SearchInv /\ [Next]_vars => SearchInv'
<1> SUFFICES ASSUME TraversalInv, SearchInv, [Next]_vars PROVE SearchInv'
  OBVIOUS
<1>1. /\ GraphFits /\ SearchFits(search, steady, seen) /\ AnswerFits(search, steady, seen, There)
      /\ call # "search" => search = NoSearch
  BY DEF SearchInv
<1>2. call' = call
  BY DEF Next, vars
<1>3. CASE call = "search" /\ ExpansionNext
  BY <1>1, <1>2, <1>3, SearchSteps DEF SearchInv
<1>4. CASE UNCHANGED graphVars /\ UNCHANGED search
  <2>1. There' = There /\ GraphFits' /\ steady' = steady /\ seen' = seen
    BY <1>1, <1>4 DEF There, GraphFits, graphVars
  <2>2. QED
    BY <1>1, <1>2, <1>4, <2>1 DEF SearchInv
<1>5. CASE call = "traverse" /\ UNCHANGED search
  <2>1. GraphFits'
    BY TraversalStays DEF TraversalInv
  <2>2. search' = NoSearch
    BY <1>1, <1>5
  <2>3. PICK after, then, still : after = steady' /\ then = seen' /\ still = There'
    OBVIOUS
  <2>4. SearchFits(NoSearch, after, then) /\ NoSearch.phase # "done"
    BY NoSearchFits
  <2>5. AnswerFits(NoSearch, after, then, still)
    BY <2>4 DEF AnswerFits
  <2>6. SearchFits(search', steady', seen') /\ AnswerFits(search', steady', seen', There')
    BY <2>2, <2>3, <2>4, <2>5
  <2>7. QED
    BY <1>2, <1>5, <2>1, <2>2, <2>6 DEF SearchInv
<1>6. QED
  BY <1>3, <1>4, <1>5 DEF Next, vars

\* Together they say what a walk and an expansion promise.
LEMMA WalksTell == TraversalInv /\ SearchInv => WalksAreHonest
<1> SUFFICES ASSUME TraversalInv, SearchInv PROVE WalksAreHonest
  OBVIOUS
<1>1. WalkKeepsItsBudget /\ UntruncatedWalkIsComplete /\ PathsAreShortest
  BY WalkTells
<1>2. ExpansionKeepsItsBudget
  BY DEF SearchInv, SearchFits, ExpansionKeepsItsBudget
<1>3. UntruncatedExpansionIsComplete /\ AssociationIsSupported
  BY AnswersTell DEF SearchInv
<1>4. QED
  BY <1>1, <1>2, <1>3 DEF WalksAreHonest

\* A walk and an expansion say what was there: complete unless a bound is named, by
\* paths that stood and were shortest, tied to the seeds they name, within what the
\* caller allowed; whoever relates, invalidates or erases in the middle of them.
THEOREM WalksAreHonestEverywhere == Spec => []WalksAreHonest
<1>1. Init => TraversalInv /\ SearchInv
  BY TraversalInitially, SearchInitially
<1>2. TraversalInv /\ SearchInv /\ [Next]_vars => (TraversalInv /\ SearchInv)'
  BY TraversalStays, SearchStays
<1>3. TraversalInv /\ SearchInv => WalksAreHonest
  BY WalksTell
<1>4. QED
  BY <1>1, <1>2, <1>3, PTL DEF Spec
=============================================================================
