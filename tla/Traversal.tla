------------------------------ MODULE Traversal ------------------------------
(***************************************************************************)
(* `traverse`: a breadth-first walk from given seeds, one query for every  *)
(* node, under budgets of depth, visited nodes, scanned edges and time,    *)
(* with the reasons it was cut short.                                      *)
(***************************************************************************)
EXTENDS RelationshipGraph

CONSTANTS
    Seeds,      \* the seeds of the request
    Depths, Visits, Scans   \* the budgets a request may ask for

ASSUME WalkAssumption == Seeds \subseteq Node /\ Depths \cup Visits \cup Scans \subseteq Nat

VARIABLE walk   \* the call: its request, its frames and its result

NoWalk == [phase |-> "idle", direction |-> "out", maxDepth |-> 0, maxVisited |-> 0,
           maxEdges |-> 0, queue |-> <<>>, visited |-> {}, nodes |-> <<>>, edges |-> {},
           scanned |-> 0, truncated |-> {}]

\* A node that was discovered, with the ids of the edges that led to it.
Frame(n, depth, path) == [node |-> n, depth |-> depth, path |-> path]

\* The seeds must exist when the call begins (check_endpoint).
Traverse(direction, maxDepth, maxVisited, maxEdges) ==
    /\ walk.phase = "idle"
    /\ walk' = IF \E s \in Seeds : row[s] = "gone"
               THEN [NoWalk EXCEPT !.phase = "not_found"]
               ELSE [NoWalk EXCEPT
                       !.phase = "bfs", !.direction = direction, !.maxDepth = maxDepth,
                       !.maxVisited = maxVisited, !.maxEdges = maxEdges,
                       !.visited = Seeds,
                       !.queue = SetToSeq({Frame(s, 0, <<>>) : s \in Seeds})]
    /\ steady' = {e \in EdgeId : edge[e] = "active"}
    /\ seen' = steady'
    /\ UNCHANGED <<edge, row>>

Mark(w, reason) == [w EXCEPT !.truncated = @ \cup {reason}]
Stop(w) == [w EXCEPT !.phase = "done"]

\* Mutant: a discovered node is not remembered.
VisitForgetful(w, frame, e, n) ==
    IF w.phase = "done" THEN w
    ELSE IF Cardinality(w.visited) >= w.maxVisited THEN Stop(Mark(w, "visited"))
    ELSE IF n \in w.visited THEN w
    ELSE LET next == Frame(n, frame.depth + 1, Append(frame.path, e))
         IN  [w EXCEPT !.queue = Append(@, next), !.nodes = Append(@, next)]

\* The far end of an edge: the visited budget is tested first, so that the
\* walk also stops at a node it knows already.
Visit(w, frame, e, n) ==
    IF w.phase = "done" THEN w
    ELSE IF Cardinality(w.visited) >= w.maxVisited THEN Stop(Mark(w, "visited"))
    ELSE IF n \in w.visited THEN w
    ELSE LET next == Frame(n, frame.depth + 1, Append(frame.path, e))
         IN  [w EXCEPT !.visited = @ \cup {n}, !.queue = Append(@, next),
                       !.nodes = Append(@, next)]

\* One row of the scan; an edge met before costs budget and nothing else.
TakeEdge(w, frame, e) ==
    IF w.phase = "done" THEN w
    ELSE LET counted == [w EXCEPT !.scanned = @ + 1]
         IN  IF e \in w.edges THEN counted
             ELSE Visit([counted EXCEPT !.edges = @ \cup {e}], frame, e, Far(e, frame.node))

Popped == [walk EXCEPT !.queue = Tail(@)]

\* At the depth bound the walk only asks whether there is an edge to follow.
ProbeDepth ==
    /\ walk.phase = "bfs" /\ walk.queue # <<>>
    /\ Head(walk.queue).depth >= walk.maxDepth
    /\ walk' = IF Followable(Head(walk.queue).node, walk.direction) # <<>>
               THEN Mark(Popped, "depth") ELSE Popped
    /\ UNCHANGED graphVars

\* The deadline is tested before every scan, and so is the edge budget.
DeadlinePasses ==
    /\ walk.phase = "bfs" /\ walk.queue # <<>>
    /\ Head(walk.queue).depth < walk.maxDepth
    /\ walk' = Stop(Mark(Popped, "deadline"))
    /\ UNCHANGED graphVars

Scanned(frame, remaining, rows) ==
    LET begun == IF Len(rows) > remaining THEN Mark(Popped, "edges") ELSE Popped
        taken == FoldLeft(LAMBDA w, e : TakeEdge(w, frame, e), begun, Cut(rows, remaining))
    IN  IF taken.phase # "done" /\ taken.scanned >= walk.maxEdges
        THEN Stop(Mark(taken, "edges")) ELSE taken

ScanNode ==
    /\ walk.phase = "bfs" /\ walk.queue # <<>>
    /\ Head(walk.queue).depth < walk.maxDepth
    /\ LET frame     == Head(walk.queue)
           remaining == walk.maxEdges - walk.scanned
       IN  walk' = Scanned(frame, remaining, Rows(frame.node, walk.direction, remaining))
    /\ UNCHANGED graphVars

QueueEmpty ==
    /\ walk.phase = "bfs" /\ walk.queue = <<>>
    /\ walk' = Stop(walk)
    /\ UNCHANGED graphVars

TraversalInit == GraphInit /\ walk = NoWalk

TraversalNext ==
    \/ \E d \in Direction, k \in Depths, v \in Visits, s \in Scans : Traverse(d, k, v, s)
    \/ ProbeDepth \/ DeadlinePasses \/ ScanNode \/ QueueEmpty
    \/ walk.phase = "bfs" /\ UNCHANGED walk
       /\ \/ \E e \in EdgeId : Relate(e) \/ Invalidate(e)
          \/ \E n \in Node : EraseNode(n)

----------------------------------------------------------------------------

\* An answer that names no bound is complete: every node that can be reached
\* over edges nobody touched meanwhile is in it.
UntruncatedWalkIsComplete ==
    walk.phase = "done" /\ walk.truncated = {} =>
        Reachable(Seeds, steady, walk.direction, {}) \subseteq walk.visited

\* A discovered node comes with a chain of followed edges that leads to it from
\* a seed, and no chain of untouched edges is shorter.
IsChain(path, n, direction) ==
    \E s \in Seeds : \E stops \in [0 .. Len(path) -> Node] :
        /\ stops[0] = s /\ stops[Len(path)] = n
        /\ \A i \in 1 .. Len(path) :
              Follows(path[i], stops[i - 1], direction) /\ Far(path[i], stops[i - 1]) = stops[i]

PathsAreShortest ==
    \A i \in 1 .. Len(walk.nodes) :
        LET found == walk.nodes[i]
        IN  /\ Len(found.path) = found.depth
            /\ IsChain(found.path, found.node, walk.direction)
            /\ \A j \in 1 .. Len(found.path) : found.path[j] \in walk.edges
            /\ found.node \notin Within(found.depth - 1, Seeds, steady, walk.direction)

\* What the code says of the depth bound: it counts as truncation only when the
\* node at the bound has an edge to follow that the walk refused to take.  A node
\* reached over an edge that is followed both ways is asked about that edge too.
DepthMarksCutWork ==
    walk.phase = "done" /\ walk.truncated = {"depth"} /\ seen = steady =>
        \E n \in walk.visited : ~ Range(Followable(n, walk.direction)) \subseteq walk.edges

\* What the caller allowed it to scan and to visit, its seeds apart.
WalkKeepsItsBudget ==
    /\ walk.scanned <= walk.maxEdges
    /\ Cardinality(walk.visited) <= walk.maxVisited \/ walk.visited \subseteq Seeds
=============================================================================
