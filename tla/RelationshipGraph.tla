-------------------------- MODULE RelationshipGraph --------------------------
(***************************************************************************)
(* The relationship table and the memory rows as the two graph walks of    *)
(* the store read them (crates/nomiso-store/src/surreal_store.rs): which   *)
(* edges a walk may follow from a node, in the order of their ids, and     *)
(* what other callers do to both tables between two of its queries.        *)
(***************************************************************************)
EXTENDS Ordering, SequencesExt

CONSTANTS
    Node,       \* memories; other endpoint kinds are walked the same way
    Links,      \* the edges there may be, by id: [subject, object, symmetric]
    MaxTouched  \* bound on the edges and rows others change during one walk

EdgeId == DOMAIN Links
Direction == {"out", "in", "both"}

ASSUME GraphAssumption ==
    /\ IsFiniteSet(Node)
    /\ EdgeId \subseteq Nat /\ IsFiniteSet(EdgeId)
    /\ Links \in [EdgeId -> [subject : Node, object : Node, symmetric : BOOLEAN]]

VARIABLES
    edge,       \* absent, active, or closed: invalidated, or purged with a row
    row,        \* is the memory in the scope and lens asked for, outside, or erased
    steady,     \* the edges nobody touched since the walk began
    seen        \* the edges that were active at some time since then

graphVars == <<edge, row, steady, seen>>

GraphInit ==
    /\ edge \in [EdgeId -> {"absent", "active"}]
    /\ row = [n \in Node |-> "in"]
    /\ steady = {e \in EdgeId : edge[e] = "active"}
    /\ seen = steady

----------------------------------------------------------------------------

\* follow_where: a symmetric edge is followed from either end.
Follows(e, n, direction) ==
    LET fromSubject == Links[e].subject = n
        fromObject  == Links[e].object = n
    IN  CASE direction = "out"  -> fromSubject \/ (Links[e].symmetric /\ fromObject)
          [] direction = "in"   -> fromObject \/ (Links[e].symmetric /\ fromSubject)
          [] direction = "both" -> fromSubject \/ fromObject

Far(e, n) == IF Links[e].subject = n THEN Links[e].object ELSE Links[e].subject

\* ORDER BY id ASC over the active edges.
Followable(n, direction) ==
    InOrder({e \in EdgeId : edge[e] = "active" /\ Follows(e, n, direction)})

\* The query fetches one row more than the budget that is left: the surplus is
\* the proof that edges were cut.
Rows(n, direction, remaining) ==
    LET all == Followable(n, direction)
    IN  SubSeq(all, 1, IF Len(all) <= remaining THEN Len(all) ELSE remaining + 1)

Cut(rows, remaining) ==
    IF Len(rows) > remaining THEN SubSeq(rows, 1, remaining) ELSE rows

----------------------------------------------------------------------------
(* Other callers, between two queries of a walk. *)

MayTouch == Cardinality(seen \ steady) + Cardinality({n \in Node : row[n] # "in"}) < MaxTouched

Relate(e) ==
    /\ MayTouch /\ edge[e] = "absent"
    /\ \A n \in {Links[e].subject, Links[e].object} : row[n] # "gone"
    /\ edge' = [edge EXCEPT ![e] = "active"]
    /\ seen' = seen \cup {e}
    /\ UNCHANGED <<row, steady>>

Invalidate(e) ==
    /\ MayTouch /\ edge[e] = "active"
    /\ edge' = [edge EXCEPT ![e] = "closed"]
    /\ steady' = steady \ {e}
    /\ UNCHANGED <<row, seen>>

\* A hard erase purges the edges of the row with it.
EraseNode(n) ==
    /\ MayTouch /\ row[n] # "gone"
    /\ row' = [row EXCEPT ![n] = "gone"]
    /\ edge' = [e \in EdgeId |->
                   IF n \in {Links[e].subject, Links[e].object} /\ edge[e] = "active"
                   THEN "closed" ELSE edge[e]]
    /\ steady' = {e \in steady : n \notin {Links[e].subject, Links[e].object}}
    /\ UNCHANGED seen

----------------------------------------------------------------------------
(* What the walks are measured against.                                    *)

\* The nodes that at most so many hops over given edges lead to.
Within(hops, from, edges, direction) ==
    {n \in Node : \E stops \in [0 .. hops -> Node] :
        /\ stops[0] \in from /\ stops[hops] = n
        /\ \A i \in 1 .. hops :
              \/ stops[i] = stops[i - 1]
              \/ \E e \in edges :
                    Follows(e, stops[i - 1], direction) /\ stops[i] = Far(e, stops[i - 1])}

\* The edges lead nowhere else from these nodes, the ones of `closed` apart.
Shut(nodes, edges, direction, closed) ==
    \A e \in edges, n \in nodes \ closed : Follows(e, n, direction) => Far(e, n) \in nodes

\* The nodes that given edges lead to, never passing through those of `closed`.
Reachable(from, edges, direction, closed) ==
    {n \in Node : \A nodes \in SUBSET Node :
        from \subseteq nodes /\ Shut(nodes, edges, direction, closed) => n \in nodes}

=============================================================================
