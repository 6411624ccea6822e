------------------------------ MODULE Expansion ------------------------------
(***************************************************************************)
(* `search_detailed` with graph expansion: ranked direct hits, a bounded   *)
(* walk from the best of them over active edges, a second fetch of what    *)
(* the walk found, and the hits it appends below the direct ones.          *)
(***************************************************************************)
EXTENDS RelationshipGraph

CONSTANTS
    Limit,          \* the most direct hits a search returns
    ExpandDepths, SeedCaps, CandidateCaps,   \* the bounds a request may ask for
    MaxScans,       \* GRAPH_EXPAND_MAX_EDGES
    MaxFrom         \* the most seeds a hit names (3)

ASSUME ExpansionAssumption ==
    {Limit, MaxScans, MaxFrom} \cup ExpandDepths \cup SeedCaps \cup CandidateCaps \subseteq Nat

VARIABLE search     \* the call: its hits, its walk and what it found

NoSearch == [phase |-> "idle", direction |-> "out", maxDepth |-> 0, maxCandidates |-> 0,
             lens |-> FALSE, hits |-> <<>>, seeds |-> {}, queue |-> <<>>, found |-> <<>>,
             scanned |-> 0, truncated |-> {}]

\* A hit: what it is, and how the walk reached it (depth 0: it did not).
Hit(n) == [node |-> n, expanded |-> FALSE, depth |-> 0, from |-> {}]
NodesOf(entries) == {entries[i].node : i \in DOMAIN entries}
At(entries, n) == CHOOSE i \in DOMAIN entries : entries[i].node = n

\* The engine ranks what is in scope and lens; any ranking may come back.
Rankings == {s \in UNION {[1 .. k -> Node] : k \in 0 .. Limit} : IsInjective(s)}

Search(direction, maxDepth, maxCandidates, lens, ranking) ==
    /\ search.phase = "idle"
    /\ \A i \in DOMAIN ranking : row[ranking[i]] = "in"
    /\ search' = [NoSearch EXCEPT
                    !.phase = IF lens THEN "refilter" ELSE "expand",
                    !.direction = direction, !.maxDepth = maxDepth,
                    !.maxCandidates = maxCandidates, !.lens = lens,
                    !.hits = [i \in DOMAIN ranking |-> Hit(ranking[i])]]
    /\ steady' = {e \in EdgeId : edge[e] = "active"}
    /\ seen' = steady'
    /\ UNCHANGED <<edge, row>>

\* Under a known or system lens the hits are read again and what is gone drops out.
FilterKnownSys ==
    /\ search.phase = "refilter"
    /\ search' = [search EXCEPT !.phase = "expand",
                    !.hits = Among(@, {i \in DOMAIN @ : row[@[i].node] = "in"})]
    /\ UNCHANGED graphVars

\* The first hits seed the walk; without a hit there is nothing to expand.
Frontier(n, depth, seed) == [node |-> n, depth |-> depth, seed |-> seed]

SeedExpansion(maxSeeds) ==
    /\ search.phase = "expand"
    /\ LET chosen == SubSeq(search.hits, 1,
                            IF Len(search.hits) < maxSeeds THEN Len(search.hits) ELSE maxSeeds)
       IN  search' = IF chosen = <<>> THEN [search EXCEPT !.phase = "done"]
                     ELSE [search EXCEPT
                             !.phase = "bfs",
                             !.seeds = {chosen[i].node : i \in DOMAIN chosen},
                             !.queue = [i \in DOMAIN chosen |->
                                          Frontier(chosen[i].node, 0, chosen[i].node)]]
    /\ UNCHANGED graphVars

Marked(s, reason) == [s EXCEPT !.truncated = @ \cup {reason}]
Fetching(s) == [s EXCEPT !.phase = "fetch"]
Rest == [search EXCEPT !.queue = Tail(@)]

\* One more seed leads to it, if there is room to name one, at the depth that is kept.
WithSeed(hit, seed, depth) ==
    [hit EXCEPT !.from = IF Cardinality(@) < MaxFrom THEN @ \cup {seed} ELSE @, !.depth = depth]

\* A path to a direct hit is kept on the hit, with the shortest depth; the hit
\* is not walked through.
Corroborate(s, i, frame) ==
    LET hit == s.hits[i]
    IN  [s EXCEPT !.hits[i] = WithSeed(hit, frame.seed,
            IF hit.depth = 0 \/ frame.depth + 1 < hit.depth THEN frame.depth + 1 ELSE hit.depth)]

\* merge_prov: a candidate met again keeps the larger of the two depths.
MergeProv(s, i, frame) ==
    LET hit == s.found[i]
    IN  [s EXCEPT !.found[i] = WithSeed(hit, frame.seed,
            IF frame.depth + 1 > hit.depth THEN frame.depth + 1 ELSE hit.depth)]

Discover(s, n, frame) ==
    [s EXCEPT !.found = Append(@, [node |-> n, expanded |-> TRUE,
                                   depth |-> frame.depth + 1, from |-> {frame.seed}]),
              !.queue = Append(@, Frontier(n, frame.depth + 1, frame.seed))]

Meet(s, frame, e) ==
    IF s.phase = "fetch" THEN s
    ELSE LET n       == Far(e, frame.node)
             counted == [s EXCEPT !.scanned = @ + 1]
         IN  IF n \in NodesOf(s.hits) THEN Corroborate(counted, At(s.hits, n), frame)
             ELSE IF n \in NodesOf(s.found) THEN MergeProv(counted, At(s.found, n), frame)
             ELSE IF Len(s.found) >= s.maxCandidates
                  THEN Fetching(Marked(counted, "candidates"))
             ELSE Discover(counted, n, frame)

BeforeBound ==
    /\ search.phase = "bfs" /\ search.queue # <<>>
    /\ Head(search.queue).depth < search.maxDepth

ProbeFrontier ==
    /\ search.phase = "bfs" /\ search.queue # <<>>
    /\ Head(search.queue).depth >= search.maxDepth
    /\ search' = IF Followable(Head(search.queue).node, search.direction) # <<>>
                 THEN Marked(Rest, "depth") ELSE Rest
    /\ UNCHANGED graphVars

ExpansionDeadline ==
    /\ BeforeBound
    /\ search' = Fetching(Marked(Rest, "deadline"))
    /\ UNCHANGED graphVars

ScansSpent ==
    /\ BeforeBound /\ search.scanned = MaxScans
    /\ search' = Fetching(Marked(Rest, "edges"))
    /\ UNCHANGED graphVars

ExpandNode ==
    /\ BeforeBound /\ search.scanned < MaxScans
    /\ LET frame     == Head(search.queue)
           remaining == MaxScans - search.scanned
           rows      == Rows(frame.node, search.direction, remaining)
       IN  search' = FoldLeft(LAMBDA s, e : Meet(s, frame, e),
                              IF Len(rows) > remaining THEN Marked(Rest, "edges") ELSE Rest,
                              Cut(rows, remaining))
    /\ UNCHANGED graphVars

FrontierEmpty ==
    /\ search.phase = "bfs" /\ search.queue = <<>>
    /\ search' = Fetching(search)
    /\ UNCHANGED graphVars

\* The candidates stand by their depths, equals in the order of their discovery.
Shallower(i, j) ==
    \/ search.found[i].depth < search.found[j].depth
    \/ search.found[i].depth = search.found[j].depth /\ i < j

ByDepth ==
    LET found    == search.found
        place(i) == 1 + Cardinality({j \in DOMAIN found : Shallower(j, i)})
    IN  [k \in DOMAIN found |-> found[CHOOSE i \in DOMAIN found : place(i) = k]]

\* They are fetched under the filters of the search and appended.
FetchCandidates ==
    /\ search.phase = "fetch"
    /\ LET fetched == {k \in DOMAIN ByDepth : row[ByDepth[k].node] = "in"}
       IN  search' = [search EXCEPT !.phase = "done", !.hits = @ \o Among(ByDepth, fetched)]
    /\ UNCHANGED graphVars

LeaveLens(n) ==
    /\ MayTouch /\ row[n] = "in"
    /\ row' = [row EXCEPT ![n] = "out"]
    /\ UNCHANGED <<edge, steady, seen>>

ExpansionInit == GraphInit /\ search = NoSearch

ExpansionNext ==
    \/ search.phase = "idle"
       /\ \E d \in Direction, k \in ExpandDepths, c \in CandidateCaps, l \in BOOLEAN, r \in Rankings :
             Search(d, k, c, l, r)
    \/ FilterKnownSys
    \/ \E m \in SeedCaps : SeedExpansion(m)
    \/ ProbeFrontier \/ ExpansionDeadline \/ ScansSpent \/ ExpandNode
    \/ FrontierEmpty \/ FetchCandidates
    \/ search.phase \notin {"idle", "done"} /\ UNCHANGED search
       /\ \/ \E e \in EdgeId : Relate(e) \/ Invalidate(e)
          \/ \E n \in Node : EraseNode(n) \/ LeaveLens(n)

----------------------------------------------------------------------------

Direct == {i \in DOMAIN search.hits : ~search.hits[i].expanded}
Added == {i \in DOMAIN search.hits : search.hits[i].expanded}

\* An expansion that names no bound found everything near its seeds: whatever
\* can be reached over untouched edges, without walking through another hit,
\* and is in the lens, is among the hits.
UntruncatedExpansionIsComplete ==
    search.phase = "done" /\ search.seeds # {} /\ search.truncated = {} =>
        LET passive == {search.hits[i].node : i \in Direct} \ search.seeds
        IN  {n \in Reachable(search.seeds, steady, search.direction, passive) : row[n] = "in"}
              \subseteq NodesOf(search.hits)

\* Association is no endorsement: what the walk added stands below every direct
\* hit, is none of them, appears once, and is joined to every seed it names, and
\* to one of them within its depth, by edges that were active during the call.
AssociationIsSupported ==
    search.phase = "done" =>
        /\ \A i \in Direct, j \in Added : i < j
        /\ IsInjective([i \in DOMAIN search.hits |-> search.hits[i].node])
        /\ \A i \in Added :
              LET hit == search.hits[i]
              IN  /\ hit.from \subseteq search.seeds
                  /\ \A s \in hit.from :
                        hit.node \in Reachable({s}, seen, search.direction, {})
                  /\ \E s \in hit.from :
                        hit.node \in Within(hit.depth, {s}, seen, search.direction)

\* What the code says of ExpansionInfo.depth: the shortest hop distance from a
\* seed (asked of hits whose neighbourhood nobody touched).
ShortestDepthReported ==
    search.phase = "done" /\ steady = seen =>
        \A i \in Added :
            LET hit == search.hits[i]
            IN  hit.node \notin Within(hit.depth - 1, search.seeds, steady, search.direction)

\* What the search may scan and add.
ExpansionKeepsItsBudget ==
    /\ search.scanned <= MaxScans
    /\ Len(search.found) <= search.maxCandidates
=============================================================================
