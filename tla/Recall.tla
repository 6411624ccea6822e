------------------------------- MODULE Recall -------------------------------
(***************************************************************************)
(* `hard_recall_pack`: one question asked in several wordings, one search  *)
(* after the other, the rankings fused by reciprocal rank, the rules of    *)
(* abstention, and the pack that must fit its size.  Rankings and scores   *)
(* are the engine's: any of them may come back.                            *)
(***************************************************************************)
EXTENDS Integers, FiniteSets, SequencesExt, FiniteSetsExt

CONSTANTS
    Card,           \* memories
    Scores,         \* plane scores, as whole numbers
    MaxPasses,      \* the wordings the rewriter makes
    RecallLimit,    \* the hits asked for
    MorePerPass,    \* how many more a pass after the first may bring
    Floors,         \* score floors a caller may set, 0 for none
    MinHits,        \* fewer hits than these are not worth a pack
    Size,           \* bytes of each card's line, whole
    ReferenceSize,  \* bytes of a line that only refers to a card
    HeaderSize,     \* bytes of the heading
    Budgets,        \* the sizes a pack may be given
    CardCaps        \* the numbers of cards a pack may be given

ASSUME RecallAssumption ==
    /\ IsFiniteSet(Card) /\ Size \in [Card -> Nat]
    /\ {RecallLimit, MorePerPass, ReferenceSize, HeaderSize} \subseteq Nat
    /\ Budgets \subseteq Nat /\ CardCaps \subseteq Nat

VARIABLE recall     \* the call: its passes, its hits and its pack

NoRecall == [phase |-> "idle", floor |-> 0, passes |-> <<>>, best |-> [c \in {} |-> 0],
             hits |-> <<>>, reason |-> "none", budget |-> 0, cap |-> 0, pack |-> <<>>]

RecallInit == recall = NoRecall

----------------------------------------------------------------------------

HardRecall(floor) ==
    /\ recall.phase = "idle"
    /\ recall' = [NoRecall EXCEPT !.phase = "passes", !.floor = floor]

\* What a search may answer: cards in descending order of score.
Answers(limit) ==
    {a \in UNION {[1 .. k -> Card \X Scores] : k \in 0 .. limit} :
        \A i, j \in DOMAIN a : i < j => a[i][1] # a[j][1] /\ a[i][2] >= a[j][2]}

\* A card met again keeps the better of its scores.
Better(best, answer) ==
    [c \in DOMAIN best \cup {hit[1] : hit \in Range(answer)} |->
        Max({hit[2] : hit \in {h \in Range(answer) : h[1] = c}}
            \cup {best[d] : d \in DOMAIN best \cap {c}})]

\* A pass that finds nothing takes no part in the fusion.
Pass(answer) ==
    /\ recall.phase = "passes"
    /\ recall' = [recall EXCEPT
                    !.passes = Append(@, [i \in DOMAIN answer |-> answer[i][1]]),
                    !.best = Better(@, answer),
                    !.phase = IF Len(recall.passes) + 1 = MaxPasses THEN "fuse" ELSE "passes"]

----------------------------------------------------------------------------
(* rrf_fuse: a card's share is the sum of 1 / (60 + rank) over the rankings *)
(* that name it, here over a common denominator.                            *)

Denominator == 61 * 62 * 63 * 64
Contribution(rank) == Denominator \div (60 + rank)

RankIn(list, c) == CHOOSE i \in DOMAIN list : list[i] = c
Naming(c, lists) == {p \in DOMAIN lists : c \in Range(lists[p])}

\* Mutant: the last ranking replaces the sum.
ShareOfLast(c, lists) ==
    LET p == Max(Naming(c, lists)) IN Contribution(RankIn(lists[p], c))

Share(c, lists) ==
    FoldLeft(LAMBDA share, list :
                IF c \in Range(list) THEN share + Contribution(RankIn(list, c)) ELSE share,
             0, lists)

\* Which of two cards is met first.
Sooner(c, d, lists) ==
    LET first(e) == Min(Naming(e, lists))
    IN  \/ first(c) < first(d)
        \/ first(c) = first(d) /\ RankIn(lists[first(c)], c) < RankIn(lists[first(d)], d)

\* Equal shares keep the order of first sight.
Ahead(c, d, lists) ==
    \/ Share(c, lists) > Share(d, lists)
    \/ Share(c, lists) = Share(d, lists) /\ Sooner(c, d, lists)

RrfFuse(lists) ==
    LET seen     == UNION {Range(lists[p]) : p \in DOMAIN lists}
        place(c) == 1 + Cardinality({d \in seen : Ahead(d, c, lists)})
    IN  [k \in 1 .. Cardinality(seen) |-> CHOOSE c \in seen : place(c) = k]

\* The floor is compared with plane scores, never with fused shares.
FloorScore(hits, multipass) ==
    IF hits = <<>> THEN 0
    ELSE IF multipass THEN Max({recall.best[c] : c \in Range(hits)})
    ELSE recall.best[hits[1]]

Abstention(hits, multipass) ==
    IF Len(hits) < MinHits THEN "few hits"
    ELSE IF recall.floor > 0 /\ FloorScore(hits, multipass) < recall.floor THEN "below floor"
    ELSE "none"

Fuse ==
    /\ recall.phase = "fuse"
    /\ LET fused  == RrfFuse(recall.passes)
           hits   == SubSeq(fused, 1, IF Len(fused) < RecallLimit THEN Len(fused) ELSE RecallLimit)
           found  == {p \in DOMAIN recall.passes : recall.passes[p] # <<>>}
           reason == Abstention(hits, Cardinality(found) > 1)
       IN  recall' = [recall EXCEPT !.hits = hits, !.reason = reason,
                        !.phase = IF reason = "none" THEN "pack" ELSE "done"]

----------------------------------------------------------------------------
(* pack_context: whole cards first, in rank order, then references to those *)
(* that were too long, as far as the size goes.                             *)

Line(c, whole) == [card |-> c, whole |-> whole]
LineSize(line) == IF line.whole THEN Size[line.card] ELSE ReferenceSize

PackSize(pack) == FoldLeft(LAMBDA size, line : size + LineSize(line), HeaderSize, pack)

\* A hit that is whole in the pack is not referred to as well.
Add(pack, line, budget, cap) ==
    IF /\ \A i \in DOMAIN pack : pack[i].card # line.card
       /\ Len(pack) < cap /\ PackSize(pack) + LineSize(line) <= budget
    THEN Append(pack, line) ELSE pack

Fill(start, hits, whole, budget, cap) ==
    FoldLeft(LAMBDA pack, c : Add(pack, Line(c, whole), budget, cap), start, hits)

PackContext(hits, budget, cap) ==
    Fill(Fill(<<>>, hits, TRUE, budget, cap), hits, FALSE, budget, cap)

Pack(budget, cap) ==
    /\ recall.phase = "pack"
    /\ LET pack == PackContext(recall.hits, budget, cap)
       IN  recall' = [recall EXCEPT
                        !.phase = IF pack = <<>> THEN "done" ELSE "packed",
                        !.reason = IF recall.hits = <<>> THEN "no hits"
                                   ELSE IF pack = <<>> THEN "budget too small" ELSE "none",
                        !.budget = budget, !.cap = cap, !.pack = pack]

RecallNext ==
    \/ \E f \in Floors : HardRecall(f)
    \/ recall.phase = "passes"
       /\ \E a \in Answers(IF recall.passes = <<>> THEN RecallLimit ELSE RecallLimit + MorePerPass) :
             Pass(a)
    \/ Fuse
    \/ \E b \in Budgets, k \in CardCaps : Pack(b, k)

----------------------------------------------------------------------------

\* A card that stands above another in every ranking that names the other is
\* never fused below it, and never cut while the other is kept.
FusionRespectsDominance ==
    recall.phase # "passes" =>
        \A d \in Range(recall.hits), c \in Card :
            /\ c # d
            /\ \A p \in Naming(d, recall.passes) :
                  /\ c \in Range(recall.passes[p])
                  /\ RankIn(recall.passes[p], c) < RankIn(recall.passes[p], d)
            => c \in Range(recall.hits) /\ RankIn(recall.hits, c) < RankIn(recall.hits, d)

\* A pack keeps to its size, names a hit once, and wastes no room: unless it has
\* all its cards, a hit that is not whole would not have fitted beside the whole
\* ones, and one that is left out would not even fit as a reference; the best hit
\* is whole if it fits at all, and the whole ones keep the order of the hits.
PackWastesNothing ==
    recall.phase = "packed" =>
        LET left     == recall.budget - PackSize(recall.pack)
            whole    == {i \in DOMAIN recall.pack : recall.pack[i].whole}
            packed   == {recall.pack[i].card : i \in DOMAIN recall.pack}
            kept     == {recall.pack[i].card : i \in whole}
        IN  /\ left >= 0
            /\ Cardinality(packed) = Len(recall.pack)
            /\ Len(recall.pack) < recall.cap =>
                  \A c \in Range(recall.hits) \ packed : ReferenceSize > left
            /\ HeaderSize + Size[recall.hits[1]] <= recall.budget => recall.hits[1] \in kept
            /\ Cardinality(kept) < recall.cap =>
                  \A c \in Range(recall.hits) \ kept :
                     PackSize([i \in whole |-> recall.pack[i]]) + Size[c] > recall.budget
            /\ \A i, j \in whole :
                  i < j => RankIn(recall.hits, recall.pack[i].card)
                             < RankIn(recall.hits, recall.pack[j].card)

=============================================================================
