-------------------------- MODULE ContextController --------------------------
(***************************************************************************)
(* `prepare_context` and `record_insertion`: a proposal is selected from   *)
(* the hits of one retrieval under a budget, recorded as a pack event of   *)
(* its trace, and hosts report what they inserted of it.                   *)
(***************************************************************************)
EXTENDS Ordering, SequencesExt

CONSTANTS
    Evidence,           \* memories a retrieval may bring
    Excerpt, Stub,      \* bytes of each one's preview, and of what stands for it
    Category,           \* bytes of each one's category name
    ProposalHeader,     \* bytes of the heading
    CharsPerToken,
    Ceilings,           \* max_tokens a request may set
    BlockCaps,          \* max_blocks a request may set
    Tasks,              \* what contexts are asked for
    Host,
    MaxPacks, MaxEvents     \* bounds on the pack events and on all events of the trace

ASSUME ContextAssumption ==
    /\ IsFiniteSet(Evidence) /\ BlockCaps \subseteq Nat
    /\ Excerpt \in [Evidence -> Nat] /\ Stub \in [Evidence -> Nat] /\ ProposalHeader \in Nat

VARIABLES
    proposal,   \* the prepare_context call
    trace,      \* the pack and inject events of one trace, in order
    acks        \* each host's record_insertion call

contextVars == <<proposal, trace, acks>>

NoProposal == [phase |-> "idle", task |-> 0, ceiling |-> 0, cap |-> 0, partial |-> FALSE,
               hits |-> <<>>, barred |-> {}, blocks |-> <<>>, used |-> ProposalHeader,
               dropped |-> [late |-> 0, budget |-> 0, cap |-> 0],
               reasons |-> [e \in {} |-> ""], status |-> "none"]

NoAck == [phase |-> "idle", proposal |-> <<>>, inserted |-> <<>>, began |-> 0]

ContextInit ==
    /\ proposal = NoProposal
    /\ trace = <<>>
    /\ acks = [h \in Host |-> NoAck]

----------------------------------------------------------------------------
(* Selection. *)

\* What the selection charges for a block beside its text, and what the
\* rendering writes: "- **memory:<uuid>** (v1, <category>)" and the text below.
LineAllowance == 64
LineOverhead(e) == 60 + Category[e]

Text(block) == IF block.whole THEN Excerpt[block.memory] ELSE Stub[block.memory]
Block(e, whole) == [memory |-> e, whole |-> whole]

Total(values) == FoldLeft(LAMBDA a, b : a + b, 0, values)

Rendered(blocks) ==
    ProposalHeader + Total([i \in DOMAIN blocks |-> LineOverhead(blocks[i].memory) + Text(blocks[i])])

RenderedTokens(blocks) == (Rendered(blocks) + CharsPerToken - 1) \div CharsPerToken

\* One eligible hit: the block cap is tested before the deadline, and a block
\* that does not fit whole is tried as a reference.
Take(s, e, late) ==
    LET fits(whole) == s.used + LineAllowance + Text(Block(e, whole)) <= s.ceiling * CharsPerToken
        with(whole) == [s EXCEPT !.blocks = Append(@, Block(e, whole)),
                                 !.used = @ + LineAllowance + Text(Block(e, whole))]
    IN  IF Len(s.blocks) >= s.cap THEN [s EXCEPT !.dropped.cap = @ + 1]
        ELSE IF late THEN [s EXCEPT !.dropped.late = @ + 1]
        ELSE IF fits(TRUE) THEN with(TRUE)
        ELSE IF fits(FALSE) THEN with(FALSE)
        ELSE [s EXCEPT !.dropped.budget = @ + 1]

Eligible(p) == Among(p.hits, {i \in DOMAIN p.hits : p.hits[i] \notin p.barred})

\* The hits that were dropped are only counted; their reasons are given out
\* afterwards, in the order of the hits.
Reasons(p) ==
    LET selected == {p.blocks[i].memory : i \in DOMAIN p.blocks}
        missed   == Among(p.hits, {i \in DOMAIN p.hits : p.hits[i] \notin p.barred \cup selected})
        nth(e)   == CHOOSE i \in DOMAIN missed : missed[i] = e
    IN  [e \in Range(p.hits) \ selected |->
            IF e \in p.barred THEN "barred"
            ELSE IF nth(e) <= p.dropped.late THEN "late"
            ELSE IF nth(e) <= p.dropped.late + p.dropped.budget THEN "budget"
            ELSE "cap"]

Status(p) ==
    IF p.hits = <<>> THEN IF p.partial THEN "partial" ELSE "empty"
    ELSE IF Eligible(p) = <<>> THEN "insufficient_evidence"
    ELSE IF p.blocks = <<>> THEN "budget_exhausted"
    ELSE IF p.partial \/ p.dropped.late + p.dropped.budget + p.dropped.cap > 0 THEN "partial"
    ELSE "ready"

Events(kind) == SelectSeq(trace, LAMBDA v : v.kind = kind)

\* One request up to the event it records: nothing it does before is seen by
\* another call.  Barred hits are in the caller's context already, or below its
\* score floor; a retrieval that fails leaves a partial proposal without hits; the
\* deadline passes before the hit number `late` is looked at, and when that is
\* before the first, it is noticed before the selection too.
PrepareContext(request, failed, hits, barred, late) ==
    /\ proposal.phase = "idle" /\ Len(Events("pack")) < MaxPacks /\ Len(trace) < MaxEvents
    /\ failed => hits = <<>>
    /\ LET asked    == [request EXCEPT !.phase = "emit", !.hits = hits, !.barred = barred,
                                       !.partial = failed \/ late = 0]
           eligible == Eligible(asked)
           picked   == FoldLeft(LAMBDA s, i : Take(s, eligible[i], i >= late),
                                asked, [i \in DOMAIN eligible |-> i])
       IN  proposal' = [picked EXCEPT !.reasons = Reasons(picked), !.status = Status(picked)]
    /\ UNCHANGED <<trace, acks>>

\* The identity of a proposal is a digest of its trace, task and blocks.
Identity(p) == <<p.task, [i \in DOMAIN p.blocks |-> p.blocks[i].memory]>>
PackEvent(p) == [kind |-> "pack", proposal |-> Identity(p),
                 blocks |-> [i \in DOMAIN p.blocks |-> p.blocks[i].memory]]

\* The pack event is what acknowledgments are checked against.
EmitPack ==
    /\ proposal.phase = "emit"
    /\ trace' = Append(trace, PackEvent(proposal))
    /\ proposal' = NoProposal
    /\ UNCHANGED acks

\* emit_trace = FALSE, or an append that fails.
EmitNothing ==
    /\ proposal.phase = "emit"
    /\ proposal' = NoProposal
    /\ UNCHANGED <<trace, acks>>

----------------------------------------------------------------------------
(* Acknowledgments. *)

\* Mutant: the first event of the kind.
FirstOfAny(kind, p) == IF Events(kind) = <<>> THEN {} ELSE {Head(Events(kind))}

\* The first event of the kind and the proposal, if there is one.
Recorded(i, kind, p) == trace[i].kind = kind /\ trace[i].proposal = p
IsFirst(i, kind, p) == Recorded(i, kind, p) /\ \A j \in 1 .. i - 1 : ~Recorded(j, kind, p)
FirstOf(kind, p) == {trace[i] : i \in {i \in DOMAIN trace : IsFirst(i, kind, p)}}

\* The trace is read once: the proposal must be recorded in it, the blocks must
\* be among its own, and an earlier acknowledgment is replayed or conflicts.
RecordInsertion(h, p, blocks) ==
    /\ acks[h].phase # "append"
    /\ LET ack   == [phase |-> "append", proposal |-> p, inserted |-> blocks, began |-> Len(trace)]
           known == \E pack \in FirstOf("pack", p) : Range(blocks) \subseteq Range(pack.blocks)
           prior == FirstOf("inject", p)
       IN  acks' = [acks EXCEPT ![h] =
             CASE known /\ prior = {} -> ack
               [] known /\ (\E v \in prior : v.blocks = blocks) -> [ack EXCEPT !.phase = "answered"]
               [] OTHER -> NoAck]
    /\ UNCHANGED <<proposal, trace>>

\* The event is appended in a later call to the store.
AppendInsertion(h) ==
    /\ acks[h].phase = "append" /\ Len(trace) < MaxEvents
    /\ trace' = Append(trace, [kind |-> "inject", proposal |-> acks[h].proposal,
                               blocks |-> acks[h].inserted])
    /\ \E answer \in {NoAck, [acks[h] EXCEPT !.phase = "answered"]} : acks' = [acks EXCEPT ![h] = answer]
    /\ UNCHANGED proposal

AppendFails(h) ==
    /\ acks[h].phase = "append"
    /\ acks' = [acks EXCEPT ![h] = NoAck]
    /\ UNCHANGED <<proposal, trace>>

Retrievals == {s \in UNION {[1 .. k -> Evidence] : k \in 0 .. Cardinality(Evidence)} :
                   IsInjective(s)}

Request(t, k, c) == [NoProposal EXCEPT !.task = t, !.ceiling = k, !.cap = c]
Requests == {Request(t, k, c) : t \in Tasks, k \in Ceilings, c \in BlockCaps}

\* An acknowledgment and a proposal meet only in the trace, so hosts act while no
\* proposal waits for its event: it is computed in one step, right before that.
ContextNext ==
    \/ proposal.phase = "idle" /\ Len(trace) < MaxEvents
       /\ \E request \in Requests, r \in Retrievals, failed \in BOOLEAN, late \in 0 .. Cardinality(Evidence) + 1 :
             \E barred \in SUBSET Range(r) : PrepareContext(request, failed, r, barred, late)
    \/ EmitPack \/ EmitNothing
    \/ \E h \in Host :
          /\ proposal.phase = "idle"
          /\ \/ \E p \in {trace[i].proposal : i \in DOMAIN trace} \cup {<<>>}, b \in Retrievals :
                    RecordInsertion(h, p, b)
             \/ AppendInsertion(h) \/ AppendFails(h)

----------------------------------------------------------------------------

\* A proposal accounts for every hit of its retrieval: it is selected once, or
\* it has a reason, as many have each reason as were dropped for it, and only a
\* proposal that dropped none for want of room or time is called ready.
ProposalAccountsForItsHits ==
    proposal.phase = "emit" =>
        LET selected == [i \in DOMAIN proposal.blocks |-> proposal.blocks[i].memory]
            number(reason) ==
                Cardinality({e \in DOMAIN proposal.reasons : proposal.reasons[e] = reason})
        IN  /\ IsInjective(selected) /\ Len(selected) <= proposal.cap
            /\ Range(selected) \cup DOMAIN proposal.reasons = Range(proposal.hits)
            /\ Range(selected) \cap DOMAIN proposal.reasons = {}
            /\ number("late") = proposal.dropped.late
            /\ number("budget") = proposal.dropped.budget
            /\ number("cap") = proposal.dropped.cap
            /\ proposal.status = "ready" => \A e \in DOMAIN proposal.reasons :
                                              proposal.reasons[e] = "barred"

\* A receipt names blocks the recorded proposal selected, and whoever asks after
\* an acknowledgment was recorded is answered with that one or refused.
AcksSettleOnTheFirst ==
    \A h \in Host : acks[h].phase = "answered" =>
        LET first(kind) == {i \in 1 .. acks[h].began : IsFirst(i, kind, acks[h].proposal)}
        IN  /\ \E i \in first("pack") : Range(acks[h].inserted) \subseteq Range(trace[i].blocks)
            /\ \A i \in first("inject") : acks[h].inserted = trace[i].blocks

\* What the code says of record_insertion: a second, different acknowledgment of
\* one proposal is rejected.
OneAcknowledgment ==
    \A i, j \in DOMAIN trace :
        trace[i].kind = "inject" /\ trace[j].kind = "inject" /\ trace[i].proposal = trace[j].proposal
            => trace[i].blocks = trace[j].blocks

\* What the code says of max_tokens: the ceiling of the rendered proposal.
RenderedFitsTheCeiling ==
    proposal.phase = "emit" /\ proposal.blocks # <<>> =>
        RenderedTokens(proposal.blocks) <= proposal.ceiling

=============================================================================
