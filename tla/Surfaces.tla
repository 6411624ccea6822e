------------------------------ MODULE Surfaces ------------------------------
(***************************************************************************)
(* Hosts at the adapters.  A host wants an operation done and asks for it  *)
(* over any surface that serves it; the call is decoded, looked up by its  *)
(* key, embedded, stored, traced and answered in steps between which other *)
(* calls run, the provider or the store fails, or the handler is dropped   *)
(* with its connection or its process; and the host that has no answer may *)
(* ask again, over another surface, while the first call still runs.       *)
(*                                                                         *)
(* All surfaces are given one store, one profile and one provider: what a  *)
(* key is claimed for includes the category a profile infers and the       *)
(* identity of the provider.  What a record is, and the races inside the   *)
(* store, are the subject of the modules of the planes.                    *)
(***************************************************************************)
EXTENDS ProductHttp, ProductMcp, ProductCli, ProductSdk, PlaneHttp, PlaneMcp, HttpEmbedder

CONSTANTS
  Plans,     \* what the hosts want: an intent each
  Replies    \* what the provider may answer

ASSUME SurfacesAssumption ==
  /\ \A p \in Plans : \A t \in DOMAIN p : p[t].parts \in Nat
  /\ \A reply \in Replies : reply.ended \in Ended

VARIABLES
  plan,      \* the intent of each host
  saw,       \* the version of the object each host had read when it first asked
  call,      \* the calls made, in the order they were sent
  rows,      \* what the calls stored
  gone,      \* the rows whose identity is free or cannot be answered any more
  version    \* of the one object that guarded calls are about, 0 if it is not there

vars == <<plan, saw, call, rows, gone, version>>

Surface == {"sdk", "http", "mcp", "cli", "plane_http", "plane_mcp"}

\* The operations a surface serves, and what each takes.
SdkHandlers == SdkMethods(HttpHandlers)

Served(s) ==
    CASE s = "sdk" -> SdkHandlers
      [] s = "http" -> HttpHandlers
      [] s = "mcp" -> McpHandlers
      [] s = "cli" -> CliHandlers
      [] s = "plane_http" -> PlaneHttpHandlers
      [] s = "plane_mcp" -> PlaneMcpHandlers

TextWrites == {"remember", "put", "put_with_jobs"}
Revisions == {"supersede", "supersede_with_jobs"}
Queries == {"search", "search_detailed", "recall", "hard_recall", "candidates"}
Updates == {"update_entity", "update_relationship"}
States == {"put_state", "put_task_state"}
Leased == {"renew_job", "checkpoint_job", "complete_job", "fail_job"}
Batches == {"apply_ops", "write_episode", "ingest_compaction"}
Settling == {"put_relationship", "enqueue_job", "put_artifact", "store_artifact"}
Looks ==
    Queries \cup {"read", "plane_read", "list", "count", "plane_list", "plane_count",
     "history", "belief_events", "list_traces", "traces_by_memory", "get_trace",
     "prepare_context", "get_state", "get_task_state", "get_entity", "list_relationships",
     "traverse", "embedding_state", "provider_status", "get_job", "list_jobs"}

\* The calls that leave another version of the object, or end its lease, and
\* those that cannot be asked for without naming the version.
Moving == Revisions \cup Updates \cup States \cup {"forget", "complete_job", "fail_job"}
Versioned == Revisions \cup Updates \cup Leased

\* An intent also says how often its host will ask, and how many operations a
\* batch holds.
Intent(c) == plan[call[c].by]
Verb(c) == Intent(c).op

\* The fields that reach the client.
Form(c) ==
    LET given == Passed(Served(call[c].surface)[Verb(c)], Intent(c))
    IN  IF call[c].surface = "sdk" THEN given \cap HttpHandlers[Verb(c)].takes ELSE given

Keyed(c) == Verb(c) \in TextWrites /\ "key" \in Form(c)

Sleeps(c) == Verb(c) = "sleep" /\ {"apply", "apply_age_out", "older_than"} \subseteq Form(c)
Parts(c) == IF Verb(c) \in Batches \/ Sleeps(c) THEN Intent(c).parts ELSE 1

Init ==
    /\ plan \in Plans
    /\ \/ version = 1
       \/ version = 0 /\ \A t \in DOMAIN plan : plan[t].op \in States
    /\ saw = [t \in DOMAIN plan |-> 0]
    /\ call = <<>> /\ rows = {} /\ gone = {}

\* late: what the call is for was stored already.
NewCall(t, s) ==
    [by |-> t, surface |-> s, sent |-> 1, stage |-> "sent", codes |-> <<>>, names |-> <<>>,
     events |-> 0, traced |-> FALSE, told |-> "none", abandoned |-> FALSE,
     late |-> \E r \in rows : call[r.call].by = t]

Of(t) == {c \in DOMAIN call : call[c].by = t}

\* No answer, or one that does not say whether anything was done.
Unanswered(c) ==
    \/ call[c].abandoned
    \/ /\ call[c].stage = "over" /\ call[c].told # "success"
       /\ \A k \in DOMAIN call[c].codes : call[c].codes[k] \notin Refusals

Send(t, s) ==
    /\ plan[t].op \in DOMAIN Served(s)
    /\ Cardinality(Of(t)) < plan[t].tries
    /\ \A c \in Of(t) : Unanswered(c)
    /\ saw' = IF Of(t) = {} THEN [saw EXCEPT ![t] = version] ELSE saw
    /\ call' = Append(call, NewCall(t, s))
    /\ UNCHANGED <<plan, rows, gone, version>>

Advance(c, changes) ==
    call' = [call EXCEPT ![c] =
              [f \in DOMAIN call[c] |-> IF f \in DOMAIN changes THEN changes[f] ELSE call[c][f]]]
Stay == UNCHANGED <<plan, saw, rows, gone, version>>

\* The connection cannot be made.
Unsent(c) ==
    /\ call[c].surface = "sdk" /\ call[c].stage = "sent"
    /\ Readable(Served("sdk")[Verb(c)], Intent(c))
    /\ Advance(c, IF SdkSendsAgain(Intent(c), call[c].sent)
                  THEN [sent |-> call[c].sent + 1]
                  ELSE [stage |-> "over", told |-> "unreachable"])
    /\ Stay

\* What an adapter, and then the client, turns away before anything is done.
Authorized(c) ==
    /\ call[c].surface \in {"sdk", "http"} => HttpAuthorized(Intent(c))
    /\ call[c].surface = "plane_http" => PlaneAuthorized(Intent(c))

Resolved(c) == call[c].surface = "cli" => "config" \notin Intent(c).bad

\* What the client checks of a text, of a revision and of a query, whose content
\* may be unacceptable; and what the store checks of a guard.
ValidWrite(c) ==
    /\ Verb(c) \in TextWrites \cup Revisions => "content" \notin Intent(c).bad
    /\ Verb(c) \in Revisions => "key" \notin Form(c)

ValidQuery(c) == Verb(c) \in Queries => "content" \notin Intent(c).bad

WellFormed(c) ==
    /\ ValidWrite(c) /\ ValidQuery(c)
    /\ Verb(c) \in Versioned => "version" \in Form(c)
    /\ ~({"version", "create_only"} \subseteq Form(c))

Admitted(c) ==
    /\ Authorized(c) /\ Resolved(c) /\ WellFormed(c)
    /\ Readable(Served(call[c].surface)[Verb(c)], Intent(c))
    /\ call[c].surface = "sdk" =>
         Readable(HttpHandlers[Verb(c)], [Intent(c) EXCEPT !.given = Form(c)])

Decode(c) ==
    /\ call[c].stage = "sent"
    /\ Advance(c,
         IF ~Admitted(c) THEN [stage |-> "answering", codes |-> <<"invalid_request">>,
                               names |-> <<0>>]
         ELSE [stage |->
           IF Keyed(c) THEN "lookup"
           ELSE IF Verb(c) \in TextWrites \cup Revisions \cup Queries THEN "embedding"
           ELSE IF Parts(c) = 0 THEN (IF Verb(c) = "write_episode" THEN "answering" ELSE "tracing")
           ELSE "storing"])
    /\ Stay

\* The row a call would repeat: the one its key names, for ever, or the one
\* that settles the same content, until it is gone.
Repeated(c) ==
    {r \in rows :
        \/ Keyed(c) /\ Keyed(r.call)
        \/ Verb(c) \in Settling /\ call[r.call].by = call[c].by /\ r \notin gone}

\* One request: a host's, and the same fields of it.  An edge asked for as a new
\* one is never the one that is there.
Same(c, r) ==
    /\ call[r.call].by = call[c].by
    /\ Keyed(c) => Form(r.call) = Form(c)
    /\ Verb(c) = "put_relationship" => "dedupe" \notin Form(c)

\* A receipt of a memory that was erased is not answered from.
Known(c) ==
    LET r == CHOOSE r \in Repeated(c) : TRUE
    IN  IF ~Same(c, r) THEN [code |-> "idempotency_conflict", name |-> 0]
        ELSE IF r \in gone THEN [code |-> "idempotency_unavailable", name |-> 0]
        ELSE [code |-> "ok", name |-> r.call]

\* What a repeat checks again before it is answered: the inputs of a job, the
\* ends and the evidence of a relationship.
Rechecks(c) ==
    \/ Verb(c) \in {"enqueue_job", "put_relationship"}
    \/ Verb(c) = "put_with_jobs" /\ "jobs" \in Form(c)

\* lookup_put_receipt, before the provider is asked for anything.  Jobs that go
\* with the text are enqueued once more.
Lookup(c) ==
    /\ call[c].stage = "lookup"
    /\ \/ Repeated(c) = {} /\ Advance(c, [stage |-> "embedding"])
       \/ \E code \in {"store_error"}
            \cup (IF Repeated(c) = {} THEN {} ELSE {Known(c).code})
            \cup (IF Repeated(c) # {} /\ Rechecks(c) THEN {"invalid_request"} ELSE {}) :
            Advance(c, [stage |-> "answering", codes |-> <<code>>,
                        names |-> <<IF code = "ok" THEN Known(c).name ELSE 0>>])
    /\ Stay

\* What was valid when it was first asked for may not be by now: an interval
\* that ends before the time it begins at by default.
Expires(c) ==
    /\ call[c].stage = "embedding" /\ Verb(c) \in TextWrites
    /\ "valid_until" \in Form(c) /\ "valid_from" \notin Form(c)
    /\ Advance(c, [stage |-> "answering", codes |-> <<"invalid_request">>, names |-> <<0>>])
    /\ Stay

\* embed_one, unless the vector was given; without a provider it is left out.
Embed(c) ==
    /\ call[c].stage = "embedding"
    /\ \E reply \in Replies :
         LET code == IF "embedding" \in Form(c) THEN "ok" ELSE EmbedOne(reply).code IN
         Advance(c, IF code = "ok" THEN [stage |-> "storing"]
                    ELSE [stage |-> "answering", codes |-> <<code>>, names |-> <<0>>])
    /\ Stay

\* An operation ends: the next one of a batch, or the rest of it untried.
Traces(c) ==
    \/ Verb(c) \in {"apply_ops", "ingest_compaction"}
    \/ Verb(c) = "hard_recall" /\ "pack" \in Form(c) /\ call[c].codes = <<>>

Settle(c, code, name) ==
    LET done == Len(call[c].codes) + 1
        rest == Parts(c) - done
        over == code # "ok" \/ rest = 0
    IN  Advance(c,
          [codes |-> call[c].codes \o <<code>>
                     \o [k \in 1 .. (IF code = "ok" THEN 0 ELSE rest) |-> "not_attempted"],
           names |-> call[c].names \o <<name>>
                     \o [k \in 1 .. (IF code = "ok" THEN 0 ELSE rest) |-> 0],
           stage |->
             IF ~over THEN "storing"
             ELSE IF Traces(c) /\ (Verb(c) = "hard_recall" => code = "ok") THEN "tracing"
             ELSE "answering"])

\* What guards a call, of what reached the client: the version, the fence of a
\* lease, or that nothing is there yet.  Without either the plane writes over
\* whatever is there; the product never does (put_working_state).
CreateOnly(c) ==
    \/ "create_only" \in Form(c)
    \/ Verb(c) = "put_state" /\ "version" \notin Form(c)

Guarded(c) == Verb(c) \in Versioned \cup States \cup {"forget"}

Fresh(c) ==
    Guarded(c) =>
        /\ "version" \in Form(c) => version # 0 /\ version = saw[call[c].by]
        /\ CreateOnly(c) => version = 0

\* An edge may have been changed since it was stored, and then another request
\* is in its way; or be closed before it is read again.
StoreAnswers(c) ==
    /\ Repeated(c) # {}
    /\ \/ Settle(c, Known(c).code, Known(c).name)
       \/ Verb(c) = "put_relationship" /\ Settle(c, "idempotency_conflict", 0)
    /\ Stay

StoreRefuses(c) ==
    /\ \/ Settle(c, "store_error", 0)
       \/ Repeated(c) = {} /\ Settle(c, "policy_rejected", 0)
       \/ /\ Repeated(c) # {} /\ Rechecks(c)
          /\ Settle(c, IF Verb(c) = "put_relationship" THEN "not_found" ELSE "invalid_request", 0)
       \/ /\ Repeated(c) = {} /\ ~Fresh(c)
          /\ Settle(c, IF Verb(c) \in Leased THEN "lease_lost" ELSE "conflict", 0)
    /\ Stay

StoreReads(c) == Verb(c) \in Looks /\ Settle(c, "ok", 0) /\ Stay

\* A checkpoint that is not forced may be found not worth keeping, and one of
\* nothing is never kept; a sleep that does not apply keeps nothing.
Worthless(c) == "force" \notin Form(c) \/ "content" \in Intent(c).bad

StoreSkips(c) ==
    /\ \/ Verb(c) = "checkpoint" /\ Worthless(c)
       \/ Verb(c) = "sleep" /\ ~Sleeps(c)
    /\ Settle(c, "ok", 0) /\ Stay

\* The commit, whose acknowledgment may be lost on its way to the client.  The
\* receipt of a keyed write is read once more, and by then it may be erased.
Row(c) == [call |-> c, part |-> Len(call[c].codes) + 1, over |-> version]

StoreCommits(c) ==
    /\ Verb(c) \notin Looks /\ (Verb(c) = "sleep" => Sleeps(c))
    /\ Verb(c) = "checkpoint" => "content" \notin Intent(c).bad
    /\ Repeated(c) = {} /\ Fresh(c)
    /\ \/ Settle(c, "ok", c) /\ gone' = gone
       \/ Settle(c, "store_error", 0) /\ gone' = gone
       \/ /\ Keyed(c) /\ Settle(c, "idempotency_unavailable", 0)
          /\ gone' = gone \cup {Row(c)}
    /\ rows' = rows \cup {Row(c)}
    /\ version' = IF Verb(c) \in Moving THEN version + 1 ELSE version
    /\ UNCHANGED <<plan, saw>>

Store(c) ==
    /\ call[c].stage = "storing"
    /\ StoreAnswers(c) \/ StoreRefuses(c) \/ StoreReads(c) \/ StoreSkips(c) \/ StoreCommits(c)

\* Best effort: search and pack of a recall, one event for the writes of a
\* batch; a trace that is not whole is not named, and fails nothing.
Needed(c) == IF Verb(c) = "hard_recall" THEN 2 ELSE 1

Succeeded(c) == \A k \in DOMAIN call[c].codes : call[c].codes[k] = "ok"

\* ingest_compaction checkpoints a summary once every operation succeeded, and
\* there was one.
Closes(c) ==
    /\ Verb(c) = "ingest_compaction" /\ "summary" \in Form(c)
    /\ call[c].codes # <<>> /\ Succeeded(c)

Trace(c) ==
    /\ call[c].stage = "tracing"
    /\ LET after == IF Closes(c) THEN "closing" ELSE "answering"
           whole == call[c].events + 1 = Needed(c)
       IN  \/ Advance(c, [events |-> call[c].events + 1, traced |-> whole,
                          stage |-> IF whole THEN after ELSE "tracing"])
           \/ Advance(c, [stage |-> after])
    /\ Stay

Close(c) ==
    /\ call[c].stage = "closing"
    /\ \E landed \in BOOLEAN, code \in {"ok", "store_error"} :
         /\ Advance(c, [stage |-> "answering", codes |-> Append(call[c].codes, code),
                        names |-> Append(call[c].names, IF landed /\ code = "ok" THEN c ELSE 0)])
         /\ rows' = IF landed THEN rows \cup {Row(c)} ELSE rows
    /\ UNCHANGED <<plan, saw, gone, version>>

\* What the host makes of the answer before it reads it.
Signal(c) ==
    LET s == call[c].surface  codes == call[c].codes IN
    CASE s \in {"sdk", "http"} -> HttpReportStatus(codes) = 200
      [] s = "mcp" -> ~McpIsError(codes)
      [] s = "cli" -> CliExit(Resolved(c), codes) = 0
      [] s = "plane_http" -> \A k \in DOMAIN codes : PlaneStatus(codes[k]) = 200
      [] s = "plane_mcp" -> ~PlaneMcpIsError(codes)

Reply(c) ==
    /\ call[c].stage = "answering"
    /\ Advance(c, [stage |-> "over", told |-> IF Signal(c) THEN "success" ELSE "failure"])
    /\ Stay

\* The host no longer waits, or its connection is gone: the handler goes on, or
\* is dropped where it awaits and never takes another step; so it is when the
\* process of a tool or of a command ends.
GiveUp(c) ==
    /\ call[c].stage # "over" /\ ~call[c].abandoned
    /\ Cardinality(Of(call[c].by)) < Intent(c).tries
    /\ Advance(c, [abandoned |-> TRUE]) /\ Stay

\* Meanwhile a worker or an operator ends a job, an edge is closed, a keyed text
\* is erased.  Artifacts stay.
Departs(r) ==
    /\ r \notin gone
    /\ Keyed(r.call) \/ Verb(r.call) \in {"enqueue_job", "put_relationship"}
    /\ gone' = gone \cup {r}
    /\ UNCHANGED <<plan, saw, call, rows, version>>

Next ==
    \/ \E t \in DOMAIN plan, s \in Surface : Send(t, s)
    \/ \E c \in DOMAIN call :
         \/ Unsent(c) \/ Decode(c) \/ Lookup(c) \/ Expires(c) \/ Embed(c) \/ Store(c)
         \/ Trace(c) \/ Close(c) \/ Reply(c) \/ GiveUp(c)
    \/ \E r \in rows : Departs(r)

Spec == Init /\ [][Next]_vars
-----------------------------------------------------------------------------
\* A request is sent at most twice, the answer has a code and a name for every
\* part that was reached, and a trace no more events than it needs.
TypeOK ==
    /\ plan \in Plans /\ DOMAIN saw = DOMAIN plan /\ version \in Nat
    /\ \A t \in DOMAIN saw : saw[t] \in 0 .. version
    /\ \A c \in DOMAIN call :
         /\ call[c].by \in DOMAIN plan /\ call[c].surface \in Surface /\ call[c].sent \in 1 .. 2
         /\ call[c].stage \in {"sent", "lookup", "embedding", "storing", "tracing", "closing",
                               "answering", "over"}
         /\ call[c].told \in {"none", "success", "failure", "unreachable"}
         /\ DOMAIN call[c].names = DOMAIN call[c].codes
         /\ \A k \in DOMAIN call[c].codes :
              /\ call[c].codes[k] \in Refusals \cup Failures \cup {"ok", "not_attempted"}
              /\ call[c].names[k] \in 0 .. Len(call)
         /\ call[c].events \in 0 .. Needed(c) /\ call[c].traced \in BOOLEAN
         /\ call[c].abandoned \in BOOLEAN /\ call[c].late \in BOOLEAN
    /\ \A r \in rows : /\ r.call \in DOMAIN call /\ r.part \in DOMAIN call[r.call].codes
                     /\ r.over \in 0 .. version
    /\ gone \subseteq rows

\* What a host may ask for again: a keyed text, a settling write, a guarded move.
Repeatable(t) ==
    \/ plan[t].op \in TextWrites /\ "key" \in plan[t].given
    \/ plan[t].op \in Settling /\ "dedupe" \notin plan[t].given
    \/ plan[t].op \in Moving /\ "version" \in plan[t].given

Codes(c) == {call[c].codes[k] : k \in DOMAIN call[c].codes}
Names(c) == {call[c].names[k] : k \in DOMAIN call[c].names}

\* OPS-001: asking again is safe where the host was told it is.  What is keyed
\* or guarded by a version lands once, and what is settled by its content is
\* there at most once at any time, however often it is asked for and over
\* whichever surfaces.  Two answers of success name one row, unless the job or
\* the edge that one of them names is over; a key is only in the way of another
\* request, and only an erased text is unavailable.  Once it was stored a keyed
\* request is never decided by the provider or the time: it succeeds, its text
\* was erased, its jobs are refused, or the store fails.
RepeatsAreOneWrite ==
    \A t \in DOMAIN plan : Repeatable(t) =>
        /\ \A q, r \in rows :
             call[q.call].by = t /\ call[r.call].by = t /\ q.part = r.part =>
               q = r \/ (plan[t].op \in Settling /\ {q, r} \cap gone # {})
        /\ \A c, d \in Of(t) :
             call[c].told = "success" /\ call[d].told = "success" =>
               \/ call[c].names = call[d].names
               \/ /\ plan[t].op \in Settling
                  /\ \E r \in gone : r.call \in Names(c) \cup Names(d)
        /\ \A c \in Of(t) :
             /\ "idempotency_conflict" \in Codes(c) /\ plan[t].op # "put_relationship" =>
                  \E r \in rows : call[r.call].by # t
             /\ "idempotency_unavailable" \in Codes(c) => \E r \in gone : call[r.call].by = t
             /\ call[c].late /\ Keyed(c) /\ Admitted(c) =>
                  Codes(c) \subseteq {"ok", "idempotency_unavailable", "store_error"}
                    \cup (IF Rechecks(c) THEN {"invalid_request"} ELSE {})

\* What a host asked to be guarded is guarded whatever surface it asked over:
\* no write over a version the host had not read, no first write over another.
GuardsHold ==
    \A r \in rows :
        LET intent == plan[call[r.call].by] IN
        /\ "version" \in intent.given /\ intent.op \in Versioned \cup States \cup {"forget"} =>
             r.over = saw[call[r.call].by]
        /\ \/ intent.op = "put_task_state" /\ "create_only" \in intent.given
           \/ intent.op = "put_state" /\ "version" \notin intent.given
           => r.over = 0

\* The lenses a read can be asked under over some surface.
Offered(op) ==
    Lenses \cap UNION {Served(s)[op].takes : s \in {s \in Surface : op \in DOMAIN Served(s)}}

\* API-001/API-006: the status of an answer, the error flag of a tool and the
\* exit of a command say success exactly when every part succeeded; what is
\* reported stored was stored, what is refused or untried left nothing that is
\* still there, a trace that is named is whole, and a read that succeeded was read as asked.
AnswersAreTrue ==
    \A c \in DOMAIN call :
        LET stored(k) == {r \in rows : r.call = call[c].names[k] /\ r.part = k}
            left(k) == {r \in rows \ gone : r.call = c /\ r.part = k}
        IN
        /\ call[c].told = "success" =>
             /\ Succeeded(c)
             /\ Verb(c) \in Looks => Intent(c).given \cap Offered(Verb(c)) \subseteq Form(c)
             /\ Verb(c) = "checkpoint" /\ "force" \in Intent(c).given
                  /\ "content" \notin Intent(c).bad => stored(1) # {}
        /\ call[c].told = "failure" => ~Succeeded(c)
        /\ call[c].traced => call[c].events = Needed(c)
        /\ \A k \in DOMAIN call[c].codes :
             /\ call[c].codes[k] = "ok" /\ call[c].names[k] # 0 => stored(k) # {}
             /\ call[c].codes[k] \in Refusals \cup {"not_attempted"} => left(k) = {}
=============================================================================
