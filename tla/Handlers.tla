------------------------------ MODULE Handlers ------------------------------
(***************************************************************************)
(* What the adapters have in common.  A host asks for an operation and     *)
(* sets some of its optional fields; the handler of the operation passes   *)
(* on the fields it knows and either refuses or ignores the others.  The   *)
(* fields an operation cannot do without are left out, except the version  *)
(* or fence that guards it.                                                *)
(***************************************************************************)
EXTENDS Naturals, FiniteSets, Sequences

\* The tables of an adapter as one: no two of them have an operation in common.
Merged(tables) ==
    [op \in UNION {DOMAIN t : t \in tables} |-> (CHOOSE t \in tables : op \in DOMAIN t)[op]]

\* Unknown fields are ignored.
Takes(fields) == [takes |-> fields, strict |-> FALSE, refuses |-> {}, ignores |-> {}]

\* Unknown fields are refused (deny_unknown_fields; the flags of a command).
TakesOnly(fields) == [takes |-> fields, strict |-> TRUE, refuses |-> {}, ignores |-> {}]

\* A field the handler knows and does not serve, and one it knows and leaves out.
Refusing(handler, fields) == [handler EXCEPT !.refuses = fields]
Ignoring(handler, fields) == [handler EXCEPT !.ignores = fields \ handler.takes]

\* An intent: op, the fields given, and those of them that cannot be read.
Readable(handler, intent) ==
    /\ handler.strict =>
         intent.given \subseteq handler.takes \cup handler.refuses \cup handler.ignores
    /\ intent.given \cap handler.refuses = {}
    /\ intent.bad \cap handler.takes = {}

Passed(handler, intent) == intent.given \cap handler.takes

\* The three instants of a read (apply_lenses and its inline copies).
Lenses == {"as_of", "known_as_of", "sys_as_of"}

\* session_id and turn_id of a call, over those of the process.
Correlation == {"session_id", "turn_id"}

\* The operations whose requests every adapter hands to the client as they
\* came, in the client's own request types.
EntityFields ==
    [put_entity |-> {"aliases", "attrs"}, get_entity |-> {},
     update_entity |-> {"version", "name", "aliases", "attrs"}]

RelationshipFields ==
    [put_relationship |-> {"subject_rev", "object_rev", "epistemic", "evidence",
                           "valid_from", "valid_until", "producer", "dedupe"},
     update_relationship |-> {"version", "epistemic", "state", "reason", "evidence",
                              "valid_until"}]

GraphFields ==
    [list_relationships |-> {"endpoint", "predicate", "state", "limit"},
     traverse |-> {"predicates", "direction", "states", "budget"}]

RecordFields == Merged({EntityFields, RelationshipFields, GraphFields})

GenerationFields ==
    [embedding_state |-> {}, attest |-> {"limitation"}, declare |-> {"note"},
     stage |-> {}, activate |-> {}]

JobFields ==
    [enqueue_job |-> {"inputs", "composition", "payload", "budget", "dedup_hint"},
     get_job |-> {}, list_jobs |-> {"kind", "state", "limit"}, claim_job |-> {},
     renew_job |-> {"version"}, checkpoint_job |-> {"version"},
     complete_job |-> {"version"}, fail_job |-> {"version", "retryable"},
     cancel_job |-> {"reason"}, supersede_job |-> {"reason"}]

\* The plane's own requests, for the adapters that take them as they come.  A
\* put is closed wherever it stands; so is a forget.
PutFields ==
    {"valid_from", "valid_until", "known_at", "confidence", "entity_links", "embedding",
     "embedding_identity", "key", "extractor_version", "model_version", "valid_rev_from",
     "valid_rev_until"}
PlaneWriteFields ==
    [put |-> PutFields, supersede |-> {"version", "close_at"} \cup PutFields,
     forget |-> {"version", "hard", "at"}]
SearchFields ==
    {"scope_match", "category", "limit", "embedding", "graph_enrich", "graph_expand"} \cup Lenses
ReadFields == {"scope_match"} \cup Lenses
ListFields == {"scope_match", "category", "text", "limit", "cursor"} \cup Lenses
CountFields == {"scope_match", "category", "text"} \cup Lenses

Verbatim(fields) == [op \in DOMAIN fields |-> Takes(fields[op])]

\* The classes of an error code.  A caller may not tell what became of a call
\* that failed; it may rely on a refusal to have changed nothing.
Refusals == {"invalid_request", "policy_rejected", "dimension_mismatch", "conflict",
             "idempotency_conflict", "idempotency_unavailable", "lease_lost",
             "stale_input", "not_found", "scope_denied", "payload_too_large"}
Failures == {"provider_unavailable", "store_error", "incompatible_store",
             "invalid_provider_response", "deadline_exceeded", "cancelled", "internal_error"}
=============================================================================
