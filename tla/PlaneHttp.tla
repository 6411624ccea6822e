----------------------------- MODULE PlaneHttp -----------------------------
(***************************************************************************)
(* The plane's HTTP routes (crates/nomiso-http/src/lib.rs): the client's   *)
(* requests as JSON bodies, and a status for each error.                   *)
(***************************************************************************)
EXTENDS Handlers

\* As the product's: with a key every route but health asks for it.
PlaneAuthorized(intent) == "bearer" \notin intent.bad

PlaneHttpWrites ==
    [put |-> TakesOnly(PlaneWriteFields["put"]),
     supersede |-> Takes(PlaneWriteFields["supersede"]),
     forget |-> TakesOnly(PlaneWriteFields["forget"])]

\* The write and its job intents, in one closed body.
PlaneHttpJobWrites ==
    [put_with_jobs |-> TakesOnly(PlaneWriteFields["put"] \cup {"jobs"}),
     supersede_with_jobs |-> TakesOnly(PlaneWriteFields["supersede"] \cup {"jobs"})]

PlaneHttpReads ==
    [search |-> Takes(SearchFields), search_detailed |-> Takes(SearchFields),
     plane_read |-> Takes(ReadFields)]

\* The client's own requests are open, the bodies written for a route closed.
PlaneHttpClosed ==
    {"get_entity", "stage", "activate", "get_job", "renew_job", "checkpoint_job",
     "complete_job", "fail_job", "cancel_job", "supersede_job"}
PlaneHttpBodies(fields) ==
    [op \in DOMAIN fields |->
        IF op \in PlaneHttpClosed THEN TakesOnly(fields[op]) ELSE Takes(fields[op])]

PlaneHttpRecords == PlaneHttpBodies(RecordFields)
PlaneHttpGenerations == PlaneHttpBodies(GenerationFields)
PlaneHttpJobs == PlaneHttpBodies(JobFields)

\* No provider is a status too (null), not an error.
PlaneHttpProvider == [provider_status |-> Takes({})]

PlaneHttpHandlers ==
    Merged({PlaneHttpWrites, PlaneHttpJobWrites, PlaneHttpReads, PlaneHttpRecords,
            PlaneHttpGenerations, PlaneHttpProvider, PlaneHttpJobs})

\* Every error has its status; a cancelled call is the caller's doing.
PlaneStatus(code) ==
    CASE code = "ok" -> 200
      [] code \in {"invalid_request", "dimension_mismatch"} -> 400
      [] code \in {"conflict", "idempotency_conflict", "idempotency_unavailable",
                   "lease_lost", "stale_input"} -> 409
      [] code = "not_found" -> 404
      [] code = "scope_denied" -> 403
      [] code = "payload_too_large" -> 413
      [] code \in {"provider_unavailable", "store_error", "incompatible_store"} -> 503
      [] code = "invalid_provider_response" -> 502
      [] code = "deadline_exceeded" -> 504
      [] code = "cancelled" -> 408
      [] OTHER -> 500
=============================================================================
