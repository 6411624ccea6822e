---------------------------- MODULE ProductHttp ----------------------------
(***************************************************************************)
(* The product's HTTP routes (bins/vegapunk/src/http.rs): which fields of  *)
(* a body reach the library, what is refused before it is asked, and what  *)
(* the status of the answer tells.                                         *)
(***************************************************************************)
EXTENDS Handlers

\* A server started with a key serves whoever presents it; health is open.
HttpAuthorized(intent) == "bearer" \notin intent.bad

\* Mutant: the key is not among the fields, and nobody objects.
HttpRememberLoose == Takes({"category", "confidence", "source", "episodic"})

\* Only the body of remember is closed.
HttpRemember == TakesOnly({"key", "category", "confidence", "source", "episodic"})
HttpSupersede == Takes({"version"})
HttpApplyOps == Takes({"ops"})
HttpWrites ==
    [remember |-> HttpRemember, supersede |-> HttpSupersede, apply_ops |-> HttpApplyOps]

HttpRecall == Takes({"limit", "category"} \cup Lenses)
HttpHardRecall == Takes({"pack", "min_score", "category"} \cup Lenses)
HttpReads == [recall |-> HttpRecall, read |-> Takes({}), hard_recall |-> HttpHardRecall]

\* A sleep over HTTP proposes; it never applies.
HttpUpkeep == [checkpoint |-> Takes({"force"}), sleep |-> Refusing(Takes({}), {"apply"})]

\* The bodies written for a route are closed, the library's own requests open.
HttpClosed ==
    {"get_entity", "stage", "activate", "get_job", "renew_job", "checkpoint_job",
     "complete_job", "fail_job", "cancel_job", "supersede_job"}
HttpBodies(fields) ==
    [op \in DOMAIN fields |-> IF op \in HttpClosed THEN TakesOnly(fields[op]) ELSE Takes(fields[op])]

HttpRecords == HttpBodies(RecordFields)
HttpGenerations == HttpBodies(GenerationFields)
HttpJobs == HttpBodies(JobFields)

\* The controller's requests are the library's, taken as they are; the handle
\* of the process stamps its own correlation on an outcome.
HttpController ==
    [prepare_context |-> Takes({"entities", "inventory", "budget", "effort", "min_score",
                                "degradation", "policy", "request_id"} \cup Lenses),
     record_insertion |-> Takes(Correlation)]
HttpOutcome == TakesOnly({"evaluator", "note"})

\* One route for both: the version expected is overlooked without a body.
HttpState == [put_state |-> TakesOnly({"version"}), get_state |-> TakesOnly({"version"})]

HttpHandlers ==
    Merged({HttpWrites, HttpReads, HttpUpkeep, HttpRecords, HttpGenerations, HttpJobs,
            HttpController, [trace_outcome |-> HttpOutcome], HttpState})

\* The status of a code.  A code it does not name is the server's fault.
HttpStatus(code) ==
    CASE code \in {"invalid_request", "policy_rejected", "dimension_mismatch"} -> 400
      [] code \in {"conflict", "idempotency_conflict", "idempotency_unavailable",
                   "lease_lost", "stale_input"} -> 409
      [] code = "not_found" -> 404
      [] code = "scope_denied" -> 403
      [] code = "payload_too_large" -> 413
      [] code \in {"provider_unavailable", "store_error", "incompatible_store"} -> 503
      [] code = "invalid_provider_response" -> 502
      [] code = "deadline_exceeded" -> 504
      [] OTHER -> 500

\* Mutant: a report is as good as its first operation.
HttpFirstStatus(codes) ==
    IF codes = <<>> \/ codes[1] = "ok" THEN 200 ELSE HttpStatus(codes[1])

\* A report is answered whole, under the status of the first operation that was
\* attempted and failed.
HttpReportStatus(codes) ==
    LET failed == SelectSeq(codes, LAMBDA code : code \notin {"ok", "not_attempted"})
    IN  IF \A i \in DOMAIN codes : codes[i] = "ok" THEN 200
        ELSE IF failed = <<>> THEN 500 ELSE HttpStatus(failed[1])
=============================================================================
