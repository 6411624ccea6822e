----------------------------- MODULE ProductCli -----------------------------
(***************************************************************************)
(* The product's commands (bins/vegapunk/src/main.rs): a process each,     *)
(* which connects, makes its call, prints what it got and exits.  A flag   *)
(* no command has is refused before the process does anything.             *)
(***************************************************************************)
EXTENDS Handlers

\* The flags of the commands.  Those of correlation are global: a command that
\* stamps or filters nothing with them is given them all the same.
Commands(flags) == [op \in DOMAIN flags |-> Ignoring(TakesOnly(flags[op]), Correlation)]

CliCallFlags ==
    [remember |-> {"key", "category", "episodic"},
     recall |-> {"limit", "category"} \cup Lenses,
     checkpoint |-> {"force"},
     sleep |-> {"apply", "apply_age_out", "older_than"},
     supersede |-> {"version"}]

CliSearchFlags ==
    [hard_recall |->
        {"pack", "min_score", "category", "expand_graph"} \cup Lenses \cup Correlation,
     apply_ops |-> {"ops"} \cup Correlation,
     list |-> {"text", "limit", "cursor", "category"} \cup Lenses,
     count |-> {"text", "category"} \cup Lenses,
     list_traces |-> {"since", "until", "limit"} \cup Correlation,
     traces_by_memory |-> {"since", "until", "limit"} \cup Correlation,
     get_trace |-> {}]

\* The policy is that of the profile in force, the acknowledgment of an
\* insertion carries no correlation.
CliContextFlags ==
    [prepare_context |->
        {"entities", "inventory", "budget", "effort", "min_score", "degradation", "no_trace",
         "category", "request_id"} \cup Lenses,
     record_insertion |-> {"inserted_json"},
     trace_inject |-> {"note"} \cup Correlation,
     trace_outcome |-> {"evaluator", "note"} \cup Correlation]

CliEvidenceFlags ==
    [candidates |-> {"limit"}, store_artifact |-> {"media_type", "source"},
     ingest_compaction |-> {"summary"}, put_artifact |-> {"media_type", "source"},
     history |-> {}]

\* The version expected requires the body (clap).
CliStateFlags ==
    [put_state |-> {"version"}, read |-> {}, belief_events |-> {}, write_episode |-> {}]

\* A relationship is put without validity and without producer, always deduped,
\* and updated without evidence.
CliRecordFlags ==
    [put_entity |-> EntityFields["put_entity"], get_entity |-> {},
     update_entity |-> EntityFields["update_entity"],
     put_relationship |-> {"subject_rev", "object_rev", "epistemic", "evidence"},
     update_relationship |-> {"version", "epistemic", "state", "reason"},
     list_relationships |-> GraphFields["list_relationships"],
     traverse |-> GraphFields["traverse"]]

\* Vectors are staged by a worker, not by a command.
CliGenerationFlags ==
    [embedding_state |-> {}, attest |-> {"limitation"}, declare |-> {"limitation", "note"},
     activate |-> {}, provider_status |-> {}]

\* A failure is always reported as one to retry: the flag can only be set.
CliJobFlags ==
    [op \in DOMAIN JobFields |->
        IF op = "fail_job" THEN {"version"} ELSE JobFields[op]]

Run(flags, ops) == [op \in ops |-> Commands(flags)[op]]

CliRemember == Run(CliCallFlags, {"remember"})
CliRecall == Run(CliCallFlags, {"recall"})
CliUpkeep == Run(CliCallFlags, {"checkpoint", "sleep", "supersede"})
CliHardRecall == Run(CliSearchFlags, {"hard_recall"})

\* The scope and the operations are read, and refused, before the call.
CliApplyOps == Run(CliSearchFlags, {"apply_ops"})
CliEnumerate == Run(CliSearchFlags, {"list", "count"})
CliTraces == Run(CliSearchFlags, {"list_traces", "traces_by_memory", "get_trace"})
CliPrepareContext == Run(CliContextFlags, {"prepare_context"})
CliRecordInsertion == Run(CliContextFlags, {"record_insertion"})
CliTraceWrites == Run(CliContextFlags, {"trace_inject", "trace_outcome"})
CliEvidence == Run(CliEvidenceFlags, DOMAIN CliEvidenceFlags)
CliState ==
    Merged({Commands(CliStateFlags),
            [get_state |-> Refusing(TakesOnly({}), CliStateFlags["put_state"])]})
CliEntities == Run(CliRecordFlags, DOMAIN EntityFields)
CliRelationships ==
    Run(CliRecordFlags, {"put_relationship", "update_relationship", "list_relationships"})

\* No seed, no call.
CliTraverse == Run(CliRecordFlags, {"traverse"})
CliGenerations == Commands(CliGenerationFlags)
CliEnqueue == Run(CliJobFlags, {"enqueue_job", "get_job", "list_jobs"})
CliLeases ==
    Run(CliJobFlags, {"claim_job", "renew_job", "checkpoint_job", "complete_job", "fail_job",
                      "cancel_job", "supersede_job"})

CliHandlers ==
    Merged({CliRemember, CliRecall, CliUpkeep, CliHardRecall, CliApplyOps, CliEnumerate,
            CliTraces, CliPrepareContext, CliRecordInsertion, CliTraceWrites, CliEvidence,
            CliState, CliEntities, CliRelationships, CliTraverse, CliGenerations,
            CliEnqueue, CliLeases})

\* A configuration that cannot be resolved exits with 2 before any call; a
\* failure, and a report that is not ok (ReportedFailure), with 1.
CliExit(resolved, codes) ==
    IF ~resolved THEN 2
    ELSE IF \A i \in DOMAIN codes : codes[i] = "ok" THEN 0 ELSE 1
=============================================================================
