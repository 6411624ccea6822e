----------------------------- MODULE ProductMcp -----------------------------
(***************************************************************************)
(* The product's tools over MCP (bins/vegapunk/src/mcp.rs), one server     *)
(* process per host, on its standard input and output.                     *)
(***************************************************************************)
EXTENDS Handlers

\* The arguments of the tools.  A source or a confidence cannot be given to
\* remember, a trust class to no artifact, and no evaluator to an outcome.
McpWriteArgs ==
    [remember |-> {"key", "category", "episodic"},
     hard_recall |-> {"pack", "min_score", "category"} \cup Lenses \cup Correlation,
     sleep |-> {"apply", "apply_age_out", "older_than"},
     put_state |-> {"version"},
     apply_ops |-> {"ops"} \cup Correlation,
     checkpoint |-> {"force"},
     supersede |-> {"version"}]

McpReadArgs ==
    [recall |-> {"limit", "category"} \cup Lenses,
     list |-> {"text", "limit", "cursor", "category"} \cup Lenses,
     count |-> {"text", "category"} \cup Lenses,
     list_traces |-> {"since", "until", "limit"} \cup Correlation,
     traces_by_memory |-> {"since", "until", "limit"} \cup Correlation]

McpReportArgs ==
    [candidates |-> {"limit"}, store_artifact |-> {"media_type", "source"},
     ingest_compaction |-> {"summary"}, get_trace |-> {},
     trace_outcome |-> {"note"} \cup Correlation, trace_inject |-> {"note"} \cup Correlation,
     put_artifact |-> {"media_type", "source"}, history |-> {}]

\* Only those of remember are closed.
McpRemember == TakesOnly(McpWriteArgs["remember"])
McpHardRecall == Takes(McpWriteArgs["hard_recall"])

\* A window that overflows seconds is unreadable.
McpSleep == Takes(McpWriteArgs["sleep"])

\* A version without a body is refused; a profile that does not restore has no
\* state to get.
McpState ==
    [put_state |-> Takes(McpWriteArgs["put_state"]),
     get_state |-> Refusing(Takes({}), McpWriteArgs["put_state"])]

McpWrites ==
    [op \in {"apply_ops", "checkpoint", "supersede"} |-> Takes(McpWriteArgs[op])]
McpEvidence ==
    [op \in {"candidates", "store_artifact", "ingest_compaction"} |-> Takes(McpReportArgs[op])]

\* Lenses are read one by one, and an unreadable one refuses the call.
McpReads == Verbatim(McpReadArgs)
McpReports ==
    [op \in {"get_trace", "trace_outcome", "trace_inject", "put_artifact", "history"} |->
        Takes(McpReportArgs[op])]

McpRecords == Verbatim(RecordFields)
McpGenerations == Verbatim(GenerationFields)
McpJobs == Verbatim(JobFields)

McpHandlers ==
    Merged({[remember |-> McpRemember, hard_recall |-> McpHardRecall, sleep |-> McpSleep],
            McpState, McpWrites, McpEvidence, McpReads, McpReports,
            McpRecords, McpGenerations, McpJobs})

\* A tool answers with content or with a structured error, which is a whole
\* report when the call has one (report_result, err_text).
McpIsError(codes) == \E i \in DOMAIN codes : codes[i] # "ok"
=============================================================================
