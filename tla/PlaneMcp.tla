------------------------------ MODULE PlaneMcp ------------------------------
(***************************************************************************)
(* The plane's tools over MCP (crates/nomiso-mcp/src/lib.rs): the client's *)
(* requests as arguments.  Only a put and a forget are closed.             *)
(***************************************************************************)
EXTENDS Handlers

PlaneMcpReads ==
    [search |-> Takes(SearchFields), search_detailed |-> Takes(SearchFields),
     plane_read |-> Takes(ReadFields)]

\* The put inside the arguments is closed, the arguments around it are not.
PlaneMcpWrites ==
    [put |-> TakesOnly(PlaneWriteFields["put"]),
     put_with_jobs |-> Takes(PlaneWriteFields["put"] \cup {"jobs"}),
     supersede |-> Takes(PlaneWriteFields["supersede"]),
     supersede_with_jobs |-> Takes(PlaneWriteFields["supersede"] \cup {"jobs"}),
     forget |-> TakesOnly(PlaneWriteFields["forget"])]

PlaneMcpLists == [plane_list |-> Takes(ListFields), plane_count |-> Takes(CountFields)]

\* Mutant: the version expected is not in the arguments.
PlaneMcpBlindState ==
    [put_task_state |-> Takes({"create_only"}), get_task_state |-> Takes({}),
     belief_events |-> Takes({})]

\* The legacy upsert is still there: neither a version nor create_only is asked.
PlaneMcpState ==
    [put_task_state |-> Takes({"version", "create_only"}), get_task_state |-> Takes({}),
     belief_events |-> Takes({})]

PlaneMcpEntities == Verbatim(EntityFields)
PlaneMcpGraph == Verbatim(Merged({RelationshipFields, GraphFields}))
PlaneMcpGenerations == Verbatim(GenerationFields)
PlaneMcpJobs == Verbatim(JobFields)

PlaneMcpHandlers ==
    Merged({PlaneMcpReads, PlaneMcpWrites, PlaneMcpLists, PlaneMcpState, PlaneMcpEntities,
            PlaneMcpGraph, PlaneMcpGenerations, PlaneMcpJobs})

\* json_text, or err_text.
PlaneMcpIsError(codes) == \E i \in DOMAIN codes : codes[i] # "ok"
=============================================================================
