----------------------------- MODULE MCSurfaces -----------------------------
(* Small instances of Surfaces.                                            *)
EXTENDS Surfaces

\* The provider's answers: one vector, and each way not to give one.
One(index, length, finite) ==
    <<[index |-> index, length |-> length, finite |-> finite, text |-> 1]>>
Reply1(ended, items) == [ended |-> ended, items |-> items]
MCReplies ==
    {Reply1("timeout", <<>>), Reply1("answered", One(0, 4, TRUE)),
     Reply1("answered", One(0, 3, TRUE)), Reply1("answered", <<>>)}

Ops == UNION {DOMAIN Served(s) : s \in Surface}
Fields(op) ==
    UNION {Served(s)[op].takes \cup Served(s)[op].refuses :
             s \in {s \in Surface : op \in DOMAIN Served(s)}}

\* Alone: nothing, one telling field, every field, and one nobody knows.
Telling ==
    {"version", "key", "pack", "apply", "summary", "create_only", "force", "dedupe", "jobs"}
      \cup Lenses

Given(op) ==
    {(IF op \in Versioned THEN {"version"} ELSE {}) \cup f :
        f \in {{}, Fields(op), Fields(op) \ {"create_only"}, {"unheard_of"}}
              \cup {{g} : g \in Fields(op) \cap Telling}}

\* Asked twice: the least that makes asking again safe.
Asks(op, given) ==
    IF \/ op \in TextWrites /\ given \in {{"key"}, {"key", "valid_until"}}
       \/ op \in Settling /\ given = {}
       \/ op \in Moving /\ given = {"version"}
    THEN 2 ELSE 1

An(op, given, bad, tries, parts) ==
    [op |-> op, given |-> given, bad |-> bad, tries |-> tries, parts |-> parts]

Alone ==
    UNION {{<<An(op, given, {}, Asks(op, given), 2)>> : given \in Given(op)} : op \in Ops}
    \cup {<<An("put", {"key", "valid_until"}, {}, 2, 0)>>,
           <<An("put_with_jobs", {"key", "jobs"}, {}, 2, 0)>>,
           <<An("put_relationship", {"dedupe"}, {}, 2, 0)>>}
Misread ==
    {<<An(op, {}, bad, 1, 0)>> : op \in Ops, bad \in {{"bearer"}, {"config"}, {"content"}}}
    \cup UNION {{<<An(op, {lens}, {lens}, 1, 0)>> : lens \in Fields(op) \cap Lenses} : op \in Ops}

\* Two hosts: one key for two texts, and one object read by both.
Rivals ==
    {<<An("put", {"key"}, {}, 2, 0), An("put", {"key"}, {}, 1, 0)>>,
     <<An("remember", {"key"}, {}, 1, 0), An("remember", {"key"}, {}, 1, 0)>>,
     <<An("put_state", {}, {}, 1, 0), An("put_state", {}, {}, 1, 0)>>}
    \cup {<<An(op, {"version"}, {}, 1, 0), An(op, {"version"}, {}, 1, 0)>> :
            op \in {"supersede", "put_state", "put_task_state", "complete_job"}}

MCPlans == Alone \cup Misread \cup Rivals
=============================================================================
