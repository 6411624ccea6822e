--------------------------- MODULE SurfacesProofs ---------------------------
(***************************************************************************)
(* Proofs about hosts at the adapters: whatever they want, over whatever   *)
(* surfaces and however often they ask for it, a guard is kept, an answer  *)
(* is true and a request that may be repeated is one write.                *)
(***************************************************************************)
EXTENDS Surfaces, FiniteSetTheorems, SequenceTheorems, TLAPS

(* The tables of the adapters *)

LensReads ==
    {"recall", "hard_recall", "prepare_context", "list", "count", "search", "search_detailed",
     "plane_read", "plane_list", "plane_count"}

\* What every adapter that serves an operation lets through: what guards it, what
\* names it, the instants it is asked for, and for a text the same fields as the
\* others, or none that they have not.
Serves(op, h) ==
    /\ op \in Versioned \cup States \cup {"forget"} => "version" \in h.takes
    /\ op \in TextWrites => "key" \in h.takes
    /\ op = "checkpoint" => "force" \in h.takes
    /\ op = "put_task_state" => "create_only" \in h.takes
    /\ op \in LensReads => Lenses \subseteq h.takes
    /\ op \in Looks \ LensReads => h.takes \cap Lenses = {}
    /\ op \in {"remember", "put"} =>
         h.strict /\ h.ignores \subseteq Correlation /\ h.takes \cap Correlation = {}
    /\ op = "put_with_jobs" => h.takes = PutFields \cup {"jobs"}

Sound(table) == \A op \in DOMAIN table : Serves(op, table[op])

\* A table of fields is served as it is, or closed.
SoundFields(fields) == \A op \in DOMAIN fields : Serves(op, Takes(fields[op]))
SoundFlags(flags) == \A op \in DOMAIN flags : Serves(op, TakesOnly(flags[op]))

LEMMA MergedOf ==
  ASSUME NEW tables
  PROVE  /\ DOMAIN Merged(tables) = UNION {DOMAIN t : t \in tables}
         /\ \A op \in DOMAIN Merged(tables) :
              \E t \in tables : op \in DOMAIN t /\ Merged(tables)[op] = t[op]
<1>1. DOMAIN Merged(tables) = UNION {DOMAIN t : t \in tables}
  BY DEF Merged
<1>2. ASSUME NEW op \in DOMAIN Merged(tables)
      PROVE  \E t \in tables : op \in DOMAIN t /\ Merged(tables)[op] = t[op]
  <2>1. Merged(tables)[op] = (CHOOSE t \in tables : op \in DOMAIN t)[op]
    BY <1>1 DEF Merged
  <2>2. \E t \in tables : op \in DOMAIN t
    BY <1>1
  <2>3. QED
    BY <2>1, <2>2
<1>3. QED
  BY <1>1, <1>2

LEMMA MergedIn ==
  ASSUME NEW tables
  PROVE  \A op : op \in DOMAIN Merged(tables) <=> \E t \in tables : op \in DOMAIN t
BY DEF Merged

LEMMA MergedSound ==
  ASSUME NEW tables, \A t \in tables : Sound(t)
  PROVE  Sound(Merged(tables))
BY MergedOf DEF Sound

LEMMA MergedFields ==
  ASSUME NEW tables, \A t \in tables : SoundFields(t)
  PROVE  SoundFields(Merged(tables))
BY MergedOf DEF SoundFields

LEMMA FieldsServe ==
  ASSUME NEW op, NEW f
  PROVE  /\ Serves(op, Takes(f)) => Serves(op, TakesOnly(f))
         /\ Serves(op, TakesOnly(f)) => Serves(op, Ignoring(TakesOnly(f), Correlation))
BY DEF Serves, Takes, TakesOnly, Ignoring

LEMMA BodiesSound ==
  ASSUME NEW fields, SoundFields(fields)
  PROVE  /\ Sound(Verbatim(fields)) /\ Sound(HttpBodies(fields))
         /\ Sound(PlaneHttpBodies(fields))
BY FieldsServe DEF SoundFields, Sound, Verbatim, HttpBodies, PlaneHttpBodies

LEMMA FlagsSound ==
  ASSUME NEW flags, SoundFlags(flags)
  PROVE  /\ Sound(Commands(flags))
         /\ \A ops \in SUBSET DOMAIN flags : Sound(Run(flags, ops))
<1>1. Sound(Commands(flags))
  BY FieldsServe DEF SoundFlags, Sound, Commands
<1>2. QED
  BY <1>1 DEF Sound, Run, Commands

-----------------------------------------------------------------------------

USE DEF Takes, TakesOnly, Versioned, States, Revisions, Updates, Leased, TextWrites, LensReads,
        Looks, Queries, Lenses, Correlation

LEMMA FieldsSound ==
  /\ SoundFields(JobFields) /\ SoundFields(GenerationFields) /\ SoundFields(EntityFields)
  /\ SoundFields(RelationshipFields) /\ SoundFields(GraphFields) /\ SoundFields(RecordFields)
<1>1. SoundFields(JobFields)
  BY DEF SoundFields, Serves, JobFields
<1>2. SoundFields(GenerationFields)
  BY DEF SoundFields, Serves, GenerationFields
<1>3. SoundFields(EntityFields)
  BY DEF SoundFields, Serves, EntityFields
<1>4. SoundFields(RelationshipFields)
  BY DEF SoundFields, Serves, RelationshipFields
<1>5. SoundFields(GraphFields)
  BY DEF SoundFields, Serves, GraphFields
<1>6. SoundFields(RecordFields)
  BY <1>3, <1>4, <1>5, MergedFields DEF RecordFields
<1>7. QED
  BY <1>1, <1>2, <1>3, <1>4, <1>5, <1>6

LEMMA HttpSound == Sound(HttpHandlers)
<1>1. Sound(HttpWrites)
  BY DEF Sound, Serves, HttpWrites, HttpRemember, HttpSupersede, HttpApplyOps
<1>2. Sound(HttpReads)
  BY DEF Sound, Serves, HttpReads, HttpRecall, HttpHardRecall
<1>3. Sound(HttpUpkeep)
  BY DEF Sound, Serves, HttpUpkeep, Refusing
<1>4. Sound(HttpRecords) /\ Sound(HttpGenerations) /\ Sound(HttpJobs)
  BY FieldsSound, BodiesSound DEF HttpRecords, HttpGenerations, HttpJobs
<1>5. Sound(HttpController)
  BY DEF Sound, Serves, HttpController
<1>6. Sound([trace_outcome |-> HttpOutcome])
  BY DEF Sound, Serves, HttpOutcome
<1>7. Sound(HttpState)
  BY DEF Sound, Serves, HttpState
<1>8. QED
  BY <1>1, <1>2, <1>3, <1>4, <1>5, <1>6, <1>7, MergedSound DEF HttpHandlers

LEMMA McpSound == Sound(McpHandlers)
<1>1. Sound([remember |-> McpRemember, hard_recall |-> McpHardRecall, sleep |-> McpSleep])
  BY DEF Sound, Serves, McpRemember, McpHardRecall, McpSleep, McpWriteArgs
<1>2. Sound(McpState)
  BY DEF Sound, Serves, McpState, McpWriteArgs, Refusing
<1>3. Sound(McpWrites)
  BY DEF Sound, Serves, McpWrites, McpWriteArgs
<1>4. Sound(McpEvidence)
  BY DEF Sound, Serves, McpEvidence, McpReportArgs
<1>5. Sound(McpReads)
  <2>1. SoundFields(McpReadArgs)
    BY DEF SoundFields, Serves, McpReadArgs
  <2>2. QED
    BY <2>1, BodiesSound DEF McpReads
<1>6. Sound(McpReports)
  BY DEF Sound, Serves, McpReports, McpReportArgs
<1>7. Sound(McpRecords) /\ Sound(McpGenerations) /\ Sound(McpJobs)
  BY FieldsSound, BodiesSound DEF McpRecords, McpGenerations, McpJobs
<1>8. QED
  BY <1>1, <1>2, <1>3, <1>4, <1>5, <1>6, <1>7, MergedSound DEF McpHandlers

LEMMA CliSound == Sound(CliHandlers)
<1>1. SoundFlags(CliCallFlags) /\ {"remember", "recall", "checkpoint", "sleep", "supersede"}
        \subseteq DOMAIN CliCallFlags
  BY DEF SoundFlags, Serves, CliCallFlags
<1>2. SoundFlags(CliSearchFlags) /\ DOMAIN CliSearchFlags = {"hard_recall", "apply_ops", "list",
        "count", "list_traces", "traces_by_memory", "get_trace"}
  BY DEF SoundFlags, Serves, CliSearchFlags
<1>3. SoundFlags(CliContextFlags) /\ DOMAIN CliContextFlags = {"prepare_context",
        "record_insertion", "trace_inject", "trace_outcome"}
  BY DEF SoundFlags, Serves, CliContextFlags
<1>4. SoundFlags(CliEvidenceFlags)
  BY DEF SoundFlags, Serves, CliEvidenceFlags
<1>5. SoundFlags(CliStateFlags) /\ CliStateFlags["put_state"] = {"version"}
  BY DEF SoundFlags, Serves, CliStateFlags
<1>6. SoundFlags(CliRecordFlags) /\ DOMAIN CliRecordFlags = {"put_entity", "get_entity",
        "update_entity", "put_relationship", "update_relationship", "list_relationships",
        "traverse"} /\ DOMAIN EntityFields = {"put_entity", "get_entity", "update_entity"}
  BY DEF SoundFlags, Serves, CliRecordFlags, EntityFields, GraphFields
<1>7. SoundFlags(CliGenerationFlags)
  BY DEF SoundFlags, Serves, CliGenerationFlags
<1>8. SoundFlags(CliJobFlags) /\ DOMAIN CliJobFlags = {"enqueue_job", "get_job", "list_jobs",
        "claim_job", "renew_job", "checkpoint_job", "complete_job", "fail_job", "cancel_job",
        "supersede_job"}
  BY DEF SoundFlags, Serves, CliJobFlags, JobFields
<1>9. Sound(CliRemember) /\ Sound(CliRecall) /\ Sound(CliUpkeep)
  BY <1>1, FlagsSound DEF CliRemember, CliRecall, CliUpkeep
<1>10. Sound(CliHardRecall) /\ Sound(CliApplyOps) /\ Sound(CliEnumerate) /\ Sound(CliTraces)
  BY <1>2, FlagsSound DEF CliHardRecall, CliApplyOps, CliEnumerate, CliTraces
<1>11. Sound(CliPrepareContext) /\ Sound(CliRecordInsertion) /\ Sound(CliTraceWrites)
  BY <1>3, FlagsSound DEF CliPrepareContext, CliRecordInsertion, CliTraceWrites
<1>12. Sound(CliEvidence)
  BY <1>4, FlagsSound DEF CliEvidence
<1>13. Sound(CliState)
  <2>1. Sound([get_state |-> Refusing(TakesOnly({}), CliStateFlags["put_state"])])
    BY <1>5 DEF Sound, Serves, Refusing
  <2>2. QED
    BY <1>5, <2>1, FlagsSound, MergedSound DEF CliState
<1>14. Sound(CliEntities) /\ Sound(CliRelationships) /\ Sound(CliTraverse)
  BY <1>6, FlagsSound DEF CliEntities, CliRelationships, CliTraverse
<1>15. Sound(CliGenerations)
  BY <1>7, FlagsSound DEF CliGenerations
<1>16. Sound(CliEnqueue) /\ Sound(CliLeases)
  BY <1>8, FlagsSound DEF CliEnqueue, CliLeases
<1>17. QED
  BY <1>9, <1>10, <1>11, <1>12, <1>13, <1>14, <1>15, <1>16, MergedSound DEF CliHandlers

LEMMA SdkSound ==
  /\ Sound(SdkHandlers) /\ DOMAIN SdkHandlers \subseteq DOMAIN HttpHandlers
  /\ DOMAIN SdkHandlers \cap TextWrites \subseteq {"remember"}
  /\ SdkHandlers["remember"].takes \subseteq HttpHandlers["remember"].takes
<1>1. /\ DOMAIN SdkWrites = {"remember", "apply_ops", "supersede", "checkpoint"}
      /\ SdkWrites["remember"] = HttpRemember
      /\ DOMAIN SdkReads(HttpHandlers) = {"recall", "hard_recall", "read"}
      /\ DOMAIN SdkController(HttpHandlers)
           = {"prepare_context", "record_insertion", "trace_outcome"}
      /\ DOMAIN SdkState = {"put_state", "get_state"}
  BY DEF SdkWrites, SdkReads, SdkController, SdkState, HttpRemember
<1>2. /\ DOMAIN HttpWrites = {"remember", "supersede", "apply_ops"}
      /\ HttpWrites["remember"] = HttpRemember
      /\ DOMAIN HttpReads = {"recall", "read", "hard_recall"}
      /\ DOMAIN HttpUpkeep = {"checkpoint", "sleep"}
      /\ DOMAIN HttpController = {"prepare_context", "record_insertion"}
      /\ DOMAIN [trace_outcome |-> HttpOutcome] = {"trace_outcome"}
      /\ DOMAIN HttpState = {"put_state", "get_state"}
  BY DEF HttpWrites, HttpReads, HttpUpkeep, HttpController, HttpState
<1>3. /\ "remember" \notin DOMAIN HttpRecords
      /\ "remember" \notin DOMAIN HttpGenerations
      /\ "remember" \notin DOMAIN HttpJobs
  <2>1. \A t \in {EntityFields, RelationshipFields, GraphFields} : "remember" \notin DOMAIN t
    BY DEF EntityFields, RelationshipFields, GraphFields
  <2>2. "remember" \notin DOMAIN RecordFields
    BY <2>1, MergedIn DEF RecordFields
  <2>3. QED
    BY <2>2 DEF HttpRecords, HttpGenerations, HttpJobs, HttpBodies, GenerationFields, JobFields
<1>4. /\ \A op \in DOMAIN SdkHandlers :
           \/ op \in DOMAIN SdkWrites \/ op \in DOMAIN SdkReads(HttpHandlers)
           \/ op \in DOMAIN SdkController(HttpHandlers) \/ op \in DOMAIN SdkState
      /\ SdkHandlers["remember"] = HttpRemember
  <2> DEFINE tables == {SdkWrites, SdkReads(HttpHandlers), SdkController(HttpHandlers), SdkState}
  <2>1. SdkHandlers = Merged(tables)
    BY DEF SdkHandlers, SdkMethods
  <2>2. \A op \in DOMAIN SdkHandlers : \E t \in tables : op \in DOMAIN t
    BY <2>1, MergedIn
  <2>3. "remember" \in DOMAIN SdkHandlers
    BY <1>1, <2>1, MergedIn
  <2>4. PICK t \in tables : "remember" \in DOMAIN t /\ SdkHandlers["remember"] = t["remember"]
    BY <2>1, <2>3, MergedOf
  <2>5. t = SdkWrites
    BY <1>1, <2>4
  <2>6. QED
    BY <1>1, <2>2, <2>4, <2>5
<1>5. /\ \A op : \/ op \in DOMAIN HttpWrites \/ op \in DOMAIN HttpReads \/ op \in DOMAIN HttpUpkeep
                 \/ op \in DOMAIN HttpController \/ op = "trace_outcome" \/ op \in DOMAIN HttpState
                 => op \in DOMAIN HttpHandlers
      /\ HttpHandlers["remember"] = HttpRemember
  <2> DEFINE tables == {HttpWrites, HttpReads, HttpUpkeep, HttpRecords, HttpGenerations, HttpJobs,
                        HttpController, [trace_outcome |-> HttpOutcome], HttpState}
  <2>1. HttpHandlers = Merged(tables)
    BY DEF HttpHandlers
  <2>2. \A op, t : t \in tables /\ op \in DOMAIN t => op \in DOMAIN HttpHandlers
    BY <2>1, MergedIn
  <2>3. "remember" \in DOMAIN HttpHandlers
    BY <1>2, <2>2
  <2> HIDE DEF tables
  <2>4. PICK t \in tables : "remember" \in DOMAIN t /\ HttpHandlers["remember"] = t["remember"]
    BY <2>1, <2>3, MergedOf
  <2>5. t = HttpWrites
    BY <1>2, <1>3, <2>4 DEF tables
  <2>6. QED
    BY <1>2, <2>2, <2>4, <2>5 DEF tables
<1>6. DOMAIN SdkHandlers \subseteq DOMAIN HttpHandlers
  BY <1>1, <1>2, <1>4, <1>5
<1>7. /\ Serves("recall", HttpHandlers["recall"])
      /\ Serves("hard_recall", HttpHandlers["hard_recall"])
      /\ Serves("prepare_context", HttpHandlers["prepare_context"])
  BY <1>2, <1>5, HttpSound DEF Sound
<1>8. Sound(SdkWrites)
  BY DEF Sound, Serves, SdkWrites
<1>9. Sound(SdkReads(HttpHandlers))
  BY <1>7 DEF Sound, Serves, SdkReads, Anything
<1>10. Sound(SdkController(HttpHandlers))
  BY <1>7 DEF Sound, Serves, SdkController, Anything
<1>11. Sound(SdkState)
  BY DEF Sound, Serves, SdkState
<1>12. Sound(SdkHandlers)
  BY <1>8, <1>9, <1>10, <1>11, MergedSound DEF SdkHandlers, SdkMethods
<1>13. DOMAIN SdkHandlers \cap TextWrites \subseteq {"remember"}
  BY <1>1, <1>4
<1>14. QED
  BY <1>4, <1>5, <1>6, <1>12, <1>13

LEMMA PlaneHttpSound == Sound(PlaneHttpHandlers)
<1>1. Sound(PlaneHttpWrites)
  BY DEF Sound, Serves, PlaneHttpWrites, PlaneWriteFields, PutFields
<1>2. Sound(PlaneHttpJobWrites)
  BY DEF Sound, Serves, PlaneHttpJobWrites, PlaneWriteFields, PutFields
<1>3. Sound(PlaneHttpReads)
  BY DEF Sound, Serves, PlaneHttpReads, SearchFields, ReadFields
<1>4. Sound(PlaneHttpRecords) /\ Sound(PlaneHttpGenerations) /\ Sound(PlaneHttpJobs)
  BY FieldsSound, BodiesSound DEF PlaneHttpRecords, PlaneHttpGenerations, PlaneHttpJobs
<1>5. Sound(PlaneHttpProvider)
  BY DEF Sound, Serves, PlaneHttpProvider
<1>6. QED
  BY <1>1, <1>2, <1>3, <1>4, <1>5, MergedSound DEF PlaneHttpHandlers

LEMMA PlaneMcpSound == Sound(PlaneMcpHandlers)
<1>1. Sound(PlaneMcpReads)
  BY DEF Sound, Serves, PlaneMcpReads, SearchFields, ReadFields
<1>2. Sound(PlaneMcpWrites)
  BY DEF Sound, Serves, PlaneMcpWrites, PlaneWriteFields, PutFields
<1>3. Sound(PlaneMcpLists)
  BY DEF Sound, Serves, PlaneMcpLists, ListFields, CountFields
<1>4. Sound(PlaneMcpState)
  BY DEF Sound, Serves, PlaneMcpState
<1>5. Sound(PlaneMcpEntities) /\ Sound(PlaneMcpGraph)
  BY FieldsSound, MergedFields, BodiesSound DEF PlaneMcpEntities, PlaneMcpGraph
<1>6. Sound(PlaneMcpGenerations) /\ Sound(PlaneMcpJobs)
  BY FieldsSound, BodiesSound DEF PlaneMcpGenerations, PlaneMcpJobs
<1>7. QED
  BY <1>1, <1>2, <1>3, <1>4, <1>5, <1>6, MergedSound DEF PlaneMcpHandlers

LEMMA ServedSound == \A s \in Surface : Sound(Served(s))
BY HttpSound, McpSound, CliSound, SdkSound, PlaneHttpSound, PlaneMcpSound DEF Surface, Served

HIDE DEF Takes, TakesOnly, Versioned, States, Revisions, Updates, Leased, TextWrites, LensReads,
         Looks, Queries, Lenses, Correlation

-----------------------------------------------------------------------------
(* The calls *)

\* What a call is of from the moment it is sent.
Sent(c) ==
    /\ call[c].surface \in Surface /\ call[c].by \in DOMAIN plan
    /\ Verb(c) \in DOMAIN Served(call[c].surface)

\* The fields that matter reach the client.
LEMMA Forms ==
  ASSUME NEW c, Sent(c)
  PROVE  /\ Form(c) \subseteq Intent(c).given
         /\ Verb(c) \in Versioned \cup States \cup {"forget"} /\ "version" \in Intent(c).given
              => "version" \in Form(c)
         /\ Verb(c) \in TextWrites /\ "key" \in Intent(c).given => "key" \in Form(c)
         /\ Verb(c) = "checkpoint" /\ "force" \in Intent(c).given => "force" \in Form(c)
         /\ Verb(c) = "put_task_state" /\ "create_only" \in Intent(c).given
              => "create_only" \in Form(c)
         /\ Verb(c) \in Looks => Intent(c).given \cap Offered(Verb(c)) \subseteq Form(c)
<1> DEFINE h == Served(call[c].surface)[Verb(c)]
           server == HttpHandlers[Verb(c)]
<1>1. Serves(Verb(c), h)
  BY ServedSound DEF Sent, Sound
<1>2. call[c].surface = "sdk" => Serves(Verb(c), server)
  BY SdkSound, HttpSound DEF Sent, Sound, Served
<1>3. /\ call[c].surface = "sdk" => Form(c) = (Intent(c).given \cap h.takes) \cap server.takes
      /\ call[c].surface # "sdk" => Form(c) = Intent(c).given \cap h.takes
  BY DEF Form, Passed
<1> HIDE DEF h, server
<1>4. Verb(c) \in LensReads => Lenses \subseteq h.takes /\ (call[c].surface = "sdk" => Lenses \subseteq server.takes)
  BY <1>1, <1>2 DEF Serves
<1>5. Verb(c) \in Looks \ LensReads => Offered(Verb(c)) = {}
  BY ServedSound DEF Offered, Sound, Serves
<1>6. Verb(c) \in Looks => Intent(c).given \cap Offered(Verb(c)) \subseteq Form(c)
  BY <1>3, <1>4, <1>5 DEF Offered
<1>7. QED
  BY <1>1, <1>2, <1>3, <1>6 DEF Serves

\* Two calls of one host for a text, both admitted, hand on the same fields.
LEMMA FormsAgree ==
  ASSUME NEW c, Sent(c), Admitted(c), NEW d, Sent(d), Admitted(d),
         call[c].by = call[d].by, Verb(c) \in TextWrites
  PROVE  Form(c) = Form(d)
<1> DEFINE op == Verb(c)
           given == Intent(c).given
           h(x) == Served(call[x].surface)[op]
           server == HttpHandlers[op]
<1>1. Verb(d) = op /\ Intent(d) = Intent(c)
  BY DEF Verb, Intent
<1>2. /\ Serves(op, h(c)) /\ Serves(op, h(d))
      /\ call[c].surface = "sdk" \/ call[d].surface = "sdk" => Serves(op, server)
  BY <1>1, ServedSound, SdkSound, HttpSound DEF Sent, Sound, Served
<1>3. /\ Readable(h(c), Intent(c)) /\ Readable(h(d), Intent(c))
  BY <1>1 DEF Admitted
<1>4. ASSUME NEW x \in {c, d}
      PROVE  /\ call[x].surface = "sdk" => Form(x) = (given \cap h(x).takes) \cap server.takes
             /\ call[x].surface # "sdk" => Form(x) = given \cap h(x).takes
  BY <1>1 DEF Form, Passed
<1> HIDE DEF h, server
<1>5. CASE op = "put_with_jobs"
  <2>1. \A x \in {c, d} : call[x].surface # "sdk"
    BY <1>1, <1>5, SdkSound DEF Sent, Served, TextWrites
  <2>2. h(c).takes = h(d).takes
    BY <1>2, <1>5 DEF Serves
  <2>3. QED
    BY <1>4, <2>1, <2>2
<1>6. CASE op # "put_with_jobs"
  <2>1. op \in {"remember", "put"}
    BY <1>6 DEF TextWrites
  <2>2. ASSUME NEW x \in {c, d}
        PROVE  given \subseteq h(x).takes \cup Correlation /\ h(x).takes \cap Correlation = {}
    BY <1>2, <1>3, <2>1 DEF Serves, Readable, Intent
  <2>3. \A x \in {c, d} : call[x].surface = "sdk" => h(x).takes \subseteq server.takes
    <3>1. ASSUME NEW x \in {c, d}, call[x].surface = "sdk" PROVE h(x).takes \subseteq server.takes
      <4>1. op \in DOMAIN SdkHandlers /\ op \in TextWrites
        BY <1>1, <3>1 DEF Sent, Served
      <4>2. op = "remember"
        BY <4>1, SdkSound
      <4>3. h(x) = SdkHandlers["remember"] /\ server = HttpHandlers["remember"]
        BY <3>1, <4>2 DEF h, server, Served
      <4>4. QED
        BY <4>3, SdkSound
    <3>2. QED
      BY <3>1
  <2>4. \A x \in {c, d} : Form(x) = given \ Correlation
    BY <1>4, <2>2, <2>3
  <2>5. QED
    BY <2>4
<1>7. QED
  BY <1>5, <1>6
-----------------------------------------------------------------------------

Fields == {"by", "surface", "sent", "stage", "codes", "names", "events", "traced", "told",
           "abandoned", "late"}
Stage == {"sent", "lookup", "embedding", "storing", "tracing", "closing", "answering", "over"}
Early == {"sent", "lookup", "embedding"}
Working == {"lookup", "embedding", "storing", "tracing", "closing"}
Code == Refusals \cup Failures \cup {"ok", "not_attempted"}

Calls ==
    /\ plan \in Plans
    /\ call \in Seq(Range(call))
    /\ \A c \in DOMAIN call : DOMAIN call[c] = Fields

\* A call and its answer are never at odds: it has no code before it reached the
\* store or was turned away, stores while every part succeeded and one is left,
\* works only when it was admitted, and is told a success when it was one.
Shape(c) ==
    /\ Sent(c)
    /\ call[c].sent \in 1 .. 2 /\ call[c].stage \in Stage
    /\ call[c].told \in {"none", "success", "failure", "unreachable"}
    /\ call[c].events \in 0 .. Needed(c) /\ call[c].traced \in BOOLEAN
    /\ call[c].abandoned \in BOOLEAN /\ call[c].late \in BOOLEAN
    /\ call[c].codes \in Seq(Code) /\ call[c].names \in Seq(Nat)
    /\ Len(call[c].names) = Len(call[c].codes)
    /\ call[c].stage # "over" => call[c].told = "none"
    /\ call[c].told = "unreachable" => call[c].codes = <<>>
    /\ call[c].stage \in Early => call[c].codes = <<>>
    /\ call[c].stage \in Early \cup {"storing"} => call[c].events = 0 /\ ~call[c].traced
    /\ call[c].stage = "lookup" => Keyed(c)
    /\ call[c].stage = "embedding" => Verb(c) \in TextWrites \cup Revisions \cup Queries
    /\ call[c].stage = "storing" => Len(call[c].codes) < Parts(c) /\ Succeeded(c)
    /\ call[c].stage = "tracing" => call[c].events < Needed(c) /\ ~call[c].traced
    /\ call[c].stage = "closing" => Closes(c)
    /\ call[c].traced => call[c].events = Needed(c)
    /\ call[c].stage \in {"tracing", "answering", "over"} /\ call[c].told # "unreachable"
         /\ Parts(c) # 0 => call[c].codes # <<>>
    /\ Parts(c) = 1 /\ Verb(c) # "ingest_compaction" => Len(call[c].codes) <= 1
    /\ call[c].told = "success" => Succeeded(c)
    /\ call[c].told = "failure" => ~Succeeded(c)
    /\ call[c].stage \in Working => Admitted(c)
    /\ call[c].stage \in {"answering", "over"} /\ call[c].told # "unreachable" /\ Succeeded(c)
         => Admitted(c)

\* A function on an initial segment of the naturals is a sequence.
LEMMA InSeq ==
  ASSUME NEW S, NEW n \in Nat, NEW s \in [1 .. n -> S]
  PROVE  s \in Seq(S) /\ Len(s) = n /\ DOMAIN s = 1 .. n
<1>1. s \in Seq(S)
  BY SeqDef
<1>2. QED
  BY <1>1, LenProperties

\* A call changes some of its fields, and no other call.
LEMMA Advances ==
  ASSUME Calls, NEW c \in DOMAIN call, NEW changes, Advance(c, changes), plan' = plan
  PROVE  /\ Calls' /\ Len(call') = Len(call) /\ DOMAIN call' = DOMAIN call
         /\ \A d \in DOMAIN call : d # c => call'[d] = call[d]
         /\ \A f \in Fields : f \notin DOMAIN changes => call'[c][f] = call[c][f]
         /\ \A f \in Fields : f \in DOMAIN changes => call'[c][f] = changes[f]
<1> DEFINE new == [f \in DOMAIN call[c] |->
                     IF f \in DOMAIN changes THEN changes[f] ELSE call[c][f]]
<1>1. /\ call' = [call EXCEPT ![c] = new] /\ DOMAIN call[c] = Fields
      /\ Len(call) \in Nat /\ DOMAIN call = 1 .. Len(call)
  BY LenProperties DEF Advance, Calls
<1>2. /\ DOMAIN new = Fields
      /\ \A f \in Fields : f \notin DOMAIN changes => new[f] = call[c][f]
      /\ \A f \in Fields : f \in DOMAIN changes => new[f] = changes[f]
  BY <1>1
<1> HIDE DEF new
<1>3. DOMAIN call' = DOMAIN call /\ call'[c] = new /\ \A d \in DOMAIN call : d # c => call'[d] = call[d]
  BY <1>1
<1>4. call' \in [1 .. Len(call) -> Range(call')]
  BY <1>1, <1>3 DEF Range
<1>5. call' \in Seq(Range(call')) /\ Len(call') = Len(call)
  BY <1>1, <1>4, InSeq
<1>6. QED
  BY <1>2, <1>3, <1>5 DEF Calls

\* What a call is of stays.
Stays(d) ==
    /\ Verb(d)' = Verb(d) /\ Intent(d)' = Intent(d) /\ Form(d)' = Form(d)
    /\ (Keyed(d) <=> Keyed(d)') /\ Parts(d)' = Parts(d) /\ Needed(d)' = Needed(d)
    /\ (Admitted(d) <=> Admitted(d)') /\ (Sent(d) <=> Sent(d)')
    /\ (Rechecks(d) <=> Rechecks(d)')

LEMMA Staying ==
  ASSUME NEW d, call'[d].by = call[d].by, call'[d].surface = call[d].surface, plan' = plan
  PROVE  Stays(d)
<1>1. Intent(d)' = Intent(d) /\ Verb(d)' = Verb(d)
  BY DEF Intent, Verb
<1>2. Form(d)' = Form(d)
  BY <1>1 DEF Form
<1>3. (Keyed(d) <=> Keyed(d)') /\ Needed(d)' = Needed(d) /\ (Sleeps(d) <=> Sleeps(d)')
  BY <1>1, <1>2 DEF Keyed, Needed, Sleeps
<1>4. Parts(d)' = Parts(d)
  BY <1>1, <1>3 DEF Parts
<1>5. /\ (Authorized(d) <=> Authorized(d)') /\ (Resolved(d) <=> Resolved(d)')
      /\ (WellFormed(d) <=> WellFormed(d)')
  BY <1>1, <1>2 DEF Authorized, Resolved, WellFormed, ValidWrite, ValidQuery
<1>6. Admitted(d) <=> Admitted(d)'
  BY <1>1, <1>2, <1>5 DEF Admitted
<1>7. Sent(d) <=> Sent(d)'
  BY <1>1 DEF Sent
<1>8. Rechecks(d) <=> Rechecks(d)'
  BY <1>1, <1>2 DEF Rechecks
<1>9. QED
  BY <1>1, <1>2, <1>3, <1>4, <1>6, <1>7, <1>8 DEF Stays

LEMMA ShapeStays ==
  ASSUME NEW d, call'[d] = call[d], plan' = plan, Shape(d)
  PROVE  Shape(d)'
<1>1. Stays(d)
  BY Staying
<1>2. (Succeeded(d) <=> Succeeded(d)') /\ (Closes(d) <=> Closes(d)')
  BY <1>1 DEF Succeeded, Closes, Stays
<1>3. QED
  BY <1>1, <1>2 DEF Shape, Stays

LEMMA PartsKnown ==
  ASSUME Calls, NEW c \in DOMAIN call, Sent(c)
  PROVE  /\ Parts(c) \in Nat
         /\ Verb(c) \in TextWrites \cup Revisions \cup Queries \cup Settling \cup Moving
                         \cup {"checkpoint"} => Parts(c) = 1 /\ Verb(c) # "ingest_compaction"
         /\ Needed(c) \in Nat /\ Needed(c) > 0
<1>1. Intent(c).parts \in Nat
  BY SurfacesAssumption DEF Calls, Sent, Intent
<1>2. QED
  BY <1>1 DEF Parts, Needed, Sleeps, Batches, TextWrites, Revisions, Queries, Settling, Moving,
     Updates, States

-----------------------------------------------------------------------------
(* The rows *)

\* What a call that succeeded always leaves.
Lands(c) ==
    \/ Verb(c) \in TextWrites \cup Settling \cup Moving
    \/ Verb(c) = "checkpoint" /\ "force" \in Form(c) /\ "content" \notin Intent(c).bad

Saws == DOMAIN saw = DOMAIN plan /\ version \in Nat /\ \A t \in DOMAIN saw : saw[t] \in 0 .. version

\* A row is what some part of a call stored, over the version its guard named;
\* a move left its version behind.  If it is not answered from, its text is gone.
RowFits(r) ==
    /\ r.call \in DOMAIN call /\ r.part \in DOMAIN call[r.call].codes
    /\ \/ call[r.call].codes[r.part] \in {"ok", "store_error"}
       \/ call[r.call].codes[r.part] = "idempotency_unavailable" /\ r \in gone
    /\ Admitted(r.call)
    /\ r.over \in 0 .. version /\ (Verb(r.call) \in Moving => r.over < version)
    /\ Guarded(r.call) =>
         /\ "version" \in Form(r.call) => r.over = saw[call[r.call].by]
         /\ CreateOnly(r.call) => r.over = 0

\* What may be asked for again has left one row, or one that is not gone.
RowsApart(q, r) ==
    /\ Keyed(q.call) /\ Keyed(r.call) => q = r
    /\ call[q.call].by = call[r.call].by =>
         \/ q = r
         \/ /\ ~(Verb(q.call) \in Settling /\ q \notin gone /\ r \notin gone)
            /\ ~(Verb(q.call) \in Moving /\ "version" \in Form(q.call)
                   /\ "version" \in Form(r.call))

\* What a call for a text that was stored before may be answered.
LateCodes(c) ==
    {"ok", "idempotency_unavailable", "store_error"}
      \cup (IF Rechecks(c) THEN {"invalid_request"} ELSE {})

\* What a call names is a row of its host; what is in the way of a key is a row
\* of another, and what is unavailable is gone; and a keyed call made after its
\* row is answered by that row.
Answered(c) ==
    /\ \A k \in DOMAIN call[c].codes :
         /\ call[c].names[k] # 0 =>
              \E r \in rows : /\ r.call = call[c].names[k] /\ r.part = k
                              /\ call[r.call].by = call[c].by
         /\ call[c].codes[k] = "ok" /\ Lands(c) => call[c].names[k] # 0
         /\ call[c].codes[k] = "idempotency_conflict" /\ Verb(c) # "put_relationship" =>
              \E r \in rows : call[r.call].by # call[c].by
         /\ call[c].codes[k] = "idempotency_unavailable" =>
              \E r \in gone : call[r.call].by = call[c].by
    /\ call[c].late => \E r \in rows : call[r.call].by = call[c].by
    /\ call[c].late /\ Keyed(c) /\ Admitted(c) =>
         /\ call[c].stage \in {"sent", "lookup", "answering", "over"}
         /\ \A k \in DOMAIN call[c].codes : call[c].codes[k] \in LateCodes(c)

SurfaceInv ==
    /\ Calls /\ Saws /\ gone \subseteq rows
    /\ \A c \in DOMAIN call : Shape(c) /\ Answered(c)
    /\ \A r \in rows : RowFits(r)
    /\ \A q, r \in rows : RowsApart(q, r)
-----------------------------------------------------------------------------
(* One step of a call *)

Changing == {"sent", "stage", "codes", "names", "events", "traced", "told", "abandoned"}

\* A step of one call leaves the others, and what every call is of, as they were.
Steps(c) ==
    /\ plan' = plan /\ Calls' /\ Len(call') = Len(call) /\ DOMAIN call' = DOMAIN call
    /\ \A d \in DOMAIN call :
         /\ Stays(d) /\ call'[d].by = call[d].by /\ call'[d].surface = call[d].surface
         /\ call'[d].late = call[d].late
         /\ d # c => call'[d] = call[d]

LEMMA Moved ==
  ASSUME Calls, NEW c \in DOMAIN call, NEW changes, Advance(c, changes), plan' = plan,
         DOMAIN changes \subseteq Changing
  PROVE  /\ Steps(c)
         /\ \A f \in Fields : f \notin DOMAIN changes => call'[c][f] = call[c][f]
         /\ \A f \in Fields : f \in DOMAIN changes => call'[c][f] = changes[f]
<1>1. /\ Calls' /\ Len(call') = Len(call) /\ DOMAIN call' = DOMAIN call
      /\ \A d \in DOMAIN call : d # c => call'[d] = call[d]
      /\ \A f \in Fields : f \notin DOMAIN changes => call'[c][f] = call[c][f]
      /\ \A f \in Fields : f \in DOMAIN changes => call'[c][f] = changes[f]
  BY Advances
<1>2. /\ call'[c].by = call[c].by /\ call'[c].surface = call[c].surface
      /\ call'[c].late = call[c].late
  BY <1>1 DEF Fields, Changing
<1>3. \A d \in DOMAIN call :
         /\ call'[d].by = call[d].by /\ call'[d].surface = call[d].surface
         /\ call'[d].late = call[d].late
  BY <1>1, <1>2
<1>4. \A d \in DOMAIN call : Stays(d)
  BY <1>3, Staying
<1>5. QED
  BY <1>1, <1>3, <1>4 DEF Steps

\* What a part was answered stays its answer.
Grows(c) ==
    \A k \in DOMAIN call[c].codes :
        /\ k \in DOMAIN call'[c].codes
        /\ call'[c].codes[k] = call[c].codes[k] /\ call'[c].names[k] = call[c].names[k]

\* The codes, or the names, once a part is settled and those behind it are not
\* tried.
Pads(t, s, x, z) ==
    /\ Len(t) = Len(s) + 1 + Len(z) /\ DOMAIN t = 1 .. Len(s) + 1 + Len(z)
    /\ \A k \in 1 .. Len(s) : t[k] = s[k]
    /\ t[Len(s) + 1] = x
    /\ \A k \in 1 .. Len(s) + 1 + Len(z) : k > Len(s) + 1 => t[k] = z[k - (Len(s) + 1)]

LEMMA Padded ==
  ASSUME NEW S, NEW s \in Seq(S), NEW x \in S, NEW z \in Seq(S), NEW t, t = s \o <<x>> \o z
  PROVE  t \in Seq(S) /\ Pads(t, s, x, z)
<1> DEFINE u == s \o <<x>>
<1>1. /\ u \in Seq(S) /\ Len(u) = Len(s) + 1 /\ \A k \in 1 .. Len(s) : u[k] = s[k]
      /\ u[Len(s) + 1] = x
  BY ConcatProperties, LenProperties
<1>2. t = u \o z
  OBVIOUS
<1> HIDE DEF u
<1>3. Len(s) \in Nat /\ Len(z) \in Nat
  BY LenProperties
<1>4. /\ u \o z \in Seq(S) /\ Len(u \o z) = Len(u) + Len(z)
      /\ \A k \in 1 .. Len(u) + Len(z) :
           (u \o z)[k] = IF k <= Len(u) THEN u[k] ELSE z[k - Len(u)]
  BY <1>1, ConcatProperties
<1>5. /\ t \in Seq(S) /\ Len(t) = Len(u) + Len(z)
      /\ \A k \in 1 .. Len(u) + Len(z) : t[k] = IF k <= Len(u) THEN u[k] ELSE z[k - Len(u)]
  BY <1>2, <1>4
<1>6. DOMAIN t = 1 .. Len(s) + 1 + Len(z)
  BY <1>1, <1>5, LenProperties
<1>7. QED
  BY <1>1, <1>3, <1>5, <1>6 DEF Pads

\* The flag of an answer, whatever the surface.
LEMMA SignalSays ==
  ASSUME NEW c, Shape(c), call[c].stage = "answering"
  PROVE  Signal(c) <=> Succeeded(c)
<1>1. call[c].surface = "cli" /\ Succeeded(c) => Resolved(c)
  BY DEF Shape, Admitted
<1>2. HttpReportStatus(call[c].codes) = 200 <=> Succeeded(c)
  BY DEF HttpReportStatus, HttpStatus, Succeeded
<1>3. CASE call[c].surface = "cli"
  BY <1>1, <1>3 DEF Signal, CliExit, Succeeded
<1>4. CASE call[c].surface = "plane_http"
  BY <1>4 DEF Signal, PlaneStatus, Succeeded
<1>5. CASE call[c].surface \in {"mcp", "plane_mcp"}
  BY <1>5 DEF Signal, McpIsError, PlaneMcpIsError, Succeeded
<1>6. CASE call[c].surface \in {"sdk", "http"}
  BY <1>2, <1>6 DEF Signal
<1>7. QED
  BY <1>3, <1>4, <1>5, <1>6 DEF Shape, Sent, Surface

LEMMA EmbedCodes ==
  ASSUME NEW reply \in Replies
  PROVE  EmbedOne(reply).code
           \in Code \ {"idempotency_conflict", "idempotency_unavailable", "not_attempted"}
<1>1. reply.ended \in Ended
  BY SurfacesAssumption
<1>2. TransportCode(reply.ended) \in {"ok", "deadline_exceeded", "provider_unavailable",
                                      "invalid_provider_response"}
  BY <1>1 DEF TransportCode, Ended
<1>3. BodyCode(reply.items, 1) \in {"ok", "invalid_provider_response", "dimension_mismatch"}
  BY DEF BodyCode, ItemCode
<1>4. QED
  BY <1>2, <1>3 DEF EmbedOne, Code, Refusals, Failures

-----------------------------------------------------------------------------
(* The shape of a call, action by action *)

\* A step before the call was turned away or stored.
LEMMA UnsentShapes ==
  ASSUME Calls, NEW c \in DOMAIN call, Shape(c), Unsent(c)
  PROVE  /\ Steps(c) /\ Shape(c)' /\ Grows(c) /\ call'[c].codes = call[c].codes
         /\ call'[c].stage \in {"sent", "over"}
<1> DEFINE again == SdkSendsAgain(Intent(c), call[c].sent)
<1>1. plan' = plan /\ call[c].stage = "sent" /\ call[c].codes = <<>> /\ call[c].names = <<>>
  BY EmptySeq DEF Unsent, Stay, Shape, Early
<1>2. CASE again
  <2> DEFINE new == [sent |-> call[c].sent + 1]
  <2>1. Advance(c, new)
    BY <1>2 DEF Unsent
  <2>2. Steps(c) /\ call'[c].sent = 2 /\ \A f \in Fields : f # "sent" => call'[c][f] = call[c][f]
    BY <1>1, <1>2, <2>1, Moved DEF SdkSendsAgain, Changing, Fields
  <2>3. /\ call'[c].stage = "sent" /\ call'[c].codes = <<>> /\ call'[c].names = <<>>
        /\ call'[c].events = call[c].events /\ call'[c].traced = call[c].traced
        /\ call'[c].told = call[c].told /\ call'[c].abandoned = call[c].abandoned
        /\ call'[c].late = call[c].late
    BY <1>1, <2>2 DEF Fields
  <2>6. Succeeded(c)' /\ Stays(c)
    BY <2>2, <2>3 DEF Succeeded, Steps
  <2>4. Shape(c)'
    BY <1>1, <2>2, <2>3, <2>6 DEF Shape, Stays, Early, Working
  <2>5. QED
    BY <1>1, <2>2, <2>3, <2>4 DEF Grows
<1>3. CASE ~again
  <2> DEFINE new == [stage |-> "over", told |-> "unreachable"]
  <2>1. Advance(c, new)
    BY <1>3 DEF Unsent
  <2>2. /\ Steps(c) /\ call'[c].stage = "over" /\ call'[c].told = "unreachable"
        /\ \A f \in Fields \ {"stage", "told"} : call'[c][f] = call[c][f]
    BY <1>1, <2>1, Moved DEF Changing, Fields
  <2>3. Shape(c)'
    BY <1>1, <2>2 DEF Shape, Steps, Stays, Fields, Early, Working, Stage
  <2>4. call'[c].codes = call[c].codes /\ call'[c].names = call[c].names
    BY <2>2 DEF Fields
  <2>5. QED
    BY <1>1, <2>2, <2>3, <2>4 DEF Grows
<1>4. QED
  BY <1>2, <1>3

\* A call moves on, with nothing else to show for it.
LEMMA MovesOn ==
  ASSUME Calls, NEW c \in DOMAIN call, NEW s, Advance(c, [stage |-> s]), plan' = plan
  PROVE  /\ Steps(c) /\ Grows(c) /\ call'[c].stage = s
         /\ call'[c].codes = call[c].codes /\ call'[c].names = call[c].names
         /\ call'[c].sent = call[c].sent /\ call'[c].told = call[c].told
         /\ call'[c].events = call[c].events /\ call'[c].traced = call[c].traced
         /\ call'[c].abandoned = call[c].abandoned
         /\ (Succeeded(c) <=> Succeeded(c)')
<1> DEFINE new == [stage |-> s]
<1>1. /\ Steps(c) /\ call'[c].stage = s
      /\ \A f \in Fields \ {"stage"} : call'[c][f] = call[c][f]
  BY Moved DEF Changing, Fields
<1>2. /\ call'[c].codes = call[c].codes /\ call'[c].names = call[c].names
      /\ call'[c].sent = call[c].sent /\ call'[c].told = call[c].told
      /\ call'[c].events = call[c].events /\ call'[c].traced = call[c].traced
      /\ call'[c].abandoned = call[c].abandoned
  BY <1>1 DEF Fields
<1>3. QED
  BY <1>1, <1>2 DEF Grows, Succeeded

\* A call is answered before it reached the store.
LEMMA TurnsAway ==
  ASSUME Calls, NEW c \in DOMAIN call, Shape(c), call[c].stage \in Early,
         NEW code \in Code, NEW name \in Nat, code = "ok" => Admitted(c), plan' = plan,
         Advance(c, [stage |-> "answering", codes |-> <<code>>, names |-> <<name>>])
  PROVE  /\ Steps(c) /\ Shape(c)' /\ Grows(c) /\ call'[c].stage = "answering"
         /\ call'[c].codes = <<code>> /\ call'[c].names = <<name>>
<1>1. /\ Steps(c) /\ call'[c].stage = "answering"
      /\ call'[c].codes = <<code>> /\ call'[c].names = <<name>>
      /\ \A f \in Fields \ {"stage", "codes", "names"} : call'[c][f] = call[c][f]
  BY Moved DEF Changing, Fields
<1>2. /\ call'[c].sent = call[c].sent /\ call'[c].told = call[c].told
      /\ call'[c].events = call[c].events /\ call'[c].traced = call[c].traced
      /\ call'[c].abandoned = call[c].abandoned /\ call'[c].late = call[c].late
  BY <1>1 DEF Fields
<1>3. <<code>> \in Seq(Code) /\ Len(<<code>>) = 1 /\ <<name>> \in Seq(Nat) /\ Len(<<name>>) = 1
  OBVIOUS
<1>4. (Succeeded(c)' <=> code = "ok") /\ Stays(c)
  BY <1>1 DEF Succeeded, Steps
<1>5. Grows(c)
  BY DEF Shape, Early, Grows
<1>6. Shape(c)'
  BY <1>1, <1>2, <1>3, <1>4 DEF Shape, Stays, Early, Working, Stage
<1>7. QED
  BY <1>1, <1>5, <1>6

LEMMA DecodeShapes ==
  ASSUME Calls, NEW c \in DOMAIN call, Shape(c), Decode(c)
  PROVE  /\ Steps(c) /\ Shape(c)' /\ Grows(c)
         /\ \/ /\ ~Admitted(c) /\ call'[c].codes = <<"invalid_request">>
               /\ call'[c].names = <<0>>
            \/ /\ Admitted(c) /\ call'[c].codes = call[c].codes
               /\ Keyed(c) => call'[c].stage = "lookup"
<1>1. plan' = plan /\ call[c].stage = "sent"
  BY DEF Decode, Stay
<1>2. CASE ~Admitted(c)
  <2>1. Advance(c, [stage |-> "answering", codes |-> <<"invalid_request">>, names |-> <<0>>])
    BY <1>2 DEF Decode
  <2>2. "invalid_request" \in Code
    BY DEF Code, Refusals
  <2>3. QED
    BY <1>1, <1>2, <2>1, <2>2, TurnsAway DEF Early
<1>3. CASE Admitted(c)
  <2> DEFINE s == IF Keyed(c) THEN "lookup"
             ELSE IF Verb(c) \in TextWrites \cup Revisions \cup Queries THEN "embedding"
             ELSE IF Parts(c) = 0 THEN (IF Verb(c) = "write_episode" THEN "answering" ELSE "tracing")
             ELSE "storing"
  <2>1. Advance(c, [stage |-> s])
    BY <1>3 DEF Decode
  <2>2. /\ s = "lookup" <=> Keyed(c)
        /\ s = "embedding" => Verb(c) \in TextWrites \cup Revisions \cup Queries
        /\ s \in {"answering", "tracing"} => Parts(c) = 0
        /\ s = "storing" => Parts(c) # 0
        /\ s \in {"lookup", "embedding", "answering", "tracing", "storing"}
    OBVIOUS
  <2> HIDE DEF s
  <2>3. /\ Steps(c) /\ Grows(c) /\ call'[c].stage = s
        /\ call'[c].codes = call[c].codes /\ call'[c].names = call[c].names
        /\ call'[c].sent = call[c].sent /\ call'[c].told = call[c].told
        /\ call'[c].events = call[c].events /\ call'[c].traced = call[c].traced
        /\ call'[c].abandoned = call[c].abandoned
        /\ (Succeeded(c) <=> Succeeded(c)')
    BY <1>1, <2>1, MovesOn
  <2>4. Parts(c) \in Nat /\ Needed(c) > 0
    BY PartsKnown DEF Shape
  <2>5. Stays(c) /\ Succeeded(c) /\ Len(call[c].codes) = 0 /\ call'[c].late = call[c].late
    BY <1>1, <2>3 DEF Steps, Shape, Early, Succeeded
  <2>6. Shape(c)'
    BY <1>1, <1>3, <2>2, <2>3, <2>4, <2>5 DEF Shape, Stays, Early, Working, Stage
  <2>7. QED
    BY <1>3, <2>2, <2>3, <2>6
<1>4. QED
  BY <1>2, <1>3

LEMMA ExpiresShapes ==
  ASSUME Calls, NEW c \in DOMAIN call, Shape(c), Expires(c)
  PROVE  /\ Steps(c) /\ Shape(c)' /\ Grows(c)
         /\ call'[c].codes = <<"invalid_request">> /\ call'[c].names = <<0>>
<1>1. plan' = plan /\ call[c].stage = "embedding"
  BY DEF Expires, Stay
<1>2. Advance(c, [stage |-> "answering", codes |-> <<"invalid_request">>, names |-> <<0>>])
  BY DEF Expires
<1>3. "invalid_request" \in Code
  BY DEF Code, Refusals
<1>4. QED
  BY <1>1, <1>2, <1>3, TurnsAway DEF Early

LEMMA EmbedShapes ==
  ASSUME Calls, NEW c \in DOMAIN call, Shape(c), Embed(c)
  PROVE  /\ Steps(c) /\ Shape(c)' /\ Grows(c)
         /\ \/ call'[c].codes = call[c].codes
            \/ \E code \in Code \ {"ok", "idempotency_conflict", "idempotency_unavailable"} :
                 call'[c].codes = <<code>> /\ call'[c].names = <<0>>
<1>1. plan' = plan /\ call[c].stage = "embedding"
  BY DEF Embed, Stay
<1>2. PICK reply \in Replies :
        LET code == IF "embedding" \in Form(c) THEN "ok" ELSE EmbedOne(reply).code IN
        Advance(c, IF code = "ok" THEN [stage |-> "storing"]
                   ELSE [stage |-> "answering", codes |-> <<code>>, names |-> <<0>>])
  BY DEF Embed
<1> DEFINE code == IF "embedding" \in Form(c) THEN "ok" ELSE EmbedOne(reply).code
<1>3. code \in Code \ {"idempotency_conflict", "idempotency_unavailable"}
  BY EmbedCodes DEF Code
<1>4. /\ code = "ok" => Advance(c, [stage |-> "storing"])
      /\ code # "ok" => Advance(c, [stage |-> "answering", codes |-> <<code>>, names |-> <<0>>])
  BY <1>2
<1> HIDE DEF code
<1>5. CASE code # "ok"
  BY <1>1, <1>3, <1>4, <1>5, TurnsAway DEF Early
<1>6. CASE code = "ok"
  <2>1. /\ Steps(c) /\ Grows(c) /\ call'[c].stage = "storing"
        /\ call'[c].codes = call[c].codes /\ call'[c].names = call[c].names
        /\ call'[c].sent = call[c].sent /\ call'[c].told = call[c].told
        /\ call'[c].events = call[c].events /\ call'[c].traced = call[c].traced
        /\ call'[c].abandoned = call[c].abandoned
        /\ (Succeeded(c) <=> Succeeded(c)')
    BY <1>1, <1>4, <1>6, MovesOn
  <2>2. Parts(c) = 1
    BY <1>1, PartsKnown DEF Shape
  <2>3. Stays(c) /\ Succeeded(c) /\ Len(call[c].codes) = 0 /\ call'[c].late = call[c].late
    BY <1>1, <2>1 DEF Steps, Shape, Early, Succeeded
  <2>4. Shape(c)'
    BY <1>1, <2>1, <2>2, <2>3 DEF Shape, Stays, Early, Working, Stage
  <2>5. QED
    BY <2>1, <2>4
<1>7. QED
  BY <1>5, <1>6

\* What a key answers with is a code, and the name of a row or of none.
LEMMA KnownCodes ==
  ASSUME NEW c, Repeated(c) # {}, \A r \in rows : r.call \in Nat
  PROVE  /\ Known(c).code \in {"ok", "idempotency_conflict", "idempotency_unavailable"}
         /\ Known(c).name \in Nat
         /\ Known(c).code = "ok" => \E r \in Repeated(c) : Same(c, r) /\ Known(c).name = r.call
         /\ Known(c).code # "ok" => Known(c).name = 0
         /\ Known(c).code = "idempotency_conflict" => \E r \in Repeated(c) : ~Same(c, r)
         /\ Known(c).code = "idempotency_unavailable" =>
              \E r \in Repeated(c) : Same(c, r) /\ r \in gone
<1> DEFINE r == CHOOSE r \in Repeated(c) : TRUE
<1>1. r \in Repeated(c) /\ r \in rows
  BY DEF Repeated
<1>2. Known(c) = IF ~Same(c, r) THEN [code |-> "idempotency_conflict", name |-> 0]
                 ELSE IF r \in gone THEN [code |-> "idempotency_unavailable", name |-> 0]
                 ELSE [code |-> "ok", name |-> r.call]
  BY DEF Known
<1> HIDE DEF r
<1>3. CASE ~Same(c, r)
  BY <1>1, <1>2, <1>3
<1>4. CASE Same(c, r) /\ r \in gone
  BY <1>1, <1>2, <1>4
<1>5. CASE Same(c, r) /\ r \notin gone
  BY <1>1, <1>2, <1>5
<1>6. QED
  BY <1>3, <1>4, <1>5

\* A look at the receipts finds none, or fails, or answers with what is known.
LEMMA LookupShapes ==
  ASSUME Calls, NEW c \in DOMAIN call, Shape(c), Lookup(c), \A r \in rows : r.call \in Nat
  PROVE  /\ Steps(c) /\ Shape(c)' /\ Grows(c) /\ Admitted(c)
         /\ \/ call'[c].codes = call[c].codes /\ Repeated(c) = {}
            \/ /\ call'[c].stage = "answering" /\ call'[c].names = <<0>>
               /\ \/ call'[c].codes = <<"store_error">>
                  \/ call'[c].codes = <<"invalid_request">> /\ Rechecks(c)
            \/ /\ Repeated(c) # {} /\ call'[c].stage = "answering"
               /\ call'[c].codes = <<Known(c).code>> /\ call'[c].names = <<Known(c).name>>
<1>1. plan' = plan /\ call[c].stage = "lookup" /\ Admitted(c)
  BY DEF Lookup, Stay, Shape, Working
<1>2. CASE Repeated(c) = {} /\ Advance(c, [stage |-> "embedding"])
  <2>1. /\ Steps(c) /\ Grows(c) /\ call'[c].stage = "embedding"
        /\ call'[c].codes = call[c].codes /\ call'[c].names = call[c].names
        /\ call'[c].sent = call[c].sent /\ call'[c].told = call[c].told
        /\ call'[c].events = call[c].events /\ call'[c].traced = call[c].traced
        /\ call'[c].abandoned = call[c].abandoned
        /\ (Succeeded(c) <=> Succeeded(c)')
    BY <1>1, <1>2, MovesOn
  <2>2. Verb(c) \in TextWrites
    BY <1>1 DEF Shape, Keyed
  <2>3. Stays(c) /\ call'[c].late = call[c].late
    BY <2>1 DEF Steps
  <2>4. Shape(c)'
    BY <1>1, <2>1, <2>2, <2>3 DEF Shape, Stays, Early, Working, Stage
  <2>5. QED
    BY <1>1, <1>2, <2>1, <2>4
<1>3. CASE ~(Repeated(c) = {} /\ Advance(c, [stage |-> "embedding"]))
  <2>1. PICK code \in {"store_error"}
                 \cup (IF Repeated(c) = {} THEN {} ELSE {Known(c).code})
                 \cup (IF Repeated(c) # {} /\ Rechecks(c) THEN {"invalid_request"} ELSE {}) :
          Advance(c, [stage |-> "answering", codes |-> <<code>>,
                      names |-> <<IF code = "ok" THEN Known(c).name ELSE 0>>])
    BY <1>3 DEF Lookup
  <2>2. PICK name : name = IF code = "ok" THEN Known(c).name ELSE 0
    OBVIOUS
  <2>3. /\ \/ code = "store_error"
           \/ code = "invalid_request" /\ Rechecks(c)
           \/ code = Known(c).code /\ Repeated(c) # {}
        /\ code = "ok" => code = Known(c).code /\ Repeated(c) # {}
    BY <2>1
  <2>4. Repeated(c) # {} =>
          /\ Known(c).code \in {"ok", "idempotency_conflict", "idempotency_unavailable"}
          /\ Known(c).name \in Nat /\ (Known(c).code # "ok" => Known(c).name = 0)
    BY KnownCodes
  <2>5. code \in Code /\ name \in Nat
    BY <2>2, <2>3, <2>4 DEF Code, Refusals, Failures
  <2>6. Advance(c, [stage |-> "answering", codes |-> <<code>>, names |-> <<name>>])
    BY <2>1, <2>2
  <2>7. /\ Steps(c) /\ Shape(c)' /\ Grows(c) /\ call'[c].stage = "answering"
        /\ call'[c].codes = <<code>> /\ call'[c].names = <<name>>
    BY <1>1, <2>5, <2>6, TurnsAway DEF Early
  <2>8. code # "ok" => name = 0
    BY <2>2
  <2>9. code = Known(c).code /\ Repeated(c) # {} => name = Known(c).name
    BY <2>2, <2>4
  <2>10. QED
    BY <1>1, <2>3, <2>7, <2>8, <2>9
<1>4. QED
  BY <1>2, <1>3

\* The end of an operation: its code and name, and nothing for what is not tried.
LEMMA Settles ==
  ASSUME Calls, NEW c \in DOMAIN call, Shape(c), call[c].stage = "storing",
         NEW code \in Code, NEW name \in Nat, Settle(c, code, name), plan' = plan
  PROVE  /\ Steps(c) /\ Shape(c)' /\ Grows(c)
         /\ call'[c].stage \in {"storing", "tracing", "answering"}
         /\ Row(c).part \in DOMAIN call'[c].codes
         /\ call'[c].codes[Row(c).part] = code /\ call'[c].names[Row(c).part] = name
         /\ \A k \in DOMAIN call'[c].codes :
              \/ k \in DOMAIN call[c].codes
              \/ k = Row(c).part
              \/ call'[c].codes[k] = "not_attempted" /\ call'[c].names[k] = 0
<1> DEFINE n == Len(call[c].codes)
           m == IF code = "ok" THEN 0 ELSE Parts(c) - (n + 1)
           untried == [k \in 1 .. m |-> "not_attempted"]
           unnamed == [k \in 1 .. m |-> 0]
           codes == call[c].codes \o <<code>> \o untried
           names == call[c].names \o <<name>> \o unnamed
           s == IF ~(code # "ok" \/ Parts(c) - (n + 1) = 0) THEN "storing"
                ELSE IF Traces(c) /\ (Verb(c) = "hard_recall" => code = "ok") THEN "tracing"
                ELSE "answering"
<1>1. Advance(c, [codes |-> codes, names |-> names, stage |-> s])
  BY DEF Settle
<1>2. /\ Parts(c) \in Nat /\ Needed(c) > 0 /\ n \in Nat /\ n < Parts(c) /\ m \in Nat
      /\ code # "ok" => m = Parts(c) - (n + 1)
      /\ call[c].codes \in Seq(Code) /\ call[c].names \in Seq(Nat)
      /\ Len(call[c].codes) = n /\ Len(call[c].names) = n /\ Row(c).part = n + 1
      /\ DOMAIN call[c].codes = 1 .. n /\ DOMAIN call[c].names = 1 .. n
      /\ code = "ok" => m = 0
  BY PartsKnown, LenProperties DEF Shape, Row
<1> HIDE DEF m
<1>15. /\ untried \in Seq(Code) /\ Len(untried) = m
       /\ \A k \in 1 .. m : untried[k] = "not_attempted"
  <2>1. "not_attempted" \in Code
    BY DEF Code
  <2>2. QED
    BY <1>2, <2>1, InSeq
<1>16. unnamed \in Seq(Nat) /\ Len(unnamed) = m /\ \A k \in 1 .. m : unnamed[k] = 0
  BY <1>2, InSeq
<1> HIDE DEF n, untried, unnamed, codes, names
<1>3. /\ codes \in Seq(Code) /\ Len(codes) = n + 1 + m /\ DOMAIN codes = 1 .. n + 1 + m
      /\ \A k \in 1 .. n : codes[k] = call[c].codes[k]
      /\ codes[n + 1] = code
      /\ \A k \in 1 .. n + 1 + m : k > n + 1 => codes[k] = "not_attempted"
  <2>4. codes = call[c].codes \o <<code>> \o untried
    BY DEF codes
  <2>5. codes \in Seq(Code) /\ Pads(codes, call[c].codes, code, untried)
    BY <1>2, <1>15, <2>4, Padded
  <2>1. /\ codes \in Seq(Code) /\ Len(codes) = n + 1 + m /\ DOMAIN codes = 1 .. n + 1 + m
        /\ \A k \in 1 .. n : codes[k] = call[c].codes[k]
        /\ codes[n + 1] = code
        /\ \A k \in 1 .. n + 1 + m : k > n + 1 => codes[k] = untried[k - (n + 1)]
    BY <1>2, <1>15, <2>5 DEF Pads
  <2>2. \A k \in 1 .. n + 1 + m : k > n + 1 => k - (n + 1) \in 1 .. m
    BY <1>2
  <2>3. QED
    BY <1>15, <2>1, <2>2
<1>4. /\ names \in Seq(Nat) /\ Len(names) = n + 1 + m /\ DOMAIN names = 1 .. n + 1 + m
      /\ \A k \in 1 .. n : names[k] = call[c].names[k]
      /\ names[n + 1] = name
      /\ \A k \in 1 .. n + 1 + m : k > n + 1 => names[k] = 0
  <2>4. names = call[c].names \o <<name>> \o unnamed
    BY DEF names
  <2>5. names \in Seq(Nat) /\ Pads(names, call[c].names, name, unnamed)
    BY <1>2, <1>16, <2>4, Padded
  <2>1. /\ names \in Seq(Nat) /\ Len(names) = n + 1 + m /\ DOMAIN names = 1 .. n + 1 + m
        /\ \A k \in 1 .. n : names[k] = call[c].names[k]
        /\ names[n + 1] = name
        /\ \A k \in 1 .. n + 1 + m : k > n + 1 => names[k] = unnamed[k - (n + 1)]
    BY <1>2, <1>16, <2>5 DEF Pads
  <2>2. \A k \in 1 .. n + 1 + m : k > n + 1 => k - (n + 1) \in 1 .. m
    BY <1>2
  <2>3. QED
    BY <1>16, <2>1, <2>2
<1>5. /\ s \in {"storing", "tracing", "answering"}
      /\ s = "storing" => code = "ok" /\ n + 1 < Parts(c)
  BY <1>2 DEF s
<1>6. m = 0 \/ code # "ok"
  BY <1>2
<1> HIDE DEF s
<1>7. /\ Steps(c) /\ call'[c].stage = s /\ call'[c].codes = codes /\ call'[c].names = names
      /\ \A f \in Fields \ {"stage", "codes", "names"} : call'[c][f] = call[c][f]
  BY <1>1, Moved DEF Changing, Fields
<1>8. /\ call'[c].sent = call[c].sent /\ call'[c].told = call[c].told
      /\ call'[c].events = call[c].events /\ call'[c].traced = call[c].traced
      /\ call'[c].abandoned = call[c].abandoned /\ call'[c].late = call[c].late
  BY <1>7 DEF Fields
<1>9. Succeeded(c)' <=> code = "ok"
  <2>1. \A k \in 1 .. n : call[c].codes[k] = "ok"
    BY <1>2 DEF Shape, Succeeded
  <2>2. Succeeded(c)' <=> \A k \in 1 .. n + 1 + m : codes[k] = "ok"
    BY <1>3, <1>7 DEF Succeeded
  <2>3. CASE code = "ok"
    <3>1. \A k \in 1 .. n + 1 + m : k \in 1 .. n \/ k = n + 1
      BY <1>2, <1>6, <2>3
    <3>2. QED
      BY <1>3, <2>1, <2>2, <2>3, <3>1
  <2>4. CASE code # "ok"
    <3>1. n + 1 \in 1 .. n + 1 + m
      BY <1>2
    <3>2. QED
      BY <1>3, <2>2, <2>4, <3>1
  <2>5. QED
    BY <2>3, <2>4
<1>10. Grows(c)
  <2>1. call'[c].codes = codes /\ call'[c].names = names
    BY <1>7
  <2>2. \A k \in 1 .. n : k \in DOMAIN codes /\ codes[k] = call[c].codes[k]
                            /\ names[k] = call[c].names[k]
    BY <1>2, <1>3, <1>4
  <2>3. DOMAIN call[c].codes = 1 .. n
    BY <1>2
  <2>4. QED
    BY <2>1, <2>2, <2>3 DEF Grows
<1>11. codes # <<>> /\ (Parts(c) = 1 => Len(codes) <= 1)
  BY <1>2, <1>3, <1>6
<1>12. /\ s = "storing" => Len(codes) < Parts(c)
       /\ call[c].events = 0 /\ ~call[c].traced /\ Admitted(c) /\ call[c].told = "none"
  BY <1>2, <1>3, <1>5, <1>6 DEF Shape, Working
<1>13. Shape(c)'
  <2>1. Stays(c)
    BY <1>7 DEF Steps
  <2>2. QED
    BY <1>2, <1>3, <1>4, <1>5, <1>7, <1>8, <1>9, <1>11, <1>12, <2>1
    DEF Shape, Stays, Early, Working, Stage
<1>14. /\ n + 1 \in DOMAIN codes /\ DOMAIN call[c].codes = 1 .. n
       /\ \A k \in DOMAIN codes :
            \/ k \in 1 .. n
            \/ k = n + 1
            \/ codes[k] = "not_attempted" /\ names[k] = 0
  <2>1. n + 1 \in DOMAIN codes /\ DOMAIN call[c].codes = 1 .. n
    BY <1>2, <1>3
  <2>2. \A k \in 1 .. n + 1 + m : k \in 1 .. n \/ k = n + 1 \/ k > n + 1
    BY <1>2
  <2>3. ASSUME NEW k \in DOMAIN codes, k > n + 1 PROVE codes[k] = "not_attempted" /\ names[k] = 0
    BY <1>3, <1>4, <2>3
  <2>4. QED
    BY <1>3, <2>1, <2>2, <2>3
<1>17. /\ Row(c).part \in DOMAIN call'[c].codes
       /\ call'[c].codes[Row(c).part] = code /\ call'[c].names[Row(c).part] = name
       /\ \A k \in DOMAIN call'[c].codes :
            \/ k \in DOMAIN call[c].codes
            \/ k = Row(c).part
            \/ call'[c].codes[k] = "not_attempted" /\ call'[c].names[k] = 0
  BY <1>2, <1>3, <1>4, <1>7, <1>14
<1>18. QED
  BY <1>5, <1>7, <1>10, <1>13, <1>17

LEMMA TraceShapes ==
  ASSUME Calls, NEW c \in DOMAIN call, Shape(c), Trace(c)
  PROVE  Steps(c) /\ Shape(c)' /\ Grows(c) /\ call'[c].codes = call[c].codes
         /\ call[c].stage = "tracing"
<1> DEFINE after == IF Closes(c) THEN "closing" ELSE "answering"
           whole == call[c].events + 1 = Needed(c)
           s == IF whole THEN after ELSE "tracing"
<1>1. plan' = plan /\ call[c].stage = "tracing" /\ Admitted(c) /\ Needed(c) \in Nat
  BY PartsKnown DEF Trace, Stay, Shape, Working
<1>2. \/ Advance(c, [events |-> call[c].events + 1, traced |-> whole, stage |-> s])
      \/ Advance(c, [stage |-> after])
  BY DEF Trace
<1>3. after \in {"closing", "answering"} /\ (after = "closing" => Closes(c))
  OBVIOUS
<1>4. /\ s \in {"tracing", "closing", "answering"} /\ (s = "closing" => Closes(c))
      /\ s = "tracing" <=> ~whole
  OBVIOUS
<1>5. /\ call[c].events + 1 \in 0 .. Needed(c) /\ (~whole => call[c].events + 1 < Needed(c))
      /\ whole \in BOOLEAN /\ ~call[c].traced
  BY <1>1 DEF Shape
<1> HIDE DEF after, s
<1>6. CASE Advance(c, [events |-> call[c].events + 1, traced |-> whole, stage |-> s])
  <2>1. /\ Steps(c) /\ call'[c].stage = s /\ call'[c].events = call[c].events + 1
        /\ call'[c].traced = whole
        /\ \A f \in Fields \ {"stage", "events", "traced"} : call'[c][f] = call[c][f]
    BY <1>1, <1>6, Moved DEF Changing, Fields
  <2>2. /\ call'[c].sent = call[c].sent /\ call'[c].told = call[c].told
        /\ call'[c].codes = call[c].codes /\ call'[c].names = call[c].names
        /\ call'[c].abandoned = call[c].abandoned /\ call'[c].late = call[c].late
    BY <2>1 DEF Fields
  <2>3. Stays(c) /\ (Succeeded(c) <=> Succeeded(c)')
    BY <2>1, <2>2 DEF Steps, Succeeded
  <2>4. Closes(c) <=> Closes(c)'
    BY <2>2, <2>3 DEF Closes, Stays
  <2>5. (call'[c].traced <=> whole) /\ Needed(c)' = Needed(c)
    BY <2>1, <2>3 DEF Stays
  <2> HIDE DEF whole
  <2>6. Shape(c)'
    BY <1>1, <1>4, <1>5, <2>1, <2>2, <2>3, <2>4, <2>5 DEF Shape, Stays, Early, Working, Stage, whole
  <2>7. QED
    BY <1>1, <2>1, <2>2, <2>6 DEF Grows
<1>7. CASE Advance(c, [stage |-> after])
  <2>1. /\ Steps(c) /\ Grows(c) /\ call'[c].stage = after
        /\ call'[c].codes = call[c].codes /\ call'[c].names = call[c].names
        /\ call'[c].sent = call[c].sent /\ call'[c].told = call[c].told
        /\ call'[c].events = call[c].events /\ call'[c].traced = call[c].traced
        /\ call'[c].abandoned = call[c].abandoned
        /\ (Succeeded(c) <=> Succeeded(c)')
    BY <1>1, <1>7, MovesOn
  <2>2. Stays(c) /\ call'[c].late = call[c].late
    BY <2>1 DEF Steps
  <2>3. Closes(c) <=> Closes(c)'
    BY <2>1, <2>2 DEF Closes, Stays
  <2>4. Shape(c)'
    BY <1>1, <1>3, <2>1, <2>2, <2>3 DEF Shape, Stays, Early, Working, Stage
  <2>5. QED
    BY <1>1, <2>1, <2>4
<1>8. QED
  BY <1>2, <1>6, <1>7

LEMMA ReplyShapes ==
  ASSUME Calls, NEW c \in DOMAIN call, Shape(c), Reply(c)
  PROVE  Steps(c) /\ Shape(c)' /\ Grows(c) /\ call'[c].codes = call[c].codes
         /\ call[c].stage = "answering" /\ call'[c].stage = "over"
<1> DEFINE told == IF Signal(c) THEN "success" ELSE "failure"
<1>1. plan' = plan /\ call[c].stage = "answering" /\ (Signal(c) <=> Succeeded(c))
  BY SignalSays DEF Reply, Stay
<1>2. Advance(c, [stage |-> "over", told |-> told])
  BY DEF Reply
<1>3. told \in {"success", "failure"} /\ (told = "success" <=> Succeeded(c))
  BY <1>1
<1> HIDE DEF told
<1>4. /\ Steps(c) /\ call'[c].stage = "over" /\ call'[c].told = told
      /\ \A f \in Fields \ {"stage", "told"} : call'[c][f] = call[c][f]
  BY <1>1, <1>2, Moved DEF Changing, Fields
<1>5. /\ call'[c].sent = call[c].sent /\ call'[c].events = call[c].events
      /\ call'[c].traced = call[c].traced
      /\ call'[c].codes = call[c].codes /\ call'[c].names = call[c].names
      /\ call'[c].abandoned = call[c].abandoned /\ call'[c].late = call[c].late
  BY <1>4 DEF Fields
<1>6. Stays(c) /\ (Succeeded(c) <=> Succeeded(c)')
  BY <1>4, <1>5 DEF Steps, Succeeded
<1>7. Shape(c)'
  BY <1>1, <1>3, <1>4, <1>5, <1>6 DEF Shape, Stays, Early, Working, Stage
<1>8. QED
  BY <1>1, <1>4, <1>5, <1>7 DEF Grows

LEMMA GiveUpShapes ==
  ASSUME Calls, NEW c \in DOMAIN call, Shape(c), GiveUp(c)
  PROVE  Steps(c) /\ Shape(c)' /\ Grows(c) /\ call'[c].codes = call[c].codes
         /\ call'[c].stage = call[c].stage
<1>1. plan' = plan /\ Advance(c, [abandoned |-> TRUE])
  BY DEF GiveUp, Stay
<1>2. /\ Steps(c) /\ call'[c].abandoned = TRUE
      /\ \A f \in Fields \ {"abandoned"} : call'[c][f] = call[c][f]
  BY <1>1, Moved DEF Changing, Fields
<1>3. /\ call'[c].sent = call[c].sent /\ call'[c].events = call[c].events
      /\ call'[c].traced = call[c].traced /\ call'[c].told = call[c].told
      /\ call'[c].codes = call[c].codes /\ call'[c].names = call[c].names
      /\ call'[c].stage = call[c].stage /\ call'[c].late = call[c].late
  BY <1>2 DEF Fields
<1>4. Stays(c) /\ (Succeeded(c) <=> Succeeded(c)')
  BY <1>2, <1>3 DEF Steps, Succeeded
<1>5. Closes(c) <=> Closes(c)'
  BY <1>3, <1>4 DEF Closes, Stays
<1>6. Shape(c)'
  <2> DEFINE s == call[c].stage
  <2>1. call'[c].stage = s /\ call'[c].told = call[c].told
    BY <1>3
  <2> HIDE DEF s
  <2>2. QED
    BY <1>2, <1>3, <1>4, <1>5, <2>1 DEF Shape, Stays, Early, Working, Stage
<1>7. QED
  BY <1>2, <1>3, <1>6 DEF Grows

LEMMA CloseShapes ==
  ASSUME Calls, NEW c \in DOMAIN call, Shape(c), Close(c)
  PROVE  /\ Steps(c) /\ Shape(c)' /\ Grows(c) /\ call'[c].stage = "answering"
         /\ Verb(c) = "ingest_compaction" /\ Admitted(c)
         /\ version' = version /\ saw' = saw /\ gone' = gone
         /\ DOMAIN call'[c].codes = DOMAIN call[c].codes \cup {Row(c).part}
         /\ call'[c].codes[Row(c).part] \in {"ok", "store_error"}
         /\ rows' \in {rows, rows \cup {Row(c)}}
         /\ call'[c].names[Row(c).part] # 0 =>
              call'[c].names[Row(c).part] = c /\ rows' = rows \cup {Row(c)}
<1>1. /\ plan' = plan /\ call[c].stage = "closing" /\ Verb(c) = "ingest_compaction" /\ Admitted(c)
      /\ version' = version /\ saw' = saw /\ gone' = gone /\ Succeeded(c) /\ c \in Nat
  BY LenProperties DEF Close, Shape, Working, Closes, Calls
<1>2. PICK landed \in BOOLEAN, code \in {"ok", "store_error"} :
        /\ Advance(c, [stage |-> "answering", codes |-> Append(call[c].codes, code),
                       names |-> Append(call[c].names, IF landed /\ code = "ok" THEN c ELSE 0)])
        /\ rows' = IF landed THEN rows \cup {Row(c)} ELSE rows
  BY DEF Close
<1> DEFINE n == Len(call[c].codes)
           name == IF landed /\ code = "ok" THEN c ELSE 0
           codes == Append(call[c].codes, code)
           names == Append(call[c].names, name)
<1>3. /\ n \in Nat /\ call[c].codes \in Seq(Code) /\ call[c].names \in Seq(Nat)
      /\ Len(call[c].names) = n /\ DOMAIN call[c].codes = 1 .. n /\ Row(c).part = n + 1
      /\ name \in Nat /\ code \in Code /\ (name # 0 => name = c /\ landed)
  BY <1>1, LenProperties DEF Shape, Row, Code, Failures
<1>4. /\ codes \in Seq(Code) /\ Len(codes) = n + 1 /\ DOMAIN codes = 1 .. n + 1
      /\ codes[n + 1] = code /\ \A k \in 1 .. n : codes[k] = call[c].codes[k]
  BY <1>3, AppendProperties, LenProperties
<1>5. /\ names \in Seq(Nat) /\ Len(names) = n + 1
      /\ names[n + 1] = name /\ \A k \in 1 .. n : names[k] = call[c].names[k]
  BY <1>3, AppendProperties
<1> HIDE DEF name, codes, names, n
<1>6. /\ Steps(c) /\ call'[c].stage = "answering" /\ call'[c].codes = codes
      /\ call'[c].names = names
      /\ \A f \in Fields \ {"stage", "codes", "names"} : call'[c][f] = call[c][f]
  <2>1. Advance(c, [stage |-> "answering", codes |-> codes, names |-> names])
    BY <1>2 DEF codes, names, name
  <2>2. QED
    BY <1>1, <2>1, Moved DEF Changing, Fields
<1>7. /\ call'[c].sent = call[c].sent /\ call'[c].told = call[c].told
      /\ call'[c].events = call[c].events /\ call'[c].traced = call[c].traced
      /\ call'[c].abandoned = call[c].abandoned /\ call'[c].late = call[c].late
  BY <1>6 DEF Fields
<1>8. call'[c].codes # <<>> /\ Stays(c) /\ call[c].told = "none"
  BY <1>1, <1>3, <1>4, <1>6 DEF Steps, Shape
<1>9. Shape(c)'
  BY <1>1, <1>3, <1>4, <1>5, <1>6, <1>7, <1>8 DEF Shape, Stays, Early, Working, Stage
<1>10. Grows(c)
  <2>1. call'[c].codes = codes /\ call'[c].names = names
    BY <1>6
  <2>2. \A k \in 1 .. n : k \in DOMAIN codes /\ codes[k] = call[c].codes[k]
                            /\ names[k] = call[c].names[k]
    BY <1>3, <1>4, <1>5
  <2>3. QED
    BY <1>3, <2>1, <2>2 DEF Grows
<1>11. DOMAIN call'[c].codes = DOMAIN call[c].codes \cup {Row(c).part}
  BY <1>3, <1>4, <1>6
<1>12. QED
  BY <1>1, <1>2, <1>3, <1>4, <1>5, <1>6, <1>9, <1>10, <1>11

-----------------------------------------------------------------------------
(* What a step tells, and what it leaves *)

\* What the new parts of an answer say is so.
Tells(c) ==
    \A k \in DOMAIN call'[c].codes : k \notin DOMAIN call[c].codes =>
      /\ call'[c].names[k] # 0 =>
           \E r \in rows' : /\ r.call = call'[c].names[k] /\ r.part = k
                            /\ call[r.call].by = call[c].by
      /\ call'[c].codes[k] = "ok" /\ Lands(c) => call'[c].names[k] # 0
      /\ call'[c].codes[k] = "idempotency_conflict" /\ Verb(c) # "put_relationship" =>
           \E r \in rows : call[r.call].by # call[c].by
      /\ call'[c].codes[k] = "idempotency_unavailable" =>
           \E r \in gone' : call[r.call].by = call[c].by

StaysLate(c) ==
    call[c].late /\ Keyed(c) /\ Admitted(c) =>
      /\ call'[c].stage \in {"sent", "lookup", "answering", "over"}
      /\ \A k \in DOMAIN call'[c].codes : call'[c].codes[k] \in LateCodes(c)

\* A row at most: of the operation that was stored, which no row repeats, or of
\* the checkpoint that closes a compaction.  What is gone stays gone.
Leaves(c) ==
    /\ gone \subseteq gone' /\ gone' \subseteq rows'
    /\ \/ rows' = rows /\ version' = version
       \/ /\ rows' = rows \cup {Row(c)} /\ Admitted(c) /\ Row(c).part \in DOMAIN call'[c].codes
          /\ \/ call'[c].codes[Row(c).part] \in {"ok", "store_error"}
             \/ call'[c].codes[Row(c).part] = "idempotency_unavailable" /\ Row(c) \in gone'
          /\ \/ Verb(c) = "ingest_compaction" /\ version' = version
             \/ /\ Repeated(c) = {} /\ Fresh(c)
                /\ version' = IF Verb(c) \in Moving THEN version + 1 ELSE version

Works(c) ==
    /\ Steps(c) /\ Shape(c)' /\ Grows(c)
    /\ Tells(c) /\ StaysLate(c) /\ Leaves(c) /\ saw' = saw

\* A key, or the content of a settling write, is answered by the one row it has.
LEMMA KnownFacts ==
  ASSUME SurfaceInv, NEW c \in DOMAIN call, Admitted(c), Repeated(c) # {}
  PROVE  /\ Known(c).code \in {"ok", "idempotency_conflict", "idempotency_unavailable"}
         /\ Known(c).name \in Nat
         /\ Known(c).code = "ok" =>
              /\ Known(c).name # 0
              /\ \E r \in rows : /\ r.call = Known(c).name /\ r.part = 1
                                 /\ call[r.call].by = call[c].by
         /\ Known(c).code # "ok" => Known(c).name = 0
         /\ Known(c).code = "idempotency_conflict" /\ Verb(c) # "put_relationship" =>
              \E r \in rows : call[r.call].by # call[c].by
         /\ Known(c).code = "idempotency_unavailable" =>
              \E r \in gone : call[r.call].by = call[c].by
         /\ Keyed(c) /\ (\E r \in rows : call[r.call].by = call[c].by) =>
              Known(c).code # "idempotency_conflict"
         /\ Verb(c) \in TextWrites \cup Settling
<1>1. /\ Calls /\ Shape(c) /\ Sent(c)
      /\ \A r \in rows : RowFits(r) /\ r.call \in DOMAIN call /\ Shape(r.call) /\ Sent(r.call)
           /\ Admitted(r.call)
      /\ \A q, r \in rows : RowsApart(q, r)
      /\ \A r \in rows : r.call \in Nat /\ r.call # 0
  <2>1. /\ Calls /\ (\A d \in DOMAIN call : Shape(d)) /\ (\A r \in rows : RowFits(r))
        /\ \A q, r \in rows : RowsApart(q, r)
    BY DEF SurfaceInv
  <2>2. DOMAIN call = 1 .. Len(call) /\ Len(call) \in Nat
    BY <2>1, LenProperties DEF Calls
  <2>3. \A d \in DOMAIN call : Sent(d)
    BY <2>1 DEF Shape
  <2>4. \A r \in rows : r.call \in DOMAIN call /\ Admitted(r.call)
    BY <2>1 DEF RowFits
  <2>5. QED
    BY <2>1, <2>2, <2>3, <2>4
<1>2. \A r \in Repeated(c) : r \in rows /\ r.part = 1
  <2> SUFFICES ASSUME NEW r \in Repeated(c) PROVE r \in rows /\ r.part = 1
    OBVIOUS
  <2>1. r \in rows /\ Verb(r.call) \in TextWrites \cup Settling
    BY DEF Repeated, Keyed, Verb, Intent
  <2>2. Parts(r.call) = 1 /\ Verb(r.call) # "ingest_compaction"
    BY <1>1, <2>1, PartsKnown
  <2>3. Len(call[r.call].codes) <= 1 /\ call[r.call].codes \in Seq(Code)
    BY <1>1, <2>1, <2>2 DEF Shape
  <2>4. r.part \in 1 .. Len(call[r.call].codes)
    BY <1>1, <2>1, <2>3, LenProperties DEF RowFits
  <2>5. QED
    BY <2>1, <2>3, <2>4, LenProperties
<1>3. /\ Known(c).code \in {"ok", "idempotency_conflict", "idempotency_unavailable"}
      /\ Known(c).name \in Nat
      /\ Known(c).code = "ok" => \E r \in Repeated(c) : Same(c, r) /\ Known(c).name = r.call
      /\ Known(c).code # "ok" => Known(c).name = 0
      /\ Known(c).code = "idempotency_conflict" => \E r \in Repeated(c) : ~Same(c, r)
      /\ Known(c).code = "idempotency_unavailable" =>
           \E r \in Repeated(c) : Same(c, r) /\ r \in gone
  BY <1>1, KnownCodes
<1>4. \A r \in Repeated(c) :
        call[r.call].by = call[c].by /\ Verb(c) # "put_relationship" => Same(c, r)
  BY <1>1, <1>2, FormsAgree DEF Same, Keyed
<1>5. ASSUME Keyed(c), NEW q \in rows, call[q.call].by = call[c].by
      PROVE  \A r \in Repeated(c) : Same(c, r)
  <2>1. Verb(q.call) = Verb(c) /\ Intent(q.call) = Intent(c)
    BY <1>5 DEF Verb, Intent
  <2>2. Keyed(q.call)
    BY <1>1, <1>5, <2>1, Forms DEF Keyed
  <2>3. \A r \in Repeated(c) : Keyed(r.call)
    BY <1>5 DEF Repeated, Keyed, Settling, TextWrites
  <2>4. \A r \in Repeated(c) : r = q
    BY <1>1, <1>2, <1>5, <2>2, <2>3 DEF RowsApart
  <2>5. Verb(c) # "put_relationship"
    BY <1>5 DEF Keyed, TextWrites
  <2>6. QED
    BY <1>4, <1>5, <2>4, <2>5
<1>6. Verb(c) \in TextWrites \cup Settling
  BY DEF Repeated, Keyed
<1>7. QED
  BY <1>1, <1>2, <1>3, <1>4, <1>5, <1>6 DEF Same

LEMMA QuietlyWorks ==
  ASSUME NEW c, Steps(c), Shape(c)', Grows(c), call'[c].codes = call[c].codes, StaysLate(c), Stay,
         gone \subseteq rows
  PROVE  Works(c)
BY DEF Works, Tells, Leaves, Stay

\* A call that is turned away, or answered by its key.
LEMMA AnswerWorks ==
  ASSUME NEW c, Steps(c), Shape(c)', Grows(c), StaysLate(c), Stay, NEW code, NEW name,
         call'[c].codes = <<code>>, call'[c].names = <<name>>,
         code = "ok" => name # 0,
         name # 0 => \E r \in rows : r.call = name /\ r.part = 1 /\ call[r.call].by = call[c].by,
         code = "idempotency_conflict" /\ Verb(c) # "put_relationship" =>
           \E r \in rows : call[r.call].by # call[c].by,
         code = "idempotency_unavailable" => \E r \in gone : call[r.call].by = call[c].by,
         gone \subseteq rows
  PROVE  Works(c)
<1>1. DOMAIN call'[c].codes = {1} /\ call'[c].codes[1] = code /\ call'[c].names[1] = name
  OBVIOUS
<1>2. rows' = rows /\ gone' = gone
  BY DEF Stay
<1>3. Tells(c)
  BY <1>1, <1>2 DEF Tells
<1>4. QED
  BY <1>3 DEF Works, Leaves, Stay

LEMMA EarlyWork ==
  ASSUME SurfaceInv, NEW c \in DOMAIN call,
         Unsent(c) \/ Decode(c) \/ Lookup(c) \/ Expires(c) \/ Embed(c)
  PROVE  Works(c)
<1>1. /\ Calls /\ Shape(c) /\ Answered(c) /\ gone \subseteq rows /\ \A r \in rows : r.call \in Nat
  <2>1. /\ Calls /\ Shape(c) /\ Answered(c) /\ gone \subseteq rows /\ (\A r \in rows : RowFits(r))
    BY DEF SurfaceInv
  <2>2. QED
    BY <2>1, LenProperties DEF Calls, RowFits
<1>2. CASE Unsent(c)
  <2>1. /\ Steps(c) /\ Shape(c)' /\ Grows(c) /\ call'[c].codes = call[c].codes /\ Stay
        /\ call'[c].stage \in {"sent", "over"}
    BY <1>1, <1>2, UnsentShapes DEF Unsent
  <2>2. StaysLate(c)
    BY <1>1, <2>1 DEF StaysLate, Answered
  <2>3. QED
    BY <1>1, <2>1, <2>2, QuietlyWorks
<1>3. CASE Decode(c)
  <2>1. /\ Steps(c) /\ Shape(c)' /\ Grows(c) /\ Stay
        /\ \/ /\ ~Admitted(c) /\ call'[c].codes = <<"invalid_request">>
              /\ call'[c].names = <<0>>
           \/ /\ Admitted(c) /\ call'[c].codes = call[c].codes
              /\ Keyed(c) => call'[c].stage = "lookup"
    BY <1>1, <1>3, DecodeShapes DEF Decode
  <2>2. StaysLate(c)
    BY <1>1, <2>1 DEF StaysLate, Answered
  <2>3. CASE Admitted(c)
    BY <1>1, <2>1, <2>2, <2>3, QuietlyWorks
  <2>4. CASE ~Admitted(c)
    BY <1>1, <2>1, <2>2, <2>4, AnswerWorks
  <2>5. QED
    BY <2>3, <2>4
<1>4. CASE Lookup(c)
  <2>1. /\ Steps(c) /\ Shape(c)' /\ Grows(c) /\ Admitted(c) /\ Stay /\ call[c].stage = "lookup"
        /\ \/ call'[c].codes = call[c].codes /\ Repeated(c) = {}
           \/ /\ call'[c].stage = "answering" /\ call'[c].names = <<0>>
              /\ \/ call'[c].codes = <<"store_error">>
                 \/ call'[c].codes = <<"invalid_request">> /\ Rechecks(c)
           \/ /\ Repeated(c) # {} /\ call'[c].stage = "answering"
              /\ call'[c].codes = <<Known(c).code>> /\ call'[c].names = <<Known(c).name>>
    BY <1>1, <1>4, LookupShapes DEF Lookup
  <2>2. Keyed(c)
    BY <1>1, <2>1 DEF Shape
  <2>3. call[c].late => \E r \in rows : call[r.call].by = call[c].by
    BY <1>1 DEF Answered
  <2>4. CASE /\ Repeated(c) # {} /\ call'[c].stage = "answering"
             /\ call'[c].codes = <<Known(c).code>> /\ call'[c].names = <<Known(c).name>>
    <3>1. /\ Known(c).code \in {"ok", "idempotency_conflict", "idempotency_unavailable"}
          /\ Known(c).code = "ok" =>
               /\ Known(c).name # 0
               /\ \E r \in rows : /\ r.call = Known(c).name /\ r.part = 1
                                  /\ call[r.call].by = call[c].by
          /\ Known(c).code # "ok" => Known(c).name = 0
          /\ Known(c).code = "idempotency_conflict" /\ Verb(c) # "put_relationship" =>
               \E r \in rows : call[r.call].by # call[c].by
          /\ Known(c).code = "idempotency_unavailable" =>
               \E r \in gone : call[r.call].by = call[c].by
          /\ Keyed(c) /\ (\E r \in rows : call[r.call].by = call[c].by) =>
               Known(c).code # "idempotency_conflict"
      BY <2>1, <2>4, KnownFacts
    <3>2. PICK code, name : code = Known(c).code /\ name = Known(c).name
      OBVIOUS
    <3>3. call'[c].codes = <<code>> /\ call'[c].names = <<name>>
      BY <2>4, <3>2
    <3>4. call[c].late => code \in LateCodes(c)
      BY <2>2, <2>3, <3>1, <3>2 DEF LateCodes
    <3>5. StaysLate(c)
      BY <2>4, <3>3, <3>4 DEF StaysLate
    <3>6. QED
      BY <1>1, <2>1, <3>1, <3>2, <3>3, <3>5, AnswerWorks
  <2>5. CASE /\ call'[c].stage = "answering" /\ call'[c].names = <<0>>
             /\ \/ call'[c].codes = <<"store_error">>
                \/ call'[c].codes = <<"invalid_request">> /\ Rechecks(c)
    <3>1. PICK code : /\ call'[c].codes = <<code>>
                      /\ code = "store_error" \/ (code = "invalid_request" /\ Rechecks(c))
      BY <2>5
    <3>2. StaysLate(c)
      BY <2>5, <3>1 DEF StaysLate, LateCodes
    <3>3. QED
      BY <1>1, <2>1, <2>5, <3>1, <3>2, AnswerWorks
  <2>6. CASE call'[c].codes = call[c].codes /\ Repeated(c) = {}
    <3>1. ~call[c].late
      <4>1. SUFFICES ASSUME NEW r \in rows, call[r.call].by = call[c].by PROVE FALSE
        BY <2>3
      <4>2. Sent(r.call) /\ Verb(r.call) = Verb(c) /\ Intent(r.call) = Intent(c)
        BY <4>1 DEF SurfaceInv, RowFits, Shape, Verb, Intent
      <4>3. Sent(c) /\ Keyed(r.call)
        BY <1>1, <2>2, <4>2, Forms DEF Keyed, Shape
      <4>4. QED
        BY <2>2, <2>6, <4>3 DEF Repeated
    <3>2. StaysLate(c)
      BY <3>1 DEF StaysLate
    <3>3. QED
      BY <1>1, <2>1, <2>6, <3>2, QuietlyWorks
  <2>7. QED
    BY <2>1, <2>4, <2>5, <2>6
<1>5. CASE Expires(c)
  <2>1. /\ Steps(c) /\ Shape(c)' /\ Grows(c) /\ Stay /\ call[c].stage = "embedding"
        /\ call'[c].codes = <<"invalid_request">> /\ call'[c].names = <<0>>
    BY <1>1, <1>5, ExpiresShapes DEF Expires
  <2>2. StaysLate(c)
    BY <1>1, <2>1 DEF StaysLate, Answered
  <2>3. QED
    BY <1>1, <2>1, <2>2, AnswerWorks
<1>6. CASE Embed(c)
  <2>1. /\ Steps(c) /\ Shape(c)' /\ Grows(c) /\ Stay /\ call[c].stage = "embedding"
        /\ \/ call'[c].codes = call[c].codes
           \/ \E code \in Code \ {"ok", "idempotency_conflict", "idempotency_unavailable"} :
                call'[c].codes = <<code>> /\ call'[c].names = <<0>>
    BY <1>1, <1>6, EmbedShapes DEF Embed
  <2>2. StaysLate(c)
    BY <1>1, <2>1 DEF StaysLate, Answered
  <2>3. CASE call'[c].codes = call[c].codes
    BY <1>1, <2>1, <2>2, <2>3, QuietlyWorks
  <2>4. CASE call'[c].codes # call[c].codes
    <3>1. PICK code \in Code \ {"ok", "idempotency_conflict", "idempotency_unavailable"} :
            call'[c].codes = <<code>> /\ call'[c].names = <<0>>
      BY <2>1, <2>4
    <3>2. QED
      BY <1>1, <2>1, <2>2, <3>1, AnswerWorks
  <2>5. QED
    BY <2>3, <2>4
<1>7. QED
  BY <1>2, <1>3, <1>4, <1>5, <1>6

LEMMA LateWork ==
  ASSUME SurfaceInv, NEW c \in DOMAIN call, Trace(c) \/ Close(c) \/ Reply(c) \/ GiveUp(c)
  PROVE  Works(c)
<1>1. /\ Calls /\ Shape(c) /\ Answered(c) /\ c # 0 /\ gone \subseteq rows
  BY LenProperties DEF SurfaceInv, Calls
<1>2. CASE Trace(c)
  <2>1. /\ Steps(c) /\ Shape(c)' /\ Grows(c) /\ call'[c].codes = call[c].codes /\ Stay
        /\ call[c].stage = "tracing"
    BY <1>1, <1>2, TraceShapes DEF Trace
  <2>2. StaysLate(c)
    BY <1>1, <2>1 DEF StaysLate, Answered
  <2>3. QED
    BY <1>1, <2>1, <2>2, QuietlyWorks
<1>3. CASE Reply(c)
  <2>1. /\ Steps(c) /\ Shape(c)' /\ Grows(c) /\ call'[c].codes = call[c].codes /\ Stay
        /\ call'[c].stage = "over"
    BY <1>1, <1>3, ReplyShapes DEF Reply
  <2>2. StaysLate(c)
    BY <1>1, <2>1 DEF StaysLate, Answered
  <2>3. QED
    BY <1>1, <2>1, <2>2, QuietlyWorks
<1>4. CASE GiveUp(c)
  <2>1. /\ Steps(c) /\ Shape(c)' /\ Grows(c) /\ call'[c].codes = call[c].codes /\ Stay
        /\ call'[c].stage = call[c].stage
    BY <1>1, <1>4, GiveUpShapes DEF GiveUp
  <2>2. StaysLate(c)
    BY <1>1, <2>1 DEF StaysLate, Answered
  <2>3. QED
    BY <1>1, <2>1, <2>2, QuietlyWorks
<1>5. CASE Close(c)
  <2>1. /\ Steps(c) /\ Shape(c)' /\ Grows(c) /\ call'[c].stage = "answering"
        /\ Verb(c) = "ingest_compaction" /\ Admitted(c)
        /\ version' = version /\ saw' = saw /\ gone' = gone
        /\ DOMAIN call'[c].codes = DOMAIN call[c].codes \cup {Row(c).part}
        /\ call'[c].codes[Row(c).part] \in {"ok", "store_error"}
        /\ rows' \in {rows, rows \cup {Row(c)}}
        /\ call'[c].names[Row(c).part] # 0 =>
             call'[c].names[Row(c).part] = c /\ rows' = rows \cup {Row(c)}
    BY <1>1, <1>5, CloseShapes
  <2>2. ~Keyed(c) /\ ~Lands(c) /\ Row(c).call = c
    BY <2>1 DEF Keyed, Lands, TextWrites, Settling, Moving, Revisions, Updates, States, Row
  <2>3. StaysLate(c)
    BY <2>2 DEF StaysLate
  <2>4. Tells(c)
    BY <2>1, <2>2 DEF Tells
  <2>5. Leaves(c)
    BY <1>1, <2>1 DEF Leaves
  <2>6. QED
    BY <2>1, <2>3, <2>4, <2>5 DEF Works
<1>6. QED
  BY <1>2, <1>3, <1>4, <1>5

LEMMA SettleWorks ==
  ASSUME SurfaceInv, NEW c \in DOMAIN call, call[c].stage = "storing", NEW code \in Code,
         NEW name \in Nat, Settle(c, code, name), plan' = plan, saw' = saw,
         code # "not_attempted",
         name # 0 => \E r \in rows' : /\ r.call = name /\ r.part = Row(c).part
                                      /\ call[r.call].by = call[c].by,
         code = "ok" /\ Lands(c) => name # 0,
         code = "idempotency_conflict" /\ Verb(c) # "put_relationship" =>
           \E r \in rows : call[r.call].by # call[c].by,
         code = "idempotency_unavailable" => \E r \in gone' : call[r.call].by = call[c].by,
         gone \subseteq gone', gone' \subseteq rows',
         \/ rows' = rows /\ version' = version
         \/ /\ rows' = rows \cup {Row(c)}
            /\ code \in {"ok", "store_error"}
                 \/ (code = "idempotency_unavailable" /\ Row(c) \in gone')
            /\ Repeated(c) = {} /\ Fresh(c)
            /\ version' = IF Verb(c) \in Moving THEN version + 1 ELSE version
  PROVE  Works(c)
<1>1. Calls /\ Shape(c) /\ Answered(c)
  BY DEF SurfaceInv
<1>2. /\ Steps(c) /\ Shape(c)' /\ Grows(c)
      /\ Row(c).part \in DOMAIN call'[c].codes
      /\ call'[c].codes[Row(c).part] = code /\ call'[c].names[Row(c).part] = name
      /\ \A k \in DOMAIN call'[c].codes :
           \/ k \in DOMAIN call[c].codes
           \/ k = Row(c).part
           \/ call'[c].codes[k] = "not_attempted" /\ call'[c].names[k] = 0
  BY <1>1, Settles
<1>3. Admitted(c)
  BY <1>1 DEF Shape, Working
<1>4. StaysLate(c)
  BY <1>1 DEF StaysLate, Answered
<1>5. Tells(c)
  <2>1. SUFFICES ASSUME NEW k \in DOMAIN call'[c].codes, k \notin DOMAIN call[c].codes
        PROVE  /\ call'[c].names[k] # 0 =>
                    \E r \in rows' : /\ r.call = call'[c].names[k] /\ r.part = k
                                     /\ call[r.call].by = call[c].by
               /\ call'[c].codes[k] = "ok" /\ Lands(c) => call'[c].names[k] # 0
               /\ call'[c].codes[k] = "idempotency_conflict" /\ Verb(c) # "put_relationship" =>
                    \E r \in rows : call[r.call].by # call[c].by
               /\ call'[c].codes[k] = "idempotency_unavailable" =>
                    \E r \in gone' : call[r.call].by = call[c].by
    BY DEF Tells
  <2>2. CASE k = Row(c).part
    BY <1>2, <2>2
  <2>3. CASE call'[c].codes[k] = "not_attempted" /\ call'[c].names[k] = 0
    BY <2>3
  <2>4. QED
    BY <1>2, <2>1, <2>2, <2>3
<1>6. Leaves(c)
  BY <1>2, <1>3 DEF Leaves
<1>7. QED
  BY <1>2, <1>4, <1>5, <1>6 DEF Works

LEMMA StoreWork ==
  ASSUME SurfaceInv, NEW c \in DOMAIN call, Store(c)
  PROVE  Works(c)
<1>1. /\ Calls /\ Shape(c) /\ Sent(c) /\ Admitted(c) /\ call[c].stage = "storing"
      /\ c \in Nat /\ c # 0 /\ gone \subseteq rows
  <2>1. Calls /\ Shape(c) /\ call[c].stage = "storing" /\ gone \subseteq rows
    BY DEF SurfaceInv, Store
  <2>2. QED
    BY <2>1, LenProperties DEF Calls, Shape, Working
<1>2. CASE StoreAnswers(c)
  <2>1. /\ Repeated(c) # {} /\ plan' = plan /\ saw' = saw
        /\ rows' = rows /\ version' = version /\ gone' = gone
        /\ \/ Settle(c, Known(c).code, Known(c).name)
           \/ Verb(c) = "put_relationship" /\ Settle(c, "idempotency_conflict", 0)
    BY <1>2 DEF StoreAnswers, Stay
  <2>2. /\ Known(c).code \in {"ok", "idempotency_conflict", "idempotency_unavailable"}
        /\ Known(c).name \in Nat
        /\ Known(c).code = "ok" =>
             /\ Known(c).name # 0
             /\ \E r \in rows : /\ r.call = Known(c).name /\ r.part = 1
                                /\ call[r.call].by = call[c].by
        /\ Known(c).code # "ok" => Known(c).name = 0
        /\ Known(c).code = "idempotency_conflict" /\ Verb(c) # "put_relationship" =>
             \E r \in rows : call[r.call].by # call[c].by
        /\ Known(c).code = "idempotency_unavailable" =>
             \E r \in gone : call[r.call].by = call[c].by
        /\ Verb(c) \in TextWrites \cup Settling
    BY <1>1, <2>1, KnownFacts
  <2>3. Row(c).part = 1
    <3>1. Parts(c) = 1 /\ Len(call[c].codes) < Parts(c) /\ call[c].codes \in Seq(Code)
      BY <1>1, <2>2, PartsKnown DEF Shape
    <3>2. QED
      BY <3>1, LenProperties DEF Row
  <2>4. Known(c).code \in Code /\ "idempotency_conflict" \in Code
    BY <2>2 DEF Code, Refusals, Failures
  <2>5. CASE Settle(c, Known(c).code, Known(c).name)
    <3>1. PICK code, name : code = Known(c).code /\ name = Known(c).name
      OBVIOUS
    <3>2. Settle(c, code, name)
      BY <2>5, <3>1
    <3>3. QED
      BY <1>1, <2>1, <2>2, <2>3, <2>4, <3>1, <3>2, SettleWorks
  <2>6. CASE Verb(c) = "put_relationship" /\ Settle(c, "idempotency_conflict", 0)
    BY <1>1, <2>1, <2>4, <2>6, SettleWorks
  <2>7. QED
    BY <2>1, <2>5, <2>6
<1>3. CASE StoreRefuses(c)
  <2>1. PICK code \in {"lease_lost", "conflict", "policy_rejected", "invalid_request",
                       "not_found", "store_error"} : Settle(c, code, 0)
    BY <1>3 DEF StoreRefuses
  <2>2. /\ code \in Code
        /\ code \notin {"ok", "not_attempted", "idempotency_conflict", "idempotency_unavailable"}
        /\ plan' = plan /\ saw' = saw /\ rows' = rows /\ version' = version /\ gone' = gone
    BY <1>3 DEF StoreRefuses, Stay, Code, Refusals, Failures
  <2>3. QED
    BY <1>1, <2>1, <2>2, SettleWorks
<1>4. CASE StoreReads(c) \/ StoreSkips(c)
  <2>1. /\ Settle(c, "ok", 0) /\ plan' = plan /\ saw' = saw
        /\ rows' = rows /\ version' = version /\ gone' = gone
    BY <1>4 DEF StoreReads, StoreSkips, Stay
  <2>2. CASE StoreReads(c)
    <3>1. ~Lands(c)
      BY <2>2 DEF StoreReads, Looks, Queries, Lands, TextWrites, Settling, Moving, Revisions,
         Updates, States
    <3>2. QED
      BY <1>1, <2>1, <3>1, SettleWorks DEF Code
  <2>3. CASE StoreSkips(c)
    <3>1. ~Lands(c)
      BY <2>3 DEF StoreSkips, Worthless, Lands, TextWrites, Settling, Moving, Revisions,
         Updates, States
    <3>2. QED
      BY <1>1, <2>1, <3>1, SettleWorks DEF Code
  <2>4. QED
    BY <1>4, <2>2, <2>3
<1>5. CASE StoreCommits(c)
  <2>1. /\ Repeated(c) = {} /\ Fresh(c) /\ rows' = rows \cup {Row(c)}
        /\ version' = IF Verb(c) \in Moving THEN version + 1 ELSE version
        /\ plan' = plan /\ saw' = saw
        /\ \/ Settle(c, "ok", c) /\ gone' = gone
           \/ Settle(c, "store_error", 0) /\ gone' = gone
           \/ Settle(c, "idempotency_unavailable", 0) /\ gone' = gone \cup {Row(c)}
    BY <1>5 DEF StoreCommits
  <2>2. Row(c).call = c
    BY DEF Row
  <2>3. CASE Settle(c, "ok", c) /\ gone' = gone
    BY <1>1, <2>1, <2>2, <2>3, SettleWorks DEF Code
  <2>4. CASE Settle(c, "store_error", 0) /\ gone' = gone
    BY <1>1, <2>1, <2>4, SettleWorks DEF Code, Failures
  <2>5. CASE Settle(c, "idempotency_unavailable", 0) /\ gone' = gone \cup {Row(c)}
    <3>1. Row(c) \in gone' /\ gone \subseteq gone' /\ gone' \subseteq rows'
      BY <1>1, <2>1, <2>5
    <3>2. "idempotency_unavailable" \in Code
      BY DEF Code, Refusals, Failures
    <3>3. \E r \in gone' : call[r.call].by = call[c].by
      BY <2>2, <3>1
    <3>4. QED
      BY <1>1, <2>1, <2>5, <3>1, <3>2, <3>3, SettleWorks
  <2>6. QED
    BY <2>1, <2>3, <2>4, <2>5
<1>6. QED
  BY <1>2, <1>3, <1>4, <1>5 DEF Store

-----------------------------------------------------------------------------
(* The invariant is kept *)

LEMMA WorksVersion ==
  ASSUME Saws, NEW c, Leaves(c)
  PROVE  version' \in Nat /\ version <= version' /\ rows \subseteq rows'
         /\ rows' \subseteq rows \cup {Row(c)}
         /\ gone \subseteq gone' /\ gone' \subseteq rows'
BY DEF Saws, Leaves

LEMMA AnsweredStays ==
  ASSUME SurfaceInv, NEW c \in DOMAIN call, Works(c), NEW d \in DOMAIN call
  PROVE  Answered(d)'
<1>1. /\ Answered(d) /\ Saws /\ gone \subseteq rows /\ \A r \in rows : r.call \in DOMAIN call
      /\ Shape(c) /\ Shape(c)'
  BY DEF SurfaceInv, RowFits, Works
<1>2. /\ \A x \in DOMAIN call : /\ Stays(x) /\ call'[x].by = call[x].by
                                /\ call'[x].late = call[x].late /\ (x # c => call'[x] = call[x])
      /\ Tells(c) /\ StaysLate(c) /\ Grows(c)
      /\ rows \subseteq rows' /\ rows' \subseteq rows \cup {Row(c)} /\ Row(c).call = c
      /\ gone \subseteq gone' /\ gone' \subseteq rows'
  BY <1>1, WorksVersion DEF Works, Steps, Row
<1>3. /\ Verb(d)' = Verb(d) /\ (Keyed(d)' <=> Keyed(d)) /\ (Admitted(d)' <=> Admitted(d))
      /\ (Lands(d)' <=> Lands(d)) /\ LateCodes(d)' = LateCodes(d)
  BY <1>2 DEF Stays, Lands, LateCodes
<1>4. \A r \in rows' : r.call \in DOMAIN call /\ call'[r.call].by = call[r.call].by
  BY <1>1, <1>2
<1>5. call'[d].late => \E r \in rows' : call'[r.call].by = call'[d].by
  BY <1>1, <1>2, <1>4 DEF Answered
<1>6. call'[d].late /\ Keyed(d)' /\ Admitted(d)' =>
        /\ call'[d].stage \in {"sent", "lookup", "answering", "over"}
        /\ \A k \in DOMAIN call'[d].codes : call'[d].codes[k] \in LateCodes(d)'
  BY <1>1, <1>2, <1>3 DEF Answered, StaysLate
<1>7. ASSUME NEW k \in DOMAIN call'[d].codes
      PROVE  /\ call'[d].names[k] # 0 =>
                  \E r \in rows' : /\ r.call = call'[d].names[k] /\ r.part = k
                                   /\ call'[r.call].by = call'[d].by
             /\ call'[d].codes[k] = "ok" /\ Lands(d)' => call'[d].names[k] # 0
             /\ call'[d].codes[k] = "idempotency_conflict" /\ Verb(d)' # "put_relationship" =>
                  \E r \in rows' : call'[r.call].by # call'[d].by
             /\ call'[d].codes[k] = "idempotency_unavailable" =>
                  \E r \in gone' : call'[r.call].by = call'[d].by
  <2>1. CASE k \in DOMAIN call[d].codes
    <3>1. call'[d].codes[k] = call[d].codes[k] /\ call'[d].names[k] = call[d].names[k]
      BY <1>2, <2>1 DEF Grows
    <3>2. /\ call[d].names[k] # 0 =>
               \E r \in rows : /\ r.call = call[d].names[k] /\ r.part = k
                               /\ call[r.call].by = call[d].by
          /\ call[d].codes[k] = "ok" /\ Lands(d) => call[d].names[k] # 0
          /\ call[d].codes[k] = "idempotency_conflict" /\ Verb(d) # "put_relationship" =>
               \E r \in rows : call[r.call].by # call[d].by
          /\ call[d].codes[k] = "idempotency_unavailable" =>
               \E r \in gone : call[r.call].by = call[d].by
      BY <1>1, <2>1 DEF Answered
    <3>3. QED
      BY <1>2, <1>3, <1>4, <3>1, <3>2
  <2>2. CASE k \notin DOMAIN call[d].codes
    <3>1. d = c
      BY <1>2, <2>2
    <3>2. /\ call'[d].names[k] # 0 =>
               \E r \in rows' : /\ r.call = call'[d].names[k] /\ r.part = k
                                /\ call[r.call].by = call[d].by
          /\ call'[d].codes[k] = "ok" /\ Lands(d) => call'[d].names[k] # 0
          /\ call'[d].codes[k] = "idempotency_conflict" /\ Verb(d) # "put_relationship" =>
               \E r \in rows : call[r.call].by # call[d].by
          /\ call'[d].codes[k] = "idempotency_unavailable" =>
               \E r \in gone' : call[r.call].by = call[d].by
      BY <1>2, <2>2, <3>1 DEF Tells
    <3>3. QED
      BY <1>2, <1>3, <1>4, <3>2
  <2>3. QED
    BY <2>1, <2>2
<1>8. QED
  BY <1>5, <1>6, <1>7 DEF Answered

LEMMA RowStays ==
  ASSUME SurfaceInv, NEW c \in DOMAIN call, Works(c), NEW r \in rows'
  PROVE  RowFits(r)'
<1>1. /\ Saws /\ Shape(c) /\ Sent(c) /\ Steps(c) /\ Leaves(c) /\ Grows(c) /\ saw' = saw
      /\ version \in Nat
  BY DEF SurfaceInv, Works, Shape, Saws
<1>2. /\ version' \in Nat /\ version <= version' /\ rows' \subseteq rows \cup {Row(c)}
      /\ gone \subseteq gone'
  BY <1>1, WorksVersion
<1>3. \A d \in DOMAIN call :
        /\ Verb(d)' = Verb(d) /\ Intent(d)' = Intent(d) /\ Form(d)' = Form(d)
        /\ (Admitted(d)' <=> Admitted(d)) /\ (CreateOnly(d)' <=> CreateOnly(d))
        /\ (Guarded(d)' <=> Guarded(d)) /\ call'[d].by = call[d].by
  BY <1>1 DEF Steps, Stays, CreateOnly, Guarded
<1>4. CASE r \in rows
  <2>1. RowFits(r)
    BY <1>4 DEF SurfaceInv
  <2>2. /\ r.part \in DOMAIN call'[r.call].codes
        /\ call'[r.call].codes[r.part] = call[r.call].codes[r.part]
    BY <1>1, <2>1 DEF RowFits, Grows, Steps
  <2>3. r.over \in 0 .. version' /\ (Verb(r.call) \in Moving => r.over < version')
    BY <1>1, <1>2, <2>1 DEF RowFits
  <2>4. r.call \in DOMAIN call /\ DOMAIN call' = DOMAIN call
    BY <1>1, <2>1 DEF RowFits, Steps
  <2>5. QED
    BY <1>1, <1>2, <1>3, <2>1, <2>2, <2>3, <2>4 DEF RowFits
<1>5. CASE r \notin rows
  <2>1. r = Row(c) /\ r.call = c /\ r.over = version
    BY <1>2, <1>5 DEF Row
  <2>2. /\ Admitted(c) /\ r.part \in DOMAIN call'[c].codes
        /\ \/ call'[c].codes[r.part] \in {"ok", "store_error"}
           \/ call'[c].codes[r.part] = "idempotency_unavailable" /\ r \in gone'
        /\ \/ Verb(c) = "ingest_compaction"
           \/ Fresh(c) /\ (Verb(c) \in Moving => version' = version + 1)
    BY <1>1, <1>5, <2>1 DEF Leaves
  <2>3. Verb(c) \in Moving => version < version'
    BY <1>1, <2>2 DEF Moving, Revisions, Updates, States
  <2>4. Guarded(c) =>
          /\ "version" \in Form(c) => version = saw[call[c].by]
          /\ CreateOnly(c) => version = 0
    BY <2>2 DEF Fresh, Guarded, Versioned, Revisions, Updates, Leased, States
  <2>5. c \in DOMAIN call'
    BY <1>1 DEF Steps
  <2>6. QED
    BY <1>1, <1>2, <1>3, <2>1, <2>2, <2>3, <2>4, <2>5 DEF RowFits
<1>6. QED
  BY <1>4, <1>5

LEMMA ApartStays ==
  ASSUME SurfaceInv, NEW c \in DOMAIN call, Works(c)
  PROVE  \A q, r \in rows' : RowsApart(q, r)'
<1>1. /\ Saws /\ Steps(c) /\ Leaves(c) /\ \A r \in rows : RowFits(r)
      /\ \A q, r \in rows : RowsApart(q, r)
  BY DEF SurfaceInv, Works
<1>2. \A d \in DOMAIN call :
        /\ Verb(d)' = Verb(d) /\ Intent(d)' = Intent(d) /\ Form(d)' = Form(d)
        /\ (Keyed(d)' <=> Keyed(d)) /\ call'[d].by = call[d].by
  BY <1>1 DEF Steps, Stays
<1>3. rows' \subseteq rows \cup {Row(c)} /\ Row(c).call = c /\ gone \subseteq gone'
  BY <1>1, WorksVersion DEF Row
<1>4. \A r \in rows' : r.call \in DOMAIN call
  BY <1>1, <1>3 DEF RowFits
<1>5. \A d, e \in DOMAIN call : call[d].by = call[e].by =>
         Verb(d) = Verb(e) /\ Intent(d) = Intent(e)
  BY DEF Verb, Intent
<1>6. ASSUME NEW q \in rows, Row(c) \in rows', Row(c) \notin rows
      PROVE  /\ ~(Keyed(q.call) /\ Keyed(c))
             /\ call[q.call].by = call[c].by =>
                  /\ ~(Verb(q.call) \in Settling /\ q \notin gone)
                  /\ ~(Verb(q.call) \in Moving /\ "version" \in Form(q.call)
                         /\ "version" \in Form(c))
  <2>1. \/ Verb(c) = "ingest_compaction"
        \/ Repeated(c) = {} /\ Fresh(c)
    BY <1>1, <1>6 DEF Leaves
  <2>2. RowFits(q) /\ q.call \in DOMAIN call
    BY <1>1, <1>6 DEF RowFits
  <2>3. CASE Verb(c) = "ingest_compaction"
    BY <1>5, <2>2, <2>3 DEF Keyed, TextWrites, Settling, Moving, Revisions, Updates, States
  <2>4. CASE Repeated(c) = {} /\ Fresh(c)
    <3>1. q \notin Repeated(c)
      BY <2>4
    <3>2. ~(Keyed(q.call) /\ Keyed(c))
      BY <1>6, <3>1 DEF Repeated
    <3>3. ASSUME call[q.call].by = call[c].by
          PROVE  ~(Verb(q.call) \in Settling /\ q \notin gone)
      BY <1>5, <1>6, <2>2, <3>1, <3>3 DEF Repeated
    <3>4. ASSUME call[q.call].by = call[c].by, Verb(q.call) \in Moving,
                 "version" \in Form(q.call), "version" \in Form(c)
          PROVE  FALSE
      <4>1. Verb(c) = Verb(q.call) /\ Guarded(c) /\ Guarded(q.call)
        BY <1>5, <2>2, <3>4 DEF Guarded, Moving, Revisions, Updates, States, Versioned, Leased
      <4>2. version = saw[call[c].by]
        BY <2>4, <3>4, <4>1 DEF Fresh
      <4>3. q.over = saw[call[q.call].by] /\ q.over < version /\ q.over \in Nat /\ version \in Nat
        BY <1>1, <2>2, <3>4, <4>1 DEF RowFits, Saws
      <4>4. QED
        BY <3>4, <4>2, <4>3
    <3>5. QED
      BY <3>2, <3>3, <3>4
  <2>5. QED
    BY <2>1, <2>3, <2>4
<1>7. SUFFICES ASSUME NEW q \in rows', NEW r \in rows' PROVE RowsApart(q, r)'
  OBVIOUS
<1>8. CASE q \in rows /\ r \in rows
  BY <1>1, <1>2, <1>3, <1>4, <1>8 DEF RowsApart
<1>9. CASE q \in rows /\ r \notin rows
  <2>1. r = Row(c) /\ r.call = c
    BY <1>3, <1>9
  <2>2. QED
    BY <1>2, <1>3, <1>4, <1>6, <1>9, <2>1 DEF RowsApart
<1>10. CASE q \notin rows /\ r \in rows
  <2>1. q = Row(c) /\ q.call = c
    BY <1>3, <1>10
  <2>2. call[q.call].by = call[r.call].by => Verb(q.call) = Verb(r.call)
    BY <1>4, <1>5
  <2>3. QED
    BY <1>2, <1>3, <1>4, <1>6, <1>10, <2>1, <2>2 DEF RowsApart
<1>11. CASE q \notin rows /\ r \notin rows
  BY <1>3, <1>11 DEF RowsApart
<1>12. QED
  BY <1>8, <1>9, <1>10, <1>11

LEMMA WorksKeeps ==
  ASSUME SurfaceInv, NEW c \in DOMAIN call, Works(c)
  PROVE  SurfaceInv'
<1>1. /\ Saws /\ Leaves(c) /\ Steps(c) /\ Shape(c)' /\ saw' = saw
      /\ plan' = plan /\ Calls' /\ DOMAIN call' = DOMAIN call
      /\ \A d \in DOMAIN call : Shape(d)
  BY DEF SurfaceInv, Works, Steps
<1>2. Saws'
  <2>1. version \in Nat /\ version' \in Nat /\ version <= version'
    BY <1>1, WorksVersion DEF Saws
  <2>2. QED
    BY <1>1, <2>1 DEF Saws
<1>3. \A d \in DOMAIN call' : Shape(d)' /\ Answered(d)'
  <2>1. ASSUME NEW d \in DOMAIN call PROVE Shape(d)'
    BY <1>1, ShapeStays DEF Steps
  <2>2. QED
    BY <1>1, <2>1, AnsweredStays
<1>4. (\A r \in rows' : RowFits(r)') /\ (\A q, r \in rows' : RowsApart(q, r)')
  BY RowStays, ApartStays
<1>5. gone' \subseteq rows'
  BY <1>1, WorksVersion
<1>6. QED
  BY <1>1, <1>2, <1>3, <1>4, <1>5 DEF SurfaceInv

LEMMA SendKeeps ==
  ASSUME SurfaceInv, NEW t \in DOMAIN plan, NEW s \in Surface, Send(t, s)
  PROVE  SurfaceInv'
<1>a. PICK n : n = Len(call) + 1
  OBVIOUS
<1>b. PICK new : new = NewCall(t, s)
  OBVIOUS
<1>1. /\ Calls /\ Saws /\ plan' = plan /\ rows' = rows /\ version' = version
      /\ gone' = gone /\ gone \subseteq rows
      /\ plan[t].op \in DOMAIN Served(s)
      /\ saw' = IF Of(t) = {} THEN [saw EXCEPT ![t] = version] ELSE saw
      /\ call' = Append(call, new)
      /\ (\A d \in DOMAIN call : Shape(d) /\ Answered(d))
      /\ (\A r \in rows : RowFits(r)) /\ (\A q, r \in rows : RowsApart(q, r))
  BY <1>b DEF SurfaceInv, Send
<1>2. /\ new.by = t /\ new.surface = s /\ new.sent = 1 /\ new.stage = "sent"
      /\ new.codes = <<>> /\ new.names = <<>> /\ new.events = 0 /\ new.traced = FALSE
      /\ new.told = "none" /\ new.abandoned = FALSE /\ new.late \in BOOLEAN
      /\ (new.late <=> \E r \in rows : call[r.call].by = t)
      /\ DOMAIN new = Fields
  BY <1>b DEF NewCall, Fields
<1>3. Len(call) \in Nat /\ DOMAIN call = 1 .. Len(call) /\ call \in Seq(Range(call))
  BY <1>1, LenProperties DEF Calls
<1>4. /\ DOMAIN call' = DOMAIN call \cup {n} /\ n \notin DOMAIN call /\ call'[n] = new
      /\ \A d \in DOMAIN call : call'[d] = call[d]
      /\ Len(call') = n /\ DOMAIN call' = 1 .. n /\ n \in Nat
      /\ call' \in Seq(Range(call'))
  <2> DEFINE S == Range(call) \cup {new}
  <2>1. call \in Seq(S) /\ new \in S
    <3>1. call \in [1 .. Len(call) -> S]
      BY <1>3, LenProperties DEF Range
    <3>2. QED
      BY <1>3, <3>1, InSeq
  <2> HIDE DEF S
  <2>2. /\ Len(Append(call, new)) = Len(call) + 1 /\ Append(call, new) \in Seq(S)
        /\ \A i \in 1 .. Len(call) : Append(call, new)[i] = call[i]
        /\ Append(call, new)[Len(call) + 1] = new
    BY <2>1, AppendProperties
  <2>3. DOMAIN Append(call, new) = 1 .. Len(call) + 1
    BY <2>2, LenProperties
  <2>4. call' \in [1 .. n -> S] /\ n \in Nat
    BY <1>a, <1>1, <1>3, <2>2, LenProperties
  <2>5. call' \in [1 .. n -> Range(call')]
    BY <2>4 DEF Range
  <2>6. call' \in Seq(Range(call')) /\ Len(call') = n /\ DOMAIN call' = 1 .. n
    BY <2>4, <2>5, InSeq
  <2>7. QED
    BY <1>a, <1>1, <1>3, <2>2, <2>4, <2>6
<1>5. Calls'
  <2>1. \A d \in DOMAIN call' : DOMAIN call'[d] = Fields
    BY <1>1, <1>2, <1>4 DEF Calls
  <2>2. QED
    BY <1>1, <1>4, <2>1 DEF Calls
<1>6. Saws'
  BY <1>1 DEF Saws
<1>7. \A d \in DOMAIN call : Stays(d) /\ Shape(d)' /\ call'[d].by = call[d].by
  BY <1>1, <1>4, Staying, ShapeStays
<1>8. Shape(n)'
  <2>1. Sent(n)'
    BY <1>1, <1>2, <1>4 DEF Sent, Verb, Intent
  <2>2. Succeeded(n)'
    BY <1>2, <1>4 DEF Succeeded
  <2>3. Needed(n)' \in Nat
    BY DEF Needed
  <2>4. <<>> \in Seq(Code) /\ <<>> \in Seq(Nat) /\ Len(<<>>) = 0
    BY EmptySeq
  <2>5. /\ call'[n].sent = 1 /\ call'[n].stage = "sent" /\ call'[n].codes = <<>>
        /\ call'[n].names = <<>> /\ call'[n].events = 0 /\ call'[n].traced = FALSE
        /\ call'[n].told = "none" /\ call'[n].abandoned = FALSE /\ call'[n].late \in BOOLEAN
    BY <1>2, <1>4
  <2>6. /\ call'[n].stage \in Stage /\ call'[n].stage \notin Working
        /\ call'[n].stage \notin {"lookup", "embedding", "storing", "tracing", "closing",
                                  "answering", "over"}
    BY <2>5 DEF Stage, Working
  <2>7. call'[n].sent \in 1 .. 2 /\ call'[n].events \in 0 .. Needed(n)'
    BY <2>3, <2>5
  <2>8. /\ ~call'[n].traced /\ call'[n].traced \in BOOLEAN /\ call'[n].abandoned \in BOOLEAN
        /\ call'[n].events = 0 /\ call'[n].told = "none" /\ call'[n].late \in BOOLEAN
    BY <2>5
  <2>9. /\ call'[n].codes = <<>> /\ call'[n].codes \in Seq(Code) /\ Len(call'[n].codes) = 0
        /\ call'[n].names \in Seq(Nat) /\ Len(call'[n].names) = 0
    BY <2>4, <2>5
  <2>10. QED
    BY <2>1, <2>2, <2>6, <2>7, <2>8, <2>9 DEF Shape
<1>9. \A d \in DOMAIN call' : Answered(d)'
  <2>1. \A r \in rows : r.call \in DOMAIN call /\ call'[r.call].by = call[r.call].by
    BY <1>1, <1>7 DEF RowFits
  <2>2. ASSUME NEW d \in DOMAIN call PROVE Answered(d)'
    <3>1. /\ Answered(d) /\ Stays(d) /\ call'[d] = call[d] /\ (Lands(d)' <=> Lands(d))
          /\ LateCodes(d)' = LateCodes(d)
      BY <1>1, <1>4, <1>7 DEF Lands, LateCodes, Stays
    <3>2. call'[d].late => \E r \in rows' : call'[r.call].by = call'[d].by
      BY <1>1, <2>1, <3>1 DEF Answered
    <3>3. call'[d].late /\ Keyed(d)' /\ Admitted(d)' =>
            /\ call'[d].stage \in {"sent", "lookup", "answering", "over"}
            /\ \A k \in DOMAIN call'[d].codes : call'[d].codes[k] \in LateCodes(d)'
      BY <3>1 DEF Answered, Stays
    <3>4. ASSUME NEW k \in DOMAIN call'[d].codes
          PROVE  /\ call'[d].names[k] # 0 =>
                      \E r \in rows' : /\ r.call = call'[d].names[k] /\ r.part = k
                                       /\ call'[r.call].by = call'[d].by
                 /\ call'[d].codes[k] = "ok" /\ Lands(d)' => call'[d].names[k] # 0
                 /\ call'[d].codes[k] = "idempotency_conflict" /\ Verb(d)' # "put_relationship" =>
                      \E r \in rows' : call'[r.call].by # call'[d].by
                 /\ call'[d].codes[k] = "idempotency_unavailable" =>
                      \E r \in gone' : call'[r.call].by = call'[d].by
      <4>1. Verb(d)' = Verb(d) /\ k \in DOMAIN call[d].codes
        BY <3>1 DEF Stays
      <4>2. /\ call[d].names[k] # 0 =>
                 \E r \in rows : /\ r.call = call[d].names[k] /\ r.part = k
                                 /\ call[r.call].by = call[d].by
            /\ call[d].codes[k] = "ok" /\ Lands(d) => call[d].names[k] # 0
            /\ call[d].codes[k] = "idempotency_conflict" /\ Verb(d) # "put_relationship" =>
                 \E r \in rows : call[r.call].by # call[d].by
            /\ call[d].codes[k] = "idempotency_unavailable" =>
                 \E r \in gone : call[r.call].by = call[d].by
        BY <3>1, <4>1 DEF Answered
      <4>3. QED
        BY <1>1, <2>1, <3>1, <4>1, <4>2
    <3>5. QED
      BY <3>2, <3>3, <3>4 DEF Answered
  <2>3. Answered(n)'
    BY <1>1, <1>2, <1>4, <2>1 DEF Answered
  <2>4. QED
    BY <1>4, <2>2, <2>3
<1>10. \A r \in rows : RowFits(r)'
  <2> SUFFICES ASSUME NEW r \in rows PROVE RowFits(r)'
    OBVIOUS
  <2>1. RowFits(r) /\ r.call \in DOMAIN call /\ call'[r.call] = call[r.call] /\ Stays(r.call)
    BY <1>1, <1>4, <1>7 DEF RowFits
  <2>2. saw'[call[r.call].by] = saw[call[r.call].by]
    BY <1>1, <2>1 DEF Of
  <2>3. (CreateOnly(r.call)' <=> CreateOnly(r.call)) /\ (Guarded(r.call)' <=> Guarded(r.call))
    BY <2>1 DEF CreateOnly, Guarded, Stays
  <2>4. QED
    BY <1>1, <1>4, <2>1, <2>2, <2>3 DEF RowFits, Stays
<1>11. \A q, r \in rows : RowsApart(q, r)'
  <2>1. \A r \in rows : r.call \in DOMAIN call
    BY <1>1 DEF RowFits
  <2>2. QED
    BY <1>1, <1>7, <2>1 DEF RowsApart, Stays
<1>12. QED
  BY <1>1, <1>4, <1>5, <1>6, <1>7, <1>8, <1>9, <1>10, <1>11 DEF SurfaceInv

LEMMA DepartKeeps ==
  ASSUME SurfaceInv, NEW x \in rows, Departs(x)
  PROVE  SurfaceInv'
<1>1. /\ call' = call /\ plan' = plan /\ saw' = saw /\ rows' = rows /\ version' = version
      /\ gone' = gone \cup {x} /\ Calls /\ Saws /\ gone \subseteq rows
      /\ (\A d \in DOMAIN call : Shape(d) /\ Answered(d))
      /\ (\A r \in rows : RowFits(r)) /\ (\A q, r \in rows : RowsApart(q, r))
  BY DEF Departs, SurfaceInv
<1>2. \A d : Stays(d) /\ (Shape(d) => Shape(d)')
  BY <1>1, Staying, ShapeStays
<1>3. \A d : /\ (Lands(d)' <=> Lands(d)) /\ LateCodes(d)' = LateCodes(d)
            /\ (Guarded(d)' <=> Guarded(d)) /\ (CreateOnly(d)' <=> CreateOnly(d))
  BY <1>2 DEF Stays, Lands, LateCodes, Guarded, CreateOnly
<1>4. \A d \in DOMAIN call : Answered(d)'
  BY <1>1, <1>2, <1>3 DEF Answered, Stays
<1>5. \A r \in rows : RowFits(r)'
  BY <1>1, <1>2, <1>3 DEF RowFits, Stays
<1>6. \A q, r \in rows : RowsApart(q, r)'
  BY <1>1, <1>2 DEF RowsApart, Stays
<1>7. Calls' /\ Saws' /\ gone' \subseteq rows'
  BY <1>1 DEF Calls, Saws
<1>8. QED
  BY <1>1, <1>2, <1>4, <1>5, <1>6, <1>7 DEF SurfaceInv

\* The invariant holds from the start, through every step of every host and
\* whatever is over or erased meanwhile.
THEOREM SurfaceInvariant == Spec => []SurfaceInv
<1>1. Init => SurfaceInv
  <2> SUFFICES ASSUME Init PROVE SurfaceInv
    OBVIOUS
  <2>1. call = <<>> /\ rows = {} /\ gone = {} /\ plan \in Plans /\ version \in {0, 1}
        /\ saw = [t \in DOMAIN plan |-> 0]
    BY DEF Init
  <2>2. Calls
    BY <2>1 DEF Calls
  <2>3. Saws
    BY <2>1 DEF Saws
  <2>4. QED
    BY <2>1, <2>2, <2>3 DEF SurfaceInv
<1>2. SurfaceInv /\ [Next]_vars => SurfaceInv'
  <2> SUFFICES ASSUME SurfaceInv, [Next]_vars PROVE SurfaceInv'
    OBVIOUS
  <2>1. ASSUME NEW t \in DOMAIN plan, NEW s \in Surface, Send(t, s) PROVE SurfaceInv'
    BY <2>1, SendKeeps
  <2>2. ASSUME NEW c \in DOMAIN call,
               \/ Unsent(c) \/ Decode(c) \/ Lookup(c) \/ Expires(c) \/ Embed(c) \/ Store(c)
               \/ Trace(c) \/ Close(c) \/ Reply(c) \/ GiveUp(c)
        PROVE  SurfaceInv'
    <3>1. Works(c)
      BY <2>2, EarlyWork, StoreWork, LateWork
    <3>2. QED
      BY <3>1, WorksKeeps
  <2>3. ASSUME UNCHANGED vars PROVE SurfaceInv'
    <3>1. /\ call' = call /\ plan' = plan /\ saw' = saw /\ rows' = rows /\ version' = version
          /\ gone' = gone /\ gone \subseteq rows
          /\ Calls /\ Saws /\ (\A d \in DOMAIN call : Shape(d) /\ Answered(d))
          /\ (\A r \in rows : RowFits(r)) /\ (\A q, r \in rows : RowsApart(q, r))
      BY <2>3 DEF vars, SurfaceInv
    <3>2. \A d : Stays(d) /\ (Shape(d) => Shape(d)')
      BY <3>1, Staying, ShapeStays
    <3>3. \A d : /\ (Lands(d)' <=> Lands(d)) /\ LateCodes(d)' = LateCodes(d)
                /\ (Guarded(d)' <=> Guarded(d)) /\ (CreateOnly(d)' <=> CreateOnly(d))
      BY <3>2 DEF Stays, Lands, LateCodes, Guarded, CreateOnly
    <3>4. \A d \in DOMAIN call : Answered(d)'
      BY <3>1, <3>2, <3>3 DEF Answered, Stays
    <3>5. \A r \in rows : RowFits(r)'
      BY <3>1, <3>2, <3>3 DEF RowFits, Stays
    <3>6. \A q, r \in rows : RowsApart(q, r)'
      BY <3>1, <3>2 DEF RowsApart, Stays
    <3>7. Calls' /\ Saws'
      BY <3>1 DEF Calls, Saws
    <3>8. QED
      BY <3>1, <3>2, <3>4, <3>5, <3>6, <3>7 DEF SurfaceInv
  <2>4. ASSUME NEW r \in rows, Departs(r) PROVE SurfaceInv'
    BY <2>4, DepartKeeps
  <2>5. QED
    BY <2>1, <2>2, <2>3, <2>4 DEF Next
<1>3. QED
  BY <1>1, <1>2, PTL DEF Spec

-----------------------------------------------------------------------------
(* What it means for the hosts *)

\* What the invariant says of a row and of the call it is of.
LEMMA RowCalls ==
  ASSUME SurfaceInv
  PROVE  /\ \A c \in DOMAIN call : Shape(c) /\ Sent(c) /\ Answered(c)
         /\ \A r \in rows : RowFits(r) /\ r.call \in DOMAIN call /\ Sent(r.call)
         /\ \A q, r \in rows : RowsApart(q, r)
         /\ DOMAIN call = 1 .. Len(call) /\ Len(call) \in Nat
<1>1. /\ Calls /\ (\A c \in DOMAIN call : Shape(c) /\ Answered(c)) /\ (\A r \in rows : RowFits(r))
      /\ \A q, r \in rows : RowsApart(q, r)
  BY DEF SurfaceInv
<1>2. \A c \in DOMAIN call : Sent(c)
  BY <1>1 DEF Shape
<1>3. \A r \in rows : r.call \in DOMAIN call
  BY <1>1 DEF RowFits
<1>4. DOMAIN call = 1 .. Len(call) /\ Len(call) \in Nat
  BY <1>1, LenProperties DEF Calls
<1>5. QED
  BY <1>1, <1>2, <1>3, <1>4

\* Whatever the hosts want and whichever surfaces they ask over, every call and
\* every row is well formed.
THEOREM SurfacesTyped == Spec => []TypeOK
<1>1. SurfaceInv => TypeOK
  <2> SUFFICES ASSUME SurfaceInv PROVE TypeOK
    OBVIOUS
  <2>1. plan \in Plans /\ Saws
    BY DEF SurfaceInv, Calls
  <2>2. ASSUME NEW c \in DOMAIN call
        PROVE  /\ call[c].by \in DOMAIN plan /\ call[c].surface \in Surface
               /\ call[c].sent \in 1 .. 2 /\ call[c].stage \in Stage
               /\ call[c].told \in {"none", "success", "failure", "unreachable"}
               /\ DOMAIN call[c].names = DOMAIN call[c].codes
               /\ call[c].events \in 0 .. Needed(c) /\ call[c].traced \in BOOLEAN
               /\ call[c].abandoned \in BOOLEAN /\ call[c].late \in BOOLEAN
    <3>1. Shape(c)
      BY RowCalls
    <3>2. DOMAIN call[c].names = DOMAIN call[c].codes
      BY <3>1, LenProperties DEF Shape
    <3>3. QED
      BY <3>1, <3>2 DEF Shape, Sent
  <2>3. ASSUME NEW c \in DOMAIN call, NEW k \in DOMAIN call[c].codes
        PROVE  /\ call[c].codes[k] \in Refusals \cup Failures \cup {"ok", "not_attempted"}
               /\ call[c].names[k] \in 0 .. Len(call)
    <3>1. call[c].codes \in Seq(Code) /\ call[c].names \in Seq(Nat) /\ k \in DOMAIN call[c].names
      BY <2>2, <2>3, RowCalls DEF Shape
    <3>2. call[c].codes[k] \in Code /\ call[c].names[k] \in Nat
      BY <2>3, <3>1, ElementOfSeq, LenProperties
    <3>3. call[c].names[k] # 0 => call[c].names[k] \in DOMAIN call
      BY <2>3, RowCalls DEF Answered
    <3>4. QED
      BY <3>2, <3>3, RowCalls DEF Code
  <2>4. \A r \in rows : /\ r.call \in DOMAIN call /\ r.part \in DOMAIN call[r.call].codes
                        /\ r.over \in 0 .. version
    BY RowCalls DEF RowFits
  <2>5. gone \subseteq rows
    BY DEF SurfaceInv
  <2>6. QED
    BY <2>1, <2>2, <2>3, <2>4, <2>5 DEF TypeOK, Saws, Stage
<1>2. QED
  BY <1>1, SurfaceInvariant, PTL

\* A write a host asked to be guarded is over the version it had read, and a
\* first write over none, for every plan and every surface.
THEOREM GuardsHoldEverywhere == Spec => []GuardsHold
<1>1. SurfaceInv => GuardsHold
  <2> SUFFICES ASSUME SurfaceInv, NEW r \in rows
               PROVE  LET intent == plan[call[r.call].by] IN
                 /\ "version" \in intent.given
                      /\ intent.op \in Versioned \cup States \cup {"forget"} =>
                        r.over = saw[call[r.call].by]
                 /\ (\/ intent.op = "put_task_state" /\ "create_only" \in intent.given
                     \/ intent.op = "put_state" /\ "version" \notin intent.given)
                      => r.over = 0
    BY DEF GuardsHold
  <2> DEFINE c == r.call
  <2>1. RowFits(r) /\ Sent(c) /\ Intent(c) = plan[call[c].by] /\ Verb(c) = plan[call[c].by].op
    BY RowCalls DEF Intent, Verb
  <2>2. /\ Form(c) \subseteq Intent(c).given
        /\ Verb(c) \in Versioned \cup States \cup {"forget"} /\ "version" \in Intent(c).given
             => "version" \in Form(c)
        /\ Verb(c) = "put_task_state" /\ "create_only" \in Intent(c).given
             => "create_only" \in Form(c)
    BY <2>1, Forms
  <2>3. Guarded(c) =>
          /\ "version" \in Form(c) => r.over = saw[call[c].by]
          /\ CreateOnly(c) => r.over = 0
    BY <2>1 DEF RowFits
  <2>4. QED
    BY <2>1, <2>2, <2>3 DEF Guarded, CreateOnly, States
<1>2. QED
  BY <1>1, SurfaceInvariant, PTL

\* A status, an error flag and an exit say success exactly of calls whose every
\* part succeeded; a name is of a row, and what was refused left none that is there.
THEOREM AnswersAreTrueEverywhere == Spec => []AnswersAreTrue
<1>1. SurfaceInv => AnswersAreTrue
  <2> SUFFICES ASSUME SurfaceInv, NEW c \in DOMAIN call
               PROVE  LET stored(k) == {r \in rows : r.call = call[c].names[k] /\ r.part = k}
                          left(k) == {r \in rows \ gone : r.call = c /\ r.part = k}
                      IN
        /\ call[c].told = "success" =>
             /\ Succeeded(c)
             /\ Verb(c) \in Looks => Intent(c).given \cap Offered(Verb(c)) \subseteq Form(c)
             /\ Verb(c) = "checkpoint" /\ "force" \in Intent(c).given
                  /\ "content" \notin Intent(c).bad => stored(1) # {}
        /\ call[c].told = "failure" => ~Succeeded(c)
        /\ call[c].traced => call[c].events = Needed(c)
        /\ \A k \in DOMAIN call[c].codes :
             /\ call[c].codes[k] = "ok" /\ call[c].names[k] # 0 => stored(k) # {}
             /\ call[c].codes[k] \in Refusals \cup {"not_attempted"} => left(k) = {}
    BY DEF AnswersAreTrue
  <2>1. /\ Shape(c) /\ Sent(c) /\ Answered(c)
    BY RowCalls
  <2>2. /\ Verb(c) = "checkpoint" /\ "force" \in Intent(c).given => "force" \in Form(c)
        /\ Verb(c) \in Looks => Intent(c).given \cap Offered(Verb(c)) \subseteq Form(c)
    BY <2>1, Forms
  <2>3. \A k \in DOMAIN call[c].codes :
          /\ call[c].names[k] # 0 => \E r \in rows : r.call = call[c].names[k] /\ r.part = k
          /\ call[c].codes[k] = "ok" /\ Lands(c) => call[c].names[k] # 0
    BY <2>1 DEF Answered
  <2>4. /\ call[c].told = "success" => Succeeded(c) /\ call[c].stage = "over"
        /\ call[c].told = "failure" => ~Succeeded(c)
        /\ call[c].traced => call[c].events = Needed(c)
    BY <2>1 DEF Shape
  <2>5. ASSUME call[c].told = "success", Verb(c) = "checkpoint", "force" \in Intent(c).given,
               "content" \notin Intent(c).bad
        PROVE  \E r \in rows : r.call = call[c].names[1] /\ r.part = 1
    <3>1. Lands(c) /\ Succeeded(c)
      BY <2>2, <2>4, <2>5 DEF Lands
    <3>2. Parts(c) = 1
      BY <2>1, <2>5, PartsKnown DEF SurfaceInv
    <3>3. call[c].codes # <<>> /\ call[c].codes \in Seq(Code)
      BY <2>1, <2>4, <2>5, <3>2 DEF Shape
    <3>4. 1 \in DOMAIN call[c].codes
      BY <3>3, EmptySeq, LenProperties
    <3>5. QED
      BY <2>3, <3>1, <3>4 DEF Succeeded
  <2>6. ASSUME NEW k \in DOMAIN call[c].codes, NEW r \in rows \ gone, r.call = c, r.part = k
        PROVE  call[c].codes[k] \notin Refusals \cup {"not_attempted"}
    BY <2>6, RowCalls DEF RowFits, Refusals
  <2>7. QED
    BY <2>2, <2>3, <2>4, <2>5, <2>6
<1>2. QED
  BY <1>1, SurfaceInvariant, PTL

\* What may be asked for again, over whichever surfaces, is one write, or one
\* that is not over; successes name it, or one of them names what is over; a key
\* is only in the way of another request, only an erased text is unavailable, and
\* what was stored under a key is not decided by the provider or the time.
THEOREM AskingAgainIsSafe == Spec => []RepeatsAreOneWrite
<1>1. SurfaceInv => RepeatsAreOneWrite
  <2> SUFFICES ASSUME SurfaceInv, NEW t \in DOMAIN plan, Repeatable(t)
               PROVE
        /\ \A q, r \in rows :
             call[q.call].by = t /\ call[r.call].by = t /\ q.part = r.part =>
               q = r \/ (plan[t].op \in Settling /\ {q, r} \cap gone # {})
        /\ \A c, d \in Of(t) :
             call[c].told = "success" /\ call[d].told = "success" =>
               \/ call[c].names = call[d].names
               \/ /\ plan[t].op \in Settling
                  /\ \E r \in gone : r.call \in Names(c) \cup Names(d)
        /\ \A c \in Of(t) :
             /\ "idempotency_conflict" \in Codes(c) /\ plan[t].op # "put_relationship" =>
                  \E r \in rows : call[r.call].by # t
             /\ "idempotency_unavailable" \in Codes(c) => \E r \in gone : call[r.call].by = t
             /\ call[c].late /\ Keyed(c) /\ Admitted(c) => Codes(c) \subseteq LateCodes(c)
    BY DEF RepeatsAreOneWrite, LateCodes
  <2>1. \A c \in Of(t) : /\ c \in DOMAIN call /\ call[c].by = t /\ Shape(c) /\ Sent(c) /\ Answered(c)
                         /\ Intent(c) = plan[t] /\ Verb(c) = plan[t].op
    BY RowCalls DEF Of, Intent, Verb
  <2>2. \A q, r \in rows : call[q.call].by = t /\ call[r.call].by = t =>
          q = r \/ (plan[t].op \in Settling /\ {q, r} \cap gone # {})
    <3> SUFFICES ASSUME NEW q \in rows, NEW r \in rows,
                        call[q.call].by = t, call[r.call].by = t
                 PROVE  q = r \/ (plan[t].op \in Settling /\ {q, r} \cap gone # {})
      OBVIOUS
    <3>1. q.call \in Of(t) /\ r.call \in Of(t) /\ RowsApart(q, r)
      BY RowCalls DEF Of
    <3>2. \A c \in Of(t) :
            /\ Form(c) \subseteq plan[t].given
            /\ plan[t].op \in TextWrites /\ "key" \in plan[t].given => Keyed(c)
            /\ plan[t].op \in Moving /\ "version" \in plan[t].given => "version" \in Form(c)
      BY <2>1, Forms DEF Keyed, Moving, Versioned, Leased
    <3>3. QED
      BY <2>1, <3>1, <3>2 DEF RowsApart, Repeatable
  <2>3. ASSUME NEW c \in Of(t), call[c].told = "success"
        PROVE  \E r \in rows : /\ call[r.call].by = t /\ Len(call[c].names) = 1
                               /\ call[c].names \in Seq(Nat) /\ call[c].names[1] = r.call
    <3>1. Lands(c) /\ Parts(c) = 1 /\ Verb(c) # "ingest_compaction"
      BY <2>1, PartsKnown DEF Repeatable, Lands, SurfaceInv
    <3>2. /\ call[c].codes # <<>> /\ call[c].codes \in Seq(Code) /\ Succeeded(c)
          /\ Len(call[c].codes) <= 1 /\ Len(call[c].names) = Len(call[c].codes)
          /\ call[c].names \in Seq(Nat)
      BY <2>1, <2>3, <3>1 DEF Shape
    <3>3. Len(call[c].codes) = 1 /\ 1 \in DOMAIN call[c].codes
      <4>1. Len(call[c].codes) # 0
        BY <3>2, EmptySeq
      <4>2. Len(call[c].codes) \in Nat /\ DOMAIN call[c].codes = 1 .. Len(call[c].codes)
        BY <3>2, LenProperties
      <4>3. PICK n : n = Len(call[c].codes)
        OBVIOUS
      <4>4. n \in Nat /\ n # 0 /\ n <= 1
        BY <3>2, <4>1, <4>2, <4>3
      <4>5. n = 1 /\ 1 \in 1 .. n
        BY <4>4
      <4>6. QED
        BY <4>2, <4>3, <4>5
    <3>4. PICK r \in rows : r.call = call[c].names[1] /\ call[r.call].by = call[c].by
      BY <2>1, <3>1, <3>2, <3>3 DEF Answered, Succeeded
    <3>5. QED
      BY <2>1, <3>2, <3>3, <3>4
  <2>4. ASSUME NEW c \in Of(t), NEW d \in Of(t), call[c].told = "success", call[d].told = "success"
        PROVE  \/ call[c].names = call[d].names
               \/ /\ plan[t].op \in Settling
                  /\ \E r \in gone : r.call \in Names(c) \cup Names(d)
    <3>1. PICK q \in rows : /\ call[q.call].by = t /\ Len(call[c].names) = 1
                            /\ call[c].names \in Seq(Nat) /\ call[c].names[1] = q.call
      BY <2>3, <2>4
    <3>2. PICK r \in rows : /\ call[r.call].by = t /\ Len(call[d].names) = 1
                            /\ call[d].names \in Seq(Nat) /\ call[d].names[1] = r.call
      BY <2>3, <2>4
    <3>3. q.call \in Names(c) /\ r.call \in Names(d)
      BY <3>1, <3>2, LenProperties DEF Names
    <3>4. CASE q = r
      BY <3>1, <3>2, <3>4, SeqEqual
    <3>5. CASE plan[t].op \in Settling /\ {q, r} \cap gone # {}
      BY <3>3, <3>5
    <3>6. QED
      BY <2>2, <3>1, <3>2, <3>4, <3>5
  <2>5. ASSUME NEW c \in Of(t)
        PROVE  /\ "idempotency_conflict" \in Codes(c) /\ plan[t].op # "put_relationship" =>
                    \E r \in rows : call[r.call].by # t
               /\ "idempotency_unavailable" \in Codes(c) => \E r \in gone : call[r.call].by = t
               /\ call[c].late /\ Keyed(c) /\ Admitted(c) => Codes(c) \subseteq LateCodes(c)
    BY <2>1 DEF Answered, Codes
  <2>6. QED
    BY <2>2, <2>4, <2>5
<1>2. QED
  BY <1>1, SurfaceInvariant, PTL
=============================================================================
