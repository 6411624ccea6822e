------------------------------- MODULE Records -------------------------------
(***************************************************************************)
(* The versioned rows beside the memory plane (surreal_store.rs): task     *)
(* state slots, whose put is a loop of three attempts of two statements,   *)
(* entities, whose update is a read and a guarded transaction, and traces, *)
(* whose append is four statements without a transaction.                  *)
(*                                                                         *)
(* The body of a row is a number, so that a caller can write what follows  *)
(* from what it read.  A careful caller guards every write with the        *)
(* version it read; a careless one just writes.                            *)
(***************************************************************************)
EXTENDS Integers, FiniteSets

CONSTANTS
  Caller,
  MaxVersion,  \* bound on the versions of a row
  Trace,       \* trace ids
  TraceScope,  \* scopes that append to them
  Absent

ASSUME RecordsAssumption == MaxVersion \in Nat \ {0} /\ Absent \notin Trace \cup TraceScope

VARIABLES
  careful,   \* the callers of this behaviour guard their writes
  task,      \* the one task_state slot; version 0: no row
  entity,    \* the one entity
  trace,     \* scope of the trace row
  events,    \* trace_event rows: the trace and the scope of each
  asks       \* the call each caller has in flight

recordVars == <<careful, task, entity, trace, events, asks>>

VersionedRow == [version : 0..MaxVersion, body : 0..MaxVersion]
NoRow == [version |-> 0, body |-> 0]

\* create_only and expected_version exclude each other; none is an
\* unconditional write.
Mode == {"create_only", "expected", "any"}
Call == [step : {"idle", "update", "create", "entity", "bind", "append",
                 "done", "conflict", "busy"},
         mode : Mode, expected : 0..MaxVersion, body : 0..MaxVersion,
         attempt : 0..2,
         found : 0..MaxVersion,   \* the version an answer or an error reports
         refused : BOOLEAN,       \* the engine refused a write of this call
         trace : Trace \cup {Absent}, scope : TraceScope \cup {Absent}]

Idle == [step |-> "idle", mode |-> "any", expected |-> 0, body |-> 0, attempt |-> 0,
         found |-> 0, refused |-> FALSE, trace |-> Absent, scope |-> Absent]

RecordsInit ==
  /\ careful \in BOOLEAN
  /\ task = NoRow /\ entity = [version |-> 1, body |-> 1]
  /\ trace = [t \in Trace |-> Absent] /\ events = {}
  /\ asks = [c \in Caller |-> Idle]

Ask(c, call) == asks' = [asks EXCEPT ![c] = call]
MayAsk(c) == asks[c].step \in {"idle", "done", "conflict", "busy"}
Answer(c, version) == Ask(c, [Idle EXCEPT !.step = "done", !.found = version])

\* task_state_conflict reads the row again to word the error.
Conflict(c) == Ask(c, [asks[c] EXCEPT !.step = "conflict", !.found = task.version])

-----------------------------------------------------------------------------
(* Task state *)

\* A careful caller has read the slot with get_task_state before.
PutTaskState(c, mode, seen) ==
  /\ MayAsk(c) /\ task.version < MaxVersion
  /\ careful => mode # "any"
  /\ mode = "create_only" => seen = NoRow
  /\ mode = "expected" => seen.version > 0
  /\ Ask(c, [Idle EXCEPT !.step = "update", !.mode = mode, !.expected = seen.version,
                         !.body = seen.body + 1])
  /\ UNCHANGED <<task, entity, trace, events>>

\* Mutant: the version is not part of the condition.
MatchesAnyVersion(call) == task.version > 0 /\ call.mode # "create_only"

\* WHERE scope .. AND slot .. AND ($expected = NONE OR version = $expected)
\* AND $create_only = false
Matches(call) ==
  /\ task.version > 0 /\ call.mode # "create_only"
  /\ call.mode = "expected" => task.version = call.expected

UpdateTask(c) ==
  /\ asks[c].step = "update" /\ Matches(asks[c]) /\ task.version < MaxVersion
  /\ task' = [version |-> task.version + 1, body |-> asks[c].body]
  /\ Answer(c, task.version + 1)
  /\ UNCHANGED <<entity, trace, events>>

\* No row came back: a conflict for a guarded call, a missing row for others.
UpdateTaskMisses(c) ==
  /\ asks[c].step = "update" /\ ~Matches(asks[c])
  /\ IF asks[c].mode = "expected" THEN Conflict(c)
     ELSE Ask(c, [asks[c] EXCEPT !.step = "create"])
  /\ UNCHANGED <<task, entity, trace, events>>

\* Mutant: the loop does not count.
AgainForever(c, refused) ==
  Ask(c, [asks[c] EXCEPT !.step = "update", !.attempt = @ + 1,
                         !.refused = @ \/ refused])

\* The next attempt of the loop; the third ends it, in the engine's error when
\* it lost its create to the unique index.
Again(c, refused) ==
  LET call == IF refused THEN [asks[c] EXCEPT !.refused = TRUE] ELSE asks[c] IN
  Ask(c, IF call.attempt < 2 THEN [call EXCEPT !.step = "update", !.attempt = @ + 1]
         ELSE IF refused THEN [call EXCEPT !.step = "conflict", !.found = task.version]
         ELSE [call EXCEPT !.step = "busy"])

\* Another transaction is writing the slot, so the engine refuses this one.
Contended(c) == \E d \in Caller \ {c} : asks[d].step \in {"update", "create"}

EngineRefusesUpdate(c) ==
  /\ asks[c].step = "update" /\ Contended(c) /\ Again(c, TRUE)
  /\ UNCHANGED <<task, entity, trace, events>>

CreateTask(c) ==
  /\ asks[c].step = "create" /\ task = NoRow
  /\ task' = [version |-> 1, body |-> asks[c].body]
  /\ Answer(c, 1)
  /\ UNCHANGED <<entity, trace, events>>

\* The unique index on (scope, slot).
CreateTaskLoses(c) ==
  /\ asks[c].step = "create" /\ task # NoRow
  /\ IF asks[c].mode = "create_only" THEN Conflict(c) ELSE Again(c, FALSE)
  /\ UNCHANGED <<task, entity, trace, events>>

\* A refused create is worded as a conflict for create_only, retried otherwise.
EngineRefusesCreate(c) ==
  /\ asks[c].step = "create" /\ Contended(c)
  /\ IF asks[c].mode = "create_only" THEN Conflict(c) ELSE Again(c, TRUE)
  /\ UNCHANGED <<task, entity, trace, events>>

-----------------------------------------------------------------------------
(* Entities *)

\* update_entity always takes an expected version; its read only checks the
\* scope and keeps the version that an error will report.
EntityRead(c, seen) ==
  /\ MayAsk(c) /\ entity.version < MaxVersion
  /\ Ask(c, [Idle EXCEPT !.step = "entity", !.mode = "expected",
                         !.expected = seen.version, !.body = seen.body + 1,
                         !.found = entity.version])
  /\ UNCHANGED <<task, entity, trace, events>>

EntityCommit(c) ==
  /\ asks[c].step = "entity"
  /\ IF entity.version = asks[c].expected
     THEN /\ entity' = [version |-> entity.version + 1, body |-> asks[c].body]
          /\ Answer(c, entity.version + 1)
     ELSE Ask(c, [asks[c] EXCEPT !.step = "conflict"]) /\ UNCHANGED entity
  /\ UNCHANGED <<task, trace, events>>

-----------------------------------------------------------------------------
(* Traces *)

\* The first two statements: a trace of another scope is refused.  Whether the
\* engine goes on with the statements after a THROW outside a transaction is
\* left open; the answer is an error either way.
AppendTraceEvent(c, t, s) ==
  /\ MayAsk(c)
  /\ \/ /\ trace[t] \in {Absent, s}
        /\ Ask(c, [Idle EXCEPT !.step = "bind", !.trace = t, !.scope = s])
     \/ /\ trace[t] \notin {Absent, s}
        /\ \/ Ask(c, [Idle EXCEPT !.step = "bind", !.trace = t, !.scope = s, !.refused = TRUE])
           \/ Ask(c, [Idle EXCEPT !.step = "conflict", !.trace = t])
  /\ UNCHANGED <<task, entity, trace, events>>

\* UPSERT: an existing parent keeps its scope.
BindTrace(c) ==
  /\ asks[c].step = "bind"
  /\ trace' = [trace EXCEPT ![asks[c].trace] = IF @ = Absent THEN asks[c].scope ELSE @]
  /\ Ask(c, [asks[c] EXCEPT !.step = "append"])
  /\ UNCHANGED <<task, entity, events>>

CreateEvent(c) ==
  /\ asks[c].step = "append"
  /\ events' = events \cup {<<asks[c].trace, asks[c].scope>>}
  /\ Ask(c, [asks[c] EXCEPT !.step = IF asks[c].refused THEN "conflict" ELSE "done"])
  /\ UNCHANGED <<task, entity, trace>>

\* get_trace: the events of the caller's scope, unless the parent is another's.
GetTrace(t, s) ==
  IF trace[t] \in {Absent, s} THEN {e \in events : e = <<t, s>>} ELSE {}

-----------------------------------------------------------------------------

\* The caller goes away, or the process dies.
GoAway(c) == ~MayAsk(c) /\ Ask(c, Idle) /\ UNCHANGED <<task, entity, trace, events>>

RecordsNext ==
  /\ \E c \in Caller :
       \/ \E mode \in Mode : PutTaskState(c, mode, task)
       \/ UpdateTask(c) \/ UpdateTaskMisses(c) \/ EngineRefusesUpdate(c)
       \/ CreateTask(c) \/ CreateTaskLoses(c) \/ EngineRefusesCreate(c)
       \/ EntityRead(c, entity) \/ EntityCommit(c)
       \/ \E t \in Trace : \E s \in TraceScope : AppendTraceEvent(c, t, s)
       \/ BindTrace(c) \/ CreateEvent(c) \/ GoAway(c)
  /\ UNCHANGED careful

-----------------------------------------------------------------------------

RecordsTypeOK ==
  /\ careful \in BOOLEAN
  /\ task \in VersionedRow /\ entity \in VersionedRow
  /\ trace \in [Trace -> TraceScope \cup {Absent}]
  /\ events \subseteq (Trace \X TraceScope)
  /\ asks \in [Caller -> Call]

\* No race over a slot or an entity loses an update or a call.  When every
\* caller writes what follows from the row it read and guards the write with
\* its version, or with create_only, a row has as much in its body as it has
\* versions, whatever overlaps, is refused by the engine or is tried again.  A
\* call without a condition gives up after three attempts only when the engine
\* refused one of its writes, never by losing the race between its update and
\* its create.
RacesLoseNothing ==
  /\ careful => task.body = task.version
  /\ entity.body = entity.version
  /\ \A c \in Caller :
       asks[c].step \in {"conflict", "busy"} /\ asks[c].mode = "any" /\ asks[c].trace = Absent
         => asks[c].refused

\* A trace keeps the scope of its first event, and what is shown of a trace in a
\* scope is never taken away by an append in another.
TraceKeepsItsScope ==
  [][\A t \in Trace :
       /\ trace[t] # Absent => trace'[t] = trace[t]
       /\ \A s \in TraceScope :
            trace[t] = s => GetTrace(t, s) \subseteq GetTrace(t, s)']_recordVars
=============================================================================
