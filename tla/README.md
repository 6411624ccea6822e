# nomiso in TLA+

This directory is a verification project for nomiso, a memory plane for agents on
SurrealDB: TLA+ modules translated from the code, TLC configurations that check
them on small instances, and TLAPS proofs, for every instance, of the theorems
about the job journal, the memory plane, embedding generations and the reindex
executor, the worker's loop, the migration ledger, the versioned records and the
evidence, listings, recalls, contexts and batches, and the adapters.

Paths are relative to the repository root, those of crates (`nomiso-...`) to
`crates/`; `store` stands for `crates/nomiso-store/src/surreal_store.rs`,
`worker.rs`, `context.rs` and the like for the one file of that name in `crates/`.

Contents: 1 inventory, 2 files, 3 how the code becomes steps, 4 to 10 what each
module models, 11 runs and bounds, 12 disagreements between the code and what is
written about it, 13 proofs, 14 what is not modelled, 15 plan.

## 1. Inventory

nomiso keeps all durable state in one SurrealDB database (and the bytes of
artifacts in directories or buckets). Any number of processes embed the store or
reach it through HTTP, MCP or the CLI; nothing coordinates them but the database.
A handler is a sequence of awaits: reads, then one statement or one
`BEGIN .. COMMIT` block whose `WHERE` clauses and unique indexes are the
authoritative guards. Between two awaits every other process may commit.

| Component | State | Operations | Interacts with | Hard behaviour |
| --- | --- | --- | --- | --- |
| Memory plane (`store`, `nomiso-core`) | `memory` rows with version, validity interval, `supersedes` / `superseded_by`, `stale`; `belief_event` journal; `idempotency_slot` receipts | put, keyed put and its replay, supersede, soft forget, hard erase, annotate, link_derived_from, history, read | every other component reads or pins its rows | read-then-write handlers, lost responses and retries, lineage under races, annotations merged from a stale read |
| Relationships (`store`, `nomiso-core/src/relationship.rs`) | typed versioned edges with a unique live key; `relationship_event` | put, update, list | staled by supersede, purged by hard erase, in those commits; walked by traversal and expansion | endpoint checks outside the creating transaction; invalidation that does not move the edge's version |
| Durable job journal (`store`, `nomiso-core/src/job.rs`) | `nomiso_job` rows: state, fence, owner, lease, backoff, deadline, attempts, deduplication slot, checkpoint, result, history | enqueue, claim (with the deadline sweep), renew, checkpoint, complete, fail, cancel, supersede, get, list | pins memory revisions; driven by the worker; enqueued atomically with canonical writes | fencing of late holders, stale snapshots, lapsing leases, retries, crash at any await |
| Worker runtime (`nomiso-service/src/worker.rs`) | in-flight task set, stop token, counters | run loop (claim, execute, settle), graceful stop, quota | claims and settles jobs | concurrency window, stop and panic between claim and settle, a failed claim |
| Canonical write with jobs (`store`) | memory row, slot and job rows in one commit | put_with_jobs, supersede_with_jobs, receipt replay | memory plane and journal | replay after the job has finished; duplicate slots inside one commit |
| Embedding generations (`store`) | `embedding_generation`, staged `embedding_vector`, the vector and generation of each memory | ensure, declare, attest, stage, activate, resolve for a write | reindex executor, puts, hard erase | activation racing puts resolved against the old generation |
| Reindex executor (`worker.rs`) | cursor checkpoint | batch, stage, checkpoint, activate | journal, generations | resume after a crash, late attempts, re-staging |
| Migration ledger (`store`, `nomiso-schema`) | `schema_migration` rows, version and dimension markers, first generation | migrate: check markers, claim, apply, complete, write markers | start-up of every process | stolen stale claims, old and new builds starting together |
| Task state (`store`) | `task_state` rows with version | put with expected version or create-only, get | adapters' working memory | a loop of two statements, given up after three attempts |
| Traces and entities (`store`) | trace with append-only events; entities with version | append, get; update | context controller, writer | four statements without a transaction; read before a guarded update |
| Evidence (`store`, `nomiso-blob`, `nomiso-memory/src/artifact.rs`) | artifact and span rows; content-addressed blobs | store, put, put_span, rebind, relocate | blob stores | durable install, copy-verify-rebind order, two writers of one digest |
| Retrieval (`store`, `nomiso-memory`) | none | search, expansion, list, count, traverse, hard recall and pack | reads everything | pages under concurrent writes, four budgets and their labels, fusion and packing |
| Context controller (`nomiso-memory/src/context.rs`) | pack and inject events of a trace | prepare_context, record_insertion | retrieval, traces | a check against a trace read earlier; budgets |
| Writer and sleep (`nomiso-memory`) | none | preflight, apply_ops, compaction, checkpoint, sleep pass | memory plane | partial batches, stale scans |
| Embedding providers (`nomiso-embed`) | none | embed | writes and searches of text | any answer, none, or a late one |
| Adapters (service, HTTP, MCP, CLI) | none of their own | decode, authorize, look up, embed, store, trace, answer | everything | six decoders of one request; answers lost, handlers dropped |
| Python SDK (`sdk/python`) | none | a method per route, one retry | product HTTP | what may be sent again |
| Evaluation crates; daemon, examples, scripts | none | measurement; start-up | - | - |

What makes each component correct:

- **Journal**: one live job per intent; leases bounded by the budget; only the
  newest holder advances a job; settlements tell what happened; success only on
  the pinned revisions; every job settles, unless it spent its attempts without
  an answer or jobs that did so keep it out of every scan.
- **Worker**: no lease is forgotten; a stopped worker ends; the quota is exceeded
  by less than the window.
- **Write with jobs**: the write and its jobs commit together, and what callers
  are told of both agrees.
- **Memory plane**: one successor per prior; the journal of a memory replays to
  its row; a key names one memory for ever; writes stay in their scope;
  supersession invalidates dependents in the same commit; guarded annotations
  keep what others wrote.
- **Generations and reindex**: one complete generation serves; a stamp tells the
  model of its vector; a checkpoint is never ahead of its effects; erasure takes
  staged vectors along.
- **Ledger**: who serves is fully migrated, and agrees with who else serves.
- **Records**: no race loses an update, and none makes a call give up but a
  refusal of the engine.
- **Evidence**: a completed name is whole; a readable row stays readable; a row, a
  span and an answer stay in their scope.
- **Retrieval**: an enumeration names exactly what stood throughout and nothing
  that never was; a walk that names no bound is complete and its paths are real;
  recall keeps the better card.
- **Context, writer, sleep**: an acknowledgment settles on the recorded proposal; a
  batch is a prefix; a sleep pass forgets only what it saw.
- **Surfaces**: asking again where it was promised is safe, whatever ended or was
  erased meanwhile; a guard survives its decoder; an answer is true.

## 2. Files

| File | Role |
| --- | --- |
| `JobJournal` | the job table and every store operation on it, at statement granularity |
| `JobLifecycle` | what the journal promises: the abstract transition table with an explicit fence |
| `JobJournalProofs` | TLAPS proofs about `JobJournal` and its refinement of `JobLifecycle` |
| `MemoryPlane` | memory rows, belief journal, idempotency slots, derivation edges, relationships |
| `MemoryPlaneProofs` | TLAPS proofs about `MemoryPlane` |
| `EmbeddingGenerations`, `Reindex` | which model a vector comes from; the executor and its job over them |
| `ReindexProofs` | TLAPS proofs about generations and the executor |
| `WorkerRuntime` | the worker's loop over the table of `JobLifecycle` |
| `WriteWithJobs` | the canonical write with jobs over the same table |
| `WorkPipeline` | composes the two: writers and workers over one table |
| `WorkPipelineProofs` | TLAPS proofs that no lease is forgotten and that writes and jobs agree |
| `SchemaLedger`, `Records`, `Evidence` | migrations; task state, entities and traces; blobs, artifacts and spans |
| `StorePlanes` | composes the three |
| `StorePlanesProofs` | TLAPS proofs about the ledger, the records and the evidence while all three run |
| `RelationshipGraph`, `Traversal`, `Expansion` | the edge table as walks see it; traverse; search with expansion |
| `Listing`, `Recall` | list and count; hard recall, fusion and packing |
| `ContextController`, `WriterBatch` | proposals and acknowledgments; batches, compaction and sleep |
| `Ordering` | the places a loop reads, in their order, for the graph, proposals and batches |
| `Library` | composes the six |
| `LibraryProofs` | TLAPS proofs about listings, acknowledgments, batches and sleep, recalls and contexts |
| `WalkProofs` | TLAPS proofs about walks: traversal, and the expansion of a search |
| `Handlers` | what the adapters have in common: a handler takes, refuses or ignores fields |
| `ProductHttp`, `ProductMcp`, `ProductCli`, `ProductSdk`, `PlaneHttp`, `PlaneMcp` | one adapter each: its handlers, its way to tell success |
| `HttpEmbedder` | what the client makes of a provider's answer |
| `Surfaces` | composes them: hosts, calls in flight, and what the calls leave in a store |
| `SurfacesProofs` | TLAPS proofs about the six adapters' handlers and the calls over them |
| `MC<Module>` | the small instances TLC checks, of `JobJournal`, `MemoryPlane`, `Reindex`, `WorkPipeline`, `StorePlanes`, `Library` and `Surfaces` |
| `<Module>_<run>.cfg` | one configuration per run of `PROJECT.json` |

Definitions whose comment begins with *Mutant* are not part of the model: each is
a plausible bug, used to show that the property it is paired with in
`PROJECT.json` notices it.

Where components share no rows their modules are composed by a variable that
chooses one of them for a behaviour (`plane` in `StorePlanes`, `call` in
`Library`, `usage` in `MemoryPlane`). The runs stay few, and nothing is lost:
interleaving steps that touch no common variable shows nothing new.

## 3. How the code becomes steps

- **One statement or one `BEGIN .. COMMIT` block is one step.** SurrealDB
  transactions are taken to be atomic and serializable; the engine's isolation
  is an assumption, not a result. A handler that reads a row in one query and
  writes in a later one is two actions (`...Read`, `...Commit`), with what it
  keeps in between in a variable (`scan`, `draft`, `op`, `req`, `call`).
  Everything else may happen between the two.
- **Refused calls.** A call refused before its write changes nothing durable and
  is left out, except in `Surfaces`, which is about such answers; a call refused
  *by* its write is an action, because its guard is what is being checked.
- **Lost answers and crashes.** A slot of `JobJournal` may `Crash` whenever it
  holds a lease; a caller of `MemoryPlane`, `WriteWithJobs`, `Records`,
  `Evidence` or `Surfaces` may give up between any two of its steps, and ask
  again; a worker may `Die`, a migrating process `Halt`, a batch's process die.
- **Time.** There is no clock value, except in `Listing`, whose lenses compare
  times. A lease, a backoff, a deadline or the age of a claim has elapsed or not,
  and elapsing is an action that may happen at any moment, so every relation
  between durations and clocks is covered. One refinement is lost: the deadline
  test of the claim loop uses the host's clock just before the update; the model
  evaluates it in the step of the update.
- **Ids** (`Uuid::now_v7`) are numbers handed out in order and never reused;
  `created_at` order is id order.
- **Data** is what the properties tell apart: a vector is the model it came from,
  a text is its identity, a checkpoint is the fence of the lease that wrote it, a
  request is the set of fields given. A ranking of the engine is any ranking.

## 4. The job journal

| Model | Code |
| --- | --- |
| `jobs[j]` | the row of `nomiso_job`: `state`, `dedup_slot` (`slot`), `budget.max_attempts`, `expires_at` (`deadline`), `attempts`, `fence`, `owner`, `lease_until` (`lease`), `not_before` (`ready`), `checkpoint`, `result`, `terminal_reason` (`reason`), `replaced_by`, `history` |
| `revision[m]` | the version of a memory an intent pins, `Gone` once it is erased |
| `wpc`, `scan`, `token`, `draft` | where a task slot is; the rows its claim read; its `JobLease`; what `complete_job` / `fail_job` read |
| `op` | what `cancel_job` / `supersede_job` read |
| `Enqueue` | `enqueue_job`: input checks and the insert, one transaction. A replay on the live slot changes nothing |
| `ClaimScan`, `ClaimExpire`, `ClaimSkip`, `ClaimLease`, `ClaimNothing` | `claim_job`: the LIMIT 8 scan, then per candidate the deadline sweep, the budget test and the conditional `UPDATE` |
| `Renew`, `Checkpoint` | `renew_job_lease`, `checkpoint_job` |
| `CompleteRead`, `CompleteCommit`, `CompleteReject` | `complete_job`: read, then input checks and fenced update in one transaction |
| `FailRead`, `FailRetry`, `FailTerminal`, `FailReject` | `fail_job`: the outcome is decided on the row that was read |
| `CancelRead`, `SupersedeRead`, `OperatorCommit` | the two operator calls; their update tests the state only |
| `LeaseElapses`, `BackoffElapses`, `DeadlinePasses` | time |
| `Revise`, `Erase` | the memory plane moving a pinned input |
| `Crash`, `Release` | a process that dies, an executor that aborts |

Several task slots may share one `WorkerName`, as the tasks of one worker
process do: then only the fence tells them apart, and the runs use exactly that
case. The row's allowlist of kinds is folded into `Grant`.

**The abstract specification.** `JobLifecycle` has no snapshots, tokens or time.
A job is accepted, acquired under a new epoch, advanced, completed, given back or
closed. The refinement maps `status` to the state column, `epoch` to the fence,
`progress` and `result` to the fences of the writers. That every step of the
journal maps to one of these steps says in one sentence what the fencing is for:
nobody but the newest holder advances a job. `WorkerRuntime` and `WriteWithJobs`
are built over `JobLifecycle`, so what they rely on is what the journal is proved
to give.

**Fairness** (`FairSpec`, used only where liveness is checked). `WF(Claim(w))`:
`Worker::run` polls for ever (`worker.rs:174-243`). `WF(Settle(w))`: an executor
returns, fails, or its process dies, and `Crash` is one of the ways to settle,
so no executor is assumed to succeed. `WF(LeaseElapses)`, `WF(BackoffElapses)`:
time passes. Renewals are not fair and may stop at any time; clients and
operators never have to act; strong fairness is not used. A holder that renews
for ever without settling is excluded by `WF(Settle(w))`, as an executor that
never returns is.

## 5. The memory plane

| Model | Code |
| --- | --- |
| `memories[m]` | the `memory` row: `version`, `valid_until` and `sys_closed` (`interval`), `supersedes`, `superseded_by`, `stale`, `attrs` |
| `journal[m]` | `belief_event` rows in commit order |
| `slots[s][k]` | `idempotency_slot`: the memory it names and the identity of the request (`body`) |
| `derived` | `derived_from_edge` |
| `relations[e]` | `relationship`: state, endpoints, `live_key` held or released, version |
| `req[c]` | what a call in flight has read, or the answer it was given |
| `usage` | not in the code: which operations callers use in a behaviour, and their scopes |
| `PutPlain` | `put_prepared` without a key: row and assert event in one transaction |
| `PutRead`, `PutCommit`, `PutReplay`, `PutReceipt` | `put_prepared` with a key: receipt lookup; slot, row, receipt and assert event in one transaction; the losing racer's replay; the receipt read back |
| `SupersedeRead`, `SupersedeCommit` | `supersede_inner`: close, create, link, mark dependents and relationships stale, journal both |
| `ForgetRead`, `ForgetCommit`, `EraseRead`, `EraseCommit` | `forget`, soft and hard |
| `AnnotateRead`, `AnnotateCommit` | `annotate`: the merge of the attributes happens in the read |
| `LoseGuard`, `ConflictFromMemory` | a failed guard, and the second read that words the error |
| `LinkRead`, `LinkCommit` | `link_derived_from`; the source is not looked at |
| `RelateRead`, `RelateCommit`, `UpdateRead`, `UpdateCommit` | `put_relationship`, `update_relationship` |
| `GiveUp` | a caller that drops its call, or a process that dies |

Abstractions. `supersedes_edge` repeats `supersedes` and is not kept twice.
Content, categories and scores are left out; the generation of a vector is in
`EmbeddingGenerations`. Relationships join memories and pin no revision;
entity, artifact and span endpoints are left out. A keyed row written before
slots existed cannot be produced by the current code and is left out. The
permissions of a caller are its one scope.

## 6. Embedding generations and the reindex executor

| Model | Code |
| --- | --- |
| `generations[g]` | the row of `embedding_generation`: status, identity (`model`), `embedded_count` |
| `memories[m]` | whether the row is valid, closed or erased, the model its vector came from, its `embedding_generation` stamp |
| `staged` | the `embedding_vector` table |
| `call[c]` | what a call has read: the stamp it resolved, the generation it will adopt, attest or activate |
| `job` | the newest reindex job: state, generation, newest token, checkpoint |
| `run[r]` | an attempt: where it is, its token, cursor and page |
| `ResolveStamp`, `ResolveAdopt`, `Adopt`, `AdoptRecheck` | `resolve_embedding_for_write` |
| `Write`, `Forget`, `Erase` | what put, supersede and forget do to vectors; their own guards are `MemoryPlane`'s |
| `AttestRead`, `Attest`, `Declare`, `ActivateRead`, `Activate` | the administrative calls |
| `Claim`, `List`, `Pause`, `CheckBuilding`, `StagePage`, `StagePageRefused`, `Checkpoint`, `CheckpointScope`, `Validate`, `Swap`, `SwapRefused`, `Settle`, `Abort` | `ReindexExecutor::run` under `Worker::run` and `Worker::settle` |
| `Enqueue`, `GiveUp`, `Crash` | an operator, a caller, a process |

Abstractions. A vector is the model that produced it: the text of a memory never
changes, and the executor's embedder is the one of the generation's identity, as
`ReindexExecutor::new` requires. The job row is the journal's, whose fencing is
proved in `JobJournalProofs`; here a *token* stands for job and fence together,
only the newest may checkpoint or settle, and since the executor never renews, a
lease may lapse at any time. One scope is listed; several are listed one after
the other. Rows are listed newest first as of the first page (the cursor pins
`as_of`), so a row written later is not listed; a row written with an earlier
`valid_from` would be, and is left out. A null cursor is recorded behind the last
page, as in the code, so an attempt resumed there starts the scope again. Left
out: vectors that were there before generations existed, rows without a vector,
and `stage_embeddings` called by clients other than the executor.

## 7. Writers and workers: `WorkPipeline`

`WorkerRuntime` and `WriteWithJobs` both EXTEND `JobLifecycle`, so they share its
table; `WorkPipeline` interleaves them.

| Model | Code |
| --- | --- |
| `pc`, `saw` | where `Worker::run` is in a round, and the stop token and quota it read at the top of it |
| `flight` | the `JoinSet`: a job, its fence and how its executor ended |
| `claimed`, `stop` | the counter tested against `max_jobs`; the cancellation token |
| `dropped` | not in the code: leases whose attempt ended without a settlement |
| `Round`, `Claim`, `ClaimEnds`, `ClaimError`, `Harvest`, `Idle` | the loop: read token and quota, fill the window, stop filling, return with an error, join one and settle it, sleep or return |
| `Finish` | an executor's outcome: completed, retryable or fatal error, paused (only once stopped), aborted or panicked |
| `SettleCompleted`, `SettleFailed`, `SettleNothing` | `Worker::settle`; a completion may be refused for its inputs |
| `RequestStop`, `Die` | the stop handle; the process |
| `made`, `slots`, `jobKey` | memory rows, receipts and the `dedup_key` of job rows |
| `Begin`, `Replay`, `ReplayEnds` | the receipt lookup, and the enqueueing of every intent again |
| `Resolve`, `WriteCommit`, `WriteCollides`, `WriteReplays`, `Answer`, `Abandon` | intents resolved against live slots; the one transaction; the second attempt under a new record key; the losing keyed racer; the read of the job rows for the answer |

A lease may lapse at any time, so a leased job can always be acquired again while
its budget lasts. Pinned revisions do not move here: that is the journal's. What
an executor writes through its client before it returns is left out.

**Fairness** (`FairSpec`). `WF(Loop(w))`: the loop is a task of the runtime and
takes its steps. `WF(Executors(w))`: executors return; `StopEndsTheRun` is
promised only for those (`worker.rs:237-242` waits for the tasks in flight).
Claims that fail, stop requests, deaths and writers are not fair.

## 8. Migrations, records and evidence: `StorePlanes`

**`SchemaLedger`** (`migrate`). `at[p]` is the statement a process is at; `ledger`,
`version`, `dimension` and `generation` are the rows. `CheckVersion`,
`CheckDimension`; `ClaimMigration`, `SkipApplied`, `WaitTooLong`; `Apply`,
`ApplyFails`, `MarkFailed`, `Complete`; `CheckGeneration`, `CreateGeneration`;
`MarkVersion`, `MarkDimension`; `Halt` at any point and `Boot` again. A row names no
owner; `ClaimAges` makes a claim old enough to be stolen while its owner runs.
`ran` (not in the code) collects what content was really applied, `takenOver`
whether a claim changed hands. All DDL is `IF NOT EXISTS`; what a migration does is
represented by its checksum, which differs between builds and dimensions.

**`Records`**. `PutTaskState`, `UpdateTask`, `UpdateTaskMisses`, `CreateTask`,
`CreateTaskLoses`, `EngineRefuses...` are the loop of `put_task_state` with its three
attempts; `EntityRead`, `EntityCommit` are `update_entity`; `AppendTraceEvent`,
`BindTrace`, `CreateEvent` the statements of `append_trace_event`. A body is a number
so that a caller can write what follows from what it read: in a `careful`
behaviour every write is guarded by the version read.

**`Evidence`**. `disk` holds objects of each backend by content hash, with the states
a temporary file and a name go through (`PutBegins`, `PutWrites`, `PutFlushes`,
`PutRenames`, `PutSyncs`; `PutSkips` when the name is there; `PutUploads` for
buckets); `StoreArtifact`, `ArtifactLookup`, `ArtifactCreate`,
`ArtifactCreateLoses`, `PutSpan` store; `Relocate`, `RelocateGet`, the put, `ReadBack`,
`Rebind` relocate row by row. `Fail` ends any call, `Outage` loses what was not
synced. Objects may be corrupted from the start. Path confinement and request
signing are left out.

## 9. Retrieval, context and writer: `Library`

- **`Listing`**: `rows` with valid and system times under a `clock`; `FirstPage`
  pins the lens, `NextPage` follows a keyset cursor and refuses one of another
  query; other callers put, supersede, forget and erase between pages; `CountOn`
  pages a count up to its cap. `standing` and `ever` record which rows the lens
  showed throughout, and at some time. Scope, category, known-time and text
  filters test what a row never changes and are left out.
- **`RelationshipGraph`**: the active edges by id, followed outward, inward or both
  ways, a symmetric one from either end; others relate, invalidate, erase. `steady`
  and `seen` record which edges were active throughout the call, and at some time
  in it: what an answer may not miss, and what it may rest on.
- **`Traversal`**: `ScanNode` is one query of the breadth-first walk and its whole
  loop over the rows; `ProbeDepth` asks whether the bound cut anything;
  `DeadlinePasses` may come before any query.
- **`Expansion`**: `Search`, the re-filtering under a system lens, the seeds,
  `ExpandNode` and the merge of provenance (`WithSeed`: a hit names at most so many
  seeds), four bounds, and the fetch of the candidates, appended below the direct hits.
- **`Recall`**: passes with any ranking and scores, reciprocal-rank fusion over a
  common denominator, the abstention rules, and the pack: whole cards first, then
  references, as far as size and number go.
- **`ContextController`**: the selection (`Take`) under ceiling, cap and deadline,
  the reasons given to what was left out, the pack event; `RecordInsertion` reads
  the trace, `AppendInsertion` appends in a later call.
- **`WriterBatch`**: `apply_ops` after its preflight, one operation a step, stopping
  at the first failure, whose effect is uncertain; a compaction adds its checkpoint
  after a complete batch; a sleep pass scans page by page, proposes, and may apply
  age-outs at the version it scanned.

Rankings, scores, similarity of texts and what a language model proposes are
inputs chosen freely. Extraction of operations from text is left out.

## 10. The adapters: `Surfaces`

Each adapter's module holds its handlers as data: for an operation, the fields
it passes on, whether unknown ones are refused or ignored, which it refuses and
which it knows and leaves out; and its way to tell success (HTTP status, the
error flag of a tool, the exit code of a command). They are translated body by
body, tool by tool and flag by flag.

| `Surfaces` | Code |
| --- | --- |
| `plan` | what each host wants: operation, fields given, those of them that cannot be read |
| `saw` | the version the host had read, for a guarded write |
| `call` | a request: surface, stage, codes and names of its parts, events traced |
| `rows`, `version` | what the calls stored; the version of the one guarded object |
| `gone` | the rows that are over: a job that has settled, an edge that was closed, a keyed text that was erased |
| `Send`, `Unsent` | a host asks over any surface; the SDK's one retry of what it could not send |
| `Decode` | authorization, configuration, the handler's fields, validation |
| `Lookup` | the receipt of a keyed write, before the provider is asked; the lookup may fail, and that of `put_with_jobs` enqueues the jobs again, which may be refused |
| `Repeated`, `Known`, `Rechecks` | the row in the way of a call and what the store makes of it: the same request, another one, or a text that was erased; a job or an edge is in the way only while it is live; what is checked before a repeat is answered |
| `Embed`, `Expires` | one text at the provider (`HttpEmbedder`); an interval that has ended by then |
| `Store` | reads, replays, refusals, failures, an uncertain commit, a checkpoint or sleep that is skipped, a commit |
| `Trace`, `Close` | the trace events of a hard recall or a batch; the checkpoint of a compaction |
| `Reply`, `GiveUp` | the answer and what the surface tells by it; a dropped connection or process, after which the host may ask again while the first call still runs |
| `Departs` | workers, operators and other clients: a job ends, an edge is closed, a keyed text is erased |

All surfaces are given one store, one profile and one provider: the category a
profile infers and the provider's identity are part of what a key is claimed for.
The races inside the store are the subject of the other modules. The jobs of a keyed
write are not rows here: a replay may have enqueued the first of them before the
second is refused, and what becomes of them is the subject of `WriteWithJobs`. An edge
that was updated in place is in the way of the request that made it
(`idempotency_conflict`); one asked for without `dedupe` never repeats another. Working-memory
restore, import, `init`, `status`, `smoke`, the evaluation commands and the printed
text are left out.

## 11. Runs and bounds

Runs that must pass:

| Run | Instance | States | Shows |
| --- | --- | --- | --- |
| `fencing` | 1 job, 2 leases, 2 slots of one worker name, 2 operators, one pinned input with 2 revisions and erasure, a history of 1 | 532,731 | exclusive fences, the newest holder's result, truthful settlements, checkpoints that never regress, success on pinned inputs, and the refinement of `JobLifecycle`, with which terminal rows are final |
| `liveness` | 2 jobs of 2 leases, 2 intents, 1 slot, no operator, scans of 1 | 288,558 | every job settles, or is abandoned with its attempts spent, or is starved by abandoned jobs, and nothing but an operator ends that; one live job per intent |
| `memory` | five uses of the plane with 2 clients: keys and lineage (3 memories, 1 key, 2 texts, open and bounded intervals, unguarded closes); annotations against supersession and erasure; against a soft forget; two scopes with derivations across them; relationships | 574,349 | keys, lineage, the journal's replay, guarded annotations, isolation, invalidation |
| `reindex` | 2 generations, 2 memories, 2 models, 1 caller, 2 attempts, 2 tokens, pages of 1 | 461,260 | truthful stamps, checkpoints behind their effects, complete activation |
| `work` | 2 job rows, 1 worker with a window of 2 and a quota of 1, 2 writers, 1 key, requests of one intent, of none pinned, and of the same intent twice | 366,116 | leases accounted for, writes and jobs that agree, a stop that ends the run |
| `planes` | 3 builds of which 2 run at once, 2 migrations; 2 callers over a slot, an entity and a trace, 3 versions; 2 actors, a directory and a bucket, one object, 2 artifacts, 1 outage | 376,167 | the ledger, the records, the evidence |
| `library` | 3 rows and 3 instants, pages of 1 and 2; 3 nodes and 3 edges, one touched by others; 4 cards, 2 passes; 2 evidence rows, 2 hosts, 3 events; batches of 0 to 3 operations out of six; sleep over 3 memories | 1,024,045 | enumerations, walks, recall, acknowledgments, batches, sleep |
| `surfaces` | every operation of every surface, alone with no field, each telling field, every field, and an unknown one; intents that cannot be read, authorized or resolved; rivals for a key and for a version; 2 calls per host; four answers of the provider; batches of 0 and 2 parts; jobs, edges and texts that end or are erased between the calls; lookups that fail | 511,387 | repeats, guards and answers across the adapters |

Why these bounds are enough to be interesting: a stale snapshot needs two actors
and one row; a replaced holder needs two leases; a replay of a deduplication
needs a second job after the first settled; a hidden candidate needs two jobs and
a starved one a scan shorter than the jobs, as the eight rows of the code are of a
table without bound; a
forked lineage needs a prior and two successors; a stale dependent needs the
dependent, its source and the successor; a cursor inside a listing needs two
rows and pages of one; a late attempt needs two tokens; a quota that is passed
needs a window larger than what is left of it; a stolen claim needs two
processes and two migrations to tell the content apart; the third attempt of
`put_task_state` needs a rival twice; a relocation that is overtaken needs a
second actor on the same row; a walk that is cut needs a chain longer than the
depth and a second way to its end; a page that is missed needs a row closed
between two pages; a repeat needs two calls, and a lost answer one that goes on
after its host has given up. `HistoryMax = 1` with two leases makes the history
bound bite. Every bound is a constant, named with the code's value where there is
one (`ScanLimit` is 8 there, `HistoryMax` `JOB_HISTORY_MAX`, `Batch` 64). `MaxFrom` is
3 there and 1 in `library`, where two seeds lead to one candidate.

What they do not cover: `reindex` has one caller, so two first writes that adopt
an identity at once are not checked against each other, only one that races an
activation; `work` has one worker, and two workers on one row are the subject of
`fencing`; `planes` runs two processes at a time, `StorePlanesProofs` any number.

`Symmetry` permutes interchangeable actors and data and is never used where
liveness is checked, nor in `relabel`, whose property compares numbers.

Deadlock is checked in the runs of the journal, where a worker can always scan.
The other instances really may stop: ids are bounded and calls are not begun
again for ever (all memories erased, all tokens spent, a process that serves, a
listing at its end, a host that has had its answer).

Runs that find a disagreement between the code and what is written about it:

| Run | Statement | What the code does |
| --- | --- | --- |
| `exhausted` | `docs/spec/08-background-processing.md:48`: an exhausted budget leads from Leased to Failed | the claim loop skips a row whose attempts are spent (`store:5684`) and nothing else fails it: after a crash on its last lease it stays leased, and keeps its deduplication slot, for ever. Such rows also stay at the head of the eight a scan reads (`store:5665`), so eight of them starve every younger job of the same scopes: `JobsSettleOrStarve` states it, `OperatorsEndWaits` proves that no claim, sweep, deadline or late holder ends it |
| `mixing` | `nomiso-schema/schema/011_embedding_identity.surql:6`: a same-dimension model change can never silently mix vectors | a write resolves its generation before its transaction (`store:363`); a swap in between leaves a vector of the retired generation among the new ones |
| `relabel` | `docs/spec/12-compatibility-and-migrations.md:20`: a newer schema is never silently relabeled as older | the markers are read before the first migration and written after the last (`store:2290`): an old build that started first writes its version over the newer one |
| `acknowledgment` | `nomiso-memory/src/context.rs:862`: one acknowledgment, in effect, per proposal | the trace is read, then appended to in another call (`context.rs:942`): two different acknowledgments that overlap are both recorded, and later readers settle on the first |

## 12. Disagreements

Beside the four runs, these were met while modelling. The first list is stated as
a property in the module named, which no run asks because the code is known to
break it; the properties that are asked are worded to hold beside it.

- `EffectsAreFenced` (`Reindex`; `docs/spec/08-background-processing.md:55`, every
  canonical effect checks the fencing token in its transaction): staging and
  activation are not told the token, so an attempt that lost its lease goes on
  staging and activating.
- `PublishedJobsDoNotFail` (`Reindex`; `worker.rs:320`, a repeated attempt
  re-activates or reports success): after a crash between swap and settlement
  the repeated activation is refused as not retryable, and the job of a
  published generation fails.
- `AnnotationsAccumulate` (`MemoryPlane`;
  `docs/spec/04-mutations-and-consistency.md:80`): without `expected_version` the
  second of two annotations erases the first.
- `ReplayMatchesTheOriginalJob` (`WriteWithJobs`; comment at `store:2373`): a keyed
  write replayed after its job finished enqueues the intent again.
- `PausedWorkReturns` (`WorkerRuntime`; `worker.rs:270`): an attempt paused by a
  graceful stop on its last lease fails its job as exhausted.
- `DepthMarksCutWork` (`Traversal`; `docs/spec/14-current-state-and-transition.md:69`):
  a node at the bound that was reached over an edge followed both ways is asked
  about that same edge (`store:5040`), so the walk says that its depth cut
  something when nothing lay beyond.
- `ShortestDepthReported` (`Expansion`; `nomiso-core/src/types.rs:274`, the shortest
  hop distance from a seed): where several paths reach a memory the merge keeps the
  largest depth (`store:867`).
- `RenderedFitsTheCeiling` (`ContextController`; `nomiso-memory/src/context.rs:46`, the
  rendered-token ceiling): the selection charges a flat 64 bytes for the line of a
  block, the rendering writes 60 and the name of the category, so the text of a
  proposal may pass the ceiling.
- `TraceKeepsItsScope` (`Records`) holds: it is asked by no run and proved
  (`TracesKeepTheirScope`).

Noted where they were met, without a property:

- `nomiso-core/src/job.rs:112`, no further attempt past the deadline: only rows
  *read* as pending are tested (`store:5680`), so a lapsed lease is granted again
  after the deadline, and so is a row read as leased that has become pending.
- `nomiso-core/src/job.rs:147`, an attempt is retained in bounded history:
  `cancel_job` and `supersede_job` write back the history they read
  (`store:5962`), without an attempt granted since; and `claim_job` appends
  without trimming, so a history may exceed its bound until the next settlement.
- `docs/spec/05-relationships-and-retrieval.md:40`, creation enforces endpoint
  existence: the endpoints are read before the creating transaction
  (`store:4517`), so one erased in between leaves an active edge to nothing.
- `nomiso-schema/schema/010_relationships.surql:47`, an audit of relationship
  revisions: supersession and erasure change an edge's state under its old
  version (`store:1592`) and write no `relationship_event`.
- `worker.rs:304` against `:414`: only valid memories are listed, while activation
  demands a staged vector for every row that has one, so after one supersession
  or soft forget a reindex always ends in `SwapRefused`.
- `nomiso-schema/schema/011_embedding_identity.surql:33`, old generations remain
  restorable: a swap overwrites the vectors of the generation it retires
  (`store:5464`), and those of generation 1 were never staged.
- `store:2248` against the comment at 2285: a late owner of a stolen claim marks the
  row failed unconditionally, and a takeover overwrites the checksum.
- A conflict on a prior with a bounded or soft-forgotten interval names the very
  version the caller expected, so reading again does not help; `update_entity`
  reports the version it read before its own compare-and-swap.
- `append_trace_event` is four statements without a transaction.
- A blob put over a corrupted object succeeds without writing, and its early
  return skips the sync of the directory.
- The passes of a hard recall use a `now()` each; the `sys_as_of` lens still tests
  today's `valid_until`; seeds beyond `max_seeds` are dropped without a mark
  (`docs/spec/14-current-state-and-transition.md:126`).
- The reasons a context proposal gives by counts may be swapped; a sleep pass may
  forget by age the keeper of a pair it called near-duplicates.

Of the adapters:

- `docs/spec/12-compatibility-and-migrations.md:63`, mutation fields that are not
  understood are refused: the bodies of `/v1/supersede` and `/v1/apply_ops` and the
  tools of the product MCP ignore them, an `idempotency_key` among them, which the
  plane's validation refuses (`nomiso-core/src/validate.rs:79`).
- The product's HTTP read ignores `as_of`; a working-state write with a version and
  a null body is a silent read; `history` given an id without its table lists the
  row twice, and cuts at 64 rows without saying so.
- `docs/spec/10-interfaces-and-integration.md:64`, validation maps to 400: a body that
  does not decode is 422; `cancelled` is 500 from the product and 408 from the plane. The SDK drops
  the outcomes of a failed batch and retries only what it could not send.
- The CLI's `job fail --retryable` cannot be false, and `worker run` exits 0 whatever
  failed. Working state can be read through MCP only where policy allows, through
  HTTP and the CLI always; HTTP ignores a version without a body, MCP refuses it,
  the CLI requires it.

Three hazards of `PROJECT.json` have no property, because what would state them is
not true of the code: the lease granted after the deadline (`store:5680`), the
edge to nothing (`store:4517`) and the reindex that can never activate
(`worker.rs:414`). The runs reach all three.

## 13. Proofs

Eight modules hold theorems; every constant is arbitrary within the named
assumptions.

| Module | Theorem | States |
| --- | --- | --- |
| `JobJournalProofs` | `TypeCorrect` | `Spec => []TypeOK` |
| | `DedupSlot` | `Spec => []LiveJobHoldsSlot` |
| | `BoundedAttempts` | `Spec => []AttemptsWithinBudget` |
| | `ExclusiveFence` | `Spec => []OneHolderPerFence` |
| | `FencedResult` | `Spec => []ResultIsNewestHolders` |
| | `FinalStates` | `Spec => TerminalIsFinal` |
| | `MonotoneCheckpoints` | `Spec => CheckpointNeverRegresses` |
| | `RevisionBoundSuccess` | `Spec => SuccessOnPinnedInputs` |
| | `TruthfulSettlements` | `Spec => []SettlementsAreTruthful` |
| | `OperatorsEndWaits` | `Spec => OnlyOperatorsEndTheWait`, the second half of `JobsSettleOrStarve` |
| | `JournalImplementsLifecycle` | `Spec => Abstract!Lifecycle` |
| `MemoryPlaneProofs` | `MemoryTypes` | `Spec => []TypeOK` |
| | `KeyedPutsAgree` | `Spec => []KeyNamesOneMemory` |
| | `Lineage` | `Spec => []LineageIsLinear` |
| | `Journal` | `Spec => []JournalReplays` |
| | `Isolation` | `Spec => ScopeIsolation` |
| | `Invalidation` | `Spec => InvalidationIsFinal` |
| | `GuardedAnnotations` | `Spec => GuardedAnnotationsKeep`, where every annotation bumps |
| `ReindexProofs` | `ReindexTypes` | `ReindexSpec => []TypeOK` |
| | `Stamps` | `ReindexSpec => []StampsAreTruthful` |
| | `Checkpoints` | `ReindexSpec => []CheckpointFollowsEffects` |
| | `Activation` | `ReindexSpec => ActivationIsComplete` |
| `WorkPipelineProofs` | `LeasesAccounted` | `Spec => []LeasesAreAccountedFor` |
| | `WritesAgreeWithJobs` | `Spec => []WritesAndJobsAgree` |
| | `PipelineTyped` | `Spec => []TypeOK` |
| `StorePlanesProofs` | `MigratedBeforeReady` | `Spec => []ReadyMeansMigrated` |
| | `NoUpdateLost` | `Spec => []RacesLoseNothing` |
| | `TracesKeepTheirScope` | `Spec => TraceKeepsItsScope` |
| | `WholeNames` | `Spec => []CompletedNamesAreWhole` |
| | `EvidenceScopes` | `Spec => []EvidenceStaysInScope` |
| | `ReadableRows` | `Spec => RowsStayReadable` |
| | `PlanesTyped` | `Spec => []TypeOK` |
| `LibraryProofs` | `ListingsAreComplete` | `Spec => []EnumerationIsComplete` |
| | `AnswersFollowTheFirst` | `Spec => []AcksSettleOnTheFirst` |
| | `BatchesArePrefixes` | `Spec => []BatchIsAPrefix` |
| | `PassesForgetWhatTheySaw` | `Spec => []SleepForgetsWhatItSaw` |
| | `BestIsKept` | `Spec => []RecallKeepsTheBest` |
| `WalkProofs` | `WalksAreHonestEverywhere` | `Spec => []WalksAreHonest` |
| `SurfacesProofs` | `SurfaceInvariant` | `Spec => []SurfaceInv`, which the next four rest on |
| | `SurfacesTyped` | `Spec => []TypeOK` |
| | `AskingAgainIsSafe` | `Spec => []RepeatsAreOneWrite` |
| | `GuardsHoldEverywhere` | `Spec => []GuardsHold` |
| | `AnswersAreTrueEverywhere` | `Spec => []AnswersAreTrue` |

**Assumptions.** `BoundsAssumption` (positive bounds), `IntentAssumption` (an intent
has one scope and a set of pinned inputs) and `ActorAssumption` (a slot has a name
and a set of scopes, an operator a scope) for the journal; the memory plane's own
`BoundsAssumption` and `CallerAssumption` (a usage is a record of what callers may
call, and the absence of a key, a scope or a text is none of them);
`GenerationAssumption` and `BatchAssumption` (there is a generation and a row, a
page holds one, and no model is the unknown one or a raw vector);
`WindowAssumption` (a window and a quota are positive) with `RequestAssumption`;
`EvidenceAssumption` (a directory is not a bucket, and nothing is not a value);
`BuildAssumption` (a build has a positive version and a non-empty script, a later
one at least as long a script, and no declared identity is the absence of one);
`RecordsAssumption` (a trace id is an id);
`ListingAssumption` (the bounds are numbers, a page holds a row);
`GraphAssumption` (finitely many nodes and edges, an edge a number that stands for
its id), `WalkAssumption` (seeds are nodes, budgets numbers) and `ExpansionAssumption` (bounds are numbers);
`RecallAssumption` (finitely many cards, sizes, limits and budgets are numbers);
`ContextAssumption` (finitely many memories, sizes and caps of blocks are numbers);
`WriterAssumption` (memories are numbered in the order of the listing, finitely many;
a batch is a sequence; the page, the cap of a scan and that of its proposals are
numbers);
`SurfacesAssumption` (an operation has a number of parts, and a request to the
provider ends in a reply, a status or an interval). `GuardedAnnotations` assumes in its
statement that every annotation bumps the version: one with
`bump_version` false changes attributes under the version another call names. `BoundedAttempts` and `FinalStates` are proved although no run
asks them: the runs ask the refinement, which implies them. A recursive definition
would be out of the prover's sight, so where a proof needed one the models say the
same with a function or a choice: the jobs matched to the intents of a request, the
first event of a proposal, the handlers of an adapter (`Merged`, whose tables share
no operation), the pairs a sleep pass takes (`Greedy`), the place of a fused card (the
number of those ahead of it). Loops that carry a value along (`Share`, `PackSize`,
`Fill`, the selection of a proposal) are `FoldLeft`.

### The journal

None of the safety properties is inductive alone,
because an update acts on values its handler read earlier. `JobInv` adds to them:
`AbsentIsBlank` (a row nobody enqueued is blank, so enqueueing cannot revive
columns), `SnapshotsOK` (a claim's snapshot pairs a fence with exactly as many
attempts), `DraftsOK` (a drafted retry was decided under the *current* fence only
if attempts are left) and `TokensOK` (a token names an issued fence). Together
they say that every value read before a write is still true whenever the write's
condition on the fence succeeds: the fence is a version number of the columns the
decision depended on. That is the reason the code's compare-and-swap on the fence
is enough, and the proof shows that it needs nothing else.

`TypeStep` first shows that every action keeps the types.
`StepEffect` then classifies each step by its effect on rows (nothing; one row
created, leased, checkpointed, settled, stopped, or touched by time), so that the
row invariants are proved once per effect instead of once per action
(`SlotStep`, `BudgetStep`, `ResultStep`, `FenceStep`, `HolderStep`,
`SnapshotStep`, `DraftStep`). `JobInvariant` collects them; the action properties
and the refinement (`RowRefines`, one abstract step per effect) follow from
`JobInv` and `StepEffect`.

A settlement writes back a history and a reason computed from a row read earlier.
`SettleInv` adds that a row's history fits its number of attempts (`HistoryFits`:
one entry each at most, none for an attempt not made, each of the newest
`HistoryMax`, the newest closed exactly when no lease is open) and that a draft's
history fits its row while its lease is the newest (`DraftTells`). A history may
exceed its bound, since a claim appends without trimming; `CloseHistoryFits` shows
that the trimming of the next settlement takes none of the newest. The reasons a
draft gives stay true: a deadline that has passed stays so, and attempts only grow
with the fence the write tests.

A job with spent attempts that no slot holds is `Abandoned`: its row can only be
changed by an operator, because the claim tests the budget and every other write the
lease (`AbandonedStays`). Abandoned rows ahead of a job stay ahead of it
(`AheadStays`), so while there are `ScanLimit` of them a scan, which takes the oldest
rows, cannot return it (`HiddenFromScan`, by counting: a scan with the job in it would
hold them all and one more). `StarvedStays` follows, for every scan limit and any
number of jobs and workers, and with it `OperatorsEndWaits`. That a job which does not
wait settles is left to TLC, with one row fewer in a scan than there are jobs; there
are no operators in that run, so it shows what the workers do by themselves.

### The memory plane

A handler acts on rows it read before its transaction. `MemoryInv` says what such
a call still knows (`CallFits`): the row it read was created and, while it lives,
is of the client's scope (`RowFits`); the same for an edge (`EdgeFits`); an
annotation that names the version the row still has holds all the attributes of
it (`MarksFit`); a slot it lost to or wrote names the same memory and text
(`KeyFits`). Of the tables it adds to the properties that
a row nobody created is blank and a link leads to a created row (`RowsFit`), that
a slot names a row of its scope and no other slot that row (`SlotsFit`), and that
at most one call claims a slot, before and after it is told so (`OneClaim`). `Effect` classifies what a step does to
rows and their journals (nothing, one row, or a prior and its successor), so that
lineage and the replay of the journal are proved per effect; `Progress` says that
versions only grow and `SlotsGrow` that slots are not given up, which is why what
a call knows survives every other client's step. A journal replays because it
grows only by the event of the write that changed its row (`HistoryGrows`).

### Generations and the reindex executor

A vector is written under a stamp resolved in an earlier call, and a cursor is
recorded for a page staged in earlier ones. `AttemptsInv` adds that an identity
once known is kept and that every building or staged generation has one
(`GenerationsFit`), so a stamp read earlier still names the model it was resolved
for (`CallsFit`); that only the erasure of a row takes its staged vectors
(`StagedAreKept`, `TablesMove`), so rows behind a cursor, recorded (`JobFits`) or
only in the memory of an attempt (`RunsFit`), stay staged or erased whoever else
stages, swaps or erases; and that a token is held by one attempt and only the
holder of the newest one runs the leased job. A late attempt may still stage
and activate; the proof shows that it can do so without harm to these properties.

### Writers and workers

`RuntimeInv` adds to the property that no two flights hold the same lease and
none holds one newer than the newest (`LeasesFit`), and that while a worker fills
its window it has claimed fewer than its quota and the attempts in its flight
together (`QuotaFits`): hence the quota is passed by less than a window.

`WritesInv` says of a writer's call that what it read is still so (`Fits`): each
job of its plan carries the key of the very intent, its receipt was committed for
its request, and the record key it will commit under is unused and nobody else's
(`KeysApart`). This survives every other step because a job row never changes its
key and a memory never changes its request, not because the job stays live: it may
settle between the plan and the answer, and the answer then names a settled
job. `OneLiveJob` is what makes the live job of an intent unique when a replay
looks for it. Both proofs are over `WorkPipeline`, so writers create and stop jobs
while workers move them, and workers run while writers are between statements.

### The evidence

`Fits` says what a call knows at each of its steps: a relocation carries the
content of the row it is at, and where it is about to rebind, its copy can be read
at the target; an answer names a row of the scope and content asked for. It stays true because rows keep scope and content (`RowsMove`) and
because, except in an outage, which ends the calls, what can be read stays
readable (`DiskMoves`). `RowsStayReadable` then follows for the rebinding step,
which is the only one that moves a row.

### The migration ledger

A row of the ledger names no owner, a claim may be taken over, and a failure is
recorded whatever the row says, so the rows alone say nothing about a process.
`LedgerInv` therefore speaks of the place of each process in its script:
`BehindRan` (whatever a process has put *behind* it has run with its content) does
not mention the rows and survives every takeover; `AppliedRan` (an applied row
names a content that ran) is what lets a process skip a row; `VersionRan` is
`BehindRan` at the moment of the marker. `OneClaim` is the part that takeovers
break: until the first, whoever applies a migration holds its row. `OnlyMoves`
does the steps that write nothing but a place, `LedgerWrites` the others.

### The records

`Counted` (body and version agree) needs of every call in flight that what it will
write follows from the version it names (`Follows`), and `Lucky`: a call without
a condition that the engine never refused creates only in its first attempt and
finds a row in every later one, because rows of task state are never deleted.
That is why losing the race between update and create once cannot happen twice,
and the third attempt of the loop is never used up by it.

`TracesFit` adds that a trace has the scope some append gave it and that an event
is of a trace; a step binds only a trace that has no scope yet, so the scope of the
first event is kept (`TracesKeepTheirScope`).

`PlanesTyped` joins the invariants of the three planes: `RecordsInv` and `TracesFit`,
`EvidenceInv`, and `LedgerInv` with `MarkersFit`, which says that the version, the
dimension and the serving generation in the store were written by a process of the
fleet.

### Listings

`ListingInv` relates the pages to the table under them. `PagesFit`: what was
named descends, was shown at some time and is there. `CursorFits`: the cursor is
the last row named, and each row the lens showed all along has been named or comes
*after* the cursor. Concurrent writes can put rows on either side of the cursor, but
a row that was shown throughout keeps its place, because the place is made of
columns that never change (`Ordered`: a strict order in which any two rows are
comparable). A page takes the first rows after the cursor, so it skips none of
them; a short page ends the listing because nothing is left.

### Walks

What a walk promises is about two extremes of a graph that changes under it: the edges
nobody touched since it began (`steady`) and those that stood at some time in it
(`seen`). A step of others makes the first fewer and the second more (`GraphMoves`),
so both invariants survive it (`FewerKept`, `LaterFits`), and what is left to prove is
about one loop over the rows of one query at a time.

*Traversal.* `WalkFits` is the invariant. `Found`: each visited node has one frame, whose
path is a chain of scanned edges as long as its depth (`Led`), and no chain of untouched
edges is shorter. `Layered`: the queue holds the frames of two depths, the nearer first.
`Settled`: a frame is in the queue, or every untouched edge from it leads to a frame at
most one deeper, or it stands at the depth bound and the answer says so. From these
`NearestVisited` follows, on which the rest depends: when a frame is scanned, all that
untouched edges reach within its depth has been visited, so a node it discovers is not
nearer. While the frame is scanned `Scanning` holds after each row, for the others
(`Under`) and for the rows taken. A walk that ends with no bound named has explored
every frame; what it visited is shut under the untouched edges, and `Reachable` is the
least such set (`ReachableStays`).

*Expansion.* `SearchFits` is the invariant. `Stands`: hits and candidates are of different
nodes; a candidate is `Vouched` for, that is, edges that stood lead to it from every seed
it names and from one of them within its depth, and so is a frontier in the queue.
`Expanding`: while no bound is named, every seed and candidate waits in the queue or
its untouched edges lead only to what is known. A candidate that is met again gets the
larger of two depths, and perhaps one more seed: what was within the smaller one is within
the larger (`WithinLonger`), which is why this holds although the depth need not be the
shortest (section 12). `Spreading` is the invariant of the loop over the rows. The
candidates sorted by depth are the same candidates, because the number of those before
each is a place of its own (`ByDepthIs`); what the fetch leaves of them is what the lens
shows, and `FetchedFits` ends with the two promises of the answer (`AnswerFits`).

### Acknowledgments

`RecordInsertion` decides on a trace that may have grown when `AppendInsertion`
writes. `AcksInv` dates what a host knows: of the events its call found
(`1 .. began`) the first pack of the proposal offers what it reports, and none is
an insertion of that proposal when it goes on to append. Two hosts may both append; a later answer
follows the first of the events that *its* call found, and a trace only grows.

### Batches and sleep

`BatchInv` has three parts. `OutcomesFit`: the outcomes are successes, at most one
failure and then operations never attempted; only successes while the batch is at
work, all of them when a checkpoint follows. `EffectsFit`: what the store committed
is for an operation that was attempted, in order, or for the checkpoint, and no
success lacks its effect. An operation and its effect are one step of the store, so
`EffectsAttempted` has only to see that the new effect comes last; a lost answer
ends the batch, and so leaves one effect uncertain and no more. `SleepFits`: what is
to be forgotten is an old row at the version that was scanned, and what was forgotten
is too. A version that was scanned is never 0, so the store compares it
(`ForgetIsGuarded`): others may have changed the row since, and then it refuses.

That no duplicate is kept by another pair is about a loop that takes pairs in turn,
barred by those it took. `Greedy` says it as a choice of the one set that agrees with
itself; `GreedyTakes` shows by induction over the pairs that there is such a set, for
a choice among none would say nothing. The induction (`SetInduction`) is on a *set* of
numbers and needs no theorem with an operator for its parameter: the least number
outside the set exists because the order is well-founded.

### Recalls and contexts

A fold of the community modules is a choice of a recursive function on the subsets of
the places. `FoldExists` shows that there is one (by `SetInduction`, on the set of
numbers up to which there is), and `FoldSteps` that whatever satisfies the
recursion is reached step by step: `f[0]` is the base, `f[i]` the step from `f[i - 1]`.
`ShareSteps`, `SizeSteps`, `FillSteps` and `TakeSteps` state that of each loop of the
model, and from there a loop is proved like a behaviour, by an invariant of its steps.

*Fusion.* A card that stands above another in every ranking that names the other has
no smaller a share (`ShareDominates`, step by step over the rankings; a better rank
contributes no less, since a quotient does not grow with its divisor), and with an equal
one it was met sooner. `Ahead` is a strict total order (`AheadOrders`), so the places
are one to one and the cut keeps the better card.

*Packs.* `FillFits` is the invariant of a loop over the hits: the lines are those it
started with, then hits in their order, none twice, within size and number; and a hit
that is not in the pack did not fit when its turn came, nor would it now, because
a pack only grows. `PackIs` puts the two loops together.

*Proposals.* `TakenSoFar` is the invariant of the selection: blocks and counts add up to
the hits looked at, and no block is taken twice. The reasons are given out afterwards
from counts alone; `WhatIsMissed` shows that there are as many hits to give them to,
and `PickedIsAccounted` that the first of them are the late ones, the next those over
the budget and the rest those over the cap, so each count meets as many hits. That a
count is given to the hit it was taken for is not claimed, and is not what the code
does.

### The adapters

The proof has two parts. The first is about the tables of handlers. `Serves` states
what a handler of an operation must hand on: what guards the operation, the key
that names it, the instants it is asked for, and for a text the fields every other
adapter hands on. `ServedSound` shows it of every operation of all six tables, one
lemma a table. From it follow `Forms` (a field a host gave and that matters reaches
the client, through the SDK as well as the server behind it) and `FormsAgree` (two
admitted calls of one host for a text hand on the same fields, whatever
surfaces they took, so the second is a repetition of the first). A handler that
drops a guard fails in the lemma of its own table, before any interleaving.

The second is `SurfaceInv`. `Shape(c)` ties the stage of a call to what it has:
codes and names so far, events, what was told. `RowFits(r)`: a row was stored
by a part of an admitted call, over the version its guard named.
`RowsApart(q, r)`: what may be asked for again has one row, however often and over
whichever surfaces it was asked; of jobs, edges and artifacts it has one that is not
`gone`, since a call may repeat only what is live. `Answered(c)`: a name is of a row of
that host; a conflict of keys means that another host's row is there, and
`idempotency_unavailable` that the text is gone; and a keyed call made *after* its row
was stored never reaches the provider or the store's writes (`late`): it ends in that
row, in its erasure, in a refusal of its jobs or in a failure of the store
(`LateCodes`), which is what makes a retry after a lost answer safe. `gone` only grows,
so what is said of rows that are not gone survives every departure (`DepartKeeps`). Each action moves one call (`Steps(c)`), so rows and other
calls are kept by one lemma each and every action is left with its own call.

### Only model-checked

- `JobsSettleOrWait`, the first half of `JobsSettleOrStarve`, and `StopEndsTheRun`: liveness under fairness, and `ENABLED`,
  are beyond the prover.
- The invariants of the violation runs, which fail.

## 14. Not modelled, and why

`PROJECT.json` lists every component with its status. Left out for good: the
evaluation crates, the daemon, examples and scripts (measurement and start-up
without state of their own); formatting, logging, metrics and configuration
files; path confinement and request signing of the blob backends; what a language
model answers, which is an input; the ranking functions of the database. The
hashing embedder is a function of its text. Isolation and durability of the
database engine, and the uniqueness of UUIDs, are assumptions. Reads that change
nothing (`get_job`, `list_jobs`, `get_entity`, ...) appear only where what they
return is kept and used later.

## 15. Plan

Done, with proofs: the journal; the memory plane; generations and reindex; writers
and workers; migrations, records and evidence; listings and acknowledgments; the
adapters; batches and sleep; recalls and contexts; walks.

What would come next:

1. Two callers in `reindex`, two workers in `work`: both are proved for any
   number, but the liveness of the second is not.
2. Import and export of a store, and the daemon's start-up, once they keep state.
