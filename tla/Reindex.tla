------------------------------- MODULE Reindex -------------------------------
(***************************************************************************)
(* The reindex executor (crates/nomiso-service/src/worker.rs) over the     *)
(* embedding generations: it lists the memories page by page, stages their *)
(* vectors, records a checkpoint after every page, and activates.          *)
(*                                                                         *)
(* The job row is the journal's, reduced to what the executor depends on:  *)
(* leases are granted under ever new tokens (job and fence together), only *)
(* the newest token may record a checkpoint or settle the job, and a lease *)
(* may lapse at any time because the executor never renews it.             *)
(***************************************************************************)
EXTENDS EmbeddingGenerations

CONSTANTS
  Runner,     \* attempts under way in any worker
  Batch,      \* rows of a page
  MaxTokens   \* bound on the leases ever granted

ASSUME BatchAssumption == Batch \in Nat \ {0} /\ MaxTokens \in Nat

VARIABLES
  job,        \* the newest reindex job
  run         \* what the attempt of each runner has in memory

vars == <<generations, memories, staged, call, job, run>>

-----------------------------------------------------------------------------

\* at: null cursor of the listing, a row inside it, or the next scope index.
\* asOf: the rows valid when the first page was read, which the cursor pins.
\* rest: the rows of asOf after the cursor.  A finished listing keeps asOf for
\* the properties only.
Cursor == [at : {"start", "inside", "done"}, asOf : SUBSET MemoryId,
           rest : SUBSET MemoryId]
Start == [at |-> "start", asOf |-> {}, rest |-> {}]

Job == [state : {"none", "pending", "leased", "succeeded", "failed"},
        generation : Generation, token : 0..MaxTokens, cursor : Cursor]

Run == [pc : {"idle", "list", "check", "stage", "checkpoint", "scope",
              "validate", "swap", "succeeded", "failed", "paused"},
        generation : Generation, token : 0..MaxTokens, cursor : Cursor,
        page : SUBSET MemoryId]
IdleRun == [pc |-> "idle", generation |-> 1, token |-> 0, cursor |-> Start,
            page |-> {}]

At(r, pc) == run[r].pc = pc
Goto(r, pc) == run' = [run EXCEPT ![r].pc = pc]
\* The listing is over: page and cursor are not used again.
Leave(r, pc) ==
  run' = [run EXCEPT ![r].pc = pc, ![r].page = {}, ![r].cursor = Start]
Holds(r) == job.state = "leased" /\ job.token = run[r].token

ReindexInit ==
  /\ Init
  /\ job = [state |-> "none", generation |-> 1, token |-> 0, cursor |-> Start]
  /\ run = [r \in Runner |-> IdleRun]

\* An operator enqueues a job for the generation that is building.
Enqueue(g) ==
  /\ job.state \notin {"pending", "leased"} /\ Accepts(g)
  /\ job' = [job EXCEPT !.state = "pending", !.generation = g, !.cursor = Start]
  /\ UNCHANGED <<generations, memories, staged, call, run>>

\* A pending job, or one whose lease has lapsed.
Claim(r) ==
  /\ At(r, "idle") /\ job.state \in {"pending", "leased"} /\ job.token < MaxTokens
  /\ job' = [job EXCEPT !.state = "leased", !.token = @ + 1]
  /\ run' = [run EXCEPT ![r] =
       [pc |-> IF job.cursor.at = "done" THEN "validate" ELSE "list",
        generation |-> job.generation, token |-> job.token + 1,
        cursor |-> IF job.cursor.at = "done" THEN Start ELSE job.cursor,
        page |-> {}]]
  /\ UNCHANGED <<generations, memories, staged, call>>

\* Newest first; an erased row has left the listing.
Listed(cursor) ==
  (IF cursor.at = "start" THEN Valid ELSE cursor.rest) \cap Embedded
Page(rows) == {m \in rows : Cardinality({k \in rows : k > m}) < Batch}

\* Mutant: the cursor is placed one row too far.
AfterPageSkipping(rows) ==
  {m \in rows : Cardinality({k \in rows : k > m}) > Batch}

AfterPage(rows) == rows \ Page(rows)

\* list and embed_cancellable.  An empty page ends the scope.
List(r) ==
  LET cursor == run[r].cursor
      rows == Listed(cursor)
      asOf == IF cursor.at = "start" THEN Valid ELSE cursor.asOf
      after == AfterPage(rows)
  IN  /\ At(r, "list")
      /\ run' = [run EXCEPT
           ![r].pc = IF rows = {} THEN "scope" ELSE "check",
           ![r].page = Page(rows),
           ![r].cursor = [at |-> "inside", asOf |-> asOf, rest |-> after]]
      /\ UNCHANGED <<generations, memories, staged, call, job>>

\* A stop is seen before a page or while it is embedded; listing and
\* embedding may fail and are retried.
Pause(r) ==
  /\ At(r, "list") /\ Leave(r, "paused")
  /\ UNCHANGED <<generations, memories, staged, call, job>>

\* stage_embeddings is not told the lease.  Its error is not retryable.
CheckBuilding(r) ==
  /\ At(r, "check")
  /\ IF Accepts(run[r].generation) THEN Goto(r, "stage") ELSE Leave(r, "failed")
  /\ UNCHANGED <<generations, memories, staged, call, job>>

StagePage(r) ==
  /\ At(r, "stage") /\ AllPresent(run[r].page)
  /\ Staging(run[r].generation, run[r].page)
  /\ run' = [run EXCEPT ![r].pc = "checkpoint", ![r].page = {}]
  /\ UNCHANGED <<call, job>>

\* A row of the page was erased in between: not_found.
StagePageRefused(r) ==
  /\ At(r, "stage") /\ ~AllPresent(run[r].page) /\ Leave(r, "failed")
  /\ UNCHANGED <<generations, memories, staged, call, job>>

\* The cursor behind the last page is null: it would start the scope again.
Recorded(cursor) == IF cursor.rest = {} THEN Start ELSE cursor

Checkpoint(r) ==
  /\ At(r, "checkpoint") /\ Holds(r)
  /\ job' = [job EXCEPT !.cursor = Recorded(run[r].cursor)]
  /\ Goto(r, IF run[r].cursor.rest = {} THEN "scope" ELSE "list")
  /\ UNCHANGED <<generations, memories, staged, call>>

CheckpointScope(r) ==
  /\ At(r, "scope") /\ Holds(r)
  /\ job' = [job EXCEPT !.cursor =
       [at |-> "done", asOf |-> run[r].cursor.asOf, rest |-> {}]]
  /\ Leave(r, "validate")
  /\ UNCHANGED <<generations, memories, staged, call>>

\* activate_embedding_generation, not told the lease either.
Validate(r) ==
  /\ At(r, "validate")
  /\ Goto(r, IF MayActivate(run[r].generation) THEN "swap" ELSE "failed")
  /\ UNCHANGED <<generations, memories, staged, call, job>>

Swap(r) ==
  /\ At(r, "swap") /\ Covers(run[r].generation)
  /\ Activating(run[r].generation)
  /\ Goto(r, "succeeded")
  /\ UNCHANGED <<call, job>>

SwapRefused(r) ==
  /\ At(r, "swap") /\ ~Covers(run[r].generation) /\ Goto(r, "failed")
  /\ UNCHANGED <<generations, memories, staged, call, job>>

\* Worker::settle.
Settle(r) ==
  /\ run[r].pc \in {"succeeded", "failed", "paused"} /\ Holds(r)
  /\ job' = [job EXCEPT !.state =
       IF run[r].pc = "paused" THEN "pending" ELSE run[r].pc]
  /\ run' = [run EXCEPT ![r] = IdleRun]
  /\ UNCHANGED <<generations, memories, staged, call>>

\* A fenced call finds the lease lost.
Abort(r) ==
  /\ run[r].pc \in {"checkpoint", "scope", "succeeded", "failed", "paused"}
  /\ ~Holds(r)
  /\ run' = [run EXCEPT ![r] = IdleRun]
  /\ UNCHANGED <<generations, memories, staged, call, job>>

\* The process dies; the lease lapses later.
Crash(r) ==
  /\ ~At(r, "idle")
  /\ run' = [run EXCEPT ![r] = IdleRun]
  /\ UNCHANGED <<generations, memories, staged, call, job>>

Attempt(r) ==
  \/ Claim(r) \/ List(r) \/ Pause(r) \/ CheckBuilding(r) \/ StagePage(r)
  \/ StagePageRefused(r) \/ Checkpoint(r) \/ CheckpointScope(r) \/ Validate(r)
  \/ Swap(r) \/ SwapRefused(r) \/ Settle(r) \/ Abort(r) \/ Crash(r)

ReindexNext ==
  \/ Next /\ UNCHANGED <<job, run>>
  \/ \E g \in Generation : Enqueue(g)
  \/ \E r \in Runner : Attempt(r)

ReindexSpec == ReindexInit /\ [][ReindexNext]_vars

-----------------------------------------------------------------------------
(* Properties. *)

\* Tables, calls, the job and the attempts stay in their domains.
TypeOK ==
  /\ generations \in [Generation -> GenerationRow]
  /\ memories \in [MemoryId -> MemoryRow]
  /\ staged \subseteq Generation \X MemoryId
  /\ call \in [Caller -> Call]
  /\ job \in Job
  /\ run \in [Runner -> Run]

\* MIG-005: however activations, repeated ones and late attempts overlap,
\* exactly one generation serves after every step, and an incomplete one is
\* never activated: the swap leaves no row with a vector of another generation,
\* although rows were written, closed and erased since its count was validated.
ActivationIsComplete ==
  [][/\ \E g \in Generation : \A k \in Generation : IsActive(k)' <=> k = g
     /\ \A g \in Generation :
          ~IsActive(g) /\ IsActive(g)' =>
            \A m \in Embedded' : memories'[m].stamp = g]_vars

\* MIG-004: a vector written under a claimed identity, or swapped in, carries
\* the stamp of a generation of that very identity, whoever adopts, attests or
\* activates meanwhile.
StampsAreTruthful ==
  \A m \in Embedded :
    memories[m].vector \in Model =>
      /\ memories[m].stamp # 0
      /\ generations[memories[m].stamp].model = memories[m].vector

\* JOB-002: a checkpoint is never ahead of its effects: every row listed before
\* the recorded cursor is staged in the job's generation or erased, so a
\* resumed attempt skips nothing, even if another attempt recorded it; and no
\* erased memory leaves a staged vector behind, even if an attempt had it in
\* its page when it was erased.
CheckpointFollowsEffects ==
  /\ \A m \in job.cursor.asOf \ job.cursor.rest :
       memories[m].state = "erased" \/ <<job.generation, m>> \in staged
  /\ \A g \in Generation, m \in MemoryId :
       <<g, m>> \in staged => memories[m].state # "erased"

(* What the documents say and the code does not do. *)

\* schema 011: a same-dimension model change can never silently mix vectors.
\* A write resolves its generation before its transaction; a swap in between
\* leaves a vector of the retired generation among those of the new one.
VectorsOfOneGeneration ==
  \A m \in Embedded : memories[m].stamp # 0 => IsActive(memories[m].stamp)

\* docs/spec/08, JOB-003: every canonical effect checks the current fencing
\* token in its transaction.  Staging and the swap are not told the token.
EffectsAreFenced ==
  [][\A r \in Runner :
       /\ run'[r].pc # run[r].pc /\ <<generations, staged>>' # <<generations, staged>>
       => Holds(r)]_vars

\* worker.rs: a repeated attempt re-stages and re-activates or reports success.
\* After a crash between the swap and the settlement the repeated attempt is
\* refused because the generation is active, and the job fails for good.
PublishedJobsDoNotFail ==
  job.state = "failed" => generations[job.generation].status = "building"
=============================================================================
