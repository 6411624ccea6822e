----------------------------- MODULE JobJournal -----------------------------
(***************************************************************************)
(* The durable job journal: the nomiso_job table and the store operations  *)
(* that move a job through it (crates/nomiso-store/src/surreal_store.rs,   *)
(* types in crates/nomiso-core/src/job.rs).                                *)
(*                                                                         *)
(* One database statement, or one BEGIN..COMMIT block, is one step; a      *)
(* handler that reads a row and writes it in a later statement is two      *)
(* steps with the snapshot it read in between.  Durations are abstracted   *)
(* to whether they have elapsed, so every relative speed of the clock, the *)
(* workers and the operators is covered.  A checkpoint or a result is      *)
(* represented by the fence of the lease whose holder wrote it.            *)
(***************************************************************************)
EXTENDS Integers, FiniteSets

CONSTANTS
  MaxJobs,        \* bound on the rows ever created; ids follow created_at
  MaxAttempts,    \* bound on the max_attempts a caller asks for
  ScanLimit,      \* rows one claim scan returns (LIMIT 8 in the code)
  HistoryMax,     \* JOB_HISTORY_MAX
  MaxRevision,    \* bound on the revisions of an input memory
  Intent,         \* deduplication identities (job_dedup_key)
  Scope,
  IntentScope,    \* the scope an intent belongs to
  IntentInputs,   \* the pinned inputs of an intent: records [id, revision]
  Memory,         \* versioned records an intent may pin
  MemoryScope,
  Worker,         \* task slots that claim and execute jobs
  WorkerName,     \* the identity a slot claims under; slots may share one
  Grant,          \* the scopes a slot may claim from
  Operator,       \* callers of cancel_job and supersede_job
  OperatorScope,
  None

JobId == 1..MaxJobs
Names == {WorkerName[w] : w \in Worker}

Unpinned == 0     \* an input reference without a revision
Gone == 0         \* the revision of a hard-erased memory

ASSUME BoundsAssumption ==
  /\ MaxJobs \in Nat /\ MaxAttempts \in Nat \ {0} /\ MaxRevision \in Nat \ {0}
  /\ ScanLimit \in Nat \ {0} /\ HistoryMax \in Nat \ {0}

ASSUME IntentAssumption ==
  /\ IntentScope \in [Intent -> Scope]
  /\ MemoryScope \in [Memory -> Scope]
  /\ IntentInputs \in [Intent -> SUBSET [id : Memory, revision : Nat]]
  /\ None \notin Intent

ASSUME ActorAssumption ==
  /\ Grant \in [Worker -> SUBSET Scope]
  /\ OperatorScope \in [Operator -> Scope]
  /\ None \notin Names

VARIABLES
  jobs,       \* the nomiso_job table
  revision,   \* current version of each input memory, Gone once erased
  wpc,        \* where each worker slot is in its handler
  scan,       \* snapshots a claim read and has not yet tried
  token,      \* the lease a worker slot believes it holds
  draft,      \* what complete_job or fail_job read before its write
  op          \* what an operator read before its write

vars == <<jobs, revision, wpc, scan, token, draft, op>>
local == <<wpc, scan, token, draft>>

-----------------------------------------------------------------------------
(* Rows. *)

Terminal == {"succeeded", "failed", "cancelled", "superseded"}
Live == {"pending", "leased"}
JobState == Live \cup Terminal \cup {"absent"}
Reason == {"none", "deadline", "budget", "nonretryable", "operator"}

\* One attempt entry; the attempt number always equals the fence it got.
Attempt == [fence : Nat, ended : BOOLEAN]

Job == [state : JobState, intent : Intent \cup {None}, slot : Intent \cup {None},
        maxAttempts : Nat, deadline : {"none", "ahead", "passed"},
        attempts : Nat, fence : Nat, owner : Names \cup {None},
        lease : {"none", "running", "expired"}, ready : BOOLEAN,
        checkpoint : Nat, result : Nat, reason : Reason,
        replacedBy : JobId \cup {0}, history : SUBSET Attempt]

NoJob == [state |-> "absent", intent |-> None, slot |-> None,
          maxAttempts |-> 0, deadline |-> "none", attempts |-> 0, fence |-> 0,
          owner |-> None, lease |-> "none", ready |-> TRUE, checkpoint |-> 0,
          result |-> 0, reason |-> "none", replacedBy |-> 0, history |-> {}]

Snapshot == [job : JobId, state : Live, fence : Nat, attempts : Nat]
Token == [job : JobId \cup {0}, fence : Nat]
NoToken == [job |-> 0, fence |-> 0]

Outcome == {"none", "succeed", "retry", "deadline", "budget", "nonretryable"}
Draft == [outcome : Outcome, history : SUBSET Attempt]
NoDraft == [outcome |-> "none", history |-> {}]

Request == [to : {"none", "cancelled", "superseded"}, job : JobId \cup {0},
            replacement : JobId \cup {0}, history : SUBSET Attempt]
NoRequest == [to |-> "none", job |-> 0, replacement |-> 0, history |-> {}]

\* Mutant: the bound drops the newest entries instead of the oldest.
CloseHistoryOldest(h) ==
  {e \in h : Cardinality({d \in h : d.fence < e.fence}) < HistoryMax}

\* close_history_with: end the newest attempt entry and keep the newest
\* HistoryMax entries.
CloseHistory(h) ==
  LET last   == {e \in h : \A d \in h : d.fence <= e.fence}
      closed == (h \ last) \cup {[e EXCEPT !.ended = TRUE] : e \in last}
  IN  {e \in closed :
         Cardinality({d \in closed : d.fence > e.fence}) < HistoryMax}

\* job_input_check for every pinned input of an intent.
InputsHold(i) ==
  \A input \in IntentInputs[i] :
    /\ revision[input.id] # Gone
    /\ MemoryScope[input.id] = IntentScope[i]
    /\ input.revision \in {Unpinned, revision[input.id]}

\* One UPDATE (or CREATE) of a job row.
Write(j, row) == jobs' = [jobs EXCEPT ![j] = row]

JobScope(j) == IntentScope[jobs[j].intent]
Exists(j) == jobs[j].state # "absent"

Init ==
  /\ jobs = [j \in JobId |-> NoJob]
  /\ revision = [m \in Memory |-> 1]
  /\ wpc = [w \in Worker |-> "idle"]
  /\ scan = [w \in Worker |-> {}]
  /\ token = [w \in Worker |-> NoToken]
  /\ draft = [w \in Worker |-> NoDraft]
  /\ op = [o \in Operator |-> NoRequest]

-----------------------------------------------------------------------------
(* enqueue_job: input checks and the insert are one transaction; the unique *)
(* index on dedup_slot turns a second live job of the intent into a replay, *)
(* which changes nothing.                                                   *)

Enqueue(i, budget, deadline) ==
  /\ InputsHold(i)
  /\ \A j \in JobId : jobs[j].slot # i
  /\ \E j \in JobId :
       /\ ~Exists(j) /\ \A k \in JobId : k < j => Exists(k)
       /\ Write(j, [NoJob EXCEPT !.state = "pending", !.intent = i, !.slot = i,
                                 !.maxAttempts = budget, !.deadline = deadline])
  /\ UNCHANGED <<revision, local, op>>

-----------------------------------------------------------------------------
(* claim_job: one read of the oldest eligible rows of the grant, then one   *)
(* conditional update per candidate until one is won.                       *)

\* Mutant: the lease test escapes the state test, so that rows completed after
\* their lease lapsed come back.
EligibleAnyLapsed(j) ==
  \/ jobs[j].state = "pending" /\ jobs[j].ready
  \/ jobs[j].lease = "expired"

Eligible(j) ==
  \/ jobs[j].state = "pending" /\ jobs[j].ready
  \/ jobs[j].state = "leased" /\ jobs[j].lease = "expired"

Candidates(w) == {j \in JobId : Exists(j) /\ JobScope(j) \in Grant[w] /\ Eligible(j)}

\* Mutant: the scan prefers the newest rows.
NewestFirst(S) == {j \in S : Cardinality({k \in S : k > j}) < ScanLimit}

Oldest(S) == {j \in S : Cardinality({k \in S : k < j}) < ScanLimit}

ClaimScan(w) ==
  /\ wpc[w] = "idle"
  /\ wpc' = [wpc EXCEPT ![w] = "claiming"]
  /\ scan' = [scan EXCEPT ![w] =
       {[job |-> j, state |-> jobs[j].state, fence |-> jobs[j].fence,
         attempts |-> jobs[j].attempts] : j \in Oldest(Candidates(w))}]
  /\ UNCHANGED <<jobs, revision, token, draft, op>>

\* The candidate the loop looks at next.
IsNext(w, c) ==
  /\ wpc[w] = "claiming" /\ c \in scan[w]
  /\ \A d \in scan[w] : c.job <= d.job

\* The deadline test of the loop: only rows the scan read as pending.
PastDeadline(c) == c.state = "pending" /\ jobs[c.job].deadline = "passed"

\* Mutant: one lease too many.
PastAttempts(c) == c.attempts > jobs[c.job].maxAttempts

OutOfAttempts(c) == c.attempts >= jobs[c.job].maxAttempts

\* Mutant: the claiming update does not compare the fence.
CasWithoutFence(c) == Eligible(c.job)

\* The condition of the claiming update.
CasHolds(c) == Eligible(c.job) /\ jobs[c.job].fence = c.fence

\* mark_deadline_expired, itself conditional on the row not having moved.
ClaimExpire(w) ==
  /\ \E c \in scan[w] :
       /\ IsNext(w, c) /\ PastDeadline(c)
       /\ IF jobs[c.job].state = "pending" /\ jobs[c.job].fence = c.fence
          THEN Write(c.job, [jobs[c.job] EXCEPT
                 !.state = "failed", !.reason = "deadline", !.slot = None])
          ELSE UNCHANGED jobs
       /\ scan' = [scan EXCEPT ![w] = @ \ {c}]
  /\ UNCHANGED <<revision, wpc, token, draft, op>>

ClaimSkip(w) ==
  /\ \E c \in scan[w] :
       /\ IsNext(w, c) /\ ~PastDeadline(c)
       /\ OutOfAttempts(c) \/ ~CasHolds(c)
       /\ scan' = [scan EXCEPT ![w] = @ \ {c}]
  /\ UNCHANGED <<jobs, revision, wpc, token, draft, op>>

ClaimLease(w) ==
  /\ \E c \in scan[w] :
       /\ IsNext(w, c) /\ ~PastDeadline(c) /\ ~OutOfAttempts(c) /\ CasHolds(c)
       /\ Write(c.job, [jobs[c.job] EXCEPT
            !.state = "leased", !.fence = @ + 1, !.attempts = @ + 1,
            !.owner = WorkerName[w], !.lease = "running", !.ready = TRUE,
            !.history = @ \cup {[fence |-> c.fence + 1, ended |-> FALSE]}])
       /\ token' = [token EXCEPT ![w] = [job |-> c.job, fence |-> c.fence + 1]]
  /\ wpc' = [wpc EXCEPT ![w] = "running"]
  /\ scan' = [scan EXCEPT ![w] = {}]
  /\ UNCHANGED <<revision, draft, op>>

ClaimNothing(w) ==
  /\ wpc[w] = "claiming" /\ scan[w] = {}
  /\ wpc' = [wpc EXCEPT ![w] = "idle"]
  /\ UNCHANGED <<jobs, revision, scan, token, draft, op>>

-----------------------------------------------------------------------------
(* The holder's operations.  Each update is conditional on state, fence and *)
(* owner; losing the condition is Error::LeaseLost and changes nothing.     *)

\* Mutant: the worker name alone is taken for the holder.
HoldsByName(w) ==
  LET job == jobs[token[w].job]
  IN  job.state = "leased" /\ job.owner = WorkerName[w]

HoldsLease(w) ==
  LET job == jobs[token[w].job]
  IN  job.state = "leased" /\ job.fence = token[w].fence /\ job.owner = WorkerName[w]

Renew(w) ==
  /\ wpc[w] = "running" /\ HoldsLease(w)
  /\ Write(token[w].job, [jobs[token[w].job] EXCEPT !.lease = "running"])
  /\ UNCHANGED <<revision, local, op>>

Checkpoint(w) ==
  /\ wpc[w] = "running" /\ HoldsLease(w)
  /\ Write(token[w].job,
           [jobs[token[w].job] EXCEPT !.checkpoint = token[w].fence])
  /\ UNCHANGED <<revision, local, op>>

\* The slot forgets its lease: a settled attempt, an aborted run, a crash.
Release(w) ==
  /\ wpc' = [wpc EXCEPT ![w] = "idle"]
  /\ token' = [token EXCEPT ![w] = NoToken]
  /\ draft' = [draft EXCEPT ![w] = NoDraft]
  /\ UNCHANGED scan

Prepare(w, outcome) ==
  /\ wpc[w] = "running"
  /\ wpc' = [wpc EXCEPT ![w] = "settling"]
  /\ draft' = [draft EXCEPT ![w] =
       [outcome |-> outcome, history |-> jobs[token[w].job].history]]
  /\ UNCHANGED <<jobs, revision, scan, token, op>>

\* complete_job and fail_job first read the job.
CompleteRead(w) == Prepare(w, "succeed")

FailOutcome(job, retryable) ==
  LET hit == job.deadline = "passed"
      spent == job.attempts >= job.maxAttempts
  IN  IF retryable /\ ~spent /\ ~hit THEN "retry"
      ELSE IF hit THEN "deadline"
      ELSE IF spent THEN "budget" ELSE "nonretryable"

FailRead(w, retryable) == Prepare(w, FailOutcome(jobs[token[w].job], retryable))

\* Mutant: the inputs are not checked again at completion.
CompleteUnchecked(w) ==
  LET j == token[w].job IN
  /\ wpc[w] = "settling" /\ draft[w].outcome = "succeed" /\ HoldsLease(w)
  /\ Write(j, [jobs[j] EXCEPT
       !.state = "succeeded", !.result = token[w].fence, !.slot = None,
       !.history = CloseHistory(draft[w].history)])
  /\ Release(w) /\ UNCHANGED <<revision, op>>

\* The completion transaction: input checks and the fenced update.  The
\* update leaves owner and lease_until in place.
CompleteCommit(w) ==
  LET j == token[w].job IN
  /\ wpc[w] = "settling" /\ draft[w].outcome = "succeed"
  /\ InputsHold(jobs[j].intent) /\ HoldsLease(w)
  /\ Write(j, [jobs[j] EXCEPT
       !.state = "succeeded", !.result = token[w].fence, !.slot = None,
       !.history = CloseHistory(draft[w].history)])
  /\ Release(w) /\ UNCHANGED <<revision, op>>

\* StaleInput or LeaseLost: the job stays as it is and Worker::settle counts
\* the attempt as rejected.
CompleteReject(w) ==
  /\ wpc[w] = "settling" /\ draft[w].outcome = "succeed"
  /\ ~InputsHold(jobs[token[w].job].intent) \/ ~HoldsLease(w)
  /\ Release(w) /\ UNCHANGED <<jobs, revision, op>>

\* Mutant: a retry gives up the deduplication slot like a terminal write.
FailRetryWithoutSlot(w) ==
  LET j == token[w].job IN
  /\ wpc[w] = "settling" /\ draft[w].outcome = "retry" /\ HoldsLease(w)
  /\ Write(j, [jobs[j] EXCEPT
       !.state = "pending", !.ready = FALSE, !.lease = "none", !.owner = None,
       !.slot = None, !.reason = "none",
       !.history = CloseHistory(draft[w].history)])
  /\ Release(w) /\ UNCHANGED <<revision, op>>

\* Retry within budget: pending again behind a backoff, attempt history kept.
FailRetry(w) ==
  LET j == token[w].job IN
  /\ wpc[w] = "settling" /\ draft[w].outcome = "retry" /\ HoldsLease(w)
  /\ Write(j, [jobs[j] EXCEPT
       !.state = "pending", !.ready = FALSE, !.lease = "none", !.owner = None,
       !.slot = jobs[j].intent, !.reason = "none",
       !.history = CloseHistory(draft[w].history)])
  /\ Release(w) /\ UNCHANGED <<revision, op>>

FailTerminal(w) ==
  LET j == token[w].job IN
  /\ wpc[w] = "settling" /\ HoldsLease(w)
  /\ draft[w].outcome \in {"deadline", "budget", "nonretryable"}
  /\ Write(j, [jobs[j] EXCEPT
       !.state = "failed", !.ready = TRUE, !.lease = "none", !.owner = None,
       !.slot = None, !.reason = draft[w].outcome,
       !.history = CloseHistory(draft[w].history)])
  /\ Release(w) /\ UNCHANGED <<revision, op>>

FailReject(w) ==
  /\ wpc[w] = "settling" /\ draft[w].outcome # "succeed" /\ ~HoldsLease(w)
  /\ Release(w) /\ UNCHANGED <<jobs, revision, op>>

\* The process dies, or the executor aborts: nothing durable changes.
Crash(w) ==
  /\ wpc[w] \in {"running", "settling"}
  /\ Release(w) /\ UNCHANGED <<jobs, revision, op>>

-----------------------------------------------------------------------------
(* cancel_job and supersede_job: read, refuse a foreign scope or a terminal *)
(* job, then an update conditional on the state only, which writes back the *)
(* history that was read.                                                   *)

MayStop(o, j) == Exists(j) /\ JobScope(j) = OperatorScope[o] /\ jobs[j].state \in Live

CancelRead(o, j) ==
  /\ op[o] = NoRequest /\ MayStop(o, j)
  /\ op' = [op EXCEPT ![o] = [to |-> "cancelled", job |-> j, replacement |-> 0,
                              history |-> jobs[j].history]]
  /\ UNCHANGED <<jobs, revision, local>>

SupersedeRead(o, j, r) ==
  /\ op[o] = NoRequest /\ MayStop(o, j)
  /\ Exists(r) /\ JobScope(r) = OperatorScope[o]
  /\ op' = [op EXCEPT ![o] = [to |-> "superseded", job |-> j, replacement |-> r,
                              history |-> jobs[j].history]]
  /\ UNCHANGED <<jobs, revision, local>>

\* A job that became terminal in between is returned as it is.
OperatorCommit(o) ==
  LET r == op[o] IN
  /\ r # NoRequest
  /\ IF jobs[r.job].state \in Live
     THEN Write(r.job, [jobs[r.job] EXCEPT
            !.state = r.to, !.replacedBy = r.replacement, !.reason = "operator",
            !.slot = None, !.lease = "none", !.owner = None,
            !.history = CloseHistory(r.history)])
     ELSE UNCHANGED jobs
  /\ op' = [op EXCEPT ![o] = NoRequest]
  /\ UNCHANGED <<revision, local>>

-----------------------------------------------------------------------------
(* Time, and the memory plane writing to the pinned inputs. *)

LeaseElapses(j) ==
  /\ jobs[j].state = "leased" /\ jobs[j].lease = "running"
  /\ Write(j, [jobs[j] EXCEPT !.lease = "expired"])
  /\ UNCHANGED <<revision, local, op>>

BackoffElapses(j) ==
  /\ jobs[j].state = "pending" /\ ~jobs[j].ready
  /\ Write(j, [jobs[j] EXCEPT !.ready = TRUE])
  /\ UNCHANGED <<revision, local, op>>

DeadlinePasses(j) ==
  /\ jobs[j].state \in Live /\ jobs[j].deadline = "ahead"
  /\ Write(j, [jobs[j] EXCEPT !.deadline = "passed"])
  /\ UNCHANGED <<revision, local, op>>

Revise(m) ==
  /\ revision[m] # Gone /\ revision[m] < MaxRevision
  /\ revision' = [revision EXCEPT ![m] = @ + 1]
  /\ UNCHANGED <<jobs, local, op>>

Erase(m) ==
  /\ revision[m] # Gone
  /\ revision' = [revision EXCEPT ![m] = Gone]
  /\ UNCHANGED <<jobs, local, op>>

-----------------------------------------------------------------------------

Claim(w) == \/ ClaimScan(w) \/ ClaimExpire(w) \/ ClaimSkip(w)
            \/ ClaimLease(w) \/ ClaimNothing(w)

Settle(w) == \/ CompleteRead(w) \/ \E retryable \in BOOLEAN : FailRead(w, retryable)
             \/ CompleteCommit(w) \/ CompleteReject(w)
             \/ FailRetry(w) \/ FailTerminal(w) \/ FailReject(w) \/ Crash(w)

Operate(o) == \/ \E j \in JobId : CancelRead(o, j)
              \/ \E j, r \in JobId : SupersedeRead(o, j, r)
              \/ OperatorCommit(o)

Clock(j) == LeaseElapses(j) \/ BackoffElapses(j) \/ DeadlinePasses(j)

Next ==
  \/ \E i \in Intent, b \in 1..MaxAttempts, d \in {"none", "ahead"} : Enqueue(i, b, d)
  \/ \E w \in Worker : Claim(w) \/ Renew(w) \/ Checkpoint(w) \/ Settle(w)
  \/ \E o \in Operator : Operate(o)
  \/ \E j \in JobId : Clock(j)
  \/ \E m \in Memory : Revise(m) \/ Erase(m)

Spec == Init /\ [][Next]_vars

(***************************************************************************)
(* Fairness.  A worker slot polls for ever (Worker::run), every executor   *)
(* returns or its process dies, and time passes.  Clients, operators and   *)
(* renewals are never obliged to act.                                      *)
(***************************************************************************)
Fairness ==
  /\ \A w \in Worker : WF_vars(Claim(w)) /\ WF_vars(Settle(w))
  /\ \A j \in JobId : WF_vars(LeaseElapses(j)) /\ WF_vars(BackoffElapses(j))

FairSpec == Spec /\ Fairness

-----------------------------------------------------------------------------
(* Properties. *)

\* Every column, snapshot and token stays in its domain; in particular a scan
\* only ever returns live rows.
TypeOK ==
  /\ jobs \in [JobId -> Job]
  /\ revision \in [Memory -> Nat]
  /\ wpc \in [Worker -> {"idle", "claiming", "running", "settling"}]
  /\ scan \in [Worker -> SUBSET Snapshot]
  /\ token \in [Worker -> Token]
  /\ draft \in [Worker -> Draft]
  /\ op \in [Operator -> Request]

\* The deduplication slot follows the life of the job: a live job holds its
\* intent's slot, a terminal one has given it up, and so no two live jobs
\* carry one intent (JOB-001), whatever retries and operators do in between.
LiveJobHoldsSlot ==
  /\ \A j \in JobId :
       jobs[j].slot = IF jobs[j].state \in Live THEN jobs[j].intent ELSE None
  /\ \A j, k \in JobId :
       j # k /\ {jobs[j].state, jobs[k].state} \subseteq Live
         => jobs[j].intent # jobs[k].intent

\* Every lease acquisition consumes exactly one attempt and one fence, and the
\* attempts never exceed the budget (JOB-005), although the budget is tested
\* on a snapshot that other claimants may have made stale.
AttemptsWithinBudget ==
  \A j \in JobId :
    jobs[j].attempts = jobs[j].fence /\ jobs[j].attempts <= jobs[j].maxAttempts

\* Two slots never hold one fence of one job, even when they claim under one
\* worker name, and no slot holds a fence the journal has not issued.
OneHolderPerFence ==
  \A v, w \in Worker :
    token[v].job # 0 =>
      /\ token[v].fence <= jobs[token[v].job].fence
      /\ v # w => token[v] # token[w]

\* JOB-003: the result of a succeeded job comes from the holder of the newest
\* lease, and no other job has a result; a checkpoint comes from an issued
\* lease.
ResultIsNewestHolders ==
  \A j \in JobId :
    /\ jobs[j].result = IF jobs[j].state = "succeeded" THEN jobs[j].fence ELSE 0
    /\ jobs[j].checkpoint <= jobs[j].fence

\* A slow holder that was replaced never overwrites the progress its successor
\* has recorded: checkpoints only move to newer leases.
CheckpointNeverRegresses ==
  [][\A j \in JobId : jobs'[j].checkpoint >= jobs[j].checkpoint]_vars

\* Terminal rows are frozen: a late completion, failure, claim, renewal,
\* deadline sweep or second operator changes nothing of them.
TerminalIsFinal ==
  [][\A j \in JobId : jobs[j].state \in Terminal => jobs'[j] = jobs[j]]_vars

\* JOB-004: at the instant a job succeeds every pinned input still exists in
\* the job's scope at its pinned revision, whatever happened since it was
\* enqueued or claimed.
SuccessOnPinnedInputs ==
  [][\A j \in JobId :
       jobs[j].state # "succeeded" /\ jobs'[j].state = "succeeded"
         => InputsHold(jobs[j].intent)]_vars

Newest(h, n) == {e \in h : n - e.fence < HistoryMax}

\* Unless an operator stopped it, a job's history holds its newest HistoryMax
\* attempts, the newest one closed exactly when no lease is open.
HistoryKeepsNewest ==
  \A j \in JobId :
    jobs[j].state \in Live \cup {"succeeded", "failed"} =>
      /\ {e.fence : e \in Newest(jobs[j].history, jobs[j].fence)}
           = {f \in 1..jobs[j].fence : jobs[j].fence - f < HistoryMax}
      /\ \A e \in jobs[j].history :
           e.fence = jobs[j].fence => (e.ended <=> jobs[j].state # "leased")

\* A terminal reason is true: the deadline did pass, the attempts are spent.
ReasonIsTruthful ==
  \A j \in JobId :
    /\ jobs[j].reason # "none" <=> jobs[j].state \in Terminal \ {"succeeded"}
    /\ jobs[j].reason = "deadline" => jobs[j].deadline = "passed"
    /\ jobs[j].reason = "budget" => jobs[j].attempts = jobs[j].maxAttempts

\* What a settlement leaves behind tells what happened: it is decided on a row
\* read before, while claims, sweeps, operators and late holders move the row.
SettlementsAreTruthful == HistoryKeepsNewest /\ ReasonIsTruthful

\* A lapsed lease on the last attempt of the budget.
Exhausted(j) == /\ jobs[j].state = "leased" /\ jobs[j].lease = "expired"
                /\ jobs[j].attempts = jobs[j].maxAttempts

\* Some slot still believes in the newest lease of the job.
Held(j) == \E w \in Worker : token[w] = [job |-> j, fence |-> jobs[j].fence]

\* Nobody can settle the job any more, and every claim skips it.
Abandoned(j) == Exhausted(j) /\ ~Held(j)

\* The abandoned rows a scan of the slot returns before the job.
Ahead(w, j) ==
  {k \in JobId : k < j /\ Abandoned(k) /\ JobScope(k) \in Grant[w]}

\* The job is in no scan and in no slot, and abandoned rows fill every scan
\* that might return it.
Starved(j) ==
  /\ ~Held(j)
  /\ \A w \in Worker : \A c \in scan[w] : c.job # j
  /\ \A w \in Worker :
       JobScope(j) \in Grant[w] => Cardinality(Ahead(w, j)) >= ScanLimit

Waits(j) == jobs[j].state \in Live /\ (Abandoned(j) \/ Starved(j))

\* Every accepted job reaches a terminal state or comes to wait: crashes, lost
\* leases and stale inputs delay a job with attempts left, but only ScanLimit
\* older abandoned jobs keep it from being claimed.
JobsSettleOrWait ==
  \A j \in JobId : jobs[j].state \in Live ~> jobs[j].state \in Terminal \/ Waits(j)

\* The wait has no end of its own: claims, sweeps, deadlines and late holders
\* leave a waiting job waiting, and only the commit of an operator, on it or on
\* a job ahead of it, frees it.
OnlyOperatorsEndTheWait ==
  [][\A j \in JobId :
       Waits(j) => Waits(j)' \/ \E o \in Operator : OperatorCommit(o)]_vars

\* What becomes of an accepted job.
JobsSettleOrStarve == JobsSettleOrWait /\ OnlyOperatorsEndTheWait

\* The journal implements the transition table of the job documents with the
\* fence made explicit: only the newest holder advances a job, terminal states
\* are final, and the budget bounds the leases.
Abstract == INSTANCE JobLifecycle WITH
  JobIds   <- JobId,
  status   <- [j \in JobId |-> jobs[j].state],
  budget   <- [j \in JobId |-> jobs[j].maxAttempts],
  epoch    <- [j \in JobId |-> jobs[j].fence],
  progress <- [j \in JobId |-> jobs[j].checkpoint],
  result   <- [j \in JobId |-> jobs[j].result]

\* Every behaviour of the journal, with its stale snapshots, lapsed leases and
\* late holders, is a behaviour of JobLifecycle.
ImplementsLifecycle == Abstract!Lifecycle

(* What the documents say and the code does not do. *)

\* docs/spec/08-background-processing.md:48 sends a leased job whose budget is
\* exhausted to Failed.  The claim loop skips it, so it stays leased.
ExhaustedLeaseIsResolved ==
  \A j \in JobId : Exhausted(j) ~> jobs[j].state \in Terminal
=============================================================================
