-------------------------- MODULE JobJournalProofs --------------------------
(***************************************************************************)
(* Proofs about JobJournal, for every number of jobs, workers, operators,  *)
(* attempts and intents, every scan limit and every history bound.         *)
(***************************************************************************)
EXTENDS JobJournal, FiniteSetTheorems, TLAPS

\* What a handler in progress is holding is well formed: a running slot has a
\* token for a row, an operator's request names a row and a terminal state.
HandlersOK ==
  /\ \A w \in Worker : wpc[w] \in {"running", "settling"} => token[w].job \in JobId
  /\ \A o \in Operator : op[o] # NoRequest =>
       op[o].job \in JobId /\ op[o].to \in {"cancelled", "superseded"}

TypeInv == TypeOK /\ HandlersOK

\* Closing a history yields a set of attempt entries.
LEMMA CloseHistoryType ==
  ASSUME NEW h \in SUBSET Attempt
  PROVE  CloseHistory(h) \in SUBSET Attempt
  BY DEF CloseHistory, Attempt

\* The empty journal is well typed.
LEMMA TypeInit == Init => TypeInv
  BY BoundsAssumption, IntentAssumption, ActorAssumption
  DEF Init, TypeInv, TypeOK, HandlersOK, NoJob, NoToken, NoDraft, NoRequest, Job,
      Token, Draft, Request, Attempt, JobState, Live, Terminal, Reason, Outcome,
      Snapshot, JobId

USE DEF local

\* Writing one well-typed row keeps the table well typed.
LEMMA WriteType ==
  ASSUME jobs \in [JobId -> Job], NEW j, NEW row \in Job, Write(j, row)
  PROVE  jobs' \in [JobId -> Job]
  BY DEF Write

\* The rows the actions write are well typed whenever the values they put in
\* are.
LEMMA NewRowType ==
  ASSUME NEW i \in Intent, NEW b \in Nat, NEW d \in {"none", "ahead"}
  PROVE  [NoJob EXCEPT !.state = "pending", !.intent = i, !.slot = i,
                       !.maxAttempts = b, !.deadline = d] \in Job
  BY DEF NoJob, Job, JobState, Live, Reason

\* The deadline sweep writes a well-typed row.
LEMMA ExpiredRowType ==
  ASSUME NEW r \in Job
  PROVE  [r EXCEPT !.state = "failed", !.reason = "deadline", !.slot = None] \in Job
<1>1. "failed" \in JobState /\ "deadline" \in Reason
  BY DEF JobState, Terminal, Reason
<1>2. QED
  BY <1>1 DEF Job

\* A won claim writes a well-typed row.
LEMMA LeasedRowType ==
  ASSUME NEW r \in Job, NEW name \in Names, NEW f \in Nat
  PROVE  [r EXCEPT !.state = "leased", !.fence = @ + 1, !.attempts = @ + 1,
                   !.owner = name, !.lease = "running", !.ready = TRUE,
                   !.history = @ \cup {[fence |-> f + 1, ended |-> FALSE]}] \in Job
<1>1. "leased" \in JobState
  BY DEF JobState, Live
<1>2. [fence |-> f + 1, ended |-> FALSE] \in Attempt
  BY DEF Attempt
<1>3. r.history \cup {[fence |-> f + 1, ended |-> FALSE]} \in SUBSET Attempt
  BY <1>2 DEF Job
<1>4. r.fence + 1 \in Nat /\ r.attempts + 1 \in Nat
  BY DEF Job
<1>5. QED
  BY <1>1, <1>3, <1>4 DEF Job

\* A terminal failure writes a well-typed row.
LEMMA FailedRowType ==
  ASSUME NEW r \in Job, NEW reason \in {"deadline", "budget", "nonretryable"},
         NEW h \in SUBSET Attempt
  PROVE  [r EXCEPT !.state = "failed", !.ready = TRUE, !.lease = "none",
                   !.owner = None, !.slot = None, !.reason = reason,
                   !.history = h] \in Job
<1>1. "failed" \in JobState /\ reason \in Reason
  BY DEF JobState, Terminal, Reason
<1>2. QED
  BY <1>1 DEF Job

\* A cancellation or a replacement writes a well-typed row.
LEMMA StoppedRowType ==
  ASSUME NEW r \in Job, NEW to \in {"cancelled", "superseded"},
         NEW by \in JobId \cup {0}, NEW h \in SUBSET Attempt
  PROVE  [r EXCEPT !.state = to, !.replacedBy = by, !.reason = "operator",
                   !.slot = None, !.lease = "none", !.owner = None,
                   !.history = h] \in Job
<1>1. to \in JobState /\ "operator" \in Reason
  BY DEF JobState, Terminal, Reason
<1>2. QED
  BY <1>1 DEF Job

\* The passing of time writes a well-typed row.
LEMMA ClockRowType ==
  ASSUME NEW r \in Job
  PROVE  /\ [r EXCEPT !.lease = "expired"] \in Job
         /\ [r EXCEPT !.ready = TRUE] \in Job
         /\ [r EXCEPT !.deadline = "passed"] \in Job
  BY DEF Job

\* Every step keeps the state well typed and the handlers well formed.
LEMMA TypeStep ==
  ASSUME TypeInv, [Next]_vars
  PROVE  TypeInv'
<1> USE BoundsAssumption, IntentAssumption, ActorAssumption
<1> USE DEF TypeInv, TypeOK, HandlersOK
<1>1. ASSUME NEW i \in Intent, NEW b \in 1..MaxAttempts, NEW d \in {"none", "ahead"},
             Enqueue(i, b, d)
      PROVE  TypeInv'
  <2> DEFINE row == [NoJob EXCEPT !.state = "pending", !.intent = i, !.slot = i,
                                  !.maxAttempts = b, !.deadline = d]
  <2>1. row \in Job
    <3>1. b \in Nat
      OBVIOUS
    <3>2. QED
      BY <3>1, NewRowType
  <2>2. \E j \in JobId : Write(j, row)
    BY <1>1 DEF Enqueue
  <2>3. jobs' \in [JobId -> Job]
    BY <2>1, <2>2, WriteType
  <2>4. QED
    BY <1>1, <2>3 DEF Enqueue
<1>2. ASSUME NEW w \in Worker, ClaimScan(w)
      PROVE  TypeInv'
  <2> DEFINE Snap(j) == [job |-> j, state |-> jobs[j].state, fence |-> jobs[j].fence,
                         attempts |-> jobs[j].attempts]
  <2>1. \A j \in Oldest(Candidates(w)) : j \in JobId /\ jobs[j].state \in Live
    BY DEF Oldest, Candidates, Eligible, Live
  <2>2. \A j \in Oldest(Candidates(w)) : Snap(j) \in Snapshot
    BY <2>1 DEF Snapshot, Job
  <2>3. {Snap(j) : j \in Oldest(Candidates(w))} \in SUBSET Snapshot
    BY <2>2
  <2>4. scan' \in [Worker -> SUBSET Snapshot]
    BY <1>2, <2>3 DEF ClaimScan
  <2>5. QED
    BY <1>2, <2>4 DEF ClaimScan
<1>3. ASSUME NEW w \in Worker, ClaimExpire(w)
      PROVE  TypeInv'
  <2>1. PICK c \in scan[w] : ClaimExpire(w)!1!(c)
    BY <1>3 DEF ClaimExpire
  <2>2. c.job \in JobId
    BY DEF Snapshot
  <2>3. [jobs[c.job] EXCEPT !.state = "failed", !.reason = "deadline", !.slot = None] \in Job
    BY <2>2, ExpiredRowType
  <2>4. jobs' \in [JobId -> Job]
    BY <2>1, <2>3, WriteType
  <2>5. scan' \in [Worker -> SUBSET Snapshot]
    BY <2>1
  <2>6. QED
    BY <1>3, <2>4, <2>5 DEF ClaimExpire
<1>4. ASSUME NEW w \in Worker, ClaimSkip(w)
      PROVE  TypeInv'
  BY <1>4 DEF ClaimSkip
<1>5. ASSUME NEW w \in Worker, ClaimLease(w)
      PROVE  TypeInv'
  <2>1. PICK c \in scan[w] : ClaimLease(w)!1!(c)
    BY <1>5 DEF ClaimLease
  <2>2. c.job \in JobId /\ c.fence \in Nat
    BY DEF Snapshot
  <2> DEFINE row == [jobs[c.job] EXCEPT
            !.state = "leased", !.fence = @ + 1, !.attempts = @ + 1,
            !.owner = WorkerName[w], !.lease = "running", !.ready = TRUE,
            !.history = @ \cup {[fence |-> c.fence + 1, ended |-> FALSE]}]
  <2>3. row \in Job
    BY <2>2, LeasedRowType DEF Names
  <2>4. jobs' \in [JobId -> Job]
    BY <2>1, <2>3, WriteType
  <2>5. token' \in [Worker -> Token] /\ token'[w].job \in JobId
    BY <2>1, <2>2 DEF Token
  <2>6. \A v \in Worker \ {w} : token'[v] = token[v]
    BY <2>1
  <2>7. QED
    BY <1>5, <2>4, <2>5, <2>6 DEF ClaimLease
<1>6. ASSUME NEW w \in Worker, ClaimNothing(w)
      PROVE  TypeInv'
  BY <1>6 DEF ClaimNothing
<1>7. ASSUME NEW w \in Worker, Renew(w) \/ Checkpoint(w)
      PROVE  TypeInv'
  <2>1. wpc[w] = "running" /\ token[w].job \in JobId /\ token[w].fence \in Nat
    BY <1>7 DEF Renew, Checkpoint, Token
  <2>2. /\ [jobs[token[w].job] EXCEPT !.lease = "running"] \in Job
        /\ [jobs[token[w].job] EXCEPT !.checkpoint = token[w].fence] \in Job
    BY <2>1 DEF Job
  <2>3. jobs' \in [JobId -> Job]
    BY <1>7, <2>2, WriteType DEF Renew, Checkpoint
  <2>4. QED
    BY <1>7, <2>3 DEF Renew, Checkpoint
<1>8. ASSUME NEW w \in Worker, Settle(w)
      PROVE  TypeInv'
  <2>1. ASSUME CompleteRead(w) \/ \E retryable \in BOOLEAN : FailRead(w, retryable)
        PROVE  TypeInv'
    <3>1. PICK outcome \in Outcome : Prepare(w, outcome)
      BY <2>1 DEF CompleteRead, FailRead, FailOutcome, Outcome
    <3>2. token[w].job \in JobId
      BY <3>1 DEF Prepare
    <3>3. [outcome |-> outcome, history |-> jobs[token[w].job].history] \in Draft
      BY <3>2 DEF Draft, Job
    <3>4. QED
      BY <3>1, <3>2, <3>3 DEF Prepare
  <2>2. ASSUME Release(w), jobs' \in [JobId -> Job], UNCHANGED <<revision, op>>
        PROVE  TypeInv'
    <3>1. NoToken \in Token /\ NoDraft \in Draft
      BY DEF NoToken, Token, NoDraft, Draft, Outcome
    <3>2. QED
      BY <2>2, <3>1 DEF Release
  <2>3. CASE CompleteReject(w) \/ FailReject(w) \/ Crash(w)
    BY <2>2, <2>3 DEF CompleteReject, FailReject, Crash
  <2>4. ASSUME wpc[w] = "settling"
        PROVE  /\ token[w].job \in JobId /\ jobs[token[w].job] \in Job
               /\ token[w].fence \in Nat
               /\ CloseHistory(draft[w].history) \in SUBSET Attempt
    BY <2>4, CloseHistoryType DEF Draft, Token
  <2>5. CASE CompleteCommit(w)
    <3> DEFINE row == [jobs[token[w].job] EXCEPT
           !.state = "succeeded", !.result = token[w].fence, !.slot = None,
           !.history = CloseHistory(draft[w].history)]
    <3>1. row \in Job
      BY <2>4, <2>5 DEF CompleteCommit, Job, JobState, Terminal
    <3>2. QED
      BY <2>2, <2>5, <3>1, WriteType DEF CompleteCommit
  <2>6. CASE FailRetry(w)
    <3> DEFINE row == [jobs[token[w].job] EXCEPT
           !.state = "pending", !.ready = FALSE, !.lease = "none", !.owner = None,
           !.slot = jobs[token[w].job].intent, !.reason = "none",
           !.history = CloseHistory(draft[w].history)]
    <3>1. row \in Job
      BY <2>4, <2>6 DEF FailRetry, Job, JobState, Live, Reason
    <3>2. QED
      BY <2>2, <2>6, <3>1, WriteType DEF FailRetry
  <2>7. CASE FailTerminal(w)
    <3> DEFINE row == [jobs[token[w].job] EXCEPT
           !.state = "failed", !.ready = TRUE, !.lease = "none", !.owner = None,
           !.slot = None, !.reason = draft[w].outcome,
           !.history = CloseHistory(draft[w].history)]
    <3>1. row \in Job
      BY <2>4, <2>7, FailedRowType DEF FailTerminal
    <3>2. QED
      BY <2>2, <2>7, <3>1, WriteType DEF FailTerminal
  <2>8. QED
    BY <1>8, <2>1, <2>3, <2>5, <2>6, <2>7 DEF Settle
<1>9. ASSUME NEW o \in Operator, NEW j \in JobId,
             CancelRead(o, j) \/ \E r \in JobId : SupersedeRead(o, j, r)
      PROVE  TypeInv'
  <2>1. jobs[j].history \in SUBSET Attempt
    BY DEF Job
  <2>2. PICK to \in {"cancelled", "superseded"}, r \in JobId \cup {0} :
          op' = [op EXCEPT ![o] = [to |-> to, job |-> j, replacement |-> r,
                                   history |-> jobs[j].history]]
    BY <1>9 DEF CancelRead, SupersedeRead
  <2>3. op' \in [Operator -> Request]
    BY <2>1, <2>2 DEF Request
  <2>4. UNCHANGED <<jobs, revision, local>>
    BY <1>9 DEF CancelRead, SupersedeRead
  <2>5. \A p \in Operator : op'[p] # NoRequest =>
          op'[p].job \in JobId /\ op'[p].to \in {"cancelled", "superseded"}
    BY <2>2
  <2>6. QED
    BY <2>3, <2>4, <2>5
<1>10. ASSUME NEW o \in Operator, OperatorCommit(o)
       PROVE  TypeInv'
  <2> DEFINE r == op[o]
             row == [jobs[r.job] EXCEPT
            !.state = r.to, !.replacedBy = r.replacement, !.reason = "operator",
            !.slot = None, !.lease = "none", !.owner = None,
            !.history = CloseHistory(r.history)]
  <2>1. /\ r.job \in JobId /\ r.to \in {"cancelled", "superseded"}
        /\ r.replacement \in JobId \cup {0} /\ CloseHistory(r.history) \in SUBSET Attempt
    BY <1>10, CloseHistoryType DEF OperatorCommit, Request
  <2>2. row \in Job
    BY <2>1, StoppedRowType
  <2>3. jobs' \in [JobId -> Job]
    BY <1>10, <2>2, WriteType DEF OperatorCommit
  <2>4. NoRequest \in Request
    BY DEF NoRequest, Request
  <2>5. QED
    BY <1>10, <2>3, <2>4 DEF OperatorCommit
<1>11. ASSUME NEW j \in JobId, Clock(j)
       PROVE  TypeInv'
  <2>1. /\ [jobs[j] EXCEPT !.lease = "expired"] \in Job
        /\ [jobs[j] EXCEPT !.ready = TRUE] \in Job
        /\ [jobs[j] EXCEPT !.deadline = "passed"] \in Job
    BY ClockRowType
  <2>2. jobs' \in [JobId -> Job]
    BY <1>11, <2>1, WriteType DEF Clock, LeaseElapses, BackoffElapses, DeadlinePasses
  <2>3. QED
    BY <1>11, <2>2 DEF Clock, LeaseElapses, BackoffElapses, DeadlinePasses
<1>12. ASSUME NEW m \in Memory, Revise(m) \/ Erase(m)
       PROVE  TypeInv'
  BY <1>12 DEF Revise, Erase, Gone
<1>13. CASE UNCHANGED vars
  BY <1>13 DEF vars
<1>14. QED
  BY <1>1, <1>2, <1>3, <1>4, <1>5, <1>6, <1>7, <1>8, <1>9, <1>10, <1>11, <1>12, <1>13
  DEF Next, Claim, Operate

\* Every reachable state of the journal is well typed.
THEOREM TypeCorrect == Spec => []TypeOK
<1>1. TypeInv => TypeOK
  BY DEF TypeInv
<1>2. QED
  BY <1>1, TypeInit, TypeStep, PTL DEF Spec

-----------------------------------------------------------------------------
(***************************************************************************)
(* The inductive invariant.  A snapshot or a draft may be stale, but what  *)
(* it says is still true as long as the fence it was read under is the     *)
(* newest one: that is what lets an update conditional on the fence alone  *)
(* act on values read before it.                                           *)
(***************************************************************************)

\* A row nobody has enqueued is blank.
AbsentIsBlank == \A j \in JobId : jobs[j].state = "absent" => jobs[j] = NoJob

\* A claim's snapshot pairs a fence with the attempts that go with it.
SnapshotsOK == \A w \in Worker : \A c \in scan[w] : c.attempts = c.fence

\* A retry is only ever drafted under a fence with attempts left.
DraftsOK ==
  \A w \in Worker :
    /\ draft[w].outcome = "retry"
    /\ wpc[w] = "settling"
    /\ token[w].fence = jobs[token[w].job].fence
    => jobs[token[w].job].fence < jobs[token[w].job].maxAttempts

\* A token names a fence that was issued.
TokensOK == \A w \in Worker : token[w].job # 0 => token[w].fence > 0

JobInv == /\ TypeInv /\ AbsentIsBlank /\ SnapshotsOK /\ DraftsOK /\ TokensOK
          /\ LiveJobHoldsSlot /\ AttemptsWithinBudget
          /\ OneHolderPerFence /\ ResultIsNewestHolders

(***************************************************************************)
(* What one step may do to one row.                                        *)
(***************************************************************************)

Fixed(j) == /\ jobs'[j].intent = jobs[j].intent
            /\ jobs'[j].maxAttempts = jobs[j].maxAttempts

Granted(j) == /\ jobs'[j].fence = jobs[j].fence
              /\ jobs'[j].attempts = jobs[j].attempts

Accepted(j) ==
  /\ jobs[j].state = "absent" /\ jobs'[j].state = "pending"
  /\ jobs'[j].intent \in Intent /\ jobs'[j].slot = jobs'[j].intent
  /\ \A k \in JobId : jobs[k].slot # jobs'[j].intent
  /\ jobs'[j].maxAttempts \in Nat \ {0}
  /\ jobs'[j].fence = 0 /\ jobs'[j].attempts = 0
  /\ jobs'[j].result = 0 /\ jobs'[j].checkpoint = 0

Leased(j) ==
  /\ Fixed(j)
  /\ jobs[j].state \in Live /\ jobs'[j].state = "leased"
  /\ jobs[j].fence < jobs[j].maxAttempts
  /\ jobs'[j].fence = jobs[j].fence + 1 /\ jobs'[j].attempts = jobs[j].attempts + 1
  /\ jobs'[j].slot = jobs[j].slot
  /\ jobs'[j].result = jobs[j].result /\ jobs'[j].checkpoint = jobs[j].checkpoint

Touched(j) ==
  /\ Fixed(j) /\ Granted(j)
  /\ jobs[j].state \in Live /\ jobs'[j].state = jobs[j].state
  /\ jobs'[j].slot = jobs[j].slot /\ jobs'[j].result = jobs[j].result
  /\ \/ jobs'[j].checkpoint = jobs[j].checkpoint
     \/ jobs[j].state = "leased" /\ jobs'[j].checkpoint = jobs[j].fence

Succeeded(j) ==
  /\ Fixed(j) /\ Granted(j)
  /\ jobs[j].state = "leased" /\ jobs'[j].state = "succeeded"
  /\ InputsHold(jobs[j].intent)
  /\ jobs'[j].slot = None /\ jobs'[j].result = jobs[j].fence
  /\ jobs'[j].checkpoint = jobs[j].checkpoint

Retried(j) ==
  /\ Fixed(j) /\ Granted(j)
  /\ jobs[j].state = "leased" /\ jobs'[j].state = "pending"
  /\ jobs[j].fence < jobs[j].maxAttempts
  /\ jobs'[j].slot = jobs[j].intent /\ jobs'[j].result = jobs[j].result
  /\ jobs'[j].checkpoint = jobs[j].checkpoint

Stopped(j) ==
  /\ Fixed(j) /\ Granted(j)
  /\ jobs[j].state \in Live /\ jobs'[j].state \in {"failed", "cancelled", "superseded"}
  /\ jobs'[j].slot = None /\ jobs'[j].result = jobs[j].result
  /\ jobs'[j].checkpoint = jobs[j].checkpoint

RowStep(j) ==
  /\ \A k \in JobId \ {j} : jobs'[k] = jobs[k]
  /\ \/ Accepted(j) \/ Leased(j) \/ Touched(j)
     \/ Succeeded(j) \/ Retried(j) \/ Stopped(j)

\* A write leaves every other row alone and puts its row in place.
LEMMA WriteRow ==
  ASSUME TypeInv, NEW j \in JobId, NEW row, Write(j, row)
  PROVE  jobs'[j] = row /\ \A k \in JobId \ {j} : jobs'[k] = jobs[k]
  BY DEF TypeInv, TypeOK, Write

\* Every step writes at most one row, in one of six ways.
LEMMA StepEffect ==
  ASSUME JobInv, [Next]_vars
  PROVE  UNCHANGED jobs \/ \E j \in JobId : RowStep(j)
<1> SUFFICES ASSUME ~UNCHANGED jobs
             PROVE  \E j \in JobId : RowStep(j)
  OBVIOUS
<1> USE DEF JobInv
<1>1. TypeInv /\ jobs \in [JobId -> Job]
  BY DEF TypeInv, TypeOK
<1>2. ASSUME NEW i \in Intent, NEW b \in 1..MaxAttempts, NEW d \in {"none", "ahead"},
             Enqueue(i, b, d)
      PROVE  \E j \in JobId : RowStep(j)
  <2>1. PICK j \in JobId : Enqueue(i, b, d)!3!(j)
    BY <1>2 DEF Enqueue
  <2>2. /\ jobs'[j] = [NoJob EXCEPT !.state = "pending", !.intent = i, !.slot = i,
                                    !.maxAttempts = b, !.deadline = d]
        /\ \A k \in JobId \ {j} : jobs'[k] = jobs[k]
    BY <1>1, <2>1, WriteRow
  <2>3. Accepted(j)
    BY <1>2, <2>1, <2>2 DEF Enqueue, Accepted, NoJob, Exists
  <2>4. QED
    BY <2>2, <2>3 DEF RowStep
<1>3. ASSUME NEW w \in Worker, ClaimExpire(w)
      PROVE  \E j \in JobId : RowStep(j)
  <2>1. PICK c \in scan[w] : ClaimExpire(w)!1!(c)
    BY <1>3 DEF ClaimExpire
  <2>2. c.job \in JobId
    BY <1>1 DEF TypeInv, TypeOK, Snapshot
  <2>3. /\ jobs[c.job].state = "pending"
        /\ Write(c.job, [jobs[c.job] EXCEPT
                 !.state = "failed", !.reason = "deadline", !.slot = None])
    BY <2>1
  <2>4. /\ jobs'[c.job] = [jobs[c.job] EXCEPT
                 !.state = "failed", !.reason = "deadline", !.slot = None]
        /\ \A k \in JobId \ {c.job} : jobs'[k] = jobs[k]
    BY <1>1, <2>2, <2>3, WriteRow
  <2>5. jobs[c.job] \in Job
    BY <1>1, <2>2
  <2>6. Stopped(c.job)
    BY <2>3, <2>4, <2>5 DEF Stopped, Fixed, Granted, Live, Job
  <2>7. QED
    BY <2>2, <2>4, <2>6 DEF RowStep
<1>4. ASSUME NEW w \in Worker, ClaimLease(w)
      PROVE  \E j \in JobId : RowStep(j)
  <2>1. PICK c \in scan[w] : ClaimLease(w)!1!(c)
    BY <1>4 DEF ClaimLease
  <2>2. c.job \in JobId /\ c.attempts = c.fence /\ c.attempts \in Nat
    BY <1>1 DEF TypeInv, TypeOK, Snapshot, SnapshotsOK
  <2>3. jobs[c.job] \in Job
    BY <1>1, <2>2
  <2>4. /\ jobs'[c.job] = [jobs[c.job] EXCEPT
            !.state = "leased", !.fence = @ + 1, !.attempts = @ + 1,
            !.owner = WorkerName[w], !.lease = "running", !.ready = TRUE,
            !.history = @ \cup {[fence |-> c.fence + 1, ended |-> FALSE]}]
        /\ \A k \in JobId \ {c.job} : jobs'[k] = jobs[k]
    BY <1>1, <2>1, <2>2, WriteRow
  <2>5. jobs[c.job].state \in Live /\ jobs[c.job].fence < jobs[c.job].maxAttempts
    BY <2>1, <2>2, <2>3 DEF CasHolds, OutOfAttempts, Eligible, Live, Job
  <2>6. Leased(c.job)
    BY <2>3, <2>4, <2>5 DEF Leased, Fixed, Job
  <2>7. QED
    BY <2>2, <2>4, <2>6 DEF RowStep
<1>5. ASSUME NEW w \in Worker, Renew(w) \/ Checkpoint(w)
      PROVE  \E j \in JobId : RowStep(j)
  <2> DEFINE j == token[w].job
  <2>1. /\ j \in JobId /\ jobs[j] \in Job
        /\ jobs[j].state = "leased" /\ jobs[j].fence = token[w].fence
    BY <1>1, <1>5 DEF TypeInv, HandlersOK, Renew, Checkpoint, HoldsLease
  <2>2. PICK row \in {[jobs[j] EXCEPT !.lease = "running"],
                      [jobs[j] EXCEPT !.checkpoint = token[w].fence]} : Write(j, row)
    BY <1>5 DEF Renew, Checkpoint
  <2>3. jobs'[j] = row /\ \A k \in JobId \ {j} : jobs'[k] = jobs[k]
    BY <1>1, <2>1, <2>2, WriteRow
  <2>4. Touched(j)
    BY <2>1, <2>2, <2>3 DEF Touched, Fixed, Granted, Live, Job
  <2>5. QED
    BY <2>1, <2>3, <2>4 DEF RowStep
<1>6. ASSUME NEW w \in Worker, CompleteCommit(w) \/ FailRetry(w) \/ FailTerminal(w)
      PROVE  \E j \in JobId : RowStep(j)
  <2> DEFINE j == token[w].job
  <2>1. /\ j \in JobId /\ jobs[j] \in Job
        /\ jobs[j].state = "leased" /\ jobs[j].fence = token[w].fence
    BY <1>1, <1>6 DEF TypeInv, HandlersOK, CompleteCommit, FailRetry, FailTerminal, HoldsLease
  <2>2. CASE CompleteCommit(w)
    <3>1. /\ jobs'[j] = [jobs[j] EXCEPT
               !.state = "succeeded", !.result = token[w].fence, !.slot = None,
               !.history = CloseHistory(draft[w].history)]
          /\ \A k \in JobId \ {j} : jobs'[k] = jobs[k]
      BY <1>1, <2>1, <2>2, WriteRow DEF CompleteCommit
    <3>2. Succeeded(j)
      BY <2>1, <2>2, <3>1 DEF CompleteCommit, Succeeded, Fixed, Granted, Job
    <3>3. QED
      BY <2>1, <3>1, <3>2 DEF RowStep
  <2>3. CASE FailRetry(w)
    <3>1. /\ jobs'[j] = [jobs[j] EXCEPT
               !.state = "pending", !.ready = FALSE, !.lease = "none", !.owner = None,
               !.slot = jobs[j].intent, !.reason = "none",
               !.history = CloseHistory(draft[w].history)]
          /\ \A k \in JobId \ {j} : jobs'[k] = jobs[k]
      BY <1>1, <2>1, <2>3, WriteRow DEF FailRetry
    <3>2. jobs[j].fence < jobs[j].maxAttempts
      BY <2>1, <2>3 DEF FailRetry, DraftsOK
    <3>3. Retried(j)
      BY <2>1, <3>1, <3>2 DEF Retried, Fixed, Granted, Job
    <3>4. QED
      BY <2>1, <3>1, <3>3 DEF RowStep
  <2>4. CASE FailTerminal(w)
    <3>1. /\ jobs'[j] = [jobs[j] EXCEPT
               !.state = "failed", !.ready = TRUE, !.lease = "none", !.owner = None,
               !.slot = None, !.reason = draft[w].outcome,
               !.history = CloseHistory(draft[w].history)]
          /\ \A k \in JobId \ {j} : jobs'[k] = jobs[k]
      BY <1>1, <2>1, <2>4, WriteRow DEF FailTerminal
    <3>2. Stopped(j)
      BY <2>1, <3>1 DEF Stopped, Fixed, Granted, Live, Job
    <3>3. QED
      BY <2>1, <3>1, <3>2 DEF RowStep
  <2>5. QED
    BY <1>6, <2>2, <2>3, <2>4
<1>7. ASSUME NEW o \in Operator, OperatorCommit(o)
      PROVE  \E j \in JobId : RowStep(j)
  <2> DEFINE r == op[o]
  <2>1. r.job \in JobId /\ r.to \in {"cancelled", "superseded"} /\ jobs[r.job] \in Job
    BY <1>1, <1>7 DEF TypeInv, HandlersOK, OperatorCommit
  <2>2. /\ jobs[r.job].state \in Live
        /\ Write(r.job, [jobs[r.job] EXCEPT
            !.state = r.to, !.replacedBy = r.replacement, !.reason = "operator",
            !.slot = None, !.lease = "none", !.owner = None,
            !.history = CloseHistory(r.history)])
    BY <1>7 DEF OperatorCommit
  <2>3. /\ jobs'[r.job] = [jobs[r.job] EXCEPT
            !.state = r.to, !.replacedBy = r.replacement, !.reason = "operator",
            !.slot = None, !.lease = "none", !.owner = None,
            !.history = CloseHistory(r.history)]
        /\ \A k \in JobId \ {r.job} : jobs'[k] = jobs[k]
    BY <1>1, <2>1, <2>2, WriteRow
  <2>4. Stopped(r.job)
    BY <2>1, <2>2, <2>3 DEF Stopped, Fixed, Granted, Job
  <2>5. QED
    BY <2>1, <2>3, <2>4 DEF RowStep
<1>8. ASSUME NEW j \in JobId, Clock(j)
      PROVE  \E k \in JobId : RowStep(k)
  <2>1. jobs[j].state \in Live /\ jobs[j] \in Job
    BY <1>1, <1>8 DEF Clock, LeaseElapses, BackoffElapses, DeadlinePasses, Live
  <2>2. PICK row \in {[jobs[j] EXCEPT !.lease = "expired"], [jobs[j] EXCEPT !.ready = TRUE],
                      [jobs[j] EXCEPT !.deadline = "passed"]} : Write(j, row)
    BY <1>8 DEF Clock, LeaseElapses, BackoffElapses, DeadlinePasses
  <2>3. jobs'[j] = row /\ \A k \in JobId \ {j} : jobs'[k] = jobs[k]
    BY <1>1, <2>2, WriteRow
  <2>4. Touched(j)
    BY <2>1, <2>2, <2>3 DEF Touched, Fixed, Granted, Job
  <2>5. QED
    BY <2>3, <2>4 DEF RowStep
<1>9. QED
  BY <1>2, <1>3, <1>4, <1>5, <1>6, <1>7, <1>8
  DEF Next, vars, Claim, Settle, Operate, ClaimScan, ClaimSkip, ClaimNothing,
      CompleteRead, FailRead, Prepare, CompleteReject, FailReject, Crash,
      CancelRead, SupersedeRead, Revise, Erase

-----------------------------------------------------------------------------
(* Each part of the invariant is preserved. *)

\* Facts about the typing of two consecutive rows, used below.
LEMMA RowNumbers ==
  ASSUME TypeInv, TypeInv', NEW j \in JobId
  PROVE  /\ jobs[j] \in Job /\ jobs'[j] \in Job
         /\ {jobs[j].fence, jobs[j].attempts, jobs[j].maxAttempts,
             jobs[j].checkpoint, jobs[j].result} \subseteq Nat
         /\ {jobs'[j].fence, jobs'[j].attempts, jobs'[j].maxAttempts,
             jobs'[j].checkpoint, jobs'[j].result} \subseteq Nat
<1>1. jobs[j] \in Job /\ jobs'[j] \in Job
  BY DEF TypeInv, TypeOK
<1>2. \A r \in Job : {r.fence, r.attempts, r.maxAttempts, r.checkpoint, r.result} \subseteq Nat
  BY DEF Job
<1>3. QED
  BY <1>1, <1>2

\* An id that was never enqueued keeps its blank row.
LEMMA BlankStep ==
  ASSUME JobInv, TypeInv', [Next]_vars
  PROVE  AbsentIsBlank'
<1>1. CASE UNCHANGED jobs
  BY <1>1 DEF JobInv, AbsentIsBlank
<1>2. ASSUME NEW j \in JobId, RowStep(j)
      PROVE  AbsentIsBlank'
  BY <1>2 DEF JobInv, AbsentIsBlank, RowStep, Accepted, Leased, Touched, Succeeded,
              Retried, Stopped, Live
<1>3. QED
  BY <1>1, <1>2, StepEffect

\* The deduplication slot keeps following the life of its job.
LEMMA SlotStep ==
  ASSUME JobInv, TypeInv', [Next]_vars
  PROVE  LiveJobHoldsSlot'
<1>1. CASE UNCHANGED jobs
  BY <1>1 DEF JobInv, LiveJobHoldsSlot
<1>2. ASSUME NEW j \in JobId, RowStep(j)
      PROVE  LiveJobHoldsSlot'
  <2>1. CASE Accepted(j)
    BY <1>2, <2>1 DEF JobInv, LiveJobHoldsSlot, RowStep, Accepted, Live
  <2>2. /\ Leased(j) \/ Touched(j) \/ Retried(j) =>
             jobs[j].state \in Live /\ jobs'[j].state \in Live
               /\ jobs'[j].slot = jobs[j].intent
        /\ Succeeded(j) \/ Stopped(j) =>
             jobs'[j].state \notin Live /\ jobs'[j].slot = None
        /\ ~Accepted(j) => jobs'[j].intent = jobs[j].intent
    BY <1>2 DEF JobInv, LiveJobHoldsSlot, RowStep, Leased, Touched, Retried, Succeeded,
                Stopped, Fixed, Live
  <2>3. CASE Leased(j) \/ Touched(j) \/ Retried(j) \/ Succeeded(j) \/ Stopped(j)
    BY <1>2, <2>2, <2>3, <2>1 DEF JobInv, LiveJobHoldsSlot, RowStep
  <2>4. QED
    BY <1>2, <2>1, <2>3 DEF RowStep
<1>3. QED
  BY <1>1, <1>2, StepEffect

\* No step takes the attempts away from the fence or past the budget.
LEMMA BudgetStep ==
  ASSUME JobInv, TypeInv', [Next]_vars
  PROVE  AttemptsWithinBudget'
<1>1. CASE UNCHANGED jobs
  BY <1>1 DEF JobInv, AttemptsWithinBudget
<1>2. ASSUME NEW j \in JobId, RowStep(j)
      PROVE  AttemptsWithinBudget'
  <2>1. /\ jobs'[j].attempts = jobs'[j].fence
        /\ jobs'[j].attempts <= jobs'[j].maxAttempts
    BY <1>2, RowNumbers DEF JobInv, AttemptsWithinBudget, RowStep, Accepted, Leased, Touched,
       Succeeded, Retried, Stopped, Fixed, Granted
  <2>2. QED
    BY <1>2, <2>1 DEF JobInv, AttemptsWithinBudget, RowStep
<1>3. QED
  BY <1>1, <1>2, StepEffect

\* Only the newest holder's completion sets a result.
LEMMA ResultStep ==
  ASSUME JobInv, TypeInv', [Next]_vars
  PROVE  ResultIsNewestHolders'
<1>1. CASE UNCHANGED jobs
  BY <1>1 DEF JobInv, ResultIsNewestHolders
<1>2. ASSUME NEW j \in JobId, RowStep(j)
      PROVE  ResultIsNewestHolders'
  <2>1. /\ jobs'[j].result = IF jobs'[j].state = "succeeded" THEN jobs'[j].fence ELSE 0
        /\ jobs'[j].checkpoint <= jobs'[j].fence
    BY <1>2, RowNumbers DEF JobInv, ResultIsNewestHolders, RowStep, Accepted, Leased, Touched,
       Succeeded, Retried, Stopped, Fixed, Granted, Live
  <2>2. QED
    BY <1>2, <2>1 DEF JobInv, ResultIsNewestHolders, RowStep
<1>3. QED
  BY <1>1, <1>2, StepEffect

\* Fences never go back, and while a fence stays the budget of its row and
\* the leases granted stay.
LEMMA FenceStep ==
  ASSUME JobInv, TypeInv', [Next]_vars, NEW j \in JobId, jobs[j].state # "absent"
  PROVE  /\ jobs[j].fence <= jobs'[j].fence
         /\ jobs'[j].maxAttempts = jobs[j].maxAttempts
<1>1. CASE UNCHANGED jobs
  BY <1>1, RowNumbers DEF JobInv
<1>2. ASSUME NEW k \in JobId, RowStep(k)
      PROVE  /\ jobs[j].fence <= jobs'[j].fence
             /\ jobs'[j].maxAttempts = jobs[j].maxAttempts
  BY <1>2, RowNumbers DEF JobInv, RowStep, Accepted, Leased, Touched, Succeeded, Retried,
     Stopped, Fixed, Granted
<1>3. QED
  BY <1>1, <1>2, StepEffect

\* The row a token names has been enqueued.
LEMMA TokenRowExists ==
  ASSUME JobInv, NEW w \in Worker, token[w].job # 0
  PROVE  token[w].job \in JobId /\ jobs[token[w].job].state # "absent"
<1>1. token[w] \in Token /\ token[w].job \in JobId
  BY DEF JobInv, TypeInv, TypeOK, Token
<1>2. token[w].fence > 0 /\ token[w].fence <= jobs[token[w].job].fence
  BY DEF JobInv, TokensOK, OneHolderPerFence
<1>3. jobs[token[w].job] # NoJob
  BY <1>1, <1>2 DEF NoJob, Token
<1>4. QED
  BY <1>1, <1>3 DEF JobInv, AbsentIsBlank

\* A slot's token only changes when it wins a claim or lets its lease go.
LEMMA TokenStep ==
  ASSUME JobInv, [Next]_vars
  PROVE  \/ UNCHANGED token
         \/ \E w \in Worker : ClaimLease(w)
         \/ \E w \in Worker : Release(w)
  BY DEF Next, vars, Enqueue, Claim, ClaimScan, ClaimExpire, ClaimSkip, ClaimNothing,
     Renew, Checkpoint, Settle, CompleteRead, FailRead, Prepare, CompleteCommit,
     CompleteReject, FailRetry, FailTerminal, FailReject, Crash, Operate, CancelRead,
     SupersedeRead, OperatorCommit, Clock, LeaseElapses, BackoffElapses, DeadlinePasses,
     Revise, Erase

\* A fence keeps one holder: a won claim issues a fence nobody holds.
LEMMA HolderStep ==
  ASSUME JobInv, TypeInv', [Next]_vars
  PROVE  OneHolderPerFence' /\ TokensOK'
<1>1. \A w \in Worker : token[w] \in Token /\ token'[w] \in Token
  BY DEF JobInv, TypeInv, TypeOK
<1>2. ASSUME NEW w \in Worker, token[w].job # 0
      PROVE  token[w].fence <= jobs'[token[w].job].fence
  <2>1. token[w].job \in JobId /\ jobs[token[w].job].state # "absent"
    BY <1>2, TokenRowExists
  <2>2. jobs[token[w].job].fence <= jobs'[token[w].job].fence
    BY <2>1, FenceStep DEF JobInv
  <2>3. token[w].fence <= jobs[token[w].job].fence
    BY <1>2 DEF JobInv, OneHolderPerFence
  <2>4. QED
    BY <1>1, <2>1, <2>2, <2>3, RowNumbers DEF JobInv, Token
<1>3. CASE UNCHANGED token
  BY <1>2, <1>3 DEF JobInv, OneHolderPerFence, TokensOK
<1>4. ASSUME NEW w \in Worker, Release(w)
      PROVE  OneHolderPerFence' /\ TokensOK'
  <2>1. token' = [token EXCEPT ![w] = NoToken] /\ NoToken.job = 0
    BY <1>4 DEF Release, NoToken
  <2>2. token'[w].job = 0 /\ \A v \in Worker \ {w} : token'[v] = token[v]
    BY <2>1 DEF JobInv, TypeInv, TypeOK
  <2>3. QED
    BY <1>2, <2>2 DEF JobInv, OneHolderPerFence, TokensOK
<1>5. ASSUME NEW w \in Worker, ClaimLease(w)
      PROVE  OneHolderPerFence' /\ TokensOK'
  <2>1. PICK c \in scan[w] : ClaimLease(w)!1!(c)
    BY <1>5 DEF ClaimLease
  <2>2. c.job \in JobId /\ c.fence \in Nat /\ c.fence = jobs[c.job].fence
    BY <2>1 DEF JobInv, TypeInv, TypeOK, Snapshot, CasHolds
  <2>3. /\ token'[w] = [job |-> c.job, fence |-> c.fence + 1]
        /\ \A v \in Worker \ {w} : token'[v] = token[v]
    BY <2>1 DEF JobInv, TypeInv, TypeOK
  <2>4. jobs'[c.job].fence = c.fence + 1
    <3>1. jobs[c.job] \in Job
      BY <2>2 DEF JobInv, TypeInv, TypeOK
    <3>2. jobs'[c.job] = [jobs[c.job] EXCEPT
            !.state = "leased", !.fence = @ + 1, !.attempts = @ + 1,
            !.owner = WorkerName[w], !.lease = "running", !.ready = TRUE,
            !.history = @ \cup {[fence |-> c.fence + 1, ended |-> FALSE]}]
      BY <2>1, <2>2, WriteRow DEF JobInv
    <3>3. QED
      BY <2>2, <3>1, <3>2 DEF Job
  <2>5. \A v \in Worker : token[v].job = c.job => token[v].fence <= c.fence
    BY <2>2, 0 \notin JobId DEF JobInv, OneHolderPerFence, JobId
  <2>6. TokensOK'
    BY <2>2, <2>3 DEF JobInv, TokensOK
  <2>7. ASSUME NEW v \in Worker, token'[v].job # 0
        PROVE  token'[v].fence <= jobs'[token'[v].job].fence
    BY <1>2, <2>2, <2>3, <2>4, <2>7
  <2>8. ASSUME NEW v \in Worker, NEW u \in Worker, token'[v].job # 0, v # u
        PROVE  token'[v] # token'[u]
    <3>1. CASE v # w /\ u # w
      BY <2>3, <2>8, <3>1 DEF JobInv, OneHolderPerFence
    <3>2. ASSUME NEW x \in Worker \ {w}
          PROVE  token[x] # [job |-> c.job, fence |-> c.fence + 1]
      BY <1>1, <2>2, <2>5 DEF Token
    <3>3. QED
      BY <2>3, <2>8, <3>1, <3>2
  <2>9. QED
    BY <2>6, <2>7, <2>8 DEF OneHolderPerFence
<1>6. QED
  BY <1>3, <1>4, <1>5, TokenStep

\* What a claim has read keeps pairing a fence with its attempts, whatever
\* the row has become since.
LEMMA SnapshotStep ==
  ASSUME JobInv, TypeInv', [Next]_vars
  PROVE  SnapshotsOK'
<1>1. ASSUME NEW w \in Worker, ClaimScan(w)
      PROVE  SnapshotsOK'
  <2> DEFINE Snap(j) == [job |-> j, state |-> jobs[j].state, fence |-> jobs[j].fence,
                         attempts |-> jobs[j].attempts]
  <2>a. scan'[w] = {Snap(j) : j \in Oldest(Candidates(w))}
    BY <1>1 DEF ClaimScan, JobInv, TypeInv, TypeOK
  <2>b. \A j \in Oldest(Candidates(w)) : Snap(j).attempts = Snap(j).fence
    BY DEF Oldest, Candidates, JobInv, AttemptsWithinBudget
  <2>1. \A c \in scan'[w] : c.attempts = c.fence
    BY <2>a, <2>b
  <2>2. QED
    BY <1>1, <2>1 DEF ClaimScan, JobInv, TypeInv, TypeOK, SnapshotsOK
<1>2. ASSUME \A w \in Worker : scan'[w] \subseteq scan[w]
      PROVE  SnapshotsOK'
  BY <1>2 DEF JobInv, SnapshotsOK
<1>3. CASE UNCHANGED scan
  BY <1>2, <1>3
<1>4. ASSUME NEW w \in Worker, ClaimExpire(w) \/ ClaimSkip(w) \/ ClaimLease(w)
      PROVE  SnapshotsOK'
  BY <1>2, <1>4 DEF ClaimExpire, ClaimSkip, ClaimLease, JobInv, TypeInv, TypeOK
<1>5. QED
  BY <1>1, <1>3, <1>4
  DEF Next, vars, Enqueue, Claim, ClaimNothing, Release,
     Renew, Checkpoint, Settle, CompleteRead, FailRead, Prepare, CompleteCommit,
     CompleteReject, FailRetry, FailTerminal, FailReject, Crash, Operate, CancelRead,
     SupersedeRead, OperatorCommit, Clock, LeaseElapses, BackoffElapses, DeadlinePasses,
     Revise, Erase

\* A slot that is settling after a step either drafted its outcome in this
\* step, or kept its draft and its token.
LEMMA DraftEffect ==
  ASSUME JobInv, [Next]_vars, NEW w \in Worker, wpc'[w] = "settling"
  PROVE  \/ /\ wpc[w] = "settling"
            /\ draft'[w] = draft[w] /\ token'[w] = token[w]
         \/ /\ token'[w] = token[w] /\ UNCHANGED jobs
            /\ CompleteRead(w) \/ \E retryable \in BOOLEAN : FailRead(w, retryable)
<1> USE DEF JobInv, TypeInv, TypeOK
<1>1. ASSUME NEW v \in Worker, Release(v)
      PROVE  v # w /\ wpc[w] = "settling" /\ draft'[w] = draft[w] /\ token'[w] = token[w]
  BY <1>1 DEF Release
<1>2. ASSUME NEW v \in Worker, ClaimLease(v)
      PROVE  v # w /\ wpc[w] = "settling" /\ draft'[w] = draft[w] /\ token'[w] = token[w]
  BY <1>2 DEF ClaimLease
<1>3. ASSUME NEW v \in Worker, NEW outcome, Prepare(v, outcome)
      PROVE  /\ UNCHANGED <<jobs, token>>
             /\ v # w => wpc[w] = "settling" /\ draft'[w] = draft[w]
  BY <1>3 DEF Prepare
<1>4. ASSUME NEW v \in Worker, ClaimScan(v) \/ ClaimNothing(v)
      PROVE  wpc[w] = "settling" /\ draft'[w] = draft[w] /\ token'[w] = token[w]
  BY <1>4 DEF ClaimScan, ClaimNothing
<1>5. CASE UNCHANGED <<wpc, token, draft>>
  BY <1>5
<1>6. QED
  BY <1>1, <1>2, <1>3, <1>4, <1>5
  DEF Next, vars, Enqueue, Claim, ClaimExpire, ClaimSkip,
     Renew, Checkpoint, Settle, CompleteRead, FailRead, CompleteCommit,
     CompleteReject, FailRetry, FailTerminal, FailReject, Crash, Operate, CancelRead,
     SupersedeRead, OperatorCommit, Clock, LeaseElapses, BackoffElapses, DeadlinePasses,
     Revise, Erase

\* A retry stays within the budget as long as its draft's fence is current.
LEMMA DraftStep ==
  ASSUME JobInv, TypeInv', [Next]_vars
  PROVE  DraftsOK'
<1> SUFFICES ASSUME NEW w \in Worker, draft'[w].outcome = "retry", wpc'[w] = "settling",
                    token'[w].fence = jobs'[token'[w].job].fence
             PROVE  jobs'[token'[w].job].fence < jobs'[token'[w].job].maxAttempts
  BY DEF DraftsOK
<1>1. token'[w] = token[w]
  BY DraftEffect
<1>2. token[w].job \in JobId /\ jobs[token[w].job].state # "absent"
  <2>1. token[w].job \in JobId
    BY <1>1 DEF TypeInv, HandlersOK
  <2>2. QED
    BY <2>1, TokenRowExists, 0 \notin JobId DEF JobId
<1>3. CASE wpc[w] = "settling" /\ draft'[w] = draft[w]
  <2>1. /\ token[w].fence <= jobs[token[w].job].fence
        /\ jobs[token[w].job].fence <= jobs'[token[w].job].fence
        /\ jobs'[token[w].job].maxAttempts = jobs[token[w].job].maxAttempts
    BY <1>2, FenceStep, 0 \notin JobId DEF JobInv, OneHolderPerFence, JobId
  <2>2. token[w].fence = jobs[token[w].job].fence
    <3>1. token[w].fence \in Nat
      BY DEF JobInv, TypeInv, TypeOK, Token
    <3>2. jobs[token[w].job].fence \in Nat /\ jobs'[token[w].job].fence \in Nat
      BY <1>2 DEF JobInv, TypeInv, TypeOK, Job
    <3>3. token[w].fence = jobs'[token[w].job].fence
      BY <1>1
    <3>4. QED
      BY <2>1, <3>1, <3>2, <3>3
  <2>3. QED
    BY <1>1, <1>3, <2>1, <2>2 DEF JobInv, DraftsOK
<1>4. CASE UNCHANGED jobs /\ CompleteRead(w)
  <2>1. draft'[w].outcome = "succeed"
    BY <1>4 DEF CompleteRead, Prepare, JobInv, TypeInv, TypeOK
  <2>2. QED
    BY <2>1
<1>5. ASSUME UNCHANGED jobs, NEW retryable \in BOOLEAN, FailRead(w, retryable)
      PROVE  jobs'[token'[w].job].fence < jobs'[token'[w].job].maxAttempts
  <2>1. draft'[w].outcome = FailOutcome(jobs[token[w].job], retryable)
    BY <1>5 DEF FailRead, Prepare, JobInv, TypeInv, TypeOK
  <2>2. ~(jobs[token[w].job].attempts >= jobs[token[w].job].maxAttempts)
    BY <2>1 DEF FailOutcome
  <2>3. QED
    BY <1>1, <1>2, <1>5, <2>2, RowNumbers DEF JobInv, AttemptsWithinBudget
<1>6. QED
  BY <1>3, <1>4, <1>5, DraftEffect

-----------------------------------------------------------------------------

\* The inductive invariant holds of the empty journal.
LEMMA JobInvInit == Init => JobInv
<1> SUFFICES ASSUME Init PROVE JobInv
  OBVIOUS
<1>1. \A j \in JobId : jobs[j] = NoJob
  BY DEF Init
<1>2. \A w \in Worker : scan[w] = {} /\ token[w] = NoToken /\ draft[w] = NoDraft
                        /\ wpc[w] = "idle"
  BY DEF Init
<1>3. LiveJobHoldsSlot /\ AttemptsWithinBudget /\ ResultIsNewestHolders /\ AbsentIsBlank
  <2>1. \A j \in JobId : /\ jobs[j].state = "absent" /\ jobs[j].slot = None
                         /\ jobs[j].attempts = 0 /\ jobs[j].fence = 0
                         /\ jobs[j].maxAttempts = 0
                         /\ jobs[j].result = 0 /\ jobs[j].checkpoint = 0
    BY <1>1 DEF NoJob
  <2>2. LiveJobHoldsSlot
    BY <2>1 DEF LiveJobHoldsSlot, Live
  <2>3. AttemptsWithinBudget
    BY <2>1 DEF AttemptsWithinBudget
  <2>4. ResultIsNewestHolders
    BY <2>1 DEF ResultIsNewestHolders
  <2>5. QED
    BY <1>1, <2>2, <2>3, <2>4 DEF AbsentIsBlank
<1>4. OneHolderPerFence /\ TokensOK /\ SnapshotsOK /\ DraftsOK
  BY <1>2 DEF OneHolderPerFence, TokensOK, SnapshotsOK, DraftsOK, NoToken
<1>5. QED
  BY <1>3, <1>4, TypeInit DEF JobInv

\* The inductive invariant survives every step.
LEMMA JobInvStep == JobInv /\ [Next]_vars => JobInv'
<1> SUFFICES ASSUME JobInv, [Next]_vars PROVE JobInv'
  OBVIOUS
<1>1. TypeInv'
  BY TypeStep DEF JobInv
<1>2. QED
  BY <1>1, BlankStep, SlotStep, BudgetStep, ResultStep, HolderStep, SnapshotStep, DraftStep
  DEF JobInv

\* The inductive invariant holds of every reachable state.
LEMMA JobInvariant == Spec => []JobInv
  BY JobInvInit, JobInvStep, PTL DEF Spec

\* No two live jobs carry one deduplication identity, and a terminal job has
\* given its slot up (JOB-001).
THEOREM DedupSlot == Spec => []LiveJobHoldsSlot
<1>1. JobInv => LiveJobHoldsSlot
  BY DEF JobInv
<1>2. QED
  BY <1>1, JobInvariant, PTL

\* However claims interleave, a job is leased at most max_attempts times
\* (JOB-005).
THEOREM BoundedAttempts == Spec => []AttemptsWithinBudget
<1>1. JobInv => AttemptsWithinBudget
  BY DEF JobInv
<1>2. QED
  BY <1>1, JobInvariant, PTL

\* No two slots ever hold one fence of one job (JOB-003).
THEOREM ExclusiveFence == Spec => []OneHolderPerFence
<1>1. JobInv => OneHolderPerFence
  BY DEF JobInv
<1>2. QED
  BY <1>1, JobInvariant, PTL

\* A result is the newest holder's, never a late one's (JOB-003).
THEOREM FencedResult == Spec => []ResultIsNewestHolders
<1>1. JobInv => ResultIsNewestHolders
  BY DEF JobInv
<1>2. QED
  BY <1>1, JobInvariant, PTL

\* No step of anybody changes a terminal row.
THEOREM FinalStates == Spec => TerminalIsFinal
<1>1. JobInv /\ [Next]_vars =>
        [\A j \in JobId : jobs[j].state \in Terminal => jobs'[j] = jobs[j]]_vars
  <2> SUFFICES ASSUME JobInv, [Next]_vars, NEW j \in JobId, jobs[j].state \in Terminal
               PROVE  jobs'[j] = jobs[j]
    OBVIOUS
  <2>1. ASSUME NEW k \in JobId, RowStep(k)
        PROVE  jobs'[j] = jobs[j]
    BY <2>1 DEF RowStep, Accepted, Leased, Touched, Succeeded, Retried, Stopped, Live, Terminal
  <2>2. QED
    BY <2>1, StepEffect
<1>2. QED
  BY <1>1, JobInvariant, PTL DEF Spec, TerminalIsFinal

\* A replaced holder never overwrites its successor's progress.
THEOREM MonotoneCheckpoints == Spec => CheckpointNeverRegresses
<1>1. JobInv /\ [Next]_vars =>
        [\A j \in JobId : jobs'[j].checkpoint >= jobs[j].checkpoint]_vars
  <2> SUFFICES ASSUME JobInv, [Next]_vars, NEW j \in JobId
               PROVE  jobs'[j].checkpoint >= jobs[j].checkpoint
    OBVIOUS
  <2>1. TypeInv /\ TypeInv'
    BY TypeStep DEF JobInv
  <2>2. jobs[j].state = "absent" => jobs[j].checkpoint = 0
    BY DEF JobInv, AbsentIsBlank, NoJob
  <2>3. jobs[j].checkpoint <= jobs[j].fence
    BY DEF JobInv, ResultIsNewestHolders
  <2>4. ASSUME NEW k \in JobId, RowStep(k)
        PROVE  jobs'[j].checkpoint >= jobs[j].checkpoint
    BY <2>1, <2>2, <2>3, <2>4, RowNumbers
    DEF RowStep, Accepted, Leased, Touched, Succeeded, Retried, Stopped
  <2>5. QED
    BY <2>1, <2>4, StepEffect, RowNumbers
<1>2. QED
  BY <1>1, JobInvariant, PTL DEF Spec, CheckpointNeverRegresses

\* A job only succeeds while its inputs are as they were pinned (JOB-004).
THEOREM RevisionBoundSuccess == Spec => SuccessOnPinnedInputs
<1>1. JobInv /\ [Next]_vars =>
        [\A j \in JobId : jobs[j].state # "succeeded" /\ jobs'[j].state = "succeeded"
           => InputsHold(jobs[j].intent)]_vars
  <2> SUFFICES ASSUME JobInv, [Next]_vars, NEW j \in JobId,
                      jobs[j].state # "succeeded", jobs'[j].state = "succeeded"
               PROVE  InputsHold(jobs[j].intent)
    OBVIOUS
  <2>1. ASSUME NEW k \in JobId, RowStep(k)
        PROVE  InputsHold(jobs[j].intent)
    BY <2>1 DEF RowStep, Accepted, Leased, Touched, Succeeded, Retried, Stopped
  <2>2. QED
    BY <2>1, StepEffect
<1>2. QED
  BY <1>1, JobInvariant, PTL DEF Spec, SuccessOnPinnedInputs

-----------------------------------------------------------------------------
(***************************************************************************)
(* Waiting.  A row with its attempts spent and its last lease lapsed is in *)
(* every scan and is leased by none, so ScanLimit of them hide every       *)
(* younger row; no step of a slot or of the clock changes either fact.     *)
(***************************************************************************)

\* A live row out of every slot's hands and, unless its attempts are spent, in
\* no scan.
OutOfReach(j) ==
  /\ jobs[j].state \in Live /\ ~Held(j)
  /\ Exhausted(j) \/ \A w \in Worker : \A c \in scan[w] : c.job # j

\* Only the clock reaches such a row, and it cannot take up a lapsed lease.
LEMMA RowOutOfReach ==
  ASSUME JobInv, [Next]_vars, ~\E o \in Operator : OperatorCommit(o),
         NEW j \in JobId, OutOfReach(j)
  PROVE  \/ jobs'[j] = jobs[j]
         \/ jobs'[j] = [jobs[j] EXCEPT !.deadline = "passed"]
         \/ /\ ~Exhausted(j)
            /\ \/ jobs'[j] = [jobs[j] EXCEPT !.lease = "expired"]
               \/ jobs'[j] = [jobs[j] EXCEPT !.ready = TRUE]
<1> SUFFICES ASSUME jobs'[j] # jobs[j]
             PROVE  \/ jobs'[j] = [jobs[j] EXCEPT !.deadline = "passed"]
                    \/ /\ ~Exhausted(j)
                       /\ \/ jobs'[j] = [jobs[j] EXCEPT !.lease = "expired"]
                          \/ jobs'[j] = [jobs[j] EXCEPT !.ready = TRUE]
  OBVIOUS
<1>1. TypeInv /\ jobs[j] \in Job
  BY DEF JobInv, TypeInv, TypeOK
<1>2. ASSUME NEW k \in JobId, NEW row, Write(k, row)
      PROVE  k = j /\ jobs'[j] = row
  BY <1>1, <1>2, WriteRow
<1>3. ASSUME NEW i \in Intent, NEW b \in 1..MaxAttempts, NEW d \in {"none", "ahead"},
             Enqueue(i, b, d)
      PROVE  FALSE
  <2>1. PICK k \in JobId : Enqueue(i, b, d)!3!(k)
    BY <1>3 DEF Enqueue
  <2>2. k = j
    BY <1>2, <2>1
  <2>3. QED
    BY <2>1, <2>2 DEF Exists, OutOfReach, Live
<1>4. ASSUME NEW w \in Worker, NEW c \in scan[w]
      PROVE  c.job \in JobId /\ c.attempts = c.fence /\ (c.job = j => Exhausted(j))
  BY <1>1 DEF JobInv, TypeInv, TypeOK, Snapshot, SnapshotsOK, OutOfReach
<1>5. ASSUME NEW w \in Worker, ClaimExpire(w)
      PROVE  FALSE
  <2>1. PICK c \in scan[w] : ClaimExpire(w)!1!(c)
    BY <1>5 DEF ClaimExpire
  <2>2. /\ jobs[c.job].state = "pending"
        /\ Write(c.job, [jobs[c.job] EXCEPT
                 !.state = "failed", !.reason = "deadline", !.slot = None])
    BY <2>1
  <2>3. c.job = j /\ Exhausted(j)
    BY <1>2, <1>4, <2>2
  <2>4. QED
    BY <2>2, <2>3 DEF Exhausted
<1>6. ASSUME NEW w \in Worker, ClaimLease(w)
      PROVE  FALSE
  <2>1. PICK c \in scan[w] : ClaimLease(w)!1!(c)
    BY <1>6 DEF ClaimLease
  <2>2. c.job = j /\ Exhausted(j) /\ c.attempts = c.fence
    BY <1>2, <1>4, <2>1
  <2>3. c.fence = jobs[j].fence /\ ~OutOfAttempts(c)
    BY <2>1, <2>2 DEF CasHolds
  <2>4. jobs[j].fence = jobs[j].attempts /\ jobs[j].attempts = jobs[j].maxAttempts
    BY <2>2 DEF JobInv, AttemptsWithinBudget, Exhausted
  <2>5. QED
    BY <1>1, <2>2, <2>3, <2>4 DEF OutOfAttempts, Job
<1>7. ASSUME NEW w \in Worker, HoldsLease(w), token[w].job \in JobId,
             NEW row, Write(token[w].job, row)
      PROVE  FALSE
  <2>1. token[w].job = j
    BY <1>2, <1>7
  <2>2. token[w] \in Token /\ token[w].fence = jobs[j].fence
    BY <1>1, <1>7, <2>1 DEF HoldsLease, TypeInv, TypeOK
  <2>3. Held(j)
    BY <2>1, <2>2 DEF Held, Token
  <2>4. QED
    BY <2>3 DEF OutOfReach
<1>8. ASSUME NEW w \in Worker,
             \/ Renew(w) \/ Checkpoint(w) \/ CompleteCommit(w)
             \/ FailRetry(w) \/ FailTerminal(w)
      PROVE  FALSE
  <2>1. token[w].job \in JobId /\ HoldsLease(w)
    BY <1>1, <1>8
    DEF TypeInv, HandlersOK, Renew, Checkpoint, CompleteCommit, FailRetry, FailTerminal
  <2>2. \E row : Write(token[w].job, row)
    BY <1>8 DEF Renew, Checkpoint, CompleteCommit, FailRetry, FailTerminal
  <2>3. QED
    BY <1>7, <2>1, <2>2
<1>9. ASSUME NEW k \in JobId, Clock(k)
      PROVE  \/ jobs'[j] = [jobs[j] EXCEPT !.deadline = "passed"]
             \/ /\ ~Exhausted(j)
                /\ \/ jobs'[j] = [jobs[j] EXCEPT !.lease = "expired"]
                   \/ jobs'[j] = [jobs[j] EXCEPT !.ready = TRUE]
  <2>1. CASE LeaseElapses(k)
    BY <1>2, <2>1 DEF LeaseElapses, Exhausted
  <2>2. CASE BackoffElapses(k)
    BY <1>2, <2>2 DEF BackoffElapses, Exhausted
  <2>3. CASE DeadlinePasses(k)
    BY <1>2, <2>3 DEF DeadlinePasses
  <2>4. QED
    BY <1>9, <2>1, <2>2, <2>3 DEF Clock
<1>10. QED
  BY <1>3, <1>5, <1>6, <1>8, <1>9
  DEF Next, vars, Claim, Settle, Operate, ClaimScan, ClaimSkip, ClaimNothing,
      CompleteRead, FailRead, Prepare, CompleteReject, FailReject, Crash,
      CancelRead, SupersedeRead, Revise, Erase

\* Nobody takes hold of it either.
LEMMA StaysUnheld ==
  ASSUME JobInv, [Next]_vars, ~\E o \in Operator : OperatorCommit(o),
         NEW j \in JobId, OutOfReach(j)
  PROVE  ~Held(j)'
<1>1. jobs'[j].fence = jobs[j].fence
  <2>1. jobs[j] \in Job
    BY DEF JobInv, TypeInv, TypeOK
  <2>2. QED
    BY <2>1, RowOutOfReach DEF Job
<1>2. \A v \in Worker : token[v] # [job |-> j, fence |-> jobs[j].fence]
  BY DEF OutOfReach, Held
<1>3. CASE UNCHANGED token
  BY <1>1, <1>2, <1>3 DEF Held
<1>4. ASSUME NEW w \in Worker, Release(w)
      PROVE  ~Held(j)'
  <2>1. token' = [token EXCEPT ![w] = NoToken] /\ NoToken.job # j
    BY <1>4 DEF Release, NoToken, JobId
  <2>2. \A v \in Worker : token'[v] = token[v] \/ token'[v].job # j
    BY <2>1 DEF JobInv, TypeInv, TypeOK
  <2>3. QED
    BY <1>1, <1>2, <2>2 DEF Held
<1>5. ASSUME NEW w \in Worker, ClaimLease(w)
      PROVE  ~Held(j)'
  <2>1. PICK c \in scan[w] : ClaimLease(w)!1!(c)
    BY <1>5 DEF ClaimLease
  <2>2. c.job \in JobId /\ c.fence \in Nat /\ jobs[c.job].fence = c.fence
    BY <2>1 DEF JobInv, TypeInv, TypeOK, Snapshot, CasHolds
  <2>3. \A v \in Worker :
          token'[v] = token[v] \/ token'[v] = [job |-> c.job, fence |-> c.fence + 1]
    BY <2>1 DEF JobInv, TypeInv, TypeOK
  <2>4. c.fence + 1 # c.fence
    BY <2>2
  <2>5. \A v \in Worker : token'[v] # [job |-> j, fence |-> jobs[j].fence]
    BY <1>2, <2>2, <2>3, <2>4
  <2>6. QED
    BY <1>1, <2>5 DEF Held
<1>6. QED
  BY <1>3, <1>4, <1>5, TokenStep

\* A job stays in its scope.
LEMMA ScopeStays ==
  ASSUME JobInv, [Next]_vars, NEW j \in JobId, Exists(j)
  PROVE  JobScope(j)' = JobScope(j)
<1>1. jobs'[j].intent = jobs[j].intent
  <2>1. ASSUME NEW k \in JobId, RowStep(k)
        PROVE  jobs'[j].intent = jobs[j].intent
    BY <2>1 DEF RowStep, Accepted, Leased, Touched, Succeeded, Retried, Stopped, Fixed,
       Exists
  <2>2. QED
    BY <2>1, StepEffect
<1>2. QED
  BY <1>1 DEF JobScope

\* An abandoned job stays abandoned until an operator stops it.
LEMMA AbandonedStays ==
  ASSUME JobInv, [Next]_vars, ~\E o \in Operator : OperatorCommit(o),
         NEW j \in JobId, Abandoned(j)
  PROVE  Abandoned(j)'
<1>1. OutOfReach(j) /\ Exhausted(j)
  BY DEF OutOfReach, Abandoned, Exhausted, Live
<1>2. jobs[j] \in Job
  BY DEF JobInv, TypeInv, TypeOK
<1>3. Exhausted(j)'
  BY <1>1, <1>2, RowOutOfReach DEF Exhausted, Job
<1>4. QED
  BY <1>1, <1>3, StaysUnheld DEF Abandoned

\* The rows in front of a starved job stay in front of it.
LEMMA AheadStays ==
  ASSUME JobInv, [Next]_vars, ~\E o \in Operator : OperatorCommit(o),
         NEW w \in Worker, NEW j \in JobId
  PROVE  Cardinality(Ahead(w, j)) <= Cardinality(Ahead(w, j)')
<1>1. Ahead(w, j) \subseteq Ahead(w, j)'
  <2> SUFFICES ASSUME NEW k \in Ahead(w, j) PROVE k \in Ahead(w, j)'
    OBVIOUS
  <2>1. k \in JobId /\ k < j /\ Abandoned(k) /\ JobScope(k) \in Grant[w]
    BY DEF Ahead
  <2>2. Abandoned(k)' /\ JobScope(k)' = JobScope(k)
    BY <2>1, AbandonedStays, ScopeStays DEF Abandoned, Exhausted, Exists
  <2>3. QED
    BY <2>1, <2>2 DEF Ahead
<1>2. IsFiniteSet(JobId)
  BY BoundsAssumption, FS_Interval DEF JobId
<1>3. IsFiniteSet(Ahead(w, j)')
  BY <1>2, FS_Subset DEF Ahead
<1>4. QED
  BY <1>1, <1>3, FS_Subset

\* A scan that abandoned rows fill does not return the jobs behind them.
LEMMA HiddenFromScan ==
  ASSUME JobInv, NEW w \in Worker, NEW j \in JobId,
         Cardinality(Ahead(w, j)) >= ScanLimit
  PROVE  j \notin Oldest(Candidates(w))
<1> DEFINE older == {k \in Candidates(w) : k < j}
<1>1. Ahead(w, j) \subseteq older
  BY DEF Ahead, Abandoned, Exhausted, Candidates, Eligible, Exists
<1>2. IsFiniteSet(older)
  <2>1. IsFiniteSet(JobId)
    BY BoundsAssumption, FS_Interval DEF JobId
  <2>2. older \subseteq JobId
    BY DEF Candidates
  <2>3. QED
    BY <2>1, <2>2, FS_Subset
<1>3. /\ Cardinality(Ahead(w, j)) <= Cardinality(older)
      /\ Cardinality(Ahead(w, j)) \in Nat /\ Cardinality(older) \in Nat
  BY <1>1, <1>2, FS_Subset, FS_CardinalityType
<1>4. ~(Cardinality(older) < ScanLimit)
  BY <1>3, BoundsAssumption
<1>5. QED
  BY <1>4 DEF Oldest

\* A scan only shrinks until its slot scans again.
LEMMA ScansShrink ==
  ASSUME JobInv, [Next]_vars, NEW w \in Worker
  PROVE  scan'[w] \subseteq scan[w] \/ ClaimScan(w)
<1>1. scan \in [Worker -> SUBSET Snapshot]
  BY DEF JobInv, TypeInv, TypeOK
<1>2. ASSUME NEW v \in Worker, Claim(v)
      PROVE  scan'[w] \subseteq scan[w] \/ ClaimScan(w)
  BY <1>1, <1>2 DEF Claim, ClaimScan, ClaimExpire, ClaimSkip, ClaimLease, ClaimNothing
<1>3. UNCHANGED scan \/ \E v \in Worker : Claim(v)
  BY DEF Next, vars, Enqueue, Renew, Checkpoint, Settle, CompleteRead, FailRead, Prepare,
     CompleteCommit, CompleteReject, FailRetry, FailTerminal, FailReject, Crash, Release,
     Operate, CancelRead, SupersedeRead, OperatorCommit, Clock, LeaseElapses,
     BackoffElapses, DeadlinePasses, Revise, Erase
<1>4. QED
  BY <1>2, <1>3

\* A starved job stays starved until an operator stops a job ahead of it.
LEMMA StarvedStays ==
  ASSUME JobInv, [Next]_vars, ~\E o \in Operator : OperatorCommit(o),
         NEW j \in JobId, jobs[j].state \in Live, Starved(j)
  PROVE  Starved(j)'
<1>1. OutOfReach(j) /\ Exists(j)
  BY DEF OutOfReach, Starved, Exists, Live
<1>2. ~Held(j)'
  BY <1>1, StaysUnheld
<1>3. JobScope(j)' = JobScope(j)
  BY <1>1, ScopeStays
<1>4. ASSUME NEW w \in Worker, JobScope(j)' \in Grant[w]
      PROVE  Cardinality(Ahead(w, j)') >= ScanLimit
  <2>1. Cardinality(Ahead(w, j)) >= ScanLimit
    BY <1>3, <1>4 DEF Starved
  <2>2. Cardinality(Ahead(w, j)) <= Cardinality(Ahead(w, j)')
    BY AheadStays
  <2>3. IsFiniteSet(JobId)
    BY BoundsAssumption, FS_Interval DEF JobId
  <2>4. Cardinality(Ahead(w, j)) \in Nat /\ Cardinality(Ahead(w, j)') \in Nat
    BY <2>3, FS_Subset, FS_CardinalityType DEF Ahead
  <2>5. QED
    BY <2>1, <2>2, <2>4, BoundsAssumption
<1>5. ASSUME NEW w \in Worker, NEW c \in scan'[w]
      PROVE  c.job # j
  <2>1. \A v \in Worker : \A d \in scan[v] : d.job # j
    BY DEF Starved
  <2>2. CASE scan'[w] \subseteq scan[w]
    BY <1>5, <2>1, <2>2
  <2>3. CASE ClaimScan(w)
    <3>1. scan'[w] =
            {[job |-> k, state |-> jobs[k].state, fence |-> jobs[k].fence,
              attempts |-> jobs[k].attempts] : k \in Oldest(Candidates(w))}
      BY <2>3 DEF ClaimScan, JobInv, TypeInv, TypeOK
    <3>2. PICK k \in Oldest(Candidates(w)) :
            c = [job |-> k, state |-> jobs[k].state, fence |-> jobs[k].fence,
                 attempts |-> jobs[k].attempts]
      BY <1>5, <3>1
    <3>3. c.job = k /\ JobScope(k) \in Grant[w]
      BY <3>2 DEF Oldest, Candidates
    <3>4. CASE k = j
      <4>1. Cardinality(Ahead(w, j)) >= ScanLimit
        BY <3>3, <3>4 DEF Starved
      <4>2. QED
        BY <3>2, <3>4, <4>1, HiddenFromScan
    <3>5. QED
      BY <3>3, <3>4
  <2>4. scan'[w] \subseteq scan[w] \/ ClaimScan(w)
    BY ScansShrink
  <2>5. QED
    BY <2>2, <2>3, <2>4
<1>6. QED
  BY <1>2, <1>4, <1>5 DEF Starved

\* A waiting job waits until an operator commits: claims, sweeps, deadlines and
\* late holders never end its wait.
THEOREM OperatorsEndWaits == Spec => OnlyOperatorsEndTheWait
<1>1. JobInv /\ [Next]_vars =>
        [\A j \in JobId :
           Waits(j) => Waits(j)' \/ \E o \in Operator : OperatorCommit(o)]_vars
  <2> SUFFICES ASSUME JobInv, [Next]_vars, NEW j \in JobId, Waits(j),
                      ~\E o \in Operator : OperatorCommit(o)
               PROVE  Waits(j)'
    OBVIOUS
  <2>1. CASE Abandoned(j)
    <3>1. Abandoned(j)'
      BY <2>1, AbandonedStays
    <3>2. QED
      BY <3>1 DEF Waits, Abandoned, Exhausted, Live
  <2>2. CASE Starved(j)
    <3>1. Starved(j)' /\ OutOfReach(j)
      BY <2>2, StarvedStays DEF Waits, OutOfReach, Starved
    <3>2. jobs'[j].state = jobs[j].state
      <4>1. jobs[j] \in Job
        BY DEF JobInv, TypeInv, TypeOK
      <4>2. QED
        BY <3>1, <4>1, RowOutOfReach DEF Job
    <3>3. QED
      BY <3>1, <3>2 DEF Waits
  <2>3. QED
    BY <2>1, <2>2 DEF Waits
<1>2. QED
  BY <1>1, JobInvariant, PTL DEF Spec, OnlyOperatorsEndTheWait

-----------------------------------------------------------------------------
(***************************************************************************)
(* What a settlement leaves behind.  complete_job and fail_job write back  *)
(* the history, and the reason, of a row they read earlier; the draft is   *)
(* still true when the write lands because the fence has not moved.        *)
(***************************************************************************)

\* A history that fits n attempts: one entry per attempt at most, none for an
\* attempt that was not made, every attempt of the newest HistoryMax present,
\* and the newest closed exactly when no lease is open.
HistoryFits(h, n, open) ==
  /\ \A e \in h : e.fence \in 1..n
  /\ \A e, d \in h : e.fence = d.fence => e = d
  /\ \A f \in 1..n : n - f < HistoryMax => \E e \in h : e.fence = f
  /\ \A e \in h : e.fence = n => (e.ended <=> ~open)

\* A row whose history and reason are true of it.
Tells(r) ==
  /\ r.state \in Live \cup {"succeeded", "failed"} =>
       HistoryFits(r.history, r.fence, r.state = "leased")
  /\ r.reason # "none" <=> r.state \in Terminal \ {"succeeded"}
  /\ r.reason = "deadline" => r.deadline = "passed"
  /\ r.reason = "budget" => r.attempts = r.maxAttempts

\* What a draft says is true of its row for as long as its lease is the newest.
DraftTells(w) ==
  wpc[w] = "settling" =>
    LET r == jobs[token[w].job] IN
    /\ draft[w].outcome = "deadline" => r.deadline = "passed"
    /\ r.state = "leased" /\ r.fence = token[w].fence =>
         /\ HistoryFits(draft[w].history, r.fence, TRUE)
         /\ draft[w].outcome = "budget" => r.attempts = r.maxAttempts

SettleInv == /\ JobInv
             /\ \A j \in JobId : Tells(jobs[j])
             /\ \A w \in Worker : DraftTells(w)

\* A row that fits keeps its newest attempts.
LEMMA FitsKeepsNewest ==
  ASSUME NEW h \in SUBSET Attempt, NEW n \in Nat, NEW open \in BOOLEAN,
         HistoryFits(h, n, open)
  PROVE  {e.fence : e \in Newest(h, n)} = {f \in 1..n : n - f < HistoryMax}
  BY DEF HistoryFits, Newest

\* Closing a history that fits an open attempt leaves one that fits it closed:
\* the entries above a fence f are at most n - f, so trimming to the bound
\* takes none of the newest HistoryMax.
LEMMA CloseHistoryFits ==
  ASSUME NEW h \in SUBSET Attempt, NEW n \in Nat, HistoryFits(h, n, TRUE)
  PROVE  HistoryFits(CloseHistory(h), n, FALSE)
<1> DEFINE last == {e \in h : \A d \in h : d.fence <= e.fence}
           closed == (h \ last) \cup {[e EXCEPT !.ended = TRUE] : e \in last}
           Above(e) == {d \in closed : d.fence > e.fence}
<1>1. CloseHistory(h) = {e \in closed : Cardinality(Above(e)) < HistoryMax}
  BY DEF CloseHistory
<1>2. \A e \in h : e.fence \in 1..n /\ e.fence \in Nat
  BY DEF HistoryFits, Attempt
<1>3. \A e, d \in h : e.fence = d.fence => e = d
  BY DEF HistoryFits
<1>4. \A c \in closed : \E e \in h :
        c.fence = e.fence /\ (c = e \/ (e \in last /\ c = [e EXCEPT !.ended = TRUE] /\ c.ended))
  BY DEF Attempt
<1>5. \A e \in h : \E c \in closed : c.fence = e.fence
  <2> SUFFICES ASSUME NEW e \in h
               PROVE  \E c \in closed : c.fence = e.fence
    OBVIOUS
  <2>1. CASE e \in last
    <3>1. [e EXCEPT !.ended = TRUE] \in closed
      BY <2>1
    <3>2. [e EXCEPT !.ended = TRUE].fence = e.fence
      BY DEF Attempt
    <3>3. QED
      BY <3>1, <3>2
  <2>2. CASE e \notin last
    BY <2>2
  <2>3. QED
    BY <2>1, <2>2
<1>6. \A c \in closed : c.fence \in 1..n /\ c.fence \in Nat
  BY <1>2, <1>4
<1>7. \A c, d \in closed : c.fence = d.fence => c = d
  <2> SUFFICES ASSUME NEW c \in closed, NEW d \in closed, c.fence = d.fence
               PROVE  c = d
    OBVIOUS
  <2>1. PICK x \in h : c.fence = x.fence
          /\ (c = x \/ (x \in last /\ c = [x EXCEPT !.ended = TRUE]))
    BY <1>4
  <2>2. PICK y \in h : d.fence = y.fence
          /\ (d = y \/ (y \in last /\ d = [y EXCEPT !.ended = TRUE]))
    BY <1>4
  <2>3. x = y
    BY <1>3, <2>1, <2>2
  <2>4. CASE x \in last
    <3>1. \A z \in h \ last : z.fence # x.fence
      BY <1>3, <2>4
    <3>2. c \notin h \ last /\ d \notin h \ last
      BY <2>1, <2>2, <2>3, <3>1
    <3>3. PICK u \in last, v \in last :
            c = [u EXCEPT !.ended = TRUE] /\ d = [v EXCEPT !.ended = TRUE]
      BY <3>2
    <3>4. u.fence = v.fence
      BY <3>3 DEF Attempt
    <3>5. QED
      BY <1>3, <3>3, <3>4
  <2>5. CASE x \notin last
    BY <2>1, <2>2, <2>3, <2>5
  <2>6. QED
    BY <2>4, <2>5
<1>8. ASSUME NEW e \in h, e.fence = n
      PROVE  e \in last
  BY <1>2, <1>8
<1>9. \A c \in closed : c.fence = n => c.ended
  <2> SUFFICES ASSUME NEW c \in closed, c.fence = n
               PROVE  c.ended
    OBVIOUS
  <2>1. c \notin h \ last
    BY <1>8
  <2>2. PICK u \in last : c = [u EXCEPT !.ended = TRUE]
    BY <2>1
  <2>3. QED
    BY <2>2 DEF Attempt
<1>10. ASSUME NEW f \in 1..n, n - f < HistoryMax
       PROVE  \E c \in CloseHistory(h) : c.fence = f
  <2>1. PICK c \in closed : c.fence = f
    <3>1. PICK e \in h : e.fence = f
      BY <1>10 DEF HistoryFits
    <3>2. QED
      BY <1>5, <3>1
  <2>2. IsFiniteSet((f + 1)..n) /\ Cardinality((f + 1)..n) = n - f
    <3>1. f + 1 \in Int /\ n \in Int
      OBVIOUS
    <3>2. IsFiniteSet((f + 1)..n) /\ Cardinality((f + 1)..n)
            = IF f + 1 > n THEN 0 ELSE n - (f + 1) + 1
      BY <3>1, FS_Interval
    <3>3. QED
      BY <3>2
  <2> DEFINE fenceOf == [d \in Above(c) |-> d.fence]
  <2>3. fenceOf \in Injection(Above(c), (f + 1)..n)
    <3>1. \A d \in Above(c) : d.fence \in (f + 1)..n
      BY <1>6, <2>1
    <3>2. fenceOf \in [Above(c) -> (f + 1)..n]
      BY <3>1
    <3>3. \A a, b \in Above(c) : fenceOf[a] = fenceOf[b] => a = b
      BY <1>7
    <3>4. QED
      BY <3>2, <3>3 DEF Injection, IsInjective
  <2>4. IsFiniteSet(Above(c)) /\ Cardinality(Above(c)) <= n - f
    BY <2>2, <2>3, FS_Injection DEF ExistsInjection
  <2>5. Cardinality(Above(c)) \in Nat
    BY <2>4, FS_CardinalityType
  <2>6. Cardinality(Above(c)) < HistoryMax
    BY <1>10, <2>4, <2>5, BoundsAssumption
  <2>7. QED
    BY <1>1, <2>1, <2>6
<1>11. QED
  BY <1>1, <1>6, <1>7, <1>9, <1>10 DEF HistoryFits

\* A lease opened on a row whose history fits leaves one that fits.
LEMMA OpenHistoryFits ==
  ASSUME NEW h \in SUBSET Attempt, NEW n \in Nat, NEW open \in BOOLEAN,
         HistoryFits(h, n, open)
  PROVE  HistoryFits(h \cup {[fence |-> n + 1, ended |-> FALSE]}, n + 1, TRUE)
<1> DEFINE e == [fence |-> n + 1, ended |-> FALSE]
<1>1. e.fence = n + 1 /\ ~e.ended
  OBVIOUS
<1>2. \A d \in h : d.fence \in 1..n /\ d.fence # n + 1 /\ d.fence \in 1..(n + 1)
  BY DEF HistoryFits
<1>3. \A f \in 1..(n + 1) : n + 1 - f < HistoryMax =>
        \E d \in h \cup {e} : d.fence = f
  <2> SUFFICES ASSUME NEW f \in 1..(n + 1), n + 1 - f < HistoryMax
               PROVE  \E d \in h \cup {e} : d.fence = f
    OBVIOUS
  <2>1. CASE f = n + 1
    BY <1>1, <2>1
  <2>2. CASE f # n + 1
    <3>1. f \in 1..n /\ n - f < HistoryMax
      BY <2>2, BoundsAssumption
    <3>2. QED
      BY <3>1 DEF HistoryFits
  <2>3. QED
    BY <2>1, <2>2
<1>4. \A c, d \in h \cup {e} : c.fence = d.fence => c = d
  BY <1>1, <1>2 DEF HistoryFits
<1>5. \A d \in h \cup {e} : d.fence \in 1..(n + 1)
                            /\ (d.fence = n + 1 => (d.ended <=> ~TRUE))
  BY <1>1, <1>2
<1>6. QED
  BY <1>3, <1>4, <1>5 DEF HistoryFits

\* A row freshly enqueued tells the truth: it has no attempts and no reason.
LEMMA NewRowTells ==
  ASSUME NEW i, NEW b, NEW d
  PROVE  Tells([NoJob EXCEPT !.state = "pending", !.intent = i, !.slot = i,
                             !.maxAttempts = b, !.deadline = d])
  BY DEF NoJob, Tells, HistoryFits, Terminal, Live

(***************************************************************************)
(* What one step may do to the history and the reason of a row.            *)
(***************************************************************************)

\* A passed deadline stays passed.
DeadlineStays(j) == jobs[j].deadline = "passed" => jobs'[j].deadline = "passed"

\* A lease opens an attempt.
Opens(j) ==
  /\ jobs[j].state \in Live /\ jobs'[j].state = "leased"
  /\ jobs'[j].fence = jobs[j].fence + 1 /\ jobs'[j].reason = jobs[j].reason
  /\ jobs'[j].history
       = jobs[j].history \cup {[fence |-> jobs[j].fence + 1, ended |-> FALSE]}

\* A renewal, a checkpoint or the passing of time leaves both alone.
Keeps(j) ==
  /\ jobs[j].state \in Live /\ jobs'[j].state = jobs[j].state
  /\ jobs'[j].fence = jobs[j].fence /\ jobs'[j].reason = jobs[j].reason
  /\ jobs'[j].history = jobs[j].history

\* The deadline sweep of a claim fails a job that holds no lease.
Sweeps(j) ==
  /\ jobs[j].state = "pending" /\ jobs'[j].state = "failed"
  /\ jobs[j].deadline = "passed" /\ jobs'[j].reason = "deadline"
  /\ jobs'[j].fence = jobs[j].fence /\ jobs'[j].history = jobs[j].history

\* The holder settles with the history, and the reason, that it drafted.
Settles(j, w) ==
  /\ wpc[w] = "settling" /\ token[w].job = j
  /\ jobs[j].state = "leased" /\ jobs[j].fence = token[w].fence
  /\ jobs'[j].fence = jobs[j].fence
  /\ jobs'[j].attempts = jobs[j].attempts
  /\ jobs'[j].maxAttempts = jobs[j].maxAttempts
  /\ jobs'[j].history = CloseHistory(draft[w].history)
  /\ \/ jobs'[j].state = "succeeded" /\ jobs'[j].reason = jobs[j].reason
     \/ jobs'[j].state = "pending" /\ jobs'[j].reason = "none"
     \/ /\ jobs'[j].state = "failed" /\ jobs'[j].reason = draft[w].outcome
        /\ draft[w].outcome \in {"deadline", "budget", "nonretryable"}

\* An operator stops the job, with whatever history it had read.
Overrules(j) ==
  /\ jobs[j].state \in Live /\ jobs'[j].state \in {"cancelled", "superseded"}
  /\ jobs'[j].reason = "operator"

SettleStep(j) ==
  /\ \A k \in JobId \ {j} : jobs'[k] = jobs[k]
  /\ \/ jobs[j].state = "absent" /\ Tells(jobs'[j]) /\ jobs'[j].fence = 0
     \/ /\ DeadlineStays(j)
        /\ \/ Opens(j) \/ Keeps(j) \/ Sweeps(j) \/ Overrules(j)
           \/ \E w \in Worker : Settles(j, w)

\* Every step touches the history of at most one row, in one of these ways.
LEMMA SettleEffect ==
  ASSUME TypeInv, [Next]_vars
  PROVE  UNCHANGED jobs \/ \E j \in JobId : SettleStep(j)
<1> SUFFICES ASSUME ~UNCHANGED jobs
             PROVE  \E j \in JobId : SettleStep(j)
  OBVIOUS
<1>1. jobs \in [JobId -> Job]
  BY DEF TypeInv, TypeOK
<1>2. ASSUME NEW i \in Intent, NEW b \in 1..MaxAttempts, NEW d \in {"none", "ahead"},
             Enqueue(i, b, d)
      PROVE  \E j \in JobId : SettleStep(j)
  <2>1. PICK j \in JobId : Enqueue(i, b, d)!3!(j)
    BY <1>2 DEF Enqueue
  <2>2. /\ jobs'[j] = [NoJob EXCEPT !.state = "pending", !.intent = i, !.slot = i,
                                    !.maxAttempts = b, !.deadline = d]
        /\ \A k \in JobId \ {j} : jobs'[k] = jobs[k]
    BY <2>1, WriteRow
  <2>3. jobs[j].state = "absent" /\ jobs'[j].fence = 0
    BY <2>1, <2>2 DEF Exists, NoJob
  <2>4. Tells(jobs'[j])
    <3> DEFINE row == [NoJob EXCEPT !.state = "pending", !.intent = i, !.slot = i,
                                    !.maxAttempts = b, !.deadline = d]
    <3>1. Tells(row)
      BY NewRowTells
    <3>2. jobs'[j] = row
      BY <2>2
    <3> HIDE DEF row
    <3>3. QED
      BY <3>1, <3>2
  <2>5. QED
    BY <2>2, <2>3, <2>4 DEF SettleStep
<1>3. ASSUME NEW w \in Worker, ClaimExpire(w)
      PROVE  \E j \in JobId : SettleStep(j)
  <2>1. PICK c \in scan[w] : ClaimExpire(w)!1!(c)
    BY <1>3 DEF ClaimExpire
  <2>2. c.job \in JobId
    BY DEF TypeInv, TypeOK, Snapshot
  <2>3. /\ jobs[c.job].state = "pending" /\ jobs[c.job].deadline = "passed"
        /\ Write(c.job, [jobs[c.job] EXCEPT
                 !.state = "failed", !.reason = "deadline", !.slot = None])
    BY <2>1 DEF PastDeadline
  <2>4. /\ jobs'[c.job] = [jobs[c.job] EXCEPT
                 !.state = "failed", !.reason = "deadline", !.slot = None]
        /\ \A k \in JobId \ {c.job} : jobs'[k] = jobs[k]
    BY <2>2, <2>3, WriteRow
  <2>5. jobs[c.job] \in Job
    BY <1>1, <2>2
  <2>6. Sweeps(c.job) /\ DeadlineStays(c.job)
    BY <2>3, <2>4, <2>5 DEF Sweeps, DeadlineStays, Job
  <2>7. QED
    BY <2>2, <2>4, <2>6 DEF SettleStep
<1>4. ASSUME NEW w \in Worker, ClaimLease(w)
      PROVE  \E j \in JobId : SettleStep(j)
  <2>1. PICK c \in scan[w] : ClaimLease(w)!1!(c)
    BY <1>4 DEF ClaimLease
  <2>2. c.job \in JobId
    BY DEF TypeInv, TypeOK, Snapshot
  <2>3. jobs[c.job] \in Job
    BY <1>1, <2>2
  <2>4. /\ jobs'[c.job] = [jobs[c.job] EXCEPT
            !.state = "leased", !.fence = @ + 1, !.attempts = @ + 1,
            !.owner = WorkerName[w], !.lease = "running", !.ready = TRUE,
            !.history = @ \cup {[fence |-> c.fence + 1, ended |-> FALSE]}]
        /\ \A k \in JobId \ {c.job} : jobs'[k] = jobs[k]
    BY <2>1, <2>2, WriteRow
  <2>5. jobs[c.job].state \in Live /\ jobs[c.job].fence = c.fence
    BY <2>1 DEF CasHolds, Eligible, Live
  <2>6. Opens(c.job) /\ DeadlineStays(c.job)
    BY <2>3, <2>4, <2>5 DEF Opens, DeadlineStays, Job
  <2>7. QED
    BY <2>2, <2>4, <2>6 DEF SettleStep
<1>5. ASSUME NEW w \in Worker, Renew(w) \/ Checkpoint(w)
      PROVE  \E j \in JobId : SettleStep(j)
  <2> DEFINE j == token[w].job
  <2>1. j \in JobId /\ jobs[j] \in Job /\ jobs[j].state = "leased"
    BY <1>1, <1>5 DEF TypeInv, HandlersOK, Renew, Checkpoint, HoldsLease
  <2>2. PICK row \in {[jobs[j] EXCEPT !.lease = "running"],
                      [jobs[j] EXCEPT !.checkpoint = token[w].fence]} : Write(j, row)
    BY <1>5 DEF Renew, Checkpoint
  <2>3. jobs'[j] = row /\ \A k \in JobId \ {j} : jobs'[k] = jobs[k]
    BY <2>1, <2>2, WriteRow
  <2>4. Keeps(j) /\ DeadlineStays(j)
    BY <2>1, <2>2, <2>3 DEF Keeps, DeadlineStays, Live, Job
  <2>5. QED
    BY <2>1, <2>3, <2>4 DEF SettleStep
<1>6. ASSUME NEW w \in Worker, CompleteCommit(w) \/ FailRetry(w) \/ FailTerminal(w)
      PROVE  \E j \in JobId : SettleStep(j)
  <2> DEFINE j == token[w].job
  <2>1. /\ j \in JobId /\ jobs[j] \in Job /\ wpc[w] = "settling"
        /\ jobs[j].state = "leased" /\ jobs[j].fence = token[w].fence
    BY <1>1, <1>6 DEF TypeInv, HandlersOK, CompleteCommit, FailRetry, FailTerminal, HoldsLease
  <2>2. CASE CompleteCommit(w)
    <3>1. /\ jobs'[j] = [jobs[j] EXCEPT
               !.state = "succeeded", !.result = token[w].fence, !.slot = None,
               !.history = CloseHistory(draft[w].history)]
          /\ \A k \in JobId \ {j} : jobs'[k] = jobs[k]
      BY <2>1, <2>2, WriteRow DEF CompleteCommit
    <3>2. Settles(j, w) /\ DeadlineStays(j)
      BY <2>1, <3>1 DEF Settles, DeadlineStays, Job
    <3>3. QED
      BY <2>1, <3>1, <3>2 DEF SettleStep
  <2>3. CASE FailRetry(w)
    <3>1. /\ jobs'[j] = [jobs[j] EXCEPT
               !.state = "pending", !.ready = FALSE, !.lease = "none", !.owner = None,
               !.slot = jobs[j].intent, !.reason = "none",
               !.history = CloseHistory(draft[w].history)]
          /\ \A k \in JobId \ {j} : jobs'[k] = jobs[k]
      BY <2>1, <2>3, WriteRow DEF FailRetry
    <3>2. Settles(j, w) /\ DeadlineStays(j)
      BY <2>1, <3>1 DEF Settles, DeadlineStays, Job
    <3>3. QED
      BY <2>1, <3>1, <3>2 DEF SettleStep
  <2>4. CASE FailTerminal(w)
    <3>1. /\ jobs'[j] = [jobs[j] EXCEPT
               !.state = "failed", !.ready = TRUE, !.lease = "none", !.owner = None,
               !.slot = None, !.reason = draft[w].outcome,
               !.history = CloseHistory(draft[w].history)]
          /\ \A k \in JobId \ {j} : jobs'[k] = jobs[k]
      BY <2>1, <2>4, WriteRow DEF FailTerminal
    <3>2. draft[w].outcome \in {"deadline", "budget", "nonretryable"}
      BY <2>4 DEF FailTerminal
    <3>3. Settles(j, w) /\ DeadlineStays(j)
      BY <2>1, <3>1, <3>2 DEF Settles, DeadlineStays, Job
    <3>4. QED
      BY <2>1, <3>1, <3>3 DEF SettleStep
  <2>5. QED
    BY <1>6, <2>2, <2>3, <2>4
<1>7. ASSUME NEW o \in Operator, OperatorCommit(o)
      PROVE  \E j \in JobId : SettleStep(j)
  <2> DEFINE r == op[o]
  <2>1. r.job \in JobId /\ r.to \in {"cancelled", "superseded"} /\ jobs[r.job] \in Job
    BY <1>1, <1>7 DEF TypeInv, HandlersOK, OperatorCommit
  <2>2. /\ jobs[r.job].state \in Live
        /\ Write(r.job, [jobs[r.job] EXCEPT
            !.state = r.to, !.replacedBy = r.replacement, !.reason = "operator",
            !.slot = None, !.lease = "none", !.owner = None,
            !.history = CloseHistory(r.history)])
    BY <1>7 DEF OperatorCommit
  <2>3. /\ jobs'[r.job] = [jobs[r.job] EXCEPT
            !.state = r.to, !.replacedBy = r.replacement, !.reason = "operator",
            !.slot = None, !.lease = "none", !.owner = None,
            !.history = CloseHistory(r.history)]
        /\ \A k \in JobId \ {r.job} : jobs'[k] = jobs[k]
    BY <2>1, <2>2, WriteRow
  <2>4. Overrules(r.job) /\ DeadlineStays(r.job)
    BY <2>1, <2>2, <2>3 DEF Overrules, DeadlineStays, Job
  <2>5. QED
    BY <2>1, <2>3, <2>4 DEF SettleStep
<1>8. ASSUME NEW j \in JobId, Clock(j)
      PROVE  \E k \in JobId : SettleStep(k)
  <2>1. jobs[j].state \in Live /\ jobs[j] \in Job
    BY <1>1, <1>8 DEF Clock, LeaseElapses, BackoffElapses, DeadlinePasses, Live
  <2>2. PICK row \in {[jobs[j] EXCEPT !.lease = "expired"], [jobs[j] EXCEPT !.ready = TRUE],
                      [jobs[j] EXCEPT !.deadline = "passed"]} : Write(j, row)
    BY <1>8 DEF Clock, LeaseElapses, BackoffElapses, DeadlinePasses
  <2>3. jobs'[j] = row /\ \A k \in JobId \ {j} : jobs'[k] = jobs[k]
    BY <2>2, WriteRow
  <2>4. Keeps(j) /\ DeadlineStays(j)
    BY <2>1, <2>2, <2>3 DEF Keeps, DeadlineStays, Job
  <2>5. QED
    BY <2>3, <2>4 DEF SettleStep
<1>9. QED
  BY <1>2, <1>3, <1>4, <1>5, <1>6, <1>7, <1>8
  DEF Next, vars, Claim, Settle, Operate, ClaimScan, ClaimSkip, ClaimNothing,
      CompleteRead, FailRead, Prepare, CompleteReject, FailReject, Crash,
      CancelRead, SupersedeRead, Revise, Erase

\* Every row goes on telling the truth.
LEMMA TellsStep ==
  ASSUME SettleInv, JobInv', [Next]_vars
  PROVE  \A j \in JobId : Tells(jobs'[j])
<1> USE DEF SettleInv, JobInv
<1>1. ASSUME NEW j \in JobId, SettleStep(j), jobs[j].state # "absent"
      PROVE  Tells(jobs'[j])
  <2>1. /\ jobs[j] \in Job /\ jobs[j].fence \in Nat /\ jobs[j].history \in SUBSET Attempt
        /\ Tells(jobs[j]) /\ DeadlineStays(j)
    BY <1>1 DEF TypeInv, TypeOK, Job, SettleStep
  <2>2. CASE Opens(j)
    <3>1. HistoryFits(jobs[j].history, jobs[j].fence, jobs[j].state = "leased")
      BY <2>1, <2>2 DEF Opens, Tells
    <3>2. HistoryFits(jobs'[j].history, jobs'[j].fence, TRUE)
      BY <2>1, <2>2, <3>1, OpenHistoryFits DEF Opens
    <3>3. jobs'[j].reason = "none"
      BY <2>1, <2>2 DEF Opens, Tells, Live, Terminal
    <3>4. QED
      BY <2>2, <3>2, <3>3 DEF Opens, Tells, Terminal
  <2>3. CASE Keeps(j)
    <3>1. HistoryFits(jobs[j].history, jobs[j].fence, jobs[j].state = "leased")
      BY <2>1, <2>3 DEF Keeps, Tells
    <3>2. HistoryFits(jobs'[j].history, jobs'[j].fence, jobs'[j].state = "leased")
      BY <2>3, <3>1 DEF Keeps
    <3>3. jobs'[j].reason = "none"
      BY <2>1, <2>3 DEF Keeps, Tells, Live, Terminal
    <3>4. QED
      BY <2>3, <3>2, <3>3 DEF Keeps, Tells, Live, Terminal
  <2>4. CASE Sweeps(j)
    <3>1. HistoryFits(jobs[j].history, jobs[j].fence, FALSE)
      BY <2>1, <2>4 DEF Sweeps, Tells, Live
    <3>2. HistoryFits(jobs'[j].history, jobs'[j].fence, FALSE)
      BY <2>4, <3>1 DEF Sweeps
    <3>3. jobs'[j].deadline = "passed"
      BY <2>1, <2>4 DEF Sweeps, DeadlineStays
    <3>4. QED
      BY <2>4, <3>2, <3>3 DEF Sweeps, Tells, Terminal
  <2>5. CASE Overrules(j)
    BY <2>5 DEF Overrules, Tells, Live, Terminal
  <2>6. ASSUME NEW w \in Worker, Settles(j, w)
        PROVE  Tells(jobs'[j])
    <3>1. DraftTells(w) /\ draft[w].history \in SUBSET Attempt
      BY DEF TypeInv, TypeOK, Draft
    <3>2. /\ HistoryFits(draft[w].history, jobs[j].fence, TRUE)
          /\ draft[w].outcome = "budget" => jobs[j].attempts = jobs[j].maxAttempts
          /\ draft[w].outcome = "deadline" => jobs[j].deadline = "passed"
      BY <2>6, <3>1 DEF DraftTells, Settles
    <3>3. HistoryFits(CloseHistory(draft[w].history), jobs[j].fence, FALSE)
      BY <2>1, <3>1, <3>2, CloseHistoryFits
    <3>4. HistoryFits(jobs'[j].history, jobs'[j].fence, FALSE)
      BY <2>6, <3>3 DEF Settles
    <3>5. jobs[j].reason = "none"
      BY <2>1, <2>6 DEF Settles, Tells, Terminal
    <3>6. CASE jobs'[j].state = "succeeded" /\ jobs'[j].reason = jobs[j].reason
      BY <3>4, <3>5, <3>6 DEF Tells
    <3>7. CASE jobs'[j].state = "pending" /\ jobs'[j].reason = "none"
      BY <3>4, <3>7 DEF Tells, Terminal
    <3>8. CASE /\ jobs'[j].state = "failed" /\ jobs'[j].reason = draft[w].outcome
               /\ draft[w].outcome \in {"deadline", "budget", "nonretryable"}
      <4>1. jobs'[j].reason # "none"
        BY <3>8
      <4>2. jobs'[j].reason = "deadline" => jobs'[j].deadline = "passed"
        BY <2>1, <3>2, <3>8 DEF DeadlineStays
      <4>3. jobs'[j].reason = "budget" => jobs'[j].attempts = jobs'[j].maxAttempts
        BY <2>6, <3>2, <3>8 DEF Settles
      <4>4. QED
        BY <3>4, <3>8, <4>1, <4>2, <4>3 DEF Tells, Terminal
    <3>9. QED
      BY <2>6, <3>6, <3>7, <3>8 DEF Settles
  <2>7. QED
    BY <1>1, <2>2, <2>3, <2>4, <2>5, <2>6 DEF SettleStep
<1>2. ASSUME NEW j \in JobId, SettleStep(j)
      PROVE  \A k \in JobId : Tells(jobs'[k])
  <2>1. Tells(jobs'[j])
    <3>1. CASE jobs[j].state = "absent"
      BY <1>2, <3>1 DEF SettleStep, Opens, Keeps, Sweeps, Settles, Overrules, Live
    <3>2. CASE jobs[j].state # "absent"
      BY <1>1, <1>2, <3>2
    <3>3. QED
      BY <3>1, <3>2
  <2>2. QED
    BY <1>2, <2>1 DEF SettleStep
<1>3. CASE UNCHANGED jobs
  BY <1>3
<1>4. QED
  BY <1>2, <1>3, SettleEffect

\* A row leased under a fence that a token still names was leased under it
\* before the step, with the same attempts and the same budget.
LEMMA LeaseWasOpen ==
  ASSUME JobInv, JobInv', [Next]_vars, NEW w \in Worker, wpc[w] = "settling",
         jobs'[token[w].job].state = "leased",
         jobs'[token[w].job].fence = token[w].fence
  PROVE  LET j == token[w].job IN
         /\ jobs[j].state = "leased" /\ jobs[j].fence = token[w].fence
         /\ jobs'[j].attempts = jobs[j].attempts
         /\ jobs'[j].maxAttempts = jobs[j].maxAttempts
<1> USE DEF JobInv
<1> DEFINE j == token[w].job
<1>1. j \in JobId /\ j # 0
  BY DEF TypeInv, HandlersOK, JobId
<1>2. jobs[j].state # "absent" /\ token[w].fence <= jobs[j].fence
  BY <1>1, TokenRowExists DEF OneHolderPerFence
<1>3. /\ jobs[j].fence <= jobs'[j].fence
      /\ jobs'[j].maxAttempts = jobs[j].maxAttempts
  BY <1>1, <1>2, FenceStep
<1>4. token[w].fence \in Nat /\ jobs[j].fence \in Nat /\ jobs'[j].fence \in Nat
  BY <1>1, RowNumbers DEF TypeInv, TypeOK, Token
<1>5. jobs[j].fence = token[w].fence /\ jobs'[j].fence = jobs[j].fence
  BY <1>2, <1>3, <1>4
<1>6. jobs'[j].attempts = jobs'[j].fence /\ jobs[j].attempts = jobs[j].fence
  BY <1>1 DEF AttemptsWithinBudget
<1>7. jobs[j].state = "leased"
  <2>1. CASE UNCHANGED jobs
    BY <2>1
  <2>2. ASSUME NEW k \in JobId, RowStep(k)
        PROVE  jobs[j].state = "leased"
    <3>1. CASE k # j
      BY <1>1, <2>2, <3>1 DEF RowStep
    <3>2. CASE k = j
      BY <1>2, <1>4, <1>5, <2>2, <3>2
      DEF RowStep, Accepted, Leased, Touched, Succeeded, Retried, Stopped
    <3>3. QED
      BY <3>1, <3>2
  <2>3. QED
    BY <2>1, <2>2, StepEffect
<1>8. QED
  BY <1>3, <1>5, <1>6, <1>7

\* A passed deadline of a row that exists stays passed.
LEMMA DeadlineStep ==
  ASSUME TypeInv, [Next]_vars, NEW j \in JobId, jobs[j].state # "absent"
  PROVE  DeadlineStays(j)
<1>1. CASE UNCHANGED jobs
  BY <1>1 DEF DeadlineStays
<1>2. ASSUME NEW k \in JobId, SettleStep(k)
      PROVE  DeadlineStays(j)
  BY <1>2 DEF SettleStep, DeadlineStays
<1>3. QED
  BY <1>1, <1>2, SettleEffect

\* Every draft goes on telling the truth while its lease is the newest.
LEMMA DraftTellsStep ==
  ASSUME SettleInv, JobInv', [Next]_vars
  PROVE  \A w \in Worker : DraftTells(w)'
<1> USE DEF SettleInv
<1> SUFFICES ASSUME NEW w \in Worker, wpc'[w] = "settling"
             PROVE  DraftTells(w)'
  BY DEF DraftTells
<1> DEFINE j == token[w].job
<1>1. token'[w] = token[w]
  BY DraftEffect
<1>2. j \in JobId /\ jobs[j].state # "absent"
  <2>1. j \in JobId
    BY <1>1 DEF JobInv, TypeInv, HandlersOK
  <2>2. QED
    BY <2>1, TokenRowExists, 0 \notin JobId DEF JobId
<1>3. CASE wpc[w] = "settling" /\ draft'[w] = draft[w]
  <2>1. draft[w].outcome = "deadline" => jobs'[j].deadline = "passed"
    BY <1>2, <1>3, DeadlineStep DEF JobInv, DraftTells, DeadlineStays
  <2>2. ASSUME jobs'[j].state = "leased", jobs'[j].fence = token[w].fence
        PROVE  /\ HistoryFits(draft[w].history, jobs'[j].fence, TRUE)
               /\ draft[w].outcome = "budget" => jobs'[j].attempts = jobs'[j].maxAttempts
    <3>1. /\ jobs[j].state = "leased" /\ jobs[j].fence = token[w].fence
          /\ jobs'[j].attempts = jobs[j].attempts
          /\ jobs'[j].maxAttempts = jobs[j].maxAttempts
      BY <1>3, <2>2, LeaseWasOpen
    <3>2. QED
      BY <1>3, <2>2, <3>1 DEF DraftTells
  <2>3. QED
    BY <1>1, <1>3, <2>1, <2>2 DEF DraftTells
<1>4. ASSUME UNCHANGED jobs, NEW outcome,
             outcome = "deadline" => jobs[j].deadline = "passed",
             outcome = "budget" => jobs[j].attempts >= jobs[j].maxAttempts,
             Prepare(w, outcome)
      PROVE  DraftTells(w)'
  <2>1. draft'[w] = [outcome |-> outcome, history |-> jobs[j].history]
    BY <1>4 DEF Prepare, JobInv, TypeInv, TypeOK
  <2>2. outcome = "budget" => jobs[j].attempts = jobs[j].maxAttempts
    <3>1. jobs[j].attempts <= jobs[j].maxAttempts
      BY <1>2 DEF JobInv, AttemptsWithinBudget
    <3>2. jobs[j].attempts \in Nat /\ jobs[j].maxAttempts \in Nat
      BY <1>2 DEF JobInv, TypeInv, TypeOK, Job
    <3>3. QED
      BY <1>4, <3>1, <3>2
  <2>3. jobs[j].state = "leased" => HistoryFits(jobs[j].history, jobs[j].fence, TRUE)
    BY <1>2 DEF Tells, Live
  <2>4. /\ draft'[w].outcome = outcome /\ draft'[w].history = jobs[j].history
        /\ jobs'[token'[w].job] = jobs[j]
    BY <1>1, <1>4, <2>1
  <2>5. QED
    BY <1>4, <2>2, <2>3, <2>4 DEF DraftTells
<1>5. CASE UNCHANGED jobs /\ CompleteRead(w)
  BY <1>4, <1>5 DEF CompleteRead
<1>6. ASSUME UNCHANGED jobs, NEW retryable \in BOOLEAN, FailRead(w, retryable)
      PROVE  DraftTells(w)'
  <2> DEFINE outcome == FailOutcome(jobs[j], retryable)
  <2>1. /\ outcome = "deadline" => jobs[j].deadline = "passed"
        /\ outcome = "budget" => jobs[j].attempts >= jobs[j].maxAttempts
    BY DEF FailOutcome
  <2>2. Prepare(w, outcome)
    BY <1>6 DEF FailRead
  <2>3. QED
    BY <1>4, <1>6, <2>1, <2>2
<1>7. QED
  BY <1>3, <1>5, <1>6, DraftEffect

\* The empty journal has settled nothing.
LEMMA SettleInit == Init => SettleInv
<1> SUFFICES ASSUME Init PROVE SettleInv
  OBVIOUS
<1>1. Tells(NoJob)
  BY DEF Tells, NoJob, Live, Terminal
<1>2. \A j \in JobId : Tells(jobs[j])
  BY <1>1 DEF Init
<1>3. \A w \in Worker : DraftTells(w)
  BY DEF Init, DraftTells
<1>4. QED
  BY <1>2, <1>3, JobInvInit DEF SettleInv

\* Histories, reasons and drafts stay true through every step.
LEMMA SettleInvStep == SettleInv /\ [Next]_vars => SettleInv'
<1> SUFFICES ASSUME SettleInv, [Next]_vars PROVE SettleInv'
  OBVIOUS
<1>1. JobInv'
  BY JobInvStep DEF SettleInv
<1>2. QED
  BY <1>1, TellsStep, DraftTellsStep DEF SettleInv

\* What a settlement leaves behind tells what happened, although it was decided
\* on a row read before: the history holds the newest HistoryMax attempts, the
\* newest closed exactly when no lease is open, and the reason is true.
THEOREM TruthfulSettlements == Spec => []SettlementsAreTruthful
<1>1. SettleInv => SettlementsAreTruthful
  <2> SUFFICES ASSUME SettleInv PROVE SettlementsAreTruthful
    OBVIOUS
  <2>1. ASSUME NEW j \in JobId
        PROVE  /\ Tells(jobs[j]) /\ jobs[j].history \in SUBSET Attempt
               /\ jobs[j].fence \in Nat
    BY DEF SettleInv, JobInv, TypeInv, TypeOK, Job
  <2>2. HistoryKeepsNewest
    <3> SUFFICES ASSUME NEW j \in JobId,
                        jobs[j].state \in Live \cup {"succeeded", "failed"}
                 PROVE  /\ {e.fence : e \in Newest(jobs[j].history, jobs[j].fence)}
                             = {f \in 1..jobs[j].fence : jobs[j].fence - f < HistoryMax}
                        /\ \A e \in jobs[j].history :
                             e.fence = jobs[j].fence =>
                               (e.ended <=> jobs[j].state # "leased")
      BY DEF HistoryKeepsNewest
    <3>1. HistoryFits(jobs[j].history, jobs[j].fence, jobs[j].state = "leased")
      BY <2>1 DEF Tells
    <3>2. (jobs[j].state = "leased") \in BOOLEAN
      OBVIOUS
    <3>3. {e.fence : e \in Newest(jobs[j].history, jobs[j].fence)}
            = {f \in 1..jobs[j].fence : jobs[j].fence - f < HistoryMax}
      BY <2>1, <3>1, <3>2, FitsKeepsNewest
    <3>4. QED
      BY <3>1, <3>3 DEF HistoryFits
  <2>3. ReasonIsTruthful
    BY <2>1 DEF ReasonIsTruthful, Tells
  <2>4. QED
    BY <2>2, <2>3 DEF SettlementsAreTruthful
<1>2. QED
  BY <1>1, SettleInit, SettleInvStep, PTL DEF Spec

-----------------------------------------------------------------------------
(***************************************************************************)
(* The refinement: each way of writing a row is a step of JobLifecycle, or *)
(* leaves its columns alone.                                               *)
(***************************************************************************)

\* A blank table is the initial state of the lifecycle.
LEMMA InitRefines == Init => Abstract!Start
  BY DEF Init, NoJob, Abstract!Start

\* The columns of the lifecycle after a write to row j.
LEMMA ColumnsStep ==
  ASSUME NEW j \in JobId, RowStep(j)
  PROVE  /\ [k \in JobId |-> jobs'[k].state]
              = [[k \in JobId |-> jobs[k].state] EXCEPT ![j] = jobs'[j].state]
         /\ [k \in JobId |-> jobs'[k].maxAttempts]
              = [[k \in JobId |-> jobs[k].maxAttempts] EXCEPT ![j] = jobs'[j].maxAttempts]
         /\ [k \in JobId |-> jobs'[k].fence]
              = [[k \in JobId |-> jobs[k].fence] EXCEPT ![j] = jobs'[j].fence]
         /\ [k \in JobId |-> jobs'[k].checkpoint]
              = [[k \in JobId |-> jobs[k].checkpoint] EXCEPT ![j] = jobs'[j].checkpoint]
         /\ [k \in JobId |-> jobs'[k].result]
              = [[k \in JobId |-> jobs[k].result] EXCEPT ![j] = jobs'[j].result]
  BY DEF RowStep

\* A column that keeps its value in row j is unchanged.
LEMMA ColumnsKept ==
  ASSUME NEW j \in JobId, RowStep(j)
  PROVE  /\ jobs'[j].state = jobs[j].state =>
              [k \in JobId |-> jobs'[k].state] = [k \in JobId |-> jobs[k].state]
         /\ jobs'[j].maxAttempts = jobs[j].maxAttempts =>
              [k \in JobId |-> jobs'[k].maxAttempts] = [k \in JobId |-> jobs[k].maxAttempts]
         /\ jobs'[j].fence = jobs[j].fence =>
              [k \in JobId |-> jobs'[k].fence] = [k \in JobId |-> jobs[k].fence]
         /\ jobs'[j].checkpoint = jobs[j].checkpoint =>
              [k \in JobId |-> jobs'[k].checkpoint] = [k \in JobId |-> jobs[k].checkpoint]
         /\ jobs'[j].result = jobs[j].result =>
              [k \in JobId |-> jobs'[k].result] = [k \in JobId |-> jobs[k].result]
<1>1. \A k \in JobId : k # j => jobs'[k] = jobs[k]
  BY DEF RowStep
<1>2. ASSUME jobs'[j].state = jobs[j].state
      PROVE  [k \in JobId |-> jobs'[k].state] = [k \in JobId |-> jobs[k].state]
  BY <1>1, <1>2
<1>3. ASSUME jobs'[j].maxAttempts = jobs[j].maxAttempts
      PROVE  [k \in JobId |-> jobs'[k].maxAttempts] = [k \in JobId |-> jobs[k].maxAttempts]
  BY <1>1, <1>3
<1>4. ASSUME jobs'[j].fence = jobs[j].fence
      PROVE  [k \in JobId |-> jobs'[k].fence] = [k \in JobId |-> jobs[k].fence]
  BY <1>1, <1>4
<1>5. ASSUME jobs'[j].checkpoint = jobs[j].checkpoint
      PROVE  [k \in JobId |-> jobs'[k].checkpoint] = [k \in JobId |-> jobs[k].checkpoint]
  BY <1>1, <1>5
<1>6. ASSUME jobs'[j].result = jobs[j].result
      PROVE  [k \in JobId |-> jobs'[k].result] = [k \in JobId |-> jobs[k].result]
  BY <1>1, <1>6
<1>7. QED
  BY <1>2, <1>3, <1>4, <1>5, <1>6

\* One row's write is one step of the lifecycle, or none.
LEMMA RowRefines ==
  ASSUME JobInv, TypeInv', NEW j \in JobId, RowStep(j)
  PROVE  Abstract!Step \/ UNCHANGED Abstract!lifecycleVars
<1> USE ColumnsStep, ColumnsKept DEF JobInv
<1>1. CASE Accepted(j)
  <2>1. jobs[j] = NoJob
    BY <1>1 DEF Accepted, AbsentIsBlank
  <2>2. /\ jobs'[j].fence = jobs[j].fence /\ jobs'[j].result = jobs[j].result
        /\ jobs'[j].checkpoint = jobs[j].checkpoint
    BY <1>1, <2>1 DEF Accepted, NoJob
  <2>3. Abstract!Accept(j)
    BY <1>1, <2>2 DEF Accepted, Abstract!Accept, Abstract!Becomes
  <2>4. QED
    BY <2>3 DEF Abstract!Step
<1>2. CASE Leased(j)
  <2>1. Abstract!Acquire(j)
    BY <1>2 DEF Leased, Fixed, Live, Abstract!Acquire, Abstract!Becomes, Abstract!Open
  <2>2. QED
    BY <2>1 DEF Abstract!Step
<1>3. CASE Touched(j)
  <2>1. CASE jobs'[j].checkpoint = jobs[j].checkpoint
    BY <1>3, <2>1 DEF Touched, Fixed, Granted, Abstract!lifecycleVars
  <2>2. CASE jobs[j].state = "leased" /\ jobs'[j].checkpoint = jobs[j].fence
    <3>1. Abstract!Advance(j)
      BY <1>3, <2>2 DEF Touched, Fixed, Granted, Abstract!Advance
    <3>2. QED
      BY <3>1 DEF Abstract!Step
  <2>3. QED
    BY <1>3, <2>1, <2>2 DEF Touched
<1>4. CASE Succeeded(j)
  <2>1. Abstract!Succeed(j)
    BY <1>4 DEF Succeeded, Fixed, Granted, Abstract!Succeed, Abstract!Becomes
  <2>2. QED
    BY <2>1 DEF Abstract!Step
<1>5. CASE Retried(j)
  <2>1. Abstract!GiveBack(j)
    BY <1>5 DEF Retried, Fixed, Granted, Abstract!GiveBack, Abstract!Becomes
  <2>2. QED
    BY <2>1 DEF Abstract!Step
<1>6. CASE Stopped(j)
  <2>1. \E s \in {"failed", "cancelled", "superseded"} : Abstract!Close(j, s)
    BY <1>6 DEF Stopped, Fixed, Granted, Live, Abstract!Close, Abstract!Becomes, Abstract!Open
  <2>2. QED
    BY <2>1 DEF Abstract!Step
<1>7. QED
  BY <1>1, <1>2, <1>3, <1>4, <1>5, <1>6 DEF RowStep

\* With its stale snapshots, lapsed leases and late holders hidden, the journal
\* behaves as the lifecycle its documents promise.
THEOREM JournalImplementsLifecycle == Spec => ImplementsLifecycle
<1>1. JobInv /\ [Next]_vars => [Abstract!Step]_(Abstract!lifecycleVars)
  <2> SUFFICES ASSUME JobInv, [Next]_vars
               PROVE  Abstract!Step \/ UNCHANGED Abstract!lifecycleVars
    OBVIOUS
  <2>1. TypeInv'
    BY TypeStep DEF JobInv
  <2>2. CASE UNCHANGED jobs
    BY <2>2 DEF Abstract!lifecycleVars
  <2>3. QED
    BY <2>1, <2>2, StepEffect, RowRefines
<1>2. QED
  BY <1>1, InitRefines, JobInvariant, PTL
  DEF Spec, ImplementsLifecycle, Abstract!Lifecycle
=============================================================================
