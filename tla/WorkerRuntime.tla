---------------------------- MODULE WorkerRuntime ----------------------------
(***************************************************************************)
(* The claim loop of a worker process (crates/nomiso-service/src/worker.rs)*)
(* over a job table that moves by the steps of JobLifecycle, which the job *)
(* journal implements (JobJournalProofs).  A lease may lapse at any time:  *)
(* a leased job can always be acquired again while its budget lasts, and   *)
(* the journal then refuses the settlement of the older attempt.           *)
(*                                                                         *)
(* A worker claims only kinds it has an executor for, so the branch for an *)
(* unregistered kind is never taken.  What an executor writes through its  *)
(* client before it returns is left out.                                   *)
(***************************************************************************)
EXTENDS JobLifecycle, FiniteSets

CONSTANTS
  Worker,
  Concurrency,   \* WorkerConfig::concurrency
  Quota          \* WorkerConfig::max_jobs

ASSUME WindowAssumption == Concurrency \in Nat \ {0} /\ Quota \in Nat \ {0}

VARIABLES
  pc,       \* where the loop of each worker is
  saw,      \* what the current round saw: the stop token, the quota
  stop,     \* the stop token
  claimed,  \* WorkerStats::claimed
  flight,   \* the JoinSet: attempts spawned and not yet harvested
  dropped   \* leases whose attempt ended without a settlement

workerVars == <<pc, saw, stop, claimed, flight, dropped>>

Outcome == {"completed", "retryable", "fatal", "paused", "aborted"}
Attempt == [job : JobIds, fence : Nat, run : {"running"} \cup Outcome]
Lease(t) == <<t.job, t.fence>>

\* done: run returned its statistics; failed: a claim returned an error;
\* dead: the process is gone.
Ended == {"done", "failed", "dead"}

Unseen == [stopping |-> FALSE, quota |-> FALSE]
Goto(w, label) == pc' = [pc EXCEPT ![w] = label]

\* The end of a round: what it saw is forgotten.
EndRound(w, label) == Goto(w, label) /\ saw' = [saw EXCEPT ![w] = Unseen]

RuntimeInit ==
  /\ pc = [w \in Worker |-> "top"]
  /\ saw = [w \in Worker |-> Unseen]
  /\ stop = [w \in Worker |-> FALSE]
  /\ claimed = [w \in Worker |-> 0]
  /\ flight = [w \in Worker |-> {}]
  /\ dropped = {}

\* Mutant: the stop token is not read.
RoundDeaf(w) ==
  /\ pc[w] = "top"
  /\ saw' = [saw EXCEPT ![w] = [stopping |-> FALSE, quota |-> claimed[w] >= Quota]]
  /\ Goto(w, "claim")
  /\ UNCHANGED <<stop, claimed, flight, dropped, lifecycleVars>>

\* Both conditions are read once, before the claim window is filled.
Round(w) ==
  /\ pc[w] = "top"
  /\ saw' = [saw EXCEPT ![w] = [stopping |-> stop[w], quota |-> claimed[w] >= Quota]]
  /\ Goto(w, "claim")
  /\ UNCHANGED <<stop, claimed, flight, dropped, lifecycleVars>>

WindowOpen(w) == /\ ~saw[w].stopping /\ ~saw[w].quota
                 /\ Cardinality(flight[w]) < Concurrency

Claim(w, j) ==
  /\ pc[w] = "claim" /\ WindowOpen(w)
  /\ Acquire(j)
  /\ claimed' = [claimed EXCEPT ![w] = @ + 1]
  /\ flight' = [flight EXCEPT ![w] =
       @ \cup {[job |-> j, fence |-> epoch[j] + 1, run |-> "running"]}]
  /\ UNCHANGED <<pc, saw, stop, dropped>>

\* Mutant: a stopping worker does not wait for the attempts in flight.
ClaimEndsEager(w) ==
  /\ pc[w] = "claim"
  /\ Goto(w, IF saw[w].stopping THEN "done" ELSE "harvest")
  /\ UNCHANGED <<saw, stop, claimed, flight, dropped, lifecycleVars>>

\* The window is shut, or no job is eligible: each one is over, backing off or
\* leased for a while yet.
ClaimEnds(w) ==
  /\ pc[w] = "claim"
  /\ Goto(w, "harvest")
  /\ UNCHANGED <<saw, stop, claimed, flight, dropped, lifecycleVars>>

Forgotten(w) == dropped \cup {Lease(t) : t \in flight[w]}

\* claim_job(..).await? returns from run: dropping the JoinSet aborts its tasks.
ClaimError(w) ==
  /\ pc[w] = "claim" /\ WindowOpen(w)
  /\ EndRound(w, "failed")
  /\ flight' = [flight EXCEPT ![w] = {}]
  /\ dropped' = Forgotten(w)
  /\ UNCHANGED <<stop, claimed, lifecycleVars>>

\* An executor returns; it reports a pause only when it was asked to stop.
Finish(w, t) ==
  /\ pc[w] \notin Ended /\ t.run = "running"
  /\ \E run \in Outcome :
       /\ run = "paused" => stop[w]
       /\ flight' = [flight EXCEPT ![w] = (@ \ {t}) \cup {[t EXCEPT !.run = run]}]
  /\ UNCHANGED <<pc, saw, stop, claimed, dropped, lifecycleVars>>

Holds(t) == status[t.job] = "leased" /\ epoch[t.job] = t.fence

\* complete_job: refused when the lease is lost or a pinned input has moved.
SettleCompleted(t) ==
  /\ t.run = "completed"
  /\ \/ Holds(t) /\ Succeed(t.job) /\ UNCHANGED dropped
     \/ dropped' = dropped \cup {Lease(t)} /\ UNCHANGED lifecycleVars

\* fail_job: an error, or the pause of a stopping executor, goes back to
\* pending while attempts are left.
SettleFailed(t) ==
  /\ t.run \in {"retryable", "fatal", "paused"}
  /\ \/ /\ Holds(t) /\ UNCHANGED dropped
        /\ IF t.run # "fatal" /\ epoch[t.job] < budget[t.job]
           THEN GiveBack(t.job) ELSE Close(t.job, "failed")
     \/ /\ ~Holds(t)
        /\ dropped' = dropped \cup {Lease(t)} /\ UNCHANGED lifecycleVars

\* aborted: a lost lease, or a panic that join_next reports; only counted.
SettleNothing(t) ==
  /\ t.run = "aborted"
  /\ dropped' = dropped \cup {Lease(t)} /\ UNCHANGED lifecycleVars

NextRound(w, left) == IF saw[w].stopping /\ left = {} THEN "done" ELSE "top"

\* join_next, then settle.
Harvest(w, t) ==
  /\ pc[w] = "harvest" /\ t.run # "running"
  /\ flight' = [flight EXCEPT ![w] = @ \ {t}]
  /\ EndRound(w, NextRound(w, flight[w] \ {t}))
  /\ SettleCompleted(t) \/ SettleFailed(t) \/ SettleNothing(t)
  /\ UNCHANGED <<stop, claimed>>

\* Nothing in flight: return, or sleep for the poll interval.
Idle(w) ==
  /\ pc[w] = "harvest" /\ flight[w] = {}
  /\ EndRound(w, IF saw[w].stopping \/ saw[w].quota THEN "done" ELSE "top")
  /\ UNCHANGED <<stop, claimed, flight, dropped, lifecycleVars>>

\* stop_handle().cancel(), by the host of the worker.
RequestStop(w) ==
  /\ ~stop[w] /\ pc[w] \notin Ended
  /\ stop' = [stop EXCEPT ![w] = TRUE]
  /\ UNCHANGED <<pc, saw, claimed, flight, dropped, lifecycleVars>>

Die(w) ==
  /\ pc[w] \notin Ended /\ EndRound(w, "dead")
  /\ flight' = [flight EXCEPT ![w] = {}]
  /\ dropped' = Forgotten(w)
  /\ UNCHANGED <<stop, claimed, lifecycleVars>>

\* The steps of Worker::run itself.
Loop(w) ==
  \/ Round(w) \/ ClaimEnds(w) \/ Idle(w)
  \/ \E j \in JobIds : Claim(w, j)
  \/ \E t \in flight[w] : Harvest(w, t)

Executors(w) == \E t \in flight[w] : Finish(w, t)

WorkerStep ==
  \E w \in Worker :
    \/ Loop(w) \/ ClaimError(w) \/ Executors(w) \/ RequestStop(w) \/ Die(w)

-----------------------------------------------------------------------------

RuntimeTypeOK ==
  /\ pc \in [Worker -> {"top", "claim", "harvest"} \cup Ended]
  /\ saw \in [Worker -> [stopping : BOOLEAN, quota : BOOLEAN]]
  /\ stop \in [Worker -> BOOLEAN]
  /\ claimed \in [Worker -> Nat]
  /\ \A w \in Worker : flight[w] \subseteq Attempt
  /\ dropped \subseteq JobIds \X Nat

\* No lease is forgotten: whatever stops, fails or dies in whichever order, the
\* newest lease of a leased job is either an attempt some live worker will
\* harvest, or one whose end without settlement the runtime has noticed; and
\* a lease is never run by two attempts.  max_jobs is tested once a round,
\* before a window of claims: a run exceeds it by less than its concurrency.
LeasesAreAccountedFor ==
  /\ \A j \in JobIds : status[j] = "leased" =>
       \/ <<j, epoch[j]>> \in dropped
       \/ \E w \in Worker : \E t \in flight[w] : Lease(t) = <<j, epoch[j]>>
  /\ \A w \in Worker : \A t, u \in flight[w] : Lease(t) = Lease(u) => t = u
  /\ \A w, v \in Worker : w # v =>
       {Lease(t) : t \in flight[w]} \cap {Lease(t) : t \in flight[v]} = {}
  /\ \A w \in Worker : pc[w] \in Ended => flight[w] = {}
  /\ \A w \in Worker : claimed[w] < Quota + Concurrency

\* JOB-006: once its stop token is set, a worker whose executors return stops,
\* however full the queue is.
StopEndsTheRun == \A w \in Worker : stop[w] ~> pc[w] \in Ended

\* worker.rs:270, paused work returns to pending so another worker can resume
\* from the checkpoint.  A pause reported under the last lease of the budget
\* closes the job as failed instead.
PausedWorkReturns ==
  [][\A w \in Worker : \A t \in flight[w] :
       t.run = "paused" /\ t \notin flight'[w] /\ Holds(t)
         => status'[t.job] \in {"pending", "leased"}]_<<workerVars, lifecycleVars>>
=============================================================================
