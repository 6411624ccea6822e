---------------------------- MODULE JobLifecycle ----------------------------
(***************************************************************************)
(* What the job journal promises of one table of jobs, without workers,    *)
(* scans, tokens, snapshots or time: the transition table of               *)
(* docs/spec/08-background-processing.md with the fence made explicit.     *)
(* Progress and results always carry the newest fence, so an               *)
(* implementation of this specification lets nobody but the current        *)
(* holder advance a job, and never grants more leases than the budget.     *)
(***************************************************************************)
EXTENDS Integers

CONSTANT JobIds

VARIABLES
  status,     \* the state of each job, "absent" before it is accepted
  budget,     \* leases a job may be granted
  epoch,      \* leases granted so far: the newest fence
  progress,   \* fence of the lease that wrote the last checkpoint, 0 if none
  result      \* fence of the lease that completed the job, 0 if none

lifecycleVars == <<status, budget, epoch, progress, result>>

Open == {"pending", "leased"}

\* Move job j to status s; the other columns are left to the caller.
Becomes(j, s) == status' = [status EXCEPT ![j] = s]

Start ==
  /\ status = [j \in JobIds |-> "absent"]
  /\ budget = [j \in JobIds |-> 0]
  /\ epoch = [j \in JobIds |-> 0]
  /\ progress = [j \in JobIds |-> 0]
  /\ result = [j \in JobIds |-> 0]

\* The caller chooses the budget, at least one lease.
Accept(j) ==
  /\ status[j] = "absent"
  /\ Becomes(j, "pending")
  /\ budget'[j] \in Nat \ {0}
  /\ budget' = [budget EXCEPT ![j] = budget'[j]]
  /\ UNCHANGED <<epoch, progress, result>>

\* A first lease, or the reacquisition of a lapsed one under a new fence.
Acquire(j) ==
  /\ status[j] \in Open /\ epoch[j] < budget[j]
  /\ Becomes(j, "leased")
  /\ epoch' = [epoch EXCEPT ![j] = @ + 1]
  /\ UNCHANGED <<budget, progress, result>>

Advance(j) ==
  /\ status[j] = "leased"
  /\ progress' = [progress EXCEPT ![j] = epoch[j]]
  /\ UNCHANGED <<status, budget, epoch, result>>

Succeed(j) ==
  /\ status[j] = "leased"
  /\ Becomes(j, "succeeded")
  /\ result' = [result EXCEPT ![j] = epoch[j]]
  /\ UNCHANGED <<budget, epoch, progress>>

\* A retryable failure with budget left.
GiveBack(j) ==
  /\ status[j] = "leased" /\ epoch[j] < budget[j]
  /\ Becomes(j, "pending")
  /\ UNCHANGED <<budget, epoch, progress, result>>

\* A terminal failure, a cancellation, a replacement.
Close(j, s) ==
  /\ status[j] \in Open /\ s \in {"failed", "cancelled", "superseded"}
  /\ Becomes(j, s)
  /\ UNCHANGED <<budget, epoch, progress, result>>

Step ==
  \E j \in JobIds :
    \/ Accept(j) \/ Acquire(j) \/ Advance(j) \/ Succeed(j) \/ GiveBack(j)
    \/ \E s \in {"failed", "cancelled", "superseded"} : Close(j, s)

Lifecycle == Start /\ [][Step]_lifecycleVars
=============================================================================
