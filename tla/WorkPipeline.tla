---------------------------- MODULE WorkPipeline ----------------------------
(***************************************************************************)
(* Writers that commit memories with jobs, and workers that claim and      *)
(* settle those jobs, over one job table.                                  *)
(***************************************************************************)
EXTENDS WorkerRuntime, WriteWithJobs

vars == <<lifecycleVars, workerVars, writeVars>>

Init == Start /\ RuntimeInit /\ WriteInit

Next ==
  \/ WorkerStep /\ UNCHANGED writeVars
  \/ WriteStep /\ UNCHANGED workerVars

Spec == Init /\ [][Next]_vars

\* The loop of a worker takes its steps and executors return; claims that
\* fail, stop requests, crashes, checkpoints and writers may come or not.
Fairness ==
  \A w \in Worker :
    /\ WF_vars(Loop(w) /\ UNCHANGED writeVars)
    /\ WF_vars(Executors(w) /\ UNCHANGED writeVars)

FairSpec == Spec /\ Fairness

\* The loops of the workers and the calls of the writers stay in their domains:
\* a task in flight is one a claim was given, and a job key names an intent and a
\* memory that exist.
TypeOK == RuntimeTypeOK /\ WriteTypeOK
=============================================================================
