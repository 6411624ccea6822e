---------------------------- MODULE MCJobJournal ----------------------------
(* Small instances of JobJournal.                                          *)
EXTENDS JobJournal, TLC

CONSTANTS i1, i2, i3, s1, m1, w1, w2, o1, o2

\* i1 pins a memory at the revision it starts with, i2 pins nothing; both
\* slots claim under one worker name, so only the fence tells them apart.
MCIntentScope == [i \in Intent |-> s1]
MCMemoryScope == [m \in Memory |-> s1]
MCIntentInputs == [i \in Intent |-> IF i = i1 THEN {[id |-> m1, revision |-> 1]} ELSE {}]
MCWorkerName == [w \in Worker |-> "host"]
MCGrant == [w \in Worker |-> {s1}]
MCOperatorScope == [o \in Operator |-> s1]

Symmetry == Permutations(Worker) \cup Permutations(Operator)
=============================================================================
