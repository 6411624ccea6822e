---------------------------- MODULE StorePlanes ----------------------------
(***************************************************************************)
(* The planes of the store that share no rows: the migrations every        *)
(* process runs first, the versioned records, and the evidence.  A         *)
(* behaviour uses one of them, chosen at its start.                        *)
(***************************************************************************)
EXTENDS SchemaLedger, Records, Evidence

VARIABLE plane

vars == <<plane, ledgerVars, recordVars, evidenceVars>>

Init ==
  /\ plane \in {"schema", "records", "evidence"}
  /\ LedgerInit /\ RecordsInit
  /\ IF plane = "evidence" THEN EvidenceInit ELSE EvidenceEmpty
  /\ plane # "schema" => fleet = {}
  /\ plane # "records" => careful

Next ==
  /\ UNCHANGED plane
  /\ \/ plane = "schema" /\ LedgerNext /\ UNCHANGED <<recordVars, evidenceVars>>
     \/ plane = "records" /\ RecordsNext /\ UNCHANGED <<ledgerVars, evidenceVars>>
     \/ plane = "evidence" /\ EvidenceNext /\ UNCHANGED <<ledgerVars, recordVars>>

Spec == Init /\ [][Next]_vars

\* The rows and the calls of the three planes stay in their domains; a call of
\* put_task_state makes at most three attempts.
TypeOK == LedgerTypeOK /\ RecordsTypeOK /\ EvidenceTypeOK
=============================================================================
