---------------------------- MODULE SchemaLedger ----------------------------
(***************************************************************************)
(* migrate (crates/nomiso-store/src/surreal_store.rs): what every process  *)
(* does to the store before it serves.  Processes of different builds and  *)
(* configurations may start at once, fail, crash and start again; a ledger *)
(* row per migration is claimed, applied and completed.                    *)
(*                                                                         *)
(* A row names no owner.  A claim older than two minutes can be taken over *)
(* while its owner still runs.  All DDL is IF NOT EXISTS, so the content   *)
(* of a migration is what its checksum is computed from; it differs        *)
(* between builds, and between embedding dimensions.                       *)
(***************************************************************************)
EXTENDS Integers, Sequences

CONSTANTS
  Process,
  Version,     \* SCHEMA_VERSION of each process's build, from 1
  Dimension,   \* its configured embedding_dim
  Declared,    \* its configured embedding_identity, or Unknown
  Script,      \* the contents of its migrations, in order
  Unknown,     \* EmbeddingIdentity::unknown
  Missing,     \* no row
  Fleets       \* bound: which processes run together, at most

Content == UNION {{Script[p][i] : i \in DOMAIN Script[p]} : p \in Process}
Migration == UNION {DOMAIN Script[p] : p \in Process}

ASSUME BuildAssumption ==
  /\ Version \in [Process -> Nat \ {0}]
  /\ Fleets \subseteq SUBSET Process
  /\ \A p \in Process : Declared[p] # Missing
  /\ \A p \in Process : Script[p] \in Seq(Content) /\ Script[p] # <<>>
  /\ \A p, q \in Process : Version[p] <= Version[q] => Len(Script[p]) <= Len(Script[q])

VARIABLES
  ledger,      \* schema_migration
  ran,         \* the contents whose DDL ran to its end without a serious error
  generation,  \* the identity of embedding_generation:gen-1, or Missing
  version,     \* nomiso_meta:schema, 0 if missing
  dimension,   \* nomiso_meta:embedding_dim, or Missing
  at,          \* where migrate is in each process, and at which migration
  takenOver,   \* history: a claim was stolen, or a failed one reclaimed
  fleet        \* the processes of this behaviour

ledgerVars == <<ledger, ran, generation, version, dimension, at, takenOver, fleet>>

Row == [status : {"missing", "applying", "applied", "failed"},
        checksum : Content \cup {Missing},
        old : BOOLEAN]  \* started more than 120 s ago
NoClaim == [status |-> "missing", checksum |-> Missing, old |-> FALSE]

Stage == {"down", "version", "dimension", "claim", "apply", "complete", "mark",
         "generation", "create", "markVersion", "markDimension", "ready", "refused"}

LedgerInit ==
  /\ ledger = [m \in Migration |-> NoClaim]
  /\ ran = [m \in Migration |-> {}]
  /\ generation = Missing /\ version = 0 /\ dimension = Missing
  /\ at = [p \in Process |-> [step |-> "down", migration |-> 1]]
  /\ takenOver = FALSE /\ fleet \in Fleets

Mine(p) == Script[p][at[p].migration]
Goto(p, step) == at' = [at EXCEPT ![p].step = step]
Refuse(p) == Goto(p, "refused")

\* The next migration of the script, or what follows the last.
NextMigration(p) ==
  at' = [at EXCEPT ![p] =
    IF @.migration < Len(Script[p])
    THEN [step |-> "claim", migration |-> @.migration + 1]
    ELSE [step |-> "generation", migration |-> 1]]

Boot(p) ==
  /\ at[p].step \in {"down", "refused"}
  /\ at' = [at EXCEPT ![p] = [step |-> "version", migration |-> 1]]
  /\ UNCHANGED <<ledger, ran, generation, version, dimension, takenOver>>

\* MIG-001: the markers are read before anything is changed.
CheckVersion(p) ==
  /\ at[p].step = "version"
  /\ IF version > Version[p] THEN Refuse(p) ELSE Goto(p, "dimension")
  /\ UNCHANGED <<ledger, ran, generation, version, dimension, takenOver>>

CheckDimension(p) ==
  /\ at[p].step = "dimension"
  /\ IF dimension \notin {Missing, Dimension[p]} THEN Refuse(p) ELSE Goto(p, "claim")
  /\ UNCHANGED <<ledger, ran, generation, version, dimension, takenOver>>

Claiming(p) == [status |-> "applying", checksum |-> Mine(p), old |-> FALSE]

\* A row may be claimed that is missing, failed, or whose claim is old.
MayClaim(row) ==
  row.status \in {"missing", "failed"} \/ (row.status = "applying" /\ row.old)

\* claim_migration: each of its writes tests again what it was chosen for.
ClaimMigration(p) ==
  LET row == ledger[at[p].migration] IN
  /\ at[p].step = "claim" /\ MayClaim(row)
  /\ ledger' = [ledger EXCEPT ![at[p].migration] = Claiming(p)]
  /\ takenOver' = (takenOver \/ row.status # "missing")
  /\ Goto(p, "apply")
  /\ UNCHANGED <<ran, generation, version, dimension>>

AppliedAsMine(p, row) == row.status = "applied" /\ row.checksum = Mine(p)

\* An applied row is skipped when it was applied with the same content; with
\* another the store is not compatible.
SkipApplied(p) ==
  LET row == ledger[at[p].migration] IN
  /\ at[p].step = "claim" /\ row.status = "applied"
  /\ IF AppliedAsMine(p, row) THEN NextMigration(p) ELSE Refuse(p)
  /\ UNCHANGED <<ledger, ran, generation, version, dimension, takenOver>>

\* Mutant: somebody else's claim is as good as an applied row.
WaitNot(p) ==
  /\ at[p].step = "claim" /\ ledger[at[p].migration].status = "applying"
  /\ NextMigration(p)
  /\ UNCHANGED <<ledger, ran, generation, version, dimension, takenOver>>

\* Somebody else is applying it: thirty seconds of polling end in an error.
WaitTooLong(p) ==
  /\ at[p].step = "claim" /\ ledger[at[p].migration].status = "applying"
  /\ Refuse(p)
  /\ UNCHANGED <<ledger, ran, generation, version, dimension, takenOver>>

Apply(p) ==
  /\ at[p].step = "apply"
  /\ ran' = [ran EXCEPT ![at[p].migration] = @ \cup {Mine(p)}]
  /\ Goto(p, "complete")
  /\ UNCHANGED <<ledger, generation, version, dimension, takenOver>>

ApplyFails(p) ==
  /\ at[p].step = "apply" /\ Goto(p, "mark")
  /\ UNCHANGED <<ledger, ran, generation, version, dimension, takenOver>>

\* The failure is recorded whatever the row says by now.
MarkFailed(p) ==
  /\ at[p].step = "mark"
  /\ ledger' = [ledger EXCEPT ![at[p].migration].status = "failed"]
  /\ Refuse(p)
  /\ UNCHANGED <<ran, generation, version, dimension, takenOver>>

\* UPDATE .. WHERE status = 'applying': no row is no error.
Complete(p) ==
  LET m == at[p].migration IN
  /\ at[p].step = "complete"
  /\ ledger' = IF ledger[m].status = "applying"
               THEN [ledger EXCEPT ![m] =
                      [status |-> "applied", checksum |-> Mine(p), old |-> @.old]]
               ELSE ledger
  /\ NextMigration(p)
  /\ UNCHANGED <<ran, generation, version, dimension, takenOver>>

Compatible(p, identity) == Declared[p] \in {Unknown, identity}

\* ensure_embedding_generation: the serving identity is read, or created.
CheckGeneration(p) ==
  /\ at[p].step = "generation"
  /\ IF generation = Missing THEN Goto(p, "create")
     ELSE IF Compatible(p, generation) THEN Goto(p, "markVersion") ELSE Refuse(p)
  /\ UNCHANGED <<ledger, ran, generation, version, dimension, takenOver>>

\* The loser of the race for gen-1 checks its identity against the winner's.
CreateGeneration(p) ==
  /\ at[p].step = "create"
  /\ IF generation = Missing
     THEN generation' = Declared[p] /\ Goto(p, "markVersion")
     ELSE UNCHANGED generation /\ Goto(p, "generation")
  /\ UNCHANGED <<ledger, ran, version, dimension, takenOver>>

\* Two statements, with no condition on the markers they replace.
MarkVersion(p) ==
  /\ at[p].step = "markVersion"
  /\ version' = Version[p] /\ Goto(p, "markDimension")
  /\ UNCHANGED <<ledger, ran, generation, dimension, takenOver>>

MarkDimension(p) ==
  /\ at[p].step = "markDimension"
  /\ dimension' = Dimension[p] /\ Goto(p, "ready")
  /\ UNCHANGED <<ledger, ran, generation, version, takenOver>>

\* A process that dies, or is stopped.
Halt(p) ==
  /\ at[p].step \notin {"down", "refused"}
  /\ at' = [at EXCEPT ![p] = [step |-> "down", migration |-> 1]]
  /\ UNCHANGED <<ledger, ran, generation, version, dimension, takenOver>>

ClaimAges(m) ==
  /\ ledger[m].status = "applying" /\ ~ledger[m].old
  /\ ledger' = [ledger EXCEPT ![m].old = TRUE]
  /\ UNCHANGED <<ran, generation, version, dimension, at, takenOver>>

Migrate(p) ==
  \/ Boot(p) \/ CheckVersion(p) \/ CheckDimension(p)
  \/ ClaimMigration(p) \/ SkipApplied(p) \/ WaitTooLong(p)
  \/ Apply(p) \/ ApplyFails(p) \/ MarkFailed(p) \/ Complete(p)
  \/ CheckGeneration(p) \/ CreateGeneration(p) \/ MarkVersion(p) \/ MarkDimension(p)

LedgerNext ==
  /\ \/ \E p \in fleet : Migrate(p) \/ Halt(p)
     \/ \E m \in Migration : ClaimAges(m)
  /\ UNCHANGED fleet

-----------------------------------------------------------------------------

LedgerTypeOK ==
  /\ ledger \in [Migration -> Row]
  /\ ran \in [Migration -> SUBSET Content]
  /\ generation \in {Declared[p] : p \in Process} \cup {Unknown, Missing}
  /\ version \in {Version[p] : p \in Process} \cup {0}
  /\ dimension \in {Dimension[p] : p \in Process} \cup {Missing}
  /\ at \in [Process -> [step : Stage, migration : Migration]]
  /\ takenOver \in BOOLEAN /\ fleet \in Fleets

Ready(p) == at[p].step = "ready"

\* MIG-002: whoever crashed, failed, stole or waited before it, a process that
\* serves has had every migration of its own content applied in full, and so has
\* the build named by the version marker; an applied row names a content that
\* ran.
ReadyIsMigrated ==
  /\ \A m \in Migration :
       ledger[m].status = "applied" => ledger[m].checksum \in ran[m]
  /\ \A p \in Process : Ready(p) => \A m \in DOMAIN Script[p] : Script[p][m] \in ran[m]
  /\ version # 0 =>
       \E p \in Process : Version[p] = version
         /\ \A m \in DOMAIN Script[p] : Script[p][m] \in ran[m]

\* While no claim changes hands, the schema has one content: processes whose
\* migrations differ never both serve, and the markers belong to it.  And the
\* serving generation is compatible with all who serve, takeovers or not.
ServersOfOneContent ==
  /\ ~takenOver => \A m \in Migration : \A p \in Process :
       Ready(p) /\ m \in DOMAIN Script[p] => ran[m] = {Script[p][m]}
  /\ \A p \in Process : Ready(p) => generation # Missing /\ Compatible(p, generation)

\* MIG-002, both: who serves has been migrated, and agrees with who else serves.
ReadyMeansMigrated == ReadyIsMigrated /\ ServersOfOneContent

\* docs/spec/12-compatibility-and-migrations.md:20, a newer schema is never
\* silently relabeled as older.  A process of an older build that read the
\* markers before a newer one wrote them writes its own over them.
NeverRelabelledOlder == [][version' >= version]_ledgerVars
=============================================================================
