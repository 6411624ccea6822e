-------------------------- MODULE StorePlanesProofs --------------------------
(***************************************************************************)
(* Proofs about the migration ledger, the versioned records and the        *)
(* evidence, for any processes, callers, actors, backends, contents,       *)
(* scopes and outages, and the types of all three planes.                  *)
(*                                                                         *)
(* Ledger: a process serves only what has been migrated, whoever crashed,  *)
(* failed, waited or took over a claim before.                             *)
(*                                                                         *)
(* Records: `Follows` says what a guarded call knows of the row it will    *)
(* write, `Lucky` what a call without a condition has not met yet.         *)
(*                                                                         *)
(* Evidence: `Fits` says what a call in flight knows of the rows and of    *)
(* the objects; it stays true because rows keep their scope and content    *)
(* (`RowsMove`) and, but for an outage, which ends every call, objects     *)
(* that can be read stay so (`DiskMoves`).                                 *)
(***************************************************************************)
EXTENDS StorePlanes, TLAPS

(* The migration ledger *)

LedgerTypes ==
  /\ ledger \in [Migration -> Row]
  /\ ran \in [Migration -> SUBSET Content]
  /\ at \in [Process -> [step : Stage, migration : Nat]]
  /\ \A p \in Process : at[p].migration \in DOMAIN Script[p]
  /\ version \in Nat /\ fleet \subseteq Process /\ takenOver \in BOOLEAN

Migrated == {"generation", "create", "markVersion", "markDimension", "ready"}
Marking == {"markVersion", "markDimension", "ready"}
Applying == {"apply", "complete", "mark"}

\* What migrate has put behind it in p: the migration m of its script was applied
\* by p itself, or found applied with the content of p.
Behind(p, m) ==
  \/ at[p].step \in Migrated
  \/ at[p].step \in {"version", "dimension", "claim", "apply", "mark"} /\ m < at[p].migration
  \/ at[p].step = "complete" /\ m <= at[p].migration

AppliedRan == \A m \in Migration : ledger[m].status = "applied" => ledger[m].checksum \in ran[m]

BehindRan ==
  \A p \in Process : \A m \in DOMAIN Script[p] : Behind(p, m) => Script[p][m] \in ran[m]

VersionRan ==
  version # 0 =>
    \E p \in Process : Version[p] = version /\ \A m \in DOMAIN Script[p] : Script[p][m] \in ran[m]

\* While no claim has changed hands, whoever applies a migration holds its row.
OneClaim ==
  ~takenOver =>
    /\ \A m \in Migration :
         /\ ran[m] \subseteq {ledger[m].checksum}
         /\ ledger[m].status = "missing" => ran[m] = {}
    /\ \A p \in Process : at[p].step \in Applying =>
         /\ ledger[at[p].migration].status # "missing"
         /\ ledger[at[p].migration].checksum = Mine(p)

GenerationFits ==
  \A p \in Process : at[p].step \in Marking => generation # Missing /\ Compatible(p, generation)

LedgerInv == LedgerTypes /\ AppliedRan /\ BehindRan /\ VersionRan /\ OneClaim /\ GenerationFits

LEMMA ScriptShape ==
  \A p \in Process : /\ DOMAIN Script[p] \subseteq Migration
                     /\ \A m \in DOMAIN Script[p] : Script[p][m] \in Content
                     /\ Len(Script[p]) \in Nat \ {0}
                     /\ DOMAIN Script[p] = 1 .. Len(Script[p])
<1>1. SUFFICES ASSUME NEW p \in Process
               PROVE  /\ DOMAIN Script[p] \subseteq Migration
                      /\ \A m \in DOMAIN Script[p] : Script[p][m] \in Content
                      /\ Len(Script[p]) \in Nat \ {0}
                      /\ DOMAIN Script[p] = 1 .. Len(Script[p])
  OBVIOUS
<1>2. DOMAIN Script[p] \subseteq Migration
  BY DEF Migration
<1>3. Script[p] \in Seq(Content) /\ Script[p] # <<>>
  BY BuildAssumption
<1>4. QED
  BY <1>2, <1>3


\* Every step of migrate moves the program counter of its process and no other.
Moved(p) ==
  /\ at' = [at EXCEPT ![p] = at'[p]]
  /\ at'[p] \in [step : Stage, migration : DOMAIN Script[p]]

LEMMA GotoMoves ==
  ASSUME LedgerTypes, NEW p \in Process, NEW s \in Stage, Goto(p, s)
  PROVE  Moved(p) /\ at'[p].step = s /\ at'[p].migration = at[p].migration
BY DEF LedgerTypes, Goto, Moved

LEMMA NextMoves ==
  ASSUME LedgerTypes, NEW p \in Process, NextMigration(p)
  PROVE  /\ Moved(p)
         /\ \/ at'[p].step = "claim" /\ at'[p].migration = at[p].migration + 1
            \/ at'[p].step = "generation" /\ at[p].migration = Len(Script[p])
<1>1. at[p].migration \in 1 .. Len(Script[p]) /\ Len(Script[p]) \in Nat \ {0}
  BY ScriptShape DEF LedgerTypes
<1>2. CASE at[p].migration < Len(Script[p])
  <2>1. at' = [at EXCEPT ![p] = [step |-> "claim", migration |-> at[p].migration + 1]]
    BY <1>2 DEF NextMigration
  <2>2. at[p].migration + 1 \in DOMAIN Script[p]
    BY <1>1, <1>2, ScriptShape
  <2>3. QED
    BY <2>1, <2>2 DEF Moved, LedgerTypes, Stage
<1>3. CASE ~(at[p].migration < Len(Script[p]))
  <2>1. at' = [at EXCEPT ![p] = [step |-> "generation", migration |-> 1]]
    BY <1>3 DEF NextMigration
  <2>2. 1 \in DOMAIN Script[p]
    BY <1>1, ScriptShape
  <2>3. QED
    BY <1>1, <1>3, <2>1, <2>2 DEF Moved, LedgerTypes, Stage
<1>4. QED
  BY <1>2, <1>3

LEMMA EveryStepMoves ==
  ASSUME LedgerTypes, NEW p \in Process, Migrate(p) \/ Halt(p)
  PROVE  Moved(p)
<1> USE DEF Stage
<1>1. ASSUME NEW s \in Stage, Goto(p, s) PROVE Moved(p)
  BY <1>1, GotoMoves DEF Stage
<1>2. CASE Boot(p) \/ Halt(p)
  BY <1>2, ScriptShape DEF Boot, Halt, Moved, LedgerTypes
<1>3. CASE NextMigration(p)
  BY <1>3, NextMoves
<1>4. CASE CheckVersion(p) \/ CheckDimension(p) \/ ClaimMigration(p) \/ WaitTooLong(p)
  BY <1>1, <1>4 DEF CheckVersion, CheckDimension, ClaimMigration, WaitTooLong, Refuse
<1>5. CASE SkipApplied(p) \/ Complete(p)
  BY <1>1, <1>3, <1>5 DEF SkipApplied, Complete, Refuse
<1>6. CASE Apply(p) \/ ApplyFails(p) \/ MarkFailed(p)
  BY <1>1, <1>6 DEF Apply, ApplyFails, MarkFailed, Refuse
<1>7. CASE CheckGeneration(p)
  <2>1. Goto(p, "create") \/ Goto(p, "markVersion") \/ Goto(p, "refused")
    BY <1>7 DEF CheckGeneration, Refuse
  <2>2. QED
    BY <1>1, <2>1
<1>8. CASE CreateGeneration(p) \/ MarkVersion(p) \/ MarkDimension(p)
  BY <1>1, <1>8 DEF CreateGeneration, MarkVersion, MarkDimension
<1>9. QED
  BY <1>2, <1>4, <1>5, <1>6, <1>7, <1>8 DEF Migrate

\* What a step of p leaves alone: the other processes, and its place in its script.
LEMMA OthersStay ==
  ASSUME LedgerTypes, NEW p \in Process, Moved(p)
  PROVE  /\ at' \in [Process -> [step : Stage, migration : Nat]]
         /\ \A q \in Process : at'[q].migration \in DOMAIN Script[q]
         /\ \A q \in Process : q # p => at'[q] = at[q]
         /\ at[p].migration \in Migration /\ Mine(p) \in Content
<1>1. at'[p] \in [step : Stage, migration : DOMAIN Script[p]]
  BY DEF Moved
<1>2. DOMAIN Script[p] \subseteq Nat
  BY ScriptShape
<1>3. at' \in [Process -> [step : Stage, migration : Nat]]
  BY <1>1, <1>2 DEF LedgerTypes, Moved
<1>4. \A q \in Process : q # p => at'[q] = at[q]
  BY DEF LedgerTypes, Moved
<1>5. at[p].migration \in Migration /\ Mine(p) \in Content
  BY ScriptShape DEF LedgerTypes, Mine
<1>6. QED
  BY <1>1, <1>3, <1>4, <1>5 DEF LedgerTypes

\* A step that only moves p preserves the invariant when what p puts behind it
\* has run, what it is about to apply it holds, and the generation suits it.
LEMMA OnlyMoves ==
  ASSUME LedgerInv, NEW p \in Process, Moved(p),
         UNCHANGED <<ledger, ran, generation, version, takenOver, fleet>>,
         \A m \in DOMAIN Script[p] : Behind(p, m)' => Script[p][m] \in ran[m],
         at'[p].step \in Applying =>
           at[p].step \in Applying /\ at'[p].migration = at[p].migration,
         at'[p].step \in Marking => generation # Missing /\ Compatible(p, generation)
  PROVE  LedgerInv'
<1> USE DEF LedgerInv
<1>1. /\ at' \in [Process -> [step : Stage, migration : Nat]]
      /\ \A q \in Process : at'[q].migration \in DOMAIN Script[q]
      /\ \A q \in Process : q # p => at'[q] = at[q]
  BY OthersStay
<1>2. LedgerTypes'
  BY <1>1 DEF LedgerTypes
<1>3. AppliedRan' /\ VersionRan'
  BY DEF AppliedRan, VersionRan
<1>4. BehindRan'
  BY <1>1 DEF BehindRan, Behind
<1>5. OneClaim'
  <2>1. \A q \in Process : at'[q].step \in Applying =>
          at[q].step \in Applying /\ at'[q].migration = at[q].migration
    BY <1>1
  <2>2. QED
    BY <2>1 DEF OneClaim, Mine
<1>6. GenerationFits'
  BY <1>1 DEF GenerationFits, Compatible
<1>7. QED
  BY <1>2, <1>3, <1>4, <1>5, <1>6

\* The steps of migrate that write nothing but their own place.
LEMMA QuietSteps ==
  ASSUME LedgerInv, NEW p \in Process, UNCHANGED fleet,
         \/ Boot(p) \/ Halt(p) \/ CheckVersion(p) \/ CheckDimension(p) \/ SkipApplied(p)
         \/ WaitTooLong(p) \/ ApplyFails(p) \/ CheckGeneration(p)
  PROVE  LedgerInv'
<1>0. LedgerTypes /\ AppliedRan /\ BehindRan /\ GenerationFits
  BY DEF LedgerInv
<1>1. UNCHANGED <<ledger, ran, generation, version, takenOver, fleet>>
  BY DEF Boot, Halt, CheckVersion, CheckDimension, SkipApplied, WaitTooLong, ApplyFails,
         CheckGeneration
<1>2. Moved(p)
  BY <1>0, EveryStepMoves DEF Migrate
<1>3. /\ at[p].migration \in 1 .. Len(Script[p]) /\ Len(Script[p]) \in Nat
      /\ DOMAIN Script[p] = 1 .. Len(Script[p]) /\ at[p].migration \in Migration
  BY <1>0, ScriptShape DEF LedgerTypes
<1>4. ASSUME at'[p].step \in {"down", "version", "refused"},
             at'[p].step = "version" => at'[p].migration = 1
      PROVE  LedgerInv'
  <2>1. \A m \in DOMAIN Script[p] : ~Behind(p, m)'
    BY <1>3, <1>4 DEF Behind, Migrated
  <2>2. QED
    BY <2>1, <1>1, <1>2, <1>4, OnlyMoves DEF Applying, Marking
<1>5. ASSUME Refuse(p) PROVE LedgerInv'
  BY <1>0, <1>4, <1>5, GotoMoves DEF Refuse, Stage
<1>6. CASE Boot(p) \/ Halt(p)
  BY <1>0, <1>4, <1>6 DEF Boot, Halt, LedgerTypes
<1>7. ASSUME NEW s \in {"dimension", "claim", "mark", "create", "markVersion"}, Goto(p, s),
             \/ at[p].step \in {"version", "dimension"} /\ s \in {"dimension", "claim"}
             \/ at[p].step = "apply" /\ s = "mark"
             \/ at[p].step = "generation" /\ s = "create"
             \/ at[p].step = "generation" /\ s = "markVersion" /\ generation # Missing
                  /\ Compatible(p, generation)
      PROVE  LedgerInv'
  <2>1. at'[p].step = s /\ at'[p].migration = at[p].migration
    BY <1>0, <1>7, GotoMoves DEF Stage
  <2>2. \A m \in DOMAIN Script[p] : Behind(p, m)' => Behind(p, m)
    BY <1>7, <2>1 DEF Behind, Migrated
  <2>3. \A m \in DOMAIN Script[p] : Behind(p, m)' => Script[p][m] \in ran[m]
    BY <1>0, <2>2 DEF BehindRan
  <2>4. QED
    BY <1>1, <1>2, <1>7, <2>1, <2>3, OnlyMoves DEF Applying, Marking
<1>8. CASE CheckVersion(p)
  BY <1>5, <1>7, <1>8 DEF CheckVersion
<1>9. CASE CheckDimension(p)
  BY <1>5, <1>7, <1>9 DEF CheckDimension
<1>10. CASE SkipApplied(p)
  <2>1. CASE AppliedAsMine(p, ledger[at[p].migration]) /\ NextMigration(p)
    <3>1. Script[p][at[p].migration] \in ran[at[p].migration]
      BY <1>0, <1>3, <2>1 DEF AppliedAsMine, AppliedRan, Mine
    <3>2. \A m \in DOMAIN Script[p] : m < at[p].migration => Script[p][m] \in ran[m]
      BY <1>0, <1>10 DEF SkipApplied, BehindRan, Behind
    <3>3. \/ at'[p].step = "claim" /\ at'[p].migration = at[p].migration + 1
          \/ at'[p].step = "generation" /\ at[p].migration = Len(Script[p])
      BY <1>0, <2>1, NextMoves
    <3>4. \A m \in DOMAIN Script[p] :
            Behind(p, m)' => m < at[p].migration \/ m = at[p].migration
      BY <1>3, <3>3 DEF Behind, Migrated
    <3>5. \A m \in DOMAIN Script[p] : Behind(p, m)' => Script[p][m] \in ran[m]
      BY <3>1, <3>2, <3>4
    <3>6. QED
      BY <1>1, <1>2, <3>3, <3>5, OnlyMoves DEF Applying, Marking
  <2>2. QED
    BY <1>5, <1>10, <2>1 DEF SkipApplied
<1>11. CASE WaitTooLong(p)
  BY <1>5, <1>11 DEF WaitTooLong
<1>12. CASE ApplyFails(p)
  BY <1>7, <1>12 DEF ApplyFails
<1>13. CASE CheckGeneration(p)
  <2>1. \/ generation = Missing /\ Goto(p, "create")
        \/ generation # Missing /\ Compatible(p, generation) /\ Goto(p, "markVersion")
        \/ Refuse(p)
    BY <1>13 DEF CheckGeneration
  <2>2. QED
    BY <1>5, <1>7, <1>13, <2>1 DEF CheckGeneration
<1>14. QED
  BY <1>6, <1>8, <1>9, <1>10, <1>11, <1>12, <1>13

\* The steps that write the ledger, or what a migration has run.
LEMMA LedgerWrites ==
  ASSUME LedgerInv, NEW p \in Process, UNCHANGED fleet,
         ClaimMigration(p) \/ Apply(p) \/ MarkFailed(p) \/ Complete(p)
  PROVE  LedgerInv'
<1>0. LedgerTypes /\ AppliedRan /\ BehindRan /\ VersionRan /\ OneClaim /\ GenerationFits
  BY DEF LedgerInv
<1>1. Moved(p)
  BY <1>0, EveryStepMoves DEF Migrate
<1>2. /\ at' \in [Process -> [step : Stage, migration : Nat]]
      /\ \A q \in Process : at'[q].migration \in DOMAIN Script[q]
      /\ \A q \in Process : q # p => at'[q] = at[q]
      /\ at[p].migration \in Migration /\ Mine(p) \in Content
  BY <1>0, <1>1, OthersStay
<1>3. /\ at[p].migration \in 1 .. Len(Script[p]) /\ Len(Script[p]) \in Nat
      /\ DOMAIN Script[p] = 1 .. Len(Script[p])
  BY <1>0, ScriptShape DEF LedgerTypes
<1> DEFINE here == at[p].migration
<1>4. ASSUME UNCHANGED generation, at'[p].step \notin Marking
      PROVE  GenerationFits'
  BY <1>0, <1>2, <1>4 DEF GenerationFits, Compatible
<1>5. CASE ClaimMigration(p)
  <2>1. /\ ledger' = [ledger EXCEPT ![here] = Claiming(p)]
        /\ ran' = ran /\ generation' = generation /\ version' = version
        /\ takenOver' = (takenOver \/ ledger[here].status # "missing")
        /\ at[p].step = "claim"
    BY <1>5 DEF ClaimMigration
  <2>2. at'[p].step = "apply" /\ at'[p].migration = here
    BY <1>0, <1>5, GotoMoves DEF ClaimMigration, Stage
  <2>3. LedgerTypes'
    BY <1>0, <1>2, <2>1 DEF LedgerTypes, Claiming, Row
  <2>4. AppliedRan'
    BY <1>0, <2>1 DEF AppliedRan, Claiming, LedgerTypes
  <2>5. BehindRan'
    <3>1. \A q \in Process : \A m \in DOMAIN Script[q] : Behind(q, m)' => Behind(q, m)
      BY <1>2, <2>1, <2>2 DEF Behind, Migrated
    <3>2. QED
      BY <1>0, <2>1, <3>1 DEF BehindRan
  <2>6. VersionRan'
    BY <1>0, <2>1 DEF VersionRan
  <2>7. OneClaim'
    <3>1. SUFFICES ASSUME ~takenOver' PROVE OneClaim'
      BY DEF OneClaim
    <3>2. ~takenOver /\ ledger[here].status = "missing" /\ ran[here] = {}
      BY <1>0, <1>2, <2>1, <3>1 DEF OneClaim
    <3>3. ledger'[here] = Claiming(p) /\ \A m \in Migration \ {here} : ledger'[m] = ledger[m]
      BY <1>0, <1>2, <2>1 DEF LedgerTypes
    <3>4. \A m \in Migration :
            /\ ran'[m] \subseteq {ledger'[m].checksum}
            /\ ledger'[m].status = "missing" => ran'[m] = {}
      BY <1>0, <2>1, <3>2, <3>3 DEF OneClaim, Claiming
    <3>5. ASSUME NEW q \in Process, at'[q].step \in Applying
          PROVE  /\ ledger'[at'[q].migration].status # "missing"
                 /\ ledger'[at'[q].migration].checksum = Script[q][at'[q].migration]
      <4>1. CASE q = p
        BY <2>2, <3>3, <4>1 DEF Claiming, Mine
      <4>2. CASE q # p
        <5>1. /\ at'[q] = at[q] /\ ledger[at[q].migration].status # "missing"
              /\ ledger[at[q].migration].checksum = Mine(q)
          BY <1>0, <1>2, <3>2, <3>5, <4>2 DEF OneClaim
        <5>2. at[q].migration \in Migration \ {here}
          BY <1>0, <3>2, <5>1, ScriptShape DEF LedgerTypes
        <5>3. QED
          BY <3>3, <5>1, <5>2 DEF Mine
      <4>3. QED
        BY <4>1, <4>2
    <3>6. QED
      BY <3>4, <3>5 DEF OneClaim, Mine
  <2>8. QED
    BY <1>4, <2>1, <2>2, <2>3, <2>4, <2>5, <2>6, <2>7 DEF LedgerInv, Marking
<1>6. CASE Apply(p)
  <2>1. /\ ran' = [ran EXCEPT ![here] = @ \cup {Mine(p)}]
        /\ ledger' = ledger /\ generation' = generation /\ version' = version
        /\ takenOver' = takenOver /\ at[p].step = "apply"
    BY <1>6 DEF Apply
  <2>2. at'[p].step = "complete" /\ at'[p].migration = here
    BY <1>0, <1>6, GotoMoves DEF Apply, Stage
  <2>3. ran'[here] = ran[here] \cup {Mine(p)} /\ \A m \in Migration \ {here} : ran'[m] = ran[m]
    BY <1>0, <1>2, <2>1 DEF LedgerTypes
  <2>4. LedgerTypes'
    BY <1>0, <1>2, <2>1 DEF LedgerTypes
  <2>5. AppliedRan'
    BY <1>0, <2>1, <2>3 DEF AppliedRan
  <2>6. \A m \in Migration : ran[m] \subseteq ran'[m]
    BY <2>3
  <2>7. BehindRan'
    <3>1. \A q \in Process : \A m \in DOMAIN Script[q] :
            Behind(q, m)' => Behind(q, m) \/ (q = p /\ m = here)
      BY <1>2, <1>3, <2>1, <2>2 DEF Behind, Migrated
    <3>2. Script[p][here] \in ran'[here]
      BY <2>3 DEF Mine
    <3>3. QED
      BY <1>0, <2>6, <3>1, <3>2, ScriptShape DEF BehindRan
  <2>8. VersionRan'
    BY <1>0, <2>1, <2>6, ScriptShape DEF VersionRan
  <2>9. OneClaim'
    <3>1. SUFFICES ASSUME ~takenOver PROVE OneClaim'
      BY <2>1 DEF OneClaim
    <3>2. ledger[here].checksum = Mine(p) /\ ledger[here].status # "missing"
      BY <1>0, <2>1, <3>1 DEF OneClaim, Applying
    <3>3. \A m \in Migration :
            /\ ran'[m] \subseteq {ledger[m].checksum}
            /\ ledger[m].status = "missing" => ran'[m] = {}
      BY <1>0, <2>3, <3>1, <3>2 DEF OneClaim
    <3>4. \A q \in Process : at'[q].step \in Applying =>
            at[q].step \in Applying /\ at'[q].migration = at[q].migration
      BY <1>2, <2>1, <2>2 DEF Applying
    <3>5. QED
      BY <1>0, <2>1, <3>1, <3>3, <3>4 DEF OneClaim, Mine
  <2>10. QED
    BY <1>4, <2>1, <2>2, <2>4, <2>5, <2>7, <2>8, <2>9 DEF LedgerInv, Marking
<1>7. CASE MarkFailed(p)
  <2>1. /\ ledger' = [ledger EXCEPT ![here].status = "failed"]
        /\ ran' = ran /\ generation' = generation /\ version' = version
        /\ takenOver' = takenOver
    BY <1>7 DEF MarkFailed
  <2>2. at'[p].step = "refused"
    BY <1>0, <1>7, GotoMoves DEF MarkFailed, Refuse, Stage
  <2>3. /\ ledger'[here] = [ledger[here] EXCEPT !.status = "failed"]
        /\ ledger[here] \in Row
        /\ \A m \in Migration \ {here} : ledger'[m] = ledger[m]
    BY <1>0, <1>2, <2>1 DEF LedgerTypes
  <2>4. ledger'[here] \in Row /\ ledger'[here].status = "failed"
        /\ ledger'[here].checksum = ledger[here].checksum
    BY <2>3 DEF Row
  <2>5. LedgerTypes'
    <3>1. ledger' \in [Migration -> Row]
      BY <1>0, <1>2, <2>1, <2>4 DEF LedgerTypes
    <3>2. QED
      BY <1>0, <1>2, <2>1, <3>1 DEF LedgerTypes
  <2>6. AppliedRan' /\ VersionRan'
    BY <1>0, <2>1, <2>3, <2>4 DEF AppliedRan, VersionRan
  <2>7. BehindRan'
    <3>1. \A q \in Process : \A m \in DOMAIN Script[q] : Behind(q, m)' => Behind(q, m)
      BY <1>2, <2>2 DEF Behind, Migrated
    <3>2. QED
      BY <1>0, <2>1, <3>1 DEF BehindRan
  <2>8. OneClaim'
    <3>1. \A m \in Migration : /\ ledger'[m].checksum = ledger[m].checksum
                               /\ ledger'[m].status = "missing" => ledger[m].status = "missing"
      BY <2>3, <2>4
    <3>2. \A q \in Process : at'[q].step \in Applying => at'[q] = at[q]
      BY <1>2, <2>2 DEF Applying
    <3>3. \A q \in Process : at[q].migration \in Migration
      BY <1>0, ScriptShape DEF LedgerTypes
    <3>4. QED
      BY <1>0, <2>1, <3>1, <3>2, <3>3 DEF OneClaim, Mine
  <2>9. QED
    BY <1>4, <2>1, <2>2, <2>5, <2>6, <2>7, <2>8 DEF LedgerInv, Marking
<1>8. CASE Complete(p)
  <2> DEFINE applied == [status |-> "applied", checksum |-> Mine(p), old |-> ledger[here].old]
  <2>1. /\ ran' = ran /\ generation' = generation /\ version' = version
        /\ takenOver' = takenOver /\ at[p].step = "complete" /\ NextMigration(p)
    BY <1>8 DEF Complete
  <2>2. \/ at'[p].step = "claim" /\ at'[p].migration = here + 1
        \/ at'[p].step = "generation" /\ here = Len(Script[p])
    BY <1>0, <2>1, NextMoves
  <2>3. Mine(p) \in ran[here]
    BY <1>0, <1>3, <2>1 DEF BehindRan, Behind, Mine
  <2>4. ledger[here] \in Row /\ applied \in Row
    BY <1>0, <1>2 DEF LedgerTypes, Row
  <2>5. ledger' = ledger \/ ledger' = [ledger EXCEPT ![here] = applied]
    BY <1>8 DEF Complete
  <2>6. /\ ledger' \in [Migration -> Row]
        /\ ledger'[here] \in {ledger[here], applied}
        /\ \A m \in Migration \ {here} : ledger'[m] = ledger[m]
    BY <1>0, <1>2, <2>4, <2>5 DEF LedgerTypes
  <2>7. applied.status = "applied" /\ applied.checksum = Mine(p)
    OBVIOUS
  <2>8. LedgerTypes'
    BY <1>0, <1>2, <2>1, <2>6 DEF LedgerTypes
  <2>9. AppliedRan' /\ VersionRan'
    <3>1. ASSUME NEW m \in Migration, ledger'[m].status = "applied"
          PROVE  ledger'[m].checksum \in ran[m]
      <4>1. CASE ledger'[m] = ledger[m]
        BY <1>0, <3>1, <4>1 DEF AppliedRan
      <4>2. CASE m = here /\ ledger'[m] = applied
        BY <2>3, <2>7, <4>2
      <4>3. QED
        BY <2>6, <4>1, <4>2
    <3>2. QED
      BY <1>0, <2>1, <3>1 DEF AppliedRan, VersionRan
  <2>10. BehindRan'
    <3>1. \A q \in Process : \A m \in DOMAIN Script[q] : Behind(q, m)' => Behind(q, m)
      BY <1>2, <1>3, <2>1, <2>2 DEF Behind, Migrated
    <3>2. QED
      BY <1>0, <2>1, <3>1 DEF BehindRan
  <2>11. OneClaim'
    <3>1. SUFFICES ASSUME ~takenOver PROVE OneClaim'
      BY <2>1 DEF OneClaim
    <3>2. ledger[here].checksum = Mine(p) /\ ledger[here].status # "missing"
      BY <1>0, <2>1, <3>1 DEF OneClaim, Applying
    <3>3. \A m \in Migration :
            /\ ledger'[m].checksum = ledger[m].checksum
            /\ ledger'[m].status = "missing" => ledger[m].status = "missing"
            /\ ledger[m].status # "missing" => ledger'[m].status # "missing"
      BY <2>6, <2>7, <3>2
    <3>4. \A q \in Process : at'[q].step \in Applying => at'[q] = at[q]
      BY <1>2, <2>2 DEF Applying
    <3>5. \A q \in Process : at[q].migration \in Migration
      BY <1>0, ScriptShape DEF LedgerTypes
    <3>6. QED
      BY <1>0, <2>1, <3>1, <3>3, <3>4, <3>5 DEF OneClaim, Mine
  <2>12. QED
    BY <1>4, <2>1, <2>2, <2>8, <2>9, <2>10, <2>11 DEF LedgerInv, Marking
<1>9. QED
  BY <1>5, <1>6, <1>7, <1>8

\* The steps that create the serving generation and write the markers.
LEMMA MarkerWrites ==
  ASSUME LedgerInv, NEW p \in Process, UNCHANGED fleet,
         CreateGeneration(p) \/ MarkVersion(p) \/ MarkDimension(p)
  PROVE  LedgerInv'
<1>0. LedgerTypes /\ AppliedRan /\ BehindRan /\ VersionRan /\ OneClaim /\ GenerationFits
  BY DEF LedgerInv
<1>1. Moved(p)
  BY <1>0, EveryStepMoves DEF Migrate
<1>2. /\ at' \in [Process -> [step : Stage, migration : Nat]]
      /\ \A q \in Process : at'[q].migration \in DOMAIN Script[q]
      /\ \A q \in Process : q # p => at'[q] = at[q]
  BY <1>0, <1>1, OthersStay
<1>3. /\ ledger' = ledger /\ ran' = ran /\ takenOver' = takenOver
      /\ at[p].step \in Migrated /\ at'[p].step \in Migrated
  BY <1>0, GotoMoves DEF CreateGeneration, MarkVersion, MarkDimension, Migrated, Stage
<1>4. \A m \in DOMAIN Script[p] : Script[p][m] \in ran[m]
  BY <1>0, <1>3 DEF BehindRan, Behind
<1>5. AppliedRan'
  BY <1>0, <1>3 DEF AppliedRan
<1>6. BehindRan'
  BY <1>0, <1>2, <1>3, <1>4 DEF BehindRan, Behind
<1>7. OneClaim'
  <2>1. \A q \in Process : at'[q].step \in Applying => at'[q] = at[q]
    BY <1>2, <1>3 DEF Applying, Migrated
  <2>2. QED
    BY <1>0, <1>3, <2>1 DEF OneClaim, Mine
<1>8. LedgerTypes'
  <2>1. version' \in Nat
    BY <1>0, BuildAssumption
       DEF LedgerTypes, CreateGeneration, MarkVersion, MarkDimension
  <2>2. QED
    BY <1>0, <1>2, <1>3, <2>1 DEF LedgerTypes
<1>9. VersionRan'
  <2>1. CASE MarkVersion(p)
    BY <1>3, <1>4, <2>1 DEF MarkVersion, VersionRan
  <2>2. CASE CreateGeneration(p) \/ MarkDimension(p)
    BY <1>0, <1>3, <2>2 DEF CreateGeneration, MarkDimension, VersionRan
  <2>3. QED
    BY <2>1, <2>2
<1>10. GenerationFits'
  <2>1. CASE CreateGeneration(p) /\ generation = Missing
    <3>1. generation' = Declared[p] /\ Declared[p] # Missing
      BY <2>1, BuildAssumption DEF CreateGeneration
    <3>2. \A q \in Process : at[q].step \notin Marking
      BY <1>0, <2>1 DEF GenerationFits
    <3>3. QED
      BY <1>2, <3>1, <3>2 DEF GenerationFits, Compatible
  <2>2. CASE CreateGeneration(p) /\ generation # Missing
    <3>1. at'[p].step = "generation" /\ generation' = generation
      BY <1>0, <2>2, GotoMoves DEF CreateGeneration, Stage
    <3>2. QED
      BY <1>0, <1>2, <3>1 DEF GenerationFits, Compatible, Marking
  <2>3. CASE MarkVersion(p) \/ MarkDimension(p)
    <3>1. generation' = generation /\ at[p].step \in Marking
      BY <2>3 DEF MarkVersion, MarkDimension, Marking
    <3>2. QED
      BY <1>0, <1>2, <3>1 DEF GenerationFits, Compatible
  <2>4. QED
    BY <2>1, <2>2, <2>3
<1>11. QED
  BY <1>5, <1>6, <1>7, <1>8, <1>9, <1>10 DEF LedgerInv

\* A claim that grows old changes neither its status nor its content.
LEMMA Ageing ==
  ASSUME LedgerInv, NEW m \in Migration, ClaimAges(m), UNCHANGED fleet
  PROVE  LedgerInv'
<1>0. LedgerTypes /\ AppliedRan /\ BehindRan /\ VersionRan /\ OneClaim /\ GenerationFits
  BY DEF LedgerInv
<1>1. /\ ledger' = [ledger EXCEPT ![m].old = TRUE]
      /\ UNCHANGED <<ran, generation, version, at, takenOver>>
  BY DEF ClaimAges
<1>2. /\ ledger' \in [Migration -> Row]
      /\ \A n \in Migration : /\ ledger'[n].status = ledger[n].status
                              /\ ledger'[n].checksum = ledger[n].checksum
  BY <1>0, <1>1 DEF LedgerTypes, Row
<1>3. LedgerTypes'
  BY <1>0, <1>1, <1>2 DEF LedgerTypes
<1>4. AppliedRan' /\ BehindRan' /\ VersionRan' /\ GenerationFits'
  BY <1>0, <1>1, <1>2 DEF AppliedRan, BehindRan, Behind, VersionRan, GenerationFits, Compatible
<1>5. OneClaim'
  <2>1. \A p \in Process : at[p].migration \in Migration
    BY <1>0, ScriptShape DEF LedgerTypes
  <2>2. QED
    BY <1>0, <1>1, <1>2, <2>1 DEF OneClaim, Mine
<1>6. QED
  BY <1>3, <1>4, <1>5 DEF LedgerInv

LEMMA LedgerInvInit == Init => LedgerInv
<1>1. SUFFICES ASSUME LedgerInit PROVE LedgerInv
  BY DEF Init
<1>2. at = [p \in Process |-> [step |-> "down", migration |-> 1]]
  BY <1>1 DEF LedgerInit
<1>3. LedgerTypes
  <2>1. \A p \in Process : Len(Script[p]) \in Nat \ {0} /\ DOMAIN Script[p] = 1 .. Len(Script[p])
    BY ScriptShape
  <2>2. \A p \in Process : 1 \in DOMAIN Script[p]
    <3>1. \A n \in Nat \ {0} : 1 \in 1 .. n
      OBVIOUS
    <3>2. QED
      BY <2>1, <3>1
  <2>3. at \in [Process -> [step : Stage, migration : Nat]]
    BY <1>2 DEF Stage
  <2>4. \A p \in Process : at[p].migration \in DOMAIN Script[p]
    BY <1>2, <2>2
  <2>5. ledger \in [Migration -> Row] /\ ran \in [Migration -> SUBSET Content]
    BY <1>1 DEF LedgerInit, Row, NoClaim
  <2>6. version \in Nat /\ fleet \subseteq Process /\ takenOver \in BOOLEAN
    BY <1>1, BuildAssumption DEF LedgerInit
  <2>7. QED
    BY <2>3, <2>4, <2>5, <2>6 DEF LedgerTypes
<1>4. AppliedRan /\ VersionRan
  BY <1>1 DEF LedgerInit, AppliedRan, VersionRan, NoClaim
<1>5. BehindRan /\ GenerationFits
  BY <1>2 DEF BehindRan, Behind, Migrated, GenerationFits, Marking
<1>6. OneClaim
  BY <1>1, <1>2 DEF LedgerInit, OneClaim, Applying, NoClaim
<1>7. QED
  BY <1>3, <1>4, <1>5, <1>6 DEF LedgerInv

LEMMA LedgerInvStep == LedgerInv /\ [Next]_vars => LedgerInv'
<1>1. SUFFICES ASSUME LedgerInv, [Next]_vars PROVE LedgerInv'
  OBVIOUS
<1>2. CASE UNCHANGED ledgerVars
  BY <1>1, <1>2 DEF ledgerVars, LedgerInv, LedgerTypes, AppliedRan, BehindRan, Behind, VersionRan,
     OneClaim, Mine, GenerationFits, Compatible
<1>3. CASE LedgerNext
  <2>1. UNCHANGED fleet
    BY <1>3 DEF LedgerNext
  <2>2. ASSUME NEW p \in fleet, Migrate(p) \/ Halt(p) PROVE LedgerInv'
    <3>1. p \in Process
      BY <1>1 DEF LedgerInv, LedgerTypes
    <3>2. QED
      BY <1>1, <2>1, <2>2, <3>1, QuietSteps, LedgerWrites, MarkerWrites DEF Migrate
  <2>3. ASSUME NEW m \in Migration, ClaimAges(m) PROVE LedgerInv'
    BY <1>1, <2>1, <2>3, Ageing
  <2>4. QED
    BY <1>3, <2>2, <2>3 DEF LedgerNext
<1>4. QED
  BY <1>1, <1>2, <1>3 DEF Next, vars

LEMMA LedgerInvSuffices == LedgerInv => ReadyMeansMigrated
<1>1. SUFFICES ASSUME LedgerInv PROVE ReadyMeansMigrated
  OBVIOUS
<1>2. LedgerTypes /\ AppliedRan /\ BehindRan /\ VersionRan /\ OneClaim /\ GenerationFits
  BY <1>1 DEF LedgerInv
<1>3. \A p \in Process : Ready(p) => \A m \in DOMAIN Script[p] : Script[p][m] \in ran[m]
  BY <1>2 DEF BehindRan, Behind, Migrated, Ready
<1>4. ReadyIsMigrated
  BY <1>2, <1>3 DEF ReadyIsMigrated, AppliedRan, VersionRan
<1>5. ServersOfOneContent
  BY <1>2, <1>3 DEF ServersOfOneContent, OneClaim, GenerationFits, Ready, Marking
<1>6. QED
  BY <1>4, <1>5 DEF ReadyMeansMigrated

\* MIG-002, for any number of processes, builds and migrations: a process that
\* serves has had every migration of its content applied in full, the version
\* marker names such a build, and while no claim changes hands all who serve
\* share one content and suit the serving generation, whoever crashed, failed or
\* stole a claim before.
THEOREM MigratedBeforeReady == Spec => []ReadyMeansMigrated
<1>1. Spec => []LedgerInv
  BY LedgerInvInit, LedgerInvStep, PTL DEF Spec
<1>2. QED
  BY <1>1, LedgerInvSuffices, PTL
-----------------------------------------------------------------------------
(* The versioned records *)

RowTypes ==
  /\ careful \in BOOLEAN
  /\ task \in VersionedRow /\ (task.version = 0 => task = NoRow)
  /\ entity \in VersionedRow
  /\ asks \in [Caller -> Call]

\* The rows of careful callers hold as much as they have versions, those of
\* careless ones at most as much.
Counted ==
  /\ task.body <= task.version
  /\ careful => task.body = task.version
  /\ entity.body = entity.version

\* What a guarded call will write is what follows from the version it names, and
\* no call writes more than one version adds.
Follows(call) ==
  /\ call.step \in {"update", "create"} => call.body <= task.version + 1
  /\ careful /\ call.step \in {"update", "create"} =>
       /\ call.mode # "any"
       /\ call.mode = "expected" => call.body = call.expected + 1
       /\ call.mode = "create_only" => call.body = 1
  /\ call.step = "create" => call.mode # "expected"
  /\ call.step = "entity" => /\ call.mode = "expected" /\ call.body = call.expected + 1
                             /\ call.expected < MaxVersion

\* A call without a condition that the engine never refused creates only in its
\* first attempt, and finds a row in every later one.
Lucky(call) ==
  /\ call.mode = "any" /\ ~call.refused =>
       /\ call.step = "create" => call.attempt = 0
       /\ call.step = "update" => call.attempt = 0 \/ task.version > 0
       /\ call.step \in {"conflict", "busy"} => call.trace # Absent
  /\ call.step \in {"bind", "append"} => call.trace # Absent /\ call.scope # Absent

CallsFit == \A c \in Caller : Follows(asks[c]) /\ Lucky(asks[c])

RecordsInv == RowTypes /\ Counted /\ CallsFit

-----------------------------------------------------------------------------

\* A step of one call keeps the invariant when its new call fits, and the rows
\* stay counted; a task that exists goes on existing.
LEMMA OneCall ==
  ASSUME RecordsInv, NEW c \in Caller, NEW call \in Call, Ask(c, call),
         UNCHANGED careful,
         task' \in VersionedRow, entity' \in VersionedRow, task'.version >= task.version,
         task'.version = 0 => task' = NoRow,
         Counted', Follows(call)', Lucky(call)'
  PROVE  RecordsInv'
<1>1. /\ asks' \in [Caller -> Call] /\ asks'[c] = call
      /\ \A d \in Caller : d # c => asks'[d] = asks[d]
  BY DEF RecordsInv, RowTypes, Ask
<1>2. RowTypes'
  BY <1>1 DEF RecordsInv, RowTypes
<1>3. ASSUME NEW d \in Caller PROVE Follows(asks[d])' /\ Lucky(asks[d])'
  <2>1. CASE d = c
    BY <1>1, <2>1 DEF Follows, Lucky
  <2>2. CASE d # c
    <3>1. asks'[d] = asks[d] /\ Follows(asks[d]) /\ Lucky(asks[d])
      BY <1>1, <2>2 DEF RecordsInv, CallsFit
    <3>3. /\ task.version > 0 => task'.version > 0
          /\ asks[d].body <= task.version + 1 => asks[d].body <= task'.version + 1
      <4>1. /\ task.version \in 0..MaxVersion /\ task'.version \in 0..MaxVersion
            /\ asks[d].body \in 0..MaxVersion
        BY DEF RecordsInv, RowTypes, VersionedRow, Call
      <4>2. QED
        BY <4>1, RecordsAssumption
    <3>2. Follows(asks[d])'
      BY <3>1, <3>3 DEF Follows
    <3>4. Lucky(asks[d])'
      BY <3>1, <3>3 DEF Lucky
    <3>5. QED
      BY <3>2, <3>4
  <2>3. QED
    BY <2>1, <2>2
<1>4. QED
  BY <1>2, <1>3 DEF RecordsInv, CallsFit

\* What a call becomes when a step changes where it is, and what it reports.
LEMMA Moves ==
  ASSUME NEW call \in Call, NEW s \in {"conflict", "create", "append", "done", "busy"}
  PROVE  LET next == [call EXCEPT !.step = s] IN
           /\ next \in Call /\ next.step = s
           /\ next.mode = call.mode /\ next.trace = call.trace /\ next.body = call.body
           /\ next.refused = call.refused /\ next.attempt = call.attempt
           /\ next.expected = call.expected /\ next.scope = call.scope
BY DEF Call

LEMMA Fails ==
  ASSUME NEW call \in Call, NEW n \in 0..MaxVersion
  PROVE  LET next == [call EXCEPT !.step = "conflict", !.found = n] IN
           /\ next \in Call /\ next.step = "conflict"
           /\ next.mode = call.mode /\ next.trace = call.trace /\ next.refused = call.refused
BY DEF Call

LEMMA Retries ==
  ASSUME NEW call \in Call, call.attempt < 2
  PROVE  LET next == [call EXCEPT !.step = "update", !.attempt = @ + 1] IN
           /\ next \in Call /\ next.step = "update"
           /\ next.mode = call.mode /\ next.trace = call.trace /\ next.body = call.body
           /\ next.refused = call.refused /\ next.expected = call.expected
<1>1. call.attempt + 1 \in 0..2
  BY DEF Call
<1>2. QED
  BY <1>1 DEF Call

LEMMA Refused ==
  ASSUME NEW call \in Call
  PROVE  LET next == [call EXCEPT !.refused = TRUE] IN
           /\ next \in Call /\ next.step = call.step
           /\ next.mode = call.mode /\ next.trace = call.trace /\ next.body = call.body
           /\ next.refused /\ next.attempt = call.attempt /\ next.expected = call.expected
BY DEF Call

LEMMA IdleCall ==
  /\ Idle \in Call /\ Idle.step = "idle" /\ Idle.mode = "any" /\ Idle.attempt = 0
  /\ Idle.trace = Absent
<1>1. 0 \in 0..MaxVersion
  BY RecordsAssumption
<1>2. QED
  BY <1>1 DEF Idle, Call, Mode

\* New calls of put_task_state and update_entity, and an answered one.
TaskCall(mode, e, b) ==
  [Idle EXCEPT !.step = "update", !.mode = mode, !.expected = e, !.body = b]
EntityCall(e, b) ==
  [Idle EXCEPT !.step = "entity", !.mode = "expected", !.expected = e, !.body = b, !.found = e]
Done(n) == [Idle EXCEPT !.step = "done", !.found = n]

LEMMA TaskCalls ==
  ASSUME NEW mode \in Mode, NEW e \in 0..MaxVersion, NEW b \in 0..MaxVersion
  PROVE  LET next == TaskCall(mode, e, b)
         IN  /\ next \in Call /\ next.step = "update" /\ next.mode = mode
             /\ next.expected = e /\ next.body = b /\ next.attempt = 0
<1>1. PICK call \in Call : call = Idle /\ call.attempt = 0
  BY IdleCall
<1> DEFINE next == [call EXCEPT !.step = "update", !.mode = mode, !.expected = e, !.body = b]
<1>2. /\ next \in Call /\ next.step = "update" /\ next.mode = mode
      /\ next.expected = e /\ next.body = b /\ next.attempt = call.attempt
  BY DEF Call, Mode
<1>3. TaskCall(mode, e, b) = next
  BY <1>1 DEF TaskCall
<1> HIDE DEF next
<1>4. QED
  BY <1>1, <1>2, <1>3

LEMMA EntityCalls ==
  ASSUME NEW e \in 0..MaxVersion, NEW b \in 0..MaxVersion
  PROVE  LET next == EntityCall(e, b)
         IN  /\ next \in Call /\ next.step = "entity" /\ next.mode = "expected"
             /\ next.expected = e /\ next.body = b
<1>1. PICK call \in Call : call = Idle
  BY IdleCall
<1> DEFINE next == [call EXCEPT !.step = "entity", !.mode = "expected", !.expected = e,
                                !.body = b, !.found = e]
<1>2. /\ next \in Call /\ next.step = "entity" /\ next.mode = "expected"
      /\ next.expected = e /\ next.body = b
  BY DEF Call, Mode
<1>3. EntityCall(e, b) = next
  BY <1>1 DEF EntityCall
<1> HIDE DEF next
<1>4. QED
  BY <1>2, <1>3

LEMMA DoneCalls ==
  ASSUME NEW n \in 0..MaxVersion
  PROVE  Done(n) \in Call /\ Done(n).step = "done"
<1>1. PICK call \in Call : call = Idle
  BY IdleCall
<1> DEFINE next == [call EXCEPT !.step = "done", !.found = n]
<1>2. next \in Call /\ next.step = "done"
  BY DEF Call
<1>3. Done(n) = next
  BY <1>1 DEF Done
<1> HIDE DEF next
<1>4. QED
  BY <1>2, <1>3

\* New calls of append_trace_event, of which the engine may have refused a
\* statement, or the first.
TraceCall(t, s) == [Idle EXCEPT !.step = "bind", !.trace = t, !.scope = s]
LateCall(t, s) == [Idle EXCEPT !.step = "bind", !.trace = t, !.scope = s, !.refused = TRUE]
LostCall(t) == [Idle EXCEPT !.step = "conflict", !.trace = t]

LEMMA TraceCalls ==
  ASSUME NEW t \in Trace, NEW s \in TraceScope
  PROVE  \A next \in {TraceCall(t, s), LateCall(t, s), LostCall(t)} :
           /\ next \in Call /\ next.step \in {"bind", "conflict"} /\ next.trace = t
           /\ next.step = "bind" => next.scope = s
<1>1. PICK call \in Call : call = Idle
  BY IdleCall
<1> DEFINE bind == [call EXCEPT !.step = "bind", !.trace = t, !.scope = s]
           late == [call EXCEPT !.step = "bind", !.trace = t, !.scope = s, !.refused = TRUE]
           lost == [call EXCEPT !.step = "conflict", !.trace = t]
<1>2. bind \in Call /\ bind.step = "bind" /\ bind.trace = t /\ bind.scope = s
  BY DEF Call
<1>3. late \in Call /\ late.step = "bind" /\ late.trace = t /\ late.scope = s
  BY DEF Call
<1>4. lost \in Call /\ lost.step = "conflict" /\ lost.trace = t
  BY DEF Call
<1>5. TraceCall(t, s) = bind /\ LateCall(t, s) = late /\ LostCall(t) = lost
  BY <1>1 DEF TraceCall, LateCall, LostCall
<1> HIDE DEF bind, late, lost
<1>6. QED
  BY <1>2, <1>3, <1>4, <1>5

\* A step that only changes the call keeps the invariant when the call fits.
LEMMA RowsKept ==
  ASSUME RecordsInv, NEW c \in Caller, NEW call \in Call, Ask(c, call),
         UNCHANGED <<careful, task, entity>>, Follows(call), Lucky(call)
  PROVE  RecordsInv'
<1>1. /\ task \in VersionedRow /\ entity \in VersionedRow
      /\ task.version = 0 => task = NoRow
      /\ Counted
  BY DEF RecordsInv, RowTypes
<1>2. task'.version >= task.version
  BY <1>1 DEF VersionedRow
<1>3. Counted' /\ Follows(call)' /\ Lucky(call)'
  BY <1>1 DEF Counted, Follows, Lucky
<1>4. QED
  BY <1>1, <1>2, <1>3, OneCall

LEMMA ConflictKeeps ==
  ASSUME RecordsInv, NEW c \in Caller, Conflict(c), UNCHANGED <<careful, task, entity>>,
         asks[c].mode # "any" \/ asks[c].refused
  PROVE  RecordsInv'
<1>1. asks[c] \in Call /\ task.version \in 0..MaxVersion
  BY DEF RecordsInv, RowTypes, VersionedRow
<1> DEFINE failed == [asks[c] EXCEPT !.step = "conflict", !.found = task.version]
<1>2. PICK next \in Call :
        /\ next = failed
        /\ next.step = "conflict" /\ next.mode = asks[c].mode
        /\ next.refused = asks[c].refused
  <2>1. /\ failed \in Call /\ failed.step = "conflict"
        /\ failed.mode = asks[c].mode /\ failed.refused = asks[c].refused
    BY <1>1, Fails
  <2>2. QED
    BY <2>1
<1>3. Ask(c, next) /\ Follows(next) /\ Lucky(next)
  BY <1>2 DEF Conflict, Follows, Lucky
<1>4. QED
  BY <1>3, RowsKept

\* Answered, or gone away.
LEMMA EndKeeps ==
  ASSUME RecordsInv, NEW c \in Caller, NEW call \in Call, Ask(c, call),
         call.step \in {"idle", "done"}, UNCHANGED careful,
         task' \in VersionedRow, entity' \in VersionedRow, task'.version >= task.version,
         task'.version = 0 => task' = NoRow, Counted'
  PROVE  RecordsInv'
<1>1. Follows(call)' /\ Lucky(call)'
  BY DEF Follows, Lucky
<1>2. QED
  BY <1>1, OneCall

LEMMA AgainKeeps ==
  ASSUME RecordsInv, NEW c \in Caller, NEW refused \in BOOLEAN, Again(c, refused),
         UNCHANGED <<careful, task, entity>>, asks[c].step \in {"update", "create"},
         \/ refused
         \/ task.version > 0 /\ asks[c].step = "create" /\ asks[c].mode # "create_only"
  PROVE  RecordsInv'
<1>1. /\ asks[c] \in Call /\ task.version \in 0..MaxVersion
      /\ Follows(asks[c]) /\ Lucky(asks[c])
  BY DEF RecordsInv, RowTypes, CallsFit, VersionedRow
<1>2. PICK mid \in Call :
        /\ mid = IF refused THEN [asks[c] EXCEPT !.refused = TRUE] ELSE asks[c]
        /\ mid.mode = asks[c].mode /\ mid.trace = asks[c].trace /\ mid.body = asks[c].body
        /\ mid.expected = asks[c].expected /\ mid.attempt = asks[c].attempt
        /\ refused => mid.refused
        /\ ~refused => mid = asks[c]
  BY <1>1, Refused
<1>3. \/ /\ mid.attempt < 2
         /\ Ask(c, [mid EXCEPT !.step = "update", !.attempt = @ + 1])
      \/ refused /\ Ask(c, [mid EXCEPT !.step = "conflict", !.found = task.version])
      \/ /\ ~(mid.attempt < 2) /\ ~refused /\ Ask(c, [mid EXCEPT !.step = "busy"])
  BY <1>2 DEF Again
<1>4. CASE mid.attempt < 2 /\ Ask(c, [mid EXCEPT !.step = "update", !.attempt = @ + 1])
  <2>1. PICK next \in Call :
          /\ next = [mid EXCEPT !.step = "update", !.attempt = @ + 1]
          /\ next.step = "update" /\ next.mode = mid.mode /\ next.body = mid.body
          /\ next.refused = mid.refused /\ next.expected = mid.expected
    BY <1>4, Retries
  <2>2. Follows(next)
    BY <1>1, <1>2, <2>1 DEF Follows
  <2>3. Lucky(next)
    BY <1>1, <1>2, <2>1 DEF Lucky
  <2>4. QED
    BY <1>4, <2>1, <2>2, <2>3, RowsKept
<1>5. CASE refused /\ Ask(c, [mid EXCEPT !.step = "conflict", !.found = task.version])
  <2>1. PICK next \in Call :
          /\ next = [mid EXCEPT !.step = "conflict", !.found = task.version]
          /\ next.step = "conflict" /\ next.refused = mid.refused
    BY <1>1, Fails
  <2>2. Follows(next) /\ Lucky(next)
    BY <1>2, <1>5, <2>1 DEF Follows, Lucky
  <2>3. QED
    BY <1>5, <2>1, <2>2, RowsKept
<1>6. CASE ~(mid.attempt < 2) /\ ~refused /\ Ask(c, [mid EXCEPT !.step = "busy"])
  <2>1. PICK next \in Call :
          /\ next = [mid EXCEPT !.step = "busy"] /\ next.step = "busy"
          /\ next.mode = mid.mode /\ next.refused = mid.refused
    BY Moves
  <2>2. asks[c].mode # "any" \/ asks[c].refused
    BY <1>1, <1>2, <1>6 DEF Lucky
  <2>3. Follows(next) /\ Lucky(next)
    BY <1>2, <1>6, <2>1, <2>2 DEF Follows, Lucky
  <2>4. QED
    BY <1>6, <2>1, <2>3, RowsKept
<1>7. QED
  BY <1>3, <1>4, <1>5, <1>6

-----------------------------------------------------------------------------

LEMMA TaskSteps ==
  ASSUME RecordsInv, NEW c \in Caller, UNCHANGED careful,
         \/ \E mode \in Mode : PutTaskState(c, mode, task)
         \/ UpdateTask(c) \/ UpdateTaskMisses(c) \/ EngineRefusesUpdate(c)
         \/ CreateTask(c) \/ CreateTaskLoses(c) \/ EngineRefusesCreate(c)
  PROVE  RecordsInv'
<1>1. /\ asks[c] \in Call /\ Follows(asks[c]) /\ Lucky(asks[c])
      /\ task \in VersionedRow /\ entity \in VersionedRow /\ careful \in BOOLEAN
      /\ task.version = 0 => task = NoRow
      /\ Counted
  BY DEF RecordsInv, RowTypes, CallsFit
<1>2. /\ task.version \in 0..MaxVersion /\ task.body \in 0..MaxVersion
      /\ MaxVersion \in Nat \ {0} /\ task.body <= task.version
  BY <1>1, RecordsAssumption DEF VersionedRow, Counted
<1>3. CASE \E mode \in Mode : PutTaskState(c, mode, task)
  <2>1. PICK mode \in Mode : PutTaskState(c, mode, task)
    BY <1>3
  <2> DEFINE call == TaskCall(mode, task.version, task.body + 1)
  <2>2. /\ call \in Call /\ call.step = "update" /\ call.mode = mode
        /\ call.expected = task.version /\ call.body = task.body + 1 /\ call.attempt = 0
    <3>1. task.version < MaxVersion
      BY <2>1 DEF PutTaskState
    <3>2. task.body + 1 \in 0..MaxVersion
      BY <1>2, <3>1
    <3>3. QED
      BY <1>2, <3>2, TaskCalls
  <2>3. Ask(c, call) /\ UNCHANGED <<task, entity>>
    BY <2>1 DEF PutTaskState, TaskCall
  <2> HIDE DEF call
  <2>4. Follows(call)
    <3>1. careful => mode # "any" /\ task.body = task.version
      BY <1>1, <2>1 DEF PutTaskState, Counted
    <3>2. mode = "create_only" => task.body = 0
      <4>1. mode = "create_only" => task = NoRow
        BY <2>1 DEF PutTaskState
      <4>2. QED
        BY <4>1 DEF NoRow
    <3>3. QED
      BY <1>2, <2>2, <3>1, <3>2 DEF Follows
  <2>5. Lucky(call)
    BY <2>2 DEF Lucky
  <2>6. QED
    BY <2>2, <2>3, <2>4, <2>5, RowsKept
<1>4. ASSUME NEW n \in 0..MaxVersion, Answer(c, n)
      PROVE  \E call \in Call : Ask(c, call) /\ call.step = "done"
  BY <1>4, DoneCalls DEF Answer, Done
<1>5. CASE UpdateTask(c)
  <2>1. /\ task' = [version |-> task.version + 1, body |-> asks[c].body] /\ entity' = entity
        /\ Answer(c, task.version + 1) /\ asks[c].step = "update" /\ Matches(asks[c])
        /\ task.version + 1 \in 1..MaxVersion /\ asks[c].body \in 0..MaxVersion
    BY <1>1, <1>2, <1>5 DEF UpdateTask, Call
  <2>2. PICK call \in Call : Ask(c, call) /\ call.step = "done"
    BY <1>2, <1>4, <2>1
  <2>3. /\ asks[c].body <= task.version + 1
        /\ careful => asks[c].body = task.version + 1
    BY <1>1, <2>1 DEF Follows, Matches, Call, Mode
  <2>4. Counted'
    BY <1>1, <2>1, <2>3 DEF Counted
  <2>5. task' \in VersionedRow /\ task'.version >= task.version /\ task'.version # 0
    BY <1>1, <1>2, <2>1 DEF VersionedRow, Call
  <2>6. QED
    BY <1>1, <2>1, <2>2, <2>4, <2>5, EndKeeps
<1>6. CASE UpdateTaskMisses(c)
  <2>1. /\ asks[c].step = "update" /\ ~Matches(asks[c]) /\ UNCHANGED <<task, entity>>
        /\ \/ asks[c].mode = "expected" /\ Conflict(c)
           \/ asks[c].mode # "expected" /\ Ask(c, [asks[c] EXCEPT !.step = "create"])
    BY <1>6 DEF UpdateTaskMisses
  <2>2. CASE asks[c].mode = "expected" /\ Conflict(c)
    BY <2>1, <2>2, ConflictKeeps
  <2>3. CASE asks[c].mode # "expected" /\ Ask(c, [asks[c] EXCEPT !.step = "create"])
    <3> DEFINE call == [asks[c] EXCEPT !.step = "create"]
    <3>1. /\ call \in Call /\ call.step = "create" /\ call.mode = asks[c].mode
          /\ call.refused = asks[c].refused /\ call.attempt = asks[c].attempt
          /\ call.body = asks[c].body
      BY <1>1, Moves
    <3>2. asks[c].mode = "any" => task.version = 0
      BY <1>2, <2>1 DEF Matches
    <3> HIDE DEF call
    <3>3. Follows(call)
      BY <1>1, <2>1, <2>3, <3>1 DEF Follows
    <3>4. Lucky(call)
      BY <1>1, <1>2, <2>1, <3>1, <3>2 DEF Lucky
    <3>5. QED
      BY <2>1, <2>3, <3>1, <3>3, <3>4, RowsKept DEF call
  <2>4. QED
    BY <2>1, <2>2, <2>3
<1>7. CASE EngineRefusesUpdate(c)
  BY <1>7, AgainKeeps DEF EngineRefusesUpdate
<1>8. CASE CreateTask(c)
  <2>1. /\ task' = [version |-> 1, body |-> asks[c].body] /\ entity' = entity
        /\ Answer(c, 1) /\ asks[c].step = "create" /\ task = NoRow /\ task.version = 0
        /\ 1 \in 0..MaxVersion /\ asks[c].body \in 0..MaxVersion
    BY <1>1, <1>2, <1>8 DEF CreateTask, Call, NoRow
  <2>2. PICK call \in Call : Ask(c, call) /\ call.step = "done"
    BY <1>4, <2>1
  <2>3. asks[c].body <= 1 /\ (careful => asks[c].body = 1)
    BY <1>1, <2>1 DEF Follows, Call, Mode
  <2>4. Counted'
    BY <1>1, <2>1, <2>3 DEF Counted
  <2>5. task' \in VersionedRow /\ task'.version >= task.version /\ task'.version # 0
    BY <1>1, <2>1 DEF VersionedRow, Call, NoRow
  <2>6. QED
    BY <1>1, <2>1, <2>2, <2>4, <2>5, EndKeeps
<1>9. CASE CreateTaskLoses(c)
  <2>1. /\ asks[c].step = "create" /\ task # NoRow /\ UNCHANGED <<task, entity>>
        /\ \/ asks[c].mode = "create_only" /\ Conflict(c)
           \/ asks[c].mode # "create_only" /\ Again(c, FALSE)
    BY <1>9 DEF CreateTaskLoses
  <2>2. task.version > 0
    BY <1>1, <1>2, <2>1
  <2>3. QED
    BY <2>1, <2>2, ConflictKeeps, AgainKeeps
<1>10. CASE EngineRefusesCreate(c)
  <2>1. /\ asks[c].step = "create" /\ UNCHANGED <<task, entity>>
        /\ \/ asks[c].mode = "create_only" /\ Conflict(c)
           \/ Again(c, TRUE)
    BY <1>10 DEF EngineRefusesCreate
  <2>2. QED
    BY <2>1, ConflictKeeps, AgainKeeps
<1>11. QED
  BY <1>3, <1>5, <1>6, <1>7, <1>8, <1>9, <1>10

LEMMA EntitySteps ==
  ASSUME RecordsInv, NEW c \in Caller, UNCHANGED careful,
         EntityRead(c, entity) \/ EntityCommit(c)
  PROVE  RecordsInv'
<1>1. /\ asks[c] \in Call /\ Follows(asks[c]) /\ Lucky(asks[c])
      /\ task \in VersionedRow /\ entity \in VersionedRow
      /\ task.version = 0 => task = NoRow
      /\ Counted
  BY DEF RecordsInv, RowTypes, CallsFit
<1>2. /\ entity.version \in 0..MaxVersion /\ entity.body = entity.version
      /\ task.version >= task.version /\ MaxVersion \in Nat \ {0}
  BY <1>1, RecordsAssumption DEF VersionedRow, Counted
<1>3. CASE EntityRead(c, entity)
  <2> DEFINE call == EntityCall(entity.version, entity.body + 1)
  <2>1. /\ call \in Call /\ call.step = "entity" /\ call.mode = "expected"
        /\ call.expected = entity.version /\ call.body = entity.body + 1
    <3>1. entity.body + 1 \in 0..MaxVersion
      BY <1>2, <1>3 DEF EntityRead
    <3>2. QED
      BY <1>2, <3>1, EntityCalls
  <2>2. Ask(c, call) /\ UNCHANGED <<task, entity>> /\ entity.version < MaxVersion
    BY <1>3 DEF EntityRead, EntityCall
  <2> HIDE DEF call
  <2>3. Follows(call) /\ Lucky(call)
    BY <1>1, <1>2, <2>1, <2>2 DEF Follows, Lucky, Counted
  <2>4. QED
    BY <2>1, <2>2, <2>3, RowsKept
<1>4. CASE EntityCommit(c) /\ entity.version = asks[c].expected
  <2>1. /\ entity' = [version |-> entity.version + 1, body |-> asks[c].body] /\ task' = task
        /\ Answer(c, entity.version + 1) /\ asks[c].step = "entity"
    BY <1>4 DEF EntityCommit
  <2>2. PICK call \in Call : Ask(c, call) /\ call.step = "done"
    <3>1. entity.version + 1 \in 0..MaxVersion
      BY <1>1, <1>2, <1>4, <2>1 DEF Follows
    <3>2. Ask(c, Done(entity.version + 1))
      BY <2>1 DEF Answer, Done
    <3>3. QED
      BY <3>1, <3>2, DoneCalls
  <2>3. asks[c].body = entity.version + 1
    BY <1>1, <1>4, <2>1 DEF Follows
  <2>4. Counted' /\ entity' \in VersionedRow
    <3>1. entity.version + 1 \in 0..MaxVersion
      BY <1>1, <1>2, <1>4, <2>1 DEF Follows
    <3>2. QED
      BY <1>1, <1>2, <2>1, <2>3, <3>1 DEF Counted, VersionedRow
  <2>5. QED
    BY <1>1, <1>2, <2>1, <2>2, <2>4, EndKeeps
<1>5. CASE EntityCommit(c) /\ entity.version # asks[c].expected
  <2> DEFINE call == [asks[c] EXCEPT !.step = "conflict"]
  <2>1. call \in Call /\ call.step = "conflict" /\ call.mode = asks[c].mode
    BY <1>1, Moves
  <2>2. Ask(c, call) /\ UNCHANGED <<task, entity>> /\ asks[c].step = "entity"
    BY <1>5 DEF EntityCommit
  <2>3. Follows(call) /\ Lucky(call)
    BY <1>1, <2>1, <2>2 DEF Follows, Lucky
  <2> HIDE DEF call
  <2>4. QED
    BY <2>1, <2>2, <2>3, RowsKept
<1>6. QED
  BY <1>3, <1>4, <1>5

LEMMA TraceSteps ==
  ASSUME RecordsInv, NEW c \in Caller, UNCHANGED careful,
         \/ \E t \in Trace : \E s \in TraceScope : AppendTraceEvent(c, t, s)
         \/ BindTrace(c) \/ CreateEvent(c) \/ GoAway(c)
  PROVE  RecordsInv'
<1>1. /\ asks[c] \in Call /\ Follows(asks[c]) /\ Lucky(asks[c])
  BY DEF RecordsInv, RowTypes, CallsFit
<1>2. UNCHANGED <<careful, task, entity>>
  BY DEF AppendTraceEvent, BindTrace, CreateEvent, GoAway
<1>3. CASE \E t \in Trace : \E s \in TraceScope : AppendTraceEvent(c, t, s)
  <2>1. PICK t \in Trace, s \in TraceScope : AppendTraceEvent(c, t, s)
    BY <1>3
  <2>2. PICK call \in {TraceCall(t, s), LateCall(t, s), LostCall(t)} : Ask(c, call)
    BY <2>1 DEF AppendTraceEvent, TraceCall, LateCall, LostCall
  <2>3. call \in Call /\ call.step \in {"bind", "conflict"} /\ call.trace # Absent
        /\ (call.step = "bind" => call.scope # Absent)
    BY <2>2, TraceCalls, RecordsAssumption
  <2>4. Follows(call) /\ Lucky(call)
    BY <2>3 DEF Follows, Lucky
  <2>5. QED
    BY <1>2, <2>2, <2>3, <2>4, RowsKept
<1>4. CASE BindTrace(c)
  <2> DEFINE call == [asks[c] EXCEPT !.step = "append"]
  <2>1. call \in Call /\ call.step = "append" /\ call.trace = asks[c].trace
        /\ call.scope = asks[c].scope
    BY <1>1, Moves
  <2>2. Ask(c, call) /\ asks[c].step = "bind"
    BY <1>4 DEF BindTrace
  <2>3. Follows(call) /\ Lucky(call)
    BY <1>1, <2>1, <2>2 DEF Follows, Lucky
  <2> HIDE DEF call
  <2>4. QED
    BY <1>2, <2>1, <2>2, <2>3, RowsKept
<1>5. CASE CreateEvent(c)
  <2> DEFINE ended == IF asks[c].refused THEN "conflict" ELSE "done"
             call == [asks[c] EXCEPT !.step = ended]
  <2>1. call \in Call /\ call.step \in {"conflict", "done"} /\ call.trace = asks[c].trace
    <3>1. ended \in {"conflict", "create", "append", "done", "busy"}
      OBVIOUS
    <3>2. ended \in {"conflict", "done"}
      OBVIOUS
    <3> HIDE DEF ended
    <3>3. QED
      BY <1>1, <3>1, <3>2, Moves
  <2>2. Ask(c, call) /\ asks[c].step = "append"
    BY <1>5 DEF CreateEvent
  <2>3. Follows(call) /\ Lucky(call)
    BY <1>1, <2>1, <2>2 DEF Follows, Lucky
  <2> HIDE DEF call
  <2>4. QED
    BY <1>2, <2>1, <2>2, <2>3, RowsKept
<1>6. CASE GoAway(c)
  <2>1. Ask(c, Idle) /\ Idle \in Call /\ Idle.step = "idle"
    BY <1>6, IdleCall DEF GoAway
  <2>2. Follows(Idle) /\ Lucky(Idle)
    BY <2>1 DEF Follows, Lucky
  <2>3. QED
    BY <1>2, <2>1, <2>2, RowsKept
<1>7. QED
  BY <1>3, <1>4, <1>5, <1>6

LEMMA RecordsInvInit == Init => RecordsInv
<1>1. SUFFICES ASSUME RecordsInit PROVE RecordsInv
  BY DEF Init
<1>2. /\ Idle \in Call /\ Idle.step = "idle" /\ NoRow \in VersionedRow
      /\ 1 \in 0..MaxVersion /\ NoRow.version = 0 /\ NoRow.body = 0
  BY IdleCall, RecordsAssumption DEF NoRow, VersionedRow
<1>3. RowTypes
  BY <1>1, <1>2 DEF RecordsInit, RowTypes, VersionedRow
<1>4. Counted
  BY <1>1, <1>2 DEF RecordsInit, Counted, NoRow
<1>5. CallsFit
  BY <1>1, <1>2 DEF RecordsInit, CallsFit, Follows, Lucky
<1>6. QED
  BY <1>3, <1>4, <1>5 DEF RecordsInv

LEMMA RecordsInvStep == RecordsInv /\ [Next]_vars => RecordsInv'
<1>1. SUFFICES ASSUME RecordsInv, [Next]_vars PROVE RecordsInv'
  OBVIOUS
<1>2. CASE UNCHANGED recordVars
  BY <1>1, <1>2 DEF recordVars, RecordsInv, RowTypes, Counted, CallsFit, Follows, Lucky
<1>3. CASE RecordsNext
  BY <1>1, <1>3, TaskSteps, EntitySteps, TraceSteps DEF RecordsNext
<1>4. QED
  BY <1>1, <1>2, <1>3 DEF Next, vars

LEMMA RecordsInvSuffices == RecordsInv => RacesLoseNothing
<1>1. ASSUME RecordsInv, NEW c \in Caller, asks[c].step \in {"conflict", "busy"},
             asks[c].mode = "any", asks[c].trace = Absent
      PROVE  asks[c].refused
  BY <1>1 DEF RecordsInv, CallsFit, Lucky
<1>2. QED
  BY <1>1 DEF RecordsInv, Counted, RacesLoseNothing

\* The rows of traces and of their events stay in their domains: an event is
\* appended to a trace of Trace, in a scope.
TracesFit == trace \in [Trace -> TraceScope \cup {Absent}] /\ events \subseteq (Trace \X TraceScope)

LEMMA TracesStep ==
  ASSUME RecordsInv, TracesFit, RecordsNext
  PROVE  TracesFit' /\ \A t \in Trace : trace[t] # Absent => trace'[t] = trace[t]
<1>1. CASE \E c \in Caller : BindTrace(c)
  <2>1. PICK c \in Caller : BindTrace(c)
    BY <1>1
  <2>2. /\ asks[c] \in Call /\ UNCHANGED events
        /\ trace' = [trace EXCEPT ![asks[c].trace] = IF @ = Absent THEN asks[c].scope ELSE @]
    BY <2>1 DEF RecordsInv, RowTypes, BindTrace
  <2>3. asks[c].scope \in TraceScope \cup {Absent}
    BY <2>2 DEF Call
  <2>4. QED
    BY <2>2, <2>3 DEF TracesFit
<1>2. CASE \E c \in Caller : CreateEvent(c)
  <2>1. PICK c \in Caller : CreateEvent(c)
    BY <1>2
  <2>2. /\ asks[c] \in Call /\ asks[c].step = "append" /\ Lucky(asks[c]) /\ UNCHANGED trace
        /\ events' = events \cup {<<asks[c].trace, asks[c].scope>>}
    BY <2>1 DEF RecordsInv, RowTypes, CallsFit, CreateEvent
  <2>3. asks[c].trace \in Trace /\ asks[c].scope \in TraceScope
    BY <2>2 DEF Call, Lucky
  <2>4. QED
    BY <2>2, <2>3 DEF TracesFit
<1>3. CASE UNCHANGED <<trace, events>>
  BY <1>3 DEF TracesFit
<1>4. QED
  BY <1>1, <1>2, <1>3 DEF RecordsNext, PutTaskState, UpdateTask, UpdateTaskMisses,
     EngineRefusesUpdate, CreateTask, CreateTaskLoses, EngineRefusesCreate, EntityRead,
     EntityCommit, AppendTraceEvent, GoAway

LEMMA RecordsTyped == Spec => [](RecordsInv /\ TracesFit)
<1>1. Init => TracesFit
  BY DEF Init, RecordsInit, TracesFit
<1>2. RecordsInv /\ TracesFit /\ [Next]_vars => TracesFit'
  <2>1. CASE UNCHANGED recordVars
    BY <2>1 DEF recordVars, TracesFit
  <2>2. QED
    BY <2>1, TracesStep DEF Next, vars
<1>3. QED
  BY <1>1, <1>2, RecordsInvInit, RecordsInvStep, PTL DEF Spec

\* For any number of callers, versions and traces: whatever overlaps, is refused
\* by the engine or is tried again, a slot or an entity whose writers guard what
\* they write holds as much as it has versions, and a call without a condition
\* gives up only when the engine refused one of its writes.
THEOREM NoUpdateLost == Spec => []RacesLoseNothing
BY RecordsTyped, RecordsInvSuffices, PTL

\* For any traces and scopes: a trace keeps the scope of its first event, and
\* what is shown of it there is never taken away by an append in another scope
\* (append_trace_event, get_trace).
THEOREM TracesKeepTheirScope == Spec => TraceKeepsItsScope
<1>1. RecordsInv /\ TracesFit /\ [Next]_vars =>
        [\A t \in Trace :
           /\ trace[t] # Absent => trace'[t] = trace[t]
           /\ \A s \in TraceScope :
                trace[t] = s => GetTrace(t, s) \subseteq GetTrace(t, s)']_recordVars
  <2>1. SUFFICES ASSUME RecordsInv, TracesFit, RecordsNext, NEW t \in Trace
                 PROVE  /\ trace[t] # Absent => trace'[t] = trace[t]
                        /\ \A s \in TraceScope :
                             trace[t] = s => GetTrace(t, s) \subseteq GetTrace(t, s)'
    BY DEF Next, vars
  <2>2. trace[t] # Absent => trace'[t] = trace[t]
    BY <2>1, TracesStep
  <2>3. events \subseteq events'
    BY <2>1 DEF RecordsNext, PutTaskState, UpdateTask, UpdateTaskMisses, EngineRefusesUpdate,
       CreateTask, CreateTaskLoses, EngineRefusesCreate, EntityRead, EntityCommit,
       AppendTraceEvent, BindTrace, CreateEvent, GoAway
  <2>4. ASSUME NEW s \in TraceScope, trace[t] = s
        PROVE  GetTrace(t, s) \subseteq GetTrace(t, s)'
    <3>1. trace'[t] = s
      BY <2>2, <2>4, RecordsAssumption
    <3>2. QED
      BY <2>3, <2>4, <3>1 DEF GetTrace
  <2>5. QED
    BY <2>2, <2>4
<1>2. QED
  BY <1>1, RecordsTyped, PTL DEF Spec, TraceKeepsItsScope

-----------------------------------------------------------------------------
(* The evidence *)

Putting == {"put", "write", "flush", "rename", "sync"}
\* The steps that carry the bytes of a content somewhere.
Carrying == Putting \cup {"lookup", "create", "back", "rebind", "stored"}

Here(a) == artifacts[a] # NoArtifact

\* No name stands for bytes that were not flushed.
DiskFits == \A b \in Backend, x \in Bytes : disk[b][x] \notin {"cached", "torn"}

OneRowPerContent ==
  \A a, b \in ArtifactId :
    Here(a) /\ artifacts[a].scope = artifacts[b].scope
      /\ artifacts[a].blake3 = artifacts[b].blake3 => a = b

SpansFit == \A s \in spans : artifacts[s[1]].scope = s[2]

\* What a call must have to be at its step.
Equipped(k) ==
  /\ k.step \in Carrying => k.bytes \in Bytes /\ k.to \in Backend
  /\ k.step = "get" => k.to \in Backend /\ k.flow = "relocate"
  /\ k.step \in {"back", "rebind"} => k.flow = "relocate"
  /\ k.step \in {"lookup", "create", "stored"} => k.flow = "store"
  /\ k.step \in Carrying /\ k.flow = "store" => k.scope \in Tenant
  /\ k.step = "stored" => k.row \in ArtifactId

First(todo) == {r \in todo : \A q \in todo : r[1] <= q[1]}

\* A relocation carries the content of the row it is at, which it rebinds only
\* to bytes it could read; an answer is the row that was asked for.
Fits(k) ==
  /\ \A t \in k.todo : Here(t[1])
  /\ k.step \in Carrying /\ k.flow = "relocate" =>
       \A r \in First(k.todo) : artifacts[r[1]].blake3 = k.bytes
  /\ k.step = "rebind" => Readable(k.to, k.bytes)
  /\ k.step = "stored" =>
       artifacts[k.row].scope = k.scope /\ artifacts[k.row].blake3 = k.bytes

WorkFits == \A w \in Actor : Equipped(work[w]) /\ Fits(work[w])

EvidenceInv ==
  EvidenceTypeOK /\ DiskFits /\ OneRowPerContent /\ SpansFit /\ WorkFits

-----------------------------------------------------------------------------

\* Rows stay, with their scope and content; one that moves points at bytes that
\* can be read.
RowsMove ==
  \A a \in ArtifactId : Here(a) =>
    /\ artifacts'[a] # NoArtifact
    /\ artifacts'[a].scope = artifacts[a].scope
    /\ artifacts'[a].blake3 = artifacts[a].blake3
    /\ \/ artifacts'[a].location = artifacts[a].location
       \/ disk'[artifacts'[a].location][artifacts'[a].blake3] \in {"linked", "whole"}

DiskMoves ==
  \A b \in Backend, x \in Bytes :
    disk[b][x] \in {"linked", "whole"} => disk'[b][x] \in {"linked", "whole"}

\* The step of RowsStayReadable.
StaysReadable ==
  outages' = outages =>
    \A a \in ArtifactId :
      artifacts[a] # NoArtifact /\ Readable(artifacts[a].location, artifacts[a].blake3)
        => Readable(artifacts[a].location, artifacts[a].blake3)'

StillFits(k) ==
  /\ \A t \in k.todo : artifacts'[t[1]] # NoArtifact
  /\ k.step \in Carrying /\ k.flow = "relocate" =>
       \A r \in First(k.todo) : artifacts'[r[1]].blake3 = k.bytes
  /\ k.step = "rebind" => disk'[k.to][k.bytes] \in {"cached", "linked", "whole"}
  /\ k.step = "stored" =>
       artifacts'[k.row].scope = k.scope /\ artifacts'[k.row].blake3 = k.bytes

LEMMA RowKinds ==
  ASSUME EvidenceTypeOK, NEW a \in ArtifactId
  PROVE  /\ Here(a) => /\ artifacts[a].scope \in Tenant /\ artifacts[a].blake3 \in Bytes
                       /\ artifacts[a].location \in Backend /\ artifacts[a] \in Artifact
         /\ ~Here(a) => /\ artifacts[a].scope = Nothing /\ artifacts[a].blake3 = Nothing
BY DEF EvidenceTypeOK, Here, Artifact, NoArtifact

\* Whoever moves, what a call knows stays true.
LEMMA FitsKeep ==
  ASSUME EvidenceTypeOK, DiskFits, RowsMove, DiskMoves, NEW k \in Work,
         Equipped(k), Fits(k)
  PROVE  StillFits(k)
<1>1. \A t \in k.todo : t[1] \in ArtifactId
  BY DEF Work
<1>2. \A t \in k.todo : artifacts'[t[1]] # NoArtifact
                        /\ artifacts'[t[1]].blake3 = artifacts[t[1]].blake3
  BY <1>1 DEF Fits, RowsMove
<1>3. k.step = "rebind" => disk'[k.to][k.bytes] \in {"cached", "linked", "whole"}
  <2>. SUFFICES ASSUME k.step = "rebind"
                PROVE  disk'[k.to][k.bytes] \in {"cached", "linked", "whole"}
    OBVIOUS
  <2>1. k.to \in Backend /\ k.bytes \in Bytes
    BY DEF Equipped, Carrying
  <2>2. disk[k.to][k.bytes] \in {"linked", "whole"}
    BY <2>1 DEF Fits, Readable, DiskFits
  <2>. QED BY <2>1, <2>2 DEF DiskMoves
<1>4. k.step = "stored" =>
        artifacts'[k.row].scope = k.scope /\ artifacts'[k.row].blake3 = k.bytes
  <2>. SUFFICES ASSUME k.step = "stored"
                PROVE  artifacts'[k.row].scope = k.scope /\ artifacts'[k.row].blake3 = k.bytes
    OBVIOUS
  <2>1. k.row \in ArtifactId /\ k.scope \in Tenant
    BY DEF Equipped, Carrying
  <2>2. Here(k.row)
    BY <2>1, RowKinds, EvidenceAssumption DEF Fits
  <2>. QED BY <2>1, <2>2 DEF Fits, RowsMove
<1>5. \A r \in First(k.todo) : r \in k.todo
  BY DEF First
<1>. QED BY <1>2, <1>3, <1>4, <1>5 DEF StillFits, Fits

LEMMA RowsStay ==
  ASSUME UNCHANGED artifacts
  PROVE  RowsMove
BY DEF RowsMove, Here

LEMMA DiskStays ==
  ASSUME UNCHANGED disk
  PROVE  DiskMoves
BY DEF DiskMoves

LEMMA ReadableStays ==
  ASSUME EvidenceInv, RowsMove, DiskMoves
  PROVE  StaysReadable
<1>. SUFFICES ASSUME NEW a \in ArtifactId, Here(a),
                     Readable(artifacts[a].location, artifacts[a].blake3)
              PROVE  disk'[artifacts'[a].location][artifacts'[a].blake3] \in {"linked", "whole"}
  BY DEF StaysReadable, Here, Readable
<1>1. artifacts[a].location \in Backend /\ artifacts[a].blake3 \in Bytes
  BY RowKinds DEF EvidenceInv
<1>2. disk[artifacts[a].location][artifacts[a].blake3] \in {"linked", "whole"}
  BY <1>1 DEF EvidenceInv, DiskFits, Readable
<1>. QED BY <1>1, <1>2 DEF RowsMove, DiskMoves

\* A step of one call: the tables it leaves, and what it knows afterwards.
LEMMA OneCallMoves ==
  ASSUME EvidenceInv, RowsMove, DiskMoves,
         disk' \in [Backend -> [Bytes -> Object]],
         artifacts' \in [ArtifactId -> Artifact \cup {NoArtifact}],
         DiskFits', OneRowPerContent',
         UNCHANGED <<spans, outages>>,
         NEW w \in Actor, NEW k \in Work, Set(w, k), Equipped(k), StillFits(k)
  PROVE  EvidenceInv' /\ StaysReadable
<1>1. /\ work' \in [Actor -> Work] /\ work'[w] = k
      /\ \A v \in Actor : v # w => work'[v] = work[v]
  BY DEF Set, EvidenceInv, EvidenceTypeOK
<1>2. EvidenceTypeOK'
  BY <1>1 DEF EvidenceInv, EvidenceTypeOK
<1>3. \A v \in Actor : StillFits(work'[v]) /\ Equipped(work'[v])
  <2>1. \A v \in Actor : v # w => StillFits(work[v]) /\ Equipped(work[v])
    BY FitsKeep DEF EvidenceInv, WorkFits, EvidenceTypeOK
  <2>. QED BY <1>1, <2>1
<1>4. WorkFits'
  BY <1>3 DEF WorkFits, Equipped, StillFits, Fits, Here, Readable
<1>5. SpansFit'
  <2>1. \A s \in spans : s[1] \in ArtifactId /\ s[2] \in Tenant
    BY DEF EvidenceInv, EvidenceTypeOK
  <2>2. \A s \in spans : Here(s[1])
    BY <2>1, RowKinds, EvidenceAssumption DEF EvidenceInv, SpansFit
  <2>. QED BY <2>1, <2>2 DEF EvidenceInv, SpansFit, RowsMove
<1>6. StaysReadable
  BY ReadableStays
<1>. QED BY <1>2, <1>4, <1>5, <1>6 DEF EvidenceInv

\* A step of one call that leaves every table alone.
LEMMA OneCallWaits ==
  ASSUME EvidenceInv, UNCHANGED <<disk, artifacts, spans, outages>>,
         NEW w \in Actor, NEW k \in Work, Set(w, k), Equipped(k), Fits(k)
  PROVE  EvidenceInv' /\ StaysReadable
<1>1. RowsMove /\ DiskMoves
  BY RowsStay, DiskStays
<1>2. StillFits(k)
  BY <1>1, FitsKeep DEF EvidenceInv
<1>3. /\ DiskFits' /\ OneRowPerContent'
      /\ disk' \in [Backend -> [Bytes -> Object]]
      /\ artifacts' \in [ArtifactId -> Artifact \cup {NoArtifact}]
  BY DEF EvidenceInv, EvidenceTypeOK, DiskFits, OneRowPerContent, Here
<1>. QED BY <1>1, <1>2, <1>3, OneCallMoves

LEMMA NoWorkFits ==
  NoWork \in Work /\ NoWork.todo = {} /\ NoWork.step = "idle"
  /\ Equipped(NoWork) /\ Fits(NoWork)
BY DEF NoWork, Work, Equipped, Fits, Carrying, Putting

LEMMA StepFields ==
  ASSUME NEW k \in Work, NEW step \in Carrying \cup {"get"}
  PROVE  LET n == [k EXCEPT !.step = step] IN
         /\ n \in Work /\ n.step = step /\ n.flow = k.flow /\ n.scope = k.scope
         /\ n.bytes = k.bytes /\ n.from = k.from /\ n.to = k.to /\ n.todo = k.todo
         /\ n.row = k.row
BY DEF Work, Carrying, Putting

-----------------------------------------------------------------------------
(* BlobStore::put *)

\* A put that goes on, or is through.
LEMMA PutGoesOn ==
  ASSUME EvidenceInv, NEW w \in Actor, work[w].step \in Putting,
         NEW step \in Putting \cup {AfterPut(w)}, Proceed(w, step),
         UNCHANGED <<artifacts, spans, outages>>,
         disk' \in [Backend -> [Bytes -> Object]], DiskFits', DiskMoves
  PROVE  EvidenceInv' /\ StaysReadable
<1>. DEFINE k == [work[w] EXCEPT !.step = step]
<1>1. work[w] \in Work /\ Equipped(work[w]) /\ Fits(work[w])
  BY DEF EvidenceInv, EvidenceTypeOK, WorkFits
<1>2. /\ step \in Carrying /\ step \notin {"rebind", "stored", "get", "create"}
      /\ step = "lookup" => work[w].flow = "store"
      /\ step = "back" => work[w].flow = "relocate"
  BY <1>1 DEF AfterPut, Putting, Carrying, Work
<1>3. /\ k \in Work /\ k.step = step /\ k.flow = work[w].flow /\ k.scope = work[w].scope
      /\ k.bytes = work[w].bytes /\ k.to = work[w].to /\ k.todo = work[w].todo
  BY <1>1, <1>2, StepFields
<1>4. Set(w, k)
  BY DEF Proceed
<1>. HIDE DEF k
<1>5. work[w].step \in Carrying
  BY DEF Carrying
<1>6. Equipped(k)
  BY <1>1, <1>2, <1>3, <1>5 DEF Equipped
<1>7. Fits(k)
  BY <1>1, <1>2, <1>3, <1>5 DEF Fits
<1>8. RowsMove /\ OneRowPerContent'
      /\ artifacts' \in [ArtifactId -> Artifact \cup {NoArtifact}]
  BY RowsStay DEF EvidenceInv, EvidenceTypeOK, OneRowPerContent, Here
<1>9. StillFits(k)
  BY <1>3, <1>6, <1>7, <1>8, FitsKeep DEF EvidenceInv
<1>. QED BY <1>3, <1>4, <1>6, <1>8, <1>9, OneCallMoves

\* What the code puts under a name has been flushed.
LEMMA PutKeepsDisk ==
  ASSUME EvidenceInv, NEW b \in Backend, NEW x \in Bytes,
         NEW object \in {"linked", "whole"}, Put(b, x, object)
  PROVE  disk' \in [Backend -> [Bytes -> Object]] /\ DiskFits' /\ DiskMoves
<1>. DEFINE row == [disk[b] EXCEPT ![x] = object]
<1>1. disk \in [Backend -> [Bytes -> Object]] /\ object \in Object
  BY DEF EvidenceInv, EvidenceTypeOK, Object
<1>2. /\ row \in [Bytes -> Object]
      /\ \A y \in Bytes : row[y] = IF y = x THEN object ELSE disk[b][y]
  BY <1>1
<1>3. disk' = [disk EXCEPT ![b] = row]
  BY DEF Put
<1>. HIDE DEF row
<1>4. /\ disk' \in [Backend -> [Bytes -> Object]]
      /\ \A c \in Backend : disk'[c] = IF c = b THEN row ELSE disk[c]
  BY <1>1, <1>2, <1>3
<1>5. DiskFits'
  BY <1>2, <1>4 DEF EvidenceInv, DiskFits
<1>6. DiskMoves
  BY <1>2, <1>4 DEF DiskMoves
<1>. QED BY <1>4, <1>5, <1>6

LEMMA BlobStep ==
  ASSUME EvidenceInv, NEW w \in Actor, Blob(w)
  PROVE  EvidenceInv' /\ StaysReadable
<1>1. UNCHANGED <<artifacts, spans, outages>> /\ work[w].step \in Putting
  BY DEF Blob, PutSkips, PutBegins, PutWrites, PutFlushes, PutRenames, PutFailsLate,
         PutSyncs, PutUploads, Putting
<1>2. work[w].bytes \in Bytes /\ work[w].to \in Backend
  BY <1>1 DEF EvidenceInv, WorkFits, Equipped, Carrying
<1>3. ASSUME NEW step \in Putting \cup {AfterPut(w)}, Proceed(w, step),
             \/ UNCHANGED disk
             \/ \E object \in {"linked", "whole"} : Put(work[w].to, work[w].bytes, object)
      PROVE  EvidenceInv' /\ StaysReadable
  <2>1. CASE UNCHANGED disk
    <3>1. disk' \in [Backend -> [Bytes -> Object]] /\ DiskFits' /\ DiskMoves
      BY <2>1, DiskStays DEF EvidenceInv, EvidenceTypeOK, DiskFits
    <3>. QED BY <1>1, <1>3, <3>1, PutGoesOn
  <2>2. CASE \E object \in {"linked", "whole"} : Put(work[w].to, work[w].bytes, object)
    <3>1. disk' \in [Backend -> [Bytes -> Object]] /\ DiskFits' /\ DiskMoves
      BY <1>2, <2>2, PutKeepsDisk
    <3>. QED BY <1>1, <1>3, <3>1, PutGoesOn
  <2>. QED BY <1>3, <2>1, <2>2
<1>4. CASE PutSkips(w)
  BY <1>3, <1>4 DEF PutSkips
<1>5. CASE PutBegins(w)
  BY <1>3, <1>5 DEF PutBegins, Putting
<1>6. CASE PutWrites(w)
  <2>1. CASE Exists(work[w].to, work[w].bytes)
    BY <1>3, <1>6, <2>1 DEF PutWrites
  <2>2. CASE ~Exists(work[w].to, work[w].bytes)
    BY <1>3, <1>6, <2>2 DEF PutWrites, Putting
  <2>. QED BY <2>1, <2>2
<1>7. CASE PutFlushes(w)
  BY <1>3, <1>7 DEF PutFlushes, Putting
<1>8. CASE PutRenames(w)
  BY <1>3, <1>8 DEF PutRenames, Putting
<1>9. CASE PutFailsLate(w)
  BY <1>3, <1>9 DEF PutFailsLate, Putting
<1>10. CASE PutSyncs(w)
  BY <1>3, <1>10 DEF PutSyncs
<1>11. CASE PutUploads(w)
  BY <1>3, <1>11 DEF PutUploads
<1>. QED
  BY <1>4, <1>5, <1>6, <1>7, <1>8, <1>9, <1>10, <1>11 DEF Blob

-----------------------------------------------------------------------------
(* The calls *)

LEMMA StoreStep ==
  ASSUME EvidenceInv, NEW w \in Actor, NEW s \in Tenant, NEW x \in Bytes,
         NEW b \in Backend, StoreArtifact(w, s, x, b)
  PROVE  EvidenceInv' /\ StaysReadable
<1>. DEFINE k == [NoWork EXCEPT !.step = "put", !.scope = s, !.bytes = x, !.to = b]
<1>1. /\ k \in Work /\ k.step = "put" /\ k.flow = "store" /\ k.scope = s /\ k.bytes = x
      /\ k.to = b /\ k.todo = {}
  BY DEF NoWork, Work
<1>2. Set(w, k) /\ UNCHANGED <<disk, artifacts, spans, outages>>
  BY DEF StoreArtifact
<1>. HIDE DEF k
<1>3. Equipped(k) /\ Fits(k)
  BY <1>1 DEF Equipped, Fits
<1>. QED BY <1>1, <1>2, <1>3, OneCallWaits

\* An answer is the row of the scope and content that were asked for.
LEMMA StoredFits ==
  ASSUME EvidenceInv, NEW w \in Actor, work[w].step \in {"lookup", "create"},
         NEW a \in ArtifactId
  PROVE  LET k == [work[w] EXCEPT !.step = "stored", !.row = a] IN
         /\ k \in Work /\ k.step = "stored" /\ k.row = a /\ k.flow = "store"
         /\ k.scope = work[w].scope /\ k.bytes = work[w].bytes /\ k.todo = work[w].todo
         /\ Equipped(k)
<1>. DEFINE k == [work[w] EXCEPT !.step = "stored", !.row = a]
<1>1. /\ work[w] \in Work /\ Equipped(work[w]) /\ work[w].step \in Carrying
      /\ work[w].flow = "store"
  BY DEF EvidenceInv, EvidenceTypeOK, WorkFits, Equipped, Carrying
<1>2. /\ k \in Work /\ k.step = "stored" /\ k.row = a /\ k.flow = work[w].flow
      /\ k.scope = work[w].scope /\ k.bytes = work[w].bytes /\ k.todo = work[w].todo
      /\ k.to = work[w].to
  BY <1>1 DEF Work
<1>. HIDE DEF k
<1>3. Equipped(k)
  BY <1>1, <1>2 DEF Equipped, Carrying
<1>. QED BY <1>1, <1>2, <1>3 DEF k

LEMMA AnswerStep ==
  ASSUME EvidenceInv, NEW w \in Actor, work[w].step \in {"lookup", "create"},
         NEW a \in Duplicates(w), Stored(w, a),
         UNCHANGED <<disk, artifacts, spans, outages>>
  PROVE  EvidenceInv' /\ StaysReadable
<1>. DEFINE k == [work[w] EXCEPT !.step = "stored", !.row = a]
<1>1. /\ a \in ArtifactId /\ artifacts[a].scope = work[w].scope
      /\ artifacts[a].blake3 = work[w].bytes
  BY DEF Duplicates, RowsOf
<1>2. /\ k \in Work /\ k.step = "stored" /\ k.row = a /\ k.flow = "store"
      /\ k.scope = work[w].scope /\ k.bytes = work[w].bytes /\ k.todo = work[w].todo
      /\ Equipped(k)
  BY <1>1, StoredFits
<1>3. Set(w, k)
  BY DEF Stored
<1>. HIDE DEF k
<1>4. Fits(k)
  BY <1>1, <1>2 DEF Fits, EvidenceInv, WorkFits
<1>. QED BY <1>2, <1>3, <1>4, OneCallWaits

LEMMA LookupStep ==
  ASSUME EvidenceInv, NEW w \in Actor, ArtifactLookup(w)
  PROVE  EvidenceInv' /\ StaysReadable
<1>1. work[w].step = "lookup" /\ UNCHANGED <<disk, artifacts, spans, outages>>
  BY DEF ArtifactLookup
<1>2. CASE \E a \in Duplicates(w) : Stored(w, a)
  BY <1>1, <1>2, AnswerStep
<1>3. CASE Proceed(w, "create")
  <2>. DEFINE k == [work[w] EXCEPT !.step = "create"]
  <2>1. /\ work[w] \in Work /\ Equipped(work[w]) /\ Fits(work[w])
        /\ work[w].step \in Carrying /\ "create" \in Carrying
    BY <1>1 DEF EvidenceInv, EvidenceTypeOK, WorkFits, Carrying
  <2>2. /\ k \in Work /\ k.step = "create" /\ k.flow = work[w].flow
        /\ k.scope = work[w].scope /\ k.bytes = work[w].bytes /\ k.to = work[w].to
        /\ k.todo = work[w].todo
    BY <2>1, StepFields
  <2>3. Set(w, k)
    BY <1>3 DEF Proceed
  <2>. HIDE DEF k
  <2>4. Equipped(k) /\ Fits(k)
    BY <1>1, <2>1, <2>2 DEF Equipped, Fits
  <2>. QED BY <1>1, <2>2, <2>3, <2>4, OneCallWaits
<1>. QED BY <1>2, <1>3 DEF ArtifactLookup

\* The unique index keeps one row for a content of a scope.
LEMMA CreateStep ==
  ASSUME EvidenceInv, NEW w \in Actor, ArtifactCreate(w)
  PROVE  EvidenceInv' /\ StaysReadable
<1>. DEFINE row == [scope |-> work[w].scope, blake3 |-> work[w].bytes,
                    location |-> work[w].to]
<1>1. PICK a \in ArtifactId :
        /\ artifacts[a] = NoArtifact /\ artifacts' = [artifacts EXCEPT ![a] = row]
        /\ Stored(w, a)
  BY DEF ArtifactCreate
<1>2. /\ work[w].step = "create" /\ UNCHANGED <<disk, spans, outages>>
      /\ RowsOf(work[w].scope, work[w].bytes) = {}
  BY DEF ArtifactCreate
<1>3. /\ work[w] \in Work /\ Equipped(work[w]) /\ Fits(work[w])
      /\ work[w].scope \in Tenant /\ work[w].bytes \in Bytes /\ work[w].to \in Backend
  BY <1>2 DEF EvidenceInv, EvidenceTypeOK, WorkFits, Equipped, Carrying
<1>4. /\ row \in Artifact /\ row # NoArtifact /\ row.scope = work[w].scope
      /\ row.blake3 = work[w].bytes
  BY <1>3, EvidenceAssumption DEF Artifact, NoArtifact
<1>. HIDE DEF row
<1>5. /\ artifacts' \in [ArtifactId -> Artifact \cup {NoArtifact}]
      /\ \A b \in ArtifactId : artifacts'[b] = IF b = a THEN row ELSE artifacts[b]
  BY <1>1, <1>4 DEF EvidenceInv, EvidenceTypeOK
<1>6. RowsMove /\ DiskMoves
  BY <1>1, <1>2, <1>5, DiskStays DEF RowsMove, Here
<1>7. disk' \in [Backend -> [Bytes -> Object]] /\ DiskFits'
  BY <1>2 DEF EvidenceInv, EvidenceTypeOK, DiskFits
<1>8. OneRowPerContent'
  <2>1. \A b \in ArtifactId :
          ~(artifacts[b].scope = work[w].scope /\ artifacts[b].blake3 = work[w].bytes)
    BY <1>2 DEF RowsOf
  <2>. QED BY <1>4, <1>5, <2>1 DEF EvidenceInv, OneRowPerContent, Here
<1>. DEFINE k == [work[w] EXCEPT !.step = "stored", !.row = a]
<1>9. /\ k \in Work /\ k.step = "stored" /\ k.row = a /\ k.flow = "store"
      /\ k.scope = work[w].scope /\ k.bytes = work[w].bytes /\ k.todo = work[w].todo
      /\ Equipped(k)
  BY <1>2, StoredFits
<1>10. Set(w, k)
  BY <1>1 DEF Stored
<1>. HIDE DEF k
<1>11. StillFits(k)
  <2>1. \A t \in work[w].todo : t[1] \in ArtifactId
    BY <1>3 DEF Work
  <2>. QED BY <1>3, <1>4, <1>5, <1>6, <1>9, <2>1 DEF StillFits, Fits, RowsMove
<1>. QED BY <1>2, <1>5, <1>6, <1>7, <1>8, <1>9, <1>10, <1>11, OneCallMoves

LEMMA CreateLosesStep ==
  ASSUME EvidenceInv, NEW w \in Actor, ArtifactCreateLoses(w)
  PROVE  EvidenceInv' /\ StaysReadable
BY AnswerStep DEF ArtifactCreateLoses

LEMMA RelocateStep ==
  ASSUME EvidenceInv, NEW w \in Actor, NEW from \in Backend, NEW to \in Backend,
         NEW s \in Tenant \cup {Nothing}, Relocate(w, from, to, s)
  PROVE  EvidenceInv' /\ StaysReadable
<1>. DEFINE todo == {<<a, artifacts[a].location>> : a \in Listed(s)}
            k == [NoWork EXCEPT !.step = "get", !.flow = "relocate", !.scope = s,
                                !.from = from, !.to = to, !.todo = todo]
<1>1. /\ todo \subseteq ArtifactId \X Backend
      /\ \A t \in todo : Here(t[1])
  <2>1. \A a \in Listed(s) : a \in ArtifactId /\ Here(a) /\ artifacts[a].location \in Backend
    BY RowKinds DEF EvidenceInv, Listed, Here
  <2>. QED BY <2>1
<1>2. Set(w, k) /\ UNCHANGED <<disk, artifacts, spans, outages>>
  BY DEF Relocate
<1>. HIDE DEF todo
<1>3. /\ k \in Work /\ k.step = "get" /\ k.flow = "relocate" /\ k.to = to /\ k.todo = todo
  BY <1>1 DEF NoWork, Work
<1>. HIDE DEF k
<1>4. Equipped(k) /\ Fits(k)
  BY <1>1, <1>3 DEF Equipped, Fits, Carrying, Putting
<1>. QED BY <1>2, <1>3, <1>4, OneCallWaits

\* A row that is done, or left alone.
LEMMA SkippedFits ==
  ASSUME EvidenceInv, NEW w \in Actor, work[w].step \in {"get", "back", "rebind"}, NEW r
  PROVE  LET k == [work[w] EXCEPT !.step = "get", !.todo = @ \ {r}] IN
         k \in Work /\ Equipped(k) /\ Fits(k)
<1>. DEFINE k == [work[w] EXCEPT !.step = "get", !.todo = @ \ {r}]
<1>1. /\ work[w] \in Work /\ Fits(work[w]) /\ work[w].flow = "relocate"
      /\ work[w].to \in Backend
  BY DEF EvidenceInv, EvidenceTypeOK, WorkFits, Equipped, Carrying
<1>2. /\ k \in Work /\ k.step = "get" /\ k.flow = work[w].flow /\ k.to = work[w].to
      /\ k.todo = work[w].todo \ {r}
  BY <1>1 DEF Work
<1>. HIDE DEF k
<1>3. Equipped(k) /\ Fits(k)
  BY <1>1, <1>2 DEF Equipped, Fits, Carrying, Putting
<1>. QED BY <1>2, <1>3 DEF k

LEMMA GetStep ==
  ASSUME EvidenceInv, NEW w \in Actor, RelocateGet(w)
  PROVE  EvidenceInv' /\ StaysReadable
<1>1. PICK r \in NextRows(w) :
        IF r[2] = work[w].from /\ Readable(work[w].from, artifacts[r[1]].blake3)
        THEN Set(w, [work[w] EXCEPT !.step = "put", !.bytes = artifacts[r[1]].blake3])
        ELSE Skipped(w, r)
  BY DEF RelocateGet
<1>2. work[w].step = "get" /\ UNCHANGED <<disk, artifacts, spans, outages>>
  BY DEF RelocateGet
<1>3. CASE Skipped(w, r)
  BY <1>2, <1>3, SkippedFits, OneCallWaits DEF Skipped
<1>4. CASE Set(w, [work[w] EXCEPT !.step = "put", !.bytes = artifacts[r[1]].blake3])
  <2>. DEFINE x == artifacts[r[1]].blake3
              k == [work[w] EXCEPT !.step = "put", !.bytes = x]
  <2>1. /\ work[w] \in Work /\ Fits(work[w]) /\ work[w].flow = "relocate"
        /\ work[w].to \in Backend
    BY <1>2 DEF EvidenceInv, EvidenceTypeOK, WorkFits, Equipped
  <2>2. r \in work[w].todo /\ r[1] \in ArtifactId /\ Here(r[1])
    BY <2>1 DEF NextRows, Work, Fits
  <2>3. x \in Bytes
    BY <2>2, RowKinds DEF EvidenceInv
  <2>4. \A q \in First(work[w].todo) : q[1] = r[1]
    <3>1. \A q \in work[w].todo : q[1] \in Nat
      BY <2>1, EvidenceAssumption DEF Work, ArtifactId
    <3>. QED BY <2>2, <3>1 DEF First, NextRows
  <2>. HIDE DEF x
  <2>5. /\ k \in Work /\ k.step = "put" /\ k.flow = work[w].flow /\ k.bytes = x
        /\ k.to = work[w].to /\ k.todo = work[w].todo
    BY <2>1, <2>3 DEF Work
  <2>6. Set(w, k)
    BY <1>4 DEF x
  <2>. HIDE DEF k
  <2>7. \A q \in First(work[w].todo) : artifacts[q[1]].blake3 = x
    BY <2>4 DEF x
  <2>8. Equipped(k) /\ Fits(k)
    BY <2>1, <2>3, <2>5, <2>7 DEF Equipped, Fits
  <2>. QED BY <1>2, <2>5, <2>6, <2>8, OneCallWaits
<1>. QED BY <1>1, <1>3, <1>4

LEMMA BackStep ==
  ASSUME EvidenceInv, NEW w \in Actor, ReadBack(w)
  PROVE  EvidenceInv' /\ StaysReadable
<1>1. work[w].step = "back" /\ UNCHANGED <<disk, artifacts, spans, outages>>
  BY DEF ReadBack
<1>2. CASE \E r \in NextRows(w) : Skipped(w, r)
  BY <1>1, <1>2, SkippedFits, OneCallWaits DEF Skipped
<1>3. CASE Readable(work[w].to, work[w].bytes) /\ Proceed(w, "rebind")
  <2>. DEFINE k == [work[w] EXCEPT !.step = "rebind"]
  <2>1. /\ work[w] \in Work /\ Equipped(work[w]) /\ Fits(work[w])
        /\ work[w].step \in Carrying /\ "rebind" \in Carrying
    BY <1>1 DEF EvidenceInv, EvidenceTypeOK, WorkFits, Carrying
  <2>2. /\ k \in Work /\ k.step = "rebind" /\ k.flow = work[w].flow
        /\ k.scope = work[w].scope /\ k.bytes = work[w].bytes /\ k.to = work[w].to
        /\ k.todo = work[w].todo
    BY <2>1, StepFields
  <2>3. Set(w, k)
    BY <1>3 DEF Proceed
  <2>. HIDE DEF k
  <2>4. Equipped(k) /\ Fits(k)
    BY <1>1, <1>3, <2>1, <2>2 DEF Equipped, Fits
  <2>. QED BY <1>1, <2>2, <2>3, <2>4, OneCallWaits
<1>. QED BY <1>2, <1>3 DEF ReadBack

\* The row is moved to bytes that were read back and have stayed readable.
LEMMA RebindStep ==
  ASSUME EvidenceInv, NEW w \in Actor, Rebind(w)
  PROVE  EvidenceInv' /\ StaysReadable
<1>1. PICK r \in NextRows(w) :
        /\ artifacts' = IF artifacts[r[1]].location = r[2]
                        THEN [artifacts EXCEPT ![r[1]].location = work[w].to] ELSE artifacts
        /\ Skipped(w, r)
  BY DEF Rebind
<1>2. work[w].step = "rebind" /\ UNCHANGED <<disk, spans, outages>>
  BY DEF Rebind
<1>. DEFINE k == [work[w] EXCEPT !.step = "get", !.todo = @ \ {r}]
<1>3. Set(w, k) /\ k \in Work /\ Equipped(k) /\ Fits(k)
  BY <1>1, <1>2, SkippedFits DEF Skipped
<1>. HIDE DEF k
<1>4. CASE artifacts' = artifacts
  BY <1>2, <1>3, <1>4, OneCallWaits
<1>5. CASE artifacts' = [artifacts EXCEPT ![r[1]].location = work[w].to]
  <2>. DEFINE a == r[1]
              row == [artifacts[a] EXCEPT !.location = work[w].to]
  <2>1. /\ work[w] \in Work /\ Equipped(work[w]) /\ Fits(work[w])
        /\ work[w].flow = "relocate" /\ work[w].step \in Carrying
        /\ work[w].to \in Backend /\ work[w].bytes \in Bytes
    BY <1>2 DEF EvidenceInv, EvidenceTypeOK, WorkFits, Equipped, Carrying
  <2>2. r \in work[w].todo /\ a \in ArtifactId /\ Here(a) /\ r \in First(work[w].todo)
    BY <2>1 DEF NextRows, Work, Fits, First
  <2>3. artifacts[a].blake3 = work[w].bytes
    BY <2>1, <2>2 DEF Fits
  <2>4. disk[work[w].to][work[w].bytes] \in {"linked", "whole"}
    BY <1>2, <2>1 DEF Fits, Readable, EvidenceInv, DiskFits
  <2>5. artifacts[a] \in Artifact
    BY <2>2, RowKinds DEF EvidenceInv
  <2>6. /\ row \in Artifact /\ row # NoArtifact /\ row.scope = artifacts[a].scope
        /\ row.blake3 = artifacts[a].blake3 /\ row.location = work[w].to
    BY <2>1, <2>5, EvidenceAssumption DEF Artifact, NoArtifact
  <2>7. artifacts' = [artifacts EXCEPT ![a] = row]
    BY <1>5
  <2>. HIDE DEF row, a
  <2>8. /\ artifacts' \in [ArtifactId -> Artifact \cup {NoArtifact}]
        /\ \A b \in ArtifactId : artifacts'[b] = IF b = a THEN row ELSE artifacts[b]
    BY <2>2, <2>6, <2>7 DEF EvidenceInv, EvidenceTypeOK
  <2>9. DiskMoves /\ DiskFits' /\ disk' \in [Backend -> [Bytes -> Object]]
    BY <1>2, DiskStays DEF EvidenceInv, EvidenceTypeOK, DiskFits
  <2>10. RowsMove
    BY <1>2, <2>3, <2>4, <2>6, <2>8 DEF RowsMove, Here
  <2>11. OneRowPerContent'
    BY <2>2, <2>6, <2>8 DEF EvidenceInv, OneRowPerContent, Here
  <2>12. StillFits(k)
    BY <1>3, <2>9, <2>10, FitsKeep DEF EvidenceInv
  <2>. QED BY <1>2, <1>3, <2>8, <2>9, <2>10, <2>11, <2>12, OneCallMoves
<1>. QED BY <1>1, <1>4, <1>5

LEMMA EndsStep ==
  ASSUME EvidenceInv, NEW w \in Actor, RelocateEnds(w) \/ Fail(w)
  PROVE  EvidenceInv' /\ StaysReadable
BY NoWorkFits, OneCallWaits DEF RelocateEnds, Fail

LEMMA SpanStep ==
  ASSUME EvidenceInv, NEW a \in ArtifactId, NEW s \in Tenant, PutSpan(a, s)
  PROVE  EvidenceInv' /\ StaysReadable
<1>1. /\ spans' = spans \cup {<<a, s>>} /\ artifacts[a].scope = s
      /\ UNCHANGED <<disk, artifacts, work, outages>>
  BY DEF PutSpan
<1>2. EvidenceTypeOK' /\ SpansFit'
  BY <1>1 DEF EvidenceInv, EvidenceTypeOK, SpansFit
<1>3. DiskFits' /\ OneRowPerContent' /\ WorkFits'
  BY <1>1 DEF EvidenceInv, DiskFits, OneRowPerContent, WorkFits, Equipped, Fits, Here, Readable
<1>4. StaysReadable
  BY <1>1, RowsStay, DiskStays, ReadableStays
<1>. QED BY <1>2, <1>3, <1>4 DEF EvidenceInv

\* An outage ends every call, and leaves no name for bytes that were lost.
LEMMA OutageStep ==
  ASSUME EvidenceInv, Outage
  PROVE  EvidenceInv' /\ StaysReadable
<1>1. /\ disk' \in [Backend -> [Bytes -> Object]]
      /\ \A b \in Backend, x \in Bytes : disk'[b][x] \in Left(disk[b][x])
      /\ work' = [w \in Actor |-> NoWork] /\ UNCHANGED <<artifacts, spans>>
      /\ outages < MaxOutages /\ outages' = outages + 1
  BY DEF Outage
<1>2. outages \in 0..MaxOutages /\ outages' \in 0..MaxOutages /\ outages' # outages
  BY <1>1, EvidenceAssumption DEF EvidenceInv, EvidenceTypeOK
<1>3. EvidenceTypeOK'
  BY <1>1, <1>2, NoWorkFits DEF EvidenceInv, EvidenceTypeOK
<1>4. DiskFits'
  BY <1>1 DEF EvidenceInv, DiskFits, Left
<1>5. OneRowPerContent' /\ SpansFit'
  BY <1>1 DEF EvidenceInv, OneRowPerContent, SpansFit, Here
<1>6. WorkFits'
  BY <1>1, NoWorkFits DEF WorkFits, Equipped, Fits, Carrying, Putting
<1>7. StaysReadable
  BY <1>2 DEF StaysReadable
<1>. QED BY <1>3, <1>4, <1>5, <1>6, <1>7 DEF EvidenceInv

LEMMA EvidenceStep ==
  ASSUME EvidenceInv, EvidenceNext
  PROVE  EvidenceInv' /\ StaysReadable
BY StoreStep, BlobStep, LookupStep, CreateStep, CreateLosesStep, RelocateStep, GetStep,
   BackStep, RebindStep, EndsStep, SpanStep, OutageStep DEF EvidenceNext

LEMMA EvidenceStays ==
  ASSUME EvidenceInv, UNCHANGED evidenceVars
  PROVE  EvidenceInv'
BY DEF evidenceVars, EvidenceInv, EvidenceTypeOK, DiskFits, OneRowPerContent, SpansFit,
       WorkFits, Equipped, Fits, Here, Readable

LEMMA EvidenceInvStep == EvidenceInv /\ [Next]_vars => EvidenceInv'
BY EvidenceStep, EvidenceStays DEF Next, vars

LEMMA EvidenceInvInit == Init => EvidenceInv
<1>. SUFFICES ASSUME Init PROVE EvidenceInv
  OBVIOUS
<1>1. /\ disk \in [Backend -> [Bytes -> Object]] /\ DiskFits
      /\ artifacts \in [ArtifactId -> Artifact \cup {NoArtifact}]
      /\ \A a, b \in ArtifactId : Here(a) /\ Here(b) => a = b
      /\ spans = {} /\ outages = 0 /\ work = [w \in Actor |-> NoWork]
  <2>1. CASE EvidenceEmpty
    BY <2>1 DEF EvidenceEmpty, Object, DiskFits, Here
  <2>2. CASE EvidenceInit
    <3>1. PICK rows \in SUBSET (Tenant \X Bytes) : \E place \in [rows -> Backend] :
            artifacts = [a \in ArtifactId |->
              IF a = 1 /\ rows # {}
              THEN LET r == CHOOSE x \in rows : TRUE
                   IN [scope |-> r[1], blake3 |-> r[2], location |-> place[r]]
              ELSE NoArtifact]
      BY <2>2 DEF EvidenceInit
    <3>2. rows # {} => (CHOOSE x \in rows : TRUE) \in rows
      OBVIOUS
    <3>3. /\ artifacts \in [ArtifactId -> Artifact \cup {NoArtifact}]
          /\ \A a \in ArtifactId : Here(a) => a = 1
      BY <3>1, <3>2 DEF Artifact, Here
    <3>4. disk \in [Backend -> [Bytes -> Object]] /\ DiskFits
      BY <2>2 DEF EvidenceInit, Object, DiskFits
    <3>. QED BY <2>2, <3>3, <3>4 DEF EvidenceInit
  <2>. QED BY <2>1, <2>2 DEF Init
<1>2. EvidenceTypeOK
  BY <1>1, NoWorkFits, EvidenceAssumption DEF EvidenceTypeOK
<1>3. OneRowPerContent
  <2>1. \A a, b \in ArtifactId : Here(a) /\ artifacts[a].scope = artifacts[b].scope => Here(b)
    BY <1>2, RowKinds, EvidenceAssumption
  <2>. QED BY <1>1, <2>1 DEF OneRowPerContent
<1>4. WorkFits
  BY <1>1, NoWorkFits DEF WorkFits
<1>. QED BY <1>1, <1>2, <1>3, <1>4 DEF EvidenceInv, SpansFit

\* What the rows, the objects and the calls in flight agree on holds in every
\* behaviour.
THEOREM EvidenceInvariant == Spec => []EvidenceInv
BY EvidenceInvInit, EvidenceInvStep, PTL DEF Spec

\* For any writers of the same bytes and any outages: a completed name is never
\* a partial write, because a file is flushed before it gets its name
\* (nomiso-blob durable_cas_install).
THEOREM WholeNames == Spec => []CompletedNamesAreWhole
<1>1. EvidenceInv => CompletedNamesAreWhole
  BY DEF EvidenceInv, DiskFits, CompletedNamesAreWhole
<1>. QED BY <1>1, EvidenceInvariant, PTL

\* For any scopes and contents: one row for a content of a scope, answers name
\* the row that was asked for, and a span lives in the scope of its artifact
\* (store put_artifact, put_span).
THEOREM EvidenceScopes == Spec => []EvidenceStaysInScope
<1>1. EvidenceInv => EvidenceStaysInScope
  BY DEF EvidenceInv, OneRowPerContent, SpansFit, WorkFits, Fits, Here, EvidenceStaysInScope
<1>. QED BY <1>1, EvidenceInvariant, PTL

\* For any relocations in any direction, failing anywhere: a row whose bytes can
\* be read where it points keeps pointing at readable bytes
\* (relocate_artifacts, relocate_object, rebind_artifact_location).
THEOREM ReadableRows == Spec => RowsStayReadable
<1>1. EvidenceInv /\ [Next]_vars => [StaysReadable]_evidenceVars
  BY EvidenceStep DEF Next, vars
<1>2. Spec => [][StaysReadable]_evidenceVars
  BY <1>1, EvidenceInvariant, PTL DEF Spec
<1>. QED BY <1>2 DEF RowsStayReadable, StaysReadable

-----------------------------------------------------------------------------
(* The types of the planes *)

\* The markers and the serving generation are those of a process of the fleet.
MarkersFit ==
  /\ generation \in {Declared[p] : p \in Process} \cup {Unknown, Missing}
  /\ version \in {Version[p] : p \in Process} \cup {0}
  /\ dimension \in {Dimension[p] : p \in Process} \cup {Missing}
  /\ fleet \in Fleets

LEMMA MarkersStep ==
  ASSUME LedgerInv, MarkersFit, LedgerNext
  PROVE  MarkersFit'
<1>1. UNCHANGED fleet /\ fleet \subseteq Process
  BY DEF LedgerNext, LedgerInv, LedgerTypes
<1>2. ASSUME NEW p \in Process, CreateGeneration(p) PROVE MarkersFit'
  BY <1>1, <1>2 DEF CreateGeneration, MarkersFit
<1>3. ASSUME NEW p \in Process, MarkVersion(p) PROVE MarkersFit'
  BY <1>1, <1>3 DEF MarkVersion, MarkersFit
<1>4. ASSUME NEW p \in Process, MarkDimension(p) PROVE MarkersFit'
  BY <1>1, <1>4 DEF MarkDimension, MarkersFit
<1>5. CASE UNCHANGED <<generation, version, dimension>>
  BY <1>1, <1>5 DEF MarkersFit
<1>6. \/ UNCHANGED <<generation, version, dimension>>
      \/ \E p \in fleet : CreateGeneration(p) \/ MarkVersion(p) \/ MarkDimension(p)
  BY DEF LedgerNext, Migrate, Boot, Halt, CheckVersion, CheckDimension, ClaimMigration,
     SkipApplied, WaitTooLong, Apply, ApplyFails, MarkFailed, Complete, CheckGeneration,
     ClaimAges
<1>7. QED
  BY <1>1, <1>2, <1>3, <1>4, <1>5, <1>6

LEMMA LedgerTyped == LedgerInv /\ MarkersFit => LedgerTypeOK
<1>1. SUFFICES ASSUME LedgerInv, MarkersFit PROVE LedgerTypeOK
  OBVIOUS
<1>2. \A p \in Process : at[p].migration \in Migration
  BY <1>1, ScriptShape DEF LedgerInv, LedgerTypes
<1>3. at \in [Process -> [step : Stage, migration : Migration]]
  BY <1>1, <1>2 DEF LedgerInv, LedgerTypes
<1>4. QED
  BY <1>1, <1>3 DEF LedgerInv, LedgerTypes, MarkersFit, LedgerTypeOK

LEMMA LedgerStaysTyped == Spec => []LedgerTypeOK
<1>1. Init => MarkersFit
  BY DEF Init, LedgerInit, MarkersFit
<1>2. LedgerInv /\ MarkersFit /\ [Next]_vars => MarkersFit'
  <2>1. CASE UNCHANGED ledgerVars
    BY <2>1 DEF ledgerVars, MarkersFit
  <2>2. QED
    BY <2>1, MarkersStep DEF Next, vars
<1>3. QED
  BY <1>1, <1>2, LedgerInvInit, LedgerInvStep, LedgerTyped, PTL DEF Spec

\* For any processes, callers and actors: the rows and the calls of the three
\* planes stay in their domains; no body, expected or reported version leaves the
\* versions a row has had, and no call of put_task_state makes a fourth attempt.
THEOREM PlanesTyped == Spec => []TypeOK
<1>1. RecordsInv /\ TracesFit => RecordsTypeOK
  BY DEF RecordsInv, RowTypes, TracesFit, RecordsTypeOK
<1>2. EvidenceInv => EvidenceTypeOK
  BY DEF EvidenceInv
<1>3. LedgerTypeOK /\ RecordsTypeOK /\ EvidenceTypeOK => TypeOK
  BY DEF TypeOK
<1>4. QED
  BY <1>1, <1>2, <1>3, LedgerStaysTyped, RecordsTyped, EvidenceInvariant, PTL
=============================================================================
