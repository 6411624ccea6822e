---------------------------- MODULE ReindexProofs ----------------------------
(***************************************************************************)
(* Proofs about embedding generations and the reindex executor, for any    *)
(* numbers of rows, generations, identities, callers and attempts.         *)
(*                                                                         *)
(* A vector is written under what a call read earlier, and a checkpoint is *)
(* recorded for a page staged earlier.  `CallsFit` and `RunsFit` say what  *)
(* such a call and such an attempt still know; `TablesMove` says what no   *)
(* step of anyone does to the tables, which is why they still know it.     *)
(***************************************************************************)
EXTENDS Reindex, FiniteSetTheorems, TLAPS

\* What a call has read is told by its operation.
LEMMA CallKinds ==
  ASSUME NEW r \in Call
  PROVE  /\ r.op \in {"adopt", "attest"} => r.generation \in Generation /\ r.model \in Model
         /\ r.op = "recheck" => r.model \in Model
         /\ r.op = "write" => r.vector \in Model \cup {Raw} /\ r.stamp \in Generation
         /\ r.op = "activate" => r.generation \in Generation
BY DEF Call, NoCall

\* A count of memories is a number of memories.
LEMMA CountsFit ==
  ASSUME NEW S \in SUBSET MemoryId
  PROVE  Cardinality(S) \in 0..MaxMemories
<1>1. IsFiniteSet(MemoryId) /\ Cardinality(MemoryId) = MaxMemories
  BY FS_Interval, GenerationAssumption DEF MemoryId
<1>2. IsFiniteSet(S) /\ Cardinality(S) <= MaxMemories
  BY <1>1, FS_Subset
<1>. QED BY <1>2, FS_CardinalityType, GenerationAssumption

-----------------------------------------------------------------------------

\* An identity that is declared, adopted or attested is for ever; a generation
\* nobody declared has none, and one that builds has one.
Known(g) == generations[g].model # Unknown

GenerationsFit ==
  /\ \A g \in Generation : generations[g].status = "absent" => ~Known(g)
  /\ \A g \in Generation : generations[g].status = "building" => Known(g)
  /\ \A g \in Generation, m \in MemoryId : <<g, m>> \in staged => Known(g)

OneActive == \E g \in Generation : \A k \in Generation : IsActive(k) <=> k = g

\* What a call that has read will write is still true.
CallsFit ==
  \A c \in Caller :
    /\ call[c].op \in {"adopt", "attest"} =>
         generations[call[c].generation].status # "absent"
    /\ call[c].op = "write" /\ call[c].vector \in Model =>
         generations[call[c].stamp].model = call[c].vector

StagedAreKept ==
  \A g \in Generation, m \in MemoryId :
    <<g, m>> \in staged => memories[m].state # "erased"

\* A cursor lists rows that exist, and those it has behind it are done.
Behind(g, rows) ==
  \A m \in rows : memories[m].state = "erased" \/ <<g, m>> \in staged

CursorFits(g, cursor, page) ==
  /\ \A m \in cursor.asOf : memories[m].state # "absent"
  /\ Behind(g, cursor.asOf \ (cursor.rest \cup page))

JobFits == CursorFits(job.generation, job.cursor, {})

\* What an attempt knows: the rows behind its cursor and page are staged, and
\* once it found its generation building it may stage into it; a scope it is
\* through with has nothing left.
RunKnows(r) ==
  /\ CursorFits(run[r].generation, run[r].cursor, run[r].page)
  /\ run[r].pc \notin {"check", "stage"} => run[r].page = {}
  /\ run[r].pc = "stage" => Known(run[r].generation)
  /\ run[r].pc = "scope" => run[r].cursor.rest = {}

\* A token is held once, and its holder runs the job that is leased if no later
\* one was granted.
TokenFits(r) ==
  run[r].pc # "idle" =>
    /\ run[r].token <= job.token
    /\ run[r].token = job.token =>
         job.state = "leased" /\ run[r].generation = job.generation
    /\ \A s \in Runner \ {r} : run[s].pc # "idle" => run[r].token # run[s].token

RunsFit == \A r \in Runner : RunKnows(r) /\ TokenFits(r)

-----------------------------------------------------------------------------
(* The tables. *)

TablesTyped ==
  /\ generations \in [Generation -> GenerationRow]
  /\ memories \in [MemoryId -> MemoryRow]
  /\ staged \subseteq Generation \X MemoryId

TablesInv ==
  TablesTyped /\ GenerationsFit /\ OneActive /\ StampsAreTruthful /\ StagedAreKept

\* Identities are kept, declared generations stay declared, rows are not
\* forgotten, and only an erasure takes a staged vector away.
GenerationsMove ==
  \A g \in Generation :
    /\ Known(g) => generations'[g].model = generations[g].model
    /\ generations[g].status # "absent" => generations'[g].status # "absent"

MemoriesMove ==
  \A m \in MemoryId :
    /\ memories[m].state # "absent" => memories'[m].state # "absent"
    /\ memories[m].state = "erased" => memories'[m].state = "erased"

StagedMove ==
  \A g \in Generation, m \in MemoryId :
    <<g, m>> \in staged => <<g, m>> \in staged' \/ memories'[m].state = "erased"

TablesMove == GenerationsMove /\ MemoriesMove /\ StagedMove

TablesStep == TablesInv' /\ TablesMove

LEMMA TablesStay ==
  ASSUME TablesInv, UNCHANGED tables
  PROVE  TablesStep
BY DEF TablesStep, TablesInv, TablesTyped, GenerationsFit, OneActive, StampsAreTruthful,
       StagedAreKept, TablesMove, GenerationsMove, MemoriesMove, StagedMove, tables,
       Known, IsActive, Embedded

\* Rows whose vectors and stamps are kept stay truthful.
LEMMA StampsKeep ==
  ASSUME TablesInv, GenerationsMove,
         \A m \in MemoryId : m \in Embedded' =>
           /\ m \in Embedded
           /\ memories'[m].vector = memories[m].vector
           /\ memories'[m].stamp = memories[m].stamp
  PROVE  StampsAreTruthful'
<1>. SUFFICES ASSUME NEW m \in MemoryId, m \in Embedded', memories'[m].vector \in Model
              PROVE  /\ memories'[m].stamp # 0
                     /\ generations'[memories'[m].stamp].model = memories'[m].vector
  BY DEF StampsAreTruthful, Embedded
<1>1. /\ memories[m].stamp # 0
      /\ generations[memories[m].stamp].model = memories[m].vector
      /\ memories'[m].vector = memories[m].vector /\ memories'[m].stamp = memories[m].stamp
  BY DEF TablesInv, StampsAreTruthful
<1>2. memories[m].stamp \in Generation
  BY <1>1, GenerationAssumption DEF TablesInv, TablesTyped, MemoryRow, Generation
<1>3. Known(memories[m].stamp)
  BY <1>1, GenerationAssumption DEF Known
<1>. QED BY <1>1, <1>2, <1>3 DEF GenerationsMove

LEMMA IdentifiedTables ==
  ASSUME TablesInv, NEW g \in Generation, NEW model \in Model,
         generations[g].status # "absent", Identified(g, model),
         UNCHANGED <<memories, staged>>
  PROVE  TablesStep
<1>. DEFINE row == [generations[g] EXCEPT !.model = IF @ = Unknown THEN model ELSE @]
<1>. generations \in [Generation -> GenerationRow] BY DEF TablesInv, TablesTyped
<1>1. /\ row \in GenerationRow /\ row.status = generations[g].status
      /\ row.model = IF Known(g) THEN generations[g].model ELSE model
      /\ row.model # Unknown
  BY GenerationAssumption DEF GenerationRow, Known
<1>2. generations' = [generations EXCEPT ![g] = row]
  BY DEF Identified
<1>. HIDE DEF row
<1>3. /\ generations' \in [Generation -> GenerationRow]
      /\ \A k \in Generation : generations'[k] = IF k = g THEN row ELSE generations[k]
  BY <1>1, <1>2
<1>4. \A k \in Generation : generations'[k].status = generations[k].status
  BY <1>1, <1>3
<1>5. GenerationsMove
  BY <1>1, <1>3, <1>4 DEF GenerationsMove
<1>6. MemoriesMove /\ StagedMove
  BY DEF MemoriesMove, StagedMove
<1>7. TablesTyped' /\ StagedAreKept'
  BY <1>3 DEF TablesInv, TablesTyped, StagedAreKept
<1>8. \A k \in Generation : Known(k) => Known(k)'
  BY <1>5 DEF GenerationsMove, Known
<1>9. GenerationsFit'
  BY <1>1, <1>3, <1>4, <1>8 DEF TablesInv, GenerationsFit, Known
<1>10. OneActive'
  BY <1>4 DEF TablesInv, OneActive, IsActive
<1>11. StampsAreTruthful'
  BY <1>5, StampsKeep DEF Embedded
<1>. QED BY <1>5, <1>6, <1>7, <1>9, <1>10, <1>11 DEF TablesStep, TablesInv, TablesMove

LEMMA DeclareTables ==
  ASSUME TablesInv, NEW c \in Caller, NEW model \in Model, Declare(c, model)
  PROVE  TablesStep
<1>1. PICK g \in Generation :
        /\ generations[g].status = "absent"
        /\ generations' = [generations EXCEPT ![g] =
             [status |-> "building", model |-> model, count |-> 0]]
  BY DEF Declare
<1>. /\ generations \in [Generation -> GenerationRow]
     /\ UNCHANGED <<memories, staged>>
  BY DEF TablesInv, TablesTyped, Declare
<1>. DEFINE row == [status |-> "building", model |-> model, count |-> 0]
<1>2. row \in GenerationRow /\ row.status = "building" /\ row.model # Unknown
  BY GenerationAssumption DEF GenerationRow
<1>. HIDE DEF row
<1>3. /\ generations' \in [Generation -> GenerationRow]
      /\ \A k \in Generation : generations'[k] = IF k = g THEN row ELSE generations[k]
  BY <1>1, <1>2 DEF row
<1>4. ~Known(g)
  BY <1>1 DEF TablesInv, GenerationsFit
<1>5. GenerationsMove
  BY <1>1, <1>3, <1>4 DEF GenerationsMove
<1>6. MemoriesMove /\ StagedMove
  BY DEF MemoriesMove, StagedMove
<1>7. TablesTyped' /\ StagedAreKept'
  BY <1>3 DEF TablesInv, TablesTyped, StagedAreKept
<1>8. GenerationsFit'
  BY <1>2, <1>3 DEF TablesInv, GenerationsFit, Known
<1>9. OneActive'
  BY <1>1, <1>2, <1>3 DEF TablesInv, OneActive, IsActive
<1>10. StampsAreTruthful'
  BY <1>5, StampsKeep DEF Embedded
<1>. QED BY <1>5, <1>6, <1>7, <1>8, <1>9, <1>10 DEF TablesStep, TablesInv, TablesMove

LEMMA WriteTables ==
  ASSUME TablesInv, CallsFit, NEW c \in Caller, call \in [Caller -> Call], Write(c)
  PROVE  TablesStep
<1>1. PICK m \in MemoryId, closing \in SUBSET Valid :
        /\ NewRow(m)
        /\ memories' = [k \in MemoryId |->
             IF k = m THEN [state |-> "valid", vector |-> call[c].vector,
                            stamp |-> call[c].stamp]
             ELSE IF k \in closing THEN [memories[k] EXCEPT !.state = "closed"]
             ELSE memories[k]]
  BY DEF Write
<1>. /\ memories \in [MemoryId -> MemoryRow]
     /\ call[c].op = "write"
     /\ UNCHANGED <<generations, staged>>
  BY DEF TablesInv, TablesTyped, Write
<1>2. call[c].vector \in Model \cup {Raw} /\ call[c].stamp \in Generation
  BY CallKinds
<1>. DEFINE new == [state |-> "valid", vector |-> call[c].vector, stamp |-> call[c].stamp]
<1>3. /\ new \in MemoryRow /\ new.state = "valid" /\ new.vector = call[c].vector
      /\ new.stamp = call[c].stamp /\ new.stamp # 0
  BY <1>2, GenerationAssumption DEF MemoryRow, Generation
<1>4. \A k \in MemoryId : LET closed == [memories[k] EXCEPT !.state = "closed"]
        IN  /\ closed \in MemoryRow /\ closed.state = "closed"
            /\ closed.vector = memories[k].vector /\ closed.stamp = memories[k].stamp
  BY DEF MemoryRow
<1>. HIDE DEF new
<1>5. /\ memories' \in [MemoryId -> MemoryRow]
      /\ memories'[m] = new
      /\ \A k \in MemoryId : k # m =>
           /\ memories'[k].vector = memories[k].vector
           /\ memories'[k].stamp = memories[k].stamp
           /\ \/ memories'[k].state = memories[k].state
              \/ memories[k].state = "valid" /\ memories'[k].state = "closed"
  BY <1>1, <1>3, <1>4 DEF new, Valid
<1>6. memories[m].state = "absent"
  BY <1>1 DEF NewRow
<1>7. GenerationsMove /\ StagedMove
  BY DEF GenerationsMove, StagedMove
<1>8. MemoriesMove
  BY <1>3, <1>5, <1>6 DEF MemoriesMove
<1>9. TablesTyped'
  BY <1>5 DEF TablesInv, TablesTyped
<1>10. GenerationsFit' /\ OneActive'
  BY DEF TablesInv, GenerationsFit, OneActive, Known, IsActive
<1>11. StagedAreKept'
  BY <1>3, <1>5 DEF TablesInv, StagedAreKept
<1>12. StampsAreTruthful'
  <2>. SUFFICES ASSUME NEW k \in MemoryId, k \in Embedded', memories'[k].vector \in Model
                PROVE  /\ memories'[k].stamp # 0
                       /\ generations[memories'[k].stamp].model = memories'[k].vector
    BY DEF StampsAreTruthful, Embedded
  <2>1. CASE k = m
    BY <2>1, <1>3, <1>5 DEF CallsFit
  <2>2. CASE k # m
    BY <2>2, <1>5 DEF TablesInv, StampsAreTruthful, Embedded
  <2>. QED BY <2>1, <2>2
<1>. QED BY <1>7, <1>8, <1>9, <1>10, <1>11, <1>12 DEF TablesStep, TablesInv, TablesMove

LEMMA ForgetTables ==
  ASSUME TablesInv, NEW c \in Caller, NEW m \in MemoryId, Forget(c, m)
  PROVE  TablesStep
<1>. /\ memories \in [MemoryId -> MemoryRow]
     /\ memories[m].state = "valid"
     /\ UNCHANGED <<generations, staged>>
  BY DEF TablesInv, TablesTyped, Forget, Valid
<1>. DEFINE row == [memories[m] EXCEPT !.state = "closed"]
<1>1. /\ row \in MemoryRow /\ row.state = "closed"
      /\ row.vector = memories[m].vector /\ row.stamp = memories[m].stamp
  BY DEF MemoryRow
<1>. HIDE DEF row
<1>2. /\ memories' \in [MemoryId -> MemoryRow]
      /\ \A k \in MemoryId : memories'[k] = IF k = m THEN row ELSE memories[k]
  BY <1>1 DEF Forget, row
<1>3. GenerationsMove /\ StagedMove
  BY DEF GenerationsMove, StagedMove
<1>4. MemoriesMove
  BY <1>1, <1>2 DEF MemoriesMove
<1>5. TablesTyped'
  BY <1>2 DEF TablesInv, TablesTyped
<1>6. GenerationsFit' /\ OneActive'
  BY DEF TablesInv, GenerationsFit, OneActive, Known, IsActive
<1>7. StagedAreKept'
  BY <1>1, <1>2 DEF TablesInv, StagedAreKept
<1>8. StampsAreTruthful'
  BY <1>1, <1>2, <1>3, StampsKeep DEF Embedded
<1>. QED BY <1>3, <1>4, <1>5, <1>6, <1>7, <1>8 DEF TablesStep, TablesInv, TablesMove

LEMMA EraseTables ==
  ASSUME TablesInv, NEW c \in Caller, NEW m \in MemoryId, Erase(c, m)
  PROVE  TablesStep
<1>. /\ memories \in [MemoryId -> MemoryRow]
     /\ staged' = {s \in staged : s[2] # m}
     /\ UNCHANGED generations
  BY DEF TablesInv, TablesTyped, Erase
<1>. DEFINE row == [NoRow EXCEPT !.state = "erased"]
<1>1. row \in MemoryRow /\ row.state = "erased"
  BY GenerationAssumption DEF MemoryRow, NoRow
<1>. HIDE DEF row
<1>2. /\ memories' \in [MemoryId -> MemoryRow]
      /\ \A k \in MemoryId : memories'[k] = IF k = m THEN row ELSE memories[k]
  BY <1>1 DEF Erase, row
<1>3. \A g \in Generation, k \in MemoryId :
        <<g, k>> \in staged' <=> <<g, k>> \in staged /\ k # m
  OBVIOUS
<1>4. GenerationsMove /\ StagedMove
  BY <1>1, <1>2, <1>3 DEF GenerationsMove, StagedMove
<1>5. MemoriesMove
  BY <1>1, <1>2 DEF MemoriesMove
<1>6. TablesTyped'
  BY <1>2 DEF TablesInv, TablesTyped
<1>7. GenerationsFit' /\ OneActive'
  BY <1>3 DEF TablesInv, GenerationsFit, OneActive, Known, IsActive
<1>8. StagedAreKept'
  BY <1>2, <1>3 DEF TablesInv, StagedAreKept
<1>9. StampsAreTruthful'
  BY <1>1, <1>2, <1>4, StampsKeep DEF Embedded
<1>. QED BY <1>4, <1>5, <1>6, <1>7, <1>8, <1>9 DEF TablesStep, TablesInv, TablesMove

LEMMA StagingTables ==
  ASSUME TablesInv, NEW g \in Generation, NEW items \in SUBSET MemoryId,
         Known(g), AllPresent(items), Staging(g, items)
  PROVE  TablesStep /\ \A m \in items : <<g, m>> \in staged'
<1>. DEFINE n == Cardinality(StagedFor(g) \cup items)
            row == [generations[g] EXCEPT !.count = n]
<1>. /\ generations \in [Generation -> GenerationRow]
     /\ staged' = staged \cup ({g} \X items)
     /\ UNCHANGED memories
  BY DEF TablesInv, TablesTyped, Staging
<1>1. n \in 0..MaxMemories
  BY CountsFit DEF StagedFor
<1>. HIDE DEF n
<1>2. /\ row \in GenerationRow /\ row.status = generations[g].status
      /\ row.model = generations[g].model
  BY <1>1 DEF GenerationRow
<1>. HIDE DEF row
<1>3. /\ generations' \in [Generation -> GenerationRow]
      /\ \A k \in Generation : generations'[k] = IF k = g THEN row ELSE generations[k]
  BY <1>2 DEF Staging, row, n
<1>4. \A k \in Generation : /\ generations'[k].status = generations[k].status
                            /\ generations'[k].model = generations[k].model
  BY <1>2, <1>3
<1>5. \A k \in Generation, m \in MemoryId :
        <<k, m>> \in staged' <=> <<k, m>> \in staged \/ (k = g /\ m \in items)
  OBVIOUS
<1>6. GenerationsMove /\ MemoriesMove /\ StagedMove
  BY <1>4, <1>5 DEF GenerationsMove, MemoriesMove, StagedMove
<1>7. TablesTyped'
  BY <1>3 DEF TablesInv, TablesTyped
<1>8. GenerationsFit' /\ OneActive'
  BY <1>4, <1>5 DEF TablesInv, GenerationsFit, OneActive, Known, IsActive
<1>9. StagedAreKept'
  BY <1>5 DEF TablesInv, StagedAreKept, AllPresent, Embedded
<1>10. StampsAreTruthful'
  BY <1>6, StampsKeep DEF Embedded
<1>. QED
  BY <1>5, <1>6, <1>7, <1>8, <1>9, <1>10 DEF TablesStep, TablesInv, TablesMove

\* The swap of a generation that covers every row: it alone serves, and every
\* row carries its stamp.
LEMMA SwapTables ==
  ASSUME TablesInv, NEW g \in Generation, Covers(g), Activating(g)
  PROVE  /\ TablesStep
         /\ \A k \in Generation : IsActive(k)' <=> k = g
         /\ \A m \in Embedded' : memories'[m].stamp = g
<1>. DEFINE swapped(m) == [memories[m] EXCEPT !.vector = generations[g].model, !.stamp = g]
            served == [generations[g] EXCEPT !.status = "active"]
            retired(k) == [generations[k] EXCEPT !.status = "retired"]
<1>. /\ generations \in [Generation -> GenerationRow]
     /\ memories \in [MemoryId -> MemoryRow]
     /\ UNCHANGED staged
  BY DEF TablesInv, TablesTyped, Activating
<1>1. \A m \in MemoryId : m \in Embedded => <<g, m>> \in staged
  BY DEF Covers, StagedFor
<1>2. \A m \in MemoryId : m \in Embedded => generations[g].model \in Model
  BY <1>1 DEF TablesInv, GenerationsFit, Known, GenerationRow
<1>3. \A m \in MemoryId : m \in Embedded =>
        /\ swapped(m) \in MemoryRow /\ swapped(m).state = memories[m].state
        /\ swapped(m).vector = generations[g].model /\ swapped(m).stamp = g
  <2>. SUFFICES ASSUME NEW m \in MemoryId, m \in Embedded
                PROVE  /\ swapped(m) \in MemoryRow /\ swapped(m).state = memories[m].state
                       /\ swapped(m).vector = generations[g].model /\ swapped(m).stamp = g
    OBVIOUS
  <2>1. /\ generations[g].model \in Model \cup {Raw} /\ g \in 0..MaxGenerations
        /\ memories[m] \in MemoryRow
    BY <1>2, GenerationAssumption DEF Generation
  <2>. QED BY <2>1 DEF MemoryRow
<1>4. /\ served \in GenerationRow /\ served.status = "active"
      /\ served.model = generations[g].model
  BY DEF GenerationRow
<1>5. \A k \in Generation : /\ retired(k) \in GenerationRow /\ retired(k).status = "retired"
                            /\ retired(k).model = generations[k].model
  BY DEF GenerationRow
<1>6. memories' = [m \in MemoryId |->
        IF m \in StagedFor(g) \cap Embedded THEN swapped(m) ELSE memories[m]]
  BY DEF Activating
<1>7. generations' = [k \in Generation |->
        IF k = g THEN [generations[k] EXCEPT !.status = "active"]
        ELSE IF IsActive(k) THEN retired(k) ELSE generations[k]]
  BY DEF Activating
<1>8. /\ generations' \in [Generation -> GenerationRow]
      /\ \A k \in Generation : generations'[k] = IF k = g THEN served
           ELSE IF IsActive(k) THEN retired(k) ELSE generations[k]
  <2>. HIDE DEF retired
  <2>1. \A k \in Generation : k = g => [generations[k] EXCEPT !.status = "active"] = served
    OBVIOUS
  <2>. HIDE DEF served
  <2>. QED BY <1>4, <1>5, <1>7, <2>1
<1>. HIDE DEF swapped, served, retired
<1>9. /\ memories' \in [MemoryId -> MemoryRow]
      /\ \A m \in MemoryId : memories'[m] = IF m \in Embedded THEN swapped(m) ELSE memories[m]
  BY <1>1, <1>3, <1>6 DEF StagedFor
<1>10. \A k \in Generation : /\ generations'[k].model = generations[k].model
                             /\ IsActive(k)' <=> k = g
                             /\ generations'[k].status = "absent" => generations[k].status = "absent"
                             /\ generations'[k].status = "building" => generations[k].status = "building"
  BY <1>4, <1>5, <1>8 DEF IsActive
<1>11. \A m \in MemoryId : memories'[m].state = memories[m].state
  BY <1>3, <1>9
<1>12. \A m \in MemoryId : m \in Embedded' =>
         /\ m \in Embedded /\ memories'[m].stamp = g
         /\ memories'[m].vector = generations[g].model
  BY <1>3, <1>9, <1>11 DEF Embedded
<1>13. TablesMove
  BY <1>10, <1>11 DEF TablesMove, GenerationsMove, MemoriesMove, StagedMove
<1>14. TablesTyped'
  BY <1>8, <1>9 DEF TablesInv, TablesTyped
<1>15. GenerationsFit' /\ OneActive'
  BY <1>10 DEF TablesInv, GenerationsFit, OneActive, Known, IsActive
<1>16. StagedAreKept'
  BY <1>11 DEF TablesInv, StagedAreKept
<1>17. StampsAreTruthful'
  BY <1>10, <1>12, GenerationAssumption DEF StampsAreTruthful, Embedded, Generation
<1>18. \A m \in Embedded' : memories'[m].stamp = g
  BY <1>12 DEF Embedded
<1>. QED
  BY <1>10, <1>13, <1>14, <1>15, <1>16, <1>17, <1>18 DEF TablesStep, TablesInv

-----------------------------------------------------------------------------
(* The calls. *)

\* Whoever moves, what a call in flight knows stays true.
LEMMA CallsKeep ==
  ASSUME TablesInv, CallsFit, GenerationsMove, call \in [Caller -> Call],
         NEW d \in Caller, UNCHANGED call[d]
  PROVE  /\ call'[d].op \in {"adopt", "attest"} =>
              generations'[call'[d].generation].status # "absent"
         /\ call'[d].op = "write" /\ call'[d].vector \in Model =>
              generations'[call'[d].stamp].model = call'[d].vector
<1>1. CASE call[d].op \in {"adopt", "attest"}
  BY <1>1, CallKinds DEF CallsFit, GenerationsMove
<1>2. CASE call[d].op = "write" /\ call[d].vector \in Model
  <2>1. /\ generations[call[d].stamp].model = call[d].vector
        /\ call[d].stamp \in Generation /\ Known(call[d].stamp)
    BY <1>2, CallKinds, GenerationAssumption DEF CallsFit, Known
  <2>. QED BY <1>2, <2>1 DEF GenerationsMove
<1>. QED BY <1>1, <1>2

\* A caller that says nothing that has to be known.
LEMMA CallsSay ==
  ASSUME TablesInv, CallsFit, GenerationsMove, call \in [Caller -> Call],
         NEW c \in Caller, NEW r \in Call, Say(c, r),
         r.op \in {"adopt", "attest"} => generations'[r.generation].status # "absent",
         r.op = "write" /\ r.vector \in Model => generations'[r.stamp].model = r.vector
  PROVE  CallsFit' /\ call' \in [Caller -> Call]
<1>1. /\ call' \in [Caller -> Call] /\ call'[c] = r
      /\ \A d \in Caller : d # c => call'[d] = call[d]
  BY DEF Say
<1>2. \A d \in Caller : d # c =>
        /\ call'[d].op \in {"adopt", "attest"} =>
             generations'[call'[d].generation].status # "absent"
        /\ call'[d].op = "write" /\ call'[d].vector \in Model =>
             generations'[call'[d].stamp].model = call'[d].vector
  BY <1>1, CallsKeep
<1>. QED BY <1>1, <1>2 DEF CallsFit

LEMMA CallsSilent ==
  ASSUME TablesInv, CallsFit, GenerationsMove, call \in [Caller -> Call], UNCHANGED call
  PROVE  CallsFit' /\ call' \in [Caller -> Call]
BY CallsKeep DEF CallsFit

LEMMA CallWords ==
  /\ NoCall \in Call /\ NoCall.op = "none"
  /\ \A g \in Generation, model \in Model :
       /\ [op |-> "adopt", generation |-> g, model |-> model] \in Call
       /\ [op |-> "attest", generation |-> g, model |-> model] \in Call
       /\ [op |-> "recheck", model |-> model] \in Call
  /\ \A g \in Generation, vector \in Model \cup {Raw} :
       [op |-> "write", vector |-> vector, stamp |-> g] \in Call
  /\ \A g \in Generation : [op |-> "activate", generation |-> g] \in Call
BY DEF Call, NoCall

StoreInv == TablesInv /\ CallsFit /\ call \in [Caller -> Call]

\* No step but a complete swap makes a generation serve.
OnlyCompleteServe ==
  \A g \in Generation :
    ~IsActive(g) /\ IsActive(g)' => \A m \in Embedded' : memories'[m].stamp = g

LEMMA ServeAsBefore ==
  ASSUME \A g \in Generation : generations'[g].status = "active" =>
           generations[g].status = "active"
  PROVE  OnlyCompleteServe
BY DEF OnlyCompleteServe, IsActive

LEMMA IdentifiedServes ==
  ASSUME TablesInv, NEW g \in Generation, NEW model, Identified(g, model)
  PROVE  OnlyCompleteServe
<1>. generations \in [Generation -> GenerationRow] BY DEF TablesInv, TablesTyped
<1>1. \A k \in Generation : generations'[k].status = generations[k].status
  BY DEF Identified, GenerationRow
<1>. QED BY <1>1, ServeAsBefore

\* One step per operation of the store.
LEMMA StoreStep ==
  ASSUME StoreInv, Next
  PROVE  StoreInv' /\ TablesMove /\ OnlyCompleteServe
<1>. TablesInv /\ CallsFit /\ call \in [Caller -> Call] BY DEF StoreInv
<1>. PICK c \in Caller :
       \/ \E vector \in Model \cup {Raw} : ResolveStamp(c, vector)
       \/ \E model \in Model :
            ResolveAdopt(c, model) \/ AttestRead(c, model) \/ Declare(c, model)
       \/ Adopt(c) \/ AdoptRecheck(c) \/ Write(c) \/ Attest(c)
       \/ \E m \in MemoryId : Forget(c, m) \/ Erase(c, m)
       \/ \E g \in Generation : ActivateRead(c, g)
       \/ Activate(c) \/ GiveUp(c)
  BY DEF Next
<1>1. ASSUME UNCHANGED tables,
             NEW r \in Call, Say(c, r),
             r.op \in {"adopt", "attest"} => generations[r.generation].status # "absent",
             r.op = "write" /\ r.vector \in Model => generations[r.stamp].model = r.vector
      PROVE  StoreInv' /\ TablesMove /\ OnlyCompleteServe
  <2>1. TablesStep /\ UNCHANGED generations
    BY <1>1, TablesStay DEF tables
  <2>2. CallsFit' /\ call' \in [Caller -> Call]
    BY <1>1, <2>1, CallsSay DEF TablesStep, TablesMove
  <2>3. OnlyCompleteServe
    BY <2>1, ServeAsBefore
  <2>. QED BY <2>1, <2>2, <2>3 DEF StoreInv, TablesStep
<1>2. ASSUME TablesStep, OnlyCompleteServe, Say(c, NoCall) \/ UNCHANGED call
      PROVE  StoreInv' /\ TablesMove /\ OnlyCompleteServe
  BY <1>2, CallsSay, CallsSilent, CallWords DEF StoreInv, TablesStep, TablesMove
<1>3. ASSUME NEW vector \in Model \cup {Raw}, ResolveStamp(c, vector)
      PROVE  StoreInv' /\ TablesMove /\ OnlyCompleteServe
  <2>1. PICK g \in Generation :
          /\ vector \in {Raw, generations[g].model}
          /\ Say(c, [op |-> "write", vector |-> vector, stamp |-> g])
    BY <1>3 DEF ResolveStamp
  <2>2. vector \in Model => generations[g].model = vector
    BY <2>1, GenerationAssumption
  <2>. QED BY <1>1, <1>3, <2>1, <2>2, CallWords DEF ResolveStamp
<1>4. ASSUME NEW model \in Model, ResolveAdopt(c, model)
      PROVE  StoreInv' /\ TablesMove /\ OnlyCompleteServe
  <2>1. PICK g \in Generation :
          IsActive(g) /\ Say(c, [op |-> "adopt", generation |-> g, model |-> model])
    BY <1>4 DEF ResolveAdopt
  <2>. QED BY <1>1, <1>4, <2>1, CallWords DEF ResolveAdopt, IsActive
<1>5. ASSUME NEW model \in Model, AttestRead(c, model)
      PROVE  StoreInv' /\ TablesMove /\ OnlyCompleteServe
  <2>1. PICK g \in Generation :
          IsActive(g) /\ Say(c, [op |-> "attest", generation |-> g, model |-> model])
    BY <1>5 DEF AttestRead
  <2>. QED BY <1>1, <1>5, <2>1, CallWords DEF AttestRead, IsActive
<1>6. ASSUME NEW model \in Model, Declare(c, model)
      PROVE  StoreInv' /\ TablesMove /\ OnlyCompleteServe
  <2>1. TablesStep
    BY <1>6, DeclareTables
  <2>2. \A g \in Generation : generations'[g].status = "active" =>
          generations[g].status = "active"
    BY <1>6 DEF Declare, TablesInv, TablesTyped
  <2>. QED BY <1>2, <1>6, <2>1, <2>2, ServeAsBefore DEF Declare
<1>7. CASE Adopt(c)
  <2>1. /\ call[c].generation \in Generation /\ call[c].model \in Model
        /\ generations[call[c].generation].status # "absent"
    BY <1>7, CallKinds DEF Adopt, CallsFit
  <2>2. TablesStep
    BY <1>7, <2>1, IdentifiedTables DEF Adopt
  <2>3. OnlyCompleteServe
    BY <1>7, <2>1, IdentifiedServes DEF Adopt
  <2>4. CallsFit' /\ call' \in [Caller -> Call]
    BY <1>7, <2>1, <2>2, CallsSay, CallWords DEF Adopt, TablesStep, TablesMove
  <2>. QED BY <2>2, <2>3, <2>4 DEF StoreInv, TablesStep
<1>8. CASE AdoptRecheck(c)
  <2>1. PICK g \in Generation :
          Say(c, IF generations[g].model = call[c].model
                 THEN [op |-> "write", vector |-> call[c].model, stamp |-> g]
                 ELSE NoCall)
    BY <1>8 DEF AdoptRecheck
  <2>2. call[c].model \in Model
    BY <1>8, CallKinds DEF AdoptRecheck
  <2>. DEFINE r == IF generations[g].model = call[c].model
                   THEN [op |-> "write", vector |-> call[c].model, stamp |-> g]
                   ELSE NoCall
  <2>3. /\ r \in Call /\ r.op \notin {"adopt", "attest"}
        /\ r.op = "write" => generations[r.stamp].model = r.vector
    BY <2>2, CallWords
  <2>. HIDE DEF r
  <2>4. Say(c, r) BY <2>1 DEF r
  <2>. QED BY <1>1, <1>8, <2>3, <2>4 DEF AdoptRecheck
<1>9. CASE Write(c)
  <2>1. TablesStep
    BY <1>9, WriteTables
  <2>. QED BY <1>2, <1>9, <2>1, ServeAsBefore DEF Write
<1>10. CASE Attest(c)
  <2>1. /\ call[c].generation \in Generation /\ call[c].model \in Model
        /\ generations[call[c].generation].status # "absent"
    BY <1>10, CallKinds DEF Attest, CallsFit
  <2>2. TablesStep
    BY <1>10, <2>1, IdentifiedTables DEF Attest
  <2>3. OnlyCompleteServe
    BY <1>10, <2>1, IdentifiedServes DEF Attest
  <2>. QED BY <1>2, <1>10, <2>2, <2>3 DEF Attest
<1>11. ASSUME NEW m \in MemoryId, Forget(c, m) \/ Erase(c, m)
       PROVE  StoreInv' /\ TablesMove /\ OnlyCompleteServe
  <2>1. TablesStep
    BY <1>11, ForgetTables, EraseTables
  <2>2. UNCHANGED generations /\ UNCHANGED call
    BY <1>11 DEF Forget, Erase
  <2>. QED BY <1>2, <2>1, <2>2, ServeAsBefore
<1>12. ASSUME NEW g \in Generation, ActivateRead(c, g)
       PROVE  StoreInv' /\ TablesMove /\ OnlyCompleteServe
  BY <1>1, <1>12, CallWords DEF ActivateRead
<1>13. CASE Activate(c)
  <2>1. call[c].generation \in Generation
    BY <1>13, CallKinds DEF Activate
  <2>2. TablesStep /\ OnlyCompleteServe
    BY <1>13, <2>1, SwapTables DEF Activate, OnlyCompleteServe
  <2>. QED BY <1>2, <1>13, <2>2 DEF Activate
<1>14. CASE GiveUp(c)
  BY <1>1, <1>14, CallWords DEF GiveUp
<1>. QED
  BY <1>3, <1>4, <1>5, <1>6, <1>7, <1>8, <1>9, <1>10, <1>11, <1>12, <1>13, <1>14

-----------------------------------------------------------------------------
(* The job and its attempts. *)

CursorStays(g, cursor, page) ==
  /\ \A m \in cursor.asOf : memories'[m].state # "absent"
  /\ \A m \in cursor.asOf \ (cursor.rest \cup page) :
       memories'[m].state = "erased" \/ <<g, m>> \in staged'

LEMMA CursorKeeps ==
  ASSUME TablesMove, NEW g \in Generation, NEW cursor \in Cursor, NEW page,
         CursorFits(g, cursor, page)
  PROVE  CursorStays(g, cursor, page)
BY DEF TablesMove, MemoriesMove, StagedMove, CursorFits, Behind, CursorStays, Cursor

LEMMA StartFits ==
  /\ Start \in Cursor /\ Start.at = "start" /\ Start.asOf = {} /\ Start.rest = {}
  /\ \A r \in Runner : IdleRun \in Run /\ IdleRun.pc = "idle" /\ IdleRun.page = {}
       /\ IdleRun.cursor = Start /\ IdleRun.generation = 1 /\ IdleRun.token = 0
BY GenerationAssumption, BatchAssumption DEF Start, Cursor, IdleRun, Run, Generation

\* What a job and an attempt know stays true whoever moves the tables.
LEMMA JobKeeps ==
  ASSUME TablesMove, job \in Job, JobFits, UNCHANGED job
  PROVE  JobFits'
<1>1. CursorStays(job.generation, job.cursor, {})
  BY CursorKeeps DEF JobFits, Job
<1>. QED BY <1>1 DEF CursorStays, JobFits, CursorFits, Behind

LEMMA RunKeeps ==
  ASSUME StoreInv, TablesMove, run \in [Runner -> Run], NEW r \in Runner, RunKnows(r),
         UNCHANGED run[r]
  PROVE  RunKnows(r)'
<1>1. CursorStays(run[r].generation, run[r].cursor, run[r].page)
  BY CursorKeeps DEF RunKnows, Run
<1>2. Known(run[r].generation) => Known(run[r].generation)'
  BY DEF Run, Known, TablesMove, GenerationsMove
<1>. QED BY <1>1, <1>2 DEF CursorStays, RunKnows, CursorFits, Behind

\* Tokens fit as long as the lease is not granted or settled, and attempts
\* only end.
LEMMA TokensKeep ==
  ASSUME \A r \in Runner : TokenFits(r),
         job'.state = job.state, job'.token = job.token,
         job'.generation = job.generation,
         \A r \in Runner : run'[r].pc # "idle" =>
           /\ run[r].pc # "idle" /\ run'[r].token = run[r].token
           /\ run'[r].generation = run[r].generation
  PROVE  \A r \in Runner : TokenFits(r)'
BY DEF TokenFits

PC == {"idle", "list", "check", "stage", "checkpoint", "scope",
       "validate", "swap", "succeeded", "failed", "paused"}

LEMMA GotoFacts ==
  ASSUME run \in [Runner -> Run], NEW r \in Runner, NEW pc \in PC, Goto(r, pc)
  PROVE  /\ run' \in [Runner -> Run]
         /\ run'[r].pc = pc /\ run'[r].token = run[r].token
         /\ run'[r].generation = run[r].generation
         /\ run'[r].cursor = run[r].cursor /\ run'[r].page = run[r].page
         /\ \A s \in Runner : s # r => run'[s] = run[s]
<1>. DEFINE x == [run[r] EXCEPT !.pc = pc]
<1>1. /\ x \in Run /\ x.pc = pc /\ x.token = run[r].token
      /\ x.generation = run[r].generation
      /\ x.cursor = run[r].cursor /\ x.page = run[r].page
  BY DEF Run, PC
<1>2. run' = [run EXCEPT ![r] = x]
  BY DEF Goto
<1>. HIDE DEF x
<1>. QED BY <1>1, <1>2

LEMMA LeaveFacts ==
  ASSUME run \in [Runner -> Run], NEW r \in Runner, NEW pc \in PC, Leave(r, pc)
  PROVE  /\ run' \in [Runner -> Run]
         /\ run'[r].pc = pc /\ run'[r].token = run[r].token
         /\ run'[r].generation = run[r].generation
         /\ run'[r].cursor = Start /\ run'[r].page = {}
         /\ \A s \in Runner : s # r => run'[s] = run[s]
<1>. DEFINE x == [run[r] EXCEPT !.pc = pc]
            y == [x EXCEPT !.page = {}]
            z == [y EXCEPT !.cursor = Start]
<1>1. /\ x \in Run /\ x.pc = pc /\ x.token = run[r].token
      /\ x.generation = run[r].generation
  BY DEF Run, PC
<1>2. run' = [run EXCEPT ![r] = z]
  BY DEF Leave
<1>. HIDE DEF x
<1>3. /\ y \in Run /\ y.pc = pc /\ y.token = run[r].token
      /\ y.generation = run[r].generation /\ y.page = {}
  BY <1>1 DEF Run
<1>. HIDE DEF y
<1>4. /\ z \in Run /\ z.pc = pc /\ z.token = run[r].token
      /\ z.generation = run[r].generation /\ z.page = {} /\ z.cursor = Start
  BY <1>3, StartFits DEF Run
<1>. HIDE DEF z
<1>. QED BY <1>2, <1>4

LEMMA IdleFacts ==
  ASSUME run \in [Runner -> Run], NEW r \in Runner, run' = [run EXCEPT ![r] = IdleRun]
  PROVE  /\ run' \in [Runner -> Run] /\ run'[r].pc = "idle" /\ run'[r].page = {}
         /\ run'[r].cursor = Start
         /\ \A s \in Runner : s # r => run'[s] = run[s]
BY StartFits

\* An attempt that has nothing behind its cursor knows enough.
LEMMA NothingBehind ==
  ASSUME NEW r \in Runner, run'[r].cursor = Start, run'[r].page = {},
         run'[r].pc # "stage"
  PROVE  RunKnows(r)'
BY StartFits DEF RunKnows, CursorFits, Behind

AttemptsInv ==
  StoreInv /\ job \in Job /\ run \in [Runner -> Run] /\ JobFits /\ RunsFit

\* A step of an attempt that leaves the job alone: what is left to show is what
\* the attempt itself knows after it.
LEMMA AttemptAlone ==
  ASSUME AttemptsInv, StoreInv', TablesMove, NEW r \in Runner,
         run' \in [Runner -> Run],
         run'[r].pc # "idle" =>
           /\ run[r].pc # "idle" /\ run'[r].token = run[r].token
           /\ run'[r].generation = run[r].generation,
         \A s \in Runner : s # r => run'[s] = run[s],
         UNCHANGED job, RunKnows(r)'
  PROVE  AttemptsInv'
<1>1. JobFits'
  BY JobKeeps DEF AttemptsInv
<1>2. \A s \in Runner : TokenFits(s)'
  <2>1. \A s \in Runner : TokenFits(s)
    BY DEF AttemptsInv, RunsFit
  <2>. QED BY <2>1, TokensKeep
<1>3. \A s \in Runner : s # r => RunKnows(s)'
  BY RunKeeps DEF AttemptsInv, RunsFit
<1>. QED BY <1>1, <1>2, <1>3 DEF AttemptsInv, RunsFit

\* An attempt that leaves the tables alone.
LEMMA TablesIdle ==
  ASSUME AttemptsInv, UNCHANGED <<generations, memories, staged, call>>
  PROVE  StoreInv' /\ TablesMove /\ OnlyCompleteServe
<1>1. TablesStep
  BY TablesStay DEF AttemptsInv, StoreInv, tables
<1>. QED
  BY <1>1, CallsSilent, ServeAsBefore DEF AttemptsInv, StoreInv, TablesStep, TablesMove

LEMMA EnqueueStep ==
  ASSUME AttemptsInv, NEW g \in Generation, Enqueue(g)
  PROVE  AttemptsInv' /\ OnlyCompleteServe
<1>1. StoreInv' /\ TablesMove /\ OnlyCompleteServe
  BY TablesIdle DEF Enqueue
<1>. DEFINE x == [job EXCEPT !.state = "pending"]
            y == [x EXCEPT !.generation = g]
            z == [y EXCEPT !.cursor = Start]
<1>2. x \in Job /\ x.state = "pending" /\ x.token = job.token
  BY DEF AttemptsInv, Job
<1>3. job' = z
  BY DEF Enqueue
<1>. HIDE DEF x
<1>4. y \in Job /\ y.state = "pending" /\ y.token = job.token
  BY <1>2 DEF Job
<1>. HIDE DEF y
<1>5. z \in Job /\ z.state = "pending" /\ z.token = job.token /\ z.cursor = Start
  BY <1>4, StartFits DEF Job
<1>. HIDE DEF z
<1>6. JobFits'
  BY <1>3, <1>5, StartFits DEF JobFits, CursorFits, Behind
<1>7. \A r \in Runner : RunKnows(r)'
  BY <1>1, RunKeeps DEF AttemptsInv, RunsFit, Enqueue
<1>8. \A r \in Runner : run[r].pc # "idle" => run[r].token # job.token
  BY DEF AttemptsInv, RunsFit, TokenFits, Enqueue
<1>9. \A r \in Runner : TokenFits(r)'
  BY <1>3, <1>5, <1>8 DEF AttemptsInv, RunsFit, TokenFits, Enqueue
<1>. QED
  BY <1>1, <1>3, <1>5, <1>6, <1>7, <1>9 DEF AttemptsInv, RunsFit, Enqueue

LEMMA ClaimStep ==
  ASSUME AttemptsInv, NEW r \in Runner, Claim(r)
  PROVE  AttemptsInv' /\ OnlyCompleteServe
<1>1. StoreInv' /\ TablesMove /\ OnlyCompleteServe
  BY TablesIdle DEF Claim
<1>. DEFINE n == job.token + 1
            x == [job EXCEPT !.state = "leased"]
            y == [x EXCEPT !.token = n]
            new == [pc |-> IF job.cursor.at = "done" THEN "validate" ELSE "list",
                    generation |-> job.generation, token |-> n,
                    cursor |-> IF job.cursor.at = "done" THEN Start ELSE job.cursor,
                    page |-> {}]
<1>. job \in Job /\ run \in [Runner -> Run] BY DEF AttemptsInv
<1>2. job.token \in 0..MaxTokens /\ n \in 0..MaxTokens /\ n > job.token
  BY BatchAssumption DEF Claim, Job
<1>3. job' = y /\ run' = [run EXCEPT ![r] = new]
  <2>1. x.token = job.token
    BY DEF Job
  <2>. QED BY <2>1 DEF Claim
<1>4. /\ new \in Run /\ new.pc \in {"validate", "list"} /\ new.token = n
      /\ new.generation = job.generation /\ new.page = {}
      /\ new.cursor \in {Start, job.cursor}
  BY <1>2, StartFits DEF Run, Job
<1>. HIDE DEF n
<1>5. x \in Job /\ x.state = "leased" /\ x.generation = job.generation
      /\ x.cursor = job.cursor
  BY DEF Job
<1>. HIDE DEF x
<1>6. /\ y \in Job /\ y.state = "leased" /\ y.token = n
      /\ y.generation = job.generation /\ y.cursor = job.cursor
  BY <1>2, <1>5 DEF Job
<1>. HIDE DEF y, new
<1>7. /\ run' \in [Runner -> Run] /\ run'[r] = new
      /\ \A s \in Runner : s # r => run'[s] = run[s]
  BY <1>3, <1>4
<1>8. CursorStays(job.generation, job.cursor, {})
  BY <1>1, CursorKeeps DEF AttemptsInv, JobFits, Job
<1>9. JobFits'
  BY <1>3, <1>6, <1>8 DEF JobFits, CursorFits, Behind, CursorStays
<1>10. RunKnows(r)'
  <2>1. CASE new.cursor = Start
    BY <2>1, <1>4, <1>7, NothingBehind
  <2>2. CASE new.cursor = job.cursor
    BY <2>2, <1>4, <1>7, <1>8 DEF RunKnows, CursorFits, Behind, CursorStays
  <2>. QED BY <1>4, <2>1, <2>2
<1>11. \A s \in Runner : s # r => RunKnows(s)'
  BY <1>1, <1>7, RunKeeps DEF AttemptsInv, RunsFit
<1>12. \A s \in Runner : TokenFits(s)
  BY DEF AttemptsInv, RunsFit
<1>13. \A s \in Runner : run[s].token \in Nat
  BY BatchAssumption DEF Run
<1>14. \A s \in Runner : TokenFits(s)'
  BY <1>2, <1>3, <1>4, <1>6, <1>7, <1>12, <1>13 DEF TokenFits
<1>. QED
  BY <1>1, <1>3, <1>6, <1>7, <1>9, <1>10, <1>11, <1>14 DEF AttemptsInv, RunsFit

LEMMA ListStep ==
  ASSUME AttemptsInv, NEW r \in Runner, List(r)
  PROVE  AttemptsInv' /\ OnlyCompleteServe
<1>1. StoreInv' /\ TablesMove /\ OnlyCompleteServe
  BY TablesIdle DEF List
<1>. DEFINE cursor == run[r].cursor
            rows == Listed(cursor)
            asOf == IF cursor.at = "start" THEN Valid ELSE cursor.asOf
            next == [at |-> "inside", asOf |-> asOf, rest |-> AfterPage(rows)]
            x == [run[r] EXCEPT !.pc = IF rows = {} THEN "scope" ELSE "check"]
            y == [x EXCEPT !.page = Page(rows)]
            z == [y EXCEPT !.cursor = next]
<1>. run \in [Runner -> Run] BY DEF AttemptsInv
<1>2. run' = [run EXCEPT ![r] = z]
  BY DEF List
<1>3. cursor \in Cursor
  BY DEF Run
<1>4. rows \subseteq Embedded /\ rows \subseteq MemoryId /\ asOf \subseteq MemoryId
  BY <1>3 DEF Listed, Embedded, Valid, Cursor
<1>5. /\ Page(rows) \subseteq MemoryId /\ AfterPage(rows) \subseteq MemoryId
      /\ AfterPage(rows) \cup Page(rows) = rows /\ (rows = {} => Page(rows) = {})
  <2>. HIDE DEF rows
  <2>. QED BY <1>4 DEF Page, AfterPage
<1>6. next \in Cursor /\ next.asOf = asOf /\ next.rest = AfterPage(rows)
  <2>. HIDE DEF asOf, rows
  <2>. QED BY <1>4, <1>5 DEF Cursor
<1>7. \A m \in asOf : memories[m].state # "absent"
  BY DEF AttemptsInv, RunsFit, RunKnows, CursorFits, Valid
<1>8. \A m \in asOf \ rows :
        memories[m].state = "erased" \/ <<run[r].generation, m>> \in staged
  <2>1. CASE cursor.at = "start"
    BY <2>1 DEF Listed, Valid, Embedded
  <2>2. CASE cursor.at # "start"
    <3>. SUFFICES ASSUME NEW m \in cursor.asOf, m \notin cursor.rest \cap Embedded
                  PROVE  memories[m].state = "erased" \/ <<run[r].generation, m>> \in staged
      BY <2>2 DEF Listed
    <3>2. run[r].page = {}
      BY DEF AttemptsInv, RunsFit, RunKnows, List, At
    <3>3. CASE m \notin cursor.rest
      BY <3>2, <3>3 DEF AttemptsInv, RunsFit, RunKnows, CursorFits, Behind
    <3>4. CASE m \notin Embedded
      <4>1. m \in MemoryId /\ memories[m] \in MemoryRow
        BY <1>3 DEF Cursor, AttemptsInv, StoreInv, TablesInv, TablesTyped
      <4>2. memories[m].state # "absent"
        BY DEF AttemptsInv, RunsFit, RunKnows, CursorFits
      <4>. QED BY <3>4, <4>1, <4>2 DEF Embedded, MemoryRow
    <3>. QED BY <3>3, <3>4
  <2>. QED BY <2>1, <2>2
<1>9. /\ x \in Run /\ x.pc = (IF rows = {} THEN "scope" ELSE "check")
      /\ x.token = run[r].token /\ x.generation = run[r].generation
  <2>. HIDE DEF rows
  <2>. QED BY DEF Run
<1>. HIDE DEF x, asOf, next, rows
<1>10. /\ y \in Run /\ y.pc = x.pc /\ y.page = Page(rows)
       /\ y.token = run[r].token /\ y.generation = run[r].generation
  BY <1>5, <1>9 DEF Run
<1>. HIDE DEF y
<1>11. /\ z \in Run /\ z.pc = x.pc /\ z.page = Page(rows) /\ z.cursor = next
       /\ z.token = run[r].token /\ z.generation = run[r].generation
  BY <1>6, <1>10 DEF Run
<1>. HIDE DEF z
<1>12. /\ run' \in [Runner -> Run] /\ run'[r] = z
       /\ \A s \in Runner : s # r => run'[s] = run[s]
  BY <1>2, <1>11
<1>13. RunKnows(r)'
  <2>1. z.pc \notin {"check", "stage"} => z.page = {}
    BY <1>5, <1>9, <1>11
  <2>2. z.pc # "stage"
    BY <1>9, <1>11
  <2>3. /\ \A m \in z.cursor.asOf : memories[m].state # "absent"
        /\ \A m \in z.cursor.asOf \ (z.cursor.rest \cup z.page) :
             memories[m].state = "erased" \/ <<z.generation, m>> \in staged
    BY <1>5, <1>6, <1>7, <1>8, <1>11
  <2>4. UNCHANGED <<memories, staged>>
    BY DEF List
  <2>5. z.pc = "scope" => z.cursor.rest = {}
    BY <1>5, <1>6, <1>9, <1>11
  <2>. QED BY <1>12, <2>1, <2>2, <2>3, <2>4, <2>5 DEF RunKnows, CursorFits, Behind
<1>14. run[r].pc # "idle" /\ UNCHANGED job
  BY DEF List, At
<1>. QED BY <1>1, <1>11, <1>12, <1>13, <1>14, AttemptAlone

LEMMA PauseStep ==
  ASSUME AttemptsInv, NEW r \in Runner, Pause(r)
  PROVE  AttemptsInv' /\ OnlyCompleteServe
<1>1. StoreInv' /\ TablesMove /\ OnlyCompleteServe
  BY TablesIdle DEF Pause
<1>2. Leave(r, "paused") /\ run \in [Runner -> Run] /\ "paused" \in PC
  BY DEF Pause, AttemptsInv, PC
<1>3. RunKnows(r)'
  BY <1>2, LeaveFacts, NothingBehind
<1>4. run[r].pc # "idle" /\ UNCHANGED job
  BY DEF Pause, At
<1>. QED BY <1>1, <1>2, <1>3, <1>4, LeaveFacts, AttemptAlone

LEMMA CheckBuildingStep ==
  ASSUME AttemptsInv, NEW r \in Runner, CheckBuilding(r)
  PROVE  AttemptsInv' /\ OnlyCompleteServe
<1>1. StoreInv' /\ TablesMove /\ OnlyCompleteServe
  BY TablesIdle DEF CheckBuilding
<1>2. run[r].pc = "check" /\ UNCHANGED job /\ run \in [Runner -> Run]
  BY DEF CheckBuilding, At, AttemptsInv
<1>3. CASE Accepts(run[r].generation)
  <2>1. Goto(r, "stage") /\ "stage" \in PC
    BY <1>3 DEF CheckBuilding, PC
  <2>2. Known(run[r].generation) /\ run[r].generation \in Generation
    BY <1>2, <1>3 DEF AttemptsInv, StoreInv, TablesInv, GenerationsFit, Accepts, Run
  <2>3. RunKnows(r)'
    <3>1. /\ run'[r].pc = "stage" /\ run'[r].generation = run[r].generation
          /\ run'[r].cursor = run[r].cursor /\ run'[r].page = run[r].page
      BY <1>2, <2>1, GotoFacts
    <3>2. UNCHANGED <<generations, memories, staged>>
      BY DEF CheckBuilding
    <3>3. CursorFits(run[r].generation, run[r].cursor, run[r].page)
      BY DEF AttemptsInv, RunsFit, RunKnows
    <3>. QED BY <2>2, <3>1, <3>2, <3>3 DEF RunKnows, CursorFits, Behind, Known
  <2>. QED BY <1>1, <1>2, <2>1, <2>3, GotoFacts, AttemptAlone
<1>4. CASE ~Accepts(run[r].generation)
  <2>1. Leave(r, "failed") /\ "failed" \in PC
    BY <1>4 DEF CheckBuilding, PC
  <2>2. RunKnows(r)'
    BY <1>2, <2>1, LeaveFacts, NothingBehind
  <2>. QED BY <1>1, <1>2, <2>1, <2>2, LeaveFacts, AttemptAlone
<1>. QED BY <1>3, <1>4

\* What a page was in, the staged vectors are in when it has been staged.
LEMMA StagePageStep ==
  ASSUME AttemptsInv, NEW r \in Runner, StagePage(r)
  PROVE  AttemptsInv' /\ OnlyCompleteServe
<1>. DEFINE g == run[r].generation
            items == run[r].page
            x == [run[r] EXCEPT !.pc = "checkpoint"]
            y == [x EXCEPT !.page = {}]
<1>1. /\ run \in [Runner -> Run] /\ run[r].pc = "stage"
      /\ g \in Generation /\ items \in SUBSET MemoryId /\ Known(g)
      /\ run[r].cursor \in Cursor
  BY DEF AttemptsInv, RunsFit, RunKnows, Run, StagePage, At
<1>2. TablesStep /\ \A m \in items : <<g, m>> \in staged'
  <2>1. AllPresent(items) /\ Staging(g, items) /\ TablesInv
    BY DEF StagePage, AttemptsInv, StoreInv
  <2>. HIDE DEF g, items
  <2>. QED BY <1>1, <2>1, StagingTables
<1>3. StoreInv' /\ TablesMove
  BY <1>2, CallsSilent DEF AttemptsInv, StoreInv, TablesStep, TablesMove, StagePage
<1>4. OnlyCompleteServe
  <2>1. \A k \in Generation : generations'[k].status = generations[k].status
    BY <1>1 DEF StagePage, Staging, AttemptsInv, StoreInv, TablesInv, TablesTyped,
                GenerationRow
  <2>. QED BY <2>1, ServeAsBefore
<1>5. run' = [run EXCEPT ![r] = y]
  BY DEF StagePage
<1>6. /\ x \in Run /\ x.pc = "checkpoint" /\ x.generation = run[r].generation
      /\ x.token = run[r].token /\ x.cursor = run[r].cursor
  BY <1>1 DEF Run
<1>. HIDE DEF x
<1>7. /\ y \in Run /\ y.pc = "checkpoint" /\ y.generation = run[r].generation
      /\ y.token = run[r].token /\ y.cursor = run[r].cursor /\ y.page = {}
  BY <1>6 DEF Run
<1>. HIDE DEF y
<1>8. /\ run' \in [Runner -> Run] /\ run'[r] = y
      /\ \A s \in Runner : s # r => run'[s] = run[s]
  BY <1>1, <1>5, <1>7
<1>9. CursorStays(g, run[r].cursor, items)
  <2>1. CursorFits(g, run[r].cursor, items)
    BY DEF AttemptsInv, RunsFit, RunKnows
  <2>. HIDE DEF g, items
  <2>. QED BY <1>1, <1>3, <2>1, CursorKeeps
<1>10. RunKnows(r)'
  BY <1>2, <1>7, <1>8, <1>9 DEF CursorStays, RunKnows, CursorFits, Behind
<1>11. run[r].pc # "idle" /\ UNCHANGED job
  BY <1>1 DEF StagePage
<1>. QED BY <1>3, <1>4, <1>7, <1>8, <1>10, <1>11, AttemptAlone

LEMMA StagePageRefusedStep ==
  ASSUME AttemptsInv, NEW r \in Runner, StagePageRefused(r)
  PROVE  AttemptsInv' /\ OnlyCompleteServe
<1>1. StoreInv' /\ TablesMove /\ OnlyCompleteServe
  BY TablesIdle DEF StagePageRefused
<1>2. Leave(r, "failed") /\ run \in [Runner -> Run] /\ "failed" \in PC
  BY DEF StagePageRefused, AttemptsInv, PC
<1>3. RunKnows(r)'
  BY <1>2, LeaveFacts, NothingBehind
<1>4. run[r].pc # "idle" /\ UNCHANGED job
  BY DEF StagePageRefused, At
<1>. QED BY <1>1, <1>2, <1>3, <1>4, LeaveFacts, AttemptAlone

\* The holder of the newest lease records what it has behind it.
LEMMA JobRecords ==
  ASSUME AttemptsInv, NEW r \in Runner, NEW cursor \in Cursor,
         UNCHANGED <<generations, memories, staged, call>>,
         Holds(r), run[r].pc # "idle",
         job' = [job EXCEPT !.cursor = cursor],
         CursorFits(run[r].generation, cursor, {}),
         run' \in [Runner -> Run],
         run'[r].token = run[r].token, run'[r].generation = run[r].generation,
         \A s \in Runner : s # r => run'[s] = run[s],
         RunKnows(r)'
  PROVE  AttemptsInv' /\ OnlyCompleteServe
<1>1. StoreInv' /\ TablesMove /\ OnlyCompleteServe
  BY TablesIdle
<1>2. /\ job' \in Job /\ job'.state = job.state /\ job'.token = job.token
      /\ job'.generation = job.generation /\ job'.cursor = cursor
  BY DEF AttemptsInv, Job
<1>3. run[r].generation = job.generation
  BY DEF AttemptsInv, RunsFit, TokenFits, Holds
<1>4. JobFits'
  BY <1>2, <1>3 DEF JobFits, CursorFits, Behind
<1>5. \A s \in Runner : TokenFits(s)'
  <2>1. \A s \in Runner : TokenFits(s)
    BY DEF AttemptsInv, RunsFit
  <2>. QED BY <1>2, <2>1, TokensKeep
<1>6. \A s \in Runner : s # r => RunKnows(s)'
  BY <1>1, RunKeeps DEF AttemptsInv, RunsFit
<1>. QED BY <1>1, <1>2, <1>4, <1>5, <1>6 DEF AttemptsInv, RunsFit

LEMMA CheckpointStep ==
  ASSUME AttemptsInv, NEW r \in Runner, Checkpoint(r)
  PROVE  AttemptsInv' /\ OnlyCompleteServe
<1>. DEFINE pc == IF run[r].cursor.rest = {} THEN "scope" ELSE "list"
            cursor == Recorded(run[r].cursor)
<1>1. /\ run \in [Runner -> Run] /\ run[r].pc = "checkpoint" /\ run[r].page = {}
      /\ CursorFits(run[r].generation, run[r].cursor, {})
  BY DEF AttemptsInv, RunsFit, RunKnows, Checkpoint, At
<1>2. cursor \in Cursor /\ cursor \in {Start, run[r].cursor}
  BY <1>1, StartFits DEF Recorded, Run
<1>3. CursorFits(run[r].generation, cursor, {})
  BY <1>1, <1>2, StartFits DEF CursorFits, Behind
<1>4. /\ Goto(r, pc) /\ pc \in PC /\ pc \notin {"check", "stage"}
      /\ pc = "scope" => run[r].cursor.rest = {}
  BY DEF Checkpoint, PC
<1>5. /\ UNCHANGED <<generations, memories, staged, call>> /\ Holds(r)
      /\ job' = [job EXCEPT !.cursor = cursor]
  BY DEF Checkpoint
<1>. HIDE DEF pc, cursor
<1>6. RunKnows(r)'
  BY <1>1, <1>4, <1>5, GotoFacts DEF RunKnows, CursorFits, Behind
<1>. QED BY <1>1, <1>2, <1>3, <1>4, <1>5, <1>6, GotoFacts, JobRecords

LEMMA CheckpointScopeStep ==
  ASSUME AttemptsInv, NEW r \in Runner, CheckpointScope(r)
  PROVE  AttemptsInv' /\ OnlyCompleteServe
<1>. DEFINE cursor == [at |-> "done", asOf |-> run[r].cursor.asOf, rest |-> {}]
<1>1. /\ run \in [Runner -> Run] /\ run[r].pc = "scope" /\ run[r].page = {}
      /\ CursorFits(run[r].generation, run[r].cursor, {})
      /\ run[r].cursor.rest = {} /\ run[r].cursor \in Cursor
  BY DEF AttemptsInv, RunsFit, RunKnows, CheckpointScope, At, Run
<1>2. cursor \in Cursor /\ cursor.asOf = run[r].cursor.asOf /\ cursor.rest = {}
  BY <1>1 DEF Cursor
<1>3. /\ UNCHANGED <<generations, memories, staged, call>> /\ Holds(r)
      /\ job' = [job EXCEPT !.cursor = cursor]
  BY DEF CheckpointScope
<1>. HIDE DEF cursor
<1>4. CursorFits(run[r].generation, cursor, {})
  BY <1>1, <1>2 DEF CursorFits, Behind
<1>5. Leave(r, "validate") /\ "validate" \in PC
  BY DEF CheckpointScope, PC
<1>6. RunKnows(r)'
  BY <1>1, <1>5, LeaveFacts, NothingBehind
<1>. QED BY <1>1, <1>2, <1>3, <1>4, <1>5, <1>6, LeaveFacts, JobRecords

LEMMA ValidateStep ==
  ASSUME AttemptsInv, NEW r \in Runner, Validate(r)
  PROVE  AttemptsInv' /\ OnlyCompleteServe
<1>. DEFINE pc == IF MayActivate(run[r].generation) THEN "swap" ELSE "failed"
<1>1. StoreInv' /\ TablesMove /\ OnlyCompleteServe
  BY TablesIdle DEF Validate
<1>2. /\ Goto(r, pc) /\ pc \in {"swap", "failed"} /\ pc \in PC
      /\ run \in [Runner -> Run]
  BY DEF Validate, AttemptsInv, PC
<1>. HIDE DEF pc
<1>3. /\ run[r].pc = "validate" /\ run[r].page = {}
      /\ CursorFits(run[r].generation, run[r].cursor, run[r].page)
      /\ UNCHANGED <<memories, staged>>
  BY DEF Validate, At, AttemptsInv, RunsFit, RunKnows
<1>4. RunKnows(r)'
  BY <1>2, <1>3, GotoFacts DEF RunKnows, CursorFits, Behind
<1>5. run[r].pc # "idle" /\ UNCHANGED job
  BY <1>3 DEF Validate
<1>. QED BY <1>1, <1>2, <1>4, <1>5, GotoFacts, AttemptAlone

LEMMA SwapStep ==
  ASSUME AttemptsInv, NEW r \in Runner, Swap(r)
  PROVE  AttemptsInv' /\ OnlyCompleteServe
<1>1. /\ run \in [Runner -> Run] /\ run[r].generation \in Generation
      /\ run[r].pc = "swap" /\ run[r].page = {} /\ run[r].cursor \in Cursor
      /\ CursorFits(run[r].generation, run[r].cursor, run[r].page)
  BY DEF Swap, At, AttemptsInv, RunsFit, RunKnows, Run
<1>2. TablesStep /\ OnlyCompleteServe
  BY <1>1, SwapTables DEF Swap, AttemptsInv, StoreInv, OnlyCompleteServe
<1>3. StoreInv' /\ TablesMove
  BY <1>2, CallsSilent DEF AttemptsInv, StoreInv, TablesStep, TablesMove, Swap
<1>4. Goto(r, "succeeded") /\ "succeeded" \in PC
  BY DEF Swap, PC
<1>5. CursorStays(run[r].generation, run[r].cursor, run[r].page)
  BY <1>1, <1>3, CursorKeeps
<1>6. RunKnows(r)'
  BY <1>1, <1>4, <1>5, GotoFacts DEF RunKnows, CursorFits, Behind, CursorStays
<1>7. run[r].pc # "idle" /\ UNCHANGED job
  BY <1>1 DEF Swap
<1>. QED BY <1>1, <1>2, <1>3, <1>4, <1>6, <1>7, GotoFacts, AttemptAlone

LEMMA SwapRefusedStep ==
  ASSUME AttemptsInv, NEW r \in Runner, SwapRefused(r)
  PROVE  AttemptsInv' /\ OnlyCompleteServe
<1>1. StoreInv' /\ TablesMove /\ OnlyCompleteServe
  BY TablesIdle DEF SwapRefused
<1>2. Goto(r, "failed") /\ "failed" \in PC /\ run \in [Runner -> Run]
  BY DEF SwapRefused, AttemptsInv, PC
<1>3. /\ run[r].pc = "swap" /\ run[r].page = {}
      /\ CursorFits(run[r].generation, run[r].cursor, run[r].page)
      /\ UNCHANGED <<memories, staged>>
  BY DEF SwapRefused, At, AttemptsInv, RunsFit, RunKnows
<1>4. RunKnows(r)'
  BY <1>2, <1>3, GotoFacts DEF RunKnows, CursorFits, Behind
<1>5. run[r].pc # "idle" /\ UNCHANGED job
  BY <1>3 DEF SwapRefused
<1>. QED BY <1>1, <1>2, <1>4, <1>5, GotoFacts, AttemptAlone

\* Whoever settles is the only attempt with the newest token, and ends.
LEMMA SettleStep ==
  ASSUME AttemptsInv, NEW r \in Runner, Settle(r)
  PROVE  AttemptsInv' /\ OnlyCompleteServe
<1>. DEFINE state == IF run[r].pc = "paused" THEN "pending" ELSE run[r].pc
<1>1. StoreInv' /\ TablesMove /\ OnlyCompleteServe
  BY TablesIdle DEF Settle
<1>2. /\ job \in Job /\ run \in [Runner -> Run] /\ run[r].pc # "idle"
      /\ run[r].token = job.token
      /\ job' = [job EXCEPT !.state = state]
      /\ state \in {"pending", "succeeded", "failed"}
  BY DEF Settle, AttemptsInv, Holds
<1>. HIDE DEF state
<1>3. /\ job' \in Job /\ job'.token = job.token /\ job'.generation = job.generation
      /\ job'.cursor = job.cursor
  BY <1>2 DEF Job
<1>4. /\ run' \in [Runner -> Run] /\ run'[r].pc = "idle"
      /\ \A s \in Runner : s # r => run'[s] = run[s]
      /\ RunKnows(r)'
  BY <1>2, IdleFacts, NothingBehind DEF Settle
<1>5. JobFits'
  <2>1. CursorStays(job.generation, job.cursor, {})
    BY <1>1, <1>2, CursorKeeps DEF AttemptsInv, JobFits, Job
  <2>. QED BY <1>3, <2>1 DEF JobFits, CursorFits, Behind, CursorStays
<1>6. \A s \in Runner : s # r => RunKnows(s)'
  BY <1>1, <1>4, RunKeeps DEF AttemptsInv, RunsFit
<1>7. \A s \in Runner : TokenFits(s)'
  <2>1. \A s \in Runner : TokenFits(s)
    BY DEF AttemptsInv, RunsFit
  <2>. QED BY <1>2, <1>3, <1>4, <2>1 DEF TokenFits
<1>. QED BY <1>1, <1>3, <1>4, <1>5, <1>6, <1>7 DEF AttemptsInv, RunsFit

LEMMA EndStep ==
  ASSUME AttemptsInv, NEW r \in Runner, Abort(r) \/ Crash(r)
  PROVE  AttemptsInv' /\ OnlyCompleteServe
<1>1. /\ UNCHANGED <<generations, memories, staged, call, job>>
      /\ run' = [run EXCEPT ![r] = IdleRun] /\ run \in [Runner -> Run]
  BY DEF Abort, Crash, AttemptsInv
<1>2. StoreInv' /\ TablesMove /\ OnlyCompleteServe
  BY <1>1, TablesIdle
<1>3. RunKnows(r)'
  BY <1>1, IdleFacts, NothingBehind
<1>. QED BY <1>1, <1>2, <1>3, IdleFacts, AttemptAlone

LEMMA AttemptStep ==
  ASSUME AttemptsInv, NEW r \in Runner, Attempt(r)
  PROVE  AttemptsInv' /\ OnlyCompleteServe
BY ClaimStep, ListStep, PauseStep, CheckBuildingStep, StagePageStep,
   StagePageRefusedStep, CheckpointStep, CheckpointScopeStep, ValidateStep,
   SwapStep, SwapRefusedStep, SettleStep, EndStep DEF Attempt

\* A call of the store leaves the job and its attempts alone.
LEMMA CallStep ==
  ASSUME AttemptsInv, Next, UNCHANGED <<job, run>>
  PROVE  AttemptsInv' /\ OnlyCompleteServe
<1>1. StoreInv' /\ TablesMove /\ OnlyCompleteServe
  BY StoreStep DEF AttemptsInv
<1>2. JobFits'
  BY <1>1, JobKeeps DEF AttemptsInv
<1>3. \A r \in Runner : RunKnows(r)'
  BY <1>1, RunKeeps DEF AttemptsInv, RunsFit
<1>4. \A r \in Runner : TokenFits(r)'
  BY DEF AttemptsInv, RunsFit, TokenFits
<1>. QED BY <1>1, <1>2, <1>3, <1>4 DEF AttemptsInv, RunsFit

LEMMA ReindexStep ==
  ASSUME AttemptsInv, [ReindexNext]_vars
  PROVE  AttemptsInv' /\ OnlyCompleteServe
<1>1. CASE ReindexNext
  BY <1>1, CallStep, EnqueueStep, AttemptStep DEF ReindexNext
<1>2. CASE UNCHANGED vars
  <2>1. /\ UNCHANGED <<generations, memories, staged, call>>
        /\ UNCHANGED job /\ UNCHANGED run
    BY <1>2 DEF vars
  <2>2. StoreInv' /\ TablesMove /\ OnlyCompleteServe
    BY <2>1, TablesIdle
  <2>3. JobFits'
    BY <2>1, <2>2, JobKeeps DEF AttemptsInv
  <2>4. \A r \in Runner : RunKnows(r)'
    BY <2>1, <2>2, RunKeeps DEF AttemptsInv, RunsFit
  <2>5. \A r \in Runner : TokenFits(r)'
    BY <2>1 DEF AttemptsInv, RunsFit, TokenFits
  <2>. QED BY <2>1, <2>2, <2>3, <2>4, <2>5 DEF AttemptsInv, RunsFit
<1>. QED BY <1>1, <1>2

LEMMA ReindexStarts ==
  ASSUME ReindexInit
  PROVE  AttemptsInv
<1>1. PICK model \in Model \cup {Unknown} :
        /\ generations = [g \in Generation |->
             IF g = 1 THEN [status |-> "active", model |-> model, count |-> 0]
             ELSE NoGeneration]
        /\ memories = [m \in MemoryId |-> NoRow]
        /\ staged = {}
        /\ call = [c \in Caller |-> NoCall]
  BY DEF ReindexInit, Init
<1>2. /\ job = [state |-> "none", generation |-> 1, token |-> 0, cursor |-> Start]
      /\ run = [r \in Runner |-> IdleRun]
  BY DEF ReindexInit
<1>3. 1 \in Generation /\ 0 \in 0..MaxMemories /\ 0 \in 0..MaxGenerations /\ 0 \in 0..MaxTokens
  BY GenerationAssumption, BatchAssumption DEF Generation
<1>4. /\ NoGeneration \in GenerationRow /\ NoGeneration.status = "absent"
      /\ NoGeneration.model = Unknown /\ NoRow \in MemoryRow /\ NoRow.state = "absent"
  BY <1>3 DEF NoGeneration, GenerationRow, NoRow, MemoryRow
<1>5. [status |-> "active", model |-> model, count |-> 0] \in GenerationRow
  BY <1>3 DEF GenerationRow
<1>6. TablesTyped
  BY <1>1, <1>4, <1>5 DEF TablesTyped
<1>7. GenerationsFit /\ OneActive
  BY <1>1, <1>3, <1>4 DEF GenerationsFit, OneActive, Known, IsActive
<1>8. StampsAreTruthful /\ StagedAreKept
  BY <1>1, <1>4 DEF StampsAreTruthful, StagedAreKept, Embedded
<1>9. CallsFit /\ call \in [Caller -> Call]
  BY <1>1, CallWords DEF CallsFit
<1>10. job \in Job /\ job.cursor = Start
  BY <1>2, <1>3, StartFits DEF Job
<1>11. run \in [Runner -> Run] /\ \A r \in Runner : run[r] = IdleRun
  BY <1>2, StartFits
<1>12. JobFits
  BY <1>10, StartFits DEF JobFits, CursorFits, Behind
<1>13. RunsFit
  BY <1>11, StartFits DEF RunsFit, RunKnows, TokenFits, CursorFits, Behind
<1>. QED
  BY <1>6, <1>7, <1>8, <1>9, <1>10, <1>11, <1>12, <1>13
     DEF AttemptsInv, StoreInv, TablesInv

\* What the tables, the calls in flight, the job and its attempts know holds in
\* every behaviour.
THEOREM AttemptsInvariant == ReindexSpec => []AttemptsInv
<1>1. AttemptsInv /\ [ReindexNext]_vars => AttemptsInv'
  BY ReindexStep
<1>. QED BY <1>1, ReindexStarts, PTL DEF ReindexSpec

\* For any numbers of rows, generations and attempts: tables, calls, job and
\* attempts stay in their domains (store resolve_embedding_for_write to
\* activate_embedding_generation, worker.rs ReindexExecutor).
THEOREM ReindexTypes == ReindexSpec => []TypeOK
<1>1. AttemptsInv => TypeOK
  BY DEF AttemptsInv, StoreInv, TablesInv, TablesTyped, TypeOK
<1>. QED BY <1>1, AttemptsInvariant, PTL

\* For any writers, adopters, attesters and activations in flight: a vector
\* written under a claimed identity carries the stamp of a generation of that
\* identity, although the claim was resolved before the writing transaction.
THEOREM Stamps == ReindexSpec => []StampsAreTruthful
<1>1. AttemptsInv => StampsAreTruthful
  BY DEF AttemptsInv, StoreInv, TablesInv
<1>. QED BY <1>1, AttemptsInvariant, PTL

\* For any pages, crashes and late attempts: a recorded cursor has only staged
\* or erased rows behind it, and no erased row keeps a staged vector.
THEOREM Checkpoints == ReindexSpec => []CheckpointFollowsEffects
<1>1. AttemptsInv => CheckpointFollowsEffects
  BY DEF AttemptsInv, StoreInv, TablesInv, JobFits, CursorFits, Behind, StagedAreKept,
         CheckpointFollowsEffects
<1>. QED BY <1>1, AttemptsInvariant, PTL

\* For any overlap of activations: exactly one generation serves after every
\* step, and one that starts to serve covers every row.
THEOREM Activation == ReindexSpec => ActivationIsComplete
<1>. DEFINE Complete ==
       /\ \E g \in Generation : \A k \in Generation : IsActive(k)' <=> k = g
       /\ \A g \in Generation :
            ~IsActive(g) /\ IsActive(g)' =>
              \A m \in Embedded' : memories'[m].stamp = g
<1>1. AttemptsInv /\ [ReindexNext]_vars => [Complete]_vars
  <2>. SUFFICES ASSUME AttemptsInv, [ReindexNext]_vars
                PROVE  Complete
    OBVIOUS
  <2>1. AttemptsInv' /\ OnlyCompleteServe
    BY ReindexStep
  <2>. QED BY <2>1 DEF AttemptsInv, StoreInv, TablesInv, OneActive, OnlyCompleteServe
<1>. HIDE DEF Complete
<1>2. ReindexSpec => [][Complete]_vars
  BY <1>1, AttemptsInvariant, PTL DEF ReindexSpec
<1>. QED BY <1>2 DEF ActivationIsComplete, Complete
=============================================================================
