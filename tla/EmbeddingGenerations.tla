------------------------- MODULE EmbeddingGenerations -------------------------
(***************************************************************************)
(* Embedding generations (MIG-004, MIG-005): which model a vector comes    *)
(* from, and the change to another model by staging a vector for every row *)
(* and then swapping (crates/nomiso-store/src/surreal_store.rs).           *)
(*                                                                         *)
(* A vector is abstracted to the model that produced it: the text of a     *)
(* memory never changes.  Callers are the calls in flight of any process;  *)
(* an operation that reads before it writes does so in two steps.          *)
(***************************************************************************)
EXTENDS Integers, FiniteSets

CONSTANTS
  MaxGenerations,  \* bound on the generations ever declared
  MaxMemories,     \* bound on the rows ever created
  Model,           \* declared identities
  Unknown,         \* the identity of a generation nobody attested
  Raw,             \* a vector written without a claim
  Caller,
  Offered          \* the operations each caller uses

Generation == 1..MaxGenerations
MemoryId == 1..MaxMemories

ASSUME GenerationAssumption ==
  /\ MaxGenerations \in Nat \ {0} /\ MaxMemories \in Nat \ {0}
  /\ Unknown \notin Model /\ Raw \notin Model

VARIABLES
  generations,  \* the embedding_generation table
  memories,     \* the memory rows that carry a vector
  staged,       \* the embedding_vector table: pairs <<generation, memory>>
  call          \* what each caller has read

tables == <<generations, memories, staged>>
storeVars == <<generations, memories, staged, call>>

-----------------------------------------------------------------------------

\* count: embedded_count.
GenerationRow == [status : {"absent", "building", "active", "retired"},
                  model : Model \cup {Unknown}, count : 0..MaxMemories]
NoGeneration == [status |-> "absent", model |-> Unknown, count |-> 0]

\* closed: superseded or forgotten; the row keeps its vector.
\* stamp: embedding_generation, 0 for none.
MemoryRow == [state : {"absent", "valid", "closed", "erased"},
              vector : Model \cup {Raw}, stamp : 0..MaxGenerations]
NoRow == [state |-> "absent", vector |-> Raw, stamp |-> 0]

NoCall == [op |-> "none"]
Call == {NoCall}
  \cup [op : {"adopt", "attest"}, generation : Generation, model : Model]
  \cup [op : {"recheck"}, model : Model]
  \cup [op : {"write"}, vector : Model \cup {Raw}, stamp : Generation]
  \cup [op : {"activate"}, generation : Generation]

Embedded == {m \in MemoryId : memories[m].state \in {"valid", "closed"}}
Valid == {m \in MemoryId : memories[m].state = "valid"}
StagedFor(g) == {m \in MemoryId : <<g, m>> \in staged}

IsActive(g) == generations[g].status = "active"
IsUnknown(g) == generations[g].model = Unknown
NewRow(m) == /\ memories[m].state = "absent"
             /\ \A k \in MemoryId : k < m => memories[k].state # "absent"

Say(c, r) == call' = [call EXCEPT ![c] = r]
Calls(c, op) == op \in Offered[c] /\ call[c] = NoCall

\* After migrate on a fresh store: generation 1 is active with the configured
\* identity, or none.
Init ==
  \E model \in Model \cup {Unknown} :
    /\ generations = [g \in Generation |->
         IF g = 1 THEN [status |-> "active", model |-> model, count |-> 0]
         ELSE NoGeneration]
    /\ memories = [m \in MemoryId |-> NoRow]
    /\ staged = {}
    /\ call = [c \in Caller |-> NoCall]

-----------------------------------------------------------------------------
(* Writes: resolve_embedding_for_write, then the writing transaction.       *)

\* No claim, or a claim the active identity is compatible with.
ResolveStamp(c, vector) ==
  /\ Calls(c, "put")
  /\ \E g \in Generation :
       /\ IsActive(g) /\ vector \in {Raw, generations[g].model}
       /\ Say(c, [op |-> "write", vector |-> vector, stamp |-> g])
  /\ UNCHANGED tables

\* A claim on an unknown identity: adopted while no row has a vector.
ResolveAdopt(c, model) ==
  /\ Calls(c, "put") /\ Embedded = {}
  /\ \E g \in Generation :
       /\ IsActive(g) /\ IsUnknown(g)
       /\ Say(c, [op |-> "adopt", generation |-> g, model |-> model])
  /\ UNCHANGED tables

Identified(g, model) ==
  generations' = [generations EXCEPT ![g].model = IF @ = Unknown THEN model ELSE @]

Adopt(c) ==
  /\ call[c].op = "adopt"
  /\ Identified(call[c].generation, call[c].model)
  /\ Say(c, [op |-> "recheck", model |-> call[c].model])
  /\ UNCHANGED <<memories, staged>>

\* Mutant: the adopter trusts its own update.
AdoptRecheckTrusting(c) ==
  /\ call[c].op = "recheck"
  /\ \E g \in Generation :
       /\ IsActive(g)
       /\ Say(c, [op |-> "write", vector |-> call[c].model, stamp |-> g])
  /\ UNCHANGED tables

\* Another adopter may have won: its identity decides.
AdoptRecheck(c) ==
  /\ call[c].op = "recheck"
  /\ \E g \in Generation :
       /\ IsActive(g)
       /\ Say(c, IF generations[g].model = call[c].model
                 THEN [op |-> "write", vector |-> call[c].model, stamp |-> g]
                 ELSE NoCall)
  /\ UNCHANGED tables

\* put creates a row; supersede closes one in the same transaction.
Write(c) ==
  /\ call[c].op = "write"
  /\ \E m \in MemoryId, closing \in SUBSET Valid :
       /\ NewRow(m) /\ Cardinality(closing) < 2
       /\ memories' = [k \in MemoryId |->
            IF k = m THEN [state |-> "valid", vector |-> call[c].vector,
                           stamp |-> call[c].stamp]
            ELSE IF k \in closing THEN [memories[k] EXCEPT !.state = "closed"]
            ELSE memories[k]]
  /\ Say(c, NoCall)
  /\ UNCHANGED <<generations, staged>>

\* forget keeps the vector; hard, it takes the staged vectors along.
Forget(c, m) ==
  /\ Calls(c, "forget") /\ m \in Valid
  /\ memories' = [memories EXCEPT ![m].state = "closed"]
  /\ UNCHANGED <<generations, staged, call>>

Erase(c, m) ==
  /\ Calls(c, "erase") /\ m \in Embedded
  /\ memories' = [memories EXCEPT ![m] = [NoRow EXCEPT !.state = "erased"]]
  /\ staged' = {s \in staged : s[2] # m}
  /\ UNCHANGED <<generations, call>>

-----------------------------------------------------------------------------
(* Administration. *)

AttestRead(c, model) ==
  /\ Calls(c, "attest")
  /\ \E g \in Generation :
       /\ IsActive(g) /\ IsUnknown(g)
       /\ Say(c, [op |-> "attest", generation |-> g, model |-> model])
  /\ UNCHANGED tables

Attest(c) ==
  /\ call[c].op = "attest"
  /\ Identified(call[c].generation, call[c].model)
  /\ Say(c, NoCall)
  /\ UNCHANGED <<memories, staged>>

\* One generation builds at a time; the test is part of the transaction.
Declare(c, model) ==
  /\ Calls(c, "declare")
  /\ \A k \in Generation : generations[k].status # "building"
  /\ \E g \in Generation :
       /\ generations[g].status = "absent"
       /\ \A k \in Generation : k < g => generations[k].status # "absent"
       /\ generations' = [generations EXCEPT ![g] =
            [status |-> "building", model |-> model, count |-> 0]]
  /\ UNCHANGED <<memories, staged, call>>

\* stage_embeddings, as its caller, the reindex executor, uses it: the status is
\* read before the transaction, the presence of the memories inside it.
Accepts(g) == generations[g].status = "building"

AllPresent(items) == items \subseteq Embedded

\* Mutant: the count is added to instead of taken again.
StagingAdding(g, items) ==
  /\ staged' = staged \cup ({g} \X items)
  /\ generations' = [generations EXCEPT ![g].count = @ + Cardinality(items)]
  /\ UNCHANGED memories

Staging(g, items) ==
  /\ staged' = staged \cup ({g} \X items)
  /\ generations' = [generations EXCEPT ![g].count =
       Cardinality(StagedFor(g) \cup items)]
  /\ UNCHANGED memories

\* activate_embedding_generation: status and count are read before the
\* transaction, coverage is tested inside it.
MayActivate(g) == /\ generations[g].status \in {"building", "retired"}
                  /\ generations[g].count >= Cardinality(Embedded)

\* Mutant: the count read before is trusted.
CoversByCount(g) == generations[g].count >= Cardinality(Embedded)

Covers(g) == Embedded \subseteq StagedFor(g)

\* The swap: vectors and stamps of every staged row, then the two statuses.
Activating(g) ==
  /\ memories' = [m \in MemoryId |->
       IF m \in StagedFor(g) \cap Embedded
       THEN [memories[m] EXCEPT !.vector = generations[g].model, !.stamp = g]
       ELSE memories[m]]
  /\ generations' = [k \in Generation |->
       IF k = g THEN [generations[k] EXCEPT !.status = "active"]
       ELSE IF IsActive(k) THEN [generations[k] EXCEPT !.status = "retired"]
       ELSE generations[k]]
  /\ UNCHANGED staged

ActivateRead(c, g) ==
  /\ Calls(c, "activate") /\ MayActivate(g)
  /\ Say(c, [op |-> "activate", generation |-> g])
  /\ UNCHANGED tables

Activate(c) ==
  /\ call[c].op = "activate" /\ Covers(call[c].generation)
  /\ Activating(call[c].generation)
  /\ Say(c, NoCall)

\* The call is refused by its transaction, cancelled or lost.
GiveUp(c) ==
  /\ call[c] # NoCall /\ Say(c, NoCall)
  /\ UNCHANGED tables

Next ==
  \E c \in Caller :
    \/ \E vector \in Model \cup {Raw} : ResolveStamp(c, vector)
    \/ \E model \in Model :
         ResolveAdopt(c, model) \/ AttestRead(c, model) \/ Declare(c, model)
    \/ Adopt(c) \/ AdoptRecheck(c) \/ Write(c) \/ Attest(c)
    \/ \E m \in MemoryId : Forget(c, m) \/ Erase(c, m)
    \/ \E g \in Generation : ActivateRead(c, g)
    \/ Activate(c) \/ GiveUp(c)

Spec == Init /\ [][Next]_storeVars
=============================================================================
