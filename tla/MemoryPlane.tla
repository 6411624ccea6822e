----------------------------- MODULE MemoryPlane -----------------------------
(***************************************************************************)
(* The memory plane: memory rows, their belief_event journal, idempotency  *)
(* slots, derived_from edges and typed relationships, with the store       *)
(* operations that write them (crates/nomiso-store/src/surreal_store.rs).  *)
(*                                                                         *)
(* Clients are calls in flight, in any process.  A handler reads in one    *)
(* step and writes in a later one; what it keeps in between is its request *)
(* record.  A BEGIN..COMMIT block is one step.  A call refused before its  *)
(* write changes nothing and is left out.  Row ids are given out in order  *)
(* and never reused (Uuid::now_v7).                                        *)
(***************************************************************************)
EXTENDS Integers, Sequences, FiniteSets

CONSTANTS
  MaxMemories,     \* bound on the rows ever created
  MaxRelations,    \* bound on the relationship rows ever created
  MaxEvents,       \* bound on annotations: no journal grows past it by one
  MaxEdgeVersion,  \* bound on the updates of one relationship
  MaxLinks,        \* bound on the derived_from edges
  Client,
  Scope,
  Key,             \* idempotency keys
  Body,            \* request identities of puts
  Mark,            \* attributes an annotation may set
  Predicate,       \* predicates memory-to-memory edges are given
  Usages,          \* the kinds of use a run looks at
  None

MemoryId == 1..MaxMemories
RelationId == 1..MaxRelations

ASSUME BoundsAssumption ==
  /\ MaxMemories \in Nat /\ MaxRelations \in Nat
  /\ MaxEvents \in Nat /\ MaxEdgeVersion \in Nat /\ MaxLinks \in Nat

\* What the callers of one behaviour do: the operations they call, the scope
\* each acts in, whether forget and annotate carry expected_version, whether
\* annotate bumps the version, the valid intervals of new memories, and how
\* many memories there are at most.
Usage == [offered : SUBSET {"put", "keyed", "supersede", "forget", "erase",
                            "annotate", "link", "relate", "update"},
          scope : [Client -> Scope], guarding : SUBSET BOOLEAN,
          bumping : SUBSET BOOLEAN,
          intervals : SUBSET {"open", "bounded"}, memories : 0..MaxMemories]

ASSUME CallerAssumption ==
  /\ Usages \subseteq Usage
  /\ None \notin Key /\ None \notin Scope /\ None \notin Body

VARIABLES
  memories,    \* the memory table
  journal,     \* belief_event rows of each memory, in commit order
  slots,       \* the idempotency_slot table
  derived,     \* derived_from_edge: pairs <<view, source>>
  relations,   \* the relationship table
  req,         \* what each client has read, or was answered
  usage        \* what callers do: chosen by Init, never changed

vars == <<memories, journal, slots, derived, relations, req, usage>>
store == <<memories, journal, slots, derived, relations, usage>>

ClientScope == usage.scope
Offered == usage.offered
Guarding == usage.guarding
Bumping == usage.bumping
Intervals == usage.intervals

-----------------------------------------------------------------------------
(* Rows. *)

\* interval: "open" has no valid_until, "bounded" was created with one,
\* "closed" also has sys_closed.
Memory == [state : {"absent", "live", "erased"}, scope : Scope \cup {None},
           version : Nat, interval : {"open", "bounded", "closed"},
           supersedes : MemoryId \cup {0}, supersededBy : MemoryId \cup {0},
           stale : BOOLEAN, attrs : SUBSET Mark]

NoMemory == [state |-> "absent", scope |-> None, version |-> 0,
             interval |-> "open", supersedes |-> 0, supersededBy |-> 0,
             stale |-> FALSE, attrs |-> {}]

\* other: the successor of a close, the prior of an assert by supersession.
Event == [kind : {"assert", "close", "soft_forget", "annotate", "hard_erase"},
          version : Nat, other : MemoryId \cup {0}]

Slot == [memory : MemoryId \cup {0}, body : Body \cup {None}]
FreeSlot == [memory |-> 0, body |-> None]

\* live: the row holds its live key 'A|..' in the unique index, not 'X|id'.
Relation == [state : {"absent", "active", "stale", "closed", "purged"},
             scope : Scope \cup {None}, predicate : Predicate \cup {None},
             subject : MemoryId \cup {0}, object : MemoryId \cup {0},
             version : Nat, live : BOOLEAN]

NoRelation == [state |-> "absent", scope |-> None, predicate |-> None,
               subject |-> 0, object |-> 0, version |-> 0, live |-> FALSE]

Idle == [op |-> "idle"]

PutRequest == [op : {"put"}, key : Key, body : Body,
               interval : {"open", "bounded"}]
ReceiptRequest == [op : {"receipt"}, key : Key, body : Body]
GuardedRequest == [op : {"supersede", "forget", "erase"}, id : MemoryId,
                   seen : Nat, expected : Nat]
AnnotateRequest == [op : {"annotate"}, id : MemoryId, seen : Nat,
                    expected : Nat, attrs : SUBSET Mark, bump : BOOLEAN]
LinkRequest == [op : {"link"}, id : MemoryId, source : MemoryId]
RelateRequest == [op : {"relate"}, predicate : Predicate,
                  subject : MemoryId, object : MemoryId]
UpdateRequest == [op : {"update"}, edge : RelationId, expected : Nat,
                  to : {"same", "closed", "stale"}]
LostGuard == [op : {"conflict"}, id : MemoryId, expected : Nat]

KeyedAnswer == [op : {"keyed"}, key : Key, body : Body, id : MemoryId,
                answer : {"fresh", "replayed", "mismatch", "unavailable"}]

Request == {Idle} \cup PutRequest \cup ReceiptRequest \cup GuardedRequest
  \cup AnnotateRequest \cup LinkRequest \cup RelateRequest \cup UpdateRequest
  \cup LostGuard \cup KeyedAnswer

Live(m) == memories[m].state = "live"

\* Ids are taken in order.
IsNew(m) == /\ memories[m].state = "absent" /\ m <= usage.memories
            /\ \A k \in MemoryId : k < m => memories[k].state # "absent"

NewMemory(c, prior, interval) ==
  [NoMemory EXCEPT !.state = "live", !.scope = ClientScope[c], !.version = 1,
                   !.interval = interval, !.supersedes = prior]

Entry(kind, version, other) ==
  [kind |-> kind, version |-> version, other |-> other]

Log(m, entry) == journal' = [journal EXCEPT ![m] = Append(@, entry)]

\* The record a client has read, or the answer it was given.
Ask(c, r) == req' = [req EXCEPT ![c] = r]
Ready(c) == req[c].op \in {"idle", "keyed"}

\* fetch_memory_raw and the owning-scope check.
Readable(c, m) == Live(m) /\ memories[m].scope = ClientScope[c]

\* Mutant: the version is compared by the read only.
GuardOnlyLive(m, expected) == Live(m)

\* The WHERE clause of a version guard; 0 stands for no expected_version.
GuardHolds(m, expected) == Live(m) /\ expected \in {0, memories[m].version}

\* .. AND valid_until = NONE AND sys_closed = NONE.
MayClose(m, expected) == GuardHolds(m, expected) /\ memories[m].interval = "open"

Init ==
  /\ memories = [m \in MemoryId |-> NoMemory]
  /\ journal = [m \in MemoryId |-> <<>>]
  /\ slots = [s \in Scope |-> [k \in Key |-> FreeSlot]]
  /\ derived = {}
  /\ relations = [e \in RelationId |-> NoRelation]
  /\ req = [c \in Client |-> Idle]
  /\ usage \in Usages

-----------------------------------------------------------------------------
(* put_prepared: without a key one transaction creates the memory and its   *)
(* assert event; with a key the receipt is looked up first, then slot,      *)
(* memory, receipt and event commit together, then the committed receipt is *)
(* read back.                                                               *)

Asserted(c, m, interval) ==
  /\ IsNew(m)
  /\ memories' = [memories EXCEPT ![m] = NewMemory(c, 0, interval)]
  /\ Log(m, Entry("assert", 1, 0))

PutPlain(c, interval) ==
  /\ "put" \in Offered /\ Ready(c)
  /\ \E m \in MemoryId : Asserted(c, m, interval)
  /\ Ask(c, Idle)
  /\ UNCHANGED <<slots, derived, relations, usage>>

Taken(c, k) == slots[ClientScope[c]][k].memory # 0

\* lookup_put_receipt_expect on a taken slot.
Lookup(c, k, b) ==
  LET slot == slots[ClientScope[c]][k]
      answer == IF slot.body # b THEN "mismatch"
                ELSE IF Live(slot.memory) THEN "replayed" ELSE "unavailable"
  IN  [op |-> "keyed", key |-> k, body |-> b, id |-> slot.memory, answer |-> answer]

PutRead(c, k, b, interval) ==
  /\ "keyed" \in Offered /\ Ready(c)
  /\ Ask(c, IF Taken(c, k) THEN Lookup(c, k, b)
            ELSE [op |-> "put", key |-> k, body |-> b, interval |-> interval])
  /\ UNCHANGED store

\* Mutant: the transaction does not test the slot again.
PutCommitBlind(c) ==
  LET r == req[c] IN
  /\ r.op = "put"
  /\ \E m \in MemoryId :
       /\ Asserted(c, m, r.interval)
       /\ slots' = [slots EXCEPT ![ClientScope[c]][r.key] =
                      [memory |-> m, body |-> r.body]]
  /\ Ask(c, [op |-> "receipt", key |-> r.key, body |-> r.body])
  /\ UNCHANGED <<derived, relations, usage>>

PutCommit(c) ==
  LET r == req[c] IN
  /\ r.op = "put" /\ ~Taken(c, r.key)
  /\ \E m \in MemoryId :
       /\ Asserted(c, m, r.interval)
       /\ slots' = [slots EXCEPT ![ClientScope[c]][r.key] =
                      [memory |-> m, body |-> r.body]]
  /\ Ask(c, [op |-> "receipt", key |-> r.key, body |-> r.body])
  /\ UNCHANGED <<derived, relations, usage>>

\* Mutant: any write conflict is taken for a claimed slot.
PutReplayAlways(c) ==
  /\ req[c].op = "put"
  /\ Ask(c, Lookup(c, req[c].key, req[c].body))
  /\ UNCHANGED store

\* The slot was claimed in between: THROW 'nomiso_conflict', then a replay.
PutReplay(c) ==
  /\ req[c].op = "put" /\ Taken(c, req[c].key)
  /\ Ask(c, Lookup(c, req[c].key, req[c].body))
  /\ UNCHANGED store

PutReceipt(c) ==
  LET found == Lookup(c, req[c].key, req[c].body) IN
  /\ req[c].op = "receipt"
  /\ Ask(c, [found EXCEPT !.answer = IF @ = "replayed" THEN "fresh" ELSE @])
  /\ UNCHANGED store

-----------------------------------------------------------------------------
(* supersede_inner. *)

\* A prior whose interval is bounded, or was closed by a soft forget, passes
\* the checks of the read when close_at falls inside it.
SupersedeRead(c, p) ==
  /\ "supersede" \in Offered /\ Ready(c) /\ Readable(c, p)
  /\ memories[p].supersededBy = 0
  /\ Ask(c, [op |-> "supersede", id |-> p, seen |-> memories[p].version,
             expected |-> memories[p].version])
  /\ UNCHANGED store

\* Mutant: the guards of the prior are tested by the read only.
MaySupersedeLive(r) == Live(r.id)

MaySupersede(r) == MayClose(r.id, r.expected) /\ memories[r.id].supersededBy = 0

\* Mutants: dependents of every scope; the edge followed the wrong way.
IsDependentAnywhere(c, m, p) == Live(m) /\ <<m, p>> \in derived
IsDependentReversed(c, m, p) == Readable(c, m) /\ <<p, m>> \in derived

\* Rows of the scope that were derived from p.
IsDependent(c, m, p) == Readable(c, m) /\ <<m, p>> \in derived

Touches(e, m) == m \in {relations[e].subject, relations[e].object}

Staled(c, p) ==
  [e \in RelationId |->
     IF /\ relations[e].state = "active" /\ relations[e].scope = ClientScope[c]
        /\ relations[e].predicate = "derived_from" /\ Touches(e, p)
     THEN [relations[e] EXCEPT !.state = "stale", !.live = FALSE]
     ELSE relations[e]]

\* Close the prior, create the successor, link both (supersedes_edge repeats
\* the link), mark dependents and derived_from relationships stale, journal
\* both rows.
SupersedeCommit(c) ==
  LET r == req[c]  p == r.id IN
  /\ r.op = "supersede" /\ MaySupersede(r)
  /\ \E s \in MemoryId, interval \in Intervals :
       LET marked == [m \in MemoryId |->
             [memories[m] EXCEPT !.stale = @ \/ IsDependent(c, m, p)]]
       IN  /\ IsNew(s)
           /\ memories' = [marked EXCEPT ![s] = NewMemory(c, p, interval),
                ![p].interval = "closed", ![p].version = @ + 1,
                ![p].supersededBy = s]
           /\ journal' = [journal EXCEPT
                ![p] = Append(@, Entry("close", r.expected + 1, s)),
                ![s] = Append(@, Entry("assert", 1, p))]
  /\ relations' = Staled(c, p)
  /\ Ask(c, Idle)
  /\ UNCHANGED <<slots, derived, usage>>

-----------------------------------------------------------------------------
(* forget: a one-shot close, or the deletion of the row. *)

Guard(m, guarded) == IF guarded THEN memories[m].version ELSE 0

ForgetRead(c, m, guarded) ==
  /\ "forget" \in Offered /\ Ready(c) /\ Readable(c, m)
  /\ memories[m].interval = "open"
  /\ Ask(c, [op |-> "forget", id |-> m, seen |-> memories[m].version,
             expected |-> Guard(m, guarded)])
  /\ UNCHANGED store

\* Mutant: the event carries the version that was read.
ForgetCommitSeen(c) ==
  LET r == req[c] IN
  /\ r.op = "forget" /\ MayClose(r.id, r.expected)
  /\ memories' = [memories EXCEPT ![r.id].interval = "closed",
                                  ![r.id].version = @ + 1]
  /\ Log(r.id, Entry("soft_forget", r.seen + 1, 0))
  /\ Ask(c, Idle)
  /\ UNCHANGED <<slots, derived, relations, usage>>

ForgetCommit(c) ==
  LET r == req[c] IN
  /\ r.op = "forget" /\ MayClose(r.id, r.expected)
  /\ memories' = [memories EXCEPT ![r.id].interval = "closed",
                                  ![r.id].version = @ + 1]
  /\ Log(r.id, Entry("soft_forget", memories[r.id].version + 1, 0))
  /\ Ask(c, Idle)
  /\ UNCHANGED <<slots, derived, relations, usage>>

EraseRead(c, m, guarded) ==
  /\ "erase" \in Offered /\ Ready(c) /\ Readable(c, m)
  /\ Ask(c, [op |-> "erase", id |-> m, seen |-> memories[m].version,
             expected |-> Guard(m, guarded)])
  /\ UNCHANGED store

Purged(c, m) ==
  [e \in RelationId |->
     IF /\ relations[e].state \notin {"absent", "purged"}
        /\ relations[e].scope = ClientScope[c] /\ Touches(e, m)
     THEN [relations[e] EXCEPT !.state = "purged", !.live = FALSE]
     ELSE relations[e]]

\* The slot of a keyed memory stays; nothing reads derived_from edges at an
\* erased row again.
EraseCommit(c) ==
  LET r == req[c] IN
  /\ r.op = "erase" /\ GuardHolds(r.id, r.expected)
  /\ memories' = [memories EXCEPT ![r.id] = [NoMemory EXCEPT !.state = "erased"]]
  /\ Log(r.id, Entry("hard_erase", memories[r.id].version, 0))
  /\ relations' = Purged(c, r.id)
  /\ Ask(c, Idle)
  /\ UNCHANGED <<slots, derived, usage>>

-----------------------------------------------------------------------------
(* annotate: attributes are merged into the ones that were read. *)

AnnotateRead(c, m, marks, guarded, bump) ==
  /\ "annotate" \in Offered /\ Ready(c) /\ Readable(c, m)
  /\ Ask(c, [op |-> "annotate", id |-> m, seen |-> memories[m].version,
             expected |-> Guard(m, guarded),
             attrs |-> memories[m].attrs \cup marks, bump |-> bump])
  /\ UNCHANGED store

AnnotateCommit(c) ==
  LET r == req[c]
      version == memories[r.id].version + (IF r.bump THEN 1 ELSE 0)
  IN
  /\ r.op = "annotate" /\ GuardHolds(r.id, r.expected)
  /\ Len(journal[r.id]) <= MaxEvents
  /\ memories' = [memories EXCEPT ![r.id].version = version,
                    ![r.id].attrs = IF r.attrs = {} THEN @ ELSE r.attrs]
  /\ Log(r.id, Entry("annotate", version, 0))
  /\ Ask(c, Idle)
  /\ UNCHANGED <<slots, derived, relations, usage>>

-----------------------------------------------------------------------------
(* A guard that failed at commit: conflict_from_memory reads the row again. *)

LoseGuard(c) ==
  LET r == req[c] IN
  /\ \/ r.op = "supersede" /\ ~MaySupersede(r)
     \/ r.op = "forget" /\ ~MayClose(r.id, r.expected)
     \/ r.op \in {"erase", "annotate"} /\ ~GuardHolds(r.id, r.expected)
  /\ Ask(c, [op |-> "conflict", id |-> r.id,
             expected |-> IF r.op = "forget" THEN r.expected ELSE r.seen])
  /\ UNCHANGED store

\* A vanished row is answered with not_found, any other with conflict.
ConflictFromMemory(c) ==
  /\ req[c].op = "conflict" /\ Ask(c, Idle)
  /\ UNCHANGED store

-----------------------------------------------------------------------------
(* link_derived_from: the source of the derivation is not looked at. *)

LinkRead(c, m, source) ==
  /\ "link" \in Offered /\ Ready(c) /\ Readable(c, m)
  /\ memories[source].state # "absent"
  /\ Ask(c, [op |-> "link", id |-> m, source |-> source])
  /\ UNCHANGED store

LinkCommit(c) ==
  /\ req[c].op = "link" /\ Cardinality(derived) < MaxLinks
  /\ derived' = derived \cup {<<req[c].id, req[c].source>>}
  /\ Ask(c, Idle)
  /\ UNCHANGED <<memories, journal, slots, relations, usage>>

-----------------------------------------------------------------------------
(* Relationships between memories, without pinned revisions. *)

\* The unique index on live_key.
LiveKeyTaken(c, predicate, s, o) ==
  \E e \in RelationId :
    /\ relations[e].live /\ relations[e].scope = ClientScope[c]
    /\ relations[e].predicate = predicate
    /\ relations[e].subject = s /\ relations[e].object = o

IsNewEdge(e) ==
  /\ relations[e].state = "absent"
  /\ \A f \in RelationId : f < e => relations[f].state # "absent"

RelateRead(c, predicate, s, o) ==
  /\ "relate" \in Offered /\ Ready(c)
  /\ Readable(c, s) /\ Readable(c, o) /\ ~LiveKeyTaken(c, predicate, s, o)
  /\ Ask(c, [op |-> "relate", predicate |-> predicate, subject |-> s, object |-> o])
  /\ UNCHANGED store

RelateCommit(c) ==
  LET r == req[c] IN
  /\ r.op = "relate" /\ ~LiveKeyTaken(c, r.predicate, r.subject, r.object)
  /\ \E e \in RelationId :
       /\ IsNewEdge(e)
       /\ relations' = [relations EXCEPT ![e] =
            [state |-> "active", scope |-> ClientScope[c],
             predicate |-> r.predicate, subject |-> r.subject,
             object |-> r.object, version |-> 1, live |-> TRUE]]
  /\ Ask(c, Idle)
  /\ UNCHANGED <<memories, journal, slots, derived, usage>>

UpdateRead(c, e, to) ==
  /\ "update" \in Offered /\ Ready(c)
  /\ relations[e].state # "absent" /\ relations[e].scope = ClientScope[c]
  /\ Ask(c, [op |-> "update", edge |-> e, expected |-> relations[e].version, to |-> to])
  /\ UNCHANGED store

MayUpdate(r) == /\ relations[r.edge].version = r.expected
                /\ relations[r.edge].state # "purged"

UpdateCommit(c) ==
  LET r == req[c] IN
  /\ r.op = "update" /\ MayUpdate(r) /\ r.expected < MaxEdgeVersion
  /\ relations' = [relations EXCEPT
       ![r.edge].version = @ + 1,
       ![r.edge].state = IF r.to = "same" THEN @ ELSE r.to,
       ![r.edge].live = @ /\ r.to = "same"]
  /\ Ask(c, Idle)
  /\ UNCHANGED <<memories, journal, slots, derived, usage>>

\* The unique index or the version guard refuses the write; or the call ends
\* without its answer: cancelled, its connection or its process lost.
GiveUp(c) ==
  /\ ~Ready(c) /\ Ask(c, Idle)
  /\ UNCHANGED store

-----------------------------------------------------------------------------

Put(c) ==
  \/ \E i \in Intervals : PutPlain(c, i)
  \/ \E k \in Key, b \in Body, i \in Intervals : PutRead(c, k, b, i)
  \/ PutCommit(c) \/ PutReplay(c) \/ PutReceipt(c)

Supersede(c) == (\E p \in MemoryId : SupersedeRead(c, p)) \/ SupersedeCommit(c)

Forget(c) ==
  \/ \E m \in MemoryId, g \in Guarding : ForgetRead(c, m, g) \/ EraseRead(c, m, g)
  \/ ForgetCommit(c) \/ EraseCommit(c)

Annotate(c) ==
  \/ \E m \in MemoryId, marks \in SUBSET Mark, g \in Guarding, b \in Bumping :
       AnnotateRead(c, m, marks, g, b)
  \/ AnnotateCommit(c)

Conflict(c) == LoseGuard(c) \/ ConflictFromMemory(c)

Link(c) == (\E m, source \in MemoryId : LinkRead(c, m, source)) \/ LinkCommit(c)

Relate(c) ==
  \/ \E p \in Predicate, s, o \in MemoryId : RelateRead(c, p, s, o)
  \/ RelateCommit(c)
  \/ \E e \in RelationId, to \in {"same", "closed", "stale"} : UpdateRead(c, e, to)
  \/ UpdateCommit(c)

Next ==
  \E c \in Client :
    \/ Put(c) \/ Supersede(c) \/ Forget(c) \/ Annotate(c) \/ Conflict(c)
    \/ Link(c) \/ Relate(c) \/ GiveUp(c)

Spec == Init /\ [][Next]_vars

-----------------------------------------------------------------------------
(* Properties. *)

\* Rows, journals, slots and requests stay in their domains.
TypeOK ==
  /\ memories \in [MemoryId -> Memory]
  /\ journal \in [MemoryId -> Seq(Event)]
  /\ slots \in [Scope -> [Key -> Slot]]
  /\ derived \subseteq MemoryId \X MemoryId
  /\ relations \in [RelationId -> Relation]
  /\ req \in [Client -> Request]

\* WRITE-004: however many calls supersede, forget and erase at once, a memory
\* has at most one successor and one prior, the two links of a surviving pair
\* agree, and a superseded memory is closed.
LineageIsLinear ==
  \A m, s \in MemoryId :
    Live(m) /\ Live(s) =>
      /\ memories[m].supersededBy = s <=> memories[s].supersedes = m
      /\ m # s /\ memories[m].supersedes = memories[s].supersedes
           => memories[m].supersedes = 0
      /\ memories[m].supersededBy # 0 => memories[m].interval = "closed"

Closing == {"close", "soft_forget"}

\* What an event adds to the version.
Increment(kind) ==
  CASE kind \in Closing -> {1} [] kind = "annotate" -> {0, 1} [] OTHER -> {0}

Closings(history) == {i \in DOMAIN history : history[i].kind \in Closing}

\* A history begins with its one assert, closes at most once, and each event
\* carries the version its commit produced.
IsHistory(history) ==
  /\ history # <<>> => history[1].kind = "assert" /\ history[1].version = 1
  /\ \A i \in 2..Len(history) :
       /\ history[i].kind # "assert" /\ history[i - 1].kind # "hard_erase"
       /\ history[i].version - history[i - 1].version \in Increment(history[i].kind)
  /\ \A i, j \in Closings(history) : i = j

ReplaysTo(history, row) ==
  /\ history = <<>> <=> row.state = "absent"
  /\ history # <<>> =>
       (row.state = "erased" <=> history[Len(history)].kind = "hard_erase")
  /\ row.state = "live" =>
       /\ row.version = history[Len(history)].version
       /\ row.supersedes = history[1].other
       /\ row.interval = "closed" <=> Closings(history) # {}
       /\ \A i \in Closings(history) : row.supersededBy = history[i].other

\* WRITE-010: the events of a memory are exactly its committed history: it ends
\* with an erasure, if there is one, and replaying it gives the row.
JournalReplays ==
  \A m \in MemoryId : IsHistory(journal[m]) /\ ReplaysTo(journal[m], memories[m])

\* WRITE-005: a key of a scope names one memory for ever.  The slot, the memory
\* and its assert event commit together, two keys never name one memory, a
\* receipt answers the request the slot was claimed with, and at most one
\* caller is told that its call did the write.
KeyNamesOneMemory ==
  /\ \A s \in Scope, k \in Key :
       LET slot == slots[s][k] IN
       slot.memory # 0 =>
         /\ journal[slot.memory] # <<>>
         /\ Live(slot.memory) => memories[slot.memory].scope = s
         /\ \A t \in Scope, l \in Key :
              slots[t][l].memory = slot.memory => <<t, l>> = <<s, k>>
  /\ \A c \in Client :
       req[c].op = "keyed" =>
         LET slot == slots[ClientScope[c]][req[c].key] IN
         /\ slot.memory = req[c].id
         /\ req[c].answer = "mismatch" <=> slot.body # req[c].body
  /\ \A c, d \in Client :
       /\ req[c].op = "keyed" /\ req[c].answer = "fresh" /\ c # d
       /\ req[d].op = "keyed" /\ req[d].answer = "fresh"
       => req[c].id # req[d].id

\* A step changes only rows of the scope of the one client that took it,
\* although edges may cross scopes.
ScopeIsolation ==
  [][\E c \in Client :
       /\ \A d \in Client : d # c => req'[d] = req[d]
       /\ \A m \in MemoryId : memories'[m] # memories[m] =>
            {memories[m].scope, memories'[m].scope} \subseteq {ClientScope[c], None}
       /\ \A e \in RelationId : relations'[e] # relations[e] =>
            {relations[e].scope, relations'[e].scope} \subseteq {ClientScope[c], None}
    ]_vars

\* REL-004: when a memory is superseded, everything of its scope that was
\* derived from it is stale in the same commit, and stale is for ever.  An edge
\* that was invalidated never becomes active again, whatever update was already
\* under way, and a purged edge never changes.
InvalidationIsFinal ==
  [][/\ \A p, m \in MemoryId :
          /\ memories[p].supersededBy = 0 /\ memories'[p].supersededBy # 0
          /\ <<m, p>> \in derived /\ Live(m) /\ memories[m].scope = memories[p].scope
          => memories'[m].stale
     /\ \A m \in MemoryId :
          memories[m].stale /\ memories'[m].state = "live" => memories'[m].stale
     /\ \A e \in RelationId :
          /\ relations[e].state \in {"stale", "closed", "purged"}
               => relations'[e].state \in {"stale", "closed", "purged"}
          /\ relations[e].state = "purged" => relations'[e] = relations[e]
    ]_vars

\* An annotation that carries expected_version loses no attribute another call
\* wrote since it read the row, whatever unguarded callers do.  It needs every
\* annotation to bump the version: one that does not is invisible to the guard.
GuardedAnnotationsKeep ==
  [][\A c \in Client :
       /\ req[c].op = "annotate" /\ req[c].expected # 0 /\ req'[c] = Idle
       /\ Live(req[c].id) /\ memories' # memories
       => memories[req[c].id].attrs \subseteq memories'[req[c].id].attrs]_vars

(* What the documents say and the code does not do. *)

\* docs/spec/04-mutations-and-consistency.md:80: annotations must not overwrite
\* canonical attributes through an unguarded read-modify-write.  An unguarded
\* one writes back the attributes it read and loses those written since.
AnnotationsAccumulate ==
  [][\A m \in MemoryId :
       memories'[m].state = "live" => memories[m].attrs \subseteq memories'[m].attrs]_vars
=============================================================================
