-------------------------- MODULE MemoryPlaneProofs --------------------------
(***************************************************************************)
(* Proofs about the memory plane, for any clients, scopes, keys and rows.  *)
(* `Effect` says what one step does to the rows and their journals, so     *)
(* that what holds of rows is proved per effect and not per operation;     *)
(* `CallFits` says what a call in flight knows, and `Progress` why it stays *)
(* true whoever else moves.                                                *)
(***************************************************************************)
EXTENDS MemoryPlane, TLAPS

\* What a record of a client says is told by its operation.
LEMMA RequestKinds ==
  ASSUME NEW r \in Request
  PROVE  /\ r.op = "put" => r \in PutRequest
         /\ r.op = "receipt" => r \in ReceiptRequest
         /\ r.op \in {"supersede", "forget", "erase"} => r \in GuardedRequest
         /\ r.op = "annotate" => r \in AnnotateRequest
         /\ r.op = "link" => r \in LinkRequest
         /\ r.op = "relate" => r \in RelateRequest
         /\ r.op = "update" => r \in UpdateRequest
         /\ r.op = "conflict" => r \in LostGuard
         /\ r.op = "keyed" => r \in KeyedAnswer
BY DEF Request, Idle, PutRequest, ReceiptRequest, GuardedRequest, AnnotateRequest,
       LinkRequest, RelateRequest, UpdateRequest, LostGuard, KeyedAnswer

Typed == TypeOK /\ usage \in Usages

LEMMA UsageTypes ==
  ASSUME Typed
  PROVE  /\ ClientScope \in [Client -> Scope]
         /\ Guarding \subseteq BOOLEAN /\ Bumping \subseteq BOOLEAN
         /\ Intervals \subseteq {"open", "bounded"}
BY CallerAssumption DEF Typed, Usage, ClientScope, Guarding, Bumping, Intervals

LEMMA AskTypes ==
  ASSUME Typed, NEW c \in Client, NEW r \in Request, Ask(c, r)
  PROVE  /\ req' \in [Client -> Request] /\ req'[c] = r
         /\ \A d \in Client : d # c => req'[d] = req[d]
BY DEF Typed, TypeOK, Ask

\* Rows and edges keep their types under what the operations change of them.
LEMMA RowEdits ==
  ASSUME NEW row \in Memory, NEW n \in Nat, NEW flag \in BOOLEAN, NEW s \in MemoryId,
         NEW marks \in SUBSET Mark
  PROVE  /\ [row EXCEPT !.stale = flag] \in Memory
         /\ [row EXCEPT !.interval = "closed", !.version = n] \in Memory
         /\ [row EXCEPT !.interval = "closed", !.version = n, !.supersededBy = s] \in Memory
         /\ [row EXCEPT !.version = n, !.attrs = marks] \in Memory
         /\ row.version + 1 \in Nat
<1>1. /\ \A r \in Memory : [r EXCEPT !.stale = flag] \in Memory
      /\ \A r \in Memory : [r EXCEPT !.interval = "closed"] \in Memory
  BY DEF Memory
<1>2. /\ \A r \in Memory : [r EXCEPT !.version = n] \in Memory
      /\ \A r \in Memory : [r EXCEPT !.supersededBy = s] \in Memory
  BY DEF Memory
<1>3. \A r \in Memory : [r EXCEPT !.attrs = marks] \in Memory
  BY DEF Memory
<1>4. row.version + 1 \in Nat
  BY DEF Memory
<1>. QED
  BY <1>1, <1>2, <1>3, <1>4

LEMMA EdgeEdits ==
  ASSUME NEW edge \in Relation, NEW n \in Nat, NEW flag \in BOOLEAN,
         NEW state \in {"absent", "active", "stale", "closed", "purged"}
  PROVE  /\ [edge EXCEPT !.state = state, !.live = flag] \in Relation
         /\ [edge EXCEPT !.version = n, !.state = state, !.live = flag] \in Relation
         /\ edge.version + 1 \in Nat
<1>1. /\ \A r \in Relation : [r EXCEPT !.version = n] \in Relation
      /\ \A r \in Relation : [r EXCEPT !.state = state] \in Relation
  BY DEF Relation
<1>2. \A r \in Relation : [r EXCEPT !.live = flag] \in Relation
  BY DEF Relation
<1>3. edge.version + 1 \in Nat
  BY DEF Relation
<1>. QED
  BY <1>1, <1>2, <1>3

LEMMA NewMemoryTypes ==
  ASSUME Typed, NEW c \in Client, NEW p \in MemoryId \cup {0}, NEW i \in Intervals
  PROVE  NewMemory(c, p, i) \in Memory
BY UsageTypes DEF NewMemory, NoMemory, Memory

LEMMA NewMemoryFields ==
  ASSUME NEW c \in Client, NEW m \in MemoryId, NEW p \in MemoryId \cup {0},
         NEW i \in {"open", "bounded"}, memories'[m] = NewMemory(c, p, i)
  PROVE  /\ memories'[m].state = "live" /\ memories'[m].scope = ClientScope[c]
         /\ memories'[m].version = 1 /\ memories'[m].interval \in {"open", "bounded"}
         /\ memories'[m].supersedes = p /\ memories'[m].supersededBy = 0
         /\ ~ memories'[m].stale
BY DEF NewMemory, NoMemory

\* What one client asked, and what the lookup of its key would answer.
LEMMA LookupTypes ==
  ASSUME Typed, NEW c \in Client, NEW k \in Key, NEW b \in Body, Taken(c, k)
  PROVE  Lookup(c, k, b) \in KeyedAnswer
<1>1. slots[ClientScope[c]][k] \in Slot
  BY UsageTypes DEF Typed, TypeOK
<1>. QED
  BY <1>1 DEF Lookup, Taken, Slot, KeyedAnswer, MemoryId

LEMMA PutTypes ==
  ASSUME Typed, NEW c \in Client, Put(c),
         req[c].op = "receipt" => Taken(c, req[c].key)
  PROVE  Typed'
<1>. USE UsageTypes
<1>1. ASSUME NEW m \in MemoryId, NEW i \in Intervals, Asserted(c, m, i)
      PROVE  memories' \in [MemoryId -> Memory] /\ journal' \in [MemoryId -> Seq(Event)]
  <2>1. NewMemory(c, 0, i) \in Memory
    BY NewMemoryTypes
  <2>2. Entry("assert", 1, 0) \in Event
    BY DEF Entry, Event
  <2>. QED
    BY <1>1, <2>1, <2>2 DEF Typed, TypeOK, Asserted, Log
<1>2. ASSUME NEW i \in Intervals, PutPlain(c, i)
      PROVE  Typed'
  <2>1. req' \in [Client -> Request]
    BY <1>2, AskTypes DEF PutPlain, Request
  <2>. QED
    BY <1>2, <1>1, <2>1 DEF PutPlain, Typed, TypeOK
<1>3. ASSUME NEW k \in Key, NEW b \in Body, NEW i \in Intervals, PutRead(c, k, b, i)
      PROVE  Typed'
  <2>1. [op |-> "put", key |-> k, body |-> b, interval |-> i] \in Request
    BY DEF Request, PutRequest
  <2>2. Taken(c, k) => Lookup(c, k, b) \in Request
    BY LookupTypes DEF Request
  <2>3. req' \in [Client -> Request]
    BY <1>3, <2>1, <2>2, AskTypes DEF PutRead
  <2>. QED
    BY <1>3, <2>3 DEF PutRead, store, Typed, TypeOK
<1>4. ASSUME PutCommit(c)
      PROVE  Typed'
  <2>1. req[c] \in PutRequest
    BY <1>4, RequestKinds DEF PutCommit, Typed, TypeOK
  <2>2. PICK m \in MemoryId :
          /\ Asserted(c, m, req[c].interval)
          /\ slots' = [slots EXCEPT ![ClientScope[c]][req[c].key] =
                         [memory |-> m, body |-> req[c].body]]
    BY <1>4 DEF PutCommit
  <2>3. memories' \in [MemoryId -> Memory] /\ journal' \in [MemoryId -> Seq(Event)]
    <3>1. NewMemory(c, 0, req[c].interval) \in Memory
      BY <2>1 DEF PutRequest, NewMemory, NoMemory, Memory
    <3>2. Entry("assert", 1, 0) \in Event
      BY DEF Entry, Event
    <3>. QED
      BY <2>2, <3>1, <3>2 DEF Typed, TypeOK, Asserted, Log
  <2>4. slots' \in [Scope -> [Key -> Slot]]
    <3>1. [memory |-> m, body |-> req[c].body] \in Slot
      BY <2>1 DEF PutRequest, Slot
    <3>. QED
      BY <2>1, <2>2, <3>1 DEF Typed, TypeOK, PutRequest
  <2>5. [op |-> "receipt", key |-> req[c].key, body |-> req[c].body] \in Request
    BY <2>1 DEF PutRequest, ReceiptRequest, Request
  <2>6. req' \in [Client -> Request]
    BY <1>4, <2>5, AskTypes DEF PutCommit
  <2>. QED
    BY <1>4, <2>3, <2>4, <2>6 DEF PutCommit, Typed, TypeOK
<1>5. ASSUME PutReplay(c)
      PROVE  Typed'
  <2>1. req[c] \in PutRequest
    BY <1>5, RequestKinds DEF PutReplay, Typed, TypeOK
  <2>2. Lookup(c, req[c].key, req[c].body) \in Request
    BY <1>5, <2>1, LookupTypes DEF PutReplay, PutRequest, Request
  <2>3. req' \in [Client -> Request]
    BY <1>5, <2>2, AskTypes DEF PutReplay
  <2>. QED
    BY <1>5, <2>3 DEF PutReplay, store, Typed, TypeOK
<1>6. ASSUME PutReceipt(c)
      PROVE  Typed'
  <2>. Taken(c, req[c].key)
    BY <1>6 DEF PutReceipt
  <2>1. req[c] \in ReceiptRequest
    BY <1>6, RequestKinds DEF PutReceipt, Typed, TypeOK
  <2>2. Lookup(c, req[c].key, req[c].body) \in KeyedAnswer
    BY <1>6, <2>1, LookupTypes DEF ReceiptRequest
  <2>. DEFINE found == Lookup(c, req[c].key, req[c].body)
              told == [found EXCEPT !.answer = IF @ = "replayed" THEN "fresh" ELSE @]
  <2>3. told \in Request
    BY <2>2 DEF KeyedAnswer, Request
  <2>4. req' \in [Client -> Request]
    BY <1>6, <2>3, AskTypes DEF PutReceipt
  <2>. QED
    BY <1>6, <2>4 DEF PutReceipt, store, Typed, TypeOK
<1>. QED
  BY <1>2, <1>3, <1>4, <1>5, <1>6 DEF Put

\* A read keeps the store, and what it asks is a request.
LEMMA ReadTypes ==
  ASSUME Typed, NEW c \in Client, NEW r \in Request, Ask(c, r), UNCHANGED store
  PROVE  Typed'
BY AskTypes DEF Typed, TypeOK, store

LEMMA StaledTypes ==
  ASSUME Typed, NEW c \in Client, NEW p \in MemoryId
  PROVE  /\ Staled(c, p) \in [RelationId -> Relation]
         /\ Purged(c, p) \in [RelationId -> Relation]
<1>1. ASSUME NEW e \in RelationId
      PROVE  /\ [relations[e] EXCEPT !.state = "stale", !.live = FALSE] \in Relation
             /\ [relations[e] EXCEPT !.state = "purged", !.live = FALSE] \in Relation
             /\ relations[e] \in Relation
  BY DEF Typed, TypeOK, Relation
<1>. QED
  BY <1>1 DEF Staled, Purged

LEMMA SupersedeTypes ==
  ASSUME Typed, NEW c \in Client, Supersede(c)
  PROVE  Typed'
<1>. USE UsageTypes
<1>1. ASSUME NEW p \in MemoryId, SupersedeRead(c, p)
      PROVE  Typed'
  <2>1. [op |-> "supersede", id |-> p, seen |-> memories[p].version,
         expected |-> memories[p].version] \in Request
    BY DEF Typed, TypeOK, Memory, GuardedRequest, Request
  <2>. QED
    BY <1>1, <2>1, ReadTypes DEF SupersedeRead
<1>2. ASSUME SupersedeCommit(c)
      PROVE  Typed'
  <2>1. req[c] \in GuardedRequest
    BY <1>2, RequestKinds DEF SupersedeCommit, Typed, TypeOK
  <2>. DEFINE p == req[c].id
              marked == [m \in MemoryId |->
                           [memories[m] EXCEPT !.stale = @ \/ IsDependent(c, m, p)]]
  <2>2. p \in MemoryId /\ req[c].expected \in Nat
    BY <2>1 DEF GuardedRequest
  <2>3. PICK s \in MemoryId, interval \in Intervals :
          /\ IsNew(s)
          /\ memories' = [marked EXCEPT ![s] = NewMemory(c, p, interval),
               ![p].interval = "closed", ![p].version = @ + 1, ![p].supersededBy = s]
          /\ journal' = [journal EXCEPT
               ![p] = Append(@, Entry("close", req[c].expected + 1, s)),
               ![s] = Append(@, Entry("assert", 1, p))]
    BY <1>2 DEF SupersedeCommit
  <2>4. p # s
    BY <1>2, <2>3 DEF SupersedeCommit, IsNew, MaySupersede, MayClose, GuardHolds, Live
  <2>5. marked \in [MemoryId -> Memory]
    <3>1. ASSUME NEW m \in MemoryId
          PROVE  [memories[m] EXCEPT !.stale = @ \/ IsDependent(c, m, p)] \in Memory
      <4>1. memories[m] \in Memory
        BY DEF Typed, TypeOK
      <4>2. (memories[m].stale \/ IsDependent(c, m, p)) \in BOOLEAN
        OBVIOUS
      <4>. QED
        BY <4>1, <4>2 DEF Memory
    <3>. QED
      BY <3>1
  <2>6. memories' \in [MemoryId -> Memory]
    <3>1. NewMemory(c, p, interval) \in Memory
      BY <2>2, NewMemoryTypes
    <3>. HIDE DEF marked
    <3>2. [marked[p] EXCEPT !.interval = "closed", !.version = @ + 1,
                            !.supersededBy = s] \in Memory
      BY <2>2, <2>5, RowEdits
    <3>3. memories' = [m \in MemoryId |->
            IF m = p THEN [marked[p] EXCEPT !.interval = "closed", !.version = @ + 1,
                                            !.supersededBy = s]
            ELSE IF m = s THEN NewMemory(c, p, interval) ELSE marked[m]]
      BY <2>2, <2>3, <2>4, <2>5
    <3>. QED
      BY <2>5, <3>1, <3>2, <3>3
  <2>7. journal' \in [MemoryId -> Seq(Event)]
    <3>1. Entry("close", req[c].expected + 1, s) \in Event /\ Entry("assert", 1, p) \in Event
      BY <2>2 DEF Entry, Event
    <3>2. /\ Append(journal[p], Entry("close", req[c].expected + 1, s)) \in Seq(Event)
          /\ Append(journal[s], Entry("assert", 1, p)) \in Seq(Event)
      BY <2>2, <3>1 DEF Typed, TypeOK
    <3>3. journal' = [m \in MemoryId |->
            IF m = p THEN Append(journal[p], Entry("close", req[c].expected + 1, s))
            ELSE IF m = s THEN Append(journal[s], Entry("assert", 1, p)) ELSE journal[m]]
      BY <2>2, <2>3, <2>4 DEF Typed, TypeOK
    <3>. QED
      BY <3>2, <3>3 DEF Typed, TypeOK
  <2>8. req' \in [Client -> Request]
    BY <1>2, AskTypes DEF SupersedeCommit, Request
  <2>9. relations' \in [RelationId -> Relation]
    BY <1>2, <2>2, StaledTypes DEF SupersedeCommit
  <2>. QED
    BY <1>2, <2>6, <2>7, <2>8, <2>9 DEF SupersedeCommit, Typed, TypeOK
<1>. QED
  BY <1>1, <1>2 DEF Supersede

LEMMA ForgetTypes ==
  ASSUME Typed, NEW c \in Client, Forget(c)
  PROVE  Typed'
<1>. USE UsageTypes
<1>1. ASSUME NEW m \in MemoryId, NEW g \in Guarding,
             ForgetRead(c, m, g) \/ EraseRead(c, m, g)
      PROVE  Typed'
  <2>1. Guard(m, g) \in Nat /\ memories[m].version \in Nat
    BY DEF Guard, Typed, TypeOK, Memory
  <2>2. ASSUME NEW o \in {"forget", "erase"}
        PROVE  [op |-> o, id |-> m, seen |-> memories[m].version,
                expected |-> Guard(m, g)] \in Request
    BY <2>1 DEF GuardedRequest, Request
  <2>. QED
    BY <1>1, <2>2, ReadTypes DEF ForgetRead, EraseRead
<1>2. ASSUME ForgetCommit(c)
      PROVE  Typed'
  <2>1. req[c].id \in MemoryId
    BY <1>2, RequestKinds DEF ForgetCommit, Typed, TypeOK, GuardedRequest
  <2>2. memories' \in [MemoryId -> Memory]
    <3>1. [memories[req[c].id] EXCEPT !.interval = "closed", !.version = @ + 1] \in Memory
      BY <2>1, RowEdits DEF Typed, TypeOK
    <3>. QED
      BY <1>2, <2>1, <3>1 DEF ForgetCommit, Typed, TypeOK
  <2>3. Entry("soft_forget", memories[req[c].id].version + 1, 0) \in Event
    BY <2>1 DEF Entry, Event, Typed, TypeOK, Memory
  <2>4. req' \in [Client -> Request]
    BY <1>2, AskTypes DEF ForgetCommit, Request
  <2>. QED
    BY <1>2, <2>1, <2>2, <2>3, <2>4 DEF ForgetCommit, Log, Typed, TypeOK
<1>3. ASSUME EraseCommit(c)
      PROVE  Typed'
  <2>1. req[c].id \in MemoryId
    BY <1>3, RequestKinds DEF EraseCommit, Typed, TypeOK, GuardedRequest
  <2>2. [NoMemory EXCEPT !.state = "erased"] \in Memory
    BY DEF NoMemory, Memory
  <2>3. Entry("hard_erase", memories[req[c].id].version, 0) \in Event
    BY <2>1 DEF Entry, Event, Typed, TypeOK, Memory
  <2>4. req' \in [Client -> Request]
    BY <1>3, AskTypes DEF EraseCommit, Request
  <2>5. relations' \in [RelationId -> Relation]
    BY <1>3, <2>1, StaledTypes DEF EraseCommit
  <2>. QED
    BY <1>3, <2>1, <2>2, <2>3, <2>4, <2>5 DEF EraseCommit, Log, Typed, TypeOK
<1>. QED
  BY <1>1, <1>2, <1>3 DEF Forget

LEMMA AnnotateTypes ==
  ASSUME Typed, NEW c \in Client, Annotate(c)
  PROVE  Typed'
<1>. USE UsageTypes
<1>1. ASSUME NEW m \in MemoryId, NEW marks \in SUBSET Mark, NEW g \in Guarding,
             NEW b \in Bumping, AnnotateRead(c, m, marks, g, b)
      PROVE  Typed'
  <2>1. /\ Guard(m, g) \in Nat /\ memories[m].version \in Nat
        /\ memories[m].attrs \cup marks \in SUBSET Mark
    BY DEF Guard, Typed, TypeOK, Memory
  <2>2. [op |-> "annotate", id |-> m, seen |-> memories[m].version,
         expected |-> Guard(m, g), attrs |-> memories[m].attrs \cup marks,
         bump |-> b] \in Request
    BY <2>1 DEF AnnotateRequest, Request
  <2>. QED
    BY <1>1, <2>2, ReadTypes DEF AnnotateRead
<1>2. ASSUME AnnotateCommit(c)
      PROVE  Typed'
  <2>1. req[c] \in AnnotateRequest
    BY <1>2, RequestKinds DEF AnnotateCommit, Typed, TypeOK
  <2>. DEFINE m == req[c].id
              version == memories[m].version + (IF req[c].bump THEN 1 ELSE 0)
  <2>2. m \in MemoryId /\ req[c].attrs \in SUBSET Mark /\ version \in Nat
    BY <2>1 DEF AnnotateRequest, Typed, TypeOK, Memory
  <2>3. memories' \in [MemoryId -> Memory]
    <3>. DEFINE marks == IF req[c].attrs = {} THEN memories[m].attrs ELSE req[c].attrs
    <3>0. marks \in SUBSET Mark /\ memories[m] \in Memory
      BY <2>2 DEF Typed, TypeOK, Memory
    <3>1. [memories[m] EXCEPT !.version = version, !.attrs = marks] \in Memory
      BY <2>2, <3>0, RowEdits
    <3>. QED
      BY <1>2, <2>2, <3>1 DEF AnnotateCommit, Typed, TypeOK
  <2>4. Entry("annotate", version, 0) \in Event
    BY <2>2 DEF Entry, Event
  <2>5. req' \in [Client -> Request]
    BY <1>2, AskTypes DEF AnnotateCommit, Request
  <2>. QED
    BY <1>2, <2>2, <2>3, <2>4, <2>5 DEF AnnotateCommit, Log, Typed, TypeOK
<1>. QED
  BY <1>1, <1>2 DEF Annotate

LEMMA ConflictTypes ==
  ASSUME Typed, NEW c \in Client, Conflict(c) \/ GiveUp(c)
  PROVE  Typed'
<1>1. ASSUME LoseGuard(c)
      PROVE  Typed'
  <2>1. /\ req[c].id \in MemoryId /\ req[c].expected \in Nat /\ req[c].seen \in Nat
    BY <1>1, RequestKinds DEF LoseGuard, Typed, TypeOK, GuardedRequest, AnnotateRequest
  <2>2. [op |-> "conflict", id |-> req[c].id,
         expected |-> IF req[c].op = "forget" THEN req[c].expected ELSE req[c].seen]
        \in Request
    BY <2>1 DEF LostGuard, Request
  <2>. QED
    BY <1>1, <2>2, ReadTypes DEF LoseGuard
<1>2. Idle \in Request
  BY DEF Request
<1>. QED
  BY <1>1, <1>2, ReadTypes DEF Conflict, ConflictFromMemory, GiveUp

LEMMA LinkTypes ==
  ASSUME Typed, NEW c \in Client, Link(c)
  PROVE  Typed'
<1>1. ASSUME NEW m \in MemoryId, NEW source \in MemoryId, LinkRead(c, m, source)
      PROVE  Typed'
  <2>1. [op |-> "link", id |-> m, source |-> source] \in Request
    BY DEF LinkRequest, Request
  <2>. QED
    BY <1>1, <2>1, ReadTypes DEF LinkRead
<1>2. ASSUME LinkCommit(c)
      PROVE  Typed'
  <2>1. req[c].id \in MemoryId /\ req[c].source \in MemoryId
    BY <1>2, RequestKinds DEF LinkCommit, Typed, TypeOK, LinkRequest
  <2>2. req' \in [Client -> Request]
    BY <1>2, AskTypes DEF LinkCommit, Request
  <2>. QED
    BY <1>2, <2>1, <2>2 DEF LinkCommit, Typed, TypeOK
<1>. QED
  BY <1>1, <1>2 DEF Link

LEMMA RelateTypes ==
  ASSUME Typed, NEW c \in Client, Relate(c)
  PROVE  Typed'
<1>. USE UsageTypes
<1>1. ASSUME NEW p \in Predicate, NEW s \in MemoryId, NEW o \in MemoryId,
             RelateRead(c, p, s, o)
      PROVE  Typed'
  <2>1. [op |-> "relate", predicate |-> p, subject |-> s, object |-> o] \in Request
    BY DEF RelateRequest, Request
  <2>. QED
    BY <1>1, <2>1, ReadTypes DEF RelateRead
<1>2. ASSUME RelateCommit(c)
      PROVE  Typed'
  <2>1. req[c] \in RelateRequest
    BY <1>2, RequestKinds DEF RelateCommit, Typed, TypeOK
  <2>2. [state |-> "active", scope |-> ClientScope[c], predicate |-> req[c].predicate,
         subject |-> req[c].subject, object |-> req[c].object, version |-> 1,
         live |-> TRUE] \in Relation
    BY <2>1 DEF RelateRequest, Relation
  <2>3. req' \in [Client -> Request]
    BY <1>2, AskTypes DEF RelateCommit, Request
  <2>. QED
    BY <1>2, <2>2, <2>3 DEF RelateCommit, Typed, TypeOK
<1>3. ASSUME NEW e \in RelationId, NEW to \in {"same", "closed", "stale"},
             UpdateRead(c, e, to)
      PROVE  Typed'
  <2>1. [op |-> "update", edge |-> e, expected |-> relations[e].version, to |-> to]
        \in Request
    BY DEF Typed, TypeOK, Relation, UpdateRequest, Request
  <2>. QED
    BY <1>3, <2>1, ReadTypes DEF UpdateRead
<1>4. ASSUME UpdateCommit(c)
      PROVE  Typed'
  <2>1. req[c].edge \in RelationId /\ req[c].to \in {"same", "closed", "stale"}
    BY <1>4, RequestKinds DEF UpdateCommit, Typed, TypeOK, UpdateRequest
  <2>2. relations' \in [RelationId -> Relation]
    <3>. DEFINE edge == relations[req[c].edge]
                state == IF req[c].to = "same" THEN edge.state ELSE req[c].to
                flag == edge.live /\ req[c].to = "same"
    <3>1. edge \in Relation
      BY <2>1 DEF Typed, TypeOK
    <3>2. state \in {"absent", "active", "stale", "closed", "purged"} /\ edge.version + 1 \in Nat
      BY <2>1, <3>1 DEF Relation
    <3>3. flag \in BOOLEAN
      OBVIOUS
    <3>4. relations' = [relations EXCEPT ![req[c].edge] =
             [edge EXCEPT !.version = edge.version + 1, !.state = state, !.live = flag]]
      BY <1>4, <2>1 DEF UpdateCommit, Typed, TypeOK
    <3>. HIDE DEF flag, state, edge
    <3>5. [edge EXCEPT !.version = edge.version + 1, !.state = state, !.live = flag]
             \in Relation
      BY <3>1, <3>2, <3>3, EdgeEdits
    <3>. QED
      BY <2>1, <3>4, <3>5 DEF Typed, TypeOK
  <2>3. req' \in [Client -> Request]
    BY <1>4, AskTypes DEF UpdateCommit, Request
  <2>. QED
    BY <1>4, <2>2, <2>3 DEF UpdateCommit, Typed, TypeOK
<1>. QED
  BY <1>1, <1>2, <1>3, <1>4 DEF Relate

-----------------------------------------------------------------------------
(* What a step does to a row and its journal. *)

\* All but `stale`, which is only ever set.
Same(m) ==
  /\ memories'[m].state = memories[m].state /\ memories'[m].scope = memories[m].scope
  /\ memories'[m].supersedes = memories[m].supersedes
  /\ memories[m].stale => memories'[m].stale

Untouched(m) ==
  /\ Same(m) /\ journal'[m] = journal[m]
  /\ memories'[m].version = memories[m].version
  /\ memories'[m].interval = memories[m].interval
  /\ memories'[m].supersededBy = memories[m].supersededBy
  /\ memories'[m].attrs = memories[m].attrs
  /\ memories[m].state # "live" => memories'[m].stale = memories[m].stale

Born(c, m, prior) ==
  /\ memories[m].state = "absent"
  /\ memories'[m].state = "live" /\ memories'[m].scope = ClientScope[c]
  /\ memories'[m].version = 1 /\ memories'[m].interval \in {"open", "bounded"}
  /\ memories'[m].supersedes = prior /\ memories'[m].supersededBy = 0
  /\ journal'[m] = Append(journal[m], Entry("assert", 1, prior))

Closes(m, kind, successor) ==
  /\ Live(m) /\ Same(m) /\ memories[m].interval = "open"
  /\ memories'[m].interval = "closed"
  /\ memories'[m].version = memories[m].version + 1
  /\ memories'[m].attrs = memories[m].attrs
  /\ journal'[m] = Append(journal[m], Entry(kind, memories[m].version + 1, successor))

Goes(m) ==
  /\ Live(m) /\ memories'[m].state = "erased" /\ memories'[m].scope = None
  /\ memories'[m].supersedes = 0 /\ memories'[m].supersededBy = 0
  /\ ~ memories'[m].stale
  /\ journal'[m] = Append(journal[m], Entry("hard_erase", memories[m].version, 0))

IsAnnotated(m) ==
  /\ Live(m) /\ Same(m)
  /\ memories'[m].interval = memories[m].interval
  /\ memories'[m].supersededBy = memories[m].supersededBy
  /\ memories'[m].version \in {memories[m].version, memories[m].version + 1}
  /\ memories'[m].version = memories[m].version =>
       memories'[m].attrs = memories[m].attrs \/ FALSE \in Bumping
  /\ journal'[m] = Append(journal[m], Entry("annotate", memories'[m].version, 0))

Only(changed) == \A m \in MemoryId \ changed : Untouched(m)

OneRow(c) ==
  \/ Only({})
  \/ \E m \in MemoryId :
       /\ Only({m})
       /\ \/ Born(c, m, 0) \/ Goes(m) \/ IsAnnotated(m)
          \/ /\ Closes(m, "soft_forget", 0)
             /\ memories'[m].supersededBy = memories[m].supersededBy

TwoRows(c) ==
  \E p, s \in MemoryId :
    /\ Only({p, s}) /\ p # s
    /\ Closes(p, "close", s) /\ memories[p].supersededBy = 0
    /\ memories'[p].supersededBy = s
    /\ Born(c, s, p)

Effect(c) == OneRow(c) \/ TwoRows(c)

\* What a call has read of a row, an edge, the versions and a slot: the row was
\* created, and while it lives it is of the client's scope; an annotation that
\* names a version has all the attributes of it.
RowFits(c) ==
  req[c].op \in {"supersede", "forget", "erase", "annotate"} =>
    /\ memories[req[c].id].state # "absent"
    /\ Live(req[c].id) => memories[req[c].id].scope = ClientScope[c]
    /\ req[c].op = "supersede" => req[c].expected # 0

EdgeFits(c) ==
  req[c].op = "update" =>
    /\ relations[req[c].edge].state # "absent"
    /\ relations[req[c].edge].scope = ClientScope[c]

MarksFit(c) ==
  req[c].op = "annotate" =>
    /\ req[c].bump \in Bumping
    /\ FALSE \notin Bumping /\ req[c].expected # 0 /\ Live(req[c].id) =>
         /\ req[c].expected <= memories[req[c].id].version
         /\ req[c].expected = memories[req[c].id].version =>
              memories[req[c].id].attrs \subseteq req[c].attrs

KeyFits(c) ==
  /\ req[c].op = "receipt" =>
       /\ Taken(c, req[c].key)
       /\ slots[ClientScope[c]][req[c].key].body = req[c].body
  /\ req[c].op = "keyed" =>
       /\ slots[ClientScope[c]][req[c].key].memory = req[c].id
       /\ req[c].answer = "mismatch" <=> slots[ClientScope[c]][req[c].key].body # req[c].body

CallFits(c) == RowFits(c) /\ EdgeFits(c) /\ MarksFit(c) /\ KeyFits(c)

\* A row nobody created is blank, a link leads to a row that was created.
RowsFit ==
  /\ \A m \in MemoryId :
       /\ memories[m].state = "absent" <=> journal[m] = <<>>
       /\ memories[m].state # "live" => memories[m].scope = None /\ ~ memories[m].stale
       /\ Live(m) => memories[m].version >= 1
       /\ memories[m].supersedes # 0 => memories[memories[m].supersedes].state # "absent"
       /\ memories[m].supersededBy # 0 => memories[memories[m].supersededBy].state # "absent"
  /\ \A e \in RelationId : relations[e].state = "absent" => relations[e].scope = None

\* The one call that claimed a slot, until it is told so and after.
Claims(c) == req[c].op = "receipt" \/ (req[c].op = "keyed" /\ req[c].answer = "fresh")

SlotsFit ==
  \A s \in Scope, k \in Key :
    slots[s][k].memory # 0 =>
      /\ memories[slots[s][k].memory].state # "absent"
      /\ Live(slots[s][k].memory) => memories[slots[s][k].memory].scope = s
      /\ \A t \in Scope, l \in Key :
           slots[t][l].memory = slots[s][k].memory => t = s /\ l = k

OneClaim ==
  \A c, d \in Client :
    Claims(c) /\ Claims(d) /\ ClientScope[c] = ClientScope[d] /\ req[c].key = req[d].key
      => c = d

MemoryInv ==
  /\ Typed
  /\ RowsFit
  /\ SlotsFit /\ OneClaim
  /\ LineageIsLinear
  /\ JournalReplays
  /\ \A c \in Client : CallFits(c)

LEMMA StandStill ==
  ASSUME UNCHANGED <<memories, journal>>, NEW c \in Client
  PROVE  OneRow(c)
BY DEF OneRow, Only, Untouched, Same

LEMMA BirthEffect ==
  ASSUME Typed, NEW c \in Client, NEW m \in MemoryId, NEW i \in {"open", "bounded"},
         Asserted(c, m, i)
  PROVE  Only({m}) /\ Born(c, m, 0)
<1>1. memories'[m] = NewMemory(c, 0, i)
  BY DEF Asserted, Typed, TypeOK
<1>2. journal'[m] = Append(journal[m], Entry("assert", 1, 0))
  BY DEF Asserted, Log, Typed, TypeOK
<1>3. \A k \in MemoryId \ {m} : memories'[k] = memories[k] /\ journal'[k] = journal[k]
  BY DEF Asserted, Log, Typed, TypeOK
<1>4. Only({m})
  BY <1>3 DEF Only, Untouched, Same
<1>5. Born(c, m, 0)
  <2>1. memories[m].state = "absent"
    BY DEF Asserted, IsNew
  <2>. QED
    BY <1>1, <1>2, <2>1, NewMemoryFields DEF Born
<1>. QED
  BY <1>4, <1>5

LEMMA PutEffect ==
  ASSUME Typed, NEW c \in Client, Put(c)
  PROVE  OneRow(c)
<1>1. ASSUME NEW i \in Intervals, PutPlain(c, i)
      PROVE  OneRow(c)
  BY <1>1, BirthEffect, UsageTypes DEF PutPlain, OneRow
<1>2. ASSUME PutCommit(c)
      PROVE  OneRow(c)
  <2>1. req[c].interval \in {"open", "bounded"}
    BY <1>2, RequestKinds DEF PutCommit, Typed, TypeOK, PutRequest
  <2>. QED
    BY <1>2, <2>1, BirthEffect DEF PutCommit, OneRow
<1>3. (\E k \in Key, b \in Body, i \in Intervals : PutRead(c, k, b, i))
        \/ PutReplay(c) \/ PutReceipt(c) => OneRow(c)
  BY StandStill DEF PutRead, PutReplay, PutReceipt, store
<1>. QED
  BY <1>1, <1>2, <1>3 DEF Put

LEMMA SupersedeEffect ==
  ASSUME Typed, NEW c \in Client, CallFits(c), RowsFit, SupersedeCommit(c)
  PROVE  /\ TwoRows(c)
         /\ \A m \in MemoryId :
              /\ memories[m].supersededBy = 0 /\ memories'[m].supersededBy # 0 =>
                   m = req[c].id /\ memories[m].scope = ClientScope[c]
              /\ IsDependent(c, m, req[c].id) => memories'[m].stale
              /\ memories'[m] # memories[m] => memories[m].scope \in {ClientScope[c], None}
<1>. DEFINE p == req[c].id
            marked == [m \in MemoryId |->
                         [memories[m] EXCEPT !.stale = @ \/ IsDependent(c, m, p)]]
<1>1. req[c] \in GuardedRequest /\ p \in MemoryId /\ req[c].expected \in Nat
  <2>1. req[c] \in GuardedRequest
    BY RequestKinds DEF SupersedeCommit, Typed, TypeOK
  <2>. QED
    BY <2>1 DEF GuardedRequest
<1>2. PICK s \in MemoryId, interval \in Intervals :
        /\ IsNew(s)
        /\ memories' = [marked EXCEPT ![s] = NewMemory(c, p, interval),
             ![p].interval = "closed", ![p].version = @ + 1, ![p].supersededBy = s]
        /\ journal' = [journal EXCEPT
             ![p] = Append(@, Entry("close", req[c].expected + 1, s)),
             ![s] = Append(@, Entry("assert", 1, p))]
  BY DEF SupersedeCommit
<1>3. /\ Live(p) /\ memories[p].interval = "open" /\ memories[p].supersededBy = 0
      /\ req[c].expected = memories[p].version
  BY DEF SupersedeCommit, MaySupersede, MayClose, GuardHolds, CallFits, RowFits
<1>4. p # s /\ memories[s].state = "absent"
  BY <1>2, <1>3 DEF IsNew, Live
<1>5. \A m \in MemoryId :
        marked[m] = [memories[m] EXCEPT !.stale = @ \/ IsDependent(c, m, p)]
  BY DEF marked
<1>6. ASSUME NEW m \in MemoryId
      PROVE  /\ marked[m].state = memories[m].state /\ marked[m].scope = memories[m].scope
             /\ marked[m].version = memories[m].version
             /\ marked[m].interval = memories[m].interval
             /\ marked[m].supersedes = memories[m].supersedes
             /\ marked[m].supersededBy = memories[m].supersededBy
             /\ marked[m].attrs = memories[m].attrs
             /\ memories[m].stale \/ IsDependent(c, m, p) => marked[m].stale
             /\ ~ IsDependent(c, m, p) => marked[m].stale = memories[m].stale
  <2>1. memories[m] \in Memory
    BY DEF Typed, TypeOK
  <2>2. /\ memories[m].stale \/ IsDependent(c, m, p) => marked[m].stale
        /\ ~ IsDependent(c, m, p) => marked[m].stale = memories[m].stale
    BY <1>5, <2>1 DEF Memory
  <2>. QED
    BY <1>5, <2>1, <2>2 DEF Memory
<1>7. marked \in [MemoryId -> Memory]
  <2>1. ASSUME NEW m \in MemoryId
        PROVE  marked[m] \in Memory
    BY <1>5, RowEdits DEF Typed, TypeOK
  <2>. QED
    BY <2>1
<1>. HIDE DEF marked
<1>8. /\ memories'[p] = [marked[p] EXCEPT !.interval = "closed", !.version = @ + 1,
                                          !.supersededBy = s]
      /\ memories'[s] = NewMemory(c, p, interval)
      /\ \A m \in MemoryId \ {p, s} : memories'[m] = marked[m]
  BY <1>1, <1>2, <1>4, <1>7
<1>9. /\ journal'[p] = Append(journal[p], Entry("close", memories[p].version + 1, s))
      /\ journal'[s] = Append(journal[s], Entry("assert", 1, p))
      /\ \A m \in MemoryId \ {p, s} : journal'[m] = journal[m]
  BY <1>1, <1>2, <1>3, <1>4 DEF Typed, TypeOK
<1>10. /\ memories'[p].state = marked[p].state /\ memories'[p].scope = marked[p].scope
       /\ memories'[p].version = marked[p].version + 1
       /\ memories'[p].interval = "closed" /\ memories'[p].supersededBy = s
       /\ memories'[p].supersedes = marked[p].supersedes
       /\ memories'[p].stale = marked[p].stale /\ memories'[p].attrs = marked[p].attrs
  BY <1>1, <1>7, <1>8 DEF Memory
<1>11. Closes(p, "close", s)
  BY <1>1, <1>3, <1>6, <1>9, <1>10 DEF Closes, Same
<1>12. Born(c, s, p)
  <2>1. interval \in {"open", "bounded"}
    BY UsageTypes
  <2>. QED
    BY <1>1, <1>4, <1>8, <1>9, <2>1, NewMemoryFields DEF Born
<1>13. Only({p, s})
  <2>1. \A m \in MemoryId : IsDependent(c, m, p) => memories[m].state = "live"
    BY DEF IsDependent, Readable, Live
  <2>. QED
    BY <1>6, <1>8, <1>9, <2>1 DEF Only, Untouched, Same
<1>14. TwoRows(c)
  BY <1>1, <1>3, <1>4, <1>10, <1>11, <1>12, <1>13 DEF TwoRows
<1>15. memories[p].scope = ClientScope[c] /\ memories[s].scope = None
  BY <1>1, <1>2, <1>3, <1>4 DEF SupersedeCommit, CallFits, RowFits, RowsFit
<1>16. ASSUME NEW m \in MemoryId
       PROVE  /\ memories[m].supersededBy = 0 /\ memories'[m].supersededBy # 0 => m = p
              /\ IsDependent(c, m, p) => memories'[m].stale
  <2>1. m = s => memories'[m].supersededBy = 0
    BY <1>12 DEF Born
  <2>2. m \notin {p, s} => memories'[m].supersededBy = memories[m].supersededBy
    BY <1>13 DEF Only, Untouched
  <2>3. IsDependent(c, m, p) => m # s /\ marked[m].stale
    BY <1>4, <1>6 DEF IsDependent, Readable, Live
  <2>4. m # s => memories'[m].stale = marked[m].stale
    BY <1>8, <1>10
  <2>. QED
    BY <2>1, <2>2, <2>3, <2>4
<1>17. ASSUME NEW m \in MemoryId, memories'[m] # memories[m]
       PROVE  memories[m].scope \in {ClientScope[c], None}
  <2>1. CASE m \in {p, s}
    BY <1>15, <2>1
  <2>2. CASE m \notin {p, s} /\ ~ IsDependent(c, m, p)
    <3>1. memories[m] \in Memory /\ memories'[m] = marked[m] /\ marked[m] \in Memory
      BY <1>7, <1>8, <2>2 DEF Typed, TypeOK
    <3>2. marked[m] = memories[m]
      BY <1>6, <2>2, <3>1 DEF Memory
    <3>. QED
      BY <1>17, <3>1, <3>2
  <2>3. CASE IsDependent(c, m, p)
    BY <2>3 DEF IsDependent, Readable
  <2>. QED
    BY <2>1, <2>2, <2>3
<1>. QED
  BY <1>14, <1>15, <1>16, <1>17

LEMMA ForgetEffect ==
  ASSUME Typed, NEW c \in Client, Forget(c)
  PROVE  OneRow(c)
<1>1. ASSUME ForgetCommit(c)
      PROVE  OneRow(c)
  <2>. DEFINE m == req[c].id
  <2>1. m \in MemoryId
    BY <1>1, RequestKinds DEF ForgetCommit, Typed, TypeOK, GuardedRequest
  <2>2. Live(m) /\ memories[m].interval = "open" /\ memories[m] \in Memory
    BY <1>1, <2>1 DEF ForgetCommit, MayClose, GuardHolds, Typed, TypeOK
  <2>3. /\ memories'[m] = [memories[m] EXCEPT !.interval = "closed", !.version = @ + 1]
        /\ \A k \in MemoryId \ {m} : memories'[k] = memories[k]
    BY <1>1, <2>1 DEF ForgetCommit, Typed, TypeOK
  <2>4. /\ journal'[m] = Append(journal[m], Entry("soft_forget", memories[m].version + 1, 0))
        /\ \A k \in MemoryId \ {m} : journal'[k] = journal[k]
    BY <1>1, <2>1 DEF ForgetCommit, Log, Typed, TypeOK
  <2>5. Closes(m, "soft_forget", 0) /\ memories'[m].supersededBy = memories[m].supersededBy
    BY <2>2, <2>3, <2>4 DEF Closes, Same, Memory
  <2>6. Only({m})
    BY <2>3, <2>4 DEF Only, Untouched, Same
  <2>. QED
    BY <2>1, <2>5, <2>6 DEF OneRow
<1>2. ASSUME EraseCommit(c)
      PROVE  OneRow(c)
  <2>. DEFINE m == req[c].id
  <2>1. m \in MemoryId /\ Live(m)
    BY <1>2, RequestKinds DEF EraseCommit, GuardHolds, Typed, TypeOK, GuardedRequest
  <2>2. /\ memories'[m] = [NoMemory EXCEPT !.state = "erased"]
        /\ \A k \in MemoryId \ {m} : memories'[k] = memories[k]
    BY <1>2, <2>1 DEF EraseCommit, Typed, TypeOK
  <2>3. /\ journal'[m] = Append(journal[m], Entry("hard_erase", memories[m].version, 0))
        /\ \A k \in MemoryId \ {m} : journal'[k] = journal[k]
    BY <1>2, <2>1 DEF EraseCommit, Log, Typed, TypeOK
  <2>4. Goes(m)
    BY <2>1, <2>2, <2>3 DEF Goes, NoMemory
  <2>5. Only({m})
    BY <2>2, <2>3 DEF Only, Untouched, Same
  <2>. QED
    BY <2>1, <2>4, <2>5 DEF OneRow
<1>3. (\E m \in MemoryId, g \in Guarding : ForgetRead(c, m, g) \/ EraseRead(c, m, g))
        => OneRow(c)
  BY StandStill DEF ForgetRead, EraseRead, store
<1>. QED
  BY <1>1, <1>2, <1>3 DEF Forget

LEMMA AnnotateEffect ==
  ASSUME Typed, NEW c \in Client, CallFits(c), Annotate(c)
  PROVE  OneRow(c)
<1>1. ASSUME AnnotateCommit(c)
      PROVE  OneRow(c)
  <2>. DEFINE m == req[c].id
              version == memories[m].version + (IF req[c].bump THEN 1 ELSE 0)
              marks == IF req[c].attrs = {} THEN memories[m].attrs ELSE req[c].attrs
  <2>1. req[c] \in AnnotateRequest /\ m \in MemoryId /\ Live(m) /\ req[c].bump \in Bumping
    BY <1>1, RequestKinds
    DEF AnnotateCommit, GuardHolds, Typed, TypeOK, AnnotateRequest, CallFits, MarksFit
  <2>2. memories[m] \in Memory
    BY <2>1 DEF Typed, TypeOK
  <2>3. /\ memories'[m] = [memories[m] EXCEPT !.version = version, !.attrs = marks]
        /\ \A k \in MemoryId \ {m} : memories'[k] = memories[k]
    BY <1>1, <2>1 DEF AnnotateCommit, Typed, TypeOK
  <2>4. /\ journal'[m] = Append(journal[m], Entry("annotate", version, 0))
        /\ \A k \in MemoryId \ {m} : journal'[k] = journal[k]
    BY <1>1, <2>1 DEF AnnotateCommit, Log, Typed, TypeOK
  <2>5. /\ version \in {memories[m].version, memories[m].version + 1}
        /\ version = memories[m].version => FALSE \in Bumping
    <3>1. req[c].bump \in BOOLEAN /\ memories[m].version \in Nat
      BY <2>1, <2>2 DEF Memory, AnnotateRequest
    <3>2. version \in {memories[m].version, memories[m].version + 1}
      BY <3>1
    <3>3. version = memories[m].version => ~ req[c].bump
      BY <3>1
    <3>4. ~ req[c].bump => FALSE \in Bumping
      BY <2>1, <3>1
    <3>. QED
      BY <3>2, <3>3, <3>4
  <2>6. /\ memories'[m].state = memories[m].state /\ memories'[m].scope = memories[m].scope
        /\ memories'[m].supersedes = memories[m].supersedes
        /\ memories'[m].supersededBy = memories[m].supersededBy
        /\ memories'[m].interval = memories[m].interval
        /\ memories'[m].stale = memories[m].stale
        /\ memories'[m].version = version
    BY <2>2, <2>3 DEF Memory
  <2>. HIDE DEF version, marks
  <2>7. IsAnnotated(m)
    BY <2>1, <2>4, <2>5, <2>6 DEF IsAnnotated, Same
  <2>8. Only({m})
    BY <2>3, <2>4 DEF Only, Untouched, Same
  <2>. QED
    BY <2>1, <2>7, <2>8 DEF OneRow
<1>2. (\E m \in MemoryId, marks \in SUBSET Mark, g \in Guarding, b \in Bumping :
         AnnotateRead(c, m, marks, g, b)) => OneRow(c)
  BY StandStill DEF AnnotateRead, store
<1>. QED
  BY <1>1, <1>2 DEF Annotate

-----------------------------------------------------------------------------
(* The steps of one client. *)

StepOf(c) ==
  \/ Put(c) \/ Supersede(c) \/ Forget(c) \/ Annotate(c) \/ Conflict(c)
  \/ Link(c) \/ Relate(c) \/ GiveUp(c)

LEMMA StepTypes ==
  ASSUME Typed, NEW c \in Client, CallFits(c), StepOf(c)
  PROVE  Typed'
BY PutTypes, SupersedeTypes, ForgetTypes, AnnotateTypes, ConflictTypes, LinkTypes,
   RelateTypes
DEF StepOf, CallFits, KeyFits

LEMMA StepEffect ==
  ASSUME Typed, NEW c \in Client, CallFits(c), RowsFit, StepOf(c)
  PROVE  /\ (SupersedeCommit(c) /\ TwoRows(c)) \/ OneRow(c)
         /\ Effect(c)
<1>1. (\E p \in MemoryId : SupersedeRead(c, p)) \/ Conflict(c) \/ Link(c) \/ Relate(c)
        \/ GiveUp(c) => UNCHANGED <<memories, journal>>
  BY DEF SupersedeRead, Conflict, LoseGuard, ConflictFromMemory, Link, LinkRead,
         LinkCommit, Relate, RelateRead, RelateCommit, UpdateRead, UpdateCommit,
         GiveUp, store
<1>. QED
  BY <1>1, StandStill, PutEffect, SupersedeEffect, ForgetEffect, AnnotateEffect
  DEF StepOf, Supersede, Effect

LEMMA Alone ==
  ASSUME Typed, NEW c \in Client, StepOf(c)
  PROVE  /\ usage' = usage
         /\ \A d \in Client : d # c => req'[d] = req[d]
<1>1. usage' = usage
  BY DEF StepOf, Put, PutPlain, PutRead, PutCommit, PutReplay, PutReceipt, Supersede,
         SupersedeRead, SupersedeCommit, Forget, ForgetRead, ForgetCommit, EraseRead,
         EraseCommit, Annotate, AnnotateRead, AnnotateCommit, Conflict, LoseGuard,
         ConflictFromMemory, Link, LinkRead, LinkCommit, Relate, RelateRead,
         RelateCommit, UpdateRead, UpdateCommit, GiveUp, store
<1>2. \E r : Ask(c, r)
  BY DEF StepOf, Put, PutPlain, PutRead, PutCommit, PutReplay, PutReceipt, Supersede,
         SupersedeRead, SupersedeCommit, Forget, ForgetRead, ForgetCommit, EraseRead,
         EraseCommit, Annotate, AnnotateRead, AnnotateCommit, Conflict, LoseGuard,
         ConflictFromMemory, Link, LinkRead, LinkCommit, Relate, RelateRead,
         RelateCommit, UpdateRead, UpdateCommit, GiveUp
<1>. QED
  BY <1>1, <1>2 DEF Ask, Typed, TypeOK

\* Which step a row takes, whatever the others do.
LEMMA RowSteps ==
  ASSUME NEW c \in Client, Effect(c), NEW m \in MemoryId
  PROVE  \/ Untouched(m)
         \/ \E prior \in MemoryId \cup {0} : Born(c, m, prior)
         \/ \E kind \in Closing, s \in MemoryId \cup {0} : Closes(m, kind, s)
         \/ Goes(m) \/ IsAnnotated(m)
BY DEF Effect, OneRow, TwoRows, Only, Closing

\* A row that was created stays created, in its scope, with its prior and no
\* smaller version; an annotation that every other bumps past is seen by them.
Progress(m) ==
  /\ memories[m].state # "absent" => memories'[m].state # "absent"
  /\ memories'[m].state = "live" => memories[m].state \in {"absent", "live"}
  /\ memories'[m].state = "live" /\ memories[m].state = "live" =>
       /\ memories'[m].scope = memories[m].scope
       /\ memories'[m].supersedes = memories[m].supersedes
       /\ memories'[m].version >= memories[m].version
       /\ memories[m].stale => memories'[m].stale
       /\ memories'[m].version = memories[m].version =>
            memories'[m].attrs = memories[m].attrs \/ FALSE \in Bumping

LEMMA RowsProgress ==
  ASSUME Typed, NEW c \in Client, Effect(c), NEW m \in MemoryId
  PROVE  Progress(m)
<1>1. memories[m] \in Memory
  BY DEF Typed, TypeOK
<1>2. memories[m].version \in Nat /\ memories[m].state \in {"absent", "live", "erased"}
  BY <1>1 DEF Memory
<1>3. CASE Untouched(m)
  BY <1>2, <1>3 DEF Untouched, Same, Progress
<1>4. CASE \E prior \in MemoryId \cup {0} : Born(c, m, prior)
  BY <1>2, <1>4 DEF Born, Progress
<1>5. CASE \E kind \in Closing, s \in MemoryId \cup {0} : Closes(m, kind, s)
  BY <1>2, <1>5 DEF Closes, Same, Live, Progress
<1>6. CASE Goes(m)
  BY <1>6 DEF Goes, Live, Progress
<1>7. CASE IsAnnotated(m)
  <2>1. memories'[m].version >= memories[m].version
    BY <1>2, <1>7 DEF IsAnnotated
  <2>2. memories'[m].version = memories[m].version =>
          memories'[m].attrs = memories[m].attrs \/ FALSE \in Bumping
    BY <1>7 DEF IsAnnotated
  <2>3. Live(m) /\ Same(m)
    BY <1>7 DEF IsAnnotated
  <2>. QED
    BY <2>1, <2>2, <2>3 DEF Same, Live, Progress
<1>. QED
  BY <1>3, <1>4, <1>5, <1>6, <1>7, RowSteps

LEMMA SlotsGrow ==
  ASSUME Typed, NEW c \in Client, StepOf(c), NEW s \in Scope, NEW k \in Key
  PROVE  /\ slots[s][k].memory # 0 => slots'[s][k] = slots[s][k]
         /\ slots'[s][k] # slots[s][k] => PutCommit(c)
<1>1. ASSUME PutCommit(c)
      PROVE  slots[s][k].memory # 0 => slots'[s][k] = slots[s][k]
  <2>1. req[c].key \in Key
    BY <1>1, RequestKinds DEF PutCommit, Typed, TypeOK, PutRequest
  <2>2. PICK m \in MemoryId :
          slots' = [slots EXCEPT ![ClientScope[c]][req[c].key] =
                      [memory |-> m, body |-> req[c].body]]
    BY <1>1 DEF PutCommit
  <2>. QED
    BY <1>1, <2>1, <2>2, UsageTypes DEF PutCommit, Taken, Typed, TypeOK
<1>2. PutCommit(c) \/ UNCHANGED slots
  BY DEF StepOf, Put, PutPlain, PutRead, PutReplay, PutReceipt, Supersede, SupersedeRead,
         SupersedeCommit, Forget, ForgetRead, ForgetCommit, EraseRead, EraseCommit,
         Annotate, AnnotateRead, AnnotateCommit, Conflict, LoseGuard, ConflictFromMemory,
         Link, LinkRead, LinkCommit, Relate, RelateRead, RelateCommit, UpdateRead,
         UpdateCommit, GiveUp, store
<1>. QED
  BY <1>1, <1>2

\* An edge that moves is one of the client's scope, and not a purged one.
EdgeMoves(c, e) ==
  /\ relations'[e].scope = ClientScope[c] /\ relations'[e].state # "absent"
  /\ relations[e].state = "absent" \/ relations[e].scope = ClientScope[c]
  /\ relations[e].state # "purged"
  /\ relations[e].state \in {"stale", "closed"} =>
       relations'[e].state \in {"stale", "closed", "purged"}

LEMMA EdgeSteps ==
  ASSUME Typed, NEW c \in Client, CallFits(c), StepOf(c), NEW e \in RelationId
  PROVE  relations'[e] = relations[e] \/ EdgeMoves(c, e)
<1>1. relations[e] \in Relation
  BY DEF Typed, TypeOK
<1>2. ASSUME NEW state \in {"stale", "purged"}, relations[e].scope = ClientScope[c],
             relations'[e] = [relations[e] EXCEPT !.state = state, !.live = FALSE],
             relations[e].state = "active" \/ (state = "purged" /\ relations[e].state # "purged")
      PROVE  EdgeMoves(c, e)
  BY <1>1, <1>2 DEF EdgeMoves, Relation
<1>3. ASSUME SupersedeCommit(c)
      PROVE  relations'[e] = relations[e] \/ EdgeMoves(c, e)
  BY <1>2, <1>3 DEF SupersedeCommit, Staled
<1>4. ASSUME EraseCommit(c)
      PROVE  relations'[e] = relations[e] \/ EdgeMoves(c, e)
  BY <1>2, <1>4 DEF EraseCommit, Purged
<1>5. ASSUME RelateCommit(c)
      PROVE  relations'[e] = relations[e] \/ EdgeMoves(c, e)
  <2>1. PICK f \in RelationId :
          /\ relations[f].state = "absent"
          /\ relations' = [relations EXCEPT ![f] =
               [state |-> "active", scope |-> ClientScope[c],
                predicate |-> req[c].predicate, subject |-> req[c].subject,
                object |-> req[c].object, version |-> 1, live |-> TRUE]]
    BY <1>5 DEF RelateCommit, IsNewEdge
  <2>2. CASE e = f
    BY <2>1, <2>2 DEF EdgeMoves, Typed, TypeOK
  <2>3. CASE e # f
    BY <2>1, <2>3 DEF Typed, TypeOK
  <2>. QED
    BY <2>2, <2>3
<1>6. ASSUME UpdateCommit(c)
      PROVE  relations'[e] = relations[e] \/ EdgeMoves(c, e)
  <2>1. /\ req[c].edge \in RelationId /\ req[c].to \in {"same", "closed", "stale"}
        /\ relations[req[c].edge].state \notin {"absent", "purged"}
        /\ relations[req[c].edge].scope = ClientScope[c]
    BY <1>6, RequestKinds
    DEF UpdateCommit, MayUpdate, Typed, TypeOK, UpdateRequest, CallFits, EdgeFits
  <2>2. CASE e = req[c].edge
    <3>. DEFINE state == IF req[c].to = "same" THEN relations[e].state ELSE req[c].to
                flag == relations[e].live /\ req[c].to = "same"
    <3>1. relations'[e] = [relations[e] EXCEPT !.version = relations[e].version + 1,
                             !.state = state, !.live = flag]
      BY <1>6, <2>2 DEF UpdateCommit, Typed, TypeOK
    <3>. HIDE DEF flag
    <3>2. relations'[e].state = state /\ relations'[e].scope = relations[e].scope
      BY <1>1, <3>1 DEF Relation
    <3>. QED
      BY <1>1, <2>1, <2>2, <3>2 DEF EdgeMoves, Relation
  <2>3. CASE e # req[c].edge
    BY <1>6, <2>1, <2>3 DEF UpdateCommit, Typed, TypeOK
  <2>. QED
    BY <2>2, <2>3
<1>7. SupersedeCommit(c) \/ EraseCommit(c) \/ RelateCommit(c) \/ UpdateCommit(c)
        \/ UNCHANGED relations
  BY DEF StepOf, Put, PutPlain, PutRead, PutCommit, PutReplay, PutReceipt, Supersede,
         SupersedeRead, Forget, ForgetRead, ForgetCommit, EraseRead, Annotate,
         AnnotateRead, AnnotateCommit, Conflict, LoseGuard, ConflictFromMemory, Link,
         LinkRead, LinkCommit, Relate, RelateRead, UpdateRead, GiveUp, store
<1>. QED
  BY <1>3, <1>4, <1>5, <1>6, <1>7

-----------------------------------------------------------------------------
(* The rows and their lineage. *)

\* A row keeps its links, or loses them with its erasure, or is new and has none;
\* one step may link one new row to one live row that had no successor.
KeepsLinks(m) ==
  \/ /\ memories'[m].state = memories[m].state
     /\ memories'[m].supersedes = memories[m].supersedes
     /\ memories'[m].supersededBy = memories[m].supersededBy
     /\ memories[m].interval = "closed" => memories'[m].interval = "closed"
  \/ /\ memories'[m].state = "erased"
     /\ memories'[m].supersedes = 0 /\ memories'[m].supersededBy = 0
  \/ /\ memories[m].state = "absent" /\ memories'[m].state = "live"
     /\ memories'[m].supersedes = 0 /\ memories'[m].supersededBy = 0

Links(p, s) ==
  /\ p # s /\ memories[p].state = "live" /\ memories[p].supersededBy = 0
  /\ memories'[p].state = "live" /\ memories'[p].supersededBy = s
  /\ memories'[p].supersedes = memories[p].supersedes
  /\ memories'[p].interval = "closed"
  /\ memories[s].state = "absent" /\ memories'[s].state = "live"
  /\ memories'[s].supersedes = p /\ memories'[s].supersededBy = 0

LEMMA LinkSteps ==
  ASSUME NEW c \in Client, Effect(c)
  PROVE  \/ \A m \in MemoryId : KeepsLinks(m)
         \/ \E p, s \in MemoryId :
              Links(p, s) /\ \A m \in MemoryId \ {p, s} : KeepsLinks(m)
<1>1. \A m \in MemoryId : Untouched(m) => KeepsLinks(m)
  BY DEF Untouched, Same, KeepsLinks
<1>2. \A m \in MemoryId : Born(c, m, 0) \/ Goes(m) \/ IsAnnotated(m) => KeepsLinks(m)
  BY DEF Born, Goes, IsAnnotated, Same, KeepsLinks
<1>3. \A m \in MemoryId :
        Closes(m, "soft_forget", 0) /\ memories'[m].supersededBy = memories[m].supersededBy
          => KeepsLinks(m)
  BY DEF Closes, Same, KeepsLinks
<1>4. \A p, s \in MemoryId :
        /\ p # s /\ Closes(p, "close", s) /\ memories[p].supersededBy = 0
        /\ memories'[p].supersededBy = s /\ Born(c, s, p)
        => Links(p, s)
  BY DEF Closes, Same, Live, Born, Links
<1>. QED
  BY <1>1, <1>2, <1>3, <1>4 DEF Effect, OneRow, TwoRows, Only

LEMMA RowsStep ==
  ASSUME MemoryInv, NEW c \in Client, StepOf(c), Effect(c)
  PROVE  RowsFit'
<1>1. ASSUME NEW m \in MemoryId
      PROVE  /\ (memories[m].state = "absent" <=> journal[m] = <<>>)'
             /\ memories'[m].state # "live" => memories'[m].scope = None /\ ~ memories'[m].stale
             /\ memories'[m].state = "live" => memories'[m].version >= 1
  <2>1. /\ memories[m].state = "absent" <=> journal[m] = <<>>
        /\ memories[m].state # "live" => memories[m].scope = None /\ ~ memories[m].stale
        /\ memories[m].state = "live" => memories[m].version >= 1
        /\ memories[m].version \in Nat /\ journal[m] \in Seq(Event)
    BY DEF MemoryInv, RowsFit, Live, Typed, TypeOK, Memory
  <2>2. \A k, v, o :
          Append(journal[m], Entry(k, v, o)) # <<>>
    BY <2>1 DEF Entry
  <2>3. CASE Untouched(m)
    BY <2>1, <2>3 DEF Untouched, Same
  <2>4. CASE \E prior \in MemoryId \cup {0} : Born(c, m, prior)
    BY <2>1, <2>2, <2>4 DEF Born
  <2>5. CASE \E kind \in Closing, s \in MemoryId \cup {0} : Closes(m, kind, s)
    BY <2>1, <2>2, <2>5 DEF Closes, Same, Live, Closing
  <2>6. CASE Goes(m)
    BY <2>1, <2>2, <2>6 DEF Goes
  <2>7. CASE IsAnnotated(m)
    BY <2>1, <2>2, <2>7 DEF IsAnnotated, Same, Live
  <2>. QED
    BY <2>3, <2>4, <2>5, <2>6, <2>7, RowSteps
<1>2. \A m \in MemoryId : memories[m].state # "absent" => memories'[m].state # "absent"
  BY RowsProgress DEF MemoryInv, Progress
<1>3. ASSUME NEW m \in MemoryId
      PROVE  /\ memories'[m].supersedes # 0 =>
                  \/ memories'[m].supersedes = memories[m].supersedes
                  \/ memories[memories'[m].supersedes].state # "absent"
             /\ memories'[m].supersededBy # 0 =>
                  \/ memories'[m].supersededBy = memories[m].supersededBy
                  \/ memories'[memories'[m].supersededBy].state # "absent"
  <2>1. CASE KeepsLinks(m)
    BY <2>1 DEF KeepsLinks
  <2>2. CASE \E p, s \in MemoryId : Links(p, s) /\ m \in {p, s}
    BY <2>2 DEF Links
  <2>. QED
    BY <2>1, <2>2, LinkSteps
<1>4. ASSUME NEW m \in MemoryId
      PROVE  /\ memories'[m].supersedes \in MemoryId \cup {0}
             /\ memories'[m].supersededBy \in MemoryId \cup {0}
             /\ memories[m].supersedes \in MemoryId \cup {0}
             /\ memories[m].supersededBy \in MemoryId \cup {0}
  BY StepTypes DEF MemoryInv, Typed, TypeOK, Memory
<1>5. ASSUME NEW m \in MemoryId
      PROVE  /\ memories'[m].supersedes # 0 =>
                  memories'[memories'[m].supersedes].state # "absent"
             /\ memories'[m].supersededBy # 0 =>
                  memories'[memories'[m].supersededBy].state # "absent"
  BY <1>2, <1>3, <1>4 DEF MemoryInv, RowsFit
<1>6. ASSUME NEW e \in RelationId
      PROVE  relations'[e].state = "absent" => relations'[e].scope = None
  BY EdgeSteps DEF MemoryInv, RowsFit, EdgeMoves
<1>. QED
  BY <1>1, <1>5, <1>6 DEF RowsFit, Live

\* Two rows are linked both ways or not at all, before a step and after.
LEMMA LineageStep ==
  ASSUME MemoryInv, NEW c \in Client, StepOf(c), Effect(c)
  PROVE  LineageIsLinear'
<1>1. \A m \in MemoryId : Live(m) /\ memories[m].supersededBy # 0 =>
        memories[m].interval = "closed"
  BY DEF MemoryInv, LineageIsLinear
<1>2. ASSUME NEW m \in MemoryId, NEW s \in MemoryId
      PROVE  /\ Live(m) /\ Live(s) =>
                  /\ memories[m].supersededBy = s <=> memories[s].supersedes = m
                  /\ m # s /\ memories[m].supersedes = memories[s].supersedes
                       => memories[m].supersedes = 0
             /\ memories[m].state = "absent" =>
                  memories[s].supersedes # m /\ memories[s].supersededBy # m
             /\ m # 0
  BY DEF MemoryInv, LineageIsLinear, RowsFit, MemoryId
<1>3. ASSUME \A m \in MemoryId : KeepsLinks(m)
      PROVE  LineageIsLinear'
  BY <1>1, <1>2, <1>3 DEF KeepsLinks, LineageIsLinear, Live
<1>4. ASSUME NEW p \in MemoryId, NEW s \in MemoryId, Links(p, s),
             \A m \in MemoryId \ {p, s} : KeepsLinks(m)
      PROVE  LineageIsLinear'
  <2>1. ASSUME NEW m \in MemoryId, memories'[m].state = "live", memories'[m].supersededBy # 0
        PROVE  memories'[m].interval = "closed"
    BY <1>1, <1>4, <2>1 DEF KeepsLinks, Links, Live
  <2>2. ASSUME NEW m \in MemoryId, NEW t \in MemoryId,
               memories'[m].state = "live", memories'[t].state = "live"
        PROVE  memories'[m].supersededBy = t <=> memories'[t].supersedes = m
    BY <1>2, <1>4, <2>2 DEF KeepsLinks, Links, Live
  <2>3. ASSUME NEW m \in MemoryId, NEW t \in MemoryId, m # t,
               memories'[m].state = "live", memories'[t].state = "live",
               memories'[m].supersedes = memories'[t].supersedes
        PROVE  memories'[m].supersedes = 0
    BY <1>2, <1>4, <2>3 DEF KeepsLinks, Links, Live
  <2>. QED
    BY <2>1, <2>2, <2>3 DEF LineageIsLinear, Live
<1>. QED
  BY <1>3, <1>4, LinkSteps

-----------------------------------------------------------------------------
(* The journal of one row. *)

LEMMA AppendFacts ==
  ASSUME NEW h \in Seq(Event), NEW e
  PROVE  /\ Len(h) \in Nat /\ Len(Append(h, e)) = Len(h) + 1
         /\ DOMAIN h = 1 .. Len(h) /\ DOMAIN Append(h, e) = 1 .. Len(h) + 1
         /\ \A i \in 1 .. Len(h) : Append(h, e)[i] = h[i]
         /\ Append(h, e)[Len(h) + 1] = e
         /\ Append(h, e) # <<>> /\ (h = <<>> <=> Len(h) = 0)
OBVIOUS

\* One more event keeps a history one, unless it is a second close.
LEMMA HistoryGrows ==
  ASSUME NEW h \in Seq(Event), NEW e \in Event, IsHistory(h), h # <<>>,
         h[Len(h)].kind # "hard_erase", e.kind # "assert",
         e.version - h[Len(h)].version \in Increment(e.kind),
         e.kind \in Closing => Closings(h) = {}
  PROVE  /\ IsHistory(Append(h, e))
         /\ Closings(Append(h, e)) =
              Closings(h) \cup (IF e.kind \in Closing THEN {Len(h) + 1} ELSE {})
<1>. DEFINE g == Append(h, e)  n == Len(h)
<1>1. /\ n \in Nat /\ n > 0 /\ Len(g) = n + 1 /\ DOMAIN h = 1 .. n /\ DOMAIN g = 1 .. n + 1
      /\ \A i \in 1 .. n : g[i] = h[i]
      /\ g[n + 1] = e /\ g # <<>>
  BY AppendFacts
<1>. HIDE DEF g, n
<1>2. Closings(g) = Closings(h) \cup (IF e.kind \in Closing THEN {n + 1} ELSE {})
  BY <1>1 DEF Closings
<1>3. \A i, j \in Closings(g) : i = j
  BY <1>2 DEF IsHistory
<1>4. ASSUME NEW i \in 2 .. Len(g)
      PROVE  /\ g[i].kind # "assert" /\ g[i - 1].kind # "hard_erase"
             /\ g[i].version - g[i - 1].version \in Increment(g[i].kind)
  <2>1. CASE i = n + 1
    BY <1>1, <2>1 DEF n
  <2>2. CASE i # n + 1
    <3>1. i \in 2 .. Len(h) /\ i \in 1 .. n /\ i - 1 \in 1 .. n
      BY <1>1, <2>2 DEF n
    <3>. QED
      BY <1>1, <3>1 DEF IsHistory
  <2>. QED
    BY <2>1, <2>2
<1>5. g[1].kind = "assert" /\ g[1].version = 1
  BY <1>1 DEF IsHistory
<1>6. IsHistory(g)
  BY <1>3, <1>4, <1>5 DEF IsHistory
<1>. QED
  BY <1>2, <1>6 DEF g, n

LEMMA FirstEvent ==
  ASSUME NEW prior \in MemoryId \cup {0}
  PROVE  LET h == Append(<<>>, Entry("assert", 1, prior)) IN
         /\ IsHistory(h) /\ Closings(h) = {} /\ h # <<>> /\ Len(h) = 1
         /\ h[1].kind = "assert" /\ h[1].version = 1 /\ h[1].other = prior
<1>. DEFINE e == Entry("assert", 1, prior)  h == Append(<<>>, e)
<1>1. h = <<e>> /\ e.kind = "assert" /\ e.version = 1 /\ e.other = prior
  BY DEF Entry
<1>. HIDE DEF e
<1>2. DOMAIN h = {1} /\ Len(h) = 1 /\ h[1] = e /\ h # <<>>
  BY <1>1
<1>3. Closings(h) = {}
  BY <1>1, <1>2 DEF Closings, Closing
<1>. HIDE DEF h
<1>4. IsHistory(h)
  BY <1>1, <1>2, <1>3 DEF IsHistory
<1>. QED
  BY <1>1, <1>2, <1>3, <1>4 DEF h, e

LEMMA JournalStep ==
  ASSUME MemoryInv, NEW c \in Client, Effect(c), Typed'
  PROVE  JournalReplays'
<1>. SUFFICES ASSUME NEW m \in MemoryId
              PROVE  IsHistory(journal'[m]) /\ ReplaysTo(journal'[m], memories'[m])
  BY DEF JournalReplays
<1>. DEFINE h == journal[m]  n == Len(h)  row == memories[m]
<1>1. /\ h \in Seq(Event) /\ row \in Memory /\ memories'[m] \in Memory
      /\ row.version \in Nat /\ memories'[m].version \in Nat
      /\ IsHistory(h) /\ ReplaysTo(h, row)
  BY DEF MemoryInv, Typed, TypeOK, JournalReplays, Memory
<1>2. Live(m) /\ row.interval = "open" => row.supersededBy = 0
  BY DEF MemoryInv, LineageIsLinear, Live
<1>. HIDE DEF h
<1>3. CASE Untouched(m)
  <2>1. /\ journal'[m] = h /\ memories'[m].state = row.state
        /\ memories'[m].version = row.version /\ memories'[m].supersedes = row.supersedes
        /\ memories'[m].interval = row.interval
        /\ memories'[m].supersededBy = row.supersededBy
    BY <1>3 DEF Untouched, Same, h
  <2>. QED
    BY <1>1, <2>1 DEF ReplaysTo
<1>4. ASSUME NEW prior \in MemoryId \cup {0}, Born(c, m, prior)
      PROVE  IsHistory(journal'[m]) /\ ReplaysTo(journal'[m], memories'[m])
  <2>1. h = <<>>
    BY <1>1, <1>4 DEF Born, ReplaysTo
  <2>2. /\ journal'[m] = Append(<<>>, Entry("assert", 1, prior))
        /\ memories'[m].state = "live" /\ memories'[m].version = 1
        /\ memories'[m].interval # "closed" /\ memories'[m].supersedes = prior
    BY <1>4, <2>1 DEF Born, h
  <2>. QED
    BY <2>2, FirstEvent DEF ReplaysTo
<1>5. ASSUME NEW e \in Event, Live(m), journal'[m] = Append(h, e), e.kind # "assert",
             e.version - row.version \in Increment(e.kind),
             e.kind \in Closing => row.interval # "closed"
      PROVE  /\ IsHistory(journal'[m]) /\ journal'[m] # <<>> /\ Len(journal'[m]) = n + 1
             /\ journal'[m][n + 1] = e /\ journal'[m][1] = h[1] /\ n > 0
             /\ Closings(journal'[m]) =
                  Closings(h) \cup (IF e.kind \in Closing THEN {n + 1} ELSE {})
             /\ \A i \in Closings(h) : journal'[m][i] = h[i]
  <2>1. /\ h # <<>> /\ row.version = h[n].version /\ h[n].kind # "hard_erase"
        /\ e.kind \in Closing => Closings(h) = {}
    BY <1>1, <1>5 DEF ReplaysTo, Live
  <2>2. /\ n \in Nat /\ Len(Append(h, e)) = n + 1 /\ Append(h, e) # <<>>
        /\ \A i \in 1 .. n : Append(h, e)[i] = h[i]
        /\ Append(h, e)[n + 1] = e /\ n # 0 /\ DOMAIN h = 1 .. n
    BY <1>1, <2>1, AppendFacts
  <2>3. /\ IsHistory(Append(h, e))
        /\ Closings(Append(h, e)) =
              Closings(h) \cup (IF e.kind \in Closing THEN {n + 1} ELSE {})
    BY <1>1, <1>5, <2>1, HistoryGrows
  <2>. HIDE DEF n
  <2>4. Closings(h) \subseteq 1 .. n
    BY <2>2 DEF Closings
  <2>. QED
    BY <1>5, <2>2, <2>3, <2>4
<1>6. ASSUME NEW kind \in Closing, NEW s \in MemoryId \cup {0}, Closes(m, kind, s),
             memories'[m].supersededBy = s
      PROVE  IsHistory(journal'[m]) /\ ReplaysTo(journal'[m], memories'[m])
  <2>. DEFINE e == Entry(kind, row.version + 1, s)
  <2>1. /\ e \in Event /\ e.kind = kind /\ e.version = row.version + 1 /\ e.other = s
        /\ e.version - row.version \in Increment(e.kind) /\ kind # "assert"
        /\ kind # "hard_erase"
    BY <1>1 DEF Entry, Event, Closing, Increment
  <2>2. /\ Live(m) /\ journal'[m] = Append(h, e) /\ row.interval # "closed"
        /\ memories'[m].state = "live" /\ memories'[m].interval = "closed"
        /\ memories'[m].version = row.version + 1
        /\ memories'[m].supersedes = row.supersedes
    BY <1>6 DEF Closes, Same, Live, h
  <2>. HIDE DEF e
  <2>3. Closings(h) = {} /\ row.supersedes = h[1].other
    BY <1>1, <2>2 DEF ReplaysTo, Live
  <2>4. /\ IsHistory(journal'[m]) /\ journal'[m] # <<>> /\ Len(journal'[m]) = n + 1
        /\ journal'[m][n + 1] = e /\ journal'[m][1] = h[1]
        /\ Closings(journal'[m]) = {n + 1}
    BY <1>5, <2>1, <2>2, <2>3
  <2>. HIDE DEF n
  <2>. QED
    BY <1>6, <2>1, <2>2, <2>3, <2>4 DEF ReplaysTo
<1>7. CASE Goes(m)
  <2>. DEFINE e == Entry("hard_erase", row.version, 0)
  <2>1. /\ e \in Event /\ e.kind = "hard_erase" /\ e.version = row.version
        /\ e.version - row.version \in Increment(e.kind) /\ e.kind \notin Closing
    BY <1>1 DEF Entry, Event, Closing, Increment
  <2>2. Live(m) /\ journal'[m] = Append(h, e) /\ memories'[m].state = "erased"
    BY <1>7 DEF Goes, h
  <2>. HIDE DEF e
  <2>. QED
    BY <1>5, <2>1, <2>2 DEF ReplaysTo
<1>8. CASE IsAnnotated(m)
  <2>. DEFINE e == Entry("annotate", memories'[m].version, 0)
  <2>1. /\ e \in Event /\ e.kind = "annotate" /\ e.version = memories'[m].version
        /\ e.kind \notin Closing
    BY <1>1 DEF Entry, Event, Closing
  <2>2. /\ Live(m) /\ journal'[m] = Append(h, e) /\ memories'[m].state = "live"
        /\ memories'[m].version - row.version \in {0, 1}
        /\ memories'[m].interval = row.interval
        /\ memories'[m].supersedes = row.supersedes
        /\ memories'[m].supersededBy = row.supersededBy
    BY <1>1, <1>8 DEF IsAnnotated, Same, Live, h
  <2>. HIDE DEF e
  <2>3. e.version - row.version \in Increment(e.kind)
    BY <2>1, <2>2 DEF Increment, Closing
  <2>. QED
    BY <1>1, <1>5, <2>1, <2>2, <2>3 DEF ReplaysTo, Live
<1>9. \/ Untouched(m)
      \/ \E prior \in MemoryId \cup {0} : Born(c, m, prior)
      \/ \E kind \in Closing, s \in MemoryId \cup {0} :
           Closes(m, kind, s) /\ memories'[m].supersededBy = s
      \/ Goes(m) \/ IsAnnotated(m)
  BY <1>2 DEF Effect, OneRow, TwoRows, Only, Closing, Closes
<1>. QED
  BY <1>3, <1>4, <1>6, <1>7, <1>8, <1>9

-----------------------------------------------------------------------------
(* Keys and their slots. *)

LEMMA SlotsStep ==
  ASSUME MemoryInv, NEW c \in Client, StepOf(c), Effect(c), Typed'
  PROVE  SlotsFit'
<1>1. ASSUME NEW s \in Scope, NEW k \in Key, slots'[s][k].memory # 0
      PROVE  /\ slots'[s][k].memory \in MemoryId
             /\ memories'[slots'[s][k].memory].state # "absent"
             /\ memories'[slots'[s][k].memory].state = "live" =>
                  memories'[slots'[s][k].memory].scope = s
             /\ slots[s][k].memory # 0 => slots'[s][k] = slots[s][k]
             /\ slots[s][k].memory = 0 =>
                  /\ memories[slots'[s][k].memory].state = "absent"
                  /\ PutCommit(c) /\ s = ClientScope[c] /\ k = req[c].key
  <2>1. slots'[s][k].memory \in MemoryId
    BY <1>1 DEF Typed, TypeOK, Slot
  <2>2. CASE slots[s][k].memory # 0
    <3>1. slots'[s][k] = slots[s][k]
      BY <2>2, SlotsGrow DEF MemoryInv
    <3>. DEFINE m == slots[s][k].memory
    <3>2. /\ memories[m].state # "absent"
          /\ memories[m].state = "live" => memories[m].scope = s
      BY <2>2 DEF MemoryInv, SlotsFit, Live
    <3>3. Progress(m) /\ slots'[s][k].memory = m
      BY <2>1, <3>1, RowsProgress DEF MemoryInv
    <3>. QED
      BY <2>1, <2>2, <3>1, <3>2, <3>3 DEF Progress
  <2>3. CASE slots[s][k].memory = 0
    <3>1. PutCommit(c)
      BY <1>1, <2>3, SlotsGrow DEF MemoryInv
    <3>2. req[c].key \in Key /\ req[c].interval \in {"open", "bounded"}
      BY <3>1, RequestKinds DEF PutCommit, MemoryInv, Typed, TypeOK, PutRequest
    <3>3. PICK m \in MemoryId :
            /\ Asserted(c, m, req[c].interval)
            /\ slots' = [slots EXCEPT ![ClientScope[c]][req[c].key] =
                           [memory |-> m, body |-> req[c].body]]
      BY <3>1 DEF PutCommit
    <3>4. s = ClientScope[c] /\ k = req[c].key /\ slots'[s][k].memory = m
      BY <1>1, <2>3, <3>2, <3>3, UsageTypes DEF MemoryInv, Typed, TypeOK
    <3>5. Born(c, m, 0)
      BY <3>2, <3>3, BirthEffect DEF MemoryInv
    <3>. QED
      BY <2>1, <2>3, <3>1, <3>4, <3>5 DEF Born
  <2>. QED
    BY <2>2, <2>3
<1>2. ASSUME NEW s \in Scope, NEW k \in Key, NEW t \in Scope, NEW l \in Key,
             slots'[s][k].memory # 0, slots'[t][l].memory = slots'[s][k].memory
      PROVE  t = s /\ l = k
  <2>1. CASE slots[s][k].memory # 0 /\ slots[t][l].memory # 0
    BY <1>1, <1>2, <2>1 DEF MemoryInv, SlotsFit
  <2>2. CASE slots[s][k].memory = 0 /\ slots[t][l].memory = 0
    BY <1>1, <1>2, <2>2
  <2>3. CASE slots[s][k].memory = 0 <=> slots[t][l].memory # 0
    BY <1>1, <1>2, <2>3 DEF MemoryInv, SlotsFit
  <2>. QED
    BY <2>1, <2>2, <2>3
<1>. QED
  BY <1>1, <1>2 DEF SlotsFit, Live

-----------------------------------------------------------------------------
(* What a call in flight knows stays true, whoever moves. *)

LEMMA OthersFit ==
  ASSUME MemoryInv, NEW c \in Client, StepOf(c), Effect(c), Typed',
         NEW d \in Client, d # c
  PROVE  CallFits(d)'
<1>. DEFINE r == req[d]
<1>1. req'[d] = r /\ usage' = usage /\ CallFits(d) /\ r \in Request
  BY Alone DEF MemoryInv, Typed, TypeOK
<1>2. ASSUME r.op \in {"supersede", "forget", "erase", "annotate"}
      PROVE  /\ r.id \in MemoryId /\ Progress(r.id)
             /\ memories'[r.id].state # "absent"
             /\ memories'[r.id].state = "live" => memories'[r.id].scope = ClientScope[d]
  <2>1. r.id \in MemoryId
    BY <1>1, <1>2, RequestKinds DEF GuardedRequest, AnnotateRequest
  <2>2. Progress(r.id)
    BY <2>1, RowsProgress DEF MemoryInv
  <2>. QED
    BY <1>1, <1>2, <2>1, <2>2 DEF CallFits, RowFits, Progress, Live
<1>3. ASSUME r.op = "update"
      PROVE  relations'[r.edge].state # "absent" /\ relations'[r.edge].scope = ClientScope[d]
  <2>1. r.edge \in RelationId
    BY <1>1, <1>3, RequestKinds DEF UpdateRequest
  <2>2. relations'[r.edge] = relations[r.edge] \/ EdgeMoves(c, r.edge)
    BY <2>1, EdgeSteps DEF MemoryInv
  <2>. QED
    BY <1>1, <1>3, <2>2 DEF CallFits, EdgeFits, EdgeMoves
<1>4. ASSUME r.op \in {"receipt", "keyed"}
      PROVE  /\ slots'[ClientScope[d]][r.key] = slots[ClientScope[d]][r.key]
             /\ slots[ClientScope[d]][r.key].memory # 0
  <2>1. r.key \in Key /\ (r.op = "keyed" => r.id \in MemoryId) /\ ClientScope[d] \in Scope
    BY <1>1, <1>4, RequestKinds, UsageTypes DEF ReceiptRequest, KeyedAnswer, MemoryInv
  <2>2. slots[ClientScope[d]][r.key].memory # 0
    BY <1>1, <1>4, <2>1 DEF CallFits, KeyFits, Taken, MemoryId
  <2>. QED
    BY <2>1, <2>2, SlotsGrow DEF MemoryInv
<1>5. ASSUME r.op = "annotate", FALSE \notin Bumping, r.expected # 0,
             memories'[r.id].state = "live"
      PROVE  /\ r.expected <= memories'[r.id].version
             /\ r.expected = memories'[r.id].version => memories'[r.id].attrs \subseteq r.attrs
  <2>1. /\ r \in AnnotateRequest /\ r.id \in MemoryId /\ Progress(r.id)
        /\ memories[r.id].state = "live"
    BY <1>1, <1>2, <1>5, RequestKinds DEF Progress, AnnotateRequest, CallFits, RowFits
  <2>2. /\ r.expected \in Nat /\ memories[r.id].version \in Nat
        /\ memories'[r.id].version \in Nat
    BY <2>1 DEF AnnotateRequest, MemoryInv, Typed, TypeOK, Memory
  <2>3. /\ r.expected <= memories[r.id].version
        /\ r.expected = memories[r.id].version => memories[r.id].attrs \subseteq r.attrs
    BY <1>1, <1>5, <2>1 DEF CallFits, MarksFit, Live
  <2>4. /\ memories'[r.id].version >= memories[r.id].version
        /\ memories'[r.id].version = memories[r.id].version =>
             memories'[r.id].attrs = memories[r.id].attrs
    BY <1>5, <2>1 DEF Progress
  <2>. QED
    BY <2>2, <2>3, <2>4
<1>6. ClientScope' = ClientScope /\ Bumping' = Bumping
  BY <1>1 DEF ClientScope, Bumping
<1>7. ASSUME r.op = "receipt"
      PROVE  /\ slots'[ClientScope[d]][r.key].memory # 0
             /\ slots'[ClientScope[d]][r.key].body = r.body
  BY <1>1, <1>4, <1>6, <1>7 DEF CallFits, KeyFits, Taken
<1>8. ASSUME r.op = "keyed"
      PROVE  /\ slots'[ClientScope[d]][r.key].memory = r.id
             /\ r.answer = "mismatch" <=> slots'[ClientScope[d]][r.key].body # r.body
  BY <1>1, <1>4, <1>6, <1>8 DEF CallFits, KeyFits
<1>9. /\ r.op = "supersede" => r.expected # 0
      /\ r.op = "annotate" => r.bump \in Bumping
  BY <1>1 DEF CallFits, RowFits, MarksFit
<1>. HIDE DEF r
<1>10. RowFits(d)'
  BY <1>1, <1>2, <1>6, <1>9 DEF RowFits, Live
<1>11. EdgeFits(d)'
  BY <1>1, <1>3, <1>6 DEF EdgeFits
<1>12. MarksFit(d)'
  BY <1>1, <1>5, <1>6, <1>9 DEF MarksFit, Live
<1>13. KeyFits(d)'
  <2>1. (req[d].op = "receipt" => Taken(d, req[d].key)
           /\ slots[ClientScope[d]][req[d].key].body = req[d].body)'
    BY <1>1, <1>6, <1>7 DEF Taken
  <2>2. (req[d].op = "keyed" => slots[ClientScope[d]][req[d].key].memory = req[d].id
           /\ (req[d].answer = "mismatch" <=>
                  slots[ClientScope[d]][req[d].key].body # req[d].body))'
    BY <1>1, <1>6, <1>8
  <2>. QED
    BY <2>1, <2>2 DEF KeyFits
<1>. QED
  BY <1>10, <1>11, <1>12, <1>13 DEF CallFits

\* What the lookup of a taken slot answers is what the slot says.
LEMMA LookupFits ==
  ASSUME Typed, NEW c \in Client, NEW k \in Key, NEW b \in Body, Taken(c, k)
  PROVE  /\ Lookup(c, k, b).op = "keyed" /\ Lookup(c, k, b).key = k
         /\ Lookup(c, k, b).body = b
         /\ Lookup(c, k, b).id = slots[ClientScope[c]][k].memory
         /\ Lookup(c, k, b).answer \in {"mismatch", "replayed", "unavailable"}
         /\ Lookup(c, k, b).answer = "mismatch" <=> slots[ClientScope[c]][k].body # b
BY DEF Lookup

LEMMA ActorPuts ==
  ASSUME MemoryInv, NEW c \in Client, Put(c), StepOf(c)
  PROVE  /\ CallFits(c)'
         /\ Claims(c)' => PutCommit(c) \/ (Claims(c) /\ req'[c].key = req[c].key)
         /\ PutCommit(c) => req'[c].key = req[c].key /\ ~ Taken(c, req[c].key)
<1>. DEFINE new == req'[c]
<1>1. ClientScope' = ClientScope /\ Typed /\ ClientScope[c] \in Scope
  BY Alone, UsageTypes DEF ClientScope, MemoryInv
<1>2. \A r : Ask(c, r) => new = r
  BY DEF Ask, MemoryInv, Typed, TypeOK
<1>3. ASSUME new.op \in {"idle", "put"}
      PROVE  CallFits(c)' /\ ~ Claims(c)'
  BY <1>3 DEF CallFits, RowFits, EdgeFits, MarksFit, KeyFits, Claims
<1>4. ASSUME NEW k \in Key, new.op = "keyed", new.key = k, UNCHANGED slots,
             new.id = slots[ClientScope[c]][k].memory,
             new.answer = "mismatch" <=> slots[ClientScope[c]][k].body # new.body
      PROVE  CallFits(c)'
  <2>1. KeyFits(c)'
    BY <1>1, <1>4 DEF KeyFits
  <2>. QED
    BY <1>4, <2>1 DEF CallFits, RowFits, EdgeFits, MarksFit
<1>5. ASSUME NEW i \in Intervals, PutPlain(c, i)
      PROVE  new.op = "idle" /\ ~ PutCommit(c)
  <2>1. new = Idle
    BY <1>2, <1>5 DEF PutPlain
  <2>2. req[c].op # "put"
    BY <1>5 DEF PutPlain, Ready
  <2>. QED
    BY <2>1, <2>2 DEF Idle, PutCommit
<1>6. ASSUME NEW k \in Key, NEW b \in Body, NEW i \in Intervals, PutRead(c, k, b, i)
      PROVE  CallFits(c)' /\ ~ Claims(c)' /\ ~ PutCommit(c)
  <2>1. UNCHANGED slots /\ req[c].op # "put"
    BY <1>6 DEF PutRead, Ready, store
  <2>2. CASE Taken(c, k)
    <3>1. new = Lookup(c, k, b)
      BY <1>2, <1>6, <2>2 DEF PutRead
    <3>2. /\ new.op = "keyed" /\ new.key = k /\ new.body = b
          /\ new.id = slots[ClientScope[c]][k].memory
          /\ new.answer \in {"mismatch", "replayed", "unavailable"}
          /\ new.answer = "mismatch" <=> slots[ClientScope[c]][k].body # b
      BY <1>1, <2>2, <3>1, LookupFits
    <3>. QED
      BY <1>4, <2>1, <3>2 DEF Claims, PutCommit
  <2>3. CASE ~ Taken(c, k)
    <3>1. new = [op |-> "put", key |-> k, body |-> b, interval |-> i]
      BY <1>2, <1>6, <2>3 DEF PutRead
    <3>. QED
      BY <1>3, <2>1, <3>1 DEF PutCommit
  <2>. QED
    BY <2>2, <2>3
<1>7. ASSUME PutCommit(c)
      PROVE  CallFits(c)' /\ new.key = req[c].key /\ ~ Taken(c, req[c].key)
  <2>1. req[c].key \in Key
    BY <1>1, <1>7, RequestKinds DEF PutCommit, Typed, TypeOK, PutRequest
  <2>2. new = [op |-> "receipt", key |-> req[c].key, body |-> req[c].body]
    BY <1>2, <1>7 DEF PutCommit
  <2>3. PICK m \in MemoryId :
          slots' = [slots EXCEPT ![ClientScope[c]][req[c].key] =
                      [memory |-> m, body |-> req[c].body]]
    BY <1>7 DEF PutCommit
  <2>4. slots'[ClientScope[c]][req[c].key] = [memory |-> m, body |-> req[c].body]
    BY <1>1, <2>1, <2>3 DEF Typed, TypeOK
  <2>5. KeyFits(c)'
    BY <1>1, <2>2, <2>4 DEF KeyFits, Taken, MemoryId
  <2>. QED
    BY <1>7, <2>2, <2>5 DEF CallFits, RowFits, EdgeFits, MarksFit, PutCommit
<1>8. ASSUME PutReplay(c)
      PROVE  CallFits(c)' /\ ~ Claims(c)' /\ ~ PutCommit(c)
  <2>1. req[c] \in PutRequest /\ Taken(c, req[c].key) /\ UNCHANGED slots
    BY <1>1, <1>8, RequestKinds DEF PutReplay, Typed, TypeOK, store
  <2>2. new = Lookup(c, req[c].key, req[c].body)
    BY <1>2, <1>8 DEF PutReplay
  <2>3. /\ new.op = "keyed" /\ new.key = req[c].key /\ new.body = req[c].body
        /\ new.id = slots[ClientScope[c]][req[c].key].memory
        /\ new.answer \in {"mismatch", "replayed", "unavailable"}
        /\ new.answer = "mismatch" <=> slots[ClientScope[c]][req[c].key].body # req[c].body
    BY <1>1, <2>1, <2>2, LookupFits DEF PutRequest
  <2>. QED
    BY <1>4, <2>1, <2>3 DEF Claims, PutCommit, PutRequest
<1>9. ASSUME PutReceipt(c)
      PROVE  /\ CallFits(c)' /\ ~ PutCommit(c)
             /\ Claims(c) /\ new.key = req[c].key
  <2>1. /\ req[c].op = "receipt" /\ req[c] \in ReceiptRequest /\ UNCHANGED slots
        /\ Taken(c, req[c].key)
    BY <1>1, <1>9, RequestKinds
    DEF PutReceipt, Typed, TypeOK, store, MemoryInv, CallFits, KeyFits
  <2>. DEFINE found == Lookup(c, req[c].key, req[c].body)
  <2>2. new = [found EXCEPT !.answer = IF @ = "replayed" THEN "fresh" ELSE @]
    BY <1>2, <1>9 DEF PutReceipt
  <2>3. found \in KeyedAnswer
    BY <1>1, <2>1, LookupTypes DEF ReceiptRequest
  <2>4. /\ found.op = "keyed" /\ found.key = req[c].key /\ found.body = req[c].body
        /\ found.id = slots[ClientScope[c]][req[c].key].memory
        /\ found.answer \in {"mismatch", "replayed", "unavailable"}
        /\ found.answer = "mismatch" <=> slots[ClientScope[c]][req[c].key].body # req[c].body
    BY <1>1, <2>1, LookupFits DEF ReceiptRequest
  <2>. HIDE DEF found
  <2>5. /\ new.op = "keyed" /\ new.key = req[c].key /\ new.body = req[c].body
        /\ new.id = found.id
        /\ new.answer = "mismatch" <=> found.answer = "mismatch"
    BY <2>2, <2>3, <2>4 DEF KeyedAnswer
  <2>. QED
    BY <1>4, <2>1, <2>4, <2>5 DEF Claims, PutCommit, ReceiptRequest
<1>. QED
  BY <1>3, <1>5, <1>6, <1>7, <1>8, <1>9 DEF Put

LEMMA ActorReads ==
  ASSUME MemoryInv, NEW c \in Client, StepOf(c), ~ Put(c)
  PROVE  CallFits(c)' /\ ~ Claims(c)'
<1>. DEFINE new == req'[c]
<1>1. /\ ClientScope' = ClientScope /\ Bumping' = Bumping /\ Typed
  BY Alone DEF ClientScope, Bumping, MemoryInv
<1>2. \A r : Ask(c, r) => new = r
  BY DEF Ask, MemoryInv, Typed, TypeOK
<1>3. ASSUME new.op \in {"idle", "conflict", "link", "relate"}
      PROVE  CallFits(c)' /\ ~ Claims(c)'
  BY <1>3 DEF CallFits, RowFits, EdgeFits, MarksFit, KeyFits, Claims
<1>4. ASSUME NEW m \in MemoryId, UNCHANGED memories, Readable(c, m), new.id = m,
             new.op \in {"supersede", "forget", "erase", "annotate"},
             new.op = "supersede" => new.expected # 0, MarksFit(c)'
      PROVE  CallFits(c)' /\ ~ Claims(c)'
  <2>1. RowFits(c)'
    BY <1>1, <1>4 DEF RowFits, Readable, Live
  <2>. QED
    BY <1>4, <2>1 DEF CallFits, EdgeFits, KeyFits, Claims
<1>5. ASSUME NEW m \in MemoryId, SupersedeRead(c, m)
      PROVE  CallFits(c)' /\ ~ Claims(c)'
  <2>1. /\ new = [op |-> "supersede", id |-> m, seen |-> memories[m].version,
                  expected |-> memories[m].version]
        /\ UNCHANGED memories /\ Readable(c, m)
    BY <1>2, <1>5 DEF SupersedeRead, store
  <2>2. memories[m].version # 0
    BY <1>1, <2>1 DEF Readable, MemoryInv, RowsFit
  <2>3. MarksFit(c)'
    BY <2>1 DEF MarksFit
  <2>. QED
    BY <1>4, <2>1, <2>2, <2>3
<1>6. ASSUME NEW m \in MemoryId, NEW g \in Guarding, ForgetRead(c, m, g) \/ EraseRead(c, m, g)
      PROVE  CallFits(c)' /\ ~ Claims(c)'
  <2>1. /\ new.op \in {"forget", "erase"} /\ new.id = m
        /\ UNCHANGED memories /\ Readable(c, m)
    BY <1>2, <1>6 DEF ForgetRead, EraseRead, store
  <2>2. MarksFit(c)'
    BY <2>1 DEF MarksFit
  <2>. QED
    BY <1>4, <2>1, <2>2
<1>7. ASSUME NEW m \in MemoryId, NEW marks \in SUBSET Mark, NEW g \in Guarding,
             NEW b \in Bumping, AnnotateRead(c, m, marks, g, b)
      PROVE  CallFits(c)' /\ ~ Claims(c)'
  <2>1. /\ new = [op |-> "annotate", id |-> m, seen |-> memories[m].version,
                  expected |-> Guard(m, g), attrs |-> memories[m].attrs \cup marks,
                  bump |-> b]
        /\ UNCHANGED memories /\ Readable(c, m)
    BY <1>2, <1>7 DEF AnnotateRead, store
  <2>2. memories[m].version \in Nat /\ Guard(m, g) \in {0, memories[m].version}
    BY <1>1 DEF Guard, Typed, TypeOK, Memory
  <2>3. /\ new.op = "annotate" /\ new.id = m /\ new.bump = b
        /\ new.expected = Guard(m, g) /\ memories[m].attrs \subseteq new.attrs
    BY <2>1
  <2>4. MarksFit(c)'
    <3>1. new.expected # 0 =>
            /\ new.expected <= memories'[m].version
            /\ new.expected = memories'[m].version => memories'[m].attrs \subseteq new.attrs
      BY <2>1, <2>2, <2>3
    <3>. HIDE DEF new
    <3>. QED
      BY <1>1, <2>3, <3>1 DEF MarksFit, new
  <2>. QED
    BY <1>4, <2>1, <2>3, <2>4
<1>8. ASSUME NEW e \in RelationId, NEW to \in {"same", "closed", "stale"}, UpdateRead(c, e, to)
      PROVE  CallFits(c)' /\ ~ Claims(c)'
  <2>1. /\ new = [op |-> "update", edge |-> e, expected |-> relations[e].version, to |-> to]
        /\ relations[e].state # "absent" /\ relations[e].scope = ClientScope[c]
        /\ UNCHANGED relations
    BY <1>2, <1>8 DEF UpdateRead, store
  <2>2. EdgeFits(c)'
    BY <1>1, <2>1 DEF EdgeFits
  <2>. QED
    BY <2>1, <2>2 DEF CallFits, RowFits, MarksFit, KeyFits, Claims
<1>9. ASSUME \/ SupersedeCommit(c) \/ ForgetCommit(c) \/ EraseCommit(c) \/ AnnotateCommit(c)
             \/ LinkCommit(c) \/ RelateCommit(c) \/ UpdateCommit(c) \/ GiveUp(c)
             \/ ConflictFromMemory(c)
      PROVE  new.op = "idle"
  <2>1. Ask(c, Idle)
    BY <1>9 DEF SupersedeCommit, ForgetCommit, EraseCommit, AnnotateCommit, LinkCommit,
         RelateCommit, UpdateCommit, GiveUp, ConflictFromMemory
  <2>. QED
    BY <1>2, <2>1 DEF Idle
<1>10. LoseGuard(c) => new.op = "conflict"
  BY <1>2 DEF LoseGuard
<1>11. \A m, o \in MemoryId :
         /\ LinkRead(c, m, o) => new.op = "link"
         /\ \A p \in Predicate : RelateRead(c, p, m, o) => new.op = "relate"
  BY <1>2 DEF LinkRead, RelateRead
<1>. HIDE DEF new
<1>. QED
  BY <1>3, <1>5, <1>6, <1>7, <1>8, <1>9, <1>10, <1>11
  DEF StepOf, Supersede, Forget, Annotate, Conflict, Link, Relate

LEMMA ClaimsStep ==
  ASSUME MemoryInv, NEW c \in Client, StepOf(c)
  PROVE  OneClaim'
<1>. SUFFICES ASSUME NEW a \in Client, NEW b \in Client, a # b, Claims(a)', Claims(b)',
                     ClientScope'[a] = ClientScope'[b], req'[a].key = req'[b].key
              PROVE  FALSE
  BY DEF OneClaim
<1>1. ClientScope' = ClientScope /\ \A d \in Client : d # c => req'[d] = req[d]
  BY Alone DEF ClientScope, MemoryInv
<1>2. ASSUME NEW d \in Client, Claims(d)'
      PROVE  /\ d # c => Claims(d)
             /\ Claims(d) \/ (d = c /\ PutCommit(c))
             /\ req'[d].key = req[d].key
             /\ d = c /\ PutCommit(c) => ~ Taken(c, req[c].key)
  <2>1. CASE d # c
    BY <1>1, <1>2, <2>1 DEF Claims
  <2>2. CASE d = c
    BY <1>2, <2>2, ActorPuts, ActorReads
  <2>. QED
    BY <2>1, <2>2
<1>3. \A d \in Client : Claims(d) => Taken(d, req[d].key)
  <2>1. ASSUME NEW d \in Client, Claims(d)
        PROVE  Taken(d, req[d].key)
    <3>1. KeyFits(d) /\ req[d] \in Request
      BY DEF MemoryInv, CallFits, Typed, TypeOK
    <3>2. req[d].op = "keyed" => req[d].id # 0
      BY <3>1, RequestKinds DEF KeyedAnswer, MemoryId
    <3>. QED
      BY <2>1, <3>1, <3>2 DEF Claims, KeyFits, Taken
  <2>. QED
    BY <2>1
<1>. QED
  BY <1>1, <1>2, <1>3 DEF MemoryInv, OneClaim, Taken

-----------------------------------------------------------------------------

LEMMA MemoryInvInit == Init => MemoryInv
<1>. SUFFICES ASSUME Init
              PROVE  MemoryInv
  OBVIOUS
<1>1. NoMemory \in Memory /\ FreeSlot \in Slot /\ NoRelation \in Relation /\ Idle \in Request
  BY DEF NoMemory, Memory, FreeSlot, Slot, NoRelation, Relation, Request
<1>2. Typed
  BY <1>1 DEF Init, Typed, TypeOK
<1>3. \A m \in MemoryId : memories[m] = NoMemory /\ journal[m] = <<>>
  BY DEF Init
<1>4. RowsFit
  BY <1>3 DEF Init, RowsFit, NoMemory, NoRelation, Live
<1>5. SlotsFit
  BY DEF Init, SlotsFit, FreeSlot
<1>6. \A c \in Client : req[c].op = "idle"
  BY DEF Init, Idle
<1>7. OneClaim /\ \A c \in Client : CallFits(c)
  BY <1>6 DEF OneClaim, Claims, CallFits, RowFits, EdgeFits, MarksFit, KeyFits
<1>8. LineageIsLinear
  BY <1>3 DEF LineageIsLinear, Live, NoMemory
<1>9. JournalReplays
  BY <1>3 DEF JournalReplays, IsHistory, ReplaysTo, Closings, NoMemory
<1>. QED
  BY <1>2, <1>4, <1>5, <1>7, <1>8, <1>9 DEF MemoryInv

LEMMA MemoryInvNext == MemoryInv /\ [Next]_vars => MemoryInv'
<1>. SUFFICES ASSUME MemoryInv, [Next]_vars
              PROVE  MemoryInv'
  OBVIOUS
<1>1. ASSUME NEW c \in Client, StepOf(c)
      PROVE  MemoryInv'
  <2>1. Typed'
    BY <1>1, StepTypes DEF MemoryInv
  <2>2. Effect(c)
    BY <1>1, StepEffect DEF MemoryInv
  <2>3. RowsFit' /\ SlotsFit' /\ OneClaim'
    BY <1>1, <2>1, <2>2, RowsStep, SlotsStep, ClaimsStep
  <2>4. LineageIsLinear' /\ JournalReplays'
    BY <1>1, <2>1, <2>2, LineageStep, JournalStep
  <2>5. CallFits(c)'
    BY <1>1, ActorPuts, ActorReads
  <2>6. \A d \in Client : d # c => CallFits(d)'
    BY <1>1, <2>1, <2>2, OthersFit
  <2>. QED
    BY <2>1, <2>3, <2>4, <2>5, <2>6 DEF MemoryInv
<1>2. ASSUME UNCHANGED vars
      PROVE  MemoryInv'
  <2>1. (Typed /\ RowsFit /\ SlotsFit /\ LineageIsLinear /\ JournalReplays)'
    BY <1>2 DEF vars, MemoryInv, Typed, TypeOK, RowsFit, SlotsFit, LineageIsLinear,
         JournalReplays, Live
  <2>2. OneClaim'
    BY <1>2 DEF vars, MemoryInv, OneClaim, Claims, ClientScope
  <2>3. ASSUME NEW c \in Client
        PROVE  (RowFits(c) /\ EdgeFits(c) /\ MarksFit(c) /\ KeyFits(c))'
    <3>1. RowFits(c) /\ EdgeFits(c) /\ MarksFit(c) /\ KeyFits(c)
      BY DEF MemoryInv, CallFits
    <3>2. RowFits(c)' /\ EdgeFits(c)'
      BY <1>2, <3>1 DEF vars, RowFits, EdgeFits, Live, ClientScope
    <3>3. MarksFit(c)'
      BY <1>2, <3>1 DEF vars, MarksFit, Live, Bumping
    <3>4. KeyFits(c)'
      BY <1>2, <3>1 DEF vars, KeyFits, Taken, ClientScope
    <3>. QED
      BY <3>2, <3>3, <3>4
  <2>. QED
    BY <2>1, <2>2, <2>3 DEF MemoryInv, CallFits
<1>. QED
  BY <1>1, <1>2 DEF Next, StepOf

THEOREM MemoryInvariant == Spec => []MemoryInv
BY MemoryInvInit, MemoryInvNext, PTL DEF Spec

-----------------------------------------------------------------------------
(* The theorems. *)

\* A call writes to rows of its scope, and to rows nobody had created.
LEMMA OwnRows ==
  ASSUME MemoryInv, NEW c \in Client, StepOf(c), NEW m \in MemoryId,
         memories'[m] # memories[m]
  PROVE  memories[m].scope \in {ClientScope[c], None}
<1>1. Typed /\ CallFits(c) /\ RowsFit
  BY DEF MemoryInv
<1>2. ASSUME NEW k \in MemoryId, NEW i, Asserted(c, k, i)
      PROVE  memories[m].scope \in {ClientScope[c], None}
  <2>1. k = m
    BY <1>1, <1>2 DEF Asserted, Typed, TypeOK
  <2>. QED
    BY <1>1, <1>2, <2>1 DEF Asserted, IsNew, RowsFit
<1>3. ASSUME ForgetCommit(c) \/ EraseCommit(c) \/ AnnotateCommit(c)
      PROVE  memories[m].scope \in {ClientScope[c], None}
  <2>1. m = req[c].id
    BY <1>1, <1>3 DEF ForgetCommit, EraseCommit, AnnotateCommit, Typed, TypeOK
  <2>2. RowFits(c) /\ req[c].op \in {"forget", "erase", "annotate"} /\ Live(req[c].id)
    BY <1>1, <1>3 DEF CallFits, ForgetCommit, EraseCommit, AnnotateCommit, MayClose, GuardHolds
  <2>. QED
    BY <2>1, <2>2 DEF RowFits
<1>4. SupersedeCommit(c) => memories[m].scope \in {ClientScope[c], None}
  BY <1>1, SupersedeEffect
<1>5. \/ PutCommit(c) \/ \E i \in Intervals : PutPlain(c, i)
      \/ ForgetCommit(c) \/ EraseCommit(c) \/ AnnotateCommit(c) \/ SupersedeCommit(c)
  BY DEF StepOf, Put, PutRead, PutReplay, PutReceipt, Supersede, SupersedeRead, Forget,
         ForgetRead, EraseRead, Annotate, AnnotateRead, Conflict, LoseGuard,
         ConflictFromMemory, Link, LinkRead, LinkCommit, Relate, RelateRead,
         RelateCommit, UpdateRead, UpdateCommit, GiveUp, store
<1>. QED
  BY <1>2, <1>3, <1>4, <1>5 DEF PutCommit, PutPlain

\* The tables and the calls in flight stay in their domains (`TypeOK`), with any
\* number of clients, scopes, keys and rows.
THEOREM MemoryTypes == Spec => []TypeOK
BY MemoryInvariant, PTL DEF MemoryInv, Typed

\* However calls for one key race, their answers are lost and they ask again, a
\* key of a scope names one memory, and one caller is told it wrote it
\* (`put_prepared`, `lookup_put_receipt_expect`).
THEOREM KeyedPutsAgree == Spec => []KeyNamesOneMemory
<1>1. ASSUME MemoryInv
      PROVE  KeyNamesOneMemory
  <2>1. \A d \in Client : req[d] \in Request /\ KeyFits(d) /\ ClientScope[d] \in Scope
    BY <1>1, UsageTypes DEF MemoryInv, CallFits, Typed, TypeOK
  <2>2. ASSUME NEW s \in Scope, NEW k \in Key, slots[s][k].memory # 0
        PROVE  /\ slots[s][k].memory \in MemoryId
               /\ journal[slots[s][k].memory] # <<>>
               /\ Live(slots[s][k].memory) => memories[slots[s][k].memory].scope = s
               /\ \A t \in Scope, l \in Key :
                    slots[t][l].memory = slots[s][k].memory => <<t, l>> = <<s, k>>
    <3>1. slots[s][k].memory \in MemoryId
      BY <1>1, <2>2 DEF MemoryInv, Typed, TypeOK, Slot
    <3>. QED
      BY <1>1, <2>2, <3>1 DEF MemoryInv, SlotsFit, RowsFit
  <2>3. ASSUME NEW d \in Client, req[d].op = "keyed"
        PROVE  /\ req[d].key \in Key /\ req[d].id # 0
               /\ slots[ClientScope[d]][req[d].key].memory = req[d].id
               /\ req[d].answer = "mismatch"
                    <=> slots[ClientScope[d]][req[d].key].body # req[d].body
    BY <2>1, <2>3, RequestKinds DEF KeyFits, KeyedAnswer, MemoryId
  <2>4. ASSUME NEW d \in Client, NEW e \in Client, d # e,
               req[d].op = "keyed", req[d].answer = "fresh",
               req[e].op = "keyed", req[e].answer = "fresh"
        PROVE  req[d].id # req[e].id
    <3>1. ~ (ClientScope[d] = ClientScope[e] /\ req[d].key = req[e].key)
      BY <1>1, <2>4 DEF MemoryInv, OneClaim, Claims
    <3>. QED
      BY <2>1, <2>2, <2>3, <2>4, <3>1
  <2>. QED
    BY <2>2, <2>3, <2>4 DEF KeyNamesOneMemory
<1>. QED
  BY <1>1, MemoryInvariant, PTL

\* However calls supersede, forget and erase at once, lineage does not fork
\* (`supersede_inner`).
THEOREM Lineage == Spec => []LineageIsLinear
BY MemoryInvariant, PTL DEF MemoryInv

\* The belief journal is the committed history of the rows (every writer of
\* `belief_event`).
THEOREM Journal == Spec => []JournalReplays
BY MemoryInvariant, PTL DEF MemoryInv

\* A call writes rows and edges of its own scope, whatever edges cross scopes.
THEOREM Isolation == Spec => ScopeIsolation
<1>1. ASSUME MemoryInv, NEW c \in Client, StepOf(c)
      PROVE  /\ \A d \in Client : d # c => req'[d] = req[d]
             /\ \A m \in MemoryId : memories'[m] # memories[m] =>
                  {memories[m].scope, memories'[m].scope} \subseteq {ClientScope[c], None}
             /\ \A e \in RelationId : relations'[e] # relations[e] =>
                  {relations[e].scope, relations'[e].scope} \subseteq {ClientScope[c], None}
  <2>1. Typed /\ CallFits(c) /\ RowsFit /\ Effect(c)
    BY <1>1, StepEffect DEF MemoryInv
  <2>2. ASSUME NEW m \in MemoryId, memories'[m] # memories[m]
        PROVE  /\ memories[m].scope \in {ClientScope[c], None}
               /\ memories'[m].scope \in {memories[m].scope, ClientScope[c], None}
    <3>1. memories'[m].scope \in {memories[m].scope, ClientScope[c], None}
      BY <2>1, RowSteps DEF Untouched, Same, Born, Closes, Goes, IsAnnotated
    <3>. QED
      BY <1>1, <2>1, <2>2, <3>1, OwnRows
  <2>3. ASSUME NEW e \in RelationId, relations'[e] # relations[e]
        PROVE  /\ relations[e].scope \in {ClientScope[c], None}
               /\ relations'[e].scope = ClientScope[c]
    BY <1>1, <2>1, <2>3, EdgeSteps DEF EdgeMoves, RowsFit
  <2>. QED
    BY <1>1, <2>1, <2>2, <2>3, Alone
<1>2. MemoryInv /\ [Next]_vars =>
        [\E c \in Client :
           /\ \A d \in Client : d # c => req'[d] = req[d]
           /\ \A m \in MemoryId : memories'[m] # memories[m] =>
                {memories[m].scope, memories'[m].scope} \subseteq {ClientScope[c], None}
           /\ \A e \in RelationId : relations'[e] # relations[e] =>
                {relations[e].scope, relations'[e].scope} \subseteq {ClientScope[c], None}
        ]_vars
  BY <1>1 DEF Next, StepOf
<1>. QED
  BY <1>2, MemoryInvariant, PTL DEF Spec, ScopeIsolation

\* A supersession invalidates what was derived from the row in its commit, and
\* nothing makes a stale row or an invalidated edge valid again.
THEOREM Invalidation == Spec => InvalidationIsFinal
<1>. DEFINE Final ==
       /\ \A p, m \in MemoryId :
            /\ memories[p].supersededBy = 0 /\ memories'[p].supersededBy # 0
            /\ <<m, p>> \in derived /\ Live(m) /\ memories[m].scope = memories[p].scope
            => memories'[m].stale
       /\ \A m \in MemoryId :
            memories[m].stale /\ memories'[m].state = "live" => memories'[m].stale
       /\ \A e \in RelationId :
            /\ relations[e].state \in {"stale", "closed", "purged"}
                 => relations'[e].state \in {"stale", "closed", "purged"}
            /\ relations[e].state = "purged" => relations'[e] = relations[e]
<1>1. ASSUME MemoryInv, NEW c \in Client, StepOf(c)
      PROVE  Final
  <2>1. Typed /\ CallFits(c) /\ RowsFit /\ Effect(c)
    BY <1>1, StepEffect DEF MemoryInv
  <2>2. ASSUME NEW p \in MemoryId, NEW m \in MemoryId,
               memories[p].supersededBy = 0, memories'[p].supersededBy # 0,
               <<m, p>> \in derived, Live(m), memories[m].scope = memories[p].scope
        PROVE  memories'[m].stale
    <3>1. OneRow(c) => memories'[p].supersededBy \in {memories[p].supersededBy, 0}
      BY DEF OneRow, Only, Untouched, Born, Goes, IsAnnotated
    <3>2. SupersedeCommit(c)
      BY <1>1, <2>1, <2>2, <3>1, StepEffect
    <3>3. p = req[c].id /\ memories[p].scope = ClientScope[c]
      BY <2>1, <2>2, <3>2, SupersedeEffect
    <3>. QED
      BY <2>1, <2>2, <3>2, <3>3, SupersedeEffect DEF IsDependent, Readable
  <2>3. ASSUME NEW m \in MemoryId, memories[m].stale, memories'[m].state = "live"
        PROVE  memories'[m].stale
    <3>1. memories[m].state = "live"
      BY <2>1, <2>3 DEF RowsFit
    <3>. QED
      BY <2>1, <2>3, <3>1, RowsProgress DEF Progress
  <2>4. ASSUME NEW e \in RelationId
        PROVE  /\ relations[e].state \in {"stale", "closed", "purged"}
                    => relations'[e].state \in {"stale", "closed", "purged"}
               /\ relations[e].state = "purged" => relations'[e] = relations[e]
    BY <1>1, <2>1, EdgeSteps DEF EdgeMoves
  <2>. QED
    BY <2>2, <2>3, <2>4
<1>2. MemoryInv /\ [Next]_vars => [Final]_vars
  BY <1>1 DEF Next, StepOf
<1>. QED
  BY <1>2, MemoryInvariant, PTL DEF Spec, InvalidationIsFinal

\* Where every annotation bumps the version, one that names a version keeps the
\* attributes written since it read them (`annotate`).
THEOREM GuardedAnnotations ==
  ASSUME \A u \in Usages : u.bumping \subseteq {TRUE}
  PROVE  Spec => GuardedAnnotationsKeep
<1>. DEFINE Keeps ==
       \A c \in Client :
         /\ req[c].op = "annotate" /\ req[c].expected # 0 /\ req'[c] = Idle
         /\ Live(req[c].id) /\ memories' # memories
         => memories[req[c].id].attrs \subseteq memories'[req[c].id].attrs
<1>1. ASSUME MemoryInv, NEW d \in Client, StepOf(d), NEW c \in Client,
             req[c].op = "annotate", req[c].expected # 0, req'[c] = Idle,
             Live(req[c].id), memories' # memories
      PROVE  memories[req[c].id].attrs \subseteq memories'[req[c].id].attrs
  <2>1. c = d
    BY <1>1, Alone DEF MemoryInv, Idle
  <2>2. AnnotateCommit(c)
    BY <1>1, <2>1
    DEF StepOf, Put, PutPlain, PutRead, PutCommit, PutReplay, PutReceipt, Supersede,
        SupersedeRead, SupersedeCommit, Forget, ForgetRead, ForgetCommit, EraseRead,
        EraseCommit, Annotate, AnnotateRead, Conflict, LoseGuard, ConflictFromMemory,
        Link, LinkRead, LinkCommit, Relate, RelateRead, RelateCommit, UpdateRead,
        UpdateCommit, GiveUp, Ready, store
  <2>3. req[c] \in AnnotateRequest /\ Typed /\ MarksFit(c) /\ FALSE \notin Bumping
    BY <1>1, RequestKinds DEF MemoryInv, Typed, TypeOK, CallFits, Bumping
  <2>4. /\ req[c].id \in MemoryId /\ req[c].expected = memories[req[c].id].version
        /\ memories[req[c].id].attrs \subseteq req[c].attrs
    BY <1>1, <2>2, <2>3 DEF AnnotateRequest, AnnotateCommit, GuardHolds, MarksFit
  <2>5. memories'[req[c].id].attrs =
          IF req[c].attrs = {} THEN memories[req[c].id].attrs ELSE req[c].attrs
    BY <2>2, <2>3, <2>4 DEF AnnotateCommit, Typed, TypeOK, Memory
  <2>. QED
    BY <2>4, <2>5
<1>2. MemoryInv /\ [Next]_vars => [Keeps]_vars
  BY <1>1 DEF Next, StepOf
<1>. QED
  BY <1>2, MemoryInvariant, PTL DEF Spec, GuardedAnnotationsKeep

=============================================================================
