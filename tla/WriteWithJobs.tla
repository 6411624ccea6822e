---------------------------- MODULE WriteWithJobs ----------------------------
(***************************************************************************)
(* put_with_jobs (crates/nomiso-store/src/surreal_store.rs): a memory and  *)
(* the jobs it calls for commit together, a keyed write can be asked for   *)
(* again, and an intent whose job is already live is not enqueued twice.   *)
(* The job rows are those of JobLifecycle; jobKey is their dedup_key, and  *)
(* a row holds its dedup_slot while it is open.                            *)
(*                                                                         *)
(* The races of the memory rows themselves are MemoryPlane's.  Pinned      *)
(* revisions do not move here; that is the job journal's subject.          *)
(***************************************************************************)
EXTENDS JobLifecycle, Sequences, FiniteSets

CONSTANTS
  MaxMemories,   \* bound on the memories ever committed
  Writer,
  Key,           \* idempotency keys
  SelfIntent,    \* intents that pin the record the write creates
  PlainIntent,   \* intents whose inputs do not depend on the write
  MaxAttempts,   \* the budget of the job of an intent
  Asks,          \* the requests each writer makes
  None

Intent == SelfIntent \cup PlainIntent
MemoryId == 1..MaxMemories
Request == [key : Key \cup {None}, intents : Seq(Intent)]

Requests == UNION {Asks[c] : c \in Writer}

ASSUME RequestAssumption ==
  /\ JobIds \subseteq Nat \ {0}     \* in the order of creation
  /\ Asks \in [Writer -> SUBSET Request]
  /\ MaxAttempts \in [Intent -> Nat \ {0}]
  /\ None \notin Key \cup Intent \cup Requests

VARIABLES
  made,     \* the request each committed memory was written for, None before
  slots,    \* idempotency_slot: the memory a key names, 0 if none
  jobKey,   \* the dedup_key of each job row
  call      \* the call each writer has in flight

writeVars == <<made, slots, jobKey, call>>

\* job_dedup_key of an intent resolved against a record.
DedupKey(i, m) == <<i, IF i \in SelfIntent THEN m ELSE 0>>
NoKey == <<None, 0>>

\* find_live_job: the row that holds the dedup slot.
LiveJobs(k) == {j \in JobIds : status[j] \in Open /\ jobKey[j] = k}

\* plan: for each intent the live job found for it, or 0 to insert one.
Call == [step : {"idle", "resolve", "commit", "answer", "replay", "ok"},
         request : Requests \cup {None}, attempt : 1..2,
         memory : {0} \cup MemoryId,   \* the record key generated for the attempt
         plan : Seq({0} \cup JobIds),
         receipt : {0} \cup MemoryId,  \* the memory of the receipt
         jobs : Seq(JobIds)]           \* the outcomes, in the order of the intents

NoCall == [step |-> "idle", request |-> None, attempt |-> 1, memory |-> 0,
           plan |-> <<>>, receipt |-> 0, jobs |-> <<>>]

WriteInit ==
  /\ made = [m \in MemoryId |-> None]
  /\ slots = [k \in Key |-> 0]
  /\ jobKey = [j \in JobIds |-> NoKey]
  /\ call = [c \in Writer |-> NoCall]

Tell(c, r) == call' = [call EXCEPT ![c] = r]
Durable == <<made, slots, jobKey, lifecycleVars>>

Keyed(c) == call[c].request.key # None
SlotTaken(k) == slots[k] # 0

\* WriteWithJobsResult; a call that ends with an error is a call that is over.
Success(r, m, jobs) ==
  [NoCall EXCEPT !.step = "ok", !.request = r, !.receipt = m, !.jobs = jobs]

\* A receipt answers the request its slot was claimed with, intents included.
Receipt(r) ==
  IF made[slots[r.key]] = r
  THEN [NoCall EXCEPT !.step = "replay", !.request = r, !.receipt = slots[r.key]]
  ELSE NoCall

\* lookup_put_receipt_with_intents.
Begin(c, r) ==
  /\ call[c].step \in {"idle", "ok"}
  /\ Tell(c, IF r.key # None /\ SlotTaken(r.key) THEN Receipt(r)
             ELSE [NoCall EXCEPT !.step = "resolve", !.request = r])
  /\ UNCHANGED Durable

IsFree(j) == status[j] = "absent"

\* The rows a commit may add for the intents at the given positions: the
\* lowest free ids, in the order of the positions.
NewJobs(positions) ==
  {row \in [positions -> {j \in JobIds : IsFree(j)}] :
     /\ \A p, q \in positions : p < q => row[p] < row[q]
     /\ \A j \in JobIds, p \in positions :
          IsFree(j) /\ j < row[p] => \E q \in positions : row[q] = j}

\* keys[p] is the dedup key of row[p].
Inserted(row, keys) ==
  LET new    == {row[p] : p \in DOMAIN keys}
      key(j) == keys[CHOOSE p \in DOMAIN keys : row[p] = j]
  IN
  /\ status' = [j \in JobIds |-> IF j \in new THEN "pending" ELSE status[j]]
  /\ budget' = [j \in JobIds |-> IF j \in new THEN MaxAttempts[key(j)[1]] ELSE budget[j]]
  /\ jobKey' = [j \in JobIds |-> IF j \in new THEN key(j) ELSE jobKey[j]]
  /\ UNCHANGED <<epoch, progress, result>>

\* enqueue_job: insert, or answer with the live holder of the slot.
Enqueue(c, k) ==
  \/ \E row \in NewJobs({1}) :
       /\ LiveJobs(k) = {} /\ Inserted(row, <<k>>)
       /\ Tell(c, [call[c] EXCEPT !.jobs = Append(@, row[1])])
  \/ \E j \in LiveJobs(k) :
       /\ Tell(c, [call[c] EXCEPT !.jobs = Append(@, j)])
       /\ UNCHANGED <<jobKey, lifecycleVars>>

\* A replay enqueues every intent again, resolved against the receipt.
Replay(c) ==
  LET done == Len(call[c].jobs)  intents == call[c].request.intents IN
  /\ call[c].step = "replay" /\ done < Len(intents)
  /\ Enqueue(c, DedupKey(intents[done + 1], call[c].receipt))
  /\ UNCHANGED <<made, slots>>

ReplayEnds(c) ==
  /\ call[c].step = "replay" /\ Len(call[c].jobs) = Len(call[c].request.intents)
  /\ Tell(c, Success(call[c].request, call[c].receipt, call[c].jobs))
  /\ UNCHANGED Durable

\* A record key nobody has used: Uuid::now_v7.
IsNewMemory(m) ==
  /\ made[m] = None /\ \A c \in Writer : call[c].memory # m
  /\ \A k \in MemoryId : k < m =>
       made[k] # None \/ \E c \in Writer : call[c].memory = k

\* resolve_job_intents, for the record key of this attempt.
Resolve(c) ==
  LET intents == call[c].request.intents IN
  /\ call[c].step = "resolve"
  /\ \E m \in MemoryId : \E plan \in [DOMAIN intents -> {0} \cup JobIds] :
       /\ IsNewMemory(m)
       /\ \A i \in DOMAIN intents :
            LET live == LiveJobs(DedupKey(intents[i], m)) IN
            IF live = {} THEN plan[i] = 0 ELSE plan[i] \in live
       /\ Tell(c, [call[c] EXCEPT !.step = "commit", !.memory = m, !.plan = plan])
  /\ UNCHANGED Durable

\* Positions of the intents to insert, and their dedup keys.
ToInsert(c) == {p \in DOMAIN call[c].plan : call[c].plan[p] = 0}
NewKeys(c) ==
  [p \in ToInsert(c) |-> DedupKey(call[c].request.intents[p], call[c].memory)]

\* The unique index on dedup_slot, for the rows of this transaction too.
KeysAreFree(ks) ==
  \A n \in DOMAIN ks : LiveJobs(ks[n]) = {} /\ \A o \in DOMAIN ks : ks[n] = ks[o] => n = o

\* Mutant: the jobs are inserted by a transaction of their own, which may fail.
WriteCommitAlone(c) ==
  LET r == call[c].request  m == call[c].memory IN
  /\ call[c].step = "commit" /\ (Keyed(c) => ~SlotTaken(r.key))
  /\ made' = [made EXCEPT ![m] = r]
  /\ slots' = IF Keyed(c) THEN [slots EXCEPT ![r.key] = m] ELSE slots
  /\ IF KeysAreFree(NewKeys(c)) THEN \E row \in NewJobs(ToInsert(c)) : Inserted(row, NewKeys(c))
     ELSE UNCHANGED <<jobKey, lifecycleVars>>
  /\ Tell(c, [call[c] EXCEPT !.step = "answer", !.receipt = m])

\* Slot, memory, receipt, assert event and the job rows: one transaction.
WriteCommit(c) ==
  LET r == call[c].request  m == call[c].memory IN
  /\ call[c].step = "commit" /\ (Keyed(c) => ~SlotTaken(r.key))
  /\ KeysAreFree(NewKeys(c))
  /\ \E row \in NewJobs(ToInsert(c)) : Inserted(row, NewKeys(c))
  /\ made' = [made EXCEPT ![m] = r]
  /\ slots' = IF Keyed(c) THEN [slots EXCEPT ![r.key] = m] ELSE slots
  /\ Tell(c, [call[c] EXCEPT !.step = "answer", !.receipt = m])

\* Mutant: every collision is resolved again.
WriteCollidesForever(c) ==
  /\ call[c].step = "commit" /\ (Keyed(c) => ~SlotTaken(call[c].request.key))
  /\ ~KeysAreFree(NewKeys(c))
  /\ Tell(c, [call[c] EXCEPT !.step = "resolve", !.attempt = @ + 1,
                             !.memory = 0, !.plan = <<>>])
  /\ UNCHANGED Durable

\* A dedup slot is taken: the first attempt is resolved again under a new
\* record key, the second gives up.
WriteCollides(c) ==
  /\ call[c].step = "commit" /\ (Keyed(c) => ~SlotTaken(call[c].request.key))
  /\ ~KeysAreFree(NewKeys(c))
  /\ Tell(c, IF call[c].attempt = 1
             THEN [call[c] EXCEPT !.step = "resolve", !.attempt = 2,
                                  !.memory = 0, !.plan = <<>>]
             ELSE NoCall)
  /\ UNCHANGED Durable

\* The key was claimed in between: the receipt is replayed, but the outcomes
\* are still looked up for the record key of this attempt.
WriteReplays(c) ==
  LET r == call[c].request IN
  /\ call[c].step = "commit" /\ Keyed(c) /\ SlotTaken(r.key)
  /\ Tell(c, IF made[slots[r.key]] = r
             THEN [call[c] EXCEPT !.step = "answer", !.receipt = slots[r.key]]
             ELSE NoCall)
  /\ UNCHANGED Durable

\* dedup_replay: the live holder of each inserted slot.
Outcomes(c) ==
  [i \in DOMAIN call[c].plan |->
     IF call[c].plan[i] # 0 THEN {call[c].plan[i]}
     ELSE LiveJobs(DedupKey(call[c].request.intents[i], call[c].memory))]

\* A job that is already over by then makes the committed write an error.
Answer(c) ==
  LET found == Outcomes(c) IN
  /\ call[c].step = "answer"
  /\ IF \E i \in DOMAIN found : found[i] = {}
     THEN Tell(c, NoCall)
     ELSE \E jobs \in [DOMAIN found -> JobIds] :
            /\ \A i \in DOMAIN found : jobs[i] \in found[i]
            /\ Tell(c, Success(call[c].request, call[c].receipt, jobs))
  /\ UNCHANGED Durable

\* A call that is dropped, or whose answer is lost.
Abandon(c) ==
  /\ call[c].step \in {"resolve", "commit", "answer", "replay"}
  /\ Tell(c, NoCall) /\ UNCHANGED Durable

WriteStep ==
  \E c \in Writer :
    \/ \E r \in Asks[c] : Begin(c, r)
    \/ Replay(c) \/ ReplayEnds(c) \/ Resolve(c) \/ WriteCommit(c)
    \/ WriteCollides(c) \/ WriteReplays(c) \/ Answer(c) \/ Abandon(c)

-----------------------------------------------------------------------------

WriteTypeOK ==
  /\ made \in [MemoryId -> Requests \cup {None}]
  /\ slots \in [Key -> {0} \cup MemoryId]
  /\ jobKey \in [JobIds -> ((Intent \cup {None}) \X ({0} \cup MemoryId))]
  /\ call \in [Writer -> Call]

\* JOB-001: what a write promises is durable with it.  Every memory that was
\* committed has a job row for each intent of its request, its key names it,
\* and no job is pinned to a memory that was not committed.
JobsCommitWithTheirWrite ==
  /\ \A m \in MemoryId : made[m] # None =>
       /\ \A i \in DOMAIN made[m].intents :
            \E j \in JobIds : jobKey[j] = DedupKey(made[m].intents[i], m)
       /\ made[m].key # None => slots[made[m].key] = m
  /\ \A j \in JobIds : jobKey[j][2] # 0 => made[jobKey[j][2]] # None
  /\ \A j \in JobIds : status[j] = "absent" <=> jobKey[j] = NoKey

\* An answer that reports success names the memory the request was written to
\* and, for each of its intents, the job of that very intent and memory, also
\* when the call lost a race for its key or for a slot; and no two live jobs
\* have one key, so that job was the only one when it was named.
AnswersNameTheirJobs ==
  /\ \A c \in Writer : call[c].step = "ok" =>
       LET r == call[c].request IN
       /\ made[call[c].receipt] = r
       /\ Len(call[c].jobs) = Len(r.intents)
       /\ \A i \in DOMAIN r.intents :
            jobKey[call[c].jobs[i]] = DedupKey(r.intents[i], call[c].receipt)
  /\ \A j, k \in JobIds :
       status[j] \in Open /\ status[k] \in Open /\ jobKey[j] = jobKey[k] => j = k

\* Memories, their jobs and what callers are told of both agree, whoever wins
\* the races for keys and deduplication slots and whatever workers do meanwhile.
WritesAndJobsAgree == JobsCommitWithTheirWrite /\ AnswersNameTheirJobs

\* surreal_store.rs:2373, on a replay each intent's dedup matches the originally
\* committed job: a record has one job per intent that pins it, ever.
ReplayMatchesTheOriginalJob ==
  \A j, k \in JobIds : jobKey[j] = jobKey[k] /\ jobKey[j][2] # 0 => j = k
=============================================================================
