---------------------------- MODULE WriterBatch ----------------------------
(***************************************************************************)
(* `apply_ops`, and what calls it: a host's operations, a compaction that  *)
(* ends in a checkpoint, and a sleep pass that scans a scope, proposes and *)
(* forgets.  Each operation is a call of its own to a store that others    *)
(* write too; a batch stops at its first failure.                          *)
(***************************************************************************)
EXTENDS Ordering, SequencesExt

CONSTANTS
    CategoryOf, LengthOf,   \* of each memory, numbered in the order of the listing
    Similar,                \* pairs whose words mostly agree
    Old,                    \* memories over the age of the request
    Batches,                \* operations a host or a writer may bring
    Policies,
    MaxBatch, PageSize, ScanCap, MaxProposals,
    MaxVersion              \* bound on the changes of one memory

Memory == DOMAIN CategoryOf

ASSUME WriterAssumption ==
    /\ Memory \subseteq Nat \ {0} /\ IsFiniteSet(Memory)
    /\ \A ops \in Batches : ops \in Seq(Range(ops))
    /\ {PageSize, ScanCap, MaxProposals} \subseteq Nat

VARIABLES
    targets,    \* the memories of the active scope
    batch,      \* the call in progress
    effects     \* what the store committed for it, in order

batchVars == <<targets, batch, effects>>

NoBatch == [phase |-> "idle", kind |-> "none", ops |-> <<>>, policy |-> [hard |-> FALSE, versions |-> TRUE],
            outcomes |-> <<>>, summary |-> FALSE, checkpoint |-> "none",
            age |-> [apply |-> FALSE, threshold |-> FALSE], dry |-> TRUE,
            listed |-> {}, scanned |-> <<>>, proposals |-> <<>>]

BatchInit ==
    /\ targets = [m \in Memory |-> [state |-> "open", version |-> 1]]
    /\ batch = NoBatch
    /\ effects = <<>>

----------------------------------------------------------------------------
(* apply_ops. *)

Noop == [kind |-> "noop", scope |-> "none"]
PutOp(scope) == [kind |-> "put", scope |-> scope]
SupersedeOp(m, version) == [kind |-> "supersede", scope |-> "active", memory |-> m, version |-> version]
ForgetOp(m, version, hard) ==
    [kind |-> "forget", scope |-> "active", memory |-> m, version |-> version, hard |-> hard]

\* The whole batch is checked before its first effect.  Version 0 is no version.
Preflight(ops, policy) ==
    /\ Len(ops) <= MaxBatch
    /\ \A i \in DOMAIN ops :
          /\ ops[i].kind # "noop" => ops[i].scope = "active"
          /\ ops[i].kind = "forget" /\ policy.versions => ops[i].version # 0

Begin(b, ops) ==
    IF Preflight(ops, b.policy)
    THEN [b EXCEPT !.ops = ops, !.phase = IF ops = <<>> THEN "done" ELSE "apply"]
    ELSE [b EXCEPT !.ops = ops, !.phase = "refused"]

\* A behaviour follows one call.
MayBegin == batch.phase = "idle"

ApplyOps(ops, policy) ==
    /\ MayBegin
    /\ batch' = Begin([NoBatch EXCEPT !.kind = "apply", !.policy = policy], ops)
    /\ UNCHANGED <<targets, effects>>

\* The writer's operations, then a checkpoint if there is a summary.
IngestCompaction(ops, policy, summary) ==
    /\ MayBegin
    /\ batch' = Begin([NoBatch EXCEPT !.kind = "compaction", !.policy = policy, !.summary = summary], ops)
    /\ UNCHANGED <<targets, effects>>

Current == batch.ops[Len(batch.outcomes) + 1]

\* A hard forget the policy does not allow becomes a soft one.
Erases(op) == op.hard /\ batch.policy.hard

Guarded(op) == op.version \in {0, targets[op.memory].version}

StoreAccepts(op) ==
    CASE op.kind = "supersede" -> targets[op.memory].state = "open" /\ Guarded(op)
      [] op.kind = "forget" -> /\ targets[op.memory].state # "erased" /\ Guarded(op)
                               /\ ~Erases(op) => targets[op.memory].state = "open"
      [] OTHER -> TRUE

RowsAfter(op) ==
    CASE op.kind = "supersede" -> [targets EXCEPT ![op.memory] = [state |-> "closed", version |-> @.version + 1]]
      [] op.kind = "forget" -> [targets EXCEPT ![op.memory] =
            IF Erases(op) THEN [@ EXCEPT !.state = "erased"]
            ELSE [state |-> "closed", version |-> @.version + 1]]
      [] OTHER -> targets

Effect(op) ==
    [kind |-> op.kind, scope |-> op.scope, index |-> Len(batch.outcomes) + 1,
     memory  |-> IF op.kind \in {"supersede", "forget"} THEN op.memory ELSE 0,
     version |-> IF op.kind \in {"supersede", "forget"} THEN targets[op.memory].version ELSE 0,
     hard    |-> op.kind = "forget" /\ Erases(op)]

AllOk(b) == b.outcomes # <<>> /\ \A i \in DOMAIN b.outcomes : b.outcomes[i] = "ok"

\* Where a batch goes after its last operation.
Settle(b) ==
    IF Len(b.outcomes) < Len(b.ops) THEN b
    ELSE [b EXCEPT !.phase = IF b.kind = "compaction" /\ b.summary /\ AllOk(b) THEN "checkpoint" ELSE "done"]

Answered == Settle([batch EXCEPT !.outcomes = Append(@, "ok")])

\* Mutant: the batch goes on after a failure.
FailedOnly == Settle([batch EXCEPT !.outcomes = Append(@, "err")])

\* The first failure ends the batch; the operations after it are reported.
Failed == Settle([batch EXCEPT !.outcomes =
    Append(@, "err") \o [i \in 1 .. Len(batch.ops) - Len(@) - 1 |-> "not_attempted"]])

SkipNoop ==
    /\ batch.phase = "apply" /\ Current.kind = "noop"
    /\ batch' = Answered
    /\ UNCHANGED <<targets, effects>>

\* The store commits; its answer may still be lost.
OpCommits ==
    /\ batch.phase = "apply" /\ Current.kind # "noop" /\ StoreAccepts(Current)
    /\ targets' = RowsAfter(Current)
    /\ effects' = Append(effects, Effect(Current))
    /\ batch' \in {Answered, Failed}

\* The store refuses the operation, or cannot be reached.
OpFails ==
    /\ batch.phase = "apply" /\ Current.kind # "noop"
    /\ batch' = Failed
    /\ UNCHANGED <<targets, effects>>

\* Too short or too chatty a summary is skipped.
CheckpointSkips ==
    /\ batch.phase = "checkpoint"
    /\ batch' = [batch EXCEPT !.phase = "done", !.checkpoint = "skipped"]
    /\ UNCHANGED <<targets, effects>>

CheckpointStores ==
    /\ batch.phase = "checkpoint"
    /\ \E answer \in {"stored", "error"} : batch' = [batch EXCEPT !.phase = "done", !.checkpoint = answer]
    /\ effects' = Append(effects, [kind |-> "checkpoint", scope |-> "active", index |-> Len(batch.ops) + 1,
                                   memory |-> 0, version |-> 0, hard |-> FALSE])
    /\ UNCHANGED targets

\* A checkpoint's failure does not fail the report of what was applied.
CheckpointFails ==
    /\ batch.phase = "checkpoint"
    /\ batch' = [batch EXCEPT !.phase = "done", !.checkpoint = "error"]
    /\ UNCHANGED <<targets, effects>>

----------------------------------------------------------------------------
(* sleep. *)

\* The first page pins the instant the listing is of.
Sleep(dry, age, policy) ==
    /\ MayBegin
    /\ batch' = [NoBatch EXCEPT !.kind = "sleep", !.phase = "scan", !.dry = dry, !.age = age,
                                !.policy = policy,
                                !.listed = {m \in Memory : targets[m].state = "open"}]
    /\ UNCHANGED <<targets, effects>>

\* The two rows that the n-th turn of the two loops compares.
Outer(n, len) == 1 + ((n - 1) \div len)
Inner(n, len) == 1 + ((n - 1) % len)

Comparable(x, y) ==
    /\ x # y /\ CategoryOf[x] = CategoryOf[y] /\ CategoryOf[x] # "uncertainty"
    /\ {x, y} \in Similar

KeeperOf(x, y) == IF LengthOf[x] >= LengthOf[y] THEN x ELSE y

Pair(x, y) ==
    [kind |-> "near_duplicate", memory |-> IF KeeperOf(x, y) = x THEN y ELSE x,
     keep |-> KeeperOf(x, y), version |-> 0]

\* A row that is kept is not forgotten, and one that is forgotten neither keeps
\* another nor is forgotten again.
Bars(p, q) == q.memory \in {p.keep, p.memory} \/ q.keep = p.memory

\* What one takes of I in order, where what was taken may bar what comes.
Greedy(I, bars) ==
    CHOOSE P \in SUBSET I : \A n \in I : n \in P <=> \A m \in P : m < n => <<m, n>> \notin bars

\* Pairs of targets of one category whose words agree; conflict registers are
\* left to the host.
NearDuplicates(scanned) ==
    LET len   == Len(scanned)
        x(n)  == scanned[Outer(n, len)].memory
        y(n)  == scanned[Inner(n, len)].memory
        alike == {n \in 1 .. len * len : Outer(n, len) < Inner(n, len) /\ Comparable(x(n), y(n))}
        pair  == [n \in alike |-> Pair(x(n), y(n))]
        bars  == {r \in alike \X alike : Bars(pair[r[1]], pair[r[2]])}
    IN  Among(pair, Greedy(alike, bars))

\* Without a threshold every episodic row is listed, for review.
AgeOuts(scanned, threshold) ==
    LET aged == Among(scanned, {i \in DOMAIN scanned :
                    /\ CategoryOf[scanned[i].memory] = "episodic"
                    /\ threshold => scanned[i].memory \in Old})
    IN  [i \in DOMAIN aged |-> [kind |-> "age_out", memory |-> aged[i].memory, keep |-> 0,
                                version |-> aged[i].version]]

Proposals(b) ==
    LET all == NearDuplicates(b.scanned) \o AgeOuts(b.scanned, b.age.threshold)
    IN  SubSeq(all, 1, IF Len(all) < MaxProposals THEN Len(all) ELSE MaxProposals)

AgeOutsOf(proposals) ==
    Among(proposals, {i \in DOMAIN proposals : proposals[i].kind = "age_out"})

\* Mutant: forgets whatever is there.
ForgetOpsUnguarded(b) ==
    LET aged == AgeOutsOf(b.proposals)
    IN  IF b.dry \/ ~b.age.apply \/ ~b.age.threshold THEN <<>>
        ELSE [i \in DOMAIN aged |-> ForgetOp(aged[i].memory, 0, FALSE)]

\* Near duplicates are for review only; age-outs are applied under a threshold,
\* at the version that was scanned.
ForgetOps(b) ==
    LET aged == AgeOutsOf(b.proposals)
    IN  IF b.dry \/ ~b.age.apply \/ ~b.age.threshold THEN <<>>
        ELSE [i \in DOMAIN aged |-> ForgetOp(aged[i].memory, aged[i].version, FALSE)]

\* One page of the scan; the last one is followed by the proposals and, unless
\* the pass is dry, by the batch that applies them.
ScanPage ==
    /\ batch.phase = "scan"
    /\ LET after == IF batch.scanned = <<>> THEN 0 ELSE Last(batch.scanned).memory
           left  == {m \in batch.listed : m > after /\ targets[m].state # "erased"}
           room  == ScanCap - Len(batch.scanned)
           size  == IF PageSize < room THEN PageSize ELSE room
           page  == InOrder({m \in left : Cardinality({n \in left : n <= m}) <= size})
           read  == [batch EXCEPT !.scanned =
                        @ \o [i \in DOMAIN page |-> [memory |-> page[i], version |-> targets[page[i]].version]]]
           done  == [read EXCEPT !.proposals = Proposals(read)]
       IN  batch' = IF Len(read.scanned) < ScanCap /\ Cardinality(left) > size THEN read
                    ELSE Begin(done, ForgetOps(done))
    /\ UNCHANGED <<targets, effects>>

ScanFails ==
    /\ batch.phase = "scan"
    /\ batch' = [batch EXCEPT !.phase = "refused"]
    /\ UNCHANGED <<targets, effects>>

----------------------------------------------------------------------------

\* Others annotate, forget and erase memories of the scope meanwhile.
SomebodyElse(m) ==
    /\ batch.phase \in {"scan", "apply"}
    /\ \/ /\ targets[m].state = "open" /\ targets[m].version < MaxVersion
          /\ \E state \in {"open", "closed"} :
                targets' = [targets EXCEPT ![m] = [state |-> state, version |-> @.version + 1]]
       \/ /\ targets[m].state # "erased"
          /\ targets' = [targets EXCEPT ![m].state = "erased"]
    /\ UNCHANGED <<batch, effects>>

ProcessDies ==
    /\ batch.phase \in {"scan", "apply", "checkpoint"}
    /\ batch' = [batch EXCEPT !.phase = "dead"]
    /\ UNCHANGED <<targets, effects>>

BatchNext ==
    \/ MayBegin
       /\ \E ops \in Batches, policy \in Policies :
             \/ ApplyOps(ops, policy)
             \/ \E summary \in BOOLEAN : IngestCompaction(ops, policy, summary)
    \/ \E dry, apply, threshold \in BOOLEAN, policy \in Policies :
          Sleep(dry, [apply |-> apply, threshold |-> threshold], policy)
    \/ SkipNoop \/ OpCommits \/ OpFails
    \/ CheckpointSkips \/ CheckpointStores \/ CheckpointFails
    \/ ScanPage \/ ScanFails
    \/ \E m \in Memory : SomebodyElse(m)
    \/ ProcessDies

----------------------------------------------------------------------------

\* What a batch left behind is what its outcomes say: operations up to some
\* point, one failure whose effect alone is uncertain, and nothing after it;
\* nothing at all when it was refused, nothing outside the active scope, no
\* erasure the policy forbids, and a checkpoint only over a batch all of which
\* took place.
BatchIsAPrefix ==
    LET oks == {i \in DOMAIN batch.outcomes : batch.outcomes[i] = "ok"}
        errs == {i \in DOMAIN batch.outcomes : batch.outcomes[i] = "err"}
        took == {effects[i].index : i \in DOMAIN effects}
    IN  /\ \A i \in DOMAIN batch.outcomes : i \in oks => \A j \in 1 .. i : j \in oks
        /\ Cardinality(errs) <= 1
        /\ {i \in oks : batch.ops[i].kind # "noop"} \subseteq took
        /\ took \subseteq oks \cup errs
             \cup (IF batch.checkpoint \in {"stored", "error"} THEN {Len(batch.ops) + 1} ELSE {})
        /\ \A i, j \in DOMAIN effects : i < j => effects[i].index < effects[j].index
        /\ \A i \in DOMAIN effects : effects[i].scope = "active" /\ (effects[i].hard => batch.policy.hard)
        /\ batch.phase = "refused" => effects = <<>>
        /\ batch.phase = "done" => Len(batch.outcomes) = Len(batch.ops)
        /\ batch.checkpoint # "none" => oks = DOMAIN batch.ops

\* A sleep pass forgets, softly, only old episodic memories nobody changed since
\* it scanned them, and only when it was told to apply; and what it proposes to
\* forget as a duplicate is never what another proposal keeps.
SleepForgetsWhatItSaw ==
    batch.kind = "sleep" =>
        /\ \A i \in DOMAIN effects :
              /\ ~batch.dry /\ batch.age.apply /\ batch.age.threshold
              /\ effects[i].kind = "forget" /\ ~effects[i].hard
              /\ CategoryOf[effects[i].memory] = "episodic" /\ effects[i].memory \in Old
              /\ [memory |-> effects[i].memory, version |-> effects[i].version] \in Range(batch.scanned)
        /\ LET near == {p \in Range(batch.proposals) : p.kind = "near_duplicate"}
           IN  \A p, q \in near : p.memory # q.keep /\ (p.memory = q.memory => p = q)

=============================================================================
