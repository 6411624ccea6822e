-------------------------- MODULE WorkPipelineProofs --------------------------
(***************************************************************************)
(* Proof that the workers forget no lease, for any workers, jobs, windows  *)
(* and quotas, while writers commit jobs of their own.                     *)
(***************************************************************************)
EXTENDS WorkPipeline, FiniteSetTheorems, SequenceTheorems, TLAPS

LifeTypes ==
  /\ status \in [JobIds -> {"absent", "pending", "leased", "succeeded", "failed",
                            "cancelled", "superseded"}]
  /\ epoch \in [JobIds -> Nat]
  /\ flight \in [Worker -> SUBSET Attempt]

\* A lease is in one flight, once, and is not newer than the newest.
LeasesFit ==
  /\ \A w \in Worker : \A t \in flight[w] : t.fence <= epoch[t.job]
  /\ \A w, v \in Worker : \A t \in flight[w], u \in flight[v] :
       t.job = u.job /\ t.fence = u.fence => w = v /\ t = u

Accounted(j) ==
  \/ <<j, epoch[j]>> \in dropped
  \/ \E w \in Worker : \E t \in flight[w] : t.job = j /\ t.fence = epoch[j]

Accounting == \A j \in JobIds : status[j] = "leased" => Accounted(j)

\* While the window is filled, a worker that saw quota left has claimed as much
\* over it as it has in flight at most.
QuotaFits(w) ==
  /\ IsFiniteSet(flight[w])
  /\ pc[w] \in Ended => flight[w] = {}
  /\ claimed[w] < Quota + Concurrency
  /\ pc[w] = "claim" /\ ~saw[w].quota => claimed[w] < Quota + Cardinality(flight[w])

RuntimeInv ==
  /\ LifeTypes /\ RuntimeTypeOK /\ LeasesFit /\ Accounting
  /\ \A w \in Worker : QuotaFits(w)

-----------------------------------------------------------------------------

\* A step that leaves the flights alone and grants no lease.
LEMMA FlightsRest ==
  ASSUME RuntimeInv, LifeTypes', RuntimeTypeOK', UNCHANGED <<flight, dropped, epoch>>,
         \A j \in JobIds : status'[j] = "leased" => status[j] = "leased",
         \A w \in Worker : QuotaFits(w)'
  PROVE  RuntimeInv'
BY DEF RuntimeInv, LeasesFit, Accounting, Accounted

LEMMA CellFacts ==
  ASSUME RuntimeInv, NEW w \in Worker, NEW label \in {"top", "claim", "harvest"} \cup Ended
  PROVE  /\ Goto(w, label) => /\ pc' \in [Worker -> {"top", "claim", "harvest"} \cup Ended]
                              /\ pc'[w] = label
                              /\ \A v \in Worker : v # w => pc'[v] = pc[v]
         /\ EndRound(w, label) =>
              /\ Goto(w, label)
              /\ saw' \in [Worker -> [stopping : BOOLEAN, quota : BOOLEAN]]
              /\ \A v \in Worker : v # w => saw'[v] = saw[v]
<1>1. Unseen \in [stopping : BOOLEAN, quota : BOOLEAN]
  BY DEF Unseen
<1>2. /\ pc \in [Worker -> {"top", "claim", "harvest"} \cup Ended]
      /\ saw \in [Worker -> [stopping : BOOLEAN, quota : BOOLEAN]]
  BY DEF RuntimeInv, RuntimeTypeOK
<1>. QED BY <1>1, <1>2 DEF Goto, EndRound

\* The quota of the workers that do not move.
LEMMA OthersFit ==
  ASSUME RuntimeInv, NEW v \in Worker, pc'[v] = pc[v], saw'[v] = saw[v],
         claimed'[v] = claimed[v], flight'[v] = flight[v]
  PROVE  QuotaFits(v)'
BY DEF RuntimeInv, QuotaFits

LEMMA RoundStep ==
  ASSUME RuntimeInv, NEW w \in Worker, Round(w)
  PROVE  RuntimeInv'
<1>1. /\ Goto(w, "claim") /\ UNCHANGED <<stop, claimed, flight, dropped, status, epoch>>
      /\ saw' = [saw EXCEPT ![w] = [stopping |-> stop[w], quota |-> claimed[w] >= Quota]]
  BY DEF Round, lifecycleVars
<1>2. /\ pc' \in [Worker -> {"top", "claim", "harvest"} \cup Ended] /\ pc'[w] = "claim"
      /\ \A v \in Worker : v # w => pc'[v] = pc[v]
  BY <1>1, CellFacts
<1>3. claimed[w] \in Nat /\ stop[w] \in BOOLEAN /\ Quota \in Nat
      /\ saw \in [Worker -> [stopping : BOOLEAN, quota : BOOLEAN]]
  BY WindowAssumption DEF RuntimeInv, RuntimeTypeOK
<1>4. /\ saw' \in [Worker -> [stopping : BOOLEAN, quota : BOOLEAN]]
      /\ saw'[w] = [stopping |-> stop[w], quota |-> claimed[w] >= Quota]
      /\ \A v \in Worker : v # w => saw'[v] = saw[v]
  BY <1>1, <1>3
<1>5. LifeTypes' /\ RuntimeTypeOK'
  BY <1>1, <1>2, <1>4 DEF RuntimeInv, LifeTypes, RuntimeTypeOK
<1>6. QuotaFits(w)'
  <2>1. Cardinality(flight[w]) \in Nat
    BY FS_CardinalityType DEF RuntimeInv, QuotaFits
  <2>2. saw'[w].quota <=> claimed[w] >= Quota
    BY <1>4
  <2>3. ~saw'[w].quota => claimed[w] < Quota + Cardinality(flight[w])
    BY <1>3, <2>1, <2>2
  <2>4. pc'[w] \notin Ended
    BY <1>2 DEF Ended
  <2>. QED BY <1>1, <2>3, <2>4 DEF RuntimeInv, QuotaFits
<1>7. \A v \in Worker : QuotaFits(v)'
  BY <1>1, <1>2, <1>4, <1>6, OthersFit
<1>. QED BY <1>1, <1>5, <1>7, FlightsRest

\* The end of the window, an idle round and a stop request.
LEMMA TurnStep ==
  ASSUME RuntimeInv, NEW w \in Worker, ClaimEnds(w) \/ Idle(w) \/ RequestStop(w)
  PROVE  RuntimeInv'
<1>1. UNCHANGED <<claimed, flight, dropped, status, epoch>>
  BY DEF ClaimEnds, Idle, RequestStop, lifecycleVars
<1>2. \/ UNCHANGED pc /\ UNCHANGED saw /\ stop' = [stop EXCEPT ![w] = TRUE]
      \/ /\ \E label \in {"top", "harvest", "done"} :
              Goto(w, label) /\ (UNCHANGED saw \/ EndRound(w, label))
         /\ UNCHANGED stop /\ (pc'[w] = "done" => flight[w] = {})
  BY CellFacts DEF ClaimEnds, Idle, RequestStop, EndRound, Ended
<1>3. /\ pc' \in [Worker -> {"top", "claim", "harvest"} \cup Ended]
      /\ saw' \in [Worker -> [stopping : BOOLEAN, quota : BOOLEAN]]
      /\ \A v \in Worker : v # w => pc'[v] = pc[v] /\ saw'[v] = saw[v]
      /\ (pc'[w] = pc[w] /\ saw'[w] = saw[w]) \/ pc'[w] \in {"top", "harvest", "done"}
  BY <1>2, CellFacts DEF RuntimeInv, RuntimeTypeOK, Ended
<1>4. pc'[w] \in Ended => flight[w] = {}
  BY <1>2, <1>3 DEF RuntimeInv, QuotaFits, Ended
<1>5. LifeTypes' /\ RuntimeTypeOK'
  BY <1>1, <1>2, <1>3 DEF RuntimeInv, LifeTypes, RuntimeTypeOK
<1>6. QuotaFits(w)'
  BY <1>1, <1>3, <1>4 DEF RuntimeInv, QuotaFits
<1>7. \A v \in Worker : QuotaFits(v)'
  BY <1>1, <1>3, <1>6, OthersFit
<1>. QED BY <1>1, <1>5, <1>7, FlightsRest

\* A new lease is newer than every lease in flight.
LEMMA ClaimStep ==
  ASSUME RuntimeInv, NEW w \in Worker, NEW j \in JobIds, Claim(w, j)
  PROVE  RuntimeInv'
<1>. DEFINE n == epoch[j] + 1
            new == [job |-> j, fence |-> n, run |-> "running"]
<1>1. /\ pc[w] = "claim" /\ ~saw[w].quota /\ Cardinality(flight[w]) < Concurrency
      /\ UNCHANGED <<pc, saw, stop, dropped>>
      /\ status' = [status EXCEPT ![j] = "leased"]
      /\ epoch' = [epoch EXCEPT ![j] = n]
      /\ claimed' = [claimed EXCEPT ![w] = claimed[w] + 1]
      /\ flight' = [flight EXCEPT ![w] = flight[w] \cup {new}]
  BY DEF Claim, WindowOpen, Acquire, Becomes
<1>2. /\ epoch \in [JobIds -> Nat] /\ flight \in [Worker -> SUBSET Attempt]
      /\ claimed \in [Worker -> Nat] /\ n \in Nat /\ n > epoch[j]
  BY DEF RuntimeInv, LifeTypes, RuntimeTypeOK
<1>3. new \in Attempt /\ new.job = j /\ new.fence = n
  BY <1>2 DEF Attempt
<1>4. \A v \in Worker : \A t \in flight[v] :
        t.job \in JobIds /\ t.fence \in Nat /\ t.fence <= epoch[t.job]
  BY <1>2 DEF RuntimeInv, LeasesFit, Attempt
<1>. HIDE DEF n, new
<1>5. /\ epoch' \in [JobIds -> Nat]
      /\ \A i \in JobIds : epoch'[i] = IF i = j THEN n ELSE epoch[i]
      /\ \A i \in JobIds : epoch[i] <= epoch'[i]
  BY <1>1, <1>2
<1>6. /\ flight' \in [Worker -> SUBSET Attempt]
      /\ \A v \in Worker : flight'[v] = IF v = w THEN flight[w] \cup {new} ELSE flight[v]
  BY <1>1, <1>2, <1>3
<1>7. /\ claimed' \in [Worker -> Nat] /\ claimed'[w] = claimed[w] + 1
      /\ \A v \in Worker : v # w => claimed'[v] = claimed[v]
  BY <1>1, <1>2
<1>8. LifeTypes' /\ RuntimeTypeOK'
  BY <1>1, <1>5, <1>6, <1>7 DEF RuntimeInv, LifeTypes, RuntimeTypeOK
<1>9. \A v \in Worker : \A t \in flight[v] : ~(t.job = j /\ t.fence = n)
  BY <1>2, <1>4
<1>10. LeasesFit'
  <2>1. \A v \in Worker : \A t \in flight'[v] : t.fence <= epoch'[t.job]
    <3>. SUFFICES ASSUME NEW v \in Worker, NEW t \in flight'[v]
                  PROVE  t.fence <= epoch'[t.job]
      OBVIOUS
    <3>1. CASE t = new
      BY <1>2, <1>3, <1>5, <3>1
    <3>2. CASE t \in flight[v]
      <4>1. /\ t.job \in JobIds /\ t.fence \in Nat /\ t.fence <= epoch[t.job]
            /\ epoch[t.job] \in Nat /\ epoch'[t.job] \in Nat /\ epoch[t.job] <= epoch'[t.job]
        BY <1>2, <1>4, <1>5, <3>2
      <4>. QED BY <4>1
    <3>. QED BY <1>6, <3>1, <3>2
  <2>2. \A v, u \in Worker : \A t \in flight'[v], x \in flight'[u] :
          t.job = x.job /\ t.fence = x.fence => v = u /\ t = x
    BY <1>3, <1>6, <1>9 DEF RuntimeInv, LeasesFit
  <2>. QED BY <2>1, <2>2 DEF LeasesFit
<1>11. Accounting'
  <2>. SUFFICES ASSUME NEW i \in JobIds, status'[i] = "leased"
                PROVE  Accounted(i)'
    BY DEF Accounting
  <2>1. CASE i = j
    BY <1>3, <1>5, <1>6, <2>1 DEF Accounted
  <2>2. CASE i # j
    <3>1. status[i] = "leased" /\ epoch'[i] = epoch[i]
      BY <1>1, <1>5, <2>2 DEF RuntimeInv, LifeTypes
    <3>. QED BY <1>1, <1>6, <3>1 DEF RuntimeInv, Accounting, Accounted
  <2>. QED BY <2>1, <2>2
<1>12. QuotaFits(w)'
  <2>1. IsFiniteSet(flight[w]) /\ Cardinality(flight[w]) \in Nat
    BY FS_CardinalityType DEF RuntimeInv, QuotaFits
  <2>2. new \notin flight[w]
    BY <1>3, <1>9
  <2>3. /\ IsFiniteSet(flight'[w]) /\ Cardinality(flight'[w]) = Cardinality(flight[w]) + 1
    BY <1>6, <2>1, <2>2, FS_AddElement
  <2>4. claimed[w] \in Nat /\ claimed[w] < Quota + Cardinality(flight[w])
    BY <1>1, <1>2 DEF RuntimeInv, QuotaFits
  <2>5. /\ claimed'[w] < Quota + Concurrency
        /\ claimed'[w] < Quota + Cardinality(flight'[w])
    BY <1>1, <1>7, <2>1, <2>3, <2>4, WindowAssumption
  <2>6. pc'[w] \notin Ended
    BY <1>1 DEF Ended
  <2>. QED BY <2>3, <2>5, <2>6 DEF QuotaFits
<1>13. \A v \in Worker : QuotaFits(v)'
  BY <1>1, <1>6, <1>7, <1>12, OthersFit
<1>. QED BY <1>8, <1>10, <1>11, <1>13 DEF RuntimeInv

\* A process that dies, or whose claim fails, leaves its leases to lapse.
LEMMA DropStep ==
  ASSUME RuntimeInv, NEW w \in Worker, ClaimError(w) \/ Die(w)
  PROVE  RuntimeInv'
<1>1. /\ \E label \in {"failed", "dead"} : EndRound(w, label)
      /\ flight' = [flight EXCEPT ![w] = {}] /\ dropped' = Forgotten(w)
      /\ UNCHANGED <<stop, claimed, status, epoch>>
  BY DEF ClaimError, Die, lifecycleVars
<1>2. /\ pc' \in [Worker -> {"top", "claim", "harvest"} \cup Ended]
      /\ saw' \in [Worker -> [stopping : BOOLEAN, quota : BOOLEAN]]
      /\ \A v \in Worker : v # w => pc'[v] = pc[v] /\ saw'[v] = saw[v]
      /\ pc'[w] # "claim"
  BY <1>1, CellFacts DEF Ended
<1>3. /\ flight \in [Worker -> SUBSET Attempt] /\ dropped \subseteq JobIds \X Nat
  BY DEF RuntimeInv, LifeTypes, RuntimeTypeOK
<1>4. /\ flight' \in [Worker -> SUBSET Attempt]
      /\ \A v \in Worker : flight'[v] = IF v = w THEN {} ELSE flight[v]
  BY <1>1, <1>3
<1>5. /\ dropped' \subseteq JobIds \X Nat /\ dropped \subseteq dropped'
      /\ \A t \in flight[w] : <<t.job, t.fence>> \in dropped'
  BY <1>1, <1>3 DEF Forgotten, Lease, Attempt
<1>6. LifeTypes' /\ RuntimeTypeOK'
  BY <1>1, <1>2, <1>4, <1>5 DEF RuntimeInv, LifeTypes, RuntimeTypeOK
<1>7. LeasesFit'
  BY <1>1, <1>4 DEF RuntimeInv, LeasesFit
<1>8. Accounting'
  BY <1>1, <1>4, <1>5 DEF RuntimeInv, Accounting, Accounted
<1>9. QuotaFits(w)'
  BY <1>1, <1>2, <1>4, FS_EmptySet DEF RuntimeInv, QuotaFits
<1>10. \A v \in Worker : QuotaFits(v)'
  BY <1>1, <1>2, <1>4, <1>9, OthersFit
<1>. QED BY <1>6, <1>7, <1>8, <1>10 DEF RuntimeInv

\* An executor that returns keeps its lease until it is harvested.
LEMMA FinishStep ==
  ASSUME RuntimeInv, NEW w \in Worker, NEW t \in flight[w], Finish(w, t)
  PROVE  RuntimeInv'
<1>1. PICK run \in Outcome :
        flight' = [flight EXCEPT ![w] = (flight[w] \ {t}) \cup {[t EXCEPT !.run = run]}]
  BY DEF Finish
<1>2. pc[w] \notin Ended /\ UNCHANGED <<pc, saw, stop, claimed, dropped, status, epoch>>
  BY DEF Finish, lifecycleVars
<1>. DEFINE new == [t EXCEPT !.run = run]
<1>3. flight \in [Worker -> SUBSET Attempt] /\ t \in Attempt
  BY DEF RuntimeInv, LifeTypes
<1>4. new \in Attempt /\ new.job = t.job /\ new.fence = t.fence
  BY <1>3 DEF Attempt
<1>. HIDE DEF new
<1>5. /\ flight' \in [Worker -> SUBSET Attempt]
      /\ \A v \in Worker : flight'[v] =
           IF v = w THEN (flight[w] \ {t}) \cup {new} ELSE flight[v]
  BY <1>1, <1>3, <1>4 DEF new
<1>6. LifeTypes' /\ RuntimeTypeOK'
  BY <1>2, <1>5 DEF RuntimeInv, LifeTypes, RuntimeTypeOK
<1>7. LeasesFit'
  <2>1. \A v \in Worker : \A x \in flight'[v] : x.fence <= epoch'[x.job]
    BY <1>2, <1>4, <1>5 DEF RuntimeInv, LeasesFit
  <2>2. \A v, u \in Worker : \A x \in flight'[v], y \in flight'[u] :
          x.job = y.job /\ x.fence = y.fence => v = u /\ x = y
    BY <1>4, <1>5 DEF RuntimeInv, LeasesFit
  <2>. QED BY <2>1, <2>2 DEF LeasesFit
<1>8. Accounting'
  <2>. SUFFICES ASSUME NEW j \in JobIds, status[j] = "leased"
                PROVE  Accounted(j)'
    BY <1>2 DEF Accounting
  <2>1. CASE <<j, epoch[j]>> \in dropped
    BY <1>2, <2>1 DEF Accounted
  <2>2. CASE \E v \in Worker : \E x \in flight[v] : x.job = j /\ x.fence = epoch[j]
    <3>. PICK v \in Worker : \E x \in flight[v] : x.job = j /\ x.fence = epoch[j]
      BY <2>2
    <3>1. PICK x \in flight[v] : x.job = j /\ x.fence = epoch[j]
      OBVIOUS
    <3>2. CASE x = t
      BY <1>2, <1>4, <1>5, <3>1, <3>2 DEF Accounted
    <3>3. CASE x # t
      BY <1>2, <1>5, <3>1, <3>3 DEF Accounted
    <3>. QED BY <3>2, <3>3
  <2>. QED BY <2>1, <2>2 DEF RuntimeInv, Accounting, Accounted
<1>9. QuotaFits(w)'
  <2>1. IsFiniteSet(flight[w]) /\ Cardinality(flight[w]) \in Nat
    BY FS_CardinalityType DEF RuntimeInv, QuotaFits
  <2>2. new \notin flight[w] \ {t}
    BY <1>4 DEF RuntimeInv, LeasesFit
  <2>3. /\ IsFiniteSet(flight'[w]) /\ Cardinality(flight'[w]) = Cardinality(flight[w])
    <3>1. /\ IsFiniteSet(flight[w] \ {t})
          /\ Cardinality(flight[w] \ {t}) = Cardinality(flight[w]) - 1
      BY <2>1, FS_RemoveElement
    <3>2. /\ IsFiniteSet((flight[w] \ {t}) \cup {new})
          /\ Cardinality((flight[w] \ {t}) \cup {new}) = Cardinality(flight[w] \ {t}) + 1
      BY <2>2, <3>1, FS_AddElement
    <3>3. flight'[w] = (flight[w] \ {t}) \cup {new}
      BY <1>5
    <3>4. Cardinality((flight[w] \ {t}) \cup {new}) = Cardinality(flight[w])
      BY <2>1, <3>1, <3>2
    <3>. QED BY <3>2, <3>3, <3>4
  <2>. QED BY <1>2, <2>3 DEF RuntimeInv, QuotaFits
<1>10. \A v \in Worker : QuotaFits(v)'
  BY <1>2, <1>5, <1>9, OthersFit
<1>. QED BY <1>6, <1>7, <1>8, <1>10 DEF RuntimeInv

\* A settlement ends the lease in the journal, or leaves it to lapse.
LEMMA SettleFacts ==
  ASSUME RuntimeInv, NEW t \in Attempt,
         SettleCompleted(t) \/ SettleFailed(t) \/ SettleNothing(t)
  PROVE  /\ UNCHANGED epoch
         /\ status' \in [JobIds -> {"absent", "pending", "leased", "succeeded", "failed",
                                    "cancelled", "superseded"}]
         /\ dropped' \subseteq JobIds \X Nat /\ dropped \subseteq dropped'
         /\ \A j \in JobIds : status'[j] = "leased" =>
              status[j] = "leased" /\ (j = t.job => <<t.job, t.fence>> \in dropped')
<1>1. /\ t.job \in JobIds /\ t.fence \in Nat /\ dropped \subseteq JobIds \X Nat
      /\ status \in [JobIds -> {"absent", "pending", "leased", "succeeded", "failed",
                                "cancelled", "superseded"}]
  BY DEF RuntimeInv, LifeTypes, RuntimeTypeOK, Attempt
<1>2. CASE /\ dropped' = dropped \cup {Lease(t)} /\ UNCHANGED lifecycleVars
  BY <1>1, <1>2 DEF Lease, lifecycleVars
<1>3. CASE /\ UNCHANGED dropped /\ UNCHANGED epoch
           /\ \E s \in {"succeeded", "failed", "pending"} :
                status' = [status EXCEPT ![t.job] = s]
  BY <1>1, <1>3
<1>. QED
  BY <1>2, <1>3 DEF SettleCompleted, SettleFailed, SettleNothing, Succeed, GiveBack, Close,
                    Becomes

LEMMA HarvestStep ==
  ASSUME RuntimeInv, NEW w \in Worker, NEW t \in flight[w], Harvest(w, t)
  PROVE  RuntimeInv'
<1>1. /\ flight' = [flight EXCEPT ![w] = flight[w] \ {t}]
      /\ EndRound(w, NextRound(w, flight[w] \ {t})) /\ UNCHANGED <<stop, claimed>>
  BY DEF Harvest
<1>2. flight \in [Worker -> SUBSET Attempt] /\ t \in Attempt
  BY DEF RuntimeInv, LifeTypes
<1>3. /\ UNCHANGED epoch
      /\ status' \in [JobIds -> {"absent", "pending", "leased", "succeeded", "failed",
                                 "cancelled", "superseded"}]
      /\ dropped' \subseteq JobIds \X Nat /\ dropped \subseteq dropped'
      /\ \A j \in JobIds : status'[j] = "leased" =>
           status[j] = "leased" /\ (j = t.job => <<t.job, t.fence>> \in dropped')
  BY <1>2, SettleFacts DEF Harvest
<1>4. /\ flight' \in [Worker -> SUBSET Attempt]
      /\ \A v \in Worker : flight'[v] = IF v = w THEN flight[w] \ {t} ELSE flight[v]
  BY <1>1, <1>2
<1>5. /\ pc' \in [Worker -> {"top", "claim", "harvest"} \cup Ended]
      /\ saw' \in [Worker -> [stopping : BOOLEAN, quota : BOOLEAN]]
      /\ \A v \in Worker : v # w => pc'[v] = pc[v] /\ saw'[v] = saw[v]
      /\ pc'[w] = NextRound(w, flight[w] \ {t})
  <2>1. NextRound(w, flight[w] \ {t}) \in {"top", "done"}
    BY DEF NextRound
  <2>. QED BY <1>1, <2>1, CellFacts DEF Ended
<1>6. LifeTypes' /\ RuntimeTypeOK'
  BY <1>1, <1>3, <1>4, <1>5 DEF RuntimeInv, LifeTypes, RuntimeTypeOK
<1>7. LeasesFit'
  BY <1>3, <1>4 DEF RuntimeInv, LeasesFit
<1>8. Accounting'
  <2>. SUFFICES ASSUME NEW j \in JobIds, status'[j] = "leased"
                PROVE  Accounted(j)'
    BY DEF Accounting
  <2>1. status[j] = "leased" /\ epoch'[j] = epoch[j]
    BY <1>3
  <2>2. CASE <<j, epoch[j]>> \in dropped
    BY <1>3, <2>1, <2>2 DEF Accounted
  <2>3. CASE \E v \in Worker : \E x \in flight[v] : x.job = j /\ x.fence = epoch[j]
    <3>. PICK v \in Worker : \E x \in flight[v] : x.job = j /\ x.fence = epoch[j]
      BY <2>3
    <3>1. PICK x \in flight[v] : x.job = j /\ x.fence = epoch[j]
      OBVIOUS
    <3>2. CASE x = t
      BY <1>3, <2>1, <3>1, <3>2 DEF Accounted
    <3>3. CASE x # t
      BY <1>4, <2>1, <3>1, <3>3 DEF Accounted
    <3>. QED BY <3>2, <3>3
  <2>. QED BY <2>1, <2>2, <2>3 DEF RuntimeInv, Accounting, Accounted
<1>9. QuotaFits(w)'
  <2>1. IsFiniteSet(flight'[w])
    BY <1>4, FS_RemoveElement DEF RuntimeInv, QuotaFits
  <2>2. pc'[w] \in Ended => flight'[w] = {}
    BY <1>4, <1>5 DEF NextRound, Ended
  <2>3. pc'[w] # "claim"
    BY <1>5 DEF NextRound
  <2>. QED BY <1>1, <2>1, <2>2, <2>3 DEF RuntimeInv, QuotaFits
<1>10. \A v \in Worker : QuotaFits(v)'
  BY <1>1, <1>4, <1>5, <1>9, OthersFit
<1>. QED BY <1>6, <1>7, <1>8, <1>10 DEF RuntimeInv

\* A writer inserts jobs that nobody holds.
LEMMA WriterStep ==
  ASSUME RuntimeInv, WriteStep, UNCHANGED workerVars
  PROVE  RuntimeInv'
<1>1. \/ UNCHANGED <<status, epoch>>
      \/ \E row, keys : Inserted(row, keys)
  BY DEF WriteStep, Begin, Replay, Enqueue, ReplayEnds, Resolve, WriteCommit, WriteCollides,
         WriteReplays, Answer, Abandon, Durable, lifecycleVars
<1>2. /\ UNCHANGED epoch
      /\ status' \in [JobIds -> {"absent", "pending", "leased", "succeeded", "failed",
                                 "cancelled", "superseded"}]
      /\ \A j \in JobIds : status'[j] = "leased" => status[j] = "leased"
  <2>1. CASE UNCHANGED <<status, epoch>>
    BY <2>1 DEF RuntimeInv, LifeTypes
  <2>2. ASSUME NEW row, NEW keys, Inserted(row, keys)
        PROVE  /\ UNCHANGED epoch
               /\ \E new : status' = [j \in JobIds |-> IF j \in new THEN "pending" ELSE status[j]]
    BY <2>2 DEF Inserted
  <2>. QED BY <1>1, <2>1, <2>2 DEF RuntimeInv, LifeTypes
<1>3. UNCHANGED pc /\ UNCHANGED saw /\ UNCHANGED stop /\ UNCHANGED claimed
      /\ UNCHANGED flight /\ UNCHANGED dropped
  BY DEF workerVars
<1>4. LifeTypes' /\ RuntimeTypeOK'
  BY <1>2, <1>3 DEF RuntimeInv, LifeTypes, RuntimeTypeOK
<1>5. \A v \in Worker : QuotaFits(v)'
  BY <1>3, OthersFit
<1>. QED BY <1>2, <1>3, <1>4, <1>5, FlightsRest

LEMMA RuntimeInvStep == RuntimeInv /\ [Next]_vars => RuntimeInv'
<1>. SUFFICES ASSUME RuntimeInv, [Next]_vars PROVE RuntimeInv'
  OBVIOUS
<1>1. CASE WorkerStep
  BY <1>1, RoundStep, TurnStep, ClaimStep, DropStep, FinishStep, HarvestStep
     DEF WorkerStep, Loop, Executors
<1>2. CASE WriteStep /\ UNCHANGED workerVars
  BY <1>2, WriterStep
<1>3. CASE UNCHANGED vars
  BY <1>3 DEF vars, lifecycleVars, workerVars, RuntimeInv, LifeTypes, RuntimeTypeOK,
              LeasesFit, Accounting, Accounted, QuotaFits
<1>. QED BY <1>1, <1>2, <1>3 DEF Next

LEMMA RuntimeInvInit == Init => RuntimeInv
<1>. SUFFICES ASSUME Init PROVE RuntimeInv
  OBVIOUS
<1>1. /\ status = [j \in JobIds |-> "absent"] /\ epoch = [j \in JobIds |-> 0]
      /\ pc = [w \in Worker |-> "top"] /\ saw = [w \in Worker |-> Unseen]
      /\ stop = [w \in Worker |-> FALSE] /\ claimed = [w \in Worker |-> 0]
      /\ flight = [w \in Worker |-> {}] /\ dropped = {}
  BY DEF Init, Start, RuntimeInit
<1>2. LifeTypes
  BY <1>1 DEF LifeTypes
<1>3. RuntimeTypeOK
  BY <1>1 DEF RuntimeTypeOK, Unseen
<1>4. LeasesFit /\ Accounting
  BY <1>1 DEF LeasesFit, Accounting
<1>5. \A w \in Worker : QuotaFits(w)
  BY <1>1, FS_EmptySet, WindowAssumption DEF QuotaFits, Ended
<1>. QED BY <1>2, <1>3, <1>4, <1>5 DEF RuntimeInv

\* For any workers, windows and quotas: the newest lease of a leased job is in
\* one flight, once, or known to be dropped, whatever stops, fails or dies, and
\* max_jobs is exceeded by less than the window (worker.rs Worker::run, settle).
THEOREM LeasesAccounted == Spec => []LeasesAreAccountedFor
<1>1. Spec => []RuntimeInv
  BY RuntimeInvInit, RuntimeInvStep, PTL DEF Spec
<1>2. RuntimeInv => LeasesAreAccountedFor
  <2>. SUFFICES ASSUME RuntimeInv PROVE LeasesAreAccountedFor
    OBVIOUS
  <2>1. \A w, v \in Worker : \A t \in flight[w], u \in flight[v] :
          Lease(t) = Lease(u) => w = v /\ t = u
    BY DEF RuntimeInv, LeasesFit, Lease
  <2>2. \A j \in JobIds : status[j] = "leased" =>
          \/ <<j, epoch[j]>> \in dropped
          \/ \E w \in Worker : \E t \in flight[w] : Lease(t) = <<j, epoch[j]>>
    BY DEF RuntimeInv, Accounting, Accounted, Lease
  <2>3. \A w \in Worker : /\ pc[w] \in Ended => flight[w] = {}
                          /\ claimed[w] < Quota + Concurrency
    BY DEF RuntimeInv, QuotaFits
  <2>4. \A w, v \in Worker : w # v =>
          {Lease(t) : t \in flight[w]} \cap {Lease(t) : t \in flight[v]} = {}
    BY <2>1
  <2>. QED BY <2>1, <2>2, <2>3, <2>4 DEF LeasesAreAccountedFor
<1>. QED BY <1>1, <1>2, PTL
-----------------------------------------------------------------------------
(***************************************************************************)
(* The writers.  A call holds values read in earlier statements: a plan of *)
(* live jobs, a record key, a receipt.  They stay true because a job row   *)
(* never changes its key, a memory never changes its request, and a record *)
(* key belongs to one call.                                                *)
(***************************************************************************)

StateOK == status \in [JobIds -> {"absent", "pending", "leased", "succeeded", "failed",
                                  "cancelled", "superseded"}]

\* What a call has read or done so far is true of the tables.
Fits(k) ==
  /\ k.step # "idle" => k.request \in Requests
  /\ k.step \in {"commit", "answer"} =>
       /\ k.memory \in MemoryId
       /\ DOMAIN k.plan = DOMAIN k.request.intents
       /\ \A i \in DOMAIN k.plan : k.plan[i] # 0 =>
            jobKey[k.plan[i]] = DedupKey(k.request.intents[i], k.memory)
  /\ k.step = "commit" => made[k.memory] = None
  /\ k.step = "answer" => k.receipt = k.memory \/ made[k.memory] = None
  /\ k.step \in {"answer", "replay", "ok"} =>
       k.receipt \in MemoryId /\ made[k.receipt] = k.request
  /\ k.step \in {"replay", "ok"} =>
       /\ Len(k.jobs) <= Len(k.request.intents)
       /\ \A i \in DOMAIN k.jobs :
            jobKey[k.jobs[i]] = DedupKey(k.request.intents[i], k.receipt)
  /\ k.step = "ok" => Len(k.jobs) = Len(k.request.intents)

\* A record key is generated for one call.
KeysApart == \A c, d \in Writer :
  c # d /\ call[c].memory # 0 => call[c].memory # call[d].memory

OneLiveJob == \A j, k \in JobIds :
  status[j] \in Open /\ status[k] \in Open /\ jobKey[j] = jobKey[k] => j = k

WritesInv ==
  /\ WriteTypeOK /\ StateOK
  /\ \A c \in Writer : Fits(call[c])
  /\ KeysApart /\ JobsCommitWithTheirWrite /\ OneLiveJob

\* The requests writers make, and their intents, are well formed.
LEMMA RequestFacts ==
  /\ None \notin Requests /\ None \notin Intent /\ None \notin Key
  /\ 0 \notin MemoryId /\ 0 \notin JobIds
  /\ \A r \in Requests : /\ r.key \in Key \cup {None} /\ r.intents \in Seq(Intent)
                         /\ DOMAIN r.intents = 1..Len(r.intents) /\ Len(r.intents) \in Nat
                         /\ \A i \in DOMAIN r.intents : r.intents[i] \in Intent
<1>1. \A r \in Requests : r \in Request
  BY RequestAssumption DEF Requests
<1>2. \A r \in Requests : r.key \in Key \cup {None} /\ r.intents \in Seq(Intent)
  BY <1>1 DEF Request
<1>3. \A s \in Seq(Intent) : /\ DOMAIN s = 1..Len(s) /\ Len(s) \in Nat
                             /\ \A i \in DOMAIN s : s[i] \in Intent
  OBVIOUS
<1>. QED BY <1>2, <1>3, RequestAssumption DEF MemoryId

\* A deduplication key is that of an intent, and never the blank one.
LEMMA DedupFacts ==
  ASSUME NEW i \in Intent, NEW m \in {0} \cup MemoryId
  PROVE  /\ DedupKey(i, m) \in Intent \X ({0} \cup MemoryId)
         /\ DedupKey(i, m) # NoKey /\ DedupKey(i, m)[1] = i
         /\ DedupKey(i, m)[2] \in {0, m}
BY RequestFacts DEF DedupKey, NoKey

LEMMA NotBlank == \A i \in Intent : \A m : DedupKey(i, m) # NoKey
BY RequestFacts DEF DedupKey, NoKey

\* The step of one writer leaves the calls of the others alone.
LEMMA TellFacts ==
  ASSUME WritesInv, NEW c \in Writer, NEW k \in Call, Tell(c, k)
  PROVE  /\ call' \in [Writer -> Call] /\ call'[c] = k
         /\ \A d \in Writer : d # c => call'[d] = call[d]
BY DEF WritesInv, WriteTypeOK, Tell

\* A step that only moves one call, to a state that fits.
LEMMA CallStep ==
  ASSUME WritesInv, NEW c \in Writer, NEW k \in Call, Tell(c, k), UNCHANGED Durable,
         Fits(k),
         \A d \in Writer : d # c /\ k.memory # 0 => call[d].memory # k.memory
  PROVE  WritesInv'
<1>1. /\ UNCHANGED made /\ UNCHANGED slots /\ UNCHANGED jobKey /\ UNCHANGED status
  BY DEF Durable, lifecycleVars
<1>2. /\ call' \in [Writer -> Call] /\ call'[c] = k
      /\ \A d \in Writer : d # c => call'[d] = call[d]
  BY TellFacts
<1>3. WriteTypeOK' /\ StateOK' /\ JobsCommitWithTheirWrite' /\ OneLiveJob'
  BY <1>1, <1>2 DEF WritesInv, WriteTypeOK, StateOK, JobsCommitWithTheirWrite, OneLiveJob
<1>4. Fits(k)' 
  BY <1>1 DEF Fits
<1>5. \A d \in Writer : Fits(call[d])'
  <2>1. \A d \in Writer : d # c => Fits(call[d])'
    BY <1>1, <1>2 DEF WritesInv, Fits
  <2>2. Fits(call[c])'
    BY <1>1, <1>2 DEF Fits
  <2>. QED BY <2>1, <2>2
<1>6. KeysApart'
  BY <1>2 DEF WritesInv, KeysApart
<1>. QED BY <1>3, <1>5, <1>6 DEF WritesInv

\* A call that is over, or that has just started.
LEMMA NoCallFacts ==
  ASSUME WritesInv
  PROVE  /\ NoCall \in Call /\ Fits(NoCall) /\ NoCall.memory = 0
         /\ NoCall.jobs = <<>>
         /\ \A r \in Requests : LET k == [NoCall EXCEPT !.step = "resolve", !.request = r]
                                IN  k \in Call /\ Fits(k) /\ k.memory = 0
<1>1. <<>> \in Seq({0} \cup JobIds) /\ <<>> \in Seq(JobIds)
  OBVIOUS
<1>2. /\ NoCall \in Call /\ Fits(NoCall) /\ NoCall.memory = 0
      /\ NoCall.jobs = <<>>
  BY <1>1 DEF NoCall, Call, Fits
<1>3. ASSUME NEW r \in Requests
      PROVE  LET k == [NoCall EXCEPT !.step = "resolve", !.request = r]
             IN  k \in Call /\ Fits(k) /\ k.memory = 0
  <2>. DEFINE k == [NoCall EXCEPT !.step = "resolve", !.request = r]
  <2>1. k \in Call
    BY <1>2 DEF Call
  <2>2. k.step = "resolve" /\ k.request = r /\ k.memory = 0
    BY <1>2 DEF Call
  <2>3. Fits(k) /\ k.memory = 0
    BY <2>2 DEF Fits
  <2>. QED BY <2>1, <2>3
<1>. QED BY <1>2, <1>3

\* A receipt is only answered to the request it was written for.
LEMMA ReceiptFacts ==
  ASSUME WritesInv, NEW r \in Requests, r.key # None, SlotTaken(r.key)
  PROVE  Receipt(r) \in Call /\ Fits(Receipt(r)) /\ Receipt(r).memory = 0
<1>. DEFINE m == slots[r.key]
            k == [NoCall EXCEPT !.step = "replay", !.request = r, !.receipt = m]
<1>1. m \in MemoryId
  BY RequestFacts DEF SlotTaken, WritesInv, WriteTypeOK
<1>2. CASE made[m] = r
  <2>1. k \in Call
    BY <1>1, NoCallFacts DEF Call
  <2>2. /\ k.step = "replay" /\ k.request = r /\ k.memory = 0 /\ k.receipt = m
        /\ k.jobs = <<>>
    BY NoCallFacts DEF Call
  <2>3. Len(k.jobs) = 0 /\ DOMAIN k.jobs = {}
    BY <2>2
  <2>4. Fits(k) /\ k.memory = 0
    BY <1>1, <1>2, <2>2, <2>3, RequestFacts DEF Fits
  <2>. QED BY <1>2, <2>1, <2>4 DEF Receipt
<1>3. CASE made[m] # r
  BY <1>3, NoCallFacts DEF Receipt
<1>. QED BY <1>2, <1>3

LEMMA BeginStep ==
  ASSUME WritesInv, NEW c \in Writer, NEW r \in Asks[c], Begin(c, r)
  PROVE  WritesInv'
<1>1. r \in Requests
  BY DEF Requests
<1>. DEFINE k == IF r.key # None /\ SlotTaken(r.key) THEN Receipt(r)
                 ELSE [NoCall EXCEPT !.step = "resolve", !.request = r]
<1>2. Tell(c, k) /\ UNCHANGED Durable
  BY DEF Begin
<1>3. k \in Call /\ Fits(k) /\ k.memory = 0
  BY <1>1, NoCallFacts, ReceiptFacts
<1>. HIDE DEF k
<1>. QED BY <1>2, <1>3, CallStep

\* A call that gives up.
LEMMA GiveUpStep ==
  ASSUME WritesInv, NEW c \in Writer, Tell(c, NoCall), UNCHANGED Durable
  PROVE  WritesInv'
BY NoCallFacts, CallStep

\* The whole of a call in flight.
LEMMA CallFacts ==
  ASSUME WritesInv, NEW c \in Writer
  PROVE  /\ call[c] \in Call /\ Fits(call[c])
         /\ call[c].step \in {"idle", "resolve", "commit", "answer", "replay", "ok"}
         /\ call[c].request \in Requests \cup {None} /\ call[c].attempt \in 1..2
         /\ call[c].memory \in {0} \cup MemoryId /\ call[c].receipt \in {0} \cup MemoryId
         /\ call[c].plan \in Seq({0} \cup JobIds) /\ call[c].jobs \in Seq(JobIds)
         /\ call[c].step # "idle" => call[c].request \in Requests
<1>1. call[c] \in Call /\ Fits(call[c])
  BY DEF WritesInv, WriteTypeOK
<1>2. \A k \in Call :
        /\ k.step \in {"idle", "resolve", "commit", "answer", "replay", "ok"}
        /\ k.request \in Requests \cup {None} /\ k.attempt \in 1..2
        /\ k.memory \in {0} \cup MemoryId /\ k.receipt \in {0} \cup MemoryId
        /\ k.plan \in Seq({0} \cup JobIds) /\ k.jobs \in Seq(JobIds)
  BY DEF Call
<1>3. call[c].step # "idle" => call[c].request \in Requests
  BY <1>1 DEF Fits
<1>. QED BY <1>1, <1>2, <1>3

\* An answer that reports success.
LEMMA SuccessFits ==
  ASSUME WritesInv, NEW r \in Requests, NEW m \in MemoryId, NEW jobs \in Seq(JobIds),
         made[m] = r, Len(jobs) = Len(r.intents),
         \A i \in DOMAIN jobs : jobKey[jobs[i]] = DedupKey(r.intents[i], m)
  PROVE  /\ Success(r, m, jobs) \in Call /\ Fits(Success(r, m, jobs))
         /\ Success(r, m, jobs).memory = 0
<1>. DEFINE k == [NoCall EXCEPT !.step = "ok", !.request = r, !.receipt = m, !.jobs = jobs]
<1>1. k \in Call
  BY NoCallFacts DEF Call
<1>2. /\ k.step = "ok" /\ k.request = r /\ k.memory = 0 /\ k.receipt = m
      /\ k.jobs = jobs
  BY NoCallFacts DEF Call
<1>3. Len(r.intents) <= Len(r.intents)
  BY RequestFacts
<1>. QED BY <1>1, <1>2, <1>3 DEF Fits, Success

LEMMA ReplayEndsStep ==
  ASSUME WritesInv, NEW c \in Writer, ReplayEnds(c)
  PROVE  WritesInv'
<1>1. /\ call[c].step = "replay" /\ Len(call[c].jobs) = Len(call[c].request.intents)
      /\ Tell(c, Success(call[c].request, call[c].receipt, call[c].jobs))
      /\ UNCHANGED Durable
  BY DEF ReplayEnds
<1>2. /\ call[c].request \in Requests /\ call[c].jobs \in Seq(JobIds)
      /\ call[c].receipt \in MemoryId /\ made[call[c].receipt] = call[c].request
      /\ \A i \in DOMAIN call[c].jobs :
           jobKey[call[c].jobs[i]] = DedupKey(call[c].request.intents[i], call[c].receipt)
  BY <1>1, CallFacts DEF Fits
<1>3. LET k == Success(call[c].request, call[c].receipt, call[c].jobs)
      IN  k \in Call /\ Fits(k) /\ k.memory = 0
  BY <1>1, <1>2, SuccessFits
<1>. QED BY <1>1, <1>3, CallStep

\* The plan names live jobs of the intents, for a record key of its own.
LEMMA ResolveStep ==
  ASSUME WritesInv, NEW c \in Writer, Resolve(c)
  PROVE  WritesInv'
<1>. DEFINE r == call[c].request
            k(m, plan) == [call[c] EXCEPT !.step = "commit", !.memory = m, !.plan = plan]
<1>1. PICK m \in MemoryId, plan \in [DOMAIN r.intents -> {0} \cup JobIds] :
        /\ IsNewMemory(m)
        /\ \A i \in DOMAIN r.intents :
             LET live == LiveJobs(DedupKey(r.intents[i], m)) IN
             IF live = {} THEN plan[i] = 0 ELSE plan[i] \in live
        /\ Tell(c, k(m, plan))
  BY DEF Resolve
<1>2. call[c].step = "resolve" /\ UNCHANGED Durable
  BY DEF Resolve
<1>3. r \in Requests /\ DOMAIN r.intents = 1..Len(r.intents) /\ Len(r.intents) \in Nat
  BY <1>2, CallFacts, RequestFacts
<1>4. plan \in Seq({0} \cup JobIds) /\ DOMAIN plan = DOMAIN r.intents
  BY <1>3, SeqDef
<1>5. /\ k(m, plan).step = "commit" /\ k(m, plan).request = r
      /\ k(m, plan).memory = m /\ k(m, plan).plan = plan
  BY CallFacts DEF Call
<1>6. k(m, plan) \in Call
  BY <1>4, CallFacts DEF Call
<1>7. \A i \in DOMAIN plan : plan[i] # 0 => jobKey[plan[i]] = DedupKey(r.intents[i], m)
  BY <1>1, <1>4 DEF LiveJobs
<1>8. made[m] = None /\ \A d \in Writer : call[d].memory # m
  BY <1>1 DEF IsNewMemory
<1>9. Fits(k(m, plan))
  BY <1>3, <1>4, <1>5, <1>7, <1>8 DEF Fits
<1>10. k(m, plan).memory = m
  BY <1>5
<1>. HIDE DEF k
<1>. QED BY <1>1, <1>2, <1>6, <1>8, <1>9, <1>10, CallStep

\* A collision resolves again once, under a new record key.
LEMMA CollidesStep ==
  ASSUME WritesInv, NEW c \in Writer, WriteCollides(c)
  PROVE  WritesInv'
<1>. DEFINE k == [call[c] EXCEPT !.step = "resolve", !.attempt = 2,
                                 !.memory = 0, !.plan = <<>>]
<1>1. call[c].step = "commit" /\ UNCHANGED Durable /\ (Tell(c, k) \/ Tell(c, NoCall))
  BY DEF WriteCollides
<1>2. k.step = "resolve" /\ k.request = call[c].request /\ k.memory = 0
  BY CallFacts DEF Call
<1>3. <<>> \in Seq({0} \cup JobIds) /\ 2 \in 1..2
  OBVIOUS
<1>4. k \in Call
  <2>1. call[c] \in Call /\ 0 \in {0} \cup MemoryId
    BY CallFacts
  <2>. QED BY <1>3, <2>1 DEF Call
<1>5. Fits(k) /\ k.memory = 0
  BY <1>1, <1>2, CallFacts DEF Fits
<1>. HIDE DEF k
<1>. QED BY <1>1, <1>4, <1>5, CallStep, GiveUpStep

\* The key was claimed in between: the record of this attempt was not written,
\* the receipt's was, for the same request.
LEMMA ReplaysStep ==
  ASSUME WritesInv, NEW c \in Writer, WriteReplays(c)
  PROVE  WritesInv'
<1>. DEFINE m == slots[call[c].request.key]
            k == [call[c] EXCEPT !.step = "answer", !.receipt = m]
<1>1. /\ call[c].step = "commit" /\ Keyed(c) /\ SlotTaken(call[c].request.key)
      /\ UNCHANGED Durable
      /\ \/ made[m] = call[c].request /\ Tell(c, k)
         \/ Tell(c, NoCall)
  BY DEF WriteReplays
<1>2. /\ k.step = "answer" /\ k.request = call[c].request /\ k.receipt = m
      /\ k.memory = call[c].memory /\ k.plan = call[c].plan
  BY CallFacts DEF Call
<1>3. call[c].request \in Requests /\ call[c].request.key \in Key
  BY <1>1, CallFacts, RequestFacts DEF Keyed
<1>4. m \in MemoryId
  BY <1>1, <1>3 DEF SlotTaken, WritesInv, WriteTypeOK
<1>5. k \in Call
  BY <1>4, CallFacts DEF Call
<1>6. ASSUME made[m] = call[c].request
      PROVE  Fits(k)
  BY <1>1, <1>2, <1>3, <1>4, <1>6, CallFacts DEF Fits
<1>7. k.memory = call[c].memory
  BY <1>2
<1>8. \A d \in Writer : d # c /\ k.memory # 0 => call[d].memory # k.memory
  BY <1>7 DEF WritesInv, KeysApart
<1>. HIDE DEF k, m
<1>. QED BY <1>1, <1>5, <1>6, <1>8, CallStep, GiveUpStep

\* The jobs an answer names carry the keys of the intents for the memory it
\* names, also when that is another call's: no job is pinned to a record that
\* was not written.
LEMMA AnswerStep ==
  ASSUME WritesInv, NEW c \in Writer, Answer(c)
  PROVE  WritesInv'
<1>. DEFINE r == call[c].request
            found == Outcomes(c)
<1>1. call[c].step = "answer" /\ UNCHANGED Durable
  BY DEF Answer
<1>2. CASE Tell(c, NoCall)
  BY <1>1, <1>2, GiveUpStep
<1>3. ASSUME NEW jobs \in [DOMAIN found -> JobIds],
             \A i \in DOMAIN found : jobs[i] \in found[i],
             Tell(c, Success(r, call[c].receipt, jobs))
      PROVE  WritesInv'
  <2>1. /\ r \in Requests /\ call[c].receipt \in MemoryId /\ made[call[c].receipt] = r
        /\ call[c].memory \in MemoryId /\ DOMAIN call[c].plan = DOMAIN r.intents
        /\ call[c].receipt = call[c].memory \/ made[call[c].memory] = None
        /\ \A i \in DOMAIN call[c].plan : call[c].plan[i] # 0 =>
             jobKey[call[c].plan[i]] = DedupKey(r.intents[i], call[c].memory)
    BY <1>1, CallFacts DEF Fits
  <2>2. DOMAIN found = DOMAIN r.intents
    BY <2>1 DEF Outcomes
  <2>3. /\ DOMAIN r.intents = 1..Len(r.intents) /\ Len(r.intents) \in Nat
        /\ \A i \in DOMAIN r.intents : r.intents[i] \in Intent
    BY <2>1, RequestFacts
  <2>4. jobs \in Seq(JobIds) /\ Len(jobs) = Len(r.intents) /\ DOMAIN jobs = DOMAIN r.intents
    BY <2>2, <2>3, SeqDef
  <2>5. ASSUME NEW i \in DOMAIN jobs
        PROVE  jobKey[jobs[i]] = DedupKey(r.intents[i], call[c].receipt)
    <3>1. jobs[i] \in JobIds /\ jobs[i] \in found[i] /\ i \in DOMAIN call[c].plan
      BY <1>3, <2>1, <2>2, <2>4
    <3>2. jobKey[jobs[i]] = DedupKey(r.intents[i], call[c].memory)
      <4>1. CASE call[c].plan[i] # 0
        BY <2>1, <3>1, <4>1 DEF Outcomes
      <4>2. CASE call[c].plan[i] = 0
        BY <3>1, <4>2 DEF Outcomes, LiveJobs
      <4>. QED BY <4>1, <4>2
    <3>3. CASE call[c].receipt = call[c].memory
      BY <3>2, <3>3
    <3>4. CASE made[call[c].memory] = None
      <4>1. jobKey[jobs[i]][2] # call[c].memory
        BY <2>1, <3>1, <3>4, RequestFacts DEF WritesInv, JobsCommitWithTheirWrite
      <4>2. r.intents[i] \notin SelfIntent
        BY <3>2, <4>1 DEF DedupKey
      <4>. QED BY <3>2, <4>2 DEF DedupKey
    <3>. QED BY <2>1, <3>3, <3>4
  <2>6. LET k == Success(r, call[c].receipt, jobs) IN k \in Call /\ Fits(k) /\ k.memory = 0
    BY <2>1, <2>4, <2>5, SuccessFits
  <2>. QED BY <1>1, <1>3, <2>6, CallStep
<1>. QED BY <1>2, <1>3 DEF Answer

\* What a commit of rows with free keys does to the job table: each row takes
\* its key, no key that was there moves, and still one live job has a key.
LEMMA InsertFacts ==
  ASSUME WritesInv, NEW positions \in SUBSET Nat, NEW row \in NewJobs(positions),
         NEW keys \in [positions -> Intent \X ({0} \cup MemoryId)],
         KeysAreFree(keys), Inserted(row, keys)
  PROVE  /\ StateOK' /\ jobKey' \in [JobIds -> (Intent \cup {None}) \X ({0} \cup MemoryId)]
         /\ \A p \in positions : row[p] \in JobIds /\ jobKey'[row[p]] = keys[p]
         /\ \A j \in JobIds : jobKey[j] # NoKey => jobKey'[j] = jobKey[j]
         /\ \A j \in JobIds : jobKey'[j] = jobKey[j] \/ \E p \in positions : jobKey'[j] = keys[p]
         /\ \A j \in JobIds : status'[j] = "absent" <=> jobKey'[j] = NoKey
         /\ OneLiveJob'
<1>. DEFINE new == {row[p] : p \in positions}
            key(j) == keys[CHOOSE p \in positions : row[p] = j]
<1>1. /\ status' = [j \in JobIds |-> IF j \in new THEN "pending" ELSE status[j]]
      /\ jobKey' = [j \in JobIds |-> IF j \in new THEN key(j) ELSE jobKey[j]]
  BY DEF Inserted
<1>2. /\ \A p \in positions : row[p] \in JobIds /\ status[row[p]] = "absent"
      /\ \A p, q \in positions : p < q => row[p] < row[q]
  BY DEF NewJobs, IsFree
<1>3. \A p, q \in positions : row[p] = row[q] => p = q
  <2>. SUFFICES ASSUME NEW p \in positions, NEW q \in positions, p # q
                PROVE  row[p] # row[q]
    OBVIOUS
  <2>1. p \in Nat /\ q \in Nat /\ row[p] \in Nat /\ row[q] \in Nat
    BY <1>2, RequestAssumption
  <2>2. p < q \/ q < p
    BY <2>1
  <2>. QED BY <1>2, <2>1, <2>2
<1>4. \A p \in positions : key(row[p]) = keys[p]
  BY <1>3
<1>5. \A j \in new : key(j) \in Intent \X ({0} \cup MemoryId)
  BY <1>4
<1>. HIDE DEF key
<1>6. \A x \in Intent \X ({0} \cup MemoryId) :
        x # NoKey /\ x \in (Intent \cup {None}) \X ({0} \cup MemoryId)
  BY RequestFacts DEF NoKey
<1>7. \A j \in JobIds : status[j] = "absent" <=> jobKey[j] = NoKey
  BY DEF WritesInv, JobsCommitWithTheirWrite
<1>8. StateOK'
  BY <1>1 DEF WritesInv, StateOK
<1>9. jobKey' \in [JobIds -> (Intent \cup {None}) \X ({0} \cup MemoryId)]
  BY <1>1, <1>5, <1>6 DEF WritesInv, WriteTypeOK
<1>10. \A p \in positions : jobKey'[row[p]] = keys[p] /\ status'[row[p]] = "pending"
  BY <1>1, <1>2, <1>4
<1>11. \A j \in JobIds : j \notin new => jobKey'[j] = jobKey[j] /\ status'[j] = status[j]
  BY <1>1
<1>12. \A j \in new : jobKey[j] = NoKey /\ jobKey'[j] # NoKey /\ status'[j] = "pending"
  BY <1>2, <1>6, <1>7, <1>10
<1>13. OneLiveJob'
  <2>. SUFFICES ASSUME NEW j \in JobIds, NEW k \in JobIds, status'[j] \in Open,
                       status'[k] \in Open, jobKey'[j] = jobKey'[k]
                PROVE  j = k
    BY DEF OneLiveJob
  <2>1. ASSUME NEW p \in positions, NEW i \in JobIds, i \notin new, status'[i] \in Open
        PROVE  jobKey'[i] # keys[p]
    <3>1. LiveJobs(keys[p]) = {} /\ DOMAIN keys = positions
      BY DEF KeysAreFree
    <3>. QED BY <1>11, <2>1, <3>1 DEF LiveJobs
  <2>2. CASE j \in new /\ k \in new
    <3>1. PICK p \in positions, q \in positions : j = row[p] /\ k = row[q]
      BY <2>2
    <3>2. keys[p] = keys[q]
      BY <1>10, <3>1
    <3>. QED BY <3>1, <3>2 DEF KeysAreFree
  <2>3. CASE j \notin new /\ k \notin new
    BY <1>11, <2>3 DEF WritesInv, OneLiveJob
  <2>4. ASSUME NEW i \in new, NEW n \in JobIds, n \notin new, status'[n] \in Open
        PROVE  jobKey'[i] # jobKey'[n]
    <3>1. PICK p \in positions : i = row[p]
      OBVIOUS
    <3>2. jobKey'[n] # keys[p]
      BY <2>1, <2>4
    <3>. QED BY <1>10, <3>1, <3>2
  <2>5. CASE j \in new /\ k \notin new
    BY <2>4, <2>5
  <2>6. CASE j \notin new /\ k \in new
    BY <2>4, <2>6
  <2>. QED BY <2>2, <2>3, <2>5, <2>6
<1>14. \A j \in JobIds : status'[j] = "absent" <=> jobKey'[j] = NoKey
  BY <1>7, <1>11, <1>12
<1>. QED BY <1>2, <1>8, <1>9, <1>10, <1>11, <1>12, <1>13, <1>14

\* Calls that do not move go on being true of tables that only grow.
LEMMA FitsStays ==
  ASSUME WritesInv, NEW k, Fits(k), k \in Call,
         \A j \in JobIds : jobKey[j] # NoKey => jobKey'[j] = jobKey[j],
         \A m \in MemoryId : made[m] # None => made'[m] = made[m],
         k.step \in {"commit", "answer"} /\ made[k.memory] = None => made'[k.memory] = None
  PROVE  Fits(k)'
<1>1. k.plan \in Seq({0} \cup JobIds) /\ k.jobs \in Seq(JobIds)
  BY DEF Call
<1>2. /\ k.step # "idle" => k.request \in Requests
      /\ \A r \in Requests : r # None
  BY RequestFacts DEF Fits
<1>3. ASSUME k.step \in {"commit", "answer"}, NEW i \in DOMAIN k.plan, k.plan[i] # 0
      PROVE  jobKey'[k.plan[i]] = DedupKey(k.request.intents[i], k.memory)
  <2>1. k.plan[i] \in JobIds
    BY <1>1, <1>3
  <2>2. /\ jobKey[k.plan[i]] = DedupKey(k.request.intents[i], k.memory)
        /\ i \in DOMAIN k.request.intents /\ k.memory \in MemoryId
    BY <1>3 DEF Fits
  <2>3. jobKey[k.plan[i]] # NoKey
    BY <1>2, <1>3, <2>2, RequestFacts, NotBlank
  <2>. QED BY <2>1, <2>2, <2>3
<1>4. ASSUME k.step \in {"replay", "ok"}, NEW i \in DOMAIN k.jobs
      PROVE  jobKey'[k.jobs[i]] = DedupKey(k.request.intents[i], k.receipt)
  <2>1. k.jobs[i] \in JobIds /\ DOMAIN k.jobs = 1..Len(k.jobs) /\ Len(k.jobs) \in Nat
    BY <1>1
  <2>2. /\ jobKey[k.jobs[i]] = DedupKey(k.request.intents[i], k.receipt)
        /\ Len(k.jobs) <= Len(k.request.intents) /\ k.receipt \in MemoryId
    BY <1>4 DEF Fits
  <2>3. k.request \in Requests
    BY <1>2, <1>4
  <2>4. i \in DOMAIN k.request.intents
    BY <2>1, <2>2, <2>3, RequestFacts
  <2>5. jobKey[k.jobs[i]] # NoKey
    BY <2>2, <2>3, <2>4, RequestFacts, NotBlank
  <2>. QED BY <2>1, <2>2, <2>5
<1>5. k.step \in {"answer", "replay", "ok"} => made'[k.receipt] = k.request
  BY <1>2 DEF Fits
<1>. QED BY <1>2, <1>3, <1>4, <1>5 DEF Fits

\* The keys of the rows a commit inserts.
LEMMA NewKeysFacts ==
  ASSUME WritesInv, NEW c \in Writer, call[c].step = "commit"
  PROVE  /\ ToInsert(c) \in SUBSET Nat
         /\ ToInsert(c) = {i \in DOMAIN call[c].request.intents : call[c].plan[i] = 0}
         /\ NewKeys(c) \in [ToInsert(c) -> Intent \X ({0} \cup MemoryId)]
         /\ \A i \in ToInsert(c) :
              /\ NewKeys(c)[i] = DedupKey(call[c].request.intents[i], call[c].memory)
              /\ NewKeys(c)[i][2] \in {0, call[c].memory}
<1>1. /\ call[c].request \in Requests /\ call[c].memory \in MemoryId
      /\ DOMAIN call[c].plan = DOMAIN call[c].request.intents
  BY CallFacts DEF Fits
<1>2. /\ DOMAIN call[c].request.intents \in SUBSET Nat
      /\ \A i \in DOMAIN call[c].request.intents : call[c].request.intents[i] \in Intent
  BY <1>1, RequestFacts
<1>3. ToInsert(c) = {i \in DOMAIN call[c].request.intents : call[c].plan[i] = 0}
  BY <1>1 DEF ToInsert
<1>4. \A i \in ToInsert(c) :
        /\ DedupKey(call[c].request.intents[i], call[c].memory) \in Intent \X ({0} \cup MemoryId)
        /\ DedupKey(call[c].request.intents[i], call[c].memory)[2] \in {0, call[c].memory}
  BY <1>1, <1>2, <1>3, DedupFacts
<1>. QED BY <1>2, <1>3, <1>4 DEF NewKeys

\* The memory, its receipt, its slot and its jobs commit together.
LEMMA CommitStep ==
  ASSUME WritesInv, NEW c \in Writer, WriteCommit(c)
  PROVE  WritesInv'
<1>. DEFINE r == call[c].request
            m == call[c].memory
            k == [call[c] EXCEPT !.step = "answer", !.receipt = m]
<1>1. /\ call[c].step = "commit" /\ (Keyed(c) => ~SlotTaken(r.key))
      /\ KeysAreFree(NewKeys(c))
      /\ made' = [made EXCEPT ![m] = r]
      /\ slots' = IF Keyed(c) THEN [slots EXCEPT ![r.key] = m] ELSE slots
      /\ Tell(c, k)
  BY DEF WriteCommit
<1>2. PICK row \in NewJobs(ToInsert(c)) : Inserted(row, NewKeys(c))
  BY DEF WriteCommit
<1>3. /\ r \in Requests /\ m \in MemoryId /\ made[m] = None /\ r # None
      /\ DOMAIN call[c].plan = DOMAIN r.intents
      /\ \A i \in DOMAIN r.intents : call[c].plan[i] # 0 =>
           jobKey[call[c].plan[i]] = DedupKey(r.intents[i], m)
  BY <1>1, CallFacts, RequestFacts DEF Fits
<1>4. /\ k.step = "answer" /\ k.request = r /\ k.receipt = m
      /\ k.memory = m /\ k.plan = call[c].plan
  BY CallFacts DEF Call
<1>5. k \in Call
  BY <1>3, CallFacts DEF Call
<1>. HIDE DEF k
<1>6. /\ call' \in [Writer -> Call] /\ call'[c] = k
      /\ \A d \in Writer : d # c => call'[d] = call[d]
  BY <1>1, <1>5, TellFacts
<1>7. /\ StateOK' /\ jobKey' \in [JobIds -> (Intent \cup {None}) \X ({0} \cup MemoryId)]
      /\ \A i \in ToInsert(c) : row[i] \in JobIds /\ jobKey'[row[i]] = NewKeys(c)[i]
      /\ \A j \in JobIds : jobKey[j] # NoKey => jobKey'[j] = jobKey[j]
      /\ \A j \in JobIds :
           jobKey'[j] = jobKey[j] \/ \E i \in ToInsert(c) : jobKey'[j] = NewKeys(c)[i]
      /\ \A j \in JobIds : status'[j] = "absent" <=> jobKey'[j] = NoKey
      /\ OneLiveJob'
  BY <1>1, <1>2, InsertFacts, NewKeysFacts
<1>8. /\ made' \in [MemoryId -> Requests \cup {None}] /\ made'[m] = r
      /\ \A n \in MemoryId : n # m => made'[n] = made[n]
  BY <1>1, <1>3 DEF WritesInv, WriteTypeOK
<1>9. r.key \in Key \cup {None}
  BY <1>3, RequestFacts
<1>10. slots' \in [Key -> {0} \cup MemoryId]
  BY <1>1, <1>3, <1>9 DEF WritesInv, WriteTypeOK, Keyed
<1>11. WriteTypeOK'
  BY <1>6, <1>7, <1>8, <1>10 DEF WriteTypeOK
<1>12. \A n \in MemoryId : made[n] # None => made'[n] = made[n]
  BY <1>3, <1>8
<1>13. \A i \in DOMAIN r.intents : \E j \in JobIds : jobKey'[j] = DedupKey(r.intents[i], m)
  <2>. SUFFICES ASSUME NEW i \in DOMAIN r.intents
                PROVE  \E j \in JobIds : jobKey'[j] = DedupKey(r.intents[i], m)
    OBVIOUS
  <2>1. CASE call[c].plan[i] = 0
    <3>1. i \in ToInsert(c)
      BY <1>3, <2>1 DEF ToInsert
    <3>2. NewKeys(c)[i] = DedupKey(r.intents[i], m)
      BY <1>1, <3>1, NewKeysFacts
    <3>. QED BY <1>7, <3>1, <3>2
  <2>2. CASE call[c].plan[i] # 0
    <3>1. call[c].plan[i] \in JobIds
      BY <1>3, <2>2, CallFacts
    <3>2. r.intents[i] \in Intent /\ jobKey[call[c].plan[i]] = DedupKey(r.intents[i], m)
      BY <1>3, <2>2, RequestFacts
    <3>3. jobKey[call[c].plan[i]] # NoKey
      BY <1>3, <3>2, NotBlank
    <3>. QED BY <1>7, <3>1, <3>2, <3>3
  <2>. QED BY <2>1, <2>2
<1>14. \A n \in MemoryId : made'[n] # None =>
         /\ \A i \in DOMAIN made'[n].intents :
              \E j \in JobIds : jobKey'[j] = DedupKey(made'[n].intents[i], n)
         /\ made'[n].key # None => slots'[made'[n].key] = n
  <2>. SUFFICES ASSUME NEW n \in MemoryId, made'[n] # None
                PROVE  /\ \A i \in DOMAIN made'[n].intents :
                            \E j \in JobIds : jobKey'[j] = DedupKey(made'[n].intents[i], n)
                       /\ made'[n].key # None => slots'[made'[n].key] = n
    OBVIOUS
  <2>1. CASE n = m
    <3>1. r.key # None => slots'[r.key] = m
      BY <1>1, <1>9 DEF Keyed, WritesInv, WriteTypeOK
    <3>. QED BY <1>8, <1>13, <2>1, <3>1
  <2>2. CASE n # m
    <3>1. /\ made'[n] = made[n] /\ made[n] # None /\ made[n] \in Requests
      BY <1>8, <2>2 DEF WritesInv, WriteTypeOK
    <3>2. ASSUME NEW i \in DOMAIN made[n].intents
          PROVE  \E j \in JobIds : jobKey'[j] = DedupKey(made[n].intents[i], n)
      <4>1. PICK j \in JobIds : jobKey[j] = DedupKey(made[n].intents[i], n)
        BY <3>1 DEF WritesInv, JobsCommitWithTheirWrite
      <4>2. jobKey[j] # NoKey
        BY <3>1, <4>1, RequestFacts, NotBlank
      <4>. QED BY <1>7, <4>1, <4>2
    <3>3. made[n].key # None => slots[made[n].key] = n /\ made[n].key \in Key
      BY <3>1, RequestFacts DEF WritesInv, JobsCommitWithTheirWrite
    <3>4. made[n].key # None => slots'[made[n].key] = n
      BY <1>1, <3>3, <1>9, RequestFacts DEF Keyed, SlotTaken, WritesInv, WriteTypeOK
    <3>. QED BY <3>1, <3>2, <3>4
  <2>. QED BY <2>1, <2>2
<1>15. \A j \in JobIds : jobKey'[j][2] # 0 => made'[jobKey'[j][2]] # None
  <2>. SUFFICES ASSUME NEW j \in JobIds, jobKey'[j][2] # 0
                PROVE  made'[jobKey'[j][2]] # None
    OBVIOUS
  <2>1. CASE jobKey'[j] = jobKey[j]
    <3>1. jobKey[j][2] \in MemoryId /\ made[jobKey[j][2]] # None
      BY <2>1 DEF WritesInv, WriteTypeOK, JobsCommitWithTheirWrite
    <3>. QED BY <1>12, <2>1, <3>1
  <2>2. CASE \E i \in ToInsert(c) : jobKey'[j] = NewKeys(c)[i]
    <3>1. jobKey'[j][2] = m
      BY <1>1, <2>2, NewKeysFacts
    <3>. QED BY <1>3, <1>8, <3>1
  <2>. QED BY <1>7, <2>1, <2>2
<1>16. JobsCommitWithTheirWrite'
  BY <1>7, <1>14, <1>15 DEF JobsCommitWithTheirWrite
<1>17. Fits(call[c])'
  <2>1. ASSUME NEW i \in DOMAIN k.plan, k.plan[i] # 0
        PROVE  jobKey'[k.plan[i]] = DedupKey(k.request.intents[i], k.memory)
    <3>1. call[c].plan[i] \in JobIds /\ call[c].plan[i] # 0 /\ i \in DOMAIN r.intents
      BY <1>3, <1>4, <2>1, CallFacts
    <3>2. r.intents[i] \in Intent /\ jobKey[call[c].plan[i]] = DedupKey(r.intents[i], m)
      BY <1>3, <3>1, RequestFacts
    <3>3. jobKey[call[c].plan[i]] # NoKey
      BY <1>3, <3>2, NotBlank
    <3>. QED BY <1>4, <1>7, <3>1, <3>2, <3>3
  <2>. QED BY <1>3, <1>4, <1>6, <1>8, <2>1 DEF Fits
<1>18. \A d \in Writer : d # c => Fits(call[d])'
  <2>. SUFFICES ASSUME NEW d \in Writer, d # c
                PROVE  Fits(call[d])'
    OBVIOUS
  <2>1. call'[d] = call[d]
    BY <1>6
  <2>2. call[d].memory # m
    BY <1>3, RequestFacts DEF WritesInv, KeysApart
  <2>3. call[d].step \in {"commit", "answer"} /\ made[call[d].memory] = None
          => made'[call[d].memory] = None
    BY <1>8, <2>2, CallFacts DEF Fits
  <2>4. Fits(call[d]) /\ call[d] \in Call
    BY CallFacts
  <2>5. PICK q : q = call[d]
    OBVIOUS
  <2>6. Fits(q)'
    BY <1>7, <1>12, <2>3, <2>4, <2>5, FitsStays
  <2>. QED BY <2>1, <2>5, <2>6 DEF Fits
<1>19. \A d \in Writer : Fits(call[d])'
  BY <1>17, <1>18
<1>20. KeysApart'
  BY <1>4, <1>6 DEF WritesInv, KeysApart
<1>. QED BY <1>7, <1>11, <1>16, <1>19, <1>20 DEF WritesInv

\* A replay enqueues one more intent, or finds the job that holds its slot.
LEMMA ReplayStep ==
  ASSUME WritesInv, NEW c \in Writer, Replay(c)
  PROVE  WritesInv'
<1>. DEFINE r == call[c].request
            m == call[c].receipt
            n == Len(call[c].jobs) + 1
            key == DedupKey(r.intents[n], m)
            k(j) == [call[c] EXCEPT !.jobs = Append(call[c].jobs, j)]
<1>1. /\ call[c].step = "replay" /\ Len(call[c].jobs) < Len(r.intents)
      /\ Enqueue(c, key) /\ UNCHANGED made /\ UNCHANGED slots
  BY DEF Replay
<1>2. /\ r \in Requests /\ m \in MemoryId /\ made[m] = r /\ r # None
      /\ call[c].jobs \in Seq(JobIds) /\ Len(call[c].jobs) \in Nat
      /\ \A i \in DOMAIN call[c].jobs : jobKey[call[c].jobs[i]] = DedupKey(r.intents[i], m)
  BY <1>1, CallFacts, RequestFacts DEF Fits
<1>3. n \in DOMAIN r.intents /\ r.intents[n] \in Intent /\ n <= Len(r.intents)
  BY <1>1, <1>2, RequestFacts
<1>4. key \in Intent \X ({0} \cup MemoryId) /\ key[2] \in {0, m} /\ key # NoKey
  <2>1. PICK i \in Intent : i = r.intents[n]
    BY <1>3
  <2>2. m \in {0} \cup MemoryId /\ key = DedupKey(i, m)
    BY <1>2, <2>1
  <2>3. /\ DedupKey(i, m) \in Intent \X ({0} \cup MemoryId)
        /\ DedupKey(i, m)[2] \in {0, m} /\ DedupKey(i, m) # NoKey
    BY <2>2, DedupFacts
  <2>. QED BY <2>2, <2>3
<1>5. ASSUME NEW j \in JobIds
      PROVE  /\ k(j) \in Call /\ k(j).step = "replay" /\ k(j).request = r
             /\ k(j).receipt = m /\ k(j).memory = call[c].memory
             /\ k(j).jobs = Append(call[c].jobs, j)
             /\ Len(k(j).jobs) = n /\ DOMAIN k(j).jobs = 1..n
             /\ k(j).jobs[n] = j
             /\ \A i \in DOMAIN call[c].jobs : k(j).jobs[i] = call[c].jobs[i]
  <2>1. Append(call[c].jobs, j) \in Seq(JobIds)
    BY <1>2
  <2>2. /\ k(j) \in Call /\ k(j).step = "replay" /\ k(j).request = r
        /\ k(j).receipt = m /\ k(j).memory = call[c].memory
        /\ k(j).jobs = Append(call[c].jobs, j)
    BY <1>1, <2>1, CallFacts DEF Call
  <2>. QED BY <1>2, <2>2
<1>6. \A i \in 1..n : i = n \/ i \in DOMAIN call[c].jobs
  BY <1>2
<1>. HIDE DEF k, key
<1>7. CASE \E j \in LiveJobs(key) : Tell(c, k(j)) /\ UNCHANGED <<jobKey, lifecycleVars>>
  <2>. PICK j \in LiveJobs(key) : Tell(c, k(j)) /\ UNCHANGED <<jobKey, lifecycleVars>>
    BY <1>7
  <2>1. j \in JobIds /\ jobKey[j] = key
    BY DEF LiveJobs
  <2>2. UNCHANGED Durable
    BY <1>1 DEF Durable
  <2>3. \A i \in 1..n : jobKey[k(j).jobs[i]] = DedupKey(r.intents[i], m)
    BY <1>2, <1>5, <1>6, <2>1 DEF key
  <2>4. Fits(k(j))
    BY <1>2, <1>3, <1>5, <2>1, <2>3 DEF Fits
  <2>5. \A d \in Writer : d # c /\ k(j).memory # 0 => call[d].memory # k(j).memory
    BY <1>5, <2>1 DEF WritesInv, KeysApart
  <2>. QED BY <1>5, <2>1, <2>2, <2>4, <2>5, CallStep
<1>8. CASE \E row \in NewJobs({1}) : /\ LiveJobs(key) = {} /\ Inserted(row, <<key>>)
                                     /\ Tell(c, k(row[1]))
  <2>. PICK row \in NewJobs({1}) : /\ LiveJobs(key) = {} /\ Inserted(row, <<key>>)
                                   /\ Tell(c, k(row[1]))
    BY <1>8
  <2>. DEFINE keys == <<key>>
  <2>1. keys \in [{1} -> Intent \X ({0} \cup MemoryId)] /\ keys[1] = key /\ DOMAIN keys = {1}
    BY <1>4
  <2>2. KeysAreFree(keys)
    BY <2>1 DEF KeysAreFree
  <2>. HIDE DEF keys
  <2>3. /\ StateOK' /\ jobKey' \in [JobIds -> (Intent \cup {None}) \X ({0} \cup MemoryId)]
        /\ row[1] \in JobIds /\ jobKey'[row[1]] = key
        /\ \A j \in JobIds : jobKey[j] # NoKey => jobKey'[j] = jobKey[j]
        /\ \A j \in JobIds : jobKey'[j] = jobKey[j] \/ jobKey'[j] = key
        /\ \A j \in JobIds : status'[j] = "absent" <=> jobKey'[j] = NoKey
        /\ OneLiveJob'
    <3>1. Inserted(row, keys) /\ {1} \in SUBSET Nat
      BY DEF keys
    <3>. QED BY <2>1, <2>2, <3>1, InsertFacts
  <2>4. /\ call' \in [Writer -> Call] /\ call'[c] = k(row[1])
        /\ \A d \in Writer : d # c => call'[d] = call[d]
    BY <1>5, <2>3, TellFacts
  <2>5. WriteTypeOK'
    BY <1>1, <2>3, <2>4 DEF WritesInv, WriteTypeOK
  <2>6. JobsCommitWithTheirWrite'
    <3>1. ASSUME NEW x \in MemoryId, made[x] # None
          PROVE  /\ \A i \in DOMAIN made[x].intents :
                      \E j \in JobIds : jobKey'[j] = DedupKey(made[x].intents[i], x)
                 /\ made[x].key # None => slots[made[x].key] = x
      <4>1. made[x] \in Requests
        BY <3>1 DEF WritesInv, WriteTypeOK
      <4>2. ASSUME NEW i \in DOMAIN made[x].intents
            PROVE  \E j \in JobIds : jobKey'[j] = DedupKey(made[x].intents[i], x)
        <5>1. PICK j \in JobIds : jobKey[j] = DedupKey(made[x].intents[i], x)
          BY <3>1 DEF WritesInv, JobsCommitWithTheirWrite
        <5>2. jobKey[j] # NoKey
          BY <4>1, <5>1, RequestFacts, NotBlank
        <5>. QED BY <2>3, <5>1, <5>2
      <4>. QED BY <3>1, <4>2 DEF WritesInv, JobsCommitWithTheirWrite
    <3>2. ASSUME NEW j \in JobIds, jobKey'[j][2] # 0
          PROVE  made[jobKey'[j][2]] # None
      BY <1>2, <1>4, <2>3, <3>2 DEF WritesInv, JobsCommitWithTheirWrite
    <3>. QED BY <1>1, <2>3, <3>1, <3>2 DEF JobsCommitWithTheirWrite
  <2>7. Fits(call[c])'
    <3>1. ASSUME NEW i \in 1..n
          PROVE  jobKey'[k(row[1]).jobs[i]] = DedupKey(r.intents[i], m)
      <4>1. CASE i = n
        BY <1>5, <2>3, <4>1 DEF key
      <4>2. CASE i \in DOMAIN call[c].jobs
        <5>1. /\ jobKey[call[c].jobs[i]] = DedupKey(r.intents[i], m)
              /\ call[c].jobs[i] \in JobIds /\ k(row[1]).jobs[i] = call[c].jobs[i]
          BY <1>2, <1>5, <2>3, <4>2
        <5>2. i \in DOMAIN r.intents
          BY <1>2, <1>3, <3>1, RequestFacts
        <5>3. jobKey[call[c].jobs[i]] # NoKey
          BY <1>2, <5>1, <5>2, RequestFacts, NotBlank
        <5>. QED BY <2>3, <5>1, <5>3
      <4>. QED BY <1>6, <4>1, <4>2
    <3>2. /\ call'[c].step = "replay" /\ call'[c].request = r /\ call'[c].receipt = m
          /\ Len(call'[c].jobs) = n /\ DOMAIN call'[c].jobs = 1..n
          /\ \A i \in 1..n : jobKey'[call'[c].jobs[i]] = DedupKey(r.intents[i], m)
      BY <1>5, <2>3, <2>4, <3>1
    <3>3. made'[m] = r
      BY <1>1, <1>2
    <3>. QED BY <1>2, <1>3, <3>2, <3>3 DEF Fits
  <2>8. ASSUME NEW d \in Writer, d # c
        PROVE  Fits(call[d])'
    <3>1. call'[d] = call[d] /\ Fits(call[d]) /\ call[d] \in Call
      BY <2>4, <2>8, CallFacts
    <3>2. /\ \A x \in MemoryId : made[x] # None => made'[x] = made[x]
          /\ made[call[d].memory] = None => made'[call[d].memory] = None
      BY <1>1
    <3>3. \A j \in JobIds : jobKey[j] # NoKey => jobKey'[j] = jobKey[j]
      BY <2>3
    <3>4. PICK q : q = call[d]
      OBVIOUS
    <3>5. Fits(q)'
      BY <3>1, <3>2, <3>3, <3>4, FitsStays
    <3>. QED BY <3>1, <3>4, <3>5 DEF Fits
  <2>9. KeysApart'
    BY <1>5, <2>3, <2>4 DEF WritesInv, KeysApart
  <2>10. \A d \in Writer : Fits(call[d])'
    BY <2>7, <2>8
  <2>. QED BY <2>3, <2>5, <2>6, <2>9, <2>10 DEF WritesInv
<1>. QED BY <1>1, <1>7, <1>8 DEF Enqueue, k

\* The workers move jobs that exist, never reopen one, and never touch a key.
LEMMA WorkersStep ==
  ASSUME WritesInv, RuntimeInv, WorkerStep, UNCHANGED writeVars
  PROVE  WritesInv'
<1>1. UNCHANGED made /\ UNCHANGED slots /\ UNCHANGED jobKey /\ UNCHANGED call
  BY DEF writeVars
<1>2. status \in [JobIds -> {"absent", "pending", "leased", "succeeded", "failed",
                             "cancelled", "superseded"}]
  BY DEF WritesInv, StateOK
<1>3. \/ UNCHANGED status
      \/ \E j \in JobIds : \E s \in {"pending", "leased", "succeeded", "failed"} :
           status[j] \in Open /\ status' = [status EXCEPT ![j] = s]
  <2>1. ASSUME NEW w \in Worker, NEW j \in JobIds, Claim(w, j)
        PROVE  status[j] \in Open /\ status' = [status EXCEPT ![j] = "leased"]
    BY <2>1 DEF Claim, Acquire, Becomes
  <2>2. ASSUME NEW w \in Worker, NEW t \in flight[w], Harvest(w, t)
        PROVE  \/ UNCHANGED status
               \/ /\ t.job \in JobIds /\ status[t.job] \in Open
                  /\ \E s \in {"pending", "succeeded", "failed"} :
                       status' = [status EXCEPT ![t.job] = s]
    <3>1. t.job \in JobIds
      BY DEF RuntimeInv, LifeTypes, Attempt
    <3>. QED BY <2>2, <3>1 DEF Harvest, SettleCompleted, SettleFailed, SettleNothing, Holds,
            Succeed, GiveBack, Close, Becomes, Open, lifecycleVars
  <2>. QED BY <2>1, <2>2 DEF WorkerStep, Loop, Round, ClaimEnds, Idle, ClaimError, Executors,
          Finish, RequestStop, Die, lifecycleVars
<1>4. /\ StateOK'
      /\ \A j \in JobIds : status'[j] = "absent" <=> status[j] = "absent"
      /\ \A j \in JobIds : status'[j] \in Open => status[j] \in Open
  BY <1>2, <1>3 DEF StateOK, Open
<1>5. WriteTypeOK' /\ JobsCommitWithTheirWrite' /\ OneLiveJob' /\ KeysApart'
  BY <1>1, <1>4 DEF WritesInv, WriteTypeOK, JobsCommitWithTheirWrite, OneLiveJob, KeysApart
<1>6. \A c \in Writer : Fits(call[c])'
  BY <1>1 DEF WritesInv, Fits
<1>. QED BY <1>4, <1>5, <1>6 DEF WritesInv

\* A store nobody has written to.
LEMMA WritesInvInit == Init => WritesInv
<1>. SUFFICES ASSUME Init PROVE WritesInv
  OBVIOUS
<1>1. /\ status = [j \in JobIds |-> "absent"] /\ made = [m \in MemoryId |-> None]
      /\ slots = [k \in Key |-> 0] /\ jobKey = [j \in JobIds |-> NoKey]
      /\ call = [c \in Writer |-> NoCall]
  BY DEF Init, Start, WriteInit
<1>2. <<>> \in Seq({0} \cup JobIds) /\ <<>> \in Seq(JobIds)
  OBVIOUS
<1>3. NoCall \in Call /\ Fits(NoCall) /\ NoCall.memory = 0
  BY <1>2 DEF NoCall, Call, Fits
<1>4. NoKey \in (Intent \cup {None}) \X ({0} \cup MemoryId) /\ NoKey[2] = 0
  BY DEF NoKey
<1>5. WriteTypeOK /\ StateOK
  BY <1>1, <1>3, <1>4 DEF WriteTypeOK, StateOK
<1>6. JobsCommitWithTheirWrite /\ OneLiveJob /\ KeysApart
  BY <1>1, <1>3, <1>4 DEF JobsCommitWithTheirWrite, OneLiveJob, KeysApart, Open
<1>. QED BY <1>1, <1>3, <1>5, <1>6 DEF WritesInv

LEMMA WritesInvStep == WritesInv /\ RuntimeInv /\ [Next]_vars => WritesInv'
<1>. SUFFICES ASSUME WritesInv, RuntimeInv, [Next]_vars PROVE WritesInv'
  OBVIOUS
<1>1. ASSUME NEW c \in Writer, Abandon(c)
      PROVE  WritesInv'
  BY <1>1, GiveUpStep DEF Abandon
<1>2. CASE WriteStep
  BY <1>1, <1>2, BeginStep, ReplayStep, ReplayEndsStep, ResolveStep, CommitStep,
     CollidesStep, ReplaysStep, AnswerStep DEF WriteStep
<1>3. CASE WorkerStep /\ UNCHANGED writeVars
  BY <1>3, WorkersStep
<1>4. CASE UNCHANGED vars
  BY <1>4 DEF vars, lifecycleVars, writeVars, WritesInv, WriteTypeOK, StateOK, Fits,
              KeysApart, JobsCommitWithTheirWrite, OneLiveJob, LiveJobs
<1>. QED BY <1>2, <1>3, <1>4 DEF Next

LEMMA PipelineInvariant == Spec => [](RuntimeInv /\ WritesInv)
<1>1. Init => RuntimeInv /\ WritesInv
  BY RuntimeInvInit, WritesInvInit
<1>2. RuntimeInv /\ WritesInv /\ [Next]_vars => RuntimeInv' /\ WritesInv'
  BY RuntimeInvStep, WritesInvStep
<1>. QED BY <1>1, <1>2, PTL DEF Spec

\* Workers and writers stay in their domains: a task in flight is one a claim
\* was given, a job key names an intent and a memory, and what a call carries
\* between its statements is well formed.
THEOREM PipelineTyped == Spec => []TypeOK
<1>1. RuntimeInv /\ WritesInv => TypeOK
  BY DEF RuntimeInv, WritesInv, TypeOK
<1>. QED BY <1>1, PipelineInvariant, PTL

\* JOB-001, for any writers, keys and requests and whatever workers do: every
\* committed memory has a job row for each intent of its request and its key
\* names it, no job is pinned to a memory that was not committed, two live jobs
\* never have one key, and an answer names the job of each very intent
\* (surreal_store.rs put_with_jobs and its replay).
THEOREM WritesAgreeWithJobs == Spec => []WritesAndJobsAgree
<1>1. WritesInv => WritesAndJobsAgree
  <2>. SUFFICES ASSUME WritesInv PROVE WritesAndJobsAgree
    OBVIOUS
  <2>1. ASSUME NEW c \in Writer, call[c].step = "ok"
        PROVE  /\ made[call[c].receipt] = call[c].request
               /\ Len(call[c].jobs) = Len(call[c].request.intents)
               /\ \A i \in DOMAIN call[c].request.intents :
                    jobKey[call[c].jobs[i]]
                      = DedupKey(call[c].request.intents[i], call[c].receipt)
    <3>1. /\ made[call[c].receipt] = call[c].request
          /\ Len(call[c].jobs) = Len(call[c].request.intents)
          /\ \A i \in DOMAIN call[c].jobs :
               jobKey[call[c].jobs[i]] = DedupKey(call[c].request.intents[i], call[c].receipt)
      BY <2>1, CallFacts DEF Fits
    <3>2. DOMAIN call[c].jobs = 1..Len(call[c].jobs)
      BY CallFacts
    <3>3. DOMAIN call[c].request.intents = 1..Len(call[c].request.intents)
      BY <2>1, CallFacts, RequestFacts
    <3>. QED BY <3>1, <3>2, <3>3
  <2>2. AnswersNameTheirJobs
    BY <2>1 DEF WritesInv, OneLiveJob, AnswersNameTheirJobs
  <2>. QED BY <2>2 DEF WritesInv, WritesAndJobsAgree
<1>. QED BY <1>1, PipelineInvariant, PTL
=============================================================================
