-------------------------- MODULE CaptureSpool_proofs --------------------------
(***************************************************************************)
(* Theorems about the capture spool, for any number of deliveries, keys,   *)
(* consumers and any limits.                                               *)
(***************************************************************************)
EXTENDS CaptureSpool, FiniteSetTheorems, TLAPS

\* A subset of the deliveries is finite, its size a natural number.
LEMMA DeliveriesFinite ==
    ASSUME NEW S \in SUBSET Deliveries
    PROVE  IsFiniteSet(S) /\ Cardinality(S) \in Nat
  BY SpoolAssumption, FS_Subset, FS_CardinalityType

\* A prune keeps the table's type.
LEMMA PrunedType ==
    ASSUME NEW table \in [Deliveries -> RecoveryRow], NEW kept \in Pruned(table)
    PROVE  kept \in [Deliveries -> RecoveryRow]
  <1>1. NoRecovery \in RecoveryRow
    BY DEF NoRecovery, RecoveryRow
  <1>2. PICK gone \in SUBSET Deliveries :
            kept = [d \in Deliveries |-> IF d \in gone THEN NoRecovery ELSE table[d]]
    BY DEF Pruned
  <1> QED
    BY <1>1, <1>2

\* A fresh budget is a recovery row.
LEMMA NextGenerationType ==
    ASSUME NEW row \in RecoveryRow
    PROVE  NextGeneration(row) \in RecoveryRow
  BY DEF NextGeneration, RecoveryRow

\* A record whose claim lapses is a record row.
LEMMA LapsedType == ASSUME NEW row \in RecordRow PROVE [row EXCEPT !.leased = FALSE] \in RecordRow
  BY DEF RecordRow

\* A record whose back-off elapses is a record row.
LEMMA ElapsedType == ASSUME NEW row \in RecordRow PROVE [row EXCEPT !.due = TRUE] \in RecordRow
  BY DEF RecordRow

\* A record that is retried is a record row.
LEMMA BackedOffType == [state |-> "pending", leased |-> FALSE, due |-> FALSE] \in RecordRow
  BY DEF RecordRow

---------------------------------------------------------------------------
\* A step of the spool, the bound of the model on recovery generations left out.
SpoolStep == SpoolNext \/ \E k \in Keys : ReleaseDependency(k)

\* Every transaction and every clock keeps the tables' schema.
LEMMA SpoolTypeStep == ASSUME SpoolTypeOK, [SpoolStep]_spoolVars PROVE SpoolTypeOK'
  <1> USE DEF SpoolTypeOK
  <1>1. ASSUME NEW d \in Deliveries, Admit(d) PROVE SpoolTypeOK'
    <2>1. NoRecovery \in RecoveryRow /\ NewRecord \in RecordRow
      BY DEF NoRecovery, RecoveryRow, NewRecord, RecordRow
    <2>2. records' \in [Deliveries -> RecordRow] /\ recovery' \in [Deliveries -> RecoveryRow]
      BY <1>1, <2>1, NextGenerationType DEF Admit
    <2> QED
      BY <1>1, <2>2 DEF Admit, CounterRow
  <1>2. ASSUME NEW d \in Deliveries, NEW withReceipt \in BOOLEAN, RefuseAdmission(d, withReceipt)
        PROVE SpoolTypeOK'
    <2> DEFINE refused == counters.refused + 1
               failed == IF withReceipt THEN counters.failed ELSE counters.failed + 1
    <2>1. counters' = [counters EXCEPT !.refused = refused, !.failed = failed]
      BY <1>2, Zenon DEF RefuseAdmission
    <2>2. refused \in Nat /\ failed \in Nat
      BY DEF CounterRow
    <2> HIDE DEF refused, failed
    <2>3. counters' \in CounterRow
      BY <2>1, <2>2 DEF CounterRow
    <2> QED
      BY <1>2, <2>3 DEF RefuseAdmission
  <1>3. ASSUME NEW batch \in SUBSET Deliveries, Claim(batch) PROVE SpoolTypeOK'
    <2> DEFINE damaged == batch \cap Unreadable
    <2>1. Cardinality(damaged) \in Nat
      BY DeliveriesFinite
    <2>2. records' \in [Deliveries -> RecordRow]
      BY <1>3 DEF Claim, RecordRow, NoRecord
    <2>3. recovery' \in [Deliveries -> RecoveryRow]
      BY <1>3 DEF Claim, RecoveryRow
    <2>4. quarantine' \in SUBSET Deliveries
      BY <1>3 DEF Claim, Retained
    <2>5. counters' = [counters EXCEPT !.quarantined = @ + Cardinality(damaged)]
      BY <1>3 DEF Claim
    <2> HIDE DEF damaged
    <2>6. counters' \in CounterRow
      BY <2>1, <2>5 DEF CounterRow
    <2> QED
      BY <1>3, <2>2, <2>3, <2>4, <2>6 DEF Claim
  <1>4. ASSUME NEW d \in Deliveries, Acknowledge(d) PROVE SpoolTypeOK'
    <2>1. CASE UNCHANGED spoolVars
      BY <2>1 DEF spoolVars
    <2>2. CASE records[d].state = "claimed"
      <3>1. [recovery EXCEPT ![d].state = "committed"] \in [Deliveries -> RecoveryRow]
        BY DEF RecoveryRow
      <3>2. recovery' \in [Deliveries -> RecoveryRow]
        BY <1>4, <2>2, <3>1, PrunedType DEF Acknowledge
      <3>3. NoRecord \in RecordRow
        BY DEF NoRecord, RecordRow
      <3>4. records' \in [Deliveries -> RecordRow]
        BY <1>4, <2>2, <3>3 DEF Acknowledge
      <3> QED
        BY <1>4, <2>2, <3>2, <3>4 DEF Acknowledge, CounterRow
    <2> QED
      BY <1>4, <2>1, <2>2 DEF Acknowledge
  <1>5. ASSUME NEW d \in Deliveries, Retry(d) PROVE SpoolTypeOK'
    <2>1. CASE UNCHANGED spoolVars
      BY <2>1 DEF spoolVars
    <2>2. CASE records[d].state = "claimed"
      <3>1. records' \in [Deliveries -> RecordRow]
        BY <1>5, <2>2, BackedOffType DEF Retry
      <3>2. PICK next \in {"held", "eligible"} : recovery' = [recovery EXCEPT ![d].state = next]
        <4>1. CASE Spent(recovery[d])
          BY <1>5, <2>2, <4>1 DEF Retry
        <4>2. CASE ~Spent(recovery[d])
          BY <1>5, <2>2, <4>2 DEF Retry
        <4> QED
          BY <4>1, <4>2
      <3>3. recovery' \in [Deliveries -> RecoveryRow]
        BY <3>2 DEF RecoveryRow
      <3> QED
        BY <1>5, <2>2, <3>1, <3>3 DEF Retry
    <2> QED
      BY <1>5, <2>1, <2>2 DEF Retry
  <1>6. ASSUME NEW d \in Deliveries, NEW k \in Keys, WaitForDependency(d, k) PROVE SpoolTypeOK'
    <2>1. recovery' \in [Deliveries -> RecoveryRow]
      BY <1>6 DEF WaitForDependency, RecoveryRow
    <2>2. records' \in [Deliveries -> RecordRow]
      BY <1>6 DEF WaitForDependency, RecordRow
    <2> QED
      BY <1>6, <2>1, <2>2 DEF WaitForDependency
  <1>7. ASSUME NEW k \in Keys, ReleaseDependency(k) PROVE SpoolTypeOK'
    <2>1. recovery' \in [Deliveries -> RecoveryRow]
      BY <1>7, NextGenerationType DEF ReleaseDependency
    <2>2. records' \in [Deliveries -> RecordRow]
      BY <1>7 DEF ReleaseDependency, RecordRow
    <2> QED
      BY <1>7, <2>1, <2>2 DEF ReleaseDependency
  <1>8. ASSUME NEW d \in Deliveries, Quarantine(d) PROVE SpoolTypeOK'
    <2>1. CASE UNCHANGED spoolVars
      BY <2>1 DEF spoolVars
    <2>2. CASE records[d].state # "absent"
      <3>1. [recovery EXCEPT ![d].state = "quarantined"] \in [Deliveries -> RecoveryRow]
        BY DEF RecoveryRow
      <3>2. recovery' \in [Deliveries -> RecoveryRow]
        BY <1>8, <2>2, <3>1, PrunedType DEF Quarantine
      <3>3. quarantine' \in SUBSET Deliveries
        BY <1>8, <2>2 DEF Quarantine, Retained
      <3>4. NoRecord \in RecordRow
        BY DEF NoRecord, RecordRow
      <3>5. records' \in [Deliveries -> RecordRow]
        BY <1>8, <2>2, <3>4 DEF Quarantine
      <3> QED
        BY <1>8, <2>2, <3>2, <3>3, <3>5 DEF Quarantine, CounterRow
    <2> QED
      BY <1>8, <2>1, <2>2 DEF Quarantine
  <1>9. ASSUME NEW d \in Deliveries, Recover(d) PROVE SpoolTypeOK'
    <2>1. NewRecord \in RecordRow
      BY DEF NewRecord, RecordRow
    <2>2. recovery' \in [Deliveries -> RecoveryRow]
      BY <1>9, NextGenerationType DEF Recover
    <2>3. records' \in [Deliveries -> RecordRow]
      BY <1>9, <2>1 DEF Recover
    <2> DEFINE replayed == IF recovery[d].state = "quarantined" THEN counters.replayed + 1
                           ELSE counters.replayed
    <2>4. counters' = [counters EXCEPT !.replayed = replayed]
      BY <1>9, Zenon DEF Recover
    <2>5. replayed \in Nat
      BY DEF CounterRow
    <2> HIDE DEF replayed
    <2>6. counters' \in CounterRow
      BY <2>4, <2>5 DEF CounterRow
    <2> QED
      BY <1>9, <2>2, <2>3, <2>6 DEF Recover
  <1>10. ASSUME NEW w \in Drainers, TryAcquireDrainLock(w) PROVE SpoolTypeOK'
    BY <1>10 DEF TryAcquireDrainLock, queueVars
  <1>15. ASSUME NEW w \in Drainers, CompleteDrain(w) PROVE SpoolTypeOK'
    <2>1. CASE UNCHANGED spoolVars
      BY <2>1 DEF spoolVars
    <2>2. CASE drainLock.owner = w
      <3>1. drainLock' = [owner |-> None, live |-> FALSE]
        BY <1>15, <2>2, SpoolAssumption DEF CompleteDrain, spoolVars
      <3>2. PICK next \in {"pending", "complete"} :
               drainCompletion' = [drainCompletion EXCEPT !.state = next]
        <4>1. CASE drainCompletion.owner = w
          BY <1>15, <2>2, <4>1 DEF CompleteDrain
        <4>2. CASE drainCompletion.owner # w
          BY <1>15, <2>2, <4>2 DEF CompleteDrain
        <4> QED
          BY <4>1, <4>2
      <3> QED
        BY <1>15, <2>2, <3>1, <3>2 DEF CompleteDrain, queueVars
    <2> QED
      BY <1>15, <2>1, <2>2 DEF CompleteDrain
  <1>11. ASSUME NEW d \in Deliveries, ClaimLeaseLapses(d) PROVE SpoolTypeOK'
    <2>1. records' \in [Deliveries -> RecordRow]
      BY <1>11, LapsedType DEF ClaimLeaseLapses
    <2> QED
      BY <1>11, <2>1 DEF ClaimLeaseLapses
  <1>14. ASSUME NEW d \in Deliveries, BackoffElapses(d) PROVE SpoolTypeOK'
    <2>1. records' \in [Deliveries -> RecordRow]
      BY <1>14, ElapsedType DEF BackoffElapses
    <2> QED
      BY <1>14, <2>1 DEF BackoffElapses
  <1>12. CASE DrainLockLapses
    BY <1>12 DEF DrainLockLapses, queueVars
  <1>13. CASE UNCHANGED spoolVars
    BY <1>13 DEF spoolVars
  <1> QED
    BY <1>1, <1>2, <1>3, <1>4, <1>5, <1>6, <1>7, <1>8, <1>9, <1>10, <1>11, <1>12, <1>13, <1>14, <1>15
    DEF SpoolStep, SpoolNext

\* The tables keep their schema under every transaction, in any order.
THEOREM SpoolTypeCorrect == SpoolSpec => []SpoolTypeOK
  <1>1. SpoolInit => SpoolTypeOK
    BY SpoolAssumption
    DEF SpoolInit, SpoolTypeOK, CounterRow, NoRecord, NoRecovery, RecordRow, RecoveryRow
  <1>2. SpoolTypeOK /\ [SpoolNext]_spoolVars => SpoolTypeOK'
    BY SpoolTypeStep DEF SpoolStep
  <1> QED
    BY <1>1, <1>2, PTL DEF SpoolSpec

---------------------------------------------------------------------------
\* A prune takes settled rows only.
LEMMA PrunedRows ==
    ASSUME NEW table, NEW kept \in Pruned(table), NEW d \in Deliveries
    PROVE  kept[d] = table[d] \/ (kept[d] = NoRecovery /\ Settled(table[d]))
  BY DEF Pruned

\* The transactions and clocks that touch neither the queue nor its history.
QueueIdle == UNCHANGED <<records, recovery>>

\* A refusal, the drain lock and its clock leave the queue alone.
LEMMA IdleSteps ==
    ASSUME \/ \E d \in Deliveries, withReceipt \in BOOLEAN : RefuseAdmission(d, withReceipt)
           \/ \E w \in Drainers : TryAcquireDrainLock(w) \/ CompleteDrain(w)
           \/ DrainLockLapses
           \/ UNCHANGED spoolVars
    PROVE  QueueIdle
  BY DEF QueueIdle, RefuseAdmission, TryAcquireDrainLock, CompleteDrain, DrainLockLapses,
         queueVars, spoolVars

\* The two tables keep agreeing under every transaction and every clock.
LEMMA TablesAgreeStep == ASSUME SpoolTypeOK, TablesAgree, [SpoolStep]_spoolVars PROVE TablesAgree'
  <1>0. records \in [Deliveries -> RecordRow] /\ recovery \in [Deliveries -> RecoveryRow]
    BY DEF SpoolTypeOK
  <1>1. ASSUME NEW d \in Deliveries, Admit(d) PROVE TablesAgree'
    BY <1>0, <1>1 DEF TablesAgree, Admit, NewRecord, NextGeneration, RecordRow, RecoveryRow
  <1>2. ASSUME NEW batch \in SUBSET Deliveries, Claim(batch) PROVE TablesAgree'
    BY <1>0, <1>2
    DEF TablesAgree, Claim, Claimable, Exhausted, Takeable, Expired, NoRecord, RecordRow, RecoveryRow
  <1>3. ASSUME NEW d \in Deliveries, Acknowledge(d) PROVE TablesAgree'
    <2>1. CASE UNCHANGED spoolVars
      BY <2>1 DEF spoolVars, TablesAgree
    <2>2. CASE records[d].state = "claimed"
      <3>1. recovery' \in Pruned([recovery EXCEPT ![d].state = "committed"])
        BY <1>3, <2>2 DEF Acknowledge
      <3> DEFINE table == [recovery EXCEPT ![d].state = "committed"]
      <3>2. recovery' \in Pruned(table)
        BY <3>1
      <3>3. Settled(table[d]) /\ \A e \in Deliveries \ {d} : table[e] = recovery[e]
        BY <1>0 DEF Settled, RecoveryRow
      <3> HIDE DEF table
      <3>4. /\ Settled(recovery'[d]) \/ recovery'[d] = NoRecovery
            /\ \A e \in Deliveries \ {d} :
                  \/ recovery'[e] = recovery[e]
                  \/ recovery'[e] = NoRecovery /\ Settled(recovery[e])
        BY <3>2, <3>3, PrunedRows
      <3>5. records' = [records EXCEPT ![d] = NoRecord]
        BY <1>3, <2>2 DEF Acknowledge, spoolVars
      <3> QED
        BY <1>0, <3>4, <3>5 DEF TablesAgree, NoRecord, NoRecovery, Settled, RecordRow
    <2> QED
      BY <1>3, <2>1, <2>2 DEF Acknowledge
  <1>4. ASSUME NEW d \in Deliveries, Retry(d) PROVE TablesAgree'
    BY <1>0, <1>4 DEF TablesAgree, Retry, RecordRow, RecoveryRow, spoolVars
  <1>5. ASSUME NEW d \in Deliveries, NEW k \in Keys, WaitForDependency(d, k) PROVE TablesAgree'
    BY <1>0, <1>5, SpoolAssumption DEF TablesAgree, WaitForDependency, RecordRow, RecoveryRow
  <1>6. ASSUME NEW k \in Keys, ReleaseDependency(k) PROVE TablesAgree'
    BY <1>0, <1>6 DEF TablesAgree, ReleaseDependency, Waiting, NextGeneration, RecordRow, RecoveryRow
  <1>7. ASSUME NEW d \in Deliveries, Quarantine(d) PROVE TablesAgree'
    <2>1. CASE UNCHANGED spoolVars
      BY <2>1 DEF spoolVars, TablesAgree
    <2>2. CASE records[d].state # "absent"
      <3>1. recovery' \in Pruned([recovery EXCEPT ![d].state = "quarantined"])
        BY <1>7, <2>2 DEF Quarantine
      <3> DEFINE table == [recovery EXCEPT ![d].state = "quarantined"]
      <3>2. recovery' \in Pruned(table)
        BY <3>1
      <3>3. Settled(table[d]) /\ \A e \in Deliveries \ {d} : table[e] = recovery[e]
        BY <1>0 DEF Settled, RecoveryRow
      <3> HIDE DEF table
      <3>4. /\ Settled(recovery'[d]) \/ recovery'[d] = NoRecovery
            /\ \A e \in Deliveries \ {d} :
                  \/ recovery'[e] = recovery[e]
                  \/ recovery'[e] = NoRecovery /\ Settled(recovery[e])
        BY <3>2, <3>3, PrunedRows
      <3>5. records' = [records EXCEPT ![d] = NoRecord]
        BY <1>7, <2>2 DEF Quarantine, spoolVars
      <3> QED
        BY <1>0, <3>4, <3>5 DEF TablesAgree, NoRecord, NoRecovery, Settled, RecordRow
    <2> QED
      BY <1>7, <2>1, <2>2 DEF Quarantine
  <1>8. ASSUME NEW d \in Deliveries, Recover(d) PROVE TablesAgree'
    BY <1>0, <1>8 DEF TablesAgree, Recover, NewRecord, NextGeneration, RecordRow, RecoveryRow
  <1>9. ASSUME NEW d \in Deliveries, ClaimLeaseLapses(d) PROVE TablesAgree'
    BY <1>0, <1>9 DEF TablesAgree, ClaimLeaseLapses, RecordRow
  <1>11. ASSUME NEW d \in Deliveries, BackoffElapses(d) PROVE TablesAgree'
    BY <1>0, <1>11 DEF TablesAgree, BackoffElapses, RecordRow
  <1>10. CASE QueueIdle
    BY <1>10 DEF QueueIdle, TablesAgree
  <1> QED
    BY <1>1, <1>2, <1>3, <1>4, <1>5, <1>6, <1>7, <1>8, <1>9, <1>10, <1>11, IdleSteps
    DEF SpoolStep, SpoolNext

\* The records table and the recovery table agree in every reachable state.
THEOREM TablesAlwaysAgree == SpoolSpec => []TablesAgree
  <1>1. SpoolInit => TablesAgree
    BY DEF SpoolInit, TablesAgree, NoRecord, NoRecovery
  <1>2. SpoolTypeOK /\ TablesAgree /\ [SpoolNext]_spoolVars => TablesAgree'
    BY TablesAgreeStep DEF SpoolStep
  <1> QED
    BY <1>1, <1>2, SpoolTypeCorrect, PTL DEF SpoolSpec

---------------------------------------------------------------------------
\* No generation of a delivery is attempted more than MaxAttempts times, and a
\* held record has used exactly that many.
THEOREM AttemptsAlwaysBounded == SpoolSpec => []AttemptsBounded
  <1>1. SpoolInit => AttemptsBounded
    BY SpoolAssumption DEF SpoolInit, AttemptsBounded, NoRecovery
  <1>2. SpoolTypeOK /\ AttemptsBounded /\ [SpoolNext]_spoolVars => AttemptsBounded'
    <2> SUFFICES ASSUME SpoolTypeOK, AttemptsBounded, [SpoolNext]_spoolVars PROVE AttemptsBounded'
      OBVIOUS
    <2>0. recovery \in [Deliveries -> RecoveryRow] /\ MaxAttempts \in Nat
      BY SpoolAssumption DEF SpoolTypeOK
    <2>1. ASSUME NEW d \in Deliveries, Admit(d) \/ Recover(d) PROVE AttemptsBounded'
      <3>1. \E row : recovery' = [recovery EXCEPT ![d] = NextGeneration(row)]
        BY <2>1 DEF Admit, Recover
      <3> QED
        BY <2>0, <3>1 DEF AttemptsBounded, NextGeneration, RecoveryRow
    <2>2. ASSUME NEW batch \in SUBSET Deliveries, Claim(batch) PROVE AttemptsBounded'
      <3> SUFFICES ASSUME NEW e \in Deliveries
                   PROVE  /\ recovery'[e].attempts <= MaxAttempts
                          /\ recovery'[e].state = "held" => recovery'[e].attempts = MaxAttempts
        BY DEF AttemptsBounded
      <3>0. recovery[e] \in RecoveryRow
        BY <2>0
      <3>1. CASE e \in Exhausted
        <4>1. recovery[e].attempts = MaxAttempts
          BY <2>0, <3>0, <3>1 DEF AttemptsBounded, Exhausted, Spent, RecoveryRow
        <4>2. recovery'[e] = [recovery[e] EXCEPT !.state = "held"]
          BY <2>2, <3>1 DEF Claim
        <4> QED
          BY <2>0, <3>0, <4>1, <4>2 DEF RecoveryRow
      <3>2. CASE e \notin Exhausted /\ e \in batch
        <4>1. recovery[e].attempts < MaxAttempts /\ recovery[e].state = "eligible"
          BY <2>0, <2>2, <3>0, <3>2 DEF Claim, Claimable, Spent, RecoveryRow
        <4>2. CASE e \in Unreadable
          <5>1. recovery'[e] = [recovery[e] EXCEPT !.state = "quarantined"]
            BY <2>2, <3>2, <4>2 DEF Claim
          <5> QED
            BY <2>0, <3>0, <4>1, <5>1 DEF RecoveryRow
        <4>3. CASE e \notin Unreadable
          <5>1. recovery'[e] = [recovery[e] EXCEPT !.attempts = @ + 1]
            BY <2>2, <3>2, <4>3 DEF Claim
          <5> QED
            BY <2>0, <3>0, <4>1, <5>1 DEF RecoveryRow
        <4> QED
          BY <4>2, <4>3
      <3>3. CASE e \notin Exhausted /\ e \notin batch
        BY <2>0, <2>2, <3>0, <3>3 DEF AttemptsBounded, Claim
      <3> QED
        BY <3>1, <3>2, <3>3
    <2>3. ASSUME NEW d \in Deliveries, Retry(d) PROVE AttemptsBounded'
      BY <2>0, <2>3 DEF AttemptsBounded, Retry, Spent, RecoveryRow, spoolVars
    <2>4. ASSUME NEW d \in Deliveries, NEW k \in Keys, WaitForDependency(d, k) PROVE AttemptsBounded'
      BY <2>0, <2>4 DEF AttemptsBounded, WaitForDependency, RecoveryRow
    <2>5. ASSUME NEW k \in Keys, ReleaseDependency(k) PROVE AttemptsBounded'
      BY <2>0, <2>5 DEF AttemptsBounded, ReleaseDependency, NextGeneration, RecoveryRow
    <2>6. ASSUME NEW d \in Deliveries, Acknowledge(d) \/ Quarantine(d) PROVE AttemptsBounded'
      <3>1. CASE UNCHANGED spoolVars
        BY <3>1 DEF spoolVars, AttemptsBounded
      <3>2. ASSUME NEW state \in {"committed", "quarantined"},
                   recovery' \in Pruned([recovery EXCEPT ![d].state = state])
            PROVE  AttemptsBounded'
        <4> DEFINE table == [recovery EXCEPT ![d].state = state]
        <4>1. \A e \in Deliveries : table[e].attempts = recovery[e].attempts
                                   /\ (table[e].state = "held" => recovery[e].state = "held")
          BY <2>0 DEF RecoveryRow
        <4>2. recovery' \in Pruned(table)
          BY <3>2
        <4> HIDE DEF table
        <4>3. \A e \in Deliveries : recovery'[e] = table[e] \/ recovery'[e] = NoRecovery
          BY <4>2, PrunedRows
        <4> QED
          BY <2>0, <4>1, <4>3 DEF AttemptsBounded, NoRecovery
      <3> QED
        BY <2>6, <3>1, <3>2 DEF Acknowledge, Quarantine
    <2>7. ASSUME NEW d \in Deliveries, ClaimLeaseLapses(d) \/ BackoffElapses(d) PROVE AttemptsBounded'
      BY <2>7 DEF AttemptsBounded, ClaimLeaseLapses, BackoffElapses
    <2>8. CASE QueueIdle
      BY <2>8 DEF QueueIdle, AttemptsBounded
    <2> QED
      BY <2>1, <2>2, <2>3, <2>4, <2>5, <2>6, <2>7, <2>8, IdleSteps DEF SpoolNext
  <1> QED
    BY <1>1, <1>2, SpoolTypeCorrect, PTL DEF SpoolSpec

\* A drain that is reported complete has nobody at work under the lock.
THEOREM CompletionIsExclusive == SpoolSpec => []CompleteMeansUnlocked
  <1>1. SpoolInit => CompleteMeansUnlocked
    BY DEF SpoolInit, CompleteMeansUnlocked
  <1>2. SpoolTypeOK /\ CompleteMeansUnlocked /\ [SpoolNext]_spoolVars => CompleteMeansUnlocked'
    <2> SUFFICES ASSUME SpoolTypeOK, CompleteMeansUnlocked, [SpoolNext]_spoolVars
                 PROVE CompleteMeansUnlocked'
      OBVIOUS
    <2>1. ASSUME NEW w \in Drainers, TryAcquireDrainLock(w) PROVE CompleteMeansUnlocked'
      BY <2>1 DEF CompleteMeansUnlocked, TryAcquireDrainLock
    <2>2. ASSUME NEW w \in Drainers, CompleteDrain(w) PROVE CompleteMeansUnlocked'
      BY <2>2 DEF CompleteMeansUnlocked, CompleteDrain, spoolVars
    <2>3. CASE DrainLockLapses
      BY <2>3 DEF DrainLockLapses, CompleteMeansUnlocked, SpoolTypeOK
    <2>4. CASE UNCHANGED <<drainLock, drainCompletion>>
      BY <2>4 DEF CompleteMeansUnlocked
    <2> QED
      BY <2>1, <2>2, <2>3, <2>4
      DEF SpoolNext, spoolVars, Admit, RefuseAdmission, Claim, Acknowledge, Retry, WaitForDependency,
          ReleaseDependency, Quarantine, Recover, ClaimLeaseLapses, BackoffElapses
  <1> QED
    BY <1>1, <1>2, SpoolTypeCorrect, PTL DEF SpoolSpec

---------------------------------------------------------------------------
\* Inserting a record makes one more active.
LEMMA ActiveGains ==
    ASSUME NEW d \in Deliveries, d \notin Active, records \in [Deliveries -> RecordRow],
           records' = [records EXCEPT ![d] = NewRecord]
    PROVE  Cardinality(Active') = Cardinality(Active) + 1
  <1>1. Active' = Active \cup {d}
    BY DEF Active, NewRecord, RecordRow
  <1>2. IsFiniteSet(Active)
    BY DeliveriesFinite DEF Active
  <1> QED
    BY <1>1, <1>2, FS_AddElement

\* Deleting records makes as many fewer active.
LEMMA ActiveLoses ==
    ASSUME NEW gone \in SUBSET Active, Active' = Active \ gone
    PROVE  Cardinality(Active') = Cardinality(Active) - Cardinality(gone)
  <1>1. IsFiniteSet(Active) /\ IsFiniteSet(gone)
    BY DeliveriesFinite DEF Active
  <1>2. Active \cap gone = gone
    OBVIOUS
  <1> QED
    BY <1>1, <1>2, FS_Difference

\* Deleting one record makes one fewer active.
LEMMA ActiveLosesOne ==
    ASSUME NEW d \in Active, records \in [Deliveries -> RecordRow],
           records' = [records EXCEPT ![d] = NoRecord]
    PROVE  Cardinality(Active') = Cardinality(Active) - 1
  <1>1. Active' = Active \ {d} /\ {d} \in SUBSET Active
    BY DEF Active, NoRecord, RecordRow
  <1>2. Cardinality({d}) = 1
    BY FS_Singleton
  <1> QED
    BY <1>1, <1>2, ActiveLoses

\* Every admission and every replay ends, at any time, in exactly one place.
THEOREM EverythingIsCounted == SpoolSpec => []NothingUncounted
  <1>1. SpoolInit => NothingUncounted
    <2>1. SpoolInit => Active = {}
      BY DEF SpoolInit, Active, NoRecord
    <2> QED
      BY <2>1, FS_EmptySet DEF SpoolInit, NothingUncounted
  <1>2. SpoolTypeOK /\ NothingUncounted /\ [SpoolNext]_spoolVars => NothingUncounted'
    <2> SUFFICES ASSUME SpoolTypeOK, NothingUncounted, [SpoolNext]_spoolVars PROVE NothingUncounted'
      OBVIOUS
    <2>0. /\ records \in [Deliveries -> RecordRow]
          /\ counters \in CounterRow
          /\ Cardinality(Active) \in Nat
      BY DeliveriesFinite DEF SpoolTypeOK, Active
    <2>1. ASSUME NEW d \in Deliveries, Admit(d) PROVE NothingUncounted'
      <3>1. d \notin Active /\ records' = [records EXCEPT ![d] = NewRecord]
        BY <2>1 DEF Admit, Known, Active
      <3>2. Cardinality(Active') = Cardinality(Active) + 1
        BY <2>0, <3>1, ActiveGains
      <3> QED
        BY <2>0, <2>1, <3>2 DEF Admit, NothingUncounted, CounterRow
    <2>2. ASSUME NEW batch \in SUBSET Deliveries, Claim(batch) PROVE NothingUncounted'
      <3> DEFINE damaged == batch \cap Unreadable
      <3>1. damaged \in SUBSET Active
        BY <2>2 DEF Claim, Claimable, Takeable, Expired, Active
      <3>2. Active' = Active \ damaged
        BY <2>0, <2>2
        DEF Claim, Claimable, Takeable, Expired, Active, NoRecord, RecordRow
      <3>3. Cardinality(damaged) \in Nat
        BY DeliveriesFinite
      <3>4. counters' = [counters EXCEPT !.quarantined = @ + Cardinality(damaged)]
        BY <2>2 DEF Claim
      <3> HIDE DEF damaged
      <3>5. Cardinality(Active') = Cardinality(Active) - Cardinality(damaged)
        BY <3>1, <3>2, ActiveLoses
      <3> QED
        BY <2>0, <3>3, <3>4, <3>5 DEF NothingUncounted, CounterRow
    <2>3. ASSUME NEW d \in Deliveries, Acknowledge(d) PROVE NothingUncounted'
      <3>1. CASE UNCHANGED spoolVars
        BY <3>1 DEF spoolVars, NothingUncounted, Active
      <3>2. CASE ~UNCHANGED spoolVars
        <4>1. d \in Active /\ records' = [records EXCEPT ![d] = NoRecord]
          BY <2>3, <3>2 DEF Acknowledge, Active
        <4>2. Cardinality(Active') = Cardinality(Active) - 1
          BY <2>0, <4>1, ActiveLosesOne
        <4> QED
          BY <2>0, <2>3, <3>2, <4>2 DEF Acknowledge, NothingUncounted, CounterRow
      <3> QED
        BY <3>1, <3>2
    <2>4. ASSUME NEW d \in Deliveries, Quarantine(d) PROVE NothingUncounted'
      <3>1. CASE UNCHANGED spoolVars
        BY <3>1 DEF spoolVars, NothingUncounted, Active
      <3>2. CASE ~UNCHANGED spoolVars
        <4>1. d \in Active /\ records' = [records EXCEPT ![d] = NoRecord]
          BY <2>4, <3>2 DEF Quarantine, Active
        <4>2. Cardinality(Active') = Cardinality(Active) - 1
          BY <2>0, <4>1, ActiveLosesOne
        <4> QED
          BY <2>0, <2>4, <3>2, <4>2 DEF Quarantine, NothingUncounted, CounterRow
      <3> QED
        BY <3>1, <3>2
    <2>5. ASSUME NEW d \in Deliveries, Recover(d) PROVE NothingUncounted'
      <3>1. CASE d \in Active
        <4>1. Active' = Active /\ recovery[d].state # "quarantined"
          BY <2>0, <2>5, <3>1 DEF Recover, Recoverable, Active, NewRecord, RecordRow
        <4> QED
          BY <2>0, <2>5, <4>1 DEF Recover, NothingUncounted, CounterRow
      <3>2. CASE d \notin Active
        <4>1. records' = [records EXCEPT ![d] = NewRecord] /\ recovery[d].state = "quarantined"
          BY <2>5, <3>2 DEF Recover, Recoverable, Active
        <4>2. Cardinality(Active') = Cardinality(Active) + 1
          BY <2>0, <3>2, <4>1, ActiveGains
        <4> QED
          BY <2>0, <2>5, <4>1, <4>2 DEF Recover, NothingUncounted, CounterRow
      <3> QED
        BY <3>1, <3>2
    <2>6. ASSUME NEW d \in Deliveries, Retry(d) PROVE NothingUncounted'
      <3>1. Active' = Active /\ counters' = counters
        BY <2>0, <2>6 DEF Retry, Active, spoolVars, RecordRow
      <3> QED
        BY <3>1 DEF NothingUncounted
    <2>7. ASSUME NEW d \in Deliveries, NEW k \in Keys, WaitForDependency(d, k) PROVE NothingUncounted'
      <3>1. Active' = Active /\ counters' = counters
        BY <2>0, <2>7 DEF WaitForDependency, Active, RecordRow
      <3> QED
        BY <3>1 DEF NothingUncounted
    <2>8. ASSUME NEW k \in Keys, ReleaseDependency(k) PROVE NothingUncounted'
      <3>1. Active' = Active /\ counters' = counters
        BY <2>0, <2>8 DEF ReleaseDependency, Active, RecordRow
      <3> QED
        BY <3>1 DEF NothingUncounted
    <2>9. ASSUME NEW d \in Deliveries, ClaimLeaseLapses(d) \/ BackoffElapses(d) PROVE NothingUncounted'
      <3>1. Active' = Active /\ counters' = counters
        BY <2>0, <2>9 DEF ClaimLeaseLapses, BackoffElapses, Active, RecordRow
      <3> QED
        BY <3>1 DEF NothingUncounted
    <2>10. ASSUME NEW d \in Deliveries, NEW withReceipt \in BOOLEAN, RefuseAdmission(d, withReceipt)
           PROVE  NothingUncounted'
      <3>1. /\ Active' = Active
            /\ counters'.admitted = counters.admitted /\ counters'.committed = counters.committed
            /\ counters'.quarantined = counters.quarantined /\ counters'.replayed = counters.replayed
        BY <2>0, <2>10 DEF RefuseAdmission, Active, CounterRow
      <3> QED
        BY <3>1 DEF NothingUncounted
    <2>11. CASE UNCHANGED queueVars
      BY <2>11 DEF queueVars, NothingUncounted, Active
    <2> QED
      BY <2>1, <2>2, <2>3, <2>4, <2>5, <2>6, <2>7, <2>8, <2>9, <2>10, <2>11
      DEF SpoolNext, spoolVars, queueVars, TryAcquireDrainLock, CompleteDrain, DrainLockLapses
  <1> QED
    BY <1>1, <1>2, SpoolTypeCorrect, PTL DEF SpoolSpec

\* The tables, the budgets, the counters and the report of the last drain are
\* consistent in every reachable state, whoever calls.
THEOREM SpoolStaysConsistent == SpoolSpec => []SpoolIsConsistent
  <1> QED
    BY TablesAlwaysAgree, AttemptsAlwaysBounded, EverythingIsCounted, CompletionIsExclusive, PTL
    DEF SpoolIsConsistent

---------------------------------------------------------------------------
\* A delivery without a history has nothing left of an earlier one.
AbsentIsNew == \A d \in Deliveries : recovery[d].state = "none" => recovery[d] = NoRecovery

\* What one step can do to the history of one delivery: open a generation, forget
\* it, or go on in the same generation, and then a held record is not resumed.
HistoryStep(d) ==
    \/ recovery'[d] = NextGeneration(recovery[d])
    \/ recovery'[d] = NoRecovery
    \/ /\ recovery'[d].state = "none" => recovery[d].state = "none" /\ recovery'[d] = recovery[d]
       /\ recovery'[d].attempts >= recovery[d].attempts
       /\ recovery'[d].generation = recovery[d].generation
       /\ recovery[d].state = "held" => recovery'[d].state \in {"held", "quarantined"}

\* Every transaction and every clock is such a step for every delivery.
LEMMA HistorySteps ==
    ASSUME SpoolTypeOK, TablesAgree, AbsentIsNew, [SpoolNext]_spoolVars, NEW e \in Deliveries
    PROVE  HistoryStep(e)
  <1>0. recovery \in [Deliveries -> RecoveryRow]
    BY DEF SpoolTypeOK
  <1>1. ASSUME recovery'[e] = recovery[e] PROVE HistoryStep(e)
    BY <1>0, <1>1 DEF HistoryStep, RecoveryRow
  <1>2. ASSUME NEW d \in Deliveries, Admit(d) PROVE HistoryStep(e)
    BY <1>0, <1>1, <1>2 DEF Admit, AbsentIsNew, HistoryStep
  <1>3. ASSUME NEW batch \in SUBSET Deliveries, Claim(batch) PROVE HistoryStep(e)
    <2>1. CASE e \in Exhausted
      <3>1. recovery'[e] = [recovery[e] EXCEPT !.state = "held"]
        BY <1>3, <2>1 DEF Claim
      <3> QED
        BY <1>0, <3>1 DEF HistoryStep, RecoveryRow
    <2>2. CASE e \notin Exhausted /\ e \in batch /\ e \in Unreadable
      <3>1. recovery'[e] = [recovery[e] EXCEPT !.state = "quarantined"]
        BY <1>3, <2>2 DEF Claim
      <3> QED
        BY <1>0, <3>1 DEF HistoryStep, RecoveryRow
    <2>3. CASE e \notin Exhausted /\ e \in batch /\ e \notin Unreadable
      <3>1. recovery'[e] = [recovery[e] EXCEPT !.attempts = @ + 1]
        BY <1>3, <2>3 DEF Claim
      <3>2. recovery[e].state = "eligible"
        BY <1>3, <2>3 DEF Claim, Claimable
      <3> QED
        BY <1>0, <3>1, <3>2 DEF HistoryStep, RecoveryRow
    <2>4. CASE e \notin Exhausted /\ e \notin batch
      BY <1>1, <1>3, <2>4 DEF Claim
    <2> QED
      BY <2>1, <2>2, <2>3, <2>4
  <1>4. ASSUME NEW d \in Deliveries, NEW state \in {"committed", "quarantined"},
               recovery' \in Pruned([recovery EXCEPT ![d].state = state]),
               recovery[d].state = "held" => state = "quarantined"
        PROVE  HistoryStep(e)
    <2> DEFINE table == [recovery EXCEPT ![d].state = state]
    <2>1. /\ table[e].attempts = recovery[e].attempts /\ table[e].generation = recovery[e].generation
          /\ table[e].state = recovery[e].state \/ (e = d /\ table[e].state = state)
          /\ table[e].state = "none" => table[e] = recovery[e]
      BY <1>0 DEF RecoveryRow
    <2>2. recovery' \in Pruned(table)
      BY <1>4
    <2> HIDE DEF table
    <2>3. recovery'[e] = table[e] \/ recovery'[e] = NoRecovery
      BY <2>2, PrunedRows
    <2> QED
      BY <1>0, <1>4, <2>1, <2>3 DEF HistoryStep, RecoveryRow
  <1>5. ASSUME NEW d \in Deliveries, Acknowledge(d) PROVE HistoryStep(e)
    <2>1. CASE records[d].state = "claimed"
      <3>1. recovery[d].state = "eligible"
        BY <2>1 DEF TablesAgree
      <3> QED
        BY <1>4, <1>5, <2>1, <3>1 DEF Acknowledge
    <2>2. CASE UNCHANGED spoolVars
      BY <1>1, <2>2 DEF spoolVars
    <2> QED
      BY <1>5, <2>1, <2>2 DEF Acknowledge
  <1>6. ASSUME NEW d \in Deliveries, Quarantine(d) PROVE HistoryStep(e)
    <2>1. CASE records[d].state # "absent"
      BY <1>4, <1>6, <2>1 DEF Quarantine
    <2>2. CASE UNCHANGED spoolVars
      BY <1>1, <2>2 DEF spoolVars
    <2> QED
      BY <1>6, <2>1, <2>2 DEF Quarantine
  <1>7. ASSUME NEW d \in Deliveries, Retry(d) PROVE HistoryStep(e)
    <2>1. CASE records[d].state = "claimed"
      <3>1. recovery[d].state = "eligible"
        BY <2>1 DEF TablesAgree
      <3>2. \E next \in {"held", "eligible"} : recovery' = [recovery EXCEPT ![d].state = next]
        <4>1. CASE Spent(recovery[d])
          BY <1>7, <2>1, <4>1 DEF Retry
        <4>2. CASE ~Spent(recovery[d])
          BY <1>7, <2>1, <4>2 DEF Retry
        <4> QED
          BY <4>1, <4>2
      <3> QED
        BY <1>0, <3>1, <3>2 DEF HistoryStep, RecoveryRow
    <2>2. CASE UNCHANGED spoolVars
      BY <1>1, <2>2 DEF spoolVars
    <2> QED
      BY <1>7, <2>1, <2>2 DEF Retry
  <1>8. ASSUME NEW d \in Deliveries, NEW k \in Keys, WaitForDependency(d, k) PROVE HistoryStep(e)
    BY <1>0, <1>8 DEF WaitForDependency, HistoryStep, RecoveryRow
  <1>9. ASSUME NEW k \in Keys, ReleaseDependency(k) PROVE HistoryStep(e)
    BY <1>1, <1>9 DEF ReleaseDependency, HistoryStep
  <1>10. ASSUME NEW d \in Deliveries, Recover(d) PROVE HistoryStep(e)
    BY <1>0, <1>1, <1>10 DEF Recover, HistoryStep
  <1>11. ASSUME NEW d \in Deliveries, ClaimLeaseLapses(d) \/ BackoffElapses(d) PROVE HistoryStep(e)
    BY <1>1, <1>11 DEF ClaimLeaseLapses, BackoffElapses
  <1>12. CASE QueueIdle
    BY <1>1, <1>12 DEF QueueIdle
  <1> QED
    BY <1>2, <1>3, <1>5, <1>6, <1>7, <1>8, <1>9, <1>10, <1>11, <1>12, IdleSteps DEF SpoolNext

\* A prune forgets a delivery completely, and only an admission brings it back.
LEMMA AbsentAlwaysNew == SpoolSpec => []AbsentIsNew
  <1>1. SpoolInit => AbsentIsNew
    BY DEF SpoolInit, AbsentIsNew
  <1>2. SpoolTypeOK /\ TablesAgree /\ AbsentIsNew /\ [SpoolNext]_spoolVars => AbsentIsNew'
    <2> SUFFICES ASSUME SpoolTypeOK, TablesAgree, AbsentIsNew, [SpoolNext]_spoolVars,
                        NEW d \in Deliveries, recovery'[d].state = "none"
                 PROVE  recovery'[d] = NoRecovery
      BY DEF AbsentIsNew
    <2>1. HistoryStep(d)
      BY HistorySteps
    <2> QED
      BY <2>1 DEF HistoryStep, AbsentIsNew, NextGeneration
  <1> QED
    BY <1>1, <1>2, SpoolTypeCorrect, TablesAlwaysAgree, PTL DEF SpoolSpec

\* A live row gets its attempts back only with a new generation.
THEOREM ResetsOpenGenerations == SpoolSpec => BudgetResetOpensGeneration
  <1>1. SpoolTypeOK /\ TablesAgree /\ AbsentIsNew /\ [SpoolNext]_spoolVars =>
          [\A d \in Deliveries :
             (recovery'[d].attempts < recovery[d].attempts /\ recovery'[d].state # "none")
                => recovery'[d].generation = recovery[d].generation + 1]_spoolVars
    <2> SUFFICES ASSUME SpoolTypeOK, TablesAgree, AbsentIsNew, [SpoolNext]_spoolVars, NEW d \in Deliveries,
                        recovery'[d].attempts < recovery[d].attempts, recovery'[d].state # "none"
                 PROVE  recovery'[d].generation = recovery[d].generation + 1
      OBVIOUS
    <2>1. HistoryStep(d)
      BY HistorySteps
    <2>2. recovery[d].attempts \in Nat /\ NoRecovery.state = "none"
      BY DEF SpoolTypeOK, RecoveryRow, NoRecovery
    <2>3. CASE recovery'[d].attempts >= recovery[d].attempts
      <3>1. SpoolTypeOK'
        BY SpoolTypeStep DEF SpoolStep
      <3>2. recovery'[d].attempts \in Nat
        BY <3>1 DEF SpoolTypeOK, RecoveryRow
      <3> QED
        BY <2>2, <2>3, <3>2
    <2> QED
      BY <2>1, <2>2, <2>3 DEF HistoryStep, NextGeneration
  <1> QED
    BY <1>1, SpoolTypeCorrect, TablesAlwaysAgree, AbsentAlwaysNew, PTL
    DEF SpoolSpec, BudgetResetOpensGeneration

\* A held record resumes only by a recovery plan, which opens a generation.
THEOREM HeldResumesByRecovery == SpoolSpec => HeldNeedsRecovery
  <1>1. SpoolTypeOK /\ TablesAgree /\ AbsentIsNew /\ [SpoolNext]_spoolVars =>
          [\A d \in Deliveries :
             (recovery[d].state = "held" /\ recovery'[d].state \notin {"held", "quarantined", "none"})
                => recovery'[d].generation > recovery[d].generation]_spoolVars
    <2> SUFFICES ASSUME SpoolTypeOK, TablesAgree, AbsentIsNew, [SpoolNext]_spoolVars, NEW d \in Deliveries,
                        recovery[d].state = "held",
                        recovery'[d].state \notin {"held", "quarantined", "none"}
                 PROVE  recovery'[d].generation > recovery[d].generation
      OBVIOUS
    <2>1. HistoryStep(d)
      BY HistorySteps
    <2>2. recovery[d].generation \in Nat /\ NoRecovery.state = "none"
      BY DEF SpoolTypeOK, RecoveryRow, NoRecovery
    <2> QED
      BY <2>1, <2>2 DEF HistoryStep, NextGeneration
  <1> QED
    BY <1>1, SpoolTypeCorrect, TablesAlwaysAgree, AbsentAlwaysNew, PTL
    DEF SpoolSpec, HeldNeedsRecovery
=============================================================================
