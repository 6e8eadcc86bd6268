------------------------------ MODULE CaptureSpool ------------------------------
(***************************************************************************)
(* The private capture spool, capture-spool.sqlite: every public operation *)
(* of the CaptureSpool class that changes a table, one action per SQLite   *)
(* transaction, called by any process at any time.  A wall clock that      *)
(* passes a lease or a back-off is an action of its own, so every duration *)
(* is possible.  The receipt ledger and the delay diagnostics, which no    *)
(* guard reads, are left out; a transaction that throws rolls back and is  *)
(* a step that does not happen.                                            *)
(***************************************************************************)
EXTENDS Naturals, FiniteSets

CONSTANTS
    Deliveries,     \* delivery ids: hashes of the normalized records
    Unreadable,     \* deliveries whose stored row does not parse (damage, other version)
    Keys,           \* dependency keys a waiting record can name
    Drainers,       \* identities that take the drain lock
    None,
    MaxActive,      \* MAX_ACTIVE_RECORDS
    ClaimLimit,     \* records a claim may return
    MaxAttempts,    \* MAX_AUTOMATIC_ATTEMPTS
    QuarantineMax,  \* quarantined rows kept
    HistoryMax,     \* settled recovery rows kept by a prune
    MaxAdmissions,  \* bound of the model: admissions
    MaxRefusals,    \* bound of the model: admissions a full spool refuses
    MaxGeneration   \* bound of the model: recovery generations of a delivery

ASSUME SpoolAssumption ==
    /\ IsFiniteSet(Deliveries) /\ Unreadable \subseteq Deliveries
    /\ None \notin Keys /\ None \notin Drainers
    /\ {MaxActive, ClaimLimit, MaxAttempts} \subseteq Nat \ {0}
    /\ {QuarantineMax, HistoryMax, MaxAdmissions, MaxRefusals, MaxGeneration} \subseteq Nat

VARIABLES
    records,          \* table records: [state, leased, due] of each delivery
    recovery,         \* table capture_recovery_state: [state, attempts, generation, key]
    quarantine,       \* table quarantined_records: the deliveries with a row
    counters,         \* table counters, and the two totals it does not keep:
                      \* admissions refused and quarantined rows replayed
    drainLock,        \* table drain_lock: [owner, live]
    drainCompletion   \* table drain_completion: [state, owner]

spoolVars == <<records, recovery, quarantine, counters, drainLock, drainCompletion>>
queueVars == <<records, recovery, quarantine, counters>>

RecordRow == [state : {"absent", "pending", "claimed"}, leased : BOOLEAN, due : BOOLEAN]
RecoveryRow ==
    [state : {"none", "eligible", "waiting-dependency", "held", "committed", "quarantined"},
     attempts : Nat, generation : Nat, key : Keys \cup {None}]
CounterRow == [admitted : Nat, committed : Nat, quarantined : Nat, failed : Nat,
               refused : Nat, replayed : Nat]

NoRecord == [state |-> "absent", leased |-> FALSE, due |-> FALSE]
NewRecord == [state |-> "pending", leased |-> FALSE, due |-> TRUE]
NoRecovery == [state |-> "none", attempts |-> 0, generation |-> 0, key |-> None]

Active == {d \in Deliveries : records[d].state # "absent"}
Settled(row) == row.state \in {"committed", "quarantined"}

Spent(row) == row.attempts >= MaxAttempts

\* The recovery row of a delivery that gets a fresh budget of attempts.
NextGeneration(row) ==
    [state |-> "eligible", attempts |-> 0, generation |-> row.generation + 1, key |-> None]

---------------------------------------------------------------------------
SpoolInit ==
    /\ records = [d \in Deliveries |-> NoRecord]
    /\ recovery = [d \in Deliveries |-> NoRecovery]
    /\ quarantine = {}
    /\ counters = [admitted |-> 0, committed |-> 0, quarantined |-> 0, failed |-> 0,
                   refused |-> 0, replayed |-> 0]
    /\ drainLock = [owner |-> None, live |-> FALSE]
    /\ drainCompletion = [state |-> "pending", owner |-> None]

\* A delivery the spool still knows, active or settled, is a duplicate.
Known(d) == records[d].state # "absent" \/ Settled(recovery[d])

Admit(d) ==
    /\ ~Known(d)
    /\ recovery[d].state = "none"       \* the plain INSERT of the recovery row
    /\ Cardinality(Active) < MaxActive
    /\ counters.admitted < MaxAdmissions
    /\ records' = [records EXCEPT ![d] = NewRecord]
    /\ recovery' = [recovery EXCEPT ![d] = NextGeneration(NoRecovery)]
    /\ counters' = [counters EXCEPT !.admitted = @ + 1]
    /\ UNCHANGED <<quarantine, drainLock, drainCompletion>>

\* A full spool throws.  admit() counts the refusal after its own rollback; under
\* admitWithReceipt(), which every ingress calls, the same update runs inside the
\* caller's transaction and is rolled back with it.
RefuseAdmission(d, withReceipt) ==
    /\ ~Known(d)
    /\ Cardinality(Active) >= MaxActive
    /\ counters.refused < MaxRefusals
    /\ counters' = [counters EXCEPT !.refused = @ + 1,
                                   !.failed = IF withReceipt THEN @ ELSE @ + 1]
    /\ UNCHANGED <<records, recovery, quarantine, drainLock, drainCompletion>>

\* The quarantine table keeps the newest QuarantineMax rows; which row is the
\* oldest is left open.
Retained(rows, added) ==
    {kept \in SUBSET rows :
        IF Cardinality(rows) <= QuarantineMax
        THEN kept = rows
        ELSE Cardinality(kept) = QuarantineMax /\ (added \subseteq kept \/ kept \subseteq added)}

Expired == {d \in Deliveries : records[d].state = "claimed" /\ ~records[d].leased}
Takeable == Expired \cup {d \in Deliveries : records[d].state = "pending"}
Exhausted == {d \in Takeable : recovery[d].state = "eligible" /\ Spent(recovery[d])}
Claimable == {d \in Takeable : /\ records[d].due
                               /\ recovery[d].state = "eligible"
                               /\ ~Spent(recovery[d])}

\* claim(): expired claims return to pending, exhausted records are held, and at
\* most ClaimLimit due records are claimed.  Admission order is left open.
Claim(batch) ==
    LET damaged == batch \cap Unreadable
    IN  /\ batch \subseteq Claimable
        /\ \/ Cardinality(batch) = ClaimLimit
           \/ batch = Claimable /\ Cardinality(batch) <= ClaimLimit
        /\ records' = [d \in Deliveries |->
             IF d \in damaged THEN NoRecord
             ELSE IF d \in batch THEN [state |-> "claimed", leased |-> TRUE, due |-> TRUE]
             ELSE IF d \in Expired THEN [records[d] EXCEPT !.state = "pending"]
             ELSE records[d]]
        /\ recovery' = [d \in Deliveries |->
             IF d \in Exhausted THEN [recovery[d] EXCEPT !.state = "held"]
             ELSE IF d \in damaged THEN [recovery[d] EXCEPT !.state = "quarantined"]
             ELSE IF d \in batch THEN [recovery[d] EXCEPT !.attempts = @ + 1]
             ELSE recovery[d]]
        /\ quarantine' \in Retained(quarantine \cup damaged, damaged)
        /\ counters' = [counters EXCEPT !.quarantined = @ + Cardinality(damaged)]
        /\ UNCHANGED <<drainLock, drainCompletion>>

PrunedUnguarded(table) ==                            \* a mutant: active rows go as well
    {[d \in Deliveries |-> IF d \in gone THEN NoRecovery ELSE table[d]] : gone \in SUBSET Deliveries}

\* Every 256th settlement deletes all but the newest HistoryMax recovery rows,
\* sparing those of active records; here any settlement may.
Pruned(table) ==
    LET rows == {d \in Deliveries : table[d].state # "none"}
    IN  {[d \in Deliveries |-> IF d \in gone THEN NoRecovery ELSE table[d]] :
            gone \in {g \in SUBSET {d \in rows : Settled(table[d])} :
                        g = {} \/ Cardinality(rows \ g) >= HistoryMax}}

AcknowledgeAlways(d) ==                              \* a mutant: no check of what was deleted
    /\ records' = [records EXCEPT ![d] = NoRecord]
    /\ recovery' \in Pruned([recovery EXCEPT ![d].state = "committed"])
    /\ counters' = [counters EXCEPT !.committed = IF @ < MaxAdmissions THEN @ + 1 ELSE @]
    /\ UNCHANGED <<quarantine, drainLock, drainCompletion>>

\* Only a claimed record is acknowledged; nothing names the claim it belongs to.
Acknowledge(d) ==
    \/ /\ records[d].state = "claimed"
       /\ records' = [records EXCEPT ![d] = NoRecord]
       /\ recovery' \in Pruned([recovery EXCEPT ![d].state = "committed"])
       /\ counters' = [counters EXCEPT !.committed = @ + 1]
       /\ UNCHANGED <<quarantine, drainLock, drainCompletion>>
    \/ records[d].state # "claimed" /\ UNCHANGED spoolVars

Retry(d) ==
    \/ /\ records[d].state = "claimed"
       /\ records' = [records EXCEPT ![d] = [state |-> "pending", leased |-> FALSE, due |-> FALSE]]
       /\ recovery' = [recovery EXCEPT ![d].state =
                         IF Spent(recovery[d]) THEN "held" ELSE "eligible"]
       /\ UNCHANGED <<quarantine, counters, drainLock, drainCompletion>>
    \/ records[d].state # "claimed" /\ UNCHANGED spoolVars

\* Two updates with guards of their own: the recovery row waits if it is
\* eligible, the record is given back if it is claimed.
WaitForDependency(d, k) ==
    /\ recovery' = [recovery EXCEPT ![d] =
         IF @.state = "eligible" THEN [@ EXCEPT !.state = "waiting-dependency", !.key = k] ELSE @]
    /\ records' = [records EXCEPT ![d] =
         IF @.state = "claimed" THEN [@ EXCEPT !.state = "pending", !.leased = FALSE] ELSE @]
    /\ UNCHANGED <<quarantine, counters, drainLock, drainCompletion>>

Waiting(k) == {d \in Deliveries : recovery[d].state = "waiting-dependency" /\ recovery[d].key = k}

ReleaseDependency(k) ==
    /\ recovery' = [d \in Deliveries |->
         IF d \in Waiting(k) THEN NextGeneration(recovery[d]) ELSE recovery[d]]
    /\ records' = [d \in Deliveries |->
         IF d \in Waiting(k) /\ records[d].state = "pending"
         THEN [records[d] EXCEPT !.due = FALSE] ELSE records[d]]
    /\ UNCHANGED <<quarantine, counters, drainLock, drainCompletion>>

\* quarantine(): whoever calls it, whatever state the record is in.
Quarantine(d) ==
    \/ /\ records[d].state # "absent"
       /\ records' = [records EXCEPT ![d] = NoRecord]
       /\ recovery' \in Pruned([recovery EXCEPT ![d].state = "quarantined"])
       /\ quarantine' \in Retained(quarantine \cup {d}, {d})
       /\ counters' = [counters EXCEPT !.quarantined = @ + 1]
       /\ UNCHANGED <<drainLock, drainCompletion>>
    \/ records[d].state = "absent" /\ UNCHANGED spoolVars

\* What a recovery plan may select: a held pending record, or a quarantined
\* readable payload whose row is still kept.
Recoverable(d) ==
    \/ recovery[d].state = "held" /\ records[d].state = "pending"
    \/ /\ recovery[d].state = "quarantined" /\ records[d].state = "absent"
       /\ d \in quarantine /\ d \notin Unreadable

\* One selection of a recovery plan.  A quarantined payload is inserted again,
\* without the capacity check of an admission and without counting as one.
Recover(d) ==
    /\ Recoverable(d)
    /\ recovery[d].generation < MaxGeneration
    /\ records' = [records EXCEPT ![d] = NewRecord]
    /\ recovery' = [recovery EXCEPT ![d] = NextGeneration(@)]
    /\ counters' = [counters EXCEPT !.replayed = IF recovery[d].state = "quarantined" THEN @ + 1 ELSE @]
    /\ UNCHANGED <<quarantine, drainLock, drainCompletion>>

---------------------------------------------------------------------------
TryAcquireDrainLock(w) ==
    /\ drainLock.owner = None \/ ~drainLock.live
    /\ drainLock' = [owner |-> w, live |-> TRUE]
    /\ drainCompletion' = [state |-> "pending", owner |-> w]
    /\ UNCHANGED queueVars

CompleteDrain(w) ==
    \/ /\ drainLock.owner = w
       /\ drainLock' = [owner |-> None, live |-> FALSE]
       /\ drainCompletion' = [drainCompletion EXCEPT
                                !.state = IF drainCompletion.owner = w THEN "complete" ELSE @]
       /\ UNCHANGED queueVars
    \/ drainLock.owner # w /\ UNCHANGED spoolVars

---------------------------------------------------------------------------
(* The clock passes a deadline that a row holds. *)
ClaimLeaseLapses(d) ==
    /\ records[d].leased
    /\ records' = [records EXCEPT ![d].leased = FALSE]
    /\ UNCHANGED <<recovery, quarantine, counters, drainLock, drainCompletion>>

BackoffElapses(d) ==
    /\ records[d].state # "absent" /\ ~records[d].due
    /\ records' = [records EXCEPT ![d].due = TRUE]
    /\ UNCHANGED <<recovery, quarantine, counters, drainLock, drainCompletion>>

DrainLockLapses ==
    /\ drainLock.live
    /\ drainLock' = [drainLock EXCEPT !.live = FALSE]
    /\ UNCHANGED <<queueVars, drainCompletion>>

SpoolNext ==
    \/ \E d \in Deliveries :
          \/ Admit(d) \/ Acknowledge(d) \/ Retry(d) \/ Quarantine(d)
          \/ \E withReceipt \in BOOLEAN : RefuseAdmission(d, withReceipt)
          \/ Recover(d) \/ ClaimLeaseLapses(d) \/ BackoffElapses(d)
          \/ \E k \in Keys : WaitForDependency(d, k)
    \/ \E batch \in SUBSET Deliveries : Claim(batch)
    \/ \E k \in Keys :
          /\ \A d \in Waiting(k) : recovery[d].generation < MaxGeneration
          /\ ReleaseDependency(k)
    \/ \E w \in Drainers : TryAcquireDrainLock(w) \/ CompleteDrain(w)
    \/ DrainLockLapses

SpoolSpec == SpoolInit /\ [][SpoolNext]_spoolVars

---------------------------------------------------------------------------
\* Every table row is one its schema admits, and the counters are natural numbers.
SpoolTypeOK ==
    /\ records \in [Deliveries -> RecordRow]
    /\ recovery \in [Deliveries -> RecoveryRow]
    /\ quarantine \in SUBSET Deliveries
    /\ counters \in CounterRow
    /\ drainLock \in [owner : Drainers \cup {None}, live : BOOLEAN]
    /\ drainCompletion \in [state : {"pending", "complete"}, owner : Drainers \cup {None}]

\* The two tables never disagree, whichever process updates them last: a record
\* is active exactly while its recovery row is open, a claimed record is
\* eligible, and a row names a dependency exactly while it waits for it.
TablesAgree ==
    \A d \in Deliveries :
        /\ records[d].state = "absent" <=> recovery[d].state \in {"none", "committed", "quarantined"}
        /\ records[d].state = "claimed" => recovery[d].state = "eligible"
        /\ recovery[d].state = "waiting-dependency" => recovery[d].key # None
        /\ records[d].leased => records[d].state = "claimed"

\* Automatic attempts of one generation never pass the limit, and a record is
\* held only when they are used up.
AttemptsBounded ==
    \A d \in Deliveries :
        /\ recovery[d].attempts <= MaxAttempts
        /\ recovery[d].state = "held" => recovery[d].attempts = MaxAttempts

\* Accounting: whatever was admitted or replayed is active or was counted,
\* once, as committed or as quarantined, also after a late acknowledgement.
NothingUncounted ==
    counters.admitted + counters.replayed
        = Cardinality(Active) + counters.committed + counters.quarantined

\* Nobody holds the drain lock when the last drain is reported complete.
CompleteMeansUnlocked == drainCompletion.state = "complete" => drainLock.owner = None

\* Whoever calls, and however late: the two tables describe the same deliveries,
\* no generation is tried too often, nothing active or settled is uncounted, and
\* a drain that is reported complete has ended.
SpoolIsConsistent == TablesAgree /\ AttemptsBounded /\ NothingUncounted /\ CompleteMeansUnlocked

\* The attempt budget of a live row is reset only by opening a new generation.
BudgetResetOpensGeneration ==
    [][\A d \in Deliveries :
         (recovery'[d].attempts < recovery[d].attempts /\ recovery'[d].state # "none")
            => recovery'[d].generation = recovery[d].generation + 1]_spoolVars

\* A held record leaves that state only by a recovery plan or into quarantine.
HeldNeedsRecovery ==
    [][\A d \in Deliveries :
         (recovery[d].state = "held" /\ recovery'[d].state \notin {"held", "quarantined", "none"})
            => recovery'[d].generation > recovery[d].generation]_spoolVars
=============================================================================
