------------------------------ MODULE CaptureDrain ------------------------------
(***************************************************************************)
(* drainCaptureSpool: the detached consumers that move records from the    *)
(* spool (CaptureSpool) to the experience database and offer them to the   *)
(* analysis queue.  The two databases share no transaction, so every read  *)
(* and every transaction of a drain is a step of its own, another process  *)
(* may run between any two, and a consumer may die at any of them.         *)
(***************************************************************************)
EXTENDS CaptureSpool

CONSTANTS
    Announces,   \* the session or request a start or a pre-action introduces, or None
    SessionOf,   \* the session a delivery needs in the database, or None
    RequestOf,   \* the request a post-result needs, or None
    Conflicts,   \* the stored deliveries because of which the database refuses one
                 \* (same identity, other content); itself, if it refuses it anyway
    Overrun,     \* TRUE: a drain may outlive the leases of its lock and its claims
    MaxFaults    \* bound of the model: crashes and failed transactions

ASSUME DrainAssumption ==
    /\ Conflicts \in [Deliveries -> SUBSET Deliveries]
    /\ \A d, e \in Deliveries : e \in Conflicts[d] => d \in Conflicts[e]
    /\ Announces \in [Deliveries -> Keys \cup {None}]
    /\ SessionOf \in [Deliveries -> Keys \cup {None}]
    /\ RequestOf \in [Deliveries -> Keys \cup {None}]
    /\ Overrun \in BOOLEAN /\ MaxFaults \in Nat

VARIABLES
    stored,        \* deliveries whose record is in the experience database
    offered,       \* deliveries whose analysis was offered after they were stored
    analysisWork,  \* the analysis tables hold work no coordinator has taken
    awake,         \* a coordinator was launched and has not taken the work yet
    drain,         \* the local variables of each consumer
    faults         \* crashes and failed transactions so far

storeVars == <<stored, offered, analysisWork, awake>>
drainVars == <<storeVars, drain, faults>>
vars == <<spoolVars, drainVars>>

Labels == {"idle", "claim", "next", "check", "park", "reject", "persist", "offer",
           "release", "acknowledge", "retry", "wake", "complete"}
Idle == [pc |-> "idle", batch |-> {}, cur |-> None, key |-> None,
         work |-> FALSE, acked |-> FALSE, added |-> FALSE, unacked |-> {}]

DrainInit ==
    /\ SpoolInit
    /\ stored = {} /\ offered = {}
    /\ analysisWork = FALSE /\ awake = FALSE
    /\ drain = [w \in Drainers |-> Idle]
    /\ faults = 0

At(w, label) == drain[w].pc = label
Goto(w, label) == drain' = [drain EXCEPT ![w].pc = label]
Cur(w) == drain[w].cur

\* The sessions and requests the database knows.
Present == {Announces[d] : d \in stored}

MissingRequest(d) ==                                 \* a mutant: the session is not looked for
    IF RequestOf[d] \notin Present \cup {None} THEN RequestOf[d] ELSE None

\* missingDependency(): the session is looked for first, then the request.
Missing(d) ==
    IF SessionOf[d] \notin Present \cup {None} THEN SessionOf[d]
    ELSE IF RequestOf[d] \notin Present \cup {None} THEN RequestOf[d]
    ELSE None

\* The database holds, or could never hold, something that contradicts d.
Refused(d) == Conflicts[d] \cap (stored \cup {d}) # {}

---------------------------------------------------------------------------
Start(w) ==
    /\ At(w, "idle")
    /\ TryAcquireDrainLock(w)
    /\ Goto(w, "claim")
    /\ UNCHANGED <<storeVars, faults>>

ClaimBatch(w) ==
    /\ At(w, "claim")
    /\ \E batch \in SUBSET Claimable :
          /\ Claim(batch)
          /\ drain' = [drain EXCEPT ![w].pc = "next", ![w].batch = batch \ Unreadable]
    /\ UNCHANGED <<storeVars, faults>>

TakeNext(w) ==
    /\ At(w, "next")
    /\ \E d \in drain[w].batch :
          drain' = [drain EXCEPT ![w].pc = "check", ![w].cur = d, ![w].batch = @ \ {d}]
    /\ UNCHANGED <<spoolVars, storeVars, faults>>

\* The database is read here; the spool acts on the answer in a later step.
Check(w) ==
    /\ At(w, "check")
    /\ drain' = [drain EXCEPT ![w].key = Missing(Cur(w)),
                              ![w].pc = IF Missing(Cur(w)) # None THEN "park"
                                        ELSE IF Refused(Cur(w)) THEN "reject" ELSE "persist"]
    /\ UNCHANGED <<spoolVars, storeVars, faults>>

Park(w) ==
    /\ At(w, "park")
    /\ WaitForDependency(Cur(w), drain[w].key)
    /\ Goto(w, "next")
    /\ UNCHANGED <<storeVars, faults>>

Reject(w) ==
    /\ At(w, "reject")
    /\ Quarantine(Cur(w))
    /\ Goto(w, "next")
    /\ UNCHANGED <<storeVars, faults>>

PersistUnchecked(w) ==                               \* a mutant: the earlier check is trusted
    /\ At(w, "persist")
    /\ stored' = stored \cup {Cur(w)} /\ Goto(w, "offer")
    /\ UNCHANGED <<spoolVars, offered, analysisWork, awake, faults>>

PersistFirstAttempt(w) ==                            \* a mutant: a second attempt is taken for a duplicate
    /\ At(w, "persist")
    /\ stored' = IF recovery[Cur(w)].attempts > 1 THEN stored ELSE stored \cup {Cur(w)}
    /\ Goto(w, "offer")
    /\ UNCHANGED <<spoolVars, offered, analysisWork, awake, faults>>

\* One transaction that verifies again: storing a record that is already stored
\* changes nothing, and a conflict with another is a TypeError.
Persist(w) ==
    /\ At(w, "persist")
    /\ \/ ~Refused(Cur(w)) /\ stored' = stored \cup {Cur(w)} /\ Goto(w, "offer")
       \/ Refused(Cur(w)) /\ stored' = stored /\ Goto(w, "reject")
    /\ UNCHANGED <<spoolVars, offered, analysisWork, awake, faults>>

\* admitCommittedSession(): learning may be off for the project, the offer may
\* add nothing, and a failure of the analysis store is swallowed.
OfferAnalysis(w) ==
    /\ At(w, "offer")
    /\ offered' = offered \cup {Cur(w)}
    /\ \E admitted, added \in BOOLEAN :
          /\ added => admitted
          /\ analysisWork' = (analysisWork \/ added)
          /\ drain' = [drain EXCEPT
                ![w].pc = IF Announces[Cur(w)] # None THEN "release" ELSE "acknowledge",
                ![w].work = added,
                ![w].unacked = IF admitted THEN @ \cup {Cur(w)} ELSE @]
    /\ UNCHANGED <<spoolVars, stored, awake, faults>>

ReleaseNothing(w) ==                                 \* a mutant: nobody is told
    /\ At(w, "release")
    /\ Goto(w, "acknowledge")
    /\ UNCHANGED <<spoolVars, storeVars, faults>>

Release(w) ==
    /\ At(w, "release")
    /\ ReleaseDependency(Announces[Cur(w)])
    /\ Goto(w, "acknowledge")
    /\ UNCHANGED <<storeVars, faults>>

AcknowledgeRecord(w) ==
    /\ At(w, "acknowledge")
    /\ Acknowledge(Cur(w))
    /\ drain' = [drain EXCEPT ![w].pc = "next", ![w].acked = TRUE, ![w].work = FALSE,
                              ![w].added = @ \/ drain[w].work, ![w].unacked = @ \ {Cur(w)}]
    /\ UNCHANGED <<storeVars, faults>>

RetryRecord(w) ==
    /\ At(w, "retry")
    /\ Retry(Cur(w))
    /\ Goto(w, "next")
    /\ UNCHANGED <<storeVars, faults>>

\* The batch is done: claim again while something eligible is pending and the
\* delivery deadline has not passed.
EligiblePending == \E d \in Deliveries : records[d].state = "pending" /\ recovery[d].state = "eligible"

EndBatch(w) ==
    /\ At(w, "next") /\ drain[w].batch = {}
    /\ \/ EligiblePending /\ Goto(w, "claim")
       \/ Goto(w, "wake")
    /\ UNCHANGED <<spoolVars, storeVars, faults>>

WakeIntentOfOwnWork(w) == drain[w].added             \* a mutant
WakeIntent(w) == drain[w].added \/ analysisWork

\* The coordinator is launched, at best, once nothing this drain offered is
\* unacknowledged; work an earlier drain left behind counts as well.
WakeAnalysis(w) ==
    /\ At(w, "wake")
    /\ awake' = (awake \/ (/\ drain[w].acked \/ Active = {}
                           /\ drain[w].unacked = {}
                           /\ WakeIntent(w)))
    /\ Goto(w, "complete")
    /\ UNCHANGED <<spoolVars, stored, offered, analysisWork, faults>>

Complete(w) ==
    /\ At(w, "complete")
    /\ CompleteDrain(w)
    /\ drain' = [drain EXCEPT ![w] = Idle]
    /\ UNCHANGED <<storeVars, faults>>

---------------------------------------------------------------------------
Fault == faults < MaxFaults /\ faults' = faults + 1

\* A transaction of the current record throws and the record is retried.
FailRecord(w) ==
    /\ \E label \in {"check", "park", "reject", "persist", "offer", "release", "acknowledge"} : At(w, label)
    /\ Fault
    /\ Goto(w, "retry")
    /\ UNCHANGED <<spoolVars, storeVars>>

\* A spool transaction outside the record's try block throws, or the launch of
\* the coordinator fails: straight to the finally block.
AbortDrain(w) ==
    /\ \E label \in {"claim", "next", "retry", "wake"} : At(w, label)
    /\ Fault
    /\ Goto(w, "complete")
    /\ UNCHANGED <<spoolVars, storeVars>>

\* The process dies: its locks, claims and stored records stay.
Crash(w) ==
    /\ ~At(w, "idle")
    /\ Fault
    /\ drain' = [drain EXCEPT ![w] = Idle]
    /\ UNCHANGED <<spoolVars, storeVars>>

\* The launched coordinator takes the outstanding work.
TakeAnalysisWork ==
    /\ awake
    /\ awake' = FALSE /\ analysisWork' = FALSE
    /\ UNCHANGED <<spoolVars, stored, offered, drain, faults>>

Holds(w, d) == ~At(w, "idle") /\ (d \in drain[w].batch \/ (d = Cur(w) /\ ~At(w, "next")))

Environment ==
    /\ \/ \E d \in Deliveries :
             \/ Admit(d) \/ Recover(d) \/ BackoffElapses(d)
             \/ \E withReceipt \in BOOLEAN : RefuseAdmission(d, withReceipt)
             \/ (Overrun \/ \A w \in Drainers : ~Holds(w, d)) /\ ClaimLeaseLapses(d)
       \/ (Overrun \/ \A w \in Drainers : drainLock.owner = w => At(w, "idle")) /\ DrainLockLapses
    /\ UNCHANGED drainVars

Work(w) ==
    \/ ClaimBatch(w) \/ TakeNext(w) \/ Check(w) \/ Park(w) \/ Reject(w) \/ Persist(w)
    \/ OfferAnalysis(w) \/ Release(w) \/ AcknowledgeRecord(w) \/ RetryRecord(w)
    \/ EndBatch(w) \/ WakeAnalysis(w) \/ Complete(w)

Next ==
    \/ \E w \in Drainers : Start(w) \/ Work(w) \/ FailRecord(w) \/ AbortDrain(w) \/ Crash(w)
    \/ TakeAnalysisWork
    \/ Environment

Spec == DrainInit /\ [][Next]_vars

\* A started consumer keeps running, clocks advance, and further hooks (or the
\* drain command) keep starting consumers.
Fairness ==
    /\ \A w \in Drainers : WF_vars(Work(w))
    /\ WF_vars(\E w \in Drainers : Start(w))
    /\ \A d \in Deliveries : WF_vars(BackoffElapses(d) /\ UNCHANGED drainVars)
    /\ \A d \in Deliveries : WF_vars(ClaimLeaseLapses(d) /\ Environment)
    /\ WF_vars(DrainLockLapses /\ Environment)

FairSpec == Spec /\ Fairness

---------------------------------------------------------------------------
\* Consumers stay in their control flow and hold deliveries; the bound is kept.
DrainTypeOK ==
    /\ SpoolTypeOK
    /\ stored \in SUBSET Deliveries /\ offered \in SUBSET Deliveries
    /\ analysisWork \in BOOLEAN /\ awake \in BOOLEAN
    /\ drain \in [Drainers -> [pc : Labels, batch : SUBSET Deliveries, cur : Deliveries \cup {None},
                               key : Keys \cup {None}, work : BOOLEAN,
                               acked : BOOLEAN, added : BOOLEAN, unacked : SUBSET Deliveries]]
    /\ faults \in 0..MaxFaults

\* Nothing is acknowledged out of the spool before it is in the database and was
\* offered to analysis, whichever consumer acknowledges it and whenever.
CommittedIsStored ==
    \A d \in Deliveries : recovery[d].state = "committed" => d \in stored \cap offered

\* A stored delivery found everything it needs already stored.
StoredInOrder == \A d \in stored : {SessionOf[d], RequestOf[d]} \ {None} \subseteq Present

\* Of the deliveries that contradict each other the database keeps at most one,
\* although they may be checked by two consumers before either is stored.
ConflictsNotStored == \A d \in stored : Conflicts[d] \cap stored = {}

\* What is stored found what it depends on stored, and nothing beside it
\* contradicts it, also if consumers work on after their leases have passed.
StoredIsSound == StoredInOrder /\ ConflictsNotStored

\* The database never holds a delivery the spool has put into quarantine.
QuarantinedIsNotStored == \A d \in Deliveries : recovery[d].state = "quarantined" => d \notin stored

\* A waiting record whose dependency is stored will be released: a delivery that
\* announces it is still active, so a drain has yet to pass its release.
NoLostWakeup ==
    \A d \in Deliveries :
        (recovery[d].state = "waiting-dependency" /\ recovery[d].key \in Present)
            => \E e \in stored : Announces[e] = recovery[d].key /\ records[e].state # "absent"

\* Seen from outside, the spool, its consumers and the database are an
\* at-least-once delivery: what each delivery has come to ("lost" is no status of it).
Status == [d \in Deliveries |->
    IF d \in stored THEN "delivered"
    ELSE IF records[d].state # "absent" THEN "accepted"
    ELSE IF recovery[d].state = "quarantined" THEN "rejected"
    ELSE IF recovery[d].state = "committed" THEN "lost" ELSE "absent"]

Promise == INSTANCE AtLeastOnceDelivery WITH
    Needs <- [d \in Deliveries |-> {{e \in Deliveries : Announces[e] = k} : k \in {SessionOf[d], RequestOf[d]} \ {None}}],
    Excludes <- Conflicts, status <- Status

\* The drain implements AtLeastOnceDelivery: nothing accepted is lost by a crash,
\* a lapsed lease or a second consumer, nothing reaches the database out of
\* order, beside its contradiction, or after it was rejected.
ImplementsDelivery == Promise!Spec

\* Every accepted delivery is stored, rejected or held, or still waits for a
\* dependency that the database does not have, or whose own record is held.
AcceptedSettles ==
    \A d \in Deliveries :
        records[d].state # "absent" ~>
            \/ records[d].state = "absent"
            \/ recovery[d].state = "held"
            \/ /\ recovery[d].state = "waiting-dependency"
               /\ \A e \in stored : Announces[e] = recovery[d].key => recovery[e].state = "held"

\* Analysis work left behind by a crashed drain wakes a coordinator once the
\* spool is empty.
OutstandingWorkIsWoken == (analysisWork /\ Active = {}) ~> (awake \/ Active # {})
=============================================================================
