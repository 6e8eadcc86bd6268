----------------------------- MODULE AnalysisWorkers -----------------------------
(***************************************************************************)
(* The processes that work on the analysis queue (learning/worker.ts and   *)
(* the calls service.ts makes): a coordinator that holds a lease, looks    *)
(* for claimable jobs and starts a child per worker slot; children, each a *)
(* watchdog with a thread that claims one job.  Every transaction is one   *)
(* step, and any process may die between two of them.                      *)
(*                                                                         *)
(* A slot's row names its coordinator, but only the slot's own child reads *)
(* it, so the child is identified with its slot.  The slot of a process    *)
(* that is gone is reused, where the code draws a new identifier.          *)
(***************************************************************************)
EXTENDS AnalysisJobs

CONSTANTS
    Coordinators,
    Slots,
    MaxProcesses,   \* the setting of the same name
    MaxFaults,      \* bound of the model: crashes, failed starts, timeouts
    None

ASSUME WorkersAssumption ==
    /\ IsFiniteSet(Coordinators) /\ IsFiniteSet(Slots)
    /\ MaxProcesses \in Nat \ {0} /\ MaxFaults \in Nat
    /\ None \notin Coordinators /\ None \notin Streams \X Generations

VARIABLES
    lease,          \* table operational_analysis_coordinator
    slots,          \* table operational_analysis_worker_slots
    coordinator,    \* the local variables of each coordinator process
    child,          \* the local variables of each child process
    wake,           \* a consumer of the spool is going to launch a coordinator
    faults          \* failures so far, and whether an owner has missed a deadline

workerVars == <<lease, slots, coordinator, child, wake, faults>>
vars == <<jobVars, workerVars>>

NoLease == [owner |-> None, live |-> FALSE]
NoSlot == [held |-> FALSE, live |-> FALSE, job |-> None]
NoCoordinator == [pc |-> "none", budget |-> 0, quiet |-> FALSE]
NoChild == [pc |-> "none", by |-> None, job |-> None, attempt |-> 0]

WorkersInit ==
    /\ JobsInit
    /\ lease = NoLease
    /\ slots = [k \in Slots |-> NoSlot]
    /\ coordinator = [c \in Coordinators |-> NoCoordinator]
    /\ child = [k \in Slots |-> NoChild]
    /\ wake = FALSE
    /\ faults = [failed |-> 0, late |-> FALSE]

---------------------------------------------------------------------------
Holds(c) == lease.owner = c /\ lease.live
LeaseIsFree == ~lease.live
Active(c) == {k \in Slots : child[k].by = c}
ClaimableJobs == {claim \in Streams \X Generations : Claimable(claim[1], claim[2])}

LiveSlots == {k \in Slots : slots[k].live}
LiveRunning == {claim \in Streams \X Generations :
                  jobs[claim[1]][claim[2]].state = "running" /\ jobs[claim[1]][claim[2]].leased}
\* Slots in use, and running jobs that have lost theirs.
Occupied == Cardinality(LiveSlots) + Cardinality({claim \in LiveRunning : \A k \in LiveSlots : slots[k].job # claim})

Linked(claim) == \E k \in Slots : slots[k].held /\ slots[k].job = claim
ReleasedSlot(k) == NoSlot
CurrentSlot(k) == slots[k].live /\ slots[k].job = None

\* A behaviour of the model has up to MaxFaults failures, or one missed deadline.
Fault == ~faults.late /\ faults.failed < MaxFaults /\ faults' = [faults EXCEPT !.failed = @ + 1]
MissedDeadline == ~faults.late /\ faults.failed = 0 /\ faults' = [faults EXCEPT !.late = TRUE]

---------------------------------------------------------------------------
\* A consumer of the spool admits a range; if that added work, it will launch.
Offer(s, high) ==
    /\ Enqueue(s, high)
    /\ wake' = (wake \/ jobs' # jobs)
    /\ UNCHANGED <<lease, slots, coordinator, child, faults>>

Launched(c) ==
    /\ coordinator[c].pc = "none"
    /\ coordinator' = [coordinator EXCEPT ![c] = [NoCoordinator EXCEPT !.pc = "launched"]]
    /\ UNCHANGED <<jobVars, lease, slots, child, faults>>

Launch(c) == wake /\ wake' = FALSE /\ Launched(c)

\* A later consumer finds outstanding work, whatever became of earlier launches.
Relaunch(c) ==
    /\ \E s \in Streams : Open(jobs[s]) \cup Running(s) # {}
    /\ Launched(c) /\ UNCHANGED wake

---------------------------------------------------------------------------
\* runAnalysisCoordinator()
At(c, pc) == coordinator[c].pc = pc
Goto(c, pc) == coordinator' = [coordinator EXCEPT ![c].pc = pc]
\* The process is gone; its children live on, and nobody counts them.
Gone(c) ==
    /\ coordinator' = [coordinator EXCEPT ![c] = NoCoordinator]
    /\ child' = [k \in Slots |-> IF k \in Active(c) THEN [child[k] EXCEPT !.by = None] ELSE child[k]]

AcquireLease(c) ==
    /\ At(c, "launched")
    /\ \/ LeaseIsFree /\ lease' = [owner |-> c, live |-> TRUE] /\ Goto(c, "renew")
       \/ ~LeaseIsFree /\ lease' = lease /\ Goto(c, "none")
    /\ UNCHANGED <<jobVars, slots, child, wake, faults>>

\* The renewal is not due yet, or it succeeds.
RenewLease(c) ==
    /\ At(c, "renew")
    /\ Goto(c, "recover")
    /\ UNCHANGED <<jobVars, lease, slots, child, wake, faults>>

\* It is due and fails.
LoseLease(c) ==
    /\ At(c, "renew") /\ ~Holds(c)
    /\ Goto(c, "exit")
    /\ UNCHANGED <<jobVars, lease, slots, child, wake, faults>>

RecoverExpired(c) ==
    /\ At(c, "recover")
    /\ Goto(c, "count")
    /\ RecoverExpiredJobs \/ (AllExpired = {} /\ UNCHANGED jobVars)
    /\ UNCHANGED <<lease, slots, child, wake, faults>>

CountWork(c) ==
    /\ At(c, "count")
    /\ LET claimable == Cardinality(ClaimableJobs)
           active == Cardinality(Active(c))
           room == IF active >= MaxProcesses THEN 0 ELSE MaxProcesses - active
       IN  coordinator' = [coordinator EXCEPT ![c] =
             [pc |-> "spawn", budget |-> IF room <= claimable THEN room ELSE claimable,
              quiet |-> claimable = 0 /\ Occupied = 0 /\ active = 0]]
    /\ UNCHANGED <<jobVars, lease, slots, child, wake, faults>>

\* reserveWorkerSlot() and the start of the child.
Spawn(c) ==
    /\ At(c, "spawn") /\ coordinator[c].budget > 0
    /\ LET kept == [k \in Slots |-> IF slots[k].live THEN slots[k] ELSE NoSlot]
       IN  \/ /\ ~Holds(c)
              /\ Goto(c, "idle") /\ UNCHANGED <<slots, child>>
           \/ /\ Holds(c) /\ Occupied >= MaxProcesses
              /\ slots' = kept /\ Goto(c, "idle") /\ UNCHANGED child
           \/ /\ Holds(c) /\ Occupied < MaxProcesses
              /\ \E k \in Slots :
                    /\ ~slots[k].live /\ child[k].pc = "none"
                    /\ slots' = [kept EXCEPT ![k] = [held |-> TRUE, live |-> TRUE, job |-> None]]
                    /\ child' = [child EXCEPT ![k] = [NoChild EXCEPT !.pc = "spawned", !.by = c]]
              /\ coordinator' = [coordinator EXCEPT ![c].budget = @ - 1]
    /\ UNCHANGED <<jobVars, lease, wake, faults>>

SpawnedAll(c) ==
    /\ At(c, "spawn") /\ coordinator[c].budget = 0
    /\ Goto(c, "idle")
    /\ UNCHANGED <<jobVars, lease, slots, child, wake, faults>>

\* The child could not be started: its coordinator gives the slot back.
SpawnFails(k) ==
    /\ child[k].pc = "spawned" /\ child[k].by # None /\ Fault
    /\ slots' = [slots EXCEPT ![k] = ReleasedSlot(k)]
    /\ child' = [child EXCEPT ![k] = NoChild]
    /\ UNCHANGED <<jobVars, lease, coordinator, wake>>

\* Another round, or, when nothing is left to do and the idle time is over, the end.
CheckIdle(c) ==
    /\ At(c, "idle")
    /\ \/ coordinator' = [coordinator EXCEPT ![c] = [NoCoordinator EXCEPT !.pc = "renew"]]
       \/ /\ coordinator[c].quiet /\ Active(c) = {}
          /\ ClaimableJobs = {} /\ Occupied = 0
          /\ Goto(c, "exit")
    /\ UNCHANGED <<jobVars, lease, slots, child, wake, faults>>

ReleaseLease(c) ==
    /\ At(c, "exit")
    /\ lease' = IF Holds(c) THEN NoLease ELSE lease
    /\ Gone(c)
    /\ UNCHANGED <<jobVars, slots, wake, faults>>

\* A transaction of the loop throws: the lease is still given back.
CoordinatorFails(c) ==
    /\ coordinator[c].pc \in {"renew", "recover", "count", "spawn", "idle"} /\ Fault
    /\ Goto(c, "exit")
    /\ UNCHANGED <<jobVars, lease, slots, child, wake>>

CoordinatorCrashes(c) ==
    /\ ~At(c, "none") /\ Fault
    /\ Gone(c)
    /\ UNCHANGED <<jobVars, lease, slots, wake>>

---------------------------------------------------------------------------
\* runAnalysisWorkerWatchdog() and, in its thread, OperationalLearningService.runNext()
In(k, pc) == child[k].pc = pc
Exited(k) == child' = [child EXCEPT ![k] = [@ EXCEPT !.pc = "exited", !.job = None, !.attempt = 0]]

StartWatchdog(k) ==
    /\ In(k, "spawned")
    /\ child' = [child EXCEPT ![k] = IF slots[k].live THEN [@ EXCEPT !.pc = "started"] ELSE NoChild]
    /\ UNCHANGED <<jobVars, lease, slots, coordinator, wake, faults>>

\* The claim fails on the slot's fence, or on the unique index if another slot
\* still names the job: the thread ends either way.
ChildClaims(k) ==
    /\ In(k, "started")
    /\ \/ /\ CurrentSlot(k)
          /\ \E s \in Streams, g \in Generations :
                /\ ~Linked(<<s, g>>)
                /\ Claim(s, g)
                /\ slots' = [slots EXCEPT ![k].job = <<s, g>>]
                /\ child' = [child EXCEPT ![k] =
                      [@ EXCEPT !.pc = "working", !.job = <<s, g>>, !.attempt = jobs[s][g].attempts + 1]]
       \/ /\ ~CurrentSlot(k) \/ ClaimableJobs = {} \/ \E claim \in ClaimableJobs : Linked(claim)
          /\ Exited(k) /\ UNCHANGED <<jobVars, slots>>
    /\ UNCHANGED <<lease, coordinator, wake, faults>>

ChildAnswers(k) ==
    /\ In(k, "working")
    /\ LET s == child[k].job[1]  g == child[k].job[2]
       IN  \/ \E upTo \in HighWaters : Acknowledge(s, g, child[k].attempt, upTo)
           \/ \E invalid \in BOOLEAN : Retry(s, g, child[k].attempt, invalid)
    /\ Exited(k)
    /\ UNCHANGED <<lease, slots, coordinator, wake, faults>>

\* Its answer was refused: the claim is no longer the child's.
ChildIsRefused(k) ==
    /\ In(k, "working")
    /\ ~Owned(child[k].job[1], child[k].job[2], child[k].attempt)
    /\ child' = [child EXCEPT ![k].pc = "late"]
    /\ UNCHANGED <<jobVars, lease, slots, coordinator, wake, faults>>

LateChildRecovers(k) ==
    /\ In(k, "late")
    /\ LET s == child[k].job[1]  g == child[k].job[2]
       IN  \/ RecoverExpiredAttempt(s, g, child[k].attempt)
           \/ ~ExpiredAttempt(s, g, child[k].attempt) /\ UNCHANGED jobVars
    /\ Exited(k)
    /\ UNCHANGED <<lease, slots, coordinator, wake, faults>>

\* The watchdog ends the thread: its slot is lost, or the execution limit passed.
Terminate(k) ==
    /\ child[k].pc \in {"started", "working", "late"}
    /\ IF slots[k].live THEN Fault ELSE UNCHANGED faults
    /\ Exited(k)
    /\ UNCHANGED <<jobVars, lease, slots, coordinator, wake>>

ReleaseSlot(k) ==
    /\ In(k, "exited")
    /\ slots' = [slots EXCEPT ![k] = ReleasedSlot(k)]
    /\ child' = [child EXCEPT ![k] = NoChild]
    /\ UNCHANGED <<jobVars, lease, coordinator, wake, faults>>

ChildCrashes(k) ==
    /\ ~In(k, "none") /\ Fault
    /\ child' = [child EXCEPT ![k] = NoChild]
    /\ UNCHANGED <<jobVars, lease, slots, coordinator, wake>>

---------------------------------------------------------------------------
\* The clock.  A process that keeps its deadlines renews a lease before it passes:
\* the coordinator every 5 of 10 seconds, the watchdog every 5 of 45, and the
\* thread is ended 30 seconds after its start, before its claim of 30 seconds ends.
Late(ownerIsGone) == IF ownerIsGone THEN UNCHANGED faults ELSE MissedDeadline

CoordinatorLeasePasses ==
    /\ lease.live
    /\ Late(coordinator[lease.owner].pc \in {"none", "launched"})
    /\ lease' = [lease EXCEPT !.live = FALSE]
    /\ UNCHANGED <<jobVars, slots, coordinator, child, wake>>

SlotLeasePasses(k) ==
    /\ slots[k].live
    /\ Late(In(k, "none"))
    /\ slots' = [slots EXCEPT ![k].live = FALSE]
    /\ UNCHANGED <<jobVars, lease, coordinator, child, wake>>

ClaimPasses(s, g) ==
    /\ Late(\A k \in Slots : child[k].job # <<s, g>> \/ child[k].attempt # jobs[s][g].attempts)
    /\ JobLeaseLapses(s, g)
    /\ UNCHANGED <<lease, slots, coordinator, child, wake>>

Coordinate(c) ==
    \/ AcquireLease(c) \/ RenewLease(c) \/ LoseLease(c) \/ RecoverExpired(c) \/ CountWork(c)
    \/ Spawn(c) \/ SpawnedAll(c) \/ CheckIdle(c) \/ ReleaseLease(c)

Work(k) ==
    \/ StartWatchdog(k) \/ ChildClaims(k) \/ ChildAnswers(k) \/ ChildIsRefused(k)
    \/ LateChildRecovers(k) \/ ReleaseSlot(k)

Elapse(s, g) == ClaimPasses(s, g) \/ (BackoffElapses(s, g) /\ UNCHANGED workerVars)

\* Without Relaunch: every launch follows an offer.
OfferedNext ==
    \/ \E s \in Streams, high \in HighWaters : Offer(s, high)
    \/ \E c \in Coordinators : Launch(c) \/ Coordinate(c) \/ CoordinatorFails(c) \/ CoordinatorCrashes(c)
    \/ \E k \in Slots : Work(k) \/ SpawnFails(k) \/ Terminate(k) \/ ChildCrashes(k) \/ SlotLeasePasses(k)
    \/ \E s \in Streams, g \in Generations : Elapse(s, g)
    \/ CoordinatorLeasePasses

Next == OfferedNext \/ \E c \in Coordinators : Relaunch(c)

OfferedSpec == WorkersInit /\ [][OfferedNext]_vars
WorkersSpec == WorkersInit /\ [][Next]_vars

\* Processes keep running, deadlines pass, a renewal is due again and again, and
\* later consumers keep looking for outstanding work.
Fairness ==
    /\ \A c \in Coordinators :
          WF_vars(Coordinate(c)) /\ SF_vars(LoseLease(c)) /\ WF_vars(Relaunch(c))
    /\ \A k \in Slots : WF_vars(Work(k)) /\ WF_vars(SlotLeasePasses(k))
    /\ \A s \in Streams, g \in Generations : WF_vars(Elapse(s, g))
    /\ WF_vars(CoordinatorLeasePasses)
FairSpec == WorkersSpec /\ Fairness

---------------------------------------------------------------------------
\* The rows of the lease and of the slots, and the program counters.
WorkersTypeOK ==
    /\ JobsTypeOK
    /\ lease \in [owner : Coordinators \cup {None}, live : BOOLEAN] /\ (lease.live => lease.owner # None)
    /\ slots \in [Slots -> [held : BOOLEAN, live : BOOLEAN, job : (Streams \X Generations) \cup {None}]]
    /\ \A k \in Slots : slots[k].held \/ slots[k] = NoSlot
    /\ coordinator \in [Coordinators ->
         [pc : {"none", "launched", "renew", "recover", "count", "spawn", "idle", "exit"},
          budget : 0..MaxProcesses, quiet : BOOLEAN]]
    /\ child \in [Slots -> [pc : {"none", "spawned", "started", "working", "late", "exited"},
                            by : Coordinators \cup {None}, job : (Streams \X Generations) \cup {None},
                            attempt : 0..MaxAttempts]]
    /\ wake \in BOOLEAN /\ faults \in [failed : 0..MaxFaults, late : BOOLEAN]

\* Slots in use and running jobs without a slot never exceed the setting, whoever
\* dies, and however late leases are noticed: a new child is started only in the
\* place of one that is accounted for.
OccupancyBounded ==
    Cardinality(LiveSlots \cup (LiveRunning \ {slots[k].job : k \in LiveSlots})) <= MaxProcesses

DeadlinesKept == ~faults.late

\* While processes keep their deadlines, the setting bounds the children that
\* really run, those of a coordinator that died included.
ChildrenWithinLimit ==
    DeadlinesKept => Cardinality({k \in Slots : child[k].pc # "none"}) <= MaxProcesses

\* While processes keep their deadlines, one coordinator at a time is past its lease.
OneCoordinator ==
    DeadlinesKept => Cardinality({c \in Coordinators : coordinator[c].pc \notin {"none", "launched"}}) <= 1

\* While processes keep their deadlines, a child that is at work owns its job: no
\* other child has claimed it, and no transaction has given it up.
WorkIsOwned ==
    DeadlinesKept => \A k \in Slots : child[k].pc = "working" =>
        /\ Owned(child[k].job[1], child[k].job[2], child[k].attempt)
        /\ slots[k].job = child[k].job

\* Whatever is admitted is analysed in the end, or its stream is in quarantine.
AdmittedIsAnalysed ==
    \A s \in Streams, n \in Ordinals :
        (stream[s].committed >= n) ~> (stream[s].processed >= n \/ Blocked(s))

\* A launch that finds the lease taken relies on its holder: pending work that no
\* launch is coming for has a coordinator that will look at it once more.
LaunchIsNotLost ==
    (\E claim \in ClaimableJobs : jobs[claim[1]][claim[2]].state = "pending") /\ ~wake =>
        \E c \in Coordinators : coordinator[c].pc \notin {"none", "exit"}
=============================================================================
