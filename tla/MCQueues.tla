---------------------------- MODULE MCQueues ----------------------------
(* The two queues, in three machines of which one runs.  The queue of analysis  *)
(* jobs, with two streams of two ordinals.  The open spool, with one readable   *)
(* and one unreadable delivery.  Consumers that outlive the leases of their     *)
(* lock and claims, over a pre-action, its post-result and a second pre-action  *)
(* with other content.                                                          *)
EXTENDS AnalysisJobs, TLC

CONSTANTS s1, s2, d1, bad, k1, w1, w2, request, result, clash, None

VARIABLES records, recovery, quarantine, counters, drainLock, drainCompletion
Spool == INSTANCE CaptureSpool WITH
    Deliveries <- {d1, bad}, Unreadable <- {bad}, Keys <- {k1}, Drainers <- {w1, w2},
    MaxActive <- 1, ClaimLimit <- 1, QuarantineMax <- 1, HistoryMax <- 1,
    MaxAdmissions <- 4, MaxRefusals <- 1, MaxGeneration <- 3

VARIABLES records2, recovery2, quarantine2, counters2, drainLock2, drainCompletion2,
          stored, offered, analysisWork, awake, drain, faults
Late == INSTANCE CaptureDrain WITH
    Deliveries <- {request, result, clash}, Unreadable <- {}, Keys <- {k1}, Drainers <- {w1, w2},
    MaxActive <- 3, ClaimLimit <- 2, QuarantineMax <- 1, HistoryMax <- 2,
    MaxAdmissions <- 2, MaxRefusals <- 0, MaxGeneration <- 2, Overrun <- TRUE, MaxFaults <- 0,
    Announces <- [d \in {request, result, clash} |-> IF d = result THEN None ELSE k1],
    SessionOf <- [d \in {request, result, clash} |-> None],
    RequestOf <- [d \in {request, result, clash} |-> IF d = result THEN k1 ELSE None],
    Conflicts <- [d \in {request, result, clash} |-> IF d = result THEN {} ELSE {request, clash} \ {d}],
    records <- records2, recovery <- recovery2, quarantine <- quarantine2, counters <- counters2,
    drainLock <- drainLock2, drainCompletion <- drainCompletion2

---------------------------------------------------------------------------
VARIABLE which
ofSpool == <<records, recovery, quarantine, counters, drainLock, drainCompletion>>
ofDrain == <<records2, recovery2, quarantine2, counters2, drainLock2, drainCompletion2,
             stored, offered, analysisWork, awake, drain, faults>>
QueuesInit == which \in {"spool", "drain", "analysis"} /\ Spool!SpoolInit /\ Late!DrainInit /\ JobsInit
QueuesNext ==
    /\ UNCHANGED which
    /\ \/ which = "spool" /\ Spool!SpoolNext /\ UNCHANGED <<ofDrain, jobVars>>
       \/ which = "drain" /\ Late!Next /\ UNCHANGED <<ofSpool, jobVars>>
       \/ which = "analysis" /\ JobsNext /\ UNCHANGED <<ofSpool, ofDrain>>
QueuesSpec == QueuesInit /\ [][QueuesNext]_<<which, ofSpool, ofDrain, jobVars>>
Symmetry == Permutations({w1, w2}) \cup Permutations({s1, s2})

---------------------------------------------------------------------------
(* CaptureSpool and CaptureDrain: whatever is called late, by anybody in the
   open spool and by consumers that work on after their leases have passed, the
   spool is consistent and what is stored is in order and without contradiction. *)
LateCallsAreHarmless == Spool!SpoolIsConsistent /\ Late!SpoolIsConsistent /\ Late!StoredIsSound
=============================================================================
