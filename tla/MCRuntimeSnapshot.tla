---------------------------- MODULE MCRuntimeSnapshot ----------------------------
(* Three snapshots, so that publications supersede each other and cleanup has   *)
(* something to remove, and one evaluation that reads between any two steps.    *)
(* Beside it, in states of their own, three writers and their lock: two may die *)
(* and one may be paused until its candidate counts as abandoned.  Three is the *)
(* bound of what is claimed of the lock: among four writers a reclaim can       *)
(* remove the lock of a living one.                                             *)
EXTENDS RuntimeSnapshot
CONSTANTS a, b, c, r

VARIABLES which, lock, claims, proc, life, interruptions
L == INSTANCE WriterLock
        WITH Procs <- {1, 2, 3}, MaxCrashes <- 2, MaxRounds <- 2, MaxPauses <- 1, faults <- interruptions

lockVars == <<lock, claims, proc, life, interruptions>>
MCInit == which \in {"store", "lock"} /\ SnapshotInit /\ L!LockInit
MCNext ==
    /\ UNCHANGED which
    /\ \/ which = "store" /\ Next /\ UNCHANGED lockVars
       \/ which = "lock" /\ L!Next /\ UNCHANGED vars
\* The store's fairness, as FairSpec states it: the writers of the lock owe nothing.
StoreStep(step) == which = "store" /\ step /\ UNCHANGED <<which, lockVars>>
MCSpec ==
    /\ MCInit /\ [][MCNext]_<<which, vars, lockVars>>
    /\ WF_vars(StoreStep(Publish)) /\ \A x \in Snapshots : SF_vars(StoreStep(BeginRecover(x)))

\* WriterLock: of three writers, a living one that holds the lock keeps it until it
\* gives it back.  WriterLock says how a fourth can take it away.
HolderKeepsLock == L!HolderKeepsLock
=============================================================================
