------------------------------- MODULE WriterLock -------------------------------
(***************************************************************************)
(* The writer lock of the snapshot store: a directory with a file that     *)
(* names its owner, moved into place with one rename.  The lock of a dead  *)
(* owner is reclaimed under a ticket protocol of further directories.      *)
(* Every system call that another process can notice is a step, and a      *)
(* process may die before any of them.                                     *)
(*                                                                         *)
(* A process makes one call and keeps its identity for good, so that its   *)
(* number stands for process id, token and directory identity together.    *)
(* "stale" is a dead process whose artifacts are older than the limit.     *)
(***************************************************************************)
EXTENDS Integers, FiniteSets

CONSTANTS
    Procs,          \* numbers: tokens are compared
    None,
    MaxCrashes,     \* bound of the model: processes that die
    MaxRounds,      \* bound of the model: attempts of a process
    MaxPauses       \* bound of the model: candidates left alone for so long that they count as abandoned

VARIABLES
    lock,       \* directory .writer-lock; whole: its owner file is there
    claims,     \* directory .writer-lock-reclaim: the entry of each process
    proc,       \* the local variables of each process
    life,       \* "running", "dead" or "stale"
    faults      \* crashes and pauses so far

vars == <<lock, claims, proc, life, faults>>

NoLock == [owner |-> None, whole |-> FALSE]
NoClaim == [name |-> "none", ticket |-> 0]
Starting == [pc |-> "prepare", seen |-> None, scan |-> {}, ticket |-> 0, late |-> FALSE, round |-> 1]

LockInit ==
    /\ lock = NoLock
    /\ claims = [p \in Procs |-> NoClaim]
    /\ proc = [p \in Procs |-> Starting]
    /\ life = [p \in Procs |-> "running"]
    /\ faults = [crashes |-> 0, pauses |-> 0]

At(p, pc) == life[p] = "running" /\ proc[p].pc = pc
Goto(p, pc) == proc' = [proc EXCEPT ![p].pc = pc]
Stale(p) == life[p] = "stale"

\* One listing of the reclaim directory: the entries of the others, by name.
Listed(p) == {[of |-> r, entry |-> claims[r]] : r \in {q \in Procs \ {p} : claims[q].name # "none"}}
\* An entry is looked at later, under the name it was listed with; a renamed or a
\* stale one is passed over.
Live(e) == claims[e.of] = e.entry /\ ~Stale(e.of)

SomeLock(p) == lock.whole    \* a mutant: the lock is not compared with the one observed
SameLock(p) == lock = [owner |-> proc[p].seen, whole |-> TRUE]

---------------------------------------------------------------------------
\* #withWriterLock(), #tryAcquireWriterLock()
CheckLock(p) ==
    /\ At(p, "prepare")
    /\ Goto(p, IF lock = NoLock THEN "list" ELSE "observe")
    /\ UNCHANGED <<lock, claims, life, faults>>

ListClaims(p) ==
    /\ At(p, "list")
    /\ proc' = [proc EXCEPT ![p].scan = Listed(p), ![p].pc = "scan"]
    /\ UNCHANGED <<lock, claims, life, faults>>

ScanClaim(p) ==
    /\ At(p, "scan")
    /\ \/ \E e \in proc[p].scan :
             proc' = [proc EXCEPT ![p].scan = IF Live(e) THEN {} ELSE @ \ {e},
                                  ![p].pc = IF Live(e) THEN "observe" ELSE "scan"]
       \/ proc[p].scan = {} /\ Goto(p, "rename")
    /\ UNCHANGED <<lock, claims, life, faults>>

\* rename() replaces an empty directory and refuses any other.
RenameToLock(p) ==
    /\ At(p, "rename")
    /\ \/ ~lock.whole /\ lock' = [owner |-> p, whole |-> TRUE] /\ Goto(p, "critical")
       \/ lock.whole /\ lock' = lock /\ Goto(p, "observe")
    /\ UNCHANGED <<claims, life, faults>>

\* The process paused for so long that another has taken its candidate for an
\* abandoned one and is removing it: it is gone, or has lost its owner file.
CandidateIsAbandoned(p) ==
    /\ At(p, "rename")
    /\ faults.pauses < MaxPauses /\ faults' = [faults EXCEPT !.pauses = @ + 1]
    /\ Goto(p, "out")
    /\ \/ lock' = lock
       \/ ~lock.whole /\ lock' = [owner |-> p, whole |-> FALSE]
    /\ UNCHANGED <<claims, life>>

\* #releaseOwnedWriterLock(): the owner is checked, then the directory is emptied
\* and removed, both by name.
CheckOwner(p) ==
    /\ At(p, "critical")
    /\ Goto(p, IF lock = [owner |-> p, whole |-> TRUE] THEN "unlink" ELSE "out")
    /\ UNCHANGED <<lock, claims, life, faults>>

UnlinkOwner(p) ==
    /\ At(p, "unlink")
    /\ lock' = [lock EXCEPT !.whole = FALSE]
    /\ Goto(p, "rmdir")
    /\ UNCHANGED <<claims, life, faults>>

RemoveLock(p) ==
    /\ At(p, "rmdir")
    /\ lock' = IF lock.whole THEN lock ELSE NoLock
    /\ Goto(p, "out")
    /\ UNCHANGED <<claims, life, faults>>

---------------------------------------------------------------------------
\* #recoverStaleWriterLock()
Observe(p) ==
    /\ At(p, "observe")
    /\ proc' = [proc EXCEPT ![p].pc = IF lock.whole /\ Stale(lock.owner) THEN "clean" ELSE "wait",
                            ![p].seen = lock.owner]
    /\ UNCHANGED <<lock, claims, life, faults>>

\* #cleanupStaleReclaimClaims()
CleanClaims(p) ==
    /\ At(p, "clean")
    /\ claims' = [r \in Procs |-> IF Stale(r) THEN NoClaim ELSE claims[r]]
    /\ Goto(p, "choose")
    /\ UNCHANGED <<lock, life, faults>>

\* #withReclaimClaim(): choose, take a ticket, and look for an earlier claim.
Choose(p) ==
    /\ At(p, "choose")
    /\ claims' = [claims EXCEPT ![p] = [name |-> "choosing", ticket |-> 0]]
    /\ Goto(p, "number")
    /\ UNCHANGED <<lock, life, faults>>

HighestTicket ==
    CHOOSE n \in {0} \cup {claims[r].ticket : r \in Procs} : \A r \in Procs : claims[r].ticket <= n
NextTicket == 1 + HighestTicket

ReadTickets(p) ==
    /\ At(p, "number")
    /\ proc' = [proc EXCEPT ![p].ticket = NextTicket, ![p].pc = "take"]
    /\ UNCHANGED <<lock, claims, life, faults>>

TakeTicket(p) ==
    /\ At(p, "take")
    /\ claims' = [claims EXCEPT ![p] = [name |-> "claim", ticket |-> proc[p].ticket]]
    /\ Goto(p, "rivals")
    /\ UNCHANGED <<lock, life, faults>>

ListRivals(p) ==
    /\ At(p, "rivals")
    /\ proc' = [proc EXCEPT ![p].scan = Listed(p), ![p].pc = "compare"]
    /\ UNCHANGED <<lock, claims, life, faults>>

Earlier(e, p) ==
    \/ e.entry.name # "claim"
    \/ e.entry.ticket < proc[p].ticket
    \/ e.entry.ticket = proc[p].ticket /\ e.of < p

CompareRival(p) ==
    /\ At(p, "compare")
    /\ \/ \E e \in proc[p].scan :
             LET yields == Live(e) /\ Earlier(e, p)
             IN  proc' = [proc EXCEPT ![p].scan = IF yields THEN {} ELSE @ \ {e},
                                      ![p].pc = IF yields THEN "withdraw" ELSE "compare"]
       \/ proc[p].scan = {} /\ Goto(p, "confirm")
    /\ UNCHANGED <<lock, claims, life, faults>>

\* A lock that has disappeared meanwhile is an error here, which fails the call.
Confirm(p) ==
    /\ At(p, "confirm")
    /\ proc' = [proc EXCEPT ![p].pc = IF SameLock(p) THEN "final" ELSE "withdraw",
                            ![p].late = ~lock.whole]
    /\ UNCHANGED <<lock, claims, life, faults>>

ObserveFinally(p) ==
    /\ At(p, "final")
    /\ Goto(p, IF SameLock(p) THEN "remove" ELSE "withdraw")
    /\ UNCHANGED <<lock, claims, life, faults>>

\* The lock that is there by now is moved away.
MoveLockAway(p) ==
    /\ At(p, "remove")
    /\ lock' = NoLock
    /\ Goto(p, "withdraw")
    /\ UNCHANGED <<claims, life, faults>>

Withdraw(p) ==
    /\ At(p, "withdraw")
    /\ claims' = [claims EXCEPT ![p].name = "releasing", ![p].ticket = 0]
    /\ Goto(p, "forget")
    /\ UNCHANGED <<lock, life, faults>>

RemoveClaim(p) ==
    /\ At(p, "forget")
    /\ claims' = [claims EXCEPT ![p] = NoClaim]
    /\ Goto(p, IF proc[p].late THEN "out" ELSE "wait")
    /\ UNCHANGED <<lock, life, faults>>

\* Another round, or the time is up.
Wait(p) ==
    /\ At(p, "wait")
    /\ \/ /\ proc[p].round < MaxRounds
          /\ proc' = [proc EXCEPT ![p] = [Starting EXCEPT !.round = proc[p].round + 1]]
       \/ Goto(p, "out")
    /\ UNCHANGED <<lock, claims, life, faults>>

Crash(p) ==
    /\ life[p] = "running" /\ proc[p].pc # "out"
    /\ faults.crashes < MaxCrashes /\ faults' = [faults EXCEPT !.crashes = @ + 1]
    /\ life' = [life EXCEPT ![p] = "dead"]
    /\ UNCHANGED <<lock, claims, proc>>

Age(p) ==
    /\ life[p] = "dead"
    /\ life' = [life EXCEPT ![p] = "stale"]
    /\ UNCHANGED <<lock, claims, proc, faults>>

Step(p) ==
    \/ CheckLock(p) \/ ListClaims(p) \/ ScanClaim(p) \/ RenameToLock(p)
    \/ CheckOwner(p) \/ UnlinkOwner(p) \/ RemoveLock(p)
    \/ Observe(p) \/ CleanClaims(p) \/ Choose(p) \/ ReadTickets(p) \/ TakeTicket(p)
    \/ ListRivals(p) \/ CompareRival(p) \/ Confirm(p) \/ ObserveFinally(p) \/ MoveLockAway(p)
    \/ Withdraw(p) \/ RemoveClaim(p) \/ Wait(p)

Next == \E p \in Procs : Step(p) \/ CandidateIsAbandoned(p) \/ Crash(p) \/ Age(p)

LockSpec == LockInit /\ [][Next]_vars

---------------------------------------------------------------------------
\* The entries of the directories and the local variables keep their forms; a
\* claim has a ticket exactly while it is one.
LockTypeOK ==
    /\ lock \in [owner : Procs \cup {None}, whole : BOOLEAN] /\ (lock.whole => lock.owner # None)
    /\ DOMAIN claims = Procs
    /\ \A p \in Procs : claims[p].ticket \in (IF claims[p].name = "claim" THEN 1..(Cardinality(Procs) * MaxRounds) ELSE {0})
    /\ life \in [Procs -> {"running", "dead", "stale"}]
    /\ \A p \in Procs : proc[p].seen \in Procs \cup {None} /\ proc[p].round \in 1..MaxRounds

\* Identity-safe reclaim, of up to three writers: while a writer is between its
\* acquisition and the check that begins its release, the lock is its own, and no
\* reclaim of an earlier lock, however long it was under way, removes it.  Four
\* writers break it.  Two may reclaim a dead writer's lock at once, one passing over
\* the other's claim as that is renamed between the listing and the look; then the
\* second can move away a lock that the fourth has renamed into place after the first.
HolderKeepsLock == \A p \in Procs : At(p, "critical") => lock = [owner |-> p, whole |-> TRUE]
=============================================================================
