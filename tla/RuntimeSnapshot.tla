----------------------------- MODULE RuntimeSnapshot -----------------------------
(***************************************************************************)
(* Publication of runtime snapshots (storage/runtime-snapshot-store.ts)    *)
(* and the processes that evaluate an operation against them.  A           *)
(* generation is a file named by its checksum; the manifest names the      *)
(* current one and the last known good.  The holder of the writer lock     *)
(* (WriterLock) publishes with a sequence of renames and directory syncs;  *)
(* it may die at any of them, the machine may lose power, and readers,     *)
(* which take no lock, run between any two.                                *)
(*                                                                         *)
(* Candidate files are written and synced before they are renamed, so that *)
(* a name always leads to whole contents; only the names are modelled.     *)
(***************************************************************************)
EXTENDS Naturals, FiniteSets

CONSTANTS
    Snapshots,      \* compiled snapshots, known by their checksums
    Readers,
    None,
    Malformed,      \* the contents of a manifest that does not parse
    MaxFaults,      \* bound of the model: failed calls, deaths, power losses, damaged files
    MaxOvertakes    \* bound of the model: commits counted during one evaluation

Manifests == [current : Snapshots, lkg : Snapshots \cup {None}]

ASSUME SnapshotAssumption ==
    /\ IsFiniteSet(Snapshots) /\ {None, Malformed} \cap (Snapshots \cup Manifests) = {}
    /\ Malformed # None /\ MaxFaults \in Nat /\ MaxOvertakes \in Nat

VARIABLES
    dir,        \* the directory as processes see it
    disk,       \* for each name, what a power loss may leave of it
    pub,        \* the local variables of the publisher that holds the writer lock
    reader,     \* the local variables of each evaluation
    damaged,    \* a file was damaged from outside since the last completed publication
    faults

storeVars == <<dir, disk, damaged>>
vars == <<dir, disk, pub, reader, damaged, faults>>

NoPublisher == [pc |-> "none", kind |-> "publish", snap |-> None, prior |-> None, lkg |-> None, superseded |-> None]
NoReader == [pc |-> "idle", pin |-> None, seen |-> None, got |-> None, overtaken |-> 0]

SnapshotInit ==
    /\ dir = [manifest |-> None, rollback |-> None, file |-> [c \in Snapshots |-> "none"]]
    /\ disk = [manifest |-> {None}, rollback |-> {None}, file |-> [c \in Snapshots |-> {"none"}]]
    /\ pub = NoPublisher
    /\ reader = [r \in Readers |-> NoReader]
    /\ damaged = FALSE /\ faults = 0

---------------------------------------------------------------------------
Parsed(m) == m \notin {None, Malformed}
Good(c) == c # None /\ dir.file[c] = "good"
Readable(m) == Parsed(m) /\ Good(m.current)
References(m) == IF Parsed(m) THEN {m.current, m.lkg} \ {None} ELSE {}

\* A rename or an unlink: processes see it at once, the disk at the latest with
\* the next sync of the directory.
SetManifest(m) == dir' = [dir EXCEPT !.manifest = m] /\ disk' = [disk EXCEPT !.manifest = @ \cup {m}]
SetRollback(m) == dir' = [dir EXCEPT !.rollback = m] /\ disk' = [disk EXCEPT !.rollback = @ \cup {m}]
SetFile(c, f) == dir' = [dir EXCEPT !.file[c] = f] /\ disk' = [disk EXCEPT !.file[c] = @ \cup {f}]
NoSync == UNCHANGED <<dir, disk>>    \* a mutant: the directory is not synced
SyncDirectory ==
    /\ dir' = dir
    /\ disk' = [manifest |-> {dir.manifest}, rollback |-> {dir.rollback}, file |-> [c \in Snapshots |-> {dir.file[c]}]]

\* What running evaluations are overtaken by.
Passed(n) == [r \in Readers |-> IF reader[r].pc = "idle" THEN reader[r]
                                ELSE [reader[r] EXCEPT !.overtaken = IF @ + n < MaxOvertakes THEN @ + n ELSE MaxOvertakes]]

Fault == faults < MaxFaults /\ faults' = faults + 1
At(pc) == pub.pc = pc
Goto(pc) == pub' = [pub EXCEPT !.pc = pc]
Unlock == pub' = NoPublisher

---------------------------------------------------------------------------
\* publishSerialized() and recoverSerialized(), which falls back to an ordinary
\* publication when the manifest is absent or leads to a readable snapshot.
BeginPublish(c) ==
    /\ At("none")
    /\ pub' = IF dir.manifest = None \/ Readable(dir.manifest)
              THEN [NoPublisher EXCEPT !.pc = "install", !.snap = c, !.prior = dir.manifest,
                                       !.lkg = IF dir.manifest = None THEN None ELSE dir.manifest.current]
              ELSE NoPublisher
    /\ UNCHANGED <<storeVars, reader, faults>>

\* #validRecoveryReference(): what the rollback copy names, or the last known good.
RecoveryReference ==
    IF Readable(dir.rollback) THEN dir.rollback.current
    ELSE IF Parsed(dir.manifest) /\ Good(dir.manifest.lkg) THEN dir.manifest.lkg ELSE None

\* isRecoverableSnapshotError(): the manifest does not parse, or does not lead to a
\* snapshot.
RecoverableIfParsed == Parsed(dir.manifest) /\ ~Readable(dir.manifest)    \* a mutant: a torn manifest stops the refresh
Recoverable == dir.manifest # None /\ ~Readable(dir.manifest)

BeginRecover(c) ==
    /\ At("none") /\ Recoverable
    /\ pub' = [NoPublisher EXCEPT !.pc = "install", !.kind = "recover", !.snap = c, !.prior = dir.manifest,
                                  !.lkg = RecoveryReference,
                                  !.superseded = IF Parsed(dir.manifest) THEN dir.manifest.current ELSE None]
    /\ UNCHANGED <<storeVars, reader, faults>>

\* A generation is never replaced; one that is there and unreadable fails the call.
InstallGeneration ==
    /\ At("install")
    /\ \/ dir.file[pub.snap] = "none" /\ SetFile(pub.snap, "good") /\ Goto("sync")
       \/ dir.file[pub.snap] = "good" /\ UNCHANGED <<dir, disk>> /\ Goto("sync")
       \/ dir.file[pub.snap] = "bad" /\ UNCHANGED <<dir, disk>> /\ Unlock
    /\ UNCHANGED <<reader, damaged, faults>>

SyncGeneration ==
    /\ At("sync")
    /\ SyncDirectory
    /\ Goto(IF pub.kind = "publish" /\ pub.prior # None THEN "rollback" ELSE "commit")
    /\ UNCHANGED <<reader, damaged, faults>>

KeepRollback ==
    /\ At("rollback")
    /\ SetRollback(pub.prior)
    /\ Goto("keep")
    /\ UNCHANGED <<reader, damaged, faults>>

SyncRollback ==
    /\ At("keep")
    /\ SyncDirectory
    /\ Goto("commit")
    /\ UNCHANGED <<reader, damaged, faults>>

\* The rename of the manifest makes the snapshot current.
Committed == [current |-> pub.snap, lkg |-> pub.lkg]
CommitManifest ==
    /\ At("commit")
    /\ IF dir.manifest = pub.prior
       THEN SetManifest(Committed) /\ Goto("settle")
       ELSE Unlock /\ UNCHANGED <<dir, disk>>
    /\ reader' = Passed(IF dir.manifest = pub.prior THEN 1 ELSE 0)
    /\ UNCHANGED <<damaged, faults>>

SyncManifest ==
    /\ At("settle")
    /\ SyncDirectory
    /\ Goto("clean")
    /\ UNCHANGED <<reader, damaged, faults>>

\* The sync failed: the manifest that was there before is moved back.  Who pinned
\* the snapshot that is withdrawn falls back to the last known good; where there is
\* none yet it is left with nothing, and no promise is made to it.
SyncManifestFails ==
    /\ At("settle") /\ Fault
    /\ Goto("restore")
    /\ UNCHANGED <<storeVars, reader>>

RestoreManifest ==
    /\ At("restore")
    /\ IF pub.kind = "recover" \/ pub.prior = None
       THEN SetManifest(pub.prior)
       ELSE /\ dir' = [dir EXCEPT !.manifest = dir.rollback, !.rollback = None]
            /\ disk' = [disk EXCEPT !.manifest = @ \cup {dir.rollback}, !.rollback = @ \cup {None}]
    /\ reader' = Passed(IF Parsed(dir'.manifest) /\ dir'.manifest.lkg # None THEN 1 ELSE MaxOvertakes)
    /\ Goto("resync")
    /\ UNCHANGED <<damaged, faults>>

SyncRestored ==
    /\ At("resync")
    /\ SyncDirectory
    /\ Unlock
    /\ UNCHANGED <<reader, damaged, faults>>

RetainedByManifest == References(Committed)    \* a mutant: the rollback copy is not considered
Retained == References(Committed) \cup References(dir.rollback)
Superfluous == {c \in Snapshots : dir.file[c] # "none" /\ c \notin Retained}

\* #cleanupAfterCommit(), file by file; a recovery removes what it superseded first.
RemoveGeneration ==
    /\ At("clean")
    /\ \E c \in Superfluous :
          /\ pub.superseded \in Superfluous => c = pub.superseded
          /\ SetFile(c, "none")
    /\ UNCHANGED <<pub, reader, damaged, faults>>

FinishPublication ==
    /\ At("clean") /\ Superfluous = {}
    /\ IF pub.kind = "publish" THEN SyncDirectory ELSE UNCHANGED <<dir, disk>>
    /\ damaged' = FALSE
    /\ Unlock
    /\ UNCHANGED <<reader, faults>>

---------------------------------------------------------------------------
\* A call fails, or the process dies, in the middle; its successor gets the lock.
PublisherStops ==
    /\ ~At("none") /\ Fault
    /\ Unlock
    /\ UNCHANGED <<storeVars, reader>>

PowerLoss ==
    /\ Fault
    /\ \E m \in disk.manifest, b \in disk.rollback, files \in [Snapshots -> {"none", "good", "bad"}] :
          /\ \A c \in Snapshots : files[c] \in disk.file[c]
          /\ dir' = [manifest |-> m, rollback |-> b, file |-> files]
          /\ disk' = [manifest |-> {m}, rollback |-> {b}, file |-> [c \in Snapshots |-> {files[c]}]]
    /\ pub' = NoPublisher
    /\ reader' = [r \in Readers |-> NoReader]
    /\ UNCHANGED damaged

\* A file is lost, or no longer parses.  No promise is made to who reads then.
Damage ==
    /\ At("none") /\ Fault
    /\ \/ \E c \in Snapshots : dir.file[c] = "good" /\ \E f \in {"none", "bad"} :
             dir' = [dir EXCEPT !.file[c] = f] /\ disk' = [disk EXCEPT !.file[c] = {f}]
       \/ /\ Parsed(dir.manifest)
          /\ dir' = [dir EXCEPT !.manifest = Malformed] /\ disk' = [disk EXCEPT !.manifest = {Malformed}]
    /\ damaged' = TRUE
    /\ reader' = Passed(MaxOvertakes)
    /\ UNCHANGED pub

---------------------------------------------------------------------------
\* RuntimeService.evaluate() without a refresh: it loads the current snapshot, and
\* the runtime it creates, pinned to that one, loads it again, or else the last
\* known good.  Every load reads the manifest and, later, the generation.
Read(r, pc, next) ==
    /\ reader[r].pc = pc
    /\ reader' = [reader EXCEPT ![r].seen = dir.manifest, ![r].pc = next]
    /\ UNCHANGED <<storeVars, pub, faults>>

Answer(r, pc, pin, got) ==
    reader' = [reader EXCEPT ![r].pc = pc, ![r].pin = pin, ![r].seen = None, ![r].got = got]

BeginEvaluation(r) ==
    /\ reader[r].pc = "idle" /\ dir.manifest # None
    /\ reader' = [reader EXCEPT ![r] = [NoReader EXCEPT !.pc = "generation", !.seen = dir.manifest,
                                                  !.overtaken = IF damaged THEN MaxOvertakes ELSE 0]]
    /\ UNCHANGED <<storeVars, pub, faults>>

LoadCurrent(r) ==
    /\ reader[r].pc = "generation"
    /\ LET m == reader[r].seen
       IN  Answer(r, "again", IF Readable(m) THEN m.current ELSE None, None)
    /\ UNCHANGED <<storeVars, pub, faults>>

\* Without a pin the runtime takes whatever is current.
LoadPinned(r) ==
    /\ reader[r].pc = "pinned"
    /\ LET m == reader[r].seen
       IN  IF Readable(m) /\ reader[r].pin \in {None, m.current} THEN Answer(r, "done", None, m.current)
                                                                ELSE Answer(r, "good", None, None)
    /\ UNCHANGED <<storeVars, pub, faults>>

LoadLastKnownGood(r) ==
    /\ reader[r].pc = "fallback"
    /\ LET m == reader[r].seen
       IN  Answer(r, "done", None, IF Parsed(m) /\ Good(m.lkg) THEN m.lkg ELSE None)
    /\ UNCHANGED <<storeVars, pub, faults>>

Evaluate(r) ==
    \/ LoadCurrent(r) \/ Read(r, "again", "pinned") \/ LoadPinned(r)
    \/ Read(r, "good", "fallback") \/ LoadLastKnownGood(r)

EndEvaluation(r) ==
    /\ reader[r].pc = "done"
    /\ reader' = [reader EXCEPT ![r] = NoReader]
    /\ UNCHANGED <<storeVars, pub, faults>>

Publish ==
    \/ InstallGeneration \/ SyncGeneration \/ KeepRollback \/ SyncRollback \/ CommitManifest
    \/ SyncManifest \/ RestoreManifest \/ SyncRestored \/ RemoveGeneration \/ FinishPublication

Next ==
    \/ \E c \in Snapshots : BeginPublish(c) \/ BeginRecover(c)
    \/ Publish
    \/ SyncManifestFails \/ PublisherStops \/ PowerLoss \/ Damage
    \/ \E r \in Readers : BeginEvaluation(r) \/ Evaluate(r) \/ EndEvaluation(r)

SnapshotSpec == SnapshotInit /\ [][Next]_vars

\* A publisher goes on, and a project whose snapshot cannot be read is refreshed
\* again and again, each time with a newly compiled snapshot.
Fairness == WF_vars(Publish) /\ \A c \in Snapshots : SF_vars(BeginRecover(c))
FairSpec == SnapshotSpec /\ Fairness

---------------------------------------------------------------------------
SnapshotTypeOK ==
    /\ dir.manifest \in Manifests \cup {None, Malformed} /\ dir.rollback \in Manifests \cup {None}
    /\ dir.file \in [Snapshots -> {"none", "good", "bad"}]
    /\ dir.manifest \in disk.manifest /\ dir.rollback \in disk.rollback
    /\ \A c \in Snapshots : dir.file[c] \in disk.file[c]

\* Whatever a power loss leaves of the renames that were not synced, the manifest
\* it leaves names generations that are on the disk: the current one and the last
\* known good.
ManifestIsDurable ==
    ~damaged => \A m \in disk.manifest : \A c \in References(m) : disk.file[c] = {"good"}

\* An evaluation that began with a manifest gets a snapshot, although it takes no
\* lock and cleanup removes generations under it, unless MaxOvertakes publications
\* pass it by: three, for one that is current when it is named.
OvertakenReadersAreServed ==
    \A r \in Readers : reader[r].pc = "done" /\ reader[r].got = None
        => reader[r].overtaken >= MaxOvertakes

\* A store that cannot be read is readable again after a refresh.
DamageIsHealed == (dir.manifest # None /\ ~Readable(dir.manifest)) ~> Readable(dir.manifest)
=============================================================================
