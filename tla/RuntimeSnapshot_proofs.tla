------------------------- MODULE RuntimeSnapshot_proofs -------------------------
(***************************************************************************)
(* Theorems about the snapshot store, for any snapshots, any number of     *)
(* evaluations and any number of failures, deaths and power losses.        *)
(***************************************************************************)
EXTENDS RuntimeSnapshot, TLAPS

\* The types of the variables.
ManifestValues == Manifests \cup {None, Malformed}
FileStates == {"none", "good", "bad"}
Directories == [manifest : ManifestValues, rollback : Manifests \cup {None}, file : [Snapshots -> FileStates]]
Disks == [manifest : SUBSET ManifestValues, rollback : SUBSET (Manifests \cup {None}), file : [Snapshots -> SUBSET FileStates]]
Publishers ==
    [pc : {"none", "install", "sync", "rollback", "keep", "commit", "settle", "clean", "restore", "resync"},
     kind : {"publish", "recover"}, snap : Snapshots \cup {None}, prior : ManifestValues,
     lkg : Snapshots \cup {None}, superseded : Snapshots \cup {None}]
Evaluations ==
    [pc : {"idle", "generation", "again", "pinned", "good", "fallback", "done"}, pin : Snapshots \cup {None},
     seen : ManifestValues, got : Snapshots \cup {None}, overtaken : 0 .. MaxOvertakes]

Types ==
    /\ dir \in Directories /\ disk \in Disks /\ pub \in Publishers /\ reader \in [Readers -> Evaluations]
    /\ damaged \in BOOLEAN
\* What processes see is one of the things the disk may be left with.
Seen ==
    /\ dir.manifest \in disk.manifest /\ dir.rollback \in disk.rollback
    /\ \A c \in Snapshots : dir.file[c] \in disk.file[c]

\* A generation that no power loss takes away.
Durable(c) == c # None => disk.file[c] = {"good"}
\* A publication of a project that has a manifest keeps a copy of it.
KeepsCopy == pub.kind = "publish" /\ pub.prior # None

\* What the holder of the writer lock knows at each of its steps.
HolderKnows ==
    /\ pub.pc # "none" => pub.snap \in Snapshots
    /\ pub.pc # "none" /\ KeepsCopy => pub.prior \in Manifests /\ pub.lkg = pub.prior.current
    /\ pub.pc # "none" /\ pub.kind = "recover" => damaged
    /\ pub.pc \in {"install", "sync", "rollback", "keep", "commit"} => dir.manifest = pub.prior
    /\ pub.pc \in {"rollback", "keep"} => KeepsCopy
    /\ pub.pc \in {"keep", "commit", "settle", "restore"} /\ KeepsCopy => dir.rollback = pub.prior
HolderInstalled ==
    /\ pub.pc \in {"install", "sync"} /\ pub.lkg # None => dir.file[pub.lkg] = "good"
    /\ pub.pc = "sync" => dir.file[pub.snap] = "good"
    /\ pub.pc \in {"rollback", "keep", "commit", "settle", "clean", "restore"} => Durable(pub.snap) /\ Durable(pub.lkg)
HolderCommitted ==
    /\ pub.pc \in {"settle", "clean", "restore"} => dir.manifest = Committed
    /\ pub.pc \in {"settle", "restore"} => pub.prior \in disk.manifest
    /\ pub.pc = "clean" => disk.manifest = {Committed}

\* Until somebody damages a file, no power loss leaves a manifest that does not
\* parse, and none that names a generation that is not on the disk.
ManifestsLead == ~damaged => Malformed \notin disk.manifest /\ \A m \in disk.manifest : \A c \in References(m) : Durable(c)

\* The inductive invariant of the store.
StoreInv == Types /\ Seen /\ HolderKnows /\ HolderInstalled /\ HolderCommitted /\ ManifestsLead

---------------------------------------------------------------------------
\* An evaluation to which the store owes an answer.
Owed(r) == reader[r].pc # "idle" /\ reader[r].overtaken < MaxOvertakes

\* Where an evaluation is that no publication has passed yet: what it saw is what
\* is current, so that it cannot get as far as the last known good.
Undisturbed(r) ==
    /\ reader[r].pc \notin {"good", "fallback"}
    /\ reader[r].pc = "generation" => reader[r].seen = dir.manifest
    /\ reader[r].pc = "again" => reader[r].pin = dir.manifest.current
    /\ reader[r].pc = "pinned" => reader[r].seen = dir.manifest /\ reader[r].pin = dir.manifest.current

\* A generation that cleanup does not remove before the next publication.
Lasts(c) ==
    /\ c \in Snapshots /\ dir.file[c] = "good"
    /\ pub.pc \in {"settle", "clean"} => c \in References(dir.manifest) \cup References(dir.rollback)

\* The last known good that an evaluation saw outlasts one publication when the
\* manifest still names it.
FallbackLasts(r) ==
    /\ reader[r].seen \in Manifests /\ Lasts(reader[r].seen.lkg)
    /\ reader[r].overtaken + 2 <= MaxOvertakes => reader[r].seen.lkg \in References(dir.manifest)

ReaderServed(r) ==
    /\ ~damaged /\ dir.manifest \in Manifests
    /\ reader[r].overtaken = 0 \/ dir.manifest.lkg = None => Undisturbed(r)
    /\ reader[r].pc = "fallback" => FallbackLasts(r)
    /\ reader[r].pc = "done" => reader[r].got # None

\* The inductive invariant of the evaluations.
ReaderInv == \A r \in Readers : Owed(r) => ReaderServed(r)

---------------------------------------------------------------------------
\* What a manifest names, and that the two marks are no manifest.
LEMMA ManifestFacts ==
    ASSUME NEW m \in Manifests
    PROVE  /\ Parsed(m) /\ m # None /\ m # Malformed
           /\ m.current \in Snapshots /\ m.current # None /\ m.lkg \in Snapshots \cup {None}
           /\ References(m) = {m.current, m.lkg} \ {None}
           /\ References(m) \subseteq Snapshots
  BY SnapshotAssumption DEF Parsed, References, Manifests

\* The marks name nothing.
LEMMA MarkFacts == References(None) = {} /\ References(Malformed) = {} /\ ~Parsed(None) /\ ~Parsed(Malformed)
  BY DEF References, Parsed

\* What is moved over the manifest is what both processes and the disk then have.
LEMMA SetManifestEffect ==
    ASSUME Types, Seen, NEW m \in ManifestValues, SetManifest(m)
    PROVE  /\ dir' \in Directories /\ disk' \in Disks /\ Seen'
           /\ dir'.manifest = m /\ dir'.rollback = dir.rollback /\ dir'.file = dir.file
           /\ disk'.manifest = disk.manifest \cup {m} /\ disk'.rollback = disk.rollback /\ disk'.file = disk.file
  BY DEF Types, Seen, SetManifest, Directories, Disks

\* The same of the copy.
LEMMA SetRollbackEffect ==
    ASSUME Types, Seen, NEW m \in Manifests \cup {None}, SetRollback(m)
    PROVE  /\ dir' \in Directories /\ disk' \in Disks /\ Seen'
           /\ dir'.manifest = dir.manifest /\ dir'.rollback = m /\ dir'.file = dir.file
           /\ disk'.manifest = disk.manifest /\ disk'.file = disk.file
  BY DEF Types, Seen, SetRollback, Directories, Disks

\* The same of a generation; the others are left alone.
LEMMA SetFileEffect ==
    ASSUME Types, Seen, NEW c \in Snapshots, NEW f \in FileStates, SetFile(c, f)
    PROVE  /\ dir' \in Directories /\ disk' \in Disks /\ Seen'
           /\ dir'.manifest = dir.manifest /\ dir'.rollback = dir.rollback
           /\ disk'.manifest = disk.manifest /\ disk'.rollback = disk.rollback
           /\ dir'.file[c] = f /\ disk'.file[c] = disk.file[c] \cup {f}
           /\ \A x \in Snapshots \ {c} : dir'.file[x] = dir.file[x] /\ disk'.file[x] = disk.file[x]
  BY DEF Types, Seen, SetFile, Directories, Disks

\* A sync leaves nothing to chance: the disk has what processes see.
LEMMA SyncEffect ==
    ASSUME Types, Seen, SyncDirectory
    PROVE  /\ dir' = dir /\ disk' \in Disks /\ Seen'
           /\ disk'.manifest = {dir.manifest} /\ disk'.rollback = {dir.rollback}
           /\ \A c \in Snapshots : disk'.file[c] = {dir.file[c]}
           /\ \A c \in Snapshots : disk.file[c] = {"good"} => disk'.file[c] = {"good"}
  BY DEF Types, Seen, SyncDirectory, Directories, Disks

\* A step of the holder keeps its other variables; giving the lock back clears them.
LEMMA GotoEffect ==
    ASSUME pub \in Publishers, NEW pc, Goto(pc),
           pc \in {"none", "install", "sync", "rollback", "keep", "commit", "settle", "clean", "restore", "resync"}
    PROVE  /\ pub' \in Publishers /\ pub'.pc = pc /\ pub'.kind = pub.kind /\ pub'.snap = pub.snap
           /\ pub'.prior = pub.prior /\ pub'.lkg = pub.lkg
  BY DEF Goto, Publishers

LEMMA UnlockEffect == ASSUME Unlock PROVE pub' \in Publishers /\ pub'.pc = "none"
  BY DEF Unlock, NoPublisher, Publishers, ManifestValues

\* Overtaking keeps the types of the evaluations, and where they are.
LEMMA PassedType ==
    ASSUME Types, NEW n \in Nat
    PROVE  /\ Passed(n) \in [Readers -> Evaluations]
           /\ \A r \in Readers :
                 /\ Passed(n)[r].pc = reader[r].pc /\ Passed(n)[r].pin = reader[r].pin
                 /\ Passed(n)[r].seen = reader[r].seen /\ Passed(n)[r].got = reader[r].got
                 /\ reader[r].pc # "idle" => Passed(n)[r].overtaken = IF reader[r].overtaken + n < MaxOvertakes
                                                   THEN reader[r].overtaken + n ELSE MaxOvertakes
  <1> DEFINE overtaken(r) == IF reader[r].overtaken + n < MaxOvertakes THEN reader[r].overtaken + n ELSE MaxOvertakes
  <1>1. ASSUME NEW r \in Readers
        PROVE  /\ reader[r] \in Evaluations
               /\ overtaken(r) \in 0 .. MaxOvertakes
    BY <1>1, SnapshotAssumption DEF Types, Evaluations
  <1>2. ASSUME NEW r \in Readers
        PROVE  /\ Passed(n)[r] \in Evaluations
               /\ Passed(n)[r].pc = reader[r].pc /\ Passed(n)[r].pin = reader[r].pin
               /\ Passed(n)[r].seen = reader[r].seen /\ Passed(n)[r].got = reader[r].got
               /\ reader[r].pc # "idle" => Passed(n)[r].overtaken = overtaken(r)
    <2>1. CASE reader[r].pc = "idle"
      BY <1>1, <2>1 DEF Passed
    <2>2. CASE reader[r].pc # "idle"
      <3>1. Passed(n)[r] = [reader[r] EXCEPT !.overtaken = overtaken(r)]
        BY <2>2 DEF Passed
      <3>2. [reader[r] EXCEPT !.overtaken = overtaken(r)] \in Evaluations
        BY <1>1 DEF Evaluations
      <3> QED BY <3>1, <3>2, <1>1, <2>2 DEF Evaluations
    <2> QED BY <2>1, <2>2
  <1>3. Passed(n) = [r \in Readers |-> Passed(n)[r]]
    BY DEF Passed
  <1> QED BY <1>2, <1>3

---------------------------------------------------------------------------
\* What the disk may hold names snapshots only.
LEMMA DisksHold == ASSUME Types PROVE \A m \in disk.manifest : m \in ManifestValues /\ References(m) \subseteq Snapshots
  BY ManifestFacts, MarkFacts DEF Types, Disks, ManifestValues

\* The store is not touched: what is seen and what the manifests lead to remains.
LEMMA StoreFrame == ASSUME StoreInv, UNCHANGED storeVars PROVE Seen' /\ ManifestsLead'
  BY DEF StoreInv, storeVars, Seen, ManifestsLead, References, Parsed, Durable

\* Who gives the lock back owes nothing, provided that the store is in order.
LEMMA Idle ==
    ASSUME pub'.pc = "none"
    PROVE  HolderKnows' /\ HolderInstalled' /\ HolderCommitted'
  BY DEF HolderKnows, HolderInstalled, HolderCommitted

LEMMA GivesBack ==
    ASSUME StoreInv, UNCHANGED storeVars, Unlock, reader' \in [Readers -> Evaluations]
    PROVE  StoreInv'
  BY StoreFrame, UnlockEffect, Idle DEF StoreInv, Types, storeVars

\* Of the store, the holder's step may change what it knows; the rest follows from
\* what it did to the directory.
LEMMA InstallKeeps == ASSUME StoreInv, InstallGeneration PROVE StoreInv'
  <1> USE DEF StoreInv, InstallGeneration, At
  <1>1. pub \in Publishers /\ pub.snap \in Snapshots /\ reader' = reader /\ damaged' = damaged
    BY DEF Types, HolderKnows
  <1>2. CASE dir.file[pub.snap] = "none" /\ SetFile(pub.snap, "good") /\ Goto("sync")
    <2>1. /\ dir' \in Directories /\ disk' \in Disks /\ Seen'
          /\ dir'.manifest = dir.manifest /\ dir'.rollback = dir.rollback
          /\ disk'.manifest = disk.manifest
          /\ dir'.file[pub.snap] = "good" /\ disk'.file[pub.snap] = disk.file[pub.snap] \cup {"good"}
          /\ \A x \in Snapshots \ {pub.snap} : dir'.file[x] = dir.file[x] /\ disk'.file[x] = disk.file[x]
      BY <1>1, <1>2, SetFileEffect DEF FileStates
    <2>2. /\ pub' \in Publishers /\ pub'.pc = "sync" /\ pub'.kind = pub.kind /\ pub'.snap = pub.snap
          /\ pub'.prior = pub.prior /\ pub'.lkg = pub.lkg
      BY <1>1, <1>2, GotoEffect
    <2>3. Types' /\ Seen'
      BY <2>1, <2>2, <1>1 DEF Types
    <2>4. HolderKnows'
      BY <2>1, <2>2, <1>1 DEF HolderKnows, KeepsCopy
    <2>5. HolderInstalled'
      BY <2>1, <2>2, <1>1 DEF HolderInstalled, Publishers
    <2>6. HolderCommitted'
      BY <2>2 DEF HolderCommitted
    <2>7. \A c \in Snapshots : disk.file[c] = {"good"} => disk'.file[c] = {"good"}
      BY <2>1
    <2>8. ManifestsLead'
      BY <2>1, <2>7, <1>1, ManifestFacts, MarkFacts, DisksHold DEF ManifestsLead, Durable
    <2> QED BY <2>3, <2>4, <2>5, <2>6, <2>8
  <1>3. CASE dir.file[pub.snap] = "good" /\ UNCHANGED <<dir, disk>> /\ Goto("sync")
    <2>2. /\ pub' \in Publishers /\ pub'.pc = "sync" /\ pub'.kind = pub.kind /\ pub'.snap = pub.snap
          /\ pub'.prior = pub.prior /\ pub'.lkg = pub.lkg
      BY <1>1, <1>3, GotoEffect
    <2> QED
      BY <1>1, <1>3, <2>2, StoreFrame DEF Types, HolderKnows, HolderInstalled, HolderCommitted, KeepsCopy, storeVars
  <1>4. CASE UNCHANGED <<dir, disk>> /\ Unlock
    BY <1>1, <1>4, GivesBack DEF Types, storeVars
  <1> QED BY <1>2, <1>3, <1>4

\* What a sync makes certain.
LEMMA SyncLeads ==
    ASSUME StoreInv, SyncDirectory, damaged' = damaged
    PROVE  /\ dir' = dir /\ disk' \in Disks /\ Seen' /\ ManifestsLead'
           /\ disk'.manifest = {dir.manifest}
           /\ \A c \in Snapshots : disk'.file[c] = {dir.file[c]}
           /\ \A c \in Snapshots : disk.file[c] = {"good"} => disk'.file[c] = {"good"}
  <1>1. /\ dir' = dir /\ disk' \in Disks /\ Seen'
        /\ disk'.manifest = {dir.manifest}
        /\ \A c \in Snapshots : disk'.file[c] = {dir.file[c]}
        /\ \A c \in Snapshots : disk.file[c] = {"good"} => disk'.file[c] = {"good"}
    BY SyncEffect DEF StoreInv
  <1>2. \A m \in disk.manifest : References(m) \subseteq Snapshots
    BY DisksHold DEF StoreInv
  <1>3. dir.manifest \in disk.manifest
    BY DEF StoreInv, Seen
  <1>4. ManifestsLead'
    BY <1>1, <1>2, <1>3 DEF StoreInv, ManifestsLead, Durable, References, Parsed
  <1> QED BY <1>1, <1>4

\* Two syncs that change nothing else: after the generation and after the copy.
LEMMA SyncGenerationKeeps == ASSUME StoreInv, SyncGeneration PROVE StoreInv'
  <1> USE DEF StoreInv, SyncGeneration, At
  <1>1. pub \in Publishers /\ pub.snap \in Snapshots /\ reader' = reader /\ damaged' = damaged /\ pub.pc = "sync"
    BY DEF Types, HolderKnows
  <1>2. /\ dir' = dir /\ disk' \in Disks /\ Seen' /\ ManifestsLead'
        /\ disk'.manifest = {dir.manifest} /\ \A c \in Snapshots : disk'.file[c] = {dir.file[c]}
    BY <1>1, SyncLeads
  <1> DEFINE next == IF pub.kind = "publish" /\ pub.prior # None THEN "rollback" ELSE "commit"
  <1>3. next \in {"rollback", "commit"} /\ (next = "rollback" => KeepsCopy) /\ (next = "commit" => ~KeepsCopy)
    BY DEF KeepsCopy
  <1>4. Goto(next)
    OBVIOUS
  <1> HIDE DEF next
  <1>5. /\ pub' \in Publishers /\ pub'.pc = next /\ pub'.kind = pub.kind /\ pub'.snap = pub.snap
        /\ pub'.prior = pub.prior /\ pub'.lkg = pub.lkg
    BY <1>1, <1>3, <1>4, GotoEffect
  <1>6. Types'
    BY <1>1, <1>2, <1>5 DEF Types
  <1>7. HolderKnows'
    BY <1>1, <1>2, <1>3, <1>5 DEF HolderKnows, KeepsCopy
  <1>8. pub.lkg \in Snapshots \cup {None} /\ dir.file[pub.snap] = "good" /\ (pub.lkg # None => dir.file[pub.lkg] = "good")
    BY <1>1 DEF HolderInstalled, Publishers
  <1>9. HolderInstalled'
    BY <1>1, <1>2, <1>3, <1>5, <1>8 DEF HolderInstalled, Durable
  <1>10. HolderCommitted'
    BY <1>3, <1>5 DEF HolderCommitted
  <1> QED BY <1>2, <1>6, <1>7, <1>9, <1>10

LEMMA SyncRollbackKeeps == ASSUME StoreInv, SyncRollback PROVE StoreInv'
  <1> USE DEF StoreInv, SyncRollback, At
  <1>1. pub \in Publishers /\ pub.snap \in Snapshots /\ reader' = reader /\ damaged' = damaged /\ pub.pc = "keep"
    BY DEF Types, HolderKnows
  <1>2. /\ dir' = dir /\ disk' \in Disks /\ Seen' /\ ManifestsLead'
        /\ \A c \in Snapshots : disk.file[c] = {"good"} => disk'.file[c] = {"good"}
    BY <1>1, SyncLeads
  <1>5. /\ pub' \in Publishers /\ pub'.pc = "commit" /\ pub'.kind = pub.kind /\ pub'.snap = pub.snap
        /\ pub'.prior = pub.prior /\ pub'.lkg = pub.lkg
    BY <1>1, GotoEffect
  <1>6. Types'
    BY <1>1, <1>2, <1>5 DEF Types
  <1>7. HolderKnows'
    BY <1>1, <1>2, <1>5 DEF HolderKnows, KeepsCopy
  <1>9. HolderInstalled'
    BY <1>1, <1>2, <1>5 DEF HolderInstalled, Durable, Publishers
  <1>10. HolderCommitted'
    BY <1>5 DEF HolderCommitted
  <1> QED BY <1>2, <1>6, <1>7, <1>9, <1>10

\* The copy is of the manifest that is about to be replaced.
LEMMA KeepRollbackKeeps == ASSUME StoreInv, KeepRollback PROVE StoreInv'
  <1> USE DEF StoreInv, KeepRollback, At
  <1>1. /\ pub \in Publishers /\ pub.snap \in Snapshots /\ reader' = reader /\ damaged' = damaged /\ pub.pc = "rollback"
        /\ KeepsCopy /\ pub.prior \in Manifests
    BY DEF Types, HolderKnows
  <1>2. /\ dir' \in Directories /\ disk' \in Disks /\ Seen'
        /\ dir'.manifest = dir.manifest /\ dir'.rollback = pub.prior /\ dir'.file = dir.file
        /\ disk'.manifest = disk.manifest /\ disk'.file = disk.file
    BY <1>1, SetRollbackEffect
  <1>5. /\ pub' \in Publishers /\ pub'.pc = "keep" /\ pub'.kind = pub.kind /\ pub'.snap = pub.snap
        /\ pub'.prior = pub.prior /\ pub'.lkg = pub.lkg
    BY <1>1, GotoEffect
  <1>6. Types'
    BY <1>1, <1>2, <1>5 DEF Types
  <1>7. HolderKnows'
    BY <1>1, <1>2, <1>5 DEF HolderKnows, KeepsCopy
  <1>9. HolderInstalled'
    BY <1>1, <1>2, <1>5 DEF HolderInstalled, Durable
  <1>10. HolderCommitted' /\ ManifestsLead'
    BY <1>1, <1>2, <1>5 DEF HolderCommitted, ManifestsLead, Durable, References, Parsed
  <1> QED BY <1>2, <1>6, <1>7, <1>9, <1>10

\* What is committed names what is installed, and what was current before.
LEMMA CommittedFacts ==
    ASSUME StoreInv, pub.pc # "none"
    PROVE  /\ Committed \in Manifests /\ Committed.current = pub.snap /\ Committed.lkg = pub.lkg
           /\ pub.snap # None
           /\ References(Committed) = {pub.snap, pub.lkg} \ {None}
  <1>1. Committed \in Manifests /\ Committed.current = pub.snap /\ Committed.lkg = pub.lkg
    BY DEF StoreInv, Types, HolderKnows, Publishers, Committed, Manifests
  <1> HIDE DEF Committed
  <1> QED BY <1>1, ManifestFacts

LEMMA CommitKeeps == ASSUME StoreInv, CommitManifest PROVE StoreInv'
  <1> USE DEF StoreInv, CommitManifest, At
  <1>1. /\ pub \in Publishers /\ pub.snap \in Snapshots /\ damaged' = damaged /\ pub.pc = "commit"
        /\ dir.manifest = pub.prior
        /\ Durable(pub.snap) /\ Durable(pub.lkg)
    BY DEF Types, HolderKnows, HolderInstalled
  <1>2. SetManifest(Committed) /\ Goto("settle") /\ reader' = Passed(1)
    BY <1>1
  <1>3. Committed \in Manifests /\ Committed # Malformed /\ References(Committed) = {pub.snap, pub.lkg} \ {None}
    BY <1>1, CommittedFacts, ManifestFacts
  <1>4. /\ dir' \in Directories /\ disk' \in Disks /\ Seen'
        /\ dir'.manifest = Committed /\ dir'.rollback = dir.rollback /\ dir'.file = dir.file
        /\ disk'.manifest = disk.manifest \cup {Committed} /\ disk'.file = disk.file
    BY <1>2, <1>3, SetManifestEffect DEF ManifestValues
  <1>5. /\ pub' \in Publishers /\ pub'.pc = "settle" /\ pub'.kind = pub.kind /\ pub'.snap = pub.snap
        /\ pub'.prior = pub.prior /\ pub'.lkg = pub.lkg
    BY <1>1, <1>2, GotoEffect
  <1>6. Types'
    BY <1>1, <1>2, <1>4, <1>5, PassedType DEF Types
  <1>7. HolderKnows'
    BY <1>1, <1>4, <1>5 DEF HolderKnows, KeepsCopy
  <1>9. HolderInstalled'
    BY <1>1, <1>4, <1>5 DEF HolderInstalled, Durable
  <1>10. HolderCommitted'
    BY <1>1, <1>4, <1>5 DEF HolderCommitted, Seen, Committed
  <1>11. ManifestsLead'
    BY <1>1, <1>3, <1>4 DEF ManifestsLead, Durable, References, Parsed
  <1> QED BY <1>4, <1>6, <1>7, <1>9, <1>10, <1>11

LEMMA SyncManifestKeeps == ASSUME StoreInv, SyncManifest PROVE StoreInv'
  <1> USE DEF StoreInv, SyncManifest, At
  <1>1. /\ pub \in Publishers /\ pub.snap \in Snapshots /\ reader' = reader /\ damaged' = damaged /\ pub.pc = "settle"
        /\ dir.manifest = Committed
    BY DEF Types, HolderKnows, HolderCommitted
  <1>2. /\ dir' = dir /\ disk' \in Disks /\ Seen' /\ ManifestsLead'
        /\ disk'.manifest = {dir.manifest}
        /\ \A c \in Snapshots : disk.file[c] = {"good"} => disk'.file[c] = {"good"}
    BY <1>1, SyncLeads
  <1>5. /\ pub' \in Publishers /\ pub'.pc = "clean" /\ pub'.kind = pub.kind /\ pub'.snap = pub.snap
        /\ pub'.prior = pub.prior /\ pub'.lkg = pub.lkg
    BY <1>1, GotoEffect
  <1>6. Types'
    BY <1>1, <1>2, <1>5 DEF Types
  <1>7. HolderKnows'
    BY <1>1, <1>2, <1>5 DEF HolderKnows, KeepsCopy
  <1>9. HolderInstalled'
    BY <1>1, <1>2, <1>5 DEF HolderInstalled, Durable, Publishers
  <1>10. HolderCommitted'
    BY <1>1, <1>2, <1>5 DEF HolderCommitted, Committed
  <1> QED BY <1>2, <1>6, <1>7, <1>9, <1>10

LEMMA SyncFailsKeeps == ASSUME StoreInv, SyncManifestFails PROVE StoreInv'
  <1> USE DEF StoreInv, SyncManifestFails, At
  <1>1. pub \in Publishers /\ pub.pc = "settle" /\ UNCHANGED <<dir, disk, damaged, reader>>
    BY DEF Types, storeVars
  <1>5. /\ pub' \in Publishers /\ pub'.pc = "restore" /\ pub'.kind = pub.kind /\ pub'.snap = pub.snap
        /\ pub'.prior = pub.prior /\ pub'.lkg = pub.lkg
    BY <1>1, GotoEffect
  <1> QED
    BY <1>1, <1>5, StoreFrame
    DEF storeVars, Types, HolderKnows, HolderInstalled, HolderCommitted, KeepsCopy, Durable, Committed

\* The manifest that comes back is the one that was there before the commit, and
\* may still be on the disk.
LEMMA RestoreKeeps == ASSUME StoreInv, RestoreManifest PROVE StoreInv'
  <1> USE DEF StoreInv, RestoreManifest, At
  <1>1. /\ pub \in Publishers /\ pub.snap \in Snapshots /\ damaged' = damaged /\ pub.pc = "restore"
        /\ pub.prior \in disk.manifest /\ pub.prior \in ManifestValues
        /\ KeepsCopy => dir.rollback = pub.prior
    BY DEF Types, HolderKnows, HolderCommitted, Publishers
  <1>2. /\ dir' \in Directories /\ disk' \in Disks /\ Seen'
        /\ dir'.manifest = pub.prior /\ dir'.file = dir.file
        /\ disk'.manifest = disk.manifest /\ disk'.file = disk.file
    <2>1. CASE ~KeepsCopy
      <3>1. SetManifest(pub.prior)
        BY <1>1, <2>1 DEF KeepsCopy, Publishers
      <3> QED BY <3>1, <1>1, SetManifestEffect
    <2>2. CASE KeepsCopy
      <3>1. /\ dir' = [dir EXCEPT !.manifest = dir.rollback, !.rollback = None]
            /\ disk' = [disk EXCEPT !.manifest = @ \cup {dir.rollback}, !.rollback = @ \cup {None}]
        BY <1>1, <2>2 DEF KeepsCopy
      <3>2. dir \in Directories /\ disk \in Disks
        BY DEF Types
      <3>3. dir'.manifest = pub.prior /\ dir'.rollback = None /\ dir'.file = dir.file
        BY <1>1, <2>2, <3>1, <3>2 DEF Directories
      <3>4. disk'.manifest = disk.manifest /\ disk'.rollback = disk.rollback \cup {None} /\ disk'.file = disk.file
        BY <1>1, <2>2, <3>1, <3>2 DEF Disks
      <3>5. dir' \in Directories /\ disk' \in Disks
        BY <1>1, <2>2, <3>1, <3>2 DEF Directories, Disks
      <3> QED BY <1>1, <3>3, <3>4, <3>5 DEF Seen
    <2> QED BY <2>1, <2>2
  <1>3. reader' \in [Readers -> Evaluations]
    <2>1. PICK n \in Nat : reader' = Passed(n)
      BY SnapshotAssumption
    <2> QED BY <2>1, PassedType
  <1>5. /\ pub' \in Publishers /\ pub'.pc = "resync" /\ pub'.kind = pub.kind /\ pub'.snap = pub.snap
        /\ pub'.prior = pub.prior /\ pub'.lkg = pub.lkg
    BY <1>1, GotoEffect
  <1>6. Types'
    BY <1>1, <1>2, <1>3, <1>5 DEF Types
  <1>7. HolderKnows' /\ HolderInstalled' /\ HolderCommitted'
    BY <1>1, <1>2, <1>5 DEF HolderKnows, KeepsCopy, HolderInstalled, HolderCommitted
  <1>8. ManifestsLead'
    BY <1>1, <1>2 DEF ManifestsLead, Durable, References, Parsed
  <1> QED BY <1>2, <1>6, <1>7, <1>8

LEMMA SyncRestoredKeeps == ASSUME StoreInv, SyncRestored PROVE StoreInv'
  <1>1. dir' = dir /\ disk' \in Disks /\ Seen' /\ ManifestsLead' /\ damaged' = damaged /\ reader' = reader
    BY SyncLeads DEF SyncRestored
  <1>2. pub' \in Publishers /\ pub'.pc = "none"
    BY UnlockEffect DEF SyncRestored
  <1> QED BY <1>1, <1>2, Idle DEF StoreInv, Types

\* Cleanup removes nothing that the manifest names, and the disk has no other
\* manifest any more.
LEMMA RemoveKeeps == ASSUME StoreInv, RemoveGeneration PROVE StoreInv'
  <1> USE DEF StoreInv, RemoveGeneration, At
  <1>1. /\ pub \in Publishers /\ pub.snap \in Snapshots /\ pub' = pub /\ reader' = reader /\ damaged' = damaged
        /\ pub.pc = "clean" /\ dir.manifest = Committed /\ disk.manifest = {Committed}
        /\ Durable(pub.snap) /\ Durable(pub.lkg)
    BY DEF Types, HolderKnows, HolderInstalled, HolderCommitted
  <1>2. Committed \in Manifests /\ Committed # Malformed /\ References(Committed) = {pub.snap, pub.lkg} \ {None}
    BY <1>1, CommittedFacts, ManifestFacts
  <1>3. PICK c \in Superfluous : SetFile(c, "none")
    BY DEF Superfluous
  <1>4. c \in Snapshots /\ c \notin References(Committed)
    BY <1>3 DEF Superfluous, Retained
  <1>5. /\ dir' \in Directories /\ disk' \in Disks /\ Seen'
        /\ dir'.manifest = dir.manifest /\ dir'.rollback = dir.rollback /\ disk'.manifest = disk.manifest
        /\ \A x \in Snapshots \ {c} : dir'.file[x] = dir.file[x] /\ disk'.file[x] = disk.file[x]
    BY <1>3, <1>4, SetFileEffect DEF FileStates
  <1>6. Types' /\ HolderKnows' /\ HolderCommitted'
    BY <1>1, <1>5 DEF Types, HolderKnows, KeepsCopy, HolderCommitted, Committed
  <1>7. \A x \in {pub.snap, pub.lkg} \ {None} : disk'.file[x] = {"good"}
    BY <1>1, <1>2, <1>4, <1>5 DEF Durable, Publishers
  <1>8. HolderInstalled'
    BY <1>1, <1>7 DEF HolderInstalled, Durable
  <1>9. References(Committed)' = References(Committed) /\ Committed' = Committed
    BY <1>1 DEF References, Committed, Parsed
  <1>10. ManifestsLead'
    BY <1>1, <1>2, <1>5, <1>7 DEF ManifestsLead, Durable, References, Parsed
  <1> QED BY <1>5, <1>6, <1>8, <1>10

LEMMA FinishKeeps == ASSUME StoreInv, FinishPublication PROVE StoreInv'
  <1> USE DEF StoreInv, FinishPublication, At
  <1>1. /\ pub.pc = "clean" /\ reader' = reader /\ damaged' = FALSE /\ pub.snap \in Snapshots /\ pub \in Publishers
        /\ disk.manifest = {Committed} /\ dir.manifest = Committed
        /\ Durable(pub.snap) /\ Durable(pub.lkg)
    BY DEF Types, HolderKnows, HolderInstalled, HolderCommitted
  <1>2. Committed \in Manifests /\ Committed # Malformed /\ References(Committed) = {pub.snap, pub.lkg} \ {None}
    BY <1>1, CommittedFacts, ManifestFacts
  <1>3. /\ dir' = dir /\ disk' \in Disks /\ Seen' /\ disk'.manifest = {Committed}
        /\ \A c \in Snapshots : disk.file[c] = {"good"} => disk'.file[c] = {"good"}
    <2>1. CASE SyncDirectory
      BY <1>1, <2>1, SyncEffect
    <2>2. CASE UNCHANGED <<dir, disk>>
      BY <1>1, <2>2 DEF Types, Seen
    <2> QED BY <2>1, <2>2
  <1>4. \A c \in References(Committed) : disk'.file[c] = {"good"}
    BY <1>1, <1>2, <1>3 DEF Durable, Publishers
  <1>5. ManifestsLead'
    BY <1>2, <1>3, <1>4 DEF ManifestsLead, Durable, References, Parsed
  <1>6. pub' \in Publishers /\ pub'.pc = "none"
    BY UnlockEffect
  <1> QED BY <1>1, <1>3, <1>5, <1>6, Idle DEF Types

\* A publication begins with what it reads of the manifest; what it keeps as the
\* last known good it has just read.
LEMMA BeginPublishKeeps == ASSUME StoreInv, NEW c \in Snapshots, BeginPublish(c) PROVE StoreInv'
  <1> USE DEF StoreInv
  <1>1. UNCHANGED <<dir, disk, damaged, reader>>
    BY DEF BeginPublish, storeVars
  <1>2. dir.manifest \in ManifestValues
    BY DEF Types, Directories
  <1>3. CASE dir.manifest = None \/ Readable(dir.manifest)
    <2> DEFINE lkg == IF dir.manifest = None THEN None ELSE dir.manifest.current
    <2>1. lkg \in Snapshots \cup {None} /\ (lkg # None => dir.file[lkg] = "good")
      BY <1>2, <1>3, ManifestFacts DEF ManifestValues, Readable, Good, Parsed
    <2>2. dir.manifest # None => dir.manifest \in Manifests /\ lkg = dir.manifest.current
      BY <1>2, <1>3, MarkFacts DEF ManifestValues, Readable
    <2> HIDE DEF lkg
    <2>3. pub' = [NoPublisher EXCEPT !.pc = "install", !.snap = c, !.prior = dir.manifest, !.lkg = lkg]
      BY <1>3 DEF BeginPublish, lkg
    <2>4. /\ pub' \in Publishers /\ pub'.pc = "install" /\ pub'.kind = "publish" /\ pub'.snap = c
          /\ pub'.prior = dir.manifest /\ pub'.lkg = lkg
      BY <1>2, <2>1, <2>3 DEF NoPublisher, Publishers
    <2>5. HolderKnows' /\ HolderInstalled' /\ HolderCommitted'
      BY <1>1, <2>1, <2>2, <2>4 DEF HolderKnows, KeepsCopy, HolderInstalled, HolderCommitted
    <2> QED BY <1>1, <2>4, <2>5, StoreFrame DEF Types, storeVars
  <1>4. CASE ~(dir.manifest = None \/ Readable(dir.manifest))
    BY <1>1, <1>4, GivesBack DEF BeginPublish, Types, storeVars, Unlock
  <1> QED BY <1>3, <1>4

\* A recovery begins only when the manifest does not lead to a snapshot, which
\* without damage does not happen.
LEMMA BeginRecoverKeeps == ASSUME StoreInv, NEW c \in Snapshots, BeginRecover(c) PROVE StoreInv'
  <1> USE DEF StoreInv
  <1>1. UNCHANGED <<dir, disk, damaged, reader>>
    BY DEF BeginRecover, storeVars
  <1>2. dir.manifest \in ManifestValues /\ dir.rollback \in Manifests \cup {None}
    BY DEF Types, Directories
  <1>3. damaged
    <2> SUFFICES ASSUME ~damaged, dir.manifest # None PROVE Readable(dir.manifest)
      BY DEF BeginRecover, Recoverable
    <2>1. dir.manifest \in disk.manifest /\ dir.manifest # Malformed
      BY DEF Seen, ManifestsLead
    <2>2. dir.manifest \in Manifests
      BY <1>2, <2>1 DEF ManifestValues
    <2>3. disk.file[dir.manifest.current] = {"good"}
      BY <2>1, <2>2, ManifestFacts DEF ManifestsLead, Durable
    <2> QED BY <2>2, <2>3, ManifestFacts DEF Readable, Good, Seen
  <1> DEFINE superseded == IF Parsed(dir.manifest) THEN dir.manifest.current ELSE None
  <1>4. superseded \in Snapshots \cup {None}
    BY <1>2, ManifestFacts DEF ManifestValues, Parsed
  <1>5. /\ RecoveryReference \in Snapshots \cup {None}
        /\ RecoveryReference # None => dir.file[RecoveryReference] = "good"
    BY <1>2, ManifestFacts, MarkFacts DEF RecoveryReference, Readable, Good, ManifestValues
  <1> HIDE DEF superseded
  <1>6. pub' = [NoPublisher EXCEPT !.pc = "install", !.kind = "recover", !.snap = c, !.prior = dir.manifest,
                                   !.lkg = RecoveryReference, !.superseded = superseded]
    BY DEF BeginRecover, superseded
  <1>7. /\ pub' \in Publishers /\ pub'.pc = "install" /\ pub'.kind = "recover" /\ pub'.snap = c
        /\ pub'.prior = dir.manifest /\ pub'.lkg = RecoveryReference
    BY <1>2, <1>4, <1>5, <1>6 DEF NoPublisher, Publishers
  <1>8. HolderKnows' /\ HolderInstalled' /\ HolderCommitted'
    BY <1>1, <1>3, <1>5, <1>7 DEF HolderKnows, KeepsCopy, HolderInstalled, HolderCommitted
  <1> QED BY <1>1, <1>7, <1>8, StoreFrame DEF Types, storeVars

\* Whatever a power loss leaves is one of the things that were on the disk.
LEMMA PowerLossKeeps == ASSUME StoreInv, PowerLoss PROVE StoreInv'
  <1> USE DEF StoreInv
  <1>1. PICK m \in disk.manifest, b \in disk.rollback, files \in [Snapshots -> {"none", "good", "bad"}] :
          /\ \A c \in Snapshots : files[c] \in disk.file[c]
          /\ dir' = [manifest |-> m, rollback |-> b, file |-> files]
          /\ disk' = [manifest |-> {m}, rollback |-> {b}, file |-> [c \in Snapshots |-> {files[c]}]]
    BY DEF PowerLoss
  <1>2. /\ pub' = NoPublisher /\ reader' = [r \in Readers |-> NoReader] /\ damaged' = damaged
    BY DEF PowerLoss
  <1>3. pub' \in Publishers /\ pub'.pc = "none"
    BY <1>2, UnlockEffect DEF Unlock
  <1>4. NoReader \in Evaluations
    BY SnapshotAssumption DEF NoReader, Evaluations, ManifestValues
  <1>5. dir' \in Directories /\ disk' \in Disks /\ Seen'
    BY <1>1 DEF Types, Directories, Disks, Seen, FileStates
  <1>6. Types'
    BY <1>2, <1>3, <1>4, <1>5 DEF Types
  <1>7. References(m) \subseteq Snapshots
    BY DisksHold
  <1>8. ManifestsLead'
    BY <1>1, <1>2, <1>7 DEF ManifestsLead, Durable, References, Parsed
  <1> QED BY <1>3, <1>5, <1>6, <1>8, Idle

LEMMA DamageKeeps == ASSUME StoreInv, Damage PROVE StoreInv'
  <1> USE DEF StoreInv
  <1>1. /\ pub.pc = "none" /\ pub' = pub /\ damaged' = TRUE /\ reader' = Passed(MaxOvertakes)
    BY DEF Damage, At
  <1>2. reader' \in [Readers -> Evaluations]
    BY <1>1, SnapshotAssumption, PassedType
  <1>3. dir' \in Directories /\ disk' \in Disks /\ Seen'
    <2>1. ASSUME NEW c \in Snapshots, NEW f \in {"none", "bad"},
                 dir' = [dir EXCEPT !.file[c] = f], disk' = [disk EXCEPT !.file[c] = {f}]
          PROVE  dir' \in Directories /\ disk' \in Disks /\ Seen'
      BY <2>1 DEF Types, Directories, Disks, Seen, FileStates
    <2>2. ASSUME dir' = [dir EXCEPT !.manifest = Malformed], disk' = [disk EXCEPT !.manifest = {Malformed}]
          PROVE  dir' \in Directories /\ disk' \in Disks /\ Seen'
      BY <2>2 DEF Types, Directories, Disks, Seen, ManifestValues
    <2> QED BY <2>1, <2>2 DEF Damage
  <1>4. ManifestsLead' /\ Types' /\ pub'.pc = "none"
    BY <1>1, <1>2, <1>3 DEF ManifestsLead, Types
  <1> QED BY <1>3, <1>4, Idle

LEMMA StopKeeps == ASSUME StoreInv, PublisherStops PROVE StoreInv'
  BY GivesBack DEF PublisherStops, StoreInv, Types

---------------------------------------------------------------------------
\* A step of one evaluation.
ReaderStep(r) == BeginEvaluation(r) \/ Evaluate(r) \/ EndEvaluation(r)

\* It changes its own variables and nothing of the store.
LEMMA ReaderStepType ==
    ASSUME StoreInv, NEW r \in Readers, ReaderStep(r)
    PROVE  /\ UNCHANGED <<storeVars, pub>> /\ reader' \in [Readers -> Evaluations]
           /\ \A x \in Readers \ {r} : reader'[x] = reader[x]
  <1> USE DEF StoreInv
  <1>1. reader \in [Readers -> Evaluations] /\ reader[r] \in Evaluations /\ dir.manifest \in ManifestValues
    BY DEF Types, Directories
  <1>2. NoReader \in Evaluations
    BY SnapshotAssumption DEF NoReader, Evaluations, ManifestValues
  <1>3. reader[r].seen \in ManifestValues
    BY <1>1 DEF Evaluations
  <1>4. UNCHANGED <<storeVars, pub>>
    BY DEF ReaderStep, BeginEvaluation, EndEvaluation, Evaluate, LoadCurrent, Read, LoadPinned, LoadLastKnownGood
  <1>5. SUFFICES \E e \in Evaluations : reader' = [reader EXCEPT ![r] = e]
    BY <1>1, <1>4
  <1>6. CASE BeginEvaluation(r)
    <2> DEFINE n == IF damaged THEN MaxOvertakes ELSE 0
    <2>1. n \in 0 .. MaxOvertakes
      BY SnapshotAssumption
    <2> HIDE DEF n
    <2> DEFINE e == [NoReader EXCEPT !.pc = "generation", !.seen = dir.manifest, !.overtaken = n]
    <2>2. e \in Evaluations
      BY <1>1, <1>2, <2>1 DEF NoReader, Evaluations
    <2>3. reader' = [reader EXCEPT ![r] = e]
      BY <1>6 DEF BeginEvaluation, n
    <2> QED BY <2>2, <2>3
  <1>7. ASSUME NEW pc, NEW next \in {"pinned", "fallback"}, Read(r, pc, next)
        PROVE  \E e \in Evaluations : reader' = [reader EXCEPT ![r] = e]
    <2> DEFINE e == [reader[r] EXCEPT !.seen = dir.manifest, !.pc = next]
    <2>1. e \in Evaluations
      BY <1>1 DEF Evaluations
    <2>2. reader' = [reader EXCEPT ![r] = e]
      BY <1>1, <1>7 DEF Read, Evaluations
    <2> QED BY <2>1, <2>2
  <1>8. ASSUME NEW pc \in {"again", "good", "done"}, NEW pin \in Snapshots \cup {None}, NEW got \in Snapshots \cup {None},
               Answer(r, pc, pin, got)
        PROVE  \E e \in Evaluations : reader' = [reader EXCEPT ![r] = e]
    <2> DEFINE e == [reader[r] EXCEPT !.pc = pc, !.pin = pin, !.seen = None, !.got = got]
    <2>1. e \in Evaluations
      BY <1>1 DEF Evaluations, ManifestValues
    <2>2. reader' = [reader EXCEPT ![r] = e]
      BY <1>1, <1>8 DEF Answer, Evaluations
    <2> QED BY <2>1, <2>2
  <1>9. \A m \in ManifestValues : Parsed(m) => m.current \in Snapshots /\ m.lkg \in Snapshots \cup {None}
    BY ManifestFacts DEF ManifestValues, Parsed
  <1>10. CASE LoadCurrent(r)
    <2> DEFINE pin == IF Readable(reader[r].seen) THEN reader[r].seen.current ELSE None
    <2>1. pin \in Snapshots \cup {None}
      BY <1>3, <1>9 DEF Readable
    <2>2. Answer(r, "again", pin, None)
      BY <1>10 DEF LoadCurrent
    <2> HIDE DEF pin
    <2> QED BY <2>1, <2>2, <1>8
  <1>11. CASE LoadPinned(r)
    <2>1. CASE Readable(reader[r].seen) /\ Answer(r, "done", None, reader[r].seen.current)
      <3>1. reader[r].seen.current \in Snapshots
        BY <2>1, <1>3, <1>9 DEF Readable
      <3> QED BY <3>1, <2>1, <1>8
    <2>2. CASE Answer(r, "good", None, None)
      BY <2>2, <1>8
    <2> QED BY <1>11, <2>1, <2>2 DEF LoadPinned
  <1>12. CASE LoadLastKnownGood(r)
    <2> DEFINE got == IF Parsed(reader[r].seen) /\ Good(reader[r].seen.lkg) THEN reader[r].seen.lkg ELSE None
    <2>1. got \in Snapshots \cup {None}
      BY <1>3, <1>9
    <2>2. Answer(r, "done", None, got)
      BY <1>12 DEF LoadLastKnownGood
    <2> HIDE DEF got
    <2> QED BY <2>1, <2>2, <1>8
  <1>13. CASE EndEvaluation(r)
    BY <1>2, <1>13 DEF EndEvaluation
  <1> QED BY <1>6, <1>7, <1>10, <1>11, <1>12, <1>13 DEF ReaderStep, Evaluate

LEMMA ReaderStepKeeps == ASSUME StoreInv, NEW r \in Readers, ReaderStep(r) PROVE StoreInv'
  BY ReaderStepType, StoreFrame
  DEF StoreInv, storeVars, Types, HolderKnows, HolderInstalled, HolderCommitted, KeepsCopy, Durable, Committed

---------------------------------------------------------------------------
\* Every step of the store keeps its invariant.
LEMMA StoreInvStep == ASSUME StoreInv, [Next]_vars PROVE StoreInv'
  <1>1. CASE \E c \in Snapshots : BeginPublish(c) \/ BeginRecover(c)
    BY <1>1, BeginPublishKeeps, BeginRecoverKeeps
  <1>2. CASE Publish
    BY <1>2, InstallKeeps, SyncGenerationKeeps, KeepRollbackKeeps, SyncRollbackKeeps, CommitKeeps,
       SyncManifestKeeps, RestoreKeeps, SyncRestoredKeeps, RemoveKeeps, FinishKeeps
    DEF Publish
  <1>3. CASE SyncManifestFails \/ PublisherStops \/ PowerLoss \/ Damage
    BY <1>3, SyncFailsKeeps, StopKeeps, PowerLossKeeps, DamageKeeps
  <1>4. CASE \E r \in Readers : ReaderStep(r)
    BY <1>4, ReaderStepKeeps
  <1>5. CASE UNCHANGED vars
    BY <1>5, StoreFrame
    DEF StoreInv, vars, storeVars, Types, HolderKnows, HolderInstalled, HolderCommitted, KeepsCopy, Durable, Committed
  <1> QED BY <1>1, <1>2, <1>3, <1>4, <1>5 DEF Next, ReaderStep

LEMMA StoreInvInit == ASSUME SnapshotInit PROVE StoreInv
  <1>1. NoReader \in Evaluations /\ NoPublisher \in Publishers
    BY SnapshotAssumption DEF NoReader, NoPublisher, Evaluations, Publishers, ManifestValues
  <1>2. Types
    BY <1>1 DEF SnapshotInit, Types, Directories, Disks, FileStates, ManifestValues
  <1>3. Seen /\ ManifestsLead
    BY MarkFacts, SnapshotAssumption DEF SnapshotInit, Seen, ManifestsLead
  <1>4. HolderKnows /\ HolderInstalled /\ HolderCommitted
    BY DEF SnapshotInit, NoPublisher, HolderKnows, HolderInstalled, HolderCommitted
  <1> QED BY <1>2, <1>3, <1>4 DEF StoreInv

\* The type invariant of the module.
THEOREM SnapshotTypeCorrect == SnapshotSpec => []SnapshotTypeOK
  <1>1. StoreInv => SnapshotTypeOK
    BY DEF StoreInv, Types, Seen, SnapshotTypeOK, Directories, ManifestValues, FileStates
  <1> QED BY <1>1, StoreInvInit, StoreInvStep, PTL DEF SnapshotSpec

\* Whatever a power loss or a death leaves, the manifest names generations that are
\* on the disk: the order of renames and directory syncs in publishSerialized(),
\* recoverSerialized() and #cleanupAfterCommit() is enough.
THEOREM ManifestStaysDurable == SnapshotSpec => []ManifestIsDurable
  <1>1. ASSUME StoreInv, ~damaged, NEW m \in disk.manifest, NEW c \in References(m) PROVE disk.file[c] = {"good"}
    <2>1. c # None
      BY DEF References
    <2> QED BY <1>1, <2>1 DEF StoreInv, ManifestsLead, Durable
  <1>2. StoreInv => ManifestIsDurable
    BY <1>1 DEF ManifestIsDurable
  <1> QED BY <1>2, StoreInvInit, StoreInvStep, PTL DEF SnapshotSpec
---------------------------------------------------------------------------
\* Without damage the manifest leads to what it names.
LEMMA ManifestReadable ==
    ASSUME StoreInv, ~damaged, dir.manifest \in Manifests
    PROVE  /\ Readable(dir.manifest)
           /\ \A c \in References(dir.manifest) : c \in Snapshots /\ dir.file[c] = "good"
  <1>1. \A c \in References(dir.manifest) : c \in Snapshots /\ c # None /\ disk.file[c] = {"good"}
    BY ManifestFacts DEF StoreInv, Seen, ManifestsLead, Durable
  <1>2. \A c \in References(dir.manifest) : c \in Snapshots /\ dir.file[c] = "good"
    BY <1>1 DEF StoreInv, Seen
  <1> QED BY <1>2, ManifestFacts DEF Readable, Good

\* A step of the holder that publishes nothing and withdraws nothing.
LEMMA QuietServes ==
    ASSUME ReaderInv, reader' = reader, dir'.manifest = dir.manifest, ~damaged => ~damaged',
           \A c : Lasts(c) => Lasts(c)'
    PROVE  ReaderInv'
  <1> SUFFICES ASSUME NEW r \in Readers, Owed(r) PROVE ReaderServed(r)'
    BY DEF ReaderInv, Owed
  <1>1. ReaderServed(r)
    BY DEF ReaderInv
  <1>2. Undisturbed(r) => Undisturbed(r)'
    BY DEF Undisturbed
  <1>3. References(dir.manifest)' = References(dir.manifest)
    BY DEF References, Parsed
  <1>4. FallbackLasts(r) => FallbackLasts(r)'
    <2> DEFINE c == reader[r].seen.lkg
    <2>1. Lasts(c) => Lasts(c)'
      OBVIOUS
    <2> QED BY <2>1, <1>3 DEF FallbackLasts
  <1> QED BY <1>1, <1>2, <1>4 DEF ReaderServed

\* What lasts is not touched while the lock is taken, the generation installed and
\* the copy made: cleanup comes after the commit.
LEMMA LastsBefore ==
    ASSUME NEW c, Lasts(c), dir'.file[c] = dir.file[c], pub'.pc \notin {"settle", "clean"}
    PROVE  Lasts(c)'
  BY DEF Lasts

LEMMA InstallLasts == ASSUME StoreInv, InstallGeneration, NEW c, Lasts(c) PROVE Lasts(c)'
  <1>1. pub'.pc \in {"sync", "none"}
    BY GotoEffect, UnlockEffect DEF InstallGeneration, StoreInv, Types
  <1>2. c \in Snapshots /\ dir.file[c] = "good" /\ pub.snap \in Snapshots
    BY DEF Lasts, InstallGeneration, StoreInv, HolderKnows, At
  <1>3. dir'.file[c] = "good"
    <2>1. CASE UNCHANGED dir
      BY <1>2, <2>1
    <2>2. CASE dir.file[pub.snap] = "none" /\ SetFile(pub.snap, "good")
      BY <1>2, <2>2, SetFileEffect DEF StoreInv, FileStates
    <2> QED BY <2>1, <2>2 DEF InstallGeneration
  <1> QED BY <1>1, <1>2, <1>3, LastsBefore

\* Cleanup keeps what the manifest and the copy of the one before name.
LEMMA RemoveLasts == ASSUME StoreInv, RemoveGeneration, NEW c, Lasts(c) PROVE Lasts(c)'
  <1>1. pub' = pub /\ pub.pc = "clean" /\ dir.manifest = Committed
    BY DEF RemoveGeneration, At, StoreInv, HolderCommitted
  <1>2. PICK x \in Superfluous : SetFile(x, "none")
    BY DEF RemoveGeneration, Superfluous
  <1>3. x \in Snapshots /\ x \notin References(dir.manifest) \cup References(dir.rollback)
    BY <1>1, <1>2 DEF Superfluous, Retained
  <1>4. c \in References(dir.manifest) \cup References(dir.rollback) /\ c \in Snapshots /\ dir.file[c] = "good"
    BY <1>1 DEF Lasts
  <1>5. dir'.file[c] = dir.file[c] /\ dir'.manifest = dir.manifest /\ dir'.rollback = dir.rollback
    BY <1>2, <1>3, <1>4, SetFileEffect DEF StoreInv, FileStates
  <1> QED BY <1>1, <1>4, <1>5 DEF Lasts, References, Parsed

\* The steps of the holder that publish nothing.
Quiet ==
    \/ \E c \in Snapshots : BeginPublish(c) \/ BeginRecover(c)
    \/ InstallGeneration \/ SyncGeneration \/ KeepRollback \/ SyncRollback
    \/ SyncManifest \/ SyncManifestFails \/ SyncRestored \/ RemoveGeneration \/ FinishPublication \/ PublisherStops

LEMMA QuietStepServes == ASSUME StoreInv, ReaderInv, Quiet PROVE ReaderInv'
  <1> USE DEF StoreInv
  <1>1. CASE \E c \in Snapshots : BeginPublish(c) \/ BeginRecover(c)
    <2>1. UNCHANGED <<dir, damaged, reader>>
      BY <1>1 DEF BeginPublish, BeginRecover, storeVars
    <2>2. pub'.pc \in {"none", "install"}
      <3>1. ASSUME NEW c \in Snapshots, BeginPublish(c), dir.manifest = None \/ Readable(dir.manifest)
            PROVE  pub'.pc = "install"
        <4> DEFINE lkg == IF dir.manifest = None THEN None ELSE dir.manifest.current
        <4>1. pub' = [NoPublisher EXCEPT !.pc = "install", !.snap = c, !.prior = dir.manifest, !.lkg = lkg]
          BY <3>1 DEF BeginPublish
        <4> HIDE DEF lkg
        <4> QED BY <4>1 DEF NoPublisher
      <3>2. ASSUME NEW c \in Snapshots, BeginPublish(c), ~(dir.manifest = None \/ Readable(dir.manifest))
            PROVE  pub'.pc = "none"
        BY <3>2 DEF BeginPublish, NoPublisher
      <3>3. ASSUME NEW c \in Snapshots, BeginRecover(c) PROVE pub'.pc = "install"
        <4> DEFINE superseded == IF Parsed(dir.manifest) THEN dir.manifest.current ELSE None
        <4>1. pub' = [NoPublisher EXCEPT !.pc = "install", !.kind = "recover", !.snap = c, !.prior = dir.manifest,
                                         !.lkg = RecoveryReference, !.superseded = superseded]
          BY <3>3 DEF BeginRecover
        <4> HIDE DEF superseded
        <4> QED BY <4>1 DEF NoPublisher
      <3> QED BY <1>1, <3>1, <3>2, <3>3
    <2> QED BY <2>1, <2>2, LastsBefore, QuietServes
  <1>2. CASE InstallGeneration
    <2>1. dir'.manifest = dir.manifest
      BY <1>2, SetFileEffect DEF InstallGeneration, FileStates, HolderKnows, At
    <2>2. UNCHANGED <<damaged, reader>>
      BY <1>2 DEF InstallGeneration
    <2> QED BY <1>2, <2>1, <2>2, InstallLasts, QuietServes
  <1>3. CASE SyncGeneration \/ SyncRollback \/ SyncRestored
    <2>1. UNCHANGED <<dir, damaged, reader>>
      BY <1>3, SyncEffect DEF SyncGeneration, SyncRollback, SyncRestored
    <2>2. pub'.pc \in {"none", "rollback", "commit"}
      BY <1>3, GotoEffect, UnlockEffect DEF SyncGeneration, SyncRollback, SyncRestored, Types
    <2> QED BY <2>1, <2>2, LastsBefore, QuietServes
  <1>4. CASE KeepRollback
    <2>1. dir'.manifest = dir.manifest /\ dir'.file = dir.file
      BY <1>4, SetRollbackEffect DEF KeepRollback, At, HolderKnows, KeepsCopy
    <2>2. UNCHANGED <<damaged, reader>> /\ pub'.pc = "keep"
      BY <1>4, GotoEffect DEF KeepRollback, Types
    <2> QED BY <2>1, <2>2, LastsBefore, QuietServes
  <1>5. CASE SyncManifest
    <2>1. UNCHANGED <<dir, damaged, reader>> /\ pub.pc = "settle"
      BY <1>5, SyncEffect DEF SyncManifest, At
    <2>2. \A c : Lasts(c) => Lasts(c)'
      BY <2>1 DEF Lasts, References, Parsed
    <2> QED BY <2>1, <2>2, QuietServes
  <1>6. CASE SyncManifestFails \/ PublisherStops
    <2>1. UNCHANGED <<dir, damaged, reader>>
      BY <1>6 DEF SyncManifestFails, PublisherStops, storeVars
    <2>2. pub'.pc \in {"none", "restore"}
      BY <1>6, GotoEffect, UnlockEffect DEF SyncManifestFails, PublisherStops, Types
    <2> QED BY <2>1, <2>2, LastsBefore, QuietServes
  <1>7. CASE RemoveGeneration
    <2>1. dir'.manifest = dir.manifest
      BY <1>7, SetFileEffect DEF RemoveGeneration, FileStates, Superfluous
    <2>2. UNCHANGED <<damaged, reader>>
      BY <1>7 DEF RemoveGeneration
    <2> QED BY <1>7, <2>1, <2>2, RemoveLasts, QuietServes
  <1>8. CASE FinishPublication
    <2>1. dir' = dir /\ reader' = reader /\ damaged' = FALSE /\ pub'.pc = "none"
      BY <1>8, SyncEffect, UnlockEffect DEF FinishPublication
    <2> QED BY <2>1, LastsBefore, QuietServes
  <1> QED BY <1>1, <1>2, <1>3, <1>4, <1>5, <1>6, <1>7, <1>8 DEF Quiet

---------------------------------------------------------------------------
\* An evaluation that is still owed an answer after it was overtaken was owed one
\* before, and had not been overtaken that often.
LEMMA OvertakenOnce ==
    ASSUME StoreInv, NEW n \in Nat, reader' = Passed(n), NEW r \in Readers, Owed(r)'
    PROVE  /\ Owed(r) /\ reader[r].overtaken \in Nat
           /\ reader[r].overtaken + n < MaxOvertakes /\ reader'[r].overtaken = reader[r].overtaken + n
           /\ reader'[r].pc = reader[r].pc /\ reader'[r].seen = reader[r].seen
           /\ reader'[r].got = reader[r].got
  <1>1. /\ reader'[r].pc = reader[r].pc /\ reader'[r].seen = reader[r].seen /\ reader'[r].got = reader[r].got
        /\ reader[r].pc # "idle" => reader'[r].overtaken = IF reader[r].overtaken + n < MaxOvertakes
                                          THEN reader[r].overtaken + n ELSE MaxOvertakes
    BY PassedType DEF StoreInv
  <1>2. reader[r].overtaken \in Nat /\ MaxOvertakes \in Nat
    BY SnapshotAssumption DEF StoreInv, Types, Evaluations
  <1> QED BY <1>1, <1>2 DEF Owed

\* A commit passes the evaluations: what is current becomes the last known good,
\* and the copy keeps what the manifest named before.
LEMMA CommitServes ==
    ASSUME MaxOvertakes <= 3, StoreInv, ReaderInv, CommitManifest PROVE ReaderInv'
  <1> SUFFICES ASSUME NEW r \in Readers, Owed(r)' PROVE ReaderServed(r)'
    BY DEF ReaderInv
  <1>1. pub.pc = "commit" /\ dir.manifest = pub.prior /\ damaged' = damaged
    BY DEF StoreInv, HolderKnows, CommitManifest, At
  <1>2. SetManifest(Committed) /\ Goto("settle") /\ reader' = Passed(1)
    BY <1>1 DEF CommitManifest
  <1>3. /\ Owed(r) /\ reader[r].overtaken \in Nat
        /\ reader[r].overtaken + 1 < MaxOvertakes /\ reader'[r].overtaken = reader[r].overtaken + 1
        /\ reader'[r].pc = reader[r].pc /\ reader'[r].seen = reader[r].seen /\ reader'[r].got = reader[r].got
    BY <1>2, OvertakenOnce
  <1>4. ReaderServed(r)
    BY <1>3 DEF ReaderInv
  <1>5. pub.prior \in Manifests /\ ~damaged /\ pub.kind = "publish" /\ KeepsCopy
    BY <1>1, <1>4, SnapshotAssumption DEF ReaderServed, StoreInv, HolderKnows, KeepsCopy, Types, Publishers
  <1>6. pub.lkg = pub.prior.current /\ pub.lkg # None /\ dir.rollback = pub.prior
    BY <1>1, <1>5, ManifestFacts DEF StoreInv, HolderKnows
  <1>7. Committed \in Manifests /\ Committed.lkg # None
    BY <1>1, <1>6, CommittedFacts
  <1>8. dir'.manifest = Committed /\ dir'.rollback = pub.prior /\ dir'.file = dir.file /\ pub'.pc = "settle"
    BY <1>2, <1>6, <1>7, SetManifestEffect, GotoEffect DEF ManifestValues, StoreInv, Types
  <1>9. ASSUME reader[r].pc = "fallback" PROVE FallbackLasts(r)'
    <2>1. reader[r].overtaken # 0 /\ FallbackLasts(r)
      BY <1>4, <1>9 DEF ReaderServed, Undisturbed
    <2>2. reader[r].overtaken + 2 <= MaxOvertakes /\ ~(reader'[r].overtaken + 2 <= MaxOvertakes)
      BY <2>1, <1>3, SnapshotAssumption
    <2>3. /\ reader[r].seen \in Manifests /\ reader[r].seen.lkg \in References(pub.prior)
          /\ Lasts(reader[r].seen.lkg)
      BY <2>1, <2>2, <1>1 DEF FallbackLasts
    <2>4. Lasts(reader[r].seen.lkg)'
      BY <2>3, <1>3, <1>8 DEF Lasts, References, Parsed
    <2> QED BY <2>2, <2>3, <2>4, <1>3 DEF FallbackLasts
  <1> QED BY <1>1, <1>3, <1>4, <1>5, <1>7, <1>8, <1>9 DEF ReaderServed

\* So does the return of the manifest that was there before.
LEMMA RestoreServes ==
    ASSUME MaxOvertakes <= 3, StoreInv, ReaderInv, RestoreManifest PROVE ReaderInv'
  <1> SUFFICES ASSUME NEW r \in Readers, Owed(r)' PROVE ReaderServed(r)'
    BY DEF ReaderInv
  <1>1. /\ pub.pc = "restore" /\ pub.prior \in ManifestValues /\ damaged' = damaged
        /\ KeepsCopy => dir.rollback = pub.prior
    BY DEF StoreInv, HolderKnows, RestoreManifest, At, Types, Publishers
  <1>2. dir'.manifest = pub.prior /\ dir'.file = dir.file
    <2>1. CASE ~KeepsCopy
      BY <1>1, <2>1, SetManifestEffect DEF RestoreManifest, KeepsCopy, StoreInv, Types, Publishers
    <2>2. CASE KeepsCopy
      BY <1>1, <2>2 DEF RestoreManifest, KeepsCopy, StoreInv, Types, Directories
    <2> QED BY <2>1, <2>2
  <1> DEFINE n == IF Parsed(dir'.manifest) /\ dir'.manifest.lkg # None THEN 1 ELSE MaxOvertakes
  <1>3. n \in Nat /\ reader' = Passed(n)
    BY SnapshotAssumption DEF RestoreManifest
  <1> HIDE DEF n
  <1>4. /\ Owed(r) /\ reader[r].overtaken \in Nat
        /\ reader[r].overtaken + n < MaxOvertakes /\ reader'[r].overtaken = reader[r].overtaken + n
        /\ reader'[r].pc = reader[r].pc /\ reader'[r].seen = reader[r].seen /\ reader'[r].got = reader[r].got
    BY <1>3, OvertakenOnce
  <1>5. n # MaxOvertakes
    BY <1>3, <1>4, SnapshotAssumption
  <1>6. n = 1 /\ dir'.manifest \in Manifests /\ dir'.manifest.lkg # None
    BY <1>1, <1>2, <1>5, MarkFacts DEF n, ManifestValues
  <1>7. ReaderServed(r)
    BY <1>4 DEF ReaderInv
  <1>8. pub'.pc = "resync"
    BY GotoEffect DEF RestoreManifest, StoreInv, Types
  <1>9. ASSUME reader[r].pc = "fallback" PROVE FallbackLasts(r)'
    <2>1. reader[r].overtaken # 0 /\ FallbackLasts(r)
      BY <1>7, <1>9 DEF ReaderServed, Undisturbed
    <2>2. ~(reader'[r].overtaken + 2 <= MaxOvertakes)
      BY <2>1, <1>4, <1>6, SnapshotAssumption
    <2>3. Lasts(reader[r].seen.lkg)'
      BY <2>1, <1>2, <1>4, <1>8 DEF FallbackLasts, Lasts
    <2> QED BY <2>1, <2>2, <2>3, <1>4 DEF FallbackLasts
  <1> QED BY <1>1, <1>4, <1>6, <1>7, <1>9 DEF ReaderServed

\* A power loss ends the evaluations; who reads when a file is damaged is owed nothing.
LEMMA PowerLossServes == ASSUME PowerLoss PROVE ReaderInv'
  BY DEF PowerLoss, ReaderInv, Owed, NoReader

LEMMA DamageServes == ASSUME StoreInv, Damage PROVE ReaderInv'
  <1>1. MaxOvertakes \in Nat /\ reader' = Passed(MaxOvertakes)
    BY SnapshotAssumption DEF Damage
  <1>2. \A r \in Readers : ~Owed(r)'
    BY <1>1, OvertakenOnce, SnapshotAssumption
  <1> QED BY <1>2 DEF ReaderInv
---------------------------------------------------------------------------
\* A step of an evaluation is nothing to the others.
LEMMA OthersServed ==
    ASSUME StoreInv, ReaderInv, NEW r \in Readers, ReaderStep(r), NEW x \in Readers, x # r, Owed(x)'
    PROVE  ReaderServed(x)'
  <1>1. reader'[x] = reader[x] /\ UNCHANGED <<dir, damaged, pub>>
    BY ReaderStepType DEF storeVars
  <1>2. ReaderServed(x)
    BY <1>1 DEF ReaderInv, Owed
  <1> QED
    BY <1>1, <1>2 DEF ReaderServed, Undisturbed, FallbackLasts, Lasts, References, Parsed

\* What an evaluation becomes by each of its steps.
LEMMA AnswerEffect ==
    ASSUME Types, NEW r \in Readers, NEW pc, NEW pin, NEW got, Answer(r, pc, pin, got)
    PROVE  /\ reader'[r].pc = pc /\ reader'[r].pin = pin /\ reader'[r].got = got
           /\ reader'[r].overtaken = reader[r].overtaken
  <1>1. reader' = [reader EXCEPT ![r] = [reader[r] EXCEPT !.pc = pc, !.pin = pin, !.seen = None, !.got = got]]
    BY DEF Answer, Types, Evaluations
  <1> QED BY <1>1 DEF Types, Evaluations

LEMMA ReadEffect ==
    ASSUME Types, NEW r \in Readers, NEW pc, NEW next, Read(r, pc, next)
    PROVE  /\ reader'[r].pc = next /\ reader'[r].seen = dir.manifest /\ reader'[r].pin = reader[r].pin
           /\ reader'[r].overtaken = reader[r].overtaken
  <1>1. reader' = [reader EXCEPT ![r] = [reader[r] EXCEPT !.seen = dir.manifest, !.pc = next]]
    BY DEF Read, Types, Evaluations
  <1> QED BY <1>1 DEF Types, Evaluations

LEMMA ReaderStepServes ==
    ASSUME StoreInv, ReaderInv, NEW r \in Readers, ReaderStep(r) PROVE ReaderInv'
  <1> SUFFICES ASSUME Owed(r)' PROVE ReaderServed(r)'
    BY OthersServed DEF ReaderInv
  <1>1. UNCHANGED <<dir, damaged, pub>> /\ reader \in [Readers -> Evaluations] /\ Types
    BY ReaderStepType DEF storeVars, StoreInv, Types
  <1>2. CASE BeginEvaluation(r)
    <2> DEFINE n == IF damaged THEN MaxOvertakes ELSE 0
    <2>1. reader' = [reader EXCEPT ![r] = [NoReader EXCEPT !.pc = "generation", !.seen = dir.manifest, !.overtaken = n]]
      BY <1>2 DEF BeginEvaluation
    <2> HIDE DEF n
    <2>2. reader'[r].pc = "generation" /\ reader'[r].seen = dir.manifest /\ reader'[r].overtaken = n
      BY <1>1, <2>1 DEF NoReader
    <2>3. ~damaged
      BY <2>2, SnapshotAssumption DEF Owed, n
    <2>4. dir.manifest \in Manifests
      <3>1. dir.manifest \in disk.manifest /\ dir.manifest \in ManifestValues /\ Malformed \notin disk.manifest
        BY <2>3 DEF StoreInv, Seen, ManifestsLead, Types, Directories
      <3> QED BY <3>1, <1>2 DEF BeginEvaluation, ManifestValues
    <2> QED BY <1>1, <2>2, <2>3, <2>4 DEF ReaderServed, Undisturbed
  <1>3. CASE EndEvaluation(r)
    BY <1>1, <1>3 DEF EndEvaluation, Owed, NoReader
  <1>4. CASE Evaluate(r)
    <2>1. reader[r].pc # "idle"
      BY <1>4 DEF Evaluate, LoadCurrent, Read, LoadPinned, LoadLastKnownGood
    <2>2. reader'[r].overtaken = reader[r].overtaken
      BY <1>1, <1>4, AnswerEffect, ReadEffect DEF Evaluate, LoadCurrent, LoadPinned, LoadLastKnownGood
    <2>3. Owed(r) /\ ReaderServed(r)
      BY <2>1, <2>2 DEF Owed, ReaderInv
    <2>4. ~damaged /\ dir.manifest \in Manifests
      BY <2>3 DEF ReaderServed
    <2>5. /\ Readable(dir.manifest)
          /\ \A c \in References(dir.manifest) : c \in Snapshots /\ dir.file[c] = "good"
      BY <2>4, ManifestReadable
    <2> DEFINE fresh == reader[r].overtaken = 0 \/ dir.manifest.lkg = None
    <2>6. fresh => Undisturbed(r)
      BY <2>3 DEF ReaderServed
    <2>7. SUFFICES /\ fresh => Undisturbed(r)'
                   /\ reader'[r].pc = "fallback" => FallbackLasts(r)'
                   /\ reader'[r].pc = "done" => reader'[r].got # None
      BY <1>1, <2>2, <2>4 DEF ReaderServed
    <2>8. CASE LoadCurrent(r)
      <3> DEFINE pin == IF Readable(reader[r].seen) THEN reader[r].seen.current ELSE None
      <3>1. Answer(r, "again", pin, None) /\ reader[r].pc = "generation"
        BY <2>8 DEF LoadCurrent
      <3>2. fresh => pin = dir.manifest.current
        BY <2>5, <2>6, <3>1 DEF Undisturbed
      <3> HIDE DEF pin
      <3>3. reader'[r].pc = "again" /\ reader'[r].pin = pin
        BY <1>1, <3>1, AnswerEffect
      <3> QED BY <1>1, <3>2, <3>3 DEF Undisturbed
    <2>9. CASE Read(r, "again", "pinned")
      <3>1. reader'[r].pc = "pinned" /\ reader'[r].seen = dir.manifest /\ reader'[r].pin = reader[r].pin
        BY <1>1, <2>9, ReadEffect
      <3>2. reader[r].pc = "again"
        BY <2>9 DEF Read
      <3> QED BY <1>1, <2>6, <3>1, <3>2 DEF Undisturbed
    <2>10. CASE LoadPinned(r)
      <3>1. CASE Answer(r, "done", None, reader[r].seen.current) /\ Readable(reader[r].seen)
        <4>1. reader'[r].pc = "done" /\ reader'[r].got = reader[r].seen.current
          BY <1>1, <3>1, AnswerEffect
        <4> QED BY <3>1, <4>1 DEF Readable, Good, Undisturbed
      <3>2. CASE Answer(r, "good", None, None) /\ ~(Readable(reader[r].seen) /\ reader[r].pin \in {None, reader[r].seen.current})
        <4>1. reader'[r].pc = "good"
          BY <1>1, <3>2, AnswerEffect
        <4>2. ~fresh
          BY <2>5, <2>6, <2>10, <3>2 DEF Undisturbed, LoadPinned
        <4> QED BY <4>1, <4>2
      <3> QED BY <2>10, <3>1, <3>2 DEF LoadPinned
    <2>11. CASE Read(r, "good", "fallback")
      <3>1. reader'[r].pc = "fallback" /\ reader'[r].seen = dir.manifest
        BY <1>1, <2>11, ReadEffect
      <3>2. ~fresh
        BY <2>6, <2>11 DEF Undisturbed, Read
      <3>3. dir.manifest.lkg \in References(dir.manifest)
        BY <2>4, <3>2, ManifestFacts
      <3>4. Lasts(dir.manifest.lkg)
        BY <2>5, <3>3 DEF Lasts
      <3>5. FallbackLasts(r)'
        BY <1>1, <2>4, <3>1, <3>3, <3>4 DEF FallbackLasts, Lasts, References, Parsed
      <3> QED BY <3>1, <3>2, <3>5
    <2>12. CASE LoadLastKnownGood(r)
      <3> DEFINE got == IF Parsed(reader[r].seen) /\ Good(reader[r].seen.lkg) THEN reader[r].seen.lkg ELSE None
      <3>1. Answer(r, "done", None, got) /\ reader[r].pc = "fallback"
        BY <2>12 DEF LoadLastKnownGood
      <3>2. reader[r].seen \in Manifests /\ reader[r].seen.lkg \in Snapshots /\ dir.file[reader[r].seen.lkg] = "good"
        BY <2>3, <3>1 DEF ReaderServed, FallbackLasts, Lasts
      <3>3. got # None
        BY <3>2, ManifestFacts, SnapshotAssumption DEF Good
      <3> HIDE DEF got
      <3>4. reader'[r].pc = "done" /\ reader'[r].got = got
        BY <1>1, <3>1, AnswerEffect
      <3> QED BY <3>3, <3>4 DEF Undisturbed
    <2> QED BY <1>4, <2>8, <2>9, <2>10, <2>11, <2>12 DEF Evaluate
  <1> QED BY <1>2, <1>3, <1>4 DEF ReaderStep

LEMMA ReaderInvStep == ASSUME MaxOvertakes <= 3, StoreInv, ReaderInv, [Next]_vars PROVE ReaderInv'
  <1>1. CASE Quiet
    BY <1>1, QuietStepServes
  <1>2. CASE CommitManifest
    BY <1>2, CommitServes
  <1>3. CASE RestoreManifest
    BY <1>3, RestoreServes
  <1>4. CASE PowerLoss \/ Damage
    BY <1>4, PowerLossServes, DamageServes
  <1>5. CASE \E r \in Readers : ReaderStep(r)
    BY <1>5, ReaderStepServes
  <1>6. CASE UNCHANGED vars
    BY <1>6, QuietServes DEF vars, Lasts, References, Parsed
  <1> QED BY <1>1, <1>2, <1>3, <1>4, <1>5, <1>6 DEF Next, Publish, Quiet, ReaderStep

LEMMA ReaderInvInit == ASSUME SnapshotInit PROVE ReaderInv
  BY DEF SnapshotInit, ReaderInv, Owed, NoReader

\* RuntimeService.evaluate() reads without a lock while #cleanupAfterCommit() removes
\* generations: for any number of evaluations and publications, one that began with
\* a manifest and is left without a snapshot was passed by three publications, or
\* its files were damaged.
THEOREM OvertakenReadersStayServed ==
    ASSUME MaxOvertakes <= 3
    PROVE  SnapshotSpec => []OvertakenReadersAreServed
  <1>1. StoreInv /\ ReaderInv => OvertakenReadersAreServed
    <2>1. ASSUME ReaderInv, NEW r \in Readers, reader[r].pc = "done", reader[r].got = None, StoreInv
          PROVE  reader[r].overtaken >= MaxOvertakes
      <3>1. reader[r].overtaken \in Nat /\ MaxOvertakes \in Nat
        BY <2>1, SnapshotAssumption DEF StoreInv, Types, Evaluations
      <3> QED BY <2>1, <3>1 DEF ReaderInv, Owed, ReaderServed
    <2> QED BY <2>1 DEF OvertakenReadersAreServed
  <1>2. SnapshotInit => StoreInv /\ ReaderInv
    BY StoreInvInit, ReaderInvInit
  <1>3. StoreInv /\ ReaderInv /\ [Next]_vars => (StoreInv /\ ReaderInv)'
    BY StoreInvStep, ReaderInvStep
  <1> QED BY <1>1, <1>2, <1>3, PTL DEF SnapshotSpec
=============================================================================
