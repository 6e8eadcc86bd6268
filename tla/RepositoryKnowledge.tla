---------------------------- MODULE RepositoryKnowledge ----------------------------
(***************************************************************************)
(* The knowledge a repository shares (shared-knowledge/): processes take a *)
(* lock directory, read the generation in the working tree, and replace it *)
(* file by file when they promote a document; an activation reads the      *)
(* generation and the one of a trusted commit and compiles the rules that  *)
(* the runtime enforces.  A process may die at any step, and the working   *)
(* tree is edited by others who know nothing of the lock.                  *)
(*                                                                         *)
(* A generation is a set of documents, one per identity, while its files   *)
(* are complete.  A document is [id, kind, origin, evidence, approved,     *)
(* state, scope, supersedes, directive, text].                             *)
(***************************************************************************)
EXTENDS Naturals, FiniteSets

CONSTANTS
    Procs, Documents,
    Edits,              \* generations that others may put into the working tree
    Operations, Profiles,   \* what the gate is asked
    Repository,         \* the repository's identity, the scope of its documents
    Absent, Broken,     \* of a directory: missing, or with some of its files missing
    Emptied,            \* of the lock: a directory without an owner
    Global, None,
    MaxEdits, MaxFaults \* bounds of the model

VARIABLES
    base, recovery,     \* agent-experience in the working tree, and the private copy
    lock,               \* its owner, Emptied or None
    proc,               \* process -> what it does
    trusted,            \* the generation of the trusted ref
    kept,               \* identity -> the documents that may stand for its last promotion
    edits, faults

vars == <<base, recovery, lock, proc, trusted, kept, edits, faults>>
Policy == INSTANCE RuntimePolicy

Whole(g) == g \notin {Absent, Broken}
Ids == {d.id : d \in Documents}
Idle == [pc |-> "idle", task |-> None, existing |-> {}, stage |-> None, candidate |-> None,
         expected |-> Absent, removed |-> FALSE, compiled |-> None]

KnowledgeInit ==
    /\ base = Absent /\ recovery = Absent /\ lock = None /\ trusted = {}
    /\ proc = [p \in Procs |-> Idle]
    /\ kept = [i \in Ids |-> {}] /\ edits = 0 /\ faults = 0

At(p, pc) == proc[p].pc = pc
Goes(p, pc) == proc' = [proc EXCEPT ![p].pc = pc]
Alive(p) == proc[p].pc # "dead"
tree == <<base, recovery>>
outside == <<trusted, edits>>

---------------------------------------------------------------------------
(* Promotion: promotion-policy.ts. *)

\* evaluatePromotion, and promoteKnowledge's refusal of what only a merge gives.
Eligible(d) ==
    /\ d.state # "disputed" /\ d.origin # "task-specific-constraint" /\ d.evidence # "none"
    /\ CASE d.kind = "preference" -> d.origin = "user-preference" /\ d.approved
         [] d.kind = "successful-workflow" -> d.origin = "skill-workflow-candidate" /\ d.approved
         [] OTHER -> d.origin = "code-tool-confirmed" /\ d.evidence = "deterministic"

\* toIndexEntry and renderMarkdown: the evidence itself is not written.
Stored(d) == [d EXCEPT !.evidence = "none"]
WithDocument(g, d) == {e \in g : e.id # d.id} \cup {Stored(d)}

\* What can be in the files of a generation, and what is compiled from it.
Known == Documents \cup {Stored(d) : d \in Documents} \cup UNION Edits
Generations == SUBSET Known
Directives == {d.directive : d \in Known} \ {None}
RuleRow == [id : {d.id : d \in Known}, state : Policy!ActiveStates, authoritative : BOOLEAN,
            effect : {"context", "conflict"}, signature : {x.signature : x \in Directives},
            scope : {Repository}, tool : {x.tool : x \in Directives}, tags : {{}}]
Snapshots == [rejected : {FALSE}, repository : {Repository}, rules : SUBSET RuleRow]

\* The schema of a document (a directive applies to the tool of its own call, or to
\* any), and the values that stand for something else.
ASSUME KnowledgeAssumption ==
    /\ \A d \in Documents : DOMAIN d = {"id", "kind", "origin", "evidence", "approved", "state", "scope",
                                        "supersedes", "directive", "text"}
    /\ \A x \in Directives : x.effect \in {"context", "conflict"} /\ x.tool \in {None, x.signature.tool}
    /\ \A g \in Generations : g \notin {None, Absent, Broken}
    /\ {None, Broken} \cap Documents = {} /\ {None, Emptied} \cap Procs = {} /\ None # Emptied /\ Absent # Broken
    /\ None \notin Snapshots

\* writeSharedKnowledgeUnlocked refuses a generation that is not complete.
Complete(g) == \A d \in g : d.supersedes \subseteq {e.id : e \in g} \ {d.id}

Promote(p, d) ==
    /\ At(p, "idle") /\ Eligible(d)
    /\ proc' = [proc EXCEPT ![p] = [Idle EXCEPT !.pc = "contending", !.task = d]]
    /\ UNCHANGED <<tree, lock, outside, kept, faults>>

Activate(p) ==
    /\ At(p, "idle")
    /\ proc' = [proc EXCEPT ![p] = [Idle EXCEPT !.pc = "contending"]]
    /\ UNCHANGED <<tree, lock, outside, kept, faults>>

---------------------------------------------------------------------------
(* The lock: repository-lock.ts. *)

FindLock(p) ==
    /\ At(p, "contending")
    /\ Goes(p, IF lock = None THEN "acquiring" ELSE "recovering")
    /\ UNCHANGED <<tree, lock, outside, kept, faults>>

\* Mutant: the rename replaces a lock that is held.
AlwaysFree(l) == TRUE

\* Renaming the candidate succeeds over nothing and over an empty directory.
Free(l) == l \in {None, Emptied}

RenameCandidate(p) ==
    /\ At(p, "acquiring")
    /\ IF Free(lock) THEN lock' = p /\ Goes(p, "cleaning")
                       ELSE UNCHANGED lock /\ Goes(p, "recovering")
    /\ UNCHANGED <<tree, outside, kept, faults>>

(* recoverStaleLock and recoverMalformedStaleLock up to their confirmation: the
   owner is dead, or nobody has emptied the directory in the last staleAfter
   milliseconds, which no live process takes between its two removals. *)
Stale == IF lock = Emptied THEN \A q \in Procs : ~At(q, "released")
         ELSE lock # None /\ ~Alive(lock)

ReadOwner(p) ==
    /\ At(p, "recovering")
    /\ Goes(p, IF Stale THEN "takingover" ELSE "contending")
    /\ UNCHANGED <<tree, lock, outside, kept, faults>>

\* The lock is moved away by its name, whoever owns it by now.
TakeOver(p) ==
    /\ At(p, "takingover")
    /\ lock' = None /\ Goes(p, "contending")
    /\ UNCHANGED <<tree, outside, kept, faults>>

TimeOut(p) ==
    /\ At(p, "contending")
    /\ proc' = [proc EXCEPT ![p] = Idle]
    /\ UNCHANGED <<tree, lock, outside, kept, faults>>

\* cleanupPrivateCandidates removes what any process has staged.
CleanUp(p) ==
    /\ At(p, "cleaning")
    /\ proc' = [q \in Procs |->
                   [proc[q] EXCEPT !.stage = None, !.candidate = None, !.pc = IF q = p THEN "reading" ELSE @]]
    /\ UNCHANGED <<tree, lock, outside, kept, faults>>

\* A promotion is done, an activation goes on.
Leave(p) == IF proc[p].task = None THEN Goes(p, "resolving") ELSE proc' = [proc EXCEPT ![p] = Idle]

\* Only the owner removes the lock, and in two steps.
ReleaseOwner(p) ==
    /\ At(p, "releasing")
    /\ IF lock = p THEN lock' = Emptied /\ Goes(p, "released")
                   ELSE UNCHANGED lock /\ Leave(p)
    /\ UNCHANGED <<tree, outside, kept, faults>>

ReleaseDirectory(p) ==
    /\ At(p, "released")
    /\ lock' = IF lock = Emptied THEN None ELSE lock
    /\ Leave(p)
    /\ UNCHANGED <<tree, outside, kept, faults>>

---------------------------------------------------------------------------
(* Reading: readSharedKnowledgeUnlocked and recoverAbsentPrimary. *)

\* What is staged is removed on the way out.
Finish(p) == proc' = [proc EXCEPT ![p] = [Idle EXCEPT !.pc = "releasing", !.task = Broken]]

ReadGeneration(p) ==
    /\ At(p, "reading")
    /\ CASE base = Broken -> Finish(p)
         [] Whole(base) \/ (base = Absent /\ recovery = Absent) ->
                proc' = [proc EXCEPT ![p].existing = IF base = Absent THEN {} ELSE base,
                                     ![p].pc = IF proc[p].task = None THEN "releasing" ELSE "staging"]
         [] base = Absent /\ recovery = Broken -> Finish(p)
         [] OTHER -> proc' = [proc EXCEPT ![p].stage = recovery, ![p].pc = "restoring"]
    /\ UNCHANGED <<tree, lock, outside, kept, faults>>

\* A rename of the private stage; it fails if the directory is there by now.
Restore(p) ==
    /\ At(p, "restoring")
    /\ IF base = Absent /\ proc[p].stage # None
       THEN base' = proc[p].stage /\ proc' = [proc EXCEPT ![p].stage = None, ![p].pc = "reading"]
       ELSE UNCHANGED base /\ Finish(p)
    /\ UNCHANGED <<recovery, lock, outside, kept, faults>>

---------------------------------------------------------------------------
(* Writing: writeSharedKnowledgeUnlocked, replaceRecovery, publishStage. *)

Stage(p) ==
    LET updated == WithDocument(proc[p].existing, proc[p].task)
    IN  /\ At(p, "staging")
        /\ IF base = Broken \/ ~Complete(updated) THEN Finish(p)
           ELSE proc' = [proc EXCEPT ![p].stage = updated, ![p].expected = base,
                                     ![p].pc = IF base = Absent THEN "checking" ELSE "copying"]
        /\ UNCHANGED <<tree, lock, outside, kept, faults>>

CopyPrimary(p) ==
    /\ At(p, "copying")
    /\ IF ~Whole(base) THEN Finish(p)
       ELSE proc' = [proc EXCEPT ![p].candidate = base, ![p].pc = "dropping"]
    /\ UNCHANGED <<tree, lock, outside, kept, faults>>

\* The previous recovery copy is removed file by file before the new one is in place.
DropRecovery(p) ==
    /\ At(p, "dropping")
    /\ IF recovery \in {Absent, Broken} THEN recovery' = Absent /\ Goes(p, "installing")
                                        ELSE recovery' = Broken /\ Goes(p, "dropping")
    /\ UNCHANGED <<base, lock, outside, kept, faults>>


InstallRecovery(p) ==
    /\ At(p, "installing")
    /\ IF proc[p].candidate = None THEN UNCHANGED recovery /\ Finish(p)
       ELSE /\ recovery' = proc[p].candidate
            /\ proc' = [proc EXCEPT ![p].candidate = None, ![p].pc = "checking"]
    /\ UNCHANGED <<base, lock, outside, kept, faults>>

CheckFingerprint(p) ==
    /\ At(p, "checking")
    /\ IF base # proc[p].expected THEN Finish(p) ELSE Goes(p, "removing")
    /\ UNCHANGED <<tree, lock, outside, kept, faults>>

RemovePrimary(p) ==
    /\ At(p, "removing")
    /\ IF Whole(base) THEN base' = Broken /\ proc' = [proc EXCEPT ![p].removed = TRUE]
       ELSE base' = Absent /\ Goes(p, "publishing")
    /\ UNCHANGED <<recovery, lock, outside, kept, faults>>

PublishStage(p) ==
    /\ At(p, "publishing")
    /\ IF base = Absent /\ proc[p].stage # None
       THEN /\ base' = proc[p].stage /\ Goes(p, "published")
            /\ kept' = [kept EXCEPT ![proc[p].task.id] = IF @ = {} THEN @ ELSE @ \cup {Stored(proc[p].task)}]
       ELSE UNCHANGED <<base, kept>> /\ Goes(p, "rollingback")
    /\ UNCHANGED <<recovery, lock, outside, faults>>

\* The generation is read back and synchronised; the promotion has succeeded.
ReadBack(p) ==
    /\ At(p, "published")
    /\ IF Whole(base)
       THEN kept' = [kept EXCEPT ![proc[p].task.id] = IF base = proc[p].stage THEN {Stored(proc[p].task)} ELSE @]
       ELSE UNCHANGED kept
    /\ Finish(p)
    /\ UNCHANGED <<tree, lock, outside, faults>>

\* The rename, or reading back and synchronising, fails.
PublishFails(p) ==
    /\ At(p, "publishing") /\ faults < MaxFaults /\ faults' = faults + 1
    /\ Goes(p, "rollingback")
    /\ UNCHANGED <<tree, lock, outside, kept>>

ReadBackFails(p) ==
    /\ At(p, "published") /\ faults < MaxFaults /\ faults' = faults + 1
    /\ IF base = proc[p].stage THEN Goes(p, "withdrawing") ELSE Finish(p)     \* else a conflict
    /\ UNCHANGED <<tree, lock, outside, kept>>

Withdraw(p) ==
    /\ At(p, "withdrawing")
    /\ IF Whole(base) THEN base' = Broken /\ UNCHANGED proc ELSE base' = Absent /\ Goes(p, "rollingback")
    /\ UNCHANGED <<recovery, lock, outside, kept, faults>>

\* Only what this publication removed is restored.
RollBack(p) ==
    /\ At(p, "rollingback")
    /\ base' = IF proc[p].removed /\ Whole(recovery) /\ base = Absent THEN recovery ELSE base
    /\ Finish(p)
    /\ UNCHANGED <<recovery, lock, outside, kept, faults>>

---------------------------------------------------------------------------
(* Activation: git-activation.ts, runtime-compiler.ts, and                  *)
(* refreshKnowledgeRuntime of the runtime service.                          *)

\* activateGitKnowledge: [document, authoritative]; the trusted commit goes first.
Activated(local, merged) ==
    { [document |-> d, authoritative |-> TRUE] : d \in merged } \cup
    { [document |-> d, authoritative |-> FALSE] : d \in {d \in local : d.id \notin {e.id : e \in merged}} }

\* Mutant: what is in the working tree is authoritative as well.
AlwaysAuthoritative(e) == TRUE

Authoritative(e) == e.authoritative

\* compileActivatedRuntimeRules
Rule(e) ==
    [id |-> e.document.id, state |-> e.document.state, authoritative |-> Authoritative(e),
     effect |-> IF ~Authoritative(e) \/ e.document.directive.effect = "context"
                   \/ e.document.state \in {"observed", "disputed"} THEN "context" ELSE "conflict",
     signature |-> e.document.directive.signature, scope |-> Repository,
     tool |-> e.document.directive.tool, tags |-> {}]
Rules(entries) ==
    { Rule(e) : e \in {e \in entries : e.document.scope = Repository /\ e.document.directive # None
                                       /\ e.document.state \in Policy!ActiveStates} }

ResolveCommit(p) ==
    LET rules == Rules(Activated(proc[p].existing, trusted))
        snapshot == Policy!CompiledSnapshot(Repository, {}, {r \in rules : r.effect = "conflict"},
                                            {r \in rules : r.effect = "context"})
    IN  /\ At(p, "resolving")
        /\ proc' = [proc EXCEPT ![p] = IF snapshot.rejected THEN Idle ELSE
                       [Idle EXCEPT !.pc = "compiled", !.compiled = [snapshot |-> snapshot, of |-> trusted]]]
        /\ UNCHANGED <<tree, lock, outside, kept, faults>>

\* The snapshot goes to the snapshot store (RuntimeSnapshot) and the gate.
PublishSnapshot(p) ==
    /\ At(p, "compiled")
    /\ proc' = [proc EXCEPT ![p] = Idle]
    /\ UNCHANGED <<tree, lock, outside, kept, faults>>

---------------------------------------------------------------------------
(* The environment. *)

Die(p) ==
    /\ Alive(p) /\ ~At(p, "idle") /\ \E q \in Procs \ {p} : Alive(q)
    /\ Goes(p, "dead")
    /\ UNCHANGED <<tree, lock, outside, kept, faults>>

\* A checkout or an editor; what was promoted before is up to them.
Edit(g) ==
    /\ edits < MaxEdits /\ edits' = edits + 1
    /\ base # Broken /\ base # g /\ base' = g
    /\ kept' = [i \in Ids |-> {}]
    /\ UNCHANGED <<recovery, lock, proc, trusted, faults>>

\* What is reviewed and merged is the working tree's generation.
Merge ==
    /\ Whole(base) /\ trusted' = base
    /\ UNCHANGED <<tree, lock, proc, kept, edits, faults>>

Step(p) ==
    \/ FindLock(p) \/ RenameCandidate(p) \/ ReadOwner(p) \/ TakeOver(p) \/ TimeOut(p) \/ CleanUp(p)
    \/ ReleaseOwner(p) \/ ReleaseDirectory(p)
    \/ ReadGeneration(p) \/ Restore(p)
    \/ Stage(p) \/ CopyPrimary(p) \/ DropRecovery(p) \/ InstallRecovery(p)
    \/ CheckFingerprint(p) \/ RemovePrimary(p) \/ PublishStage(p) \/ ReadBack(p)
    \/ PublishFails(p) \/ ReadBackFails(p) \/ Withdraw(p) \/ RollBack(p)
    \/ ResolveCommit(p) \/ PublishSnapshot(p)

KnowledgeNext ==
    \/ \E p \in Procs : Step(p) \/ Activate(p) \/ Die(p)
    \/ \E p \in Procs, d \in Documents : Promote(p, d)
    \/ \E g \in Edits : Edit(g)
    \/ Merge

KnowledgeSpec == KnowledgeInit /\ [][KnowledgeNext]_vars

---------------------------------------------------------------------------

(* What was promoted last under an identity is in the working tree, or in the
   recovery copy while the working tree is being replaced or was left broken by
   a process that died: for two processes, whatever fails and whoever dies. *)
PromotionsAreKept ==
    LET surviving == IF Whole(base) THEN base ELSE recovery
    IN  \A i \in Ids : kept[i] # {} => Whole(surviving) /\ surviving \cap kept[i] # {}

(* The gate warns or blocks only for a directive of the commit the snapshot was
   made from, in a state that has been confirmed, and blocks only the exact
   call of a verified one; nothing that is only in the working tree does. *)
EnforcementIsEarned ==
    \A p \in Procs : At(p, "compiled") => \A op \in Operations, profile \in Profiles :
        LET decision == Policy!Decision(op, profile, proc[p].compiled.snapshot)
            earned == {d \in proc[p].compiled.of :
                          /\ d.scope = Repository /\ d.directive # None
                          /\ d.directive.effect = "conflict"
                          /\ d.directive.signature.tool = op.signature.tool}
        IN  /\ decision.outcome # "ALLOW" => \E d \in earned : d.state \in {"confirmed", "verified"}
            /\ decision.outcome = "BLOCK" =>
                   \E d \in earned : d.state = "verified" /\ d.directive.signature = op.signature
=============================================================================
