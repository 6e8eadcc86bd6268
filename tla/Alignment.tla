------------------------------ MODULE Alignment ------------------------------
(***************************************************************************)
(* Alignment of a repository with an installed build                       *)
(* (installation/alignment.ts, alignment-lock.ts): a plan records the      *)
(* owned files as they are and as they shall be, and is applied or rolled  *)
(* back as a whole, file by file, under a lock that a process loses when   *)
(* it dies, with a journal of its own.  People edit the same files.        *)
(*                                                                         *)
(* The artifact is taken to stay as it was planned (manifest, bytes and    *)
(* writer contract are checked before anything is written), file modes are *)
(* part of a file's content, and there is no lock of an older version.     *)
(***************************************************************************)
EXTENDS Undefined, Naturals, FiniteSets, FiniteSetsExt

CONSTANTS
    Installers,     \* processes that apply or roll back a plan
    Configurations, \* hook configurations, as numbers above that of the wrapper
    Builds,
    MaxPlans, MaxEdits, MaxStops    \* bounds of the model: plans, edits by people, deaths and failures

ASSUME AlignmentAssumption ==
    /\ None \notin Installers /\ Configurations \subseteq Nat \ {0, 1} /\ Configurations # {}
    /\ MaxPlans \in Nat /\ MaxEdits \in Nat /\ MaxStops \in Nat

VARIABLES
    files,      \* what each owned file holds
    plans,      \* the plans that were written
    draft,      \* the plan being created
    journal,    \* the journal file of each plan that has one
    holder,     \* the process with a write transaction on lock.sqlite
    proc,       \* the local variables of each process
    last,       \* the plan that was written for last, None if files were edited meanwhile (history)
    edits, stops

alignmentVars == <<files, plans, draft, journal, holder, proc, last, edits, stops>>

Wrapper == 1
Files == {Wrapper} \cup Configurations

\* own: the build a wrapper starts, or that a configuration has the managed hooks;
\* foreign: the version of what people wrote.
Content(own, foreign) == [own |-> own, foreign |-> foreign]
Absent == Content(None, 0)

\* renderManagedWrapper() replaces the file, mergeHookConfiguration() keeps what is foreign.
Aligned(f, content, build) ==
    IF f = Wrapper THEN Content(build, 0) ELSE [content EXCEPT !.own = "hooks"]

Idle == [pc |-> "idle", plan |-> None, rollback |-> FALSE, todo |-> {}, then |-> "none", late |-> {}, since |-> 0]

AlignmentInit ==
    /\ files \in [Files -> {Absent, Content(None, 1)}] /\ files[Wrapper] = Absent
    /\ plans = {} /\ draft = None /\ journal = <<>>
    /\ holder = None /\ proc = [p \in Installers |-> Idle]
    /\ last = None /\ edits = 0 /\ stops = 0

---------------------------------------------------------------------------
(* createAlignmentPlan() reads file after file, without the lock.            *)

\* The first agent's configuration is created if there is none.
Sources == LET present == {f \in Configurations : files[f] # Absent}
           IN  IF present = {} THEN {Min(Configurations)} ELSE present

BeginPlan(build) ==
    /\ draft = None /\ Cardinality(plans) < MaxPlans
    /\ files[Wrapper].foreign = 0
    /\ draft' = [build |-> build, todo |-> {Wrapper} \cup Sources, before |-> <<>>]
    /\ UNCHANGED <<files, plans, journal, holder, proc, last, edits, stops>>

ReadForPlan ==
    /\ draft # None /\ draft.todo # {}
    /\ LET f == Min(draft.todo)
       IN  draft' = [draft EXCEPT !.todo = @ \ {f},
                                  !.before = [g \in DOMAIN @ \cup {f} |-> IF g = f THEN files[f] ELSE @[g]]]
    /\ UNCHANGED <<files, plans, journal, holder, proc, last, edits, stops>>

\* A plan whose wrapper is not a managed one is refused by every application.
WritePlan ==
    /\ draft # None /\ draft.todo = {}
    /\ plans' = plans \cup { [before |-> draft.before,
                              after |-> [f \in DOMAIN draft.before |-> Aligned(f, draft.before[f], draft.build)]] :
                             n \in {m \in {1} : draft.before[Wrapper].foreign = 0} }
    /\ draft' = None
    /\ UNCHANGED <<files, journal, holder, proc, last, edits, stops>>

---------------------------------------------------------------------------
(* applyAlignmentPlan().                                                      *)

Covered(plan) == DOMAIN plan.before
AllBefore(plan) == \A f \in Covered(plan) : files[f] = plan.before[f]
AllAfter(plan) == \A f \in Covered(plan) : files[f] = plan.after[f]
Within(plan) == \A f \in Covered(plan) : files[f] \in {plan.before[f], plan.after[f]}
Journaled(plan, state) == plan \in DOMAIN journal /\ journal[plan] = state

NotJournaled(plan, state) == journal       \* a mutant: the journal is written at the end only
WithJournal(plan, state) == [q \in DOMAIN journal \cup {plan} |-> IF q = plan THEN state ELSE journal[q]]

Plan(p) == proc[p].plan
At(p, pc) == proc[p].pc = pc
Wrote(p) == last' = IF edits = proc[p].since THEN [plan |-> Plan(p), rollback |-> proc[p].rollback] ELSE None
Restoring(p, todo, then) == proc' = [proc EXCEPT ![p].pc = "restore", ![p].todo = todo, ![p].then = then]
Leave(p) == holder' = None /\ proc' = [proc EXCEPT ![p] = Idle]
Continue(p, pc) == holder' = holder /\ proc' = [proc EXCEPT ![p].pc = pc]
Looked(p) == UNCHANGED <<files, plans, draft, last, edits, stops>>

\* acquireAlignmentLock(): a second process is refused.  The files are looked at
\* under the lock.
AcquireLock(p, plan, rollback) ==
    /\ At(p, "idle") /\ holder = None
    /\ holder' = p
    /\ proc' = [proc EXCEPT ![p] = [Idle EXCEPT !.pc = "begin", !.plan = plan, !.rollback = rollback, !.since = edits]]
    /\ UNCHANGED journal /\ Looked(p)

\* "Interrupted generation was edited", or the interrupted generation is undone.
Begin(p) ==
    /\ At(p, "begin")
    /\ \/ ~Journaled(Plan(p), "publishing") /\ Continue(p, "decide")
       \/ Journaled(Plan(p), "publishing") /\ ~Within(Plan(p)) /\ Leave(p)
       \/ /\ Journaled(Plan(p), "publishing") /\ Within(Plan(p))
          /\ Restoring(p, Covered(Plan(p)), "decide") /\ holder' = holder
    /\ UNCHANGED journal /\ Looked(p)

\* restore(), one file; nothing is looked at again.
RestoreFile(p) ==
    /\ At(p, "restore") /\ proc[p].todo # {}
    /\ LET f == Min(proc[p].todo)
       IN  /\ files' = [files EXCEPT ![f] = Plan(p).before[f]]
           /\ proc' = [proc EXCEPT ![p].todo = @ \ {f}]
    /\ Wrote(p)
    /\ UNCHANGED <<plans, draft, journal, holder, edits, stops>>

Restored(p) ==
    /\ At(p, "restore") /\ proc[p].todo = {}
    /\ proc' = [proc EXCEPT ![p].pc = proc[p].then, ![p].late = {}]
    /\ UNCHANGED <<journal, holder>> /\ Looked(p)

DecideRollback(p) ==
    /\ At(p, "decide") /\ proc[p].rollback
    /\ IF ~AllBefore(Plan(p)) /\ AllAfter(Plan(p)) /\ Plan(p) \in DOMAIN journal
       THEN Restoring(p, Covered(Plan(p)), "rolled-back") /\ holder' = holder
       ELSE Leave(p)        \* it is rolled back already, or "Rollback generation changed or missing"
    /\ UNCHANGED journal /\ Looked(p)

DecideApply(p) ==
    /\ At(p, "decide") /\ ~proc[p].rollback
    /\ IF AllAfter(Plan(p)) \/ ~AllBefore(Plan(p))
       THEN Leave(p) /\ UNCHANGED <<journal, last>>    \* it is applied already, or "Files changed after planning"
       ELSE /\ journal' = WithJournal(Plan(p), "publishing") /\ Wrote(p)
            /\ proc' = [proc EXCEPT ![p].pc = "publish", ![p].todo = Covered(Plan(p))]
            /\ UNCHANGED holder
    /\ UNCHANGED <<files, plans, draft, edits, stops>>

LooksEqual(p, f) == TRUE       \* a mutant: the file is not looked at again
StillBefore(p, f) == files[f] = Plan(p).before[f]

LookAtFile(p) ==
    /\ At(p, "publish") /\ proc[p].todo # {}
    /\ LET f == Min(proc[p].todo)
       IN  proc' = [proc EXCEPT ![p].pc = IF StillBefore(p, f) THEN "rename" ELSE "failing",
                                ![p].late = @ \ {f}]
    /\ UNCHANGED <<journal, holder>> /\ Looked(p)

RenameFile(p) ==
    /\ At(p, "rename")
    /\ LET f == Min(proc[p].todo)
       IN  /\ files' = [files EXCEPT ![f] = Plan(p).after[f]]
           /\ proc' = [proc EXCEPT ![p].pc = "publish", ![p].todo = @ \ {f}]
    /\ Wrote(p)
    /\ UNCHANGED <<plans, draft, journal, holder, edits, stops>>

\* A file could not be written, or the journal at the end.
PublicationFails(p) ==
    /\ proc[p].pc \in {"publish", "rename"}
    /\ stops < MaxStops /\ stops' = stops + 1
    /\ Continue(p, "failing")
    /\ UNCHANGED <<files, plans, draft, journal, last, edits>>

\* "Published generation was edited; automatic restoration refused"
UndoPublication(p) ==
    /\ At(p, "failing")
    /\ LET published == Covered(Plan(p)) \ proc[p].todo
       IN  IF \A f \in published : files[f] = Plan(p).after[f]
           THEN /\ proc' = [proc EXCEPT ![p].pc = "restore", ![p].todo = published,
                                        ![p].then = "rolled-back", ![p].late = {}]
                /\ UNCHANGED holder
           ELSE Leave(p)
    /\ UNCHANGED journal /\ Looked(p)

\* The last write of an application, of a rollback or of a failed application.
CloseJournal(p) ==
    /\ \/ /\ At(p, "publish") /\ proc[p].todo = {}
          /\ journal' = WithJournal(Plan(p), "applied")
       \/ At(p, "rolled-back") /\ journal' = WithJournal(Plan(p), "rolled-back")
    /\ Wrote(p) /\ Leave(p)
    /\ UNCHANGED <<files, plans, draft, edits, stops>>

---------------------------------------------------------------------------
\* Its lock goes with the process.
Stop(p) ==
    /\ proc[p].pc # "idle" /\ stops < MaxStops
    /\ stops' = stops + 1
    /\ Leave(p)
    /\ UNCHANGED <<files, plans, draft, journal, last, edits>>

Edit(f) ==
    /\ edits < MaxEdits /\ edits' = edits + 1
    /\ \E own \in {files[f].own, None} : files' = [files EXCEPT ![f] = Content(own, edits' + 1)]
    /\ proc' = [p \in Installers |-> IF At(p, "idle") THEN proc[p] ELSE [proc[p] EXCEPT !.late = @ \cup {f}]]
    /\ last' = None
    /\ UNCHANGED <<plans, draft, journal, holder, stops>>

Run(p) ==
    \/ Begin(p) \/ RestoreFile(p) \/ Restored(p) \/ DecideRollback(p) \/ DecideApply(p)
    \/ LookAtFile(p) \/ RenameFile(p) \/ UndoPublication(p) \/ CloseJournal(p)

AlignmentNext ==
    \/ \E build \in Builds : BeginPlan(build)
    \/ ReadForPlan \/ WritePlan
    \/ \E p \in Installers, plan \in plans, rollback \in BOOLEAN : AcquireLock(p, plan, rollback)
    \/ \E p \in Installers : Run(p) \/ PublicationFails(p) \/ Stop(p)
    \/ \E f \in Files : Edit(f)

AlignmentSpec == AlignmentInit /\ [][AlignmentNext]_alignmentVars

---------------------------------------------------------------------------
\* What people wrote is replaced only if they wrote it after the process had looked.
EditsSurvive ==
    [][\A f \in Files : files'[f].foreign # files[f].foreign =>
         edits' # edits \/ \E p \in Installers : f \in proc[p].late]_alignmentVars

\* Applied or rolled back again, the plan finds what it knows.
Resumable(plan) ==
    AllBefore(plan) \/ AllAfter(plan) \/ (Journaled(plan, "publishing") /\ Within(plan))

\* However an application ended, the same plan can be applied again, unless the
\* files were edited meanwhile.
ApplicationsResume == holder = None /\ last # None => (~last.rollback => Resumable(last.plan))

\* The same of a rollback.
RollbacksResume == holder = None /\ last # None => (last.rollback => Resumable(last.plan))
=============================================================================
