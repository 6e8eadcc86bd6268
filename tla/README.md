# A TLA+ model of Agent Experience Learning

Agent Experience Learning (AEL) watches a coding agent through its hooks,
keeps what it saw as private evidence, lets detectors analyse that evidence in
the background, and turns reviewed results into guidance that later sessions
get back.  It is a TypeScript program without a server: every hook, drain,
coordinator and worker is a short-lived process, and they meet only in SQLite
databases and in files under the project's private directory.  Whatever is
hard in it is therefore a question of *which process runs which transaction
when*, and of what is left behind when one of them dies.  That is what these
modules model.

## 1. Inventory

| Component (code) | State it keeps | Operations | Hard behaviour | What makes it correct |
|---|---|---|---|---|
| **Capture spool** (`capture/spool.ts`) | `capture-spool.sqlite`: `records`, `capture_recovery_state`, `quarantined_records`, `counters`, `drain_lock`, `drain_completion`, receipts | admit, claim, acknowledge, retry, wait for / release a dependency, quarantine, drain lock | every caller is another process; claims and the lock are leases; history is pruned | tables agree; attempts bounded per generation; nothing lost or counted twice |
| **Capture drain** (`capture/spool-drain.ts`, `passive-service.ts`) | local variables of a detached process | claim, check dependencies and conflicts, persist, offer to analysis, release dependants, acknowledge, wake the coordinator | two databases without a common transaction; overlap of two drains; crash at every step | at-least-once delivery in dependency order; nothing acknowledged before it is stored; no lost wake-up |
| **Hook ingress** (`capture/hook-ingress.ts`) | none | normalise, admit with a receipt, start a drain | a hook must never fail the agent; only an admission starts a drain | admitted work is eventually drained while hooks keep coming |
| **Recovery plans** (`capture/recovery.ts`) | `recovery_plans`, `recovery_audit` | create, apply, resume | a plan is checked, then applied row by row; it may be interrupted and run again | each selection is applied once; a stale selection is not |
| **Experience store** (`storage/experience-store.ts`) | in `experience.sqlite`: sessions, runs, events, the logical index of evidence, knowledge with evidence and transitions, observations and tombstones | store a capture record, index, backfill, import, append evidence, retain | records come late, twice and after the session's end; results may precede or contradict | one open run; ended sessions stay closed; every piece of evidence has one ordinal; knowledge is where its transitions took it |
| **Evidence** (`evidence/`) | annotation rows, pending and resolved | import a file, resolve relations, reconstruct a report | annotations refer to what is not stored yet; observations repeated or contradictory | a resolved annotation is grounded; a report does not depend on delivery order |
| **Analysis queue** (`learning/repository.ts`) | in `experience.sqlite`: streams, jobs, results, coordinator lease, worker slots | enqueue, claim, retry, recover expired, acknowledge, persist a result | leases lapse under a running child; a stream moves on while it is analysed | no evidence skipped; one result per job; children within the limit |
| **Analysis workers** (`learning/worker.ts`) | local variables of coordinator, watchdog, child | start children, renew leases, heartbeat, kill | heartbeat against lease against deadline | a dead child is retried, a late answer refused |
| **Detectors** (`learning/detectors.ts`, `service.ts`) | checkpoint of a stream, episode evidence | page, look up, detect, carry over | a relation or a repair crosses pages, and evidence is committed meanwhile | what one page would show is found wherever the pages fall |
| **Candidates** (`knowledge/`) | candidates, origins, reviews | register, backfill, review, supersede | evidence is looked up before the transaction that uses it | what is served as verified was earned in that revision |
| **Advice** (`advice/`) | configuration, bundles, facts | retrieve, record use, observe an outcome | claims of the agent, reports of a host and the clock in any order | an outcome is credited only to advice that was used |
| **Shared knowledge** (`shared-knowledge/`) | the directory in the working tree, a private recovery copy, a lock directory | promote, activate against the trusted commit, compile | several renames; stale lock removed by name; edits and merges by people | what was promoted is not lost; only merged knowledge is enforced |
| **Snapshot store** (`storage/runtime-snapshot-store.ts`) | generation files, manifest, last known good, writer-lock directory | publish, recover, clean up, lock and reclaim | crash between any two file operations; several reclaimers; readers without a lock | readers see a complete generation; one writer |
| **Runtime service and gate** (`application/runtime-service.ts`, `runtime/`) | cache of runtimes with their breakers, pointer to the active target | evaluate, refresh, report status | one store per target, several profiles, damage, migration of an old store | own rules only; a refresh is seen by every profile; unknown never becomes allowed |
| **Overrides** (`storage/override-store.ts`, `runtime/override.ts`) | append-only audit and two derived tables | authorize, complete, migrate, derive page by page | pages over a growing log | qualification is a function of the log; an override is narrow |
| **Configuration** (`config/`) | none | inherit, resolve | order of definitions and selectors | one answer, whatever the order |
| **Review** (`review/`) | none | select a session, keep a window of it, review, consolidate | reviewers fail or break rules; files larger than what is kept | what is proposed rests on valid, corroborated findings |
| **Installation** (`installation/`) | plans, journals, lock | plan, apply, roll back | interrupted between two files; edits by people | the same plan can go on; edits are not overwritten unseen |
| **Capture adapters, privacy, CLI, skill, benchmarks** | none, or caller's files | parsing, sanitizing, rendering | - | not modelled, see section 7 |

How they interact: a hook **admits** a record to the spool and, when it was
new, **starts** a drain; the drain **moves** records into the experience store,
**offers** each session to the analysis queue, **releases** records that waited
for it, and **launches** the coordinator; the coordinator **claims** jobs and
runs children that read the experience store and write results; results become
candidates; reviewed candidates are served as advice, or **promoted** to the
repository, and from there and from the store **published** as a runtime
snapshot which the gate reads before the next action.  Every arrow is a call
between processes, or a row or a file another process will find.

`PROJECT.json` lists the hazards of this code, each at its line, with the
properties that cover it.

## 2. How the modules are put together

| Modules | Composition |
|---|---|
| `CaptureSpool` < `CaptureDrain`, `RecoveryPlan` | the spool's transactions are the steps of its consumers and of recovery plans; `CaptureDrain` refines `AtLeastOnceDelivery` |
| `AnalysisJobs` < `AnalysisWorkers` | the queue's transactions are the steps of coordinators and children; `AnalysisJobs` refines `StreamProgress` |
| `SessionEvidence`, `Detection` | what a job reads, and what it makes of it |
| `KnowledgeLifecycle` < `KnowledgeEvidence`, `CandidateReview` | one lifecycle, two tables that follow it |
| `AdviceUsage` | the use of what was verified |
| `RuntimePolicy` < `RepositoryKnowledge`, `MCRuntime` | the decision, made from rules that were shared, and under overrides |
| `RuntimeSnapshot`, `WriterLock` | the store's files below the lock, and the lock |
| `RuntimeService`, `OverrideAudit`, `RuntimeProfiles` | the process that evaluates, what is audited, what is configured |
| `SessionReport`, `Review`, `SessionWindow`, `Alignment` | what is reported and reviewed, and what is installed |

An `MC` module may hold several machines that share no state, one of which is
chosen by the initial state (`which`) while the others rest: each of their
properties is then checked over the states of its own machine.  The pure
modules are asked one question per initial state (`input`), and their
properties are invariants over the questions.

## 3. The modules

### CaptureSpool

An *open* specification: each public transaction of the class is an action, and
any process may take any of them at any time.  What holds here holds whatever a
drain, a hook or an operator does.

* `records[d]` is the row of delivery `d`, with `state = "absent"` for no row.
  `leased` stands for `lease_until > now` and `due` for `next_retry_at <= now`;
  the actions `ClaimLeaseLapses`, `BackoffElapses` and `DrainLockLapses` are the
  clock, so all durations and all races with a deadline are included.
* `recovery[d]` is the row of `capture_recovery_state`; its reason column, which
  no guard reads, is left out.  Rows outlive their record, and `Pruned` may take
  settled ones at any settlement, where the code prunes at every 256th.
* `counters` has, beside the columns of the table, two totals the program does
  not keep (`refused`, `replayed`); they make the accounting statable.
* `Claim(batch)` takes a set where the code orders by admission time: any order
  is allowed.  A damaged row (`Unreadable`) is quarantined inside the claim, as
  in the code.
* `Recover(d)` is one selection of `recovery.ts`, applied to rows that are
  eligible for it; `RecoveryPlan` separates the plan from its application.

Left out: the receipt ledger, the delay diagnostics, schema creation and
migration, and the byte limit, of which only the record count is kept.

### CaptureDrain

Each drain process is a program counter and local variables; each read of the
experience database and each transaction of either database is one step.
`stored` is the set of deliveries in the experience database.  What the code
computes from event payloads is given by constants: `SessionOf` and `RequestOf`
(the key of the session and of the request a record needs), `Announces` (the key
a session start or a pre-action introduces, whose arrival releases others) and
`Conflicts` (which stored records contradict it).  `Present` are the keys the
database knows, and several deliveries may announce the same one.  `Persist` verifies again inside its transaction, as
`persistPassiveCapture` does, so `Check` is only an early answer.

`FailRecord` is a throwing transaction of the current record, `AbortDrain` one
outside the record's `try`, `Crash` the death of the process at any step.
`OfferAnalysis` and `TakeAnalysisWork` stand for the analysis queue, which is
seen here only as "there is work nobody has taken".

`Overrun` says whether the leases of the lock and of the claims may lapse while
their owner works.  The lock's lease ends one second after the drain's own
deadline and is not renewed, so both cases are real: with FALSE a consumer keeps
its deadline, with TRUE it is suspended or slow.

### AtLeastOnceDelivery

Each delivery is absent, accepted, delivered or rejected.  It is delivered only
after one of each set of deliveries it needs and beside nothing it contradicts, and a rejected one comes
back only by a replay.  `CaptureDrain!Status` maps the two databases to it and
`ImplementsDelivery` checks every step.

### RecoveryPlan

Extends the spool with what `recovery.ts` adds: `plan[p]` is the stored list of
selections with the state, generation and attempts each row had, `applied` the
bounded table of applied selections, and `apply[o]` the local variables of one
`applyRecoveryPlan` call.  `BeginApply` is the checking transaction,
`ApplySelection` one later transaction – skipped, applied through the spool's
`Recover`, or refused – and `Crash` the death of the operator in between.
Hooks, consumers and the clock act at any moment (`SpoolUse`).  The scope, page
and attestation of a plan decide only which rows it lists, so `CreatePlan` may
list any subset of the recoverable ones.  `effects`, a total the program does
not keep, counts how often a plan changed a record.

### AnalysisJobs

Again an open specification: each public transaction of the queue is an action
that any process may take at any time, with arguments that may be out of date.

* `jobs[s][g]` is the row of generation `g` of stream `s`.  `leased` stands for
  `lease_expires_at > now`, `due` for a back-off that has passed; `JobLeaseLapses`
  and `BackoffElapses` are the clock.  Which detectors ran and what they found
  is left out; of the stored results only `analysed[s][n]` is kept, a total that
  says how often the results of an ordinal were stored.
* A claim is fenced in the code by job, random owner and attempt number.  The
  owner is new for each claim and attempts only grow, so job and attempt
  determine it, and `Owned` compares those.
* `Failed` is what `failAttempt` does to a stream: quarantine on the last attempt
  or for invalid input; otherwise the job becomes retryable, takes over the range
  of its pending successor, and that row is deleted.
* `Acknowledge` stores the results up to an ordinal inside the job's range.  What
  is left widens the open successor or gets a new one.  An acknowledgement
  without progress (a relation page that is continued) is counted by
  `continuations` only to bound it.
* The code claims by priority and age; here any claimable job may be taken,
  which allows every order it can produce.

### StreamProgress

For each stream, what is analysed is a growing prefix of what was admitted, and
a quarantined range holds the stream where it is, for good.  `AnalysisJobs`
refines it, with generations, leases, attempts and merges hidden.

### AnalysisWorkers

The coordinator loop of `worker.ts` with every transaction as a step: take the
lease, renew it, recover expired jobs, count work, reserve a slot and start a
child, decide whether to stay, release.  A child is a watchdog with the thread it
watches; `ChildClaims`, `ChildAnswers`, `ChildIsRefused` and `LateChildRecovers`
are the calls `service.ts` makes, `Terminate` is the watchdog ending the thread.
A slot's row is only read by its own child, so the slot is the child's identity.
The claim of a job fails on the slot's fence, or on the unique index when the slot
of a child that died still names the job.

`Late` says when a lease may pass: freely when its owner is gone, and under an
owner that is suspended as a `MissedDeadline`, of which a behaviour has one, or
else up to `MaxFaults` failures.  A process that is not suspended keeps its
deadlines: the lease is renewed every 5 of 10 seconds, the slot every 5 of 45, and
a thread is ended after 30 seconds, before its claim passes.  `DeadlinesKept`
guards the three properties that are promised for that case only.

The idle time of the coordinator is taken as passed when one round found nothing
to do (`quiet`); then it looks once more, as the code does, and goes.  `Offer` and
`Launch` are the consumer of the spool; `Relaunch` is a later consumer that finds
outstanding work.  `ael analysis run` claims without a slot and is covered by
`AnalysisJobs` only.

### WriterLock

The directory lock of the snapshot store, system call by system call.  `lock` is
the directory `.writer-lock`, `whole` while it holds its owner file; `claims[p]`
is the entry of process `p` in the reclaim directory, under the name it has at the
moment.  A listing (`Listed`) remembers names; an entry is looked at later, and
one that was renamed meanwhile is passed over (`Live`), as an `ENOENT` is in the
code.  `proc[p]` is the program counter with the listing being scanned, the owner
observed and the ticket; `life[p]` says whether the process runs, is dead, or is
dead for longer than the 30 seconds after which what it left may be removed.

A process makes one call here, so its number stands for process id, token and
directory identity together.  Its candidate directory is its own and appears only
where it matters: `RenameToLock` moves it into place, and `CandidateIsAbandoned`
is a process that paused until another took its candidate for an abandoned one.
Errors other than those of another process being faster are left out.

### RuntimeSnapshot

`dir` is the directory as processes see it: the manifest, the rollback copy, and
a file for each generation (none, good or bad).  `disk` gives for each name the
set of contents a loss of power may leave; `SyncDirectory` collapses it.
Candidate files are written and synced before they are renamed, so that only
names are modelled.  `pub` is the publisher that holds the writer lock; each
`pc` is one rename, unlink or sync of `publish` and `recover`, and cleanup is
one of its steps.  `PublisherStops`, `PowerLoss`, `SyncManifestFails` and `Damage`
strike between any two.  A reader is one evaluation: it loads the current
snapshot, the runtime pinned to that one loads it again, and what is left is the
last known good.  Each of the three loads reads the manifest (`seen`) and, in a
later step, the generation; no load is repeated.  `overtaken` is history: how
many publications passed the evaluation, counted up to `MaxOvertakes`, a bound
of the model that is also the number of which `OvertakenReadersAreServed` speaks.

An identical republication and a commit that was withdrawn count as overtaking
commits.  A damaged generation blocks the publication of one with the same
checksum; each refresh compiles a new one, whose `generatedAt` differs, which
is why `BeginRecover(c)` is taken with strong fairness for every `c`.

### RuntimeService

One process with `#targetLru`, `#runtimes`, the active runtime and the breakers,
over one snapshot store per target.  A call is synchronous and is one action;
`RuntimeSnapshot` has what happens during it.  `legacy` is the store of an older
version that held one snapshot for whatever target, `pointer` the file that
names the target evaluated last.  `PublishElsewhere` and `Damage` are other
processes and the disk.  `refreshed` is history: the newest snapshot this
process has published for a target.

### RuntimePolicy, RuntimeProfiles, SessionReport, Review, SessionWindow

Pure modules, one operator per function of the code.  `RuntimePolicy` compiles
rules to a snapshot, matches, decides, degrades and applies an override.
`RuntimeProfiles` inherits and resolves.  `SessionReport` projects a captured
session and reconstructs operations, verifications, lifecycle and measurements;
`None` is a report the code refuses.  `Review` has the reviewers, the validation
of their results, their consolidation, and the refusal of what is proposed of it;
`None` is a review that is lost as a whole.  `Padded` are the identities with blanks
around them, which `isProjectReviewFinding` accepts and `validateIdentifiers` refuses.
`SessionWindow` is the accumulator that keeps the end of a file.  Texts are numbers, names or model values; a
recommendation is a tuple of the words it is made of.

### OverrideAudit

`log` is the append-only table, `derived` the two tables qualification keeps, or
None before the migration of an older database.  `Authorize` and `Complete` are
the transactions of the store.  A derivation of learning evidence is one reader
that fixes the highest row (`BeginPages`), and fetches groups, counts and
supporting rows query by query, over several pages, while rows are appended.

### RepositoryKnowledge

`base` is the directory in the working tree, `recovery` the private copy made
while it is replaced, each a set of documents, Absent, or Broken when some of
its files are missing.  A process locks (`lock`, with the stale lock that is
read and then removed by name), reads, stages, exchanges by renames and cleans
up, one system call a step; it may die at any.  `Activate` reads the working
tree and the trusted commit and compiles what both agree on.  `Edit` and
`Merge` are people.  `kept` is history: the documents that may stand for the
last promotion under an identity.

### SessionEvidence

`session`, `signals`, `runs`, `captured` and `onRun` are the rows
`persistPassiveCapture` writes; `native`, `aliases` and `notes` are the logical
index that gives every piece of evidence one ordinal; `committed` is the high
water admitted to the analysis, which reads pages up to it.  `Deliver` is one
record of the spool, with all it changes; `Import` one annotation file; `Admit`
the enqueue that follows a transaction, asked for once, refused or, if its process
dies, never asked for (`due` tells which is to come: that of a capture is refused
while events are unindexed, that of an import, `evidence/repository.ts:254-262`,
admits what has an ordinal); `Backfill` what an
opening of an older database indexes; `Reconcile` counts with separate
statements, on a connection without a lock, one statement a step.

### KnowledgeLifecycle, KnowledgeEvidence, CandidateReview

`KnowledgeLifecycle` is `domain/transitions.ts`.  `KnowledgeEvidence` is the
knowledge half of the experience store: an import, evidence appended with a
transition, the enforcement snapshot of an action, the result that becomes
evidence or a candidate lesson, and retention.  `CandidateReview` is the
repository of candidates: what an evidence id resolves to is looked up in one
step (`LookUp`) and decided on in another (`Decide`), and may change in between.  `reviews`
is the table by candidate: every query on it, and its UNIQUE constraint, is about one.

### AdviceUsage

`bundles` and `facts` are the tables; a claim is checked (`Check`) before the
transaction that records it (`Record`); `Select`, `Retrieve`, `Answer` are a
retrieval, which reads configuration and lessons separately; `ChildReports` is
the host that watches its child.

### Detection

A session's `log` of transactions, committed one by one, read in pages; the
checkpoint (`pending`, `typed`, `relation`, `claim`) is carried from page to page.
`RunPage` is one claim with its page, its portion of lookups, the detectors and
the acknowledgement: what fails in between is the subject of `AnalysisJobs`.

### Alignment

`plans` are the written plans with each owned file before and after, `journal`
the state of each, `holder` the process whose transaction on `lock.sqlite` is
open, which ends with it.  An application looks at a file, writes and renames,
file by file; `proc[p].late` remembers the files edited after the look.

## 4. Runs

| Run | Instance | Shows |
|---|---|---|
| `queues` | the open spool with one readable and one unreadable delivery, full at one record, two attempts, three generations, four admissions; or two consumers whose leases lapse, over any two of a request, its result and a contradicting request; or two analysis streams of two ordinals | `LateCallsAreHarmless`: every order of the spool's transactions keeps tables, budgets and counters in agreement, and overlap of consumers harms neither that nor the order and exclusion of what is stored; each ordinal is analysed once, none is forgotten, and the queue refines `StreamProgress` |
| `drain` | session start, request, and a second request that contradicts it; one consumer, one fault, two attempts | the same of the spool and of what is stored, for one consumer that keeps its deadlines (overlap is in `queues`); with fairness: every accepted record settles, also one that waits; analysis work is not forgotten; the refinement of `AtLeastOnceDelivery` holds |
| `recovery` | two deliveries, two plans; two operators with one interruption, two generations and all selections remembered, or one operator, three generations and one remembered selection | a plan changes each record at most once, even when the table forgot; an application that returns has told the truth; a plan's own effects never make it stale |
| `analysis_workers` | one stream, two coordinators, two slots, a limit of one child, two failures or one missed deadline | a child at work owns its job; with fairness, what is admitted is analysed or quarantined |
| `snapshot` | three snapshots, one reader, one fault; or three writers, two deaths, one pause | a manifest that survives a loss of power names what survives; an overtaken reader is served; damage is healed by refreshes; among three writers no reclaim takes the lock of a living one |
| `knowledge` | two processes, a fact in two versions, a workflow that supersedes it, a wish; one death, one edit | promotions are kept; only what was merged and confirmed is enforced |
| `experience` | one of five machines: a session that ends and resumes with its annotations; two entries with six kinds of evidence; two learned and one manual candidate; one lesson and one operation; sessions of three commands or of annotations in every order, in pages of two | the nine properties of the stores of `experience.sqlite` |
| `runtime` | one of four machines: two profiles, two targets and a cache of one; the audit of two grants; two installers, two builds, two deaths; or one question to a pure module | own rules only, settled breakers, refreshes seen; exact qualification and consistent pages; resumable applications and surviving edits; the answers of the pure modules |
| `lost_wakeup`, `alignment_rollback`, `detection_pages`, `detection_growing` | - | the disagreements of section 6 |

Bounds.  `MaxAdmissions`, `MaxRefusals`, `MaxGeneration`, `MaxFaults` and the
other `Max` constants bound the model, not the program.  In the spool, four
admissions let each delivery be admitted, settled, pruned and admitted again;
three generations let a record be released and recovered; `MaxActive = 1` makes a
full spool and a replay into it reachable; `QuarantineMax = 1` and `HistoryMax = 1`
make their caps bite.  Two attempts are the smallest budget in which "first",
"last" and "spent" differ.  Two consumers suffice for every race of the lock,
since only one can hold it and any other is a late one.  With consumers that
overlap at any step, two admissions pick any two of the three deliveries, or one
twice.

In `recovery`, `AppliedMax = 1` makes the table forget at once and 4 never;
`HistoryMax` is large enough that no recovery row is pruned.  That is a limit of
`AppliedAtMostOnce`: where the table has forgotten, it rests on generations only
growing, and a pruned row whose delivery is admitted again starts at generation
zero.  The theorems name this condition.

In the queue of jobs `MaxJobs` is high enough never to bind: a stream of two
ordinals and one continuation needs at most five generations, and one ordinal
two.  Two ordinals are what it takes for a job to be completed in part, and two
faults for a crash of a process and of the one that takes over from it.

In the writer lock a second crash is that of a process which reclaims the lock of
the first, or holds the lock after it.  Three writers are the bound of the claim
as well as of the run: with a fourth `HolderKeepsLock` fails, as section 6 says, and
the theorem says nothing in its place; likewise the lock of the shared knowledge with a third
process.

In `runtime`, two compiled snapshots make an old and a new one; the legacy store's
is generation zero and adds a third.  A cache of one target is evicted by the
second, two failures open a breaker.  Pages of one rule and six rows let a row be
appended between any two queries of two pages.  In `experience`, pages of one
entry, a backfill of one event and lookups of one annotation put every boundary
of the code between any two pieces of evidence.  Advice starts enabled, and the one
change may disable it, or the lesson or its file.  `PendingLimit` is 6 there and never
reached: that a checkpoint keeps 128 pending events is in the model, and what the cut
loses is not exercised by `RepairsAreReal`.  In `Review`, two reviewers with
up to two and one findings and a third with one are what a disagreement, a
repeated identity and a corroboration take, and one identity with blanks, of a finding
or of an event, what the loss of a review takes; in `SessionWindow` two records and
three bytes are kept of files of up to four.

Deadlock checking is off where a program without pending work stops, or a machine
of a pure question has no step; in the capture runs the clock and the restarts
always have a step, and it is on.

Fairness.  *Capture*: a started process keeps running (`WF` on `Work(w)`), a
deadline passes (`WF` on the clocks), and a consumer is started again and again
(`WF` on `Start`).  The last is an assumption about the environment that
`docs/decisions/001` states: pending work is resumed only by later ingress or by
`ael capture drain`.  Faults, crashes, admissions and recovery plans are not fair.
`AcceptedSettles` is weaker than "every record is stored or rejected" in one
documented way: a record whose dependency is itself held waits until an operator
recovers that one.  *Workers*: coordinators and children keep running (`WF` on
`Coordinate` and `Work`), leases and back-offs pass, a coordinator that has lost
its lease notices it (`SF` on `LoseLease`, since a renewal is due every 5 seconds
and not in every round), and a later consumer relaunches (`WF` on `Relaunch`), which
`spool-drain.ts:109-119` does whenever it finds outstanding work.
`AdmittedIsAnalysed` depends on the last: a launch alone may be lost, as section 6
says.  *Snapshots*: a publisher goes on (`WF`), and a project whose snapshot cannot
be read is refreshed again and again (`SF` on `BeginRecover(c)`).  *Evidence*: the
database is opened again (`WF` on `Backfill`), reconciliation and the analysis run
(`WF`); deliveries, imports and admissions owe nothing: an admission may be
refused or never come.

Some definitions are stated and not part of a run: the type invariants of
modules whose machines share a run, which were checked while the modules were
written; `CommittedIsStored`, `QuarantinedIsNotStored`, `IndexesHold`,
`OccupancyBounded`, `ChildrenWithinLimit` and `OneCoordinator`, which are proved;
`SuccessorIsFresh`, `AttemptsAgree`, `SettledAttemptIsFinal` and `CacheIsBounded`,
which hold there and say less than the properties that are run; and `LaunchIsNotLost`,
`RefusedBeforeAnyEffect` and `PagesAreAccepted`, which do not hold (section 6).

## 5. Proofs

Eight modules are proved about, for any sets of deliveries, consumers, streams,
coordinators, slots, capture records, annotation files, snapshots, readers,
documents, targets and profiles, recovery plans, alignment plans, grants and rules,
lessons and operations, knowledge and results, candidates and their evidence, and for
any values of the limits, the bounds of the model included.  Five theorems have a
hypothesis of their own, and the table names it.  Every inductive invariant was an
invariant of a run before it was proved.

| Module | Theorem | Property |
|---|---|---|
| `CaptureSpool_proofs` | `SpoolTypeCorrect` | `SpoolTypeOK` |
| | `TablesAlwaysAgree` | `TablesAgree` |
| | `AttemptsAlwaysBounded` | `AttemptsBounded` |
| | `CompletionIsExclusive` | `CompleteMeansUnlocked` |
| | `EverythingIsCounted` | `NothingUncounted` |
| | `ResetsOpenGenerations` | `BudgetResetOpensGeneration` |
| | `HeldResumesByRecovery` | `HeldNeedsRecovery` |
| | `SpoolStaysConsistent` | `SpoolIsConsistent`, the four together |
| `CaptureDrain_proofs` | `StoredStaysSound` | `StoredIsSound` |
| | `CommittedStaysStored` | `CommittedIsStored` |
| | `QuarantinedIsNeverStored` | `QuarantinedIsNotStored` |
| | `DrainKeepsPromise` | `ImplementsDelivery`, the refinement of `AtLeastOnceDelivery` |
| `RecoveryPlan_proofs` | `PlansKeepSpool` | `SpoolSpec`, the specification of the spool |
| | `NeverAppliedTwice` | `AppliedAtMostOnce`, if `SelectionsFit` or `RowsFit` |
| | `DoneIsTrue` | `DoneMeansApplied`, if `SelectionsFit` or `RowsFit` |
| | `PlansResume` | `OwnEffectsAreNotStale`, if `RowsFit` |
| `AnalysisWorkers_proofs` | `AnalysisIsExact` | `AnalysedOnce` |
| | `NothingIsForgotten` | `NothingForgotten` |
| | `IndexesAreNeverHit` | `IndexesHold` |
| | `QueueKeepsPromise` | `ImplementsProgress`, the refinement of `StreamProgress` |
| | `WorkStaysOwned` | `WorkIsOwned` |
| | `WorkersImplementQueue` | `JobsSpec`, the specification of the queue |
| | `WorkersKeepQueue` | `AnalysedOnce`, `NothingForgotten` and `ImplementsProgress`, under coordinators and children |
| | `OneCoordinatorAtATime` | `OneCoordinator` |
| | `OccupancyStaysBounded` | `OccupancyBounded` |
| | `ChildrenStayWithinLimit` | `ChildrenWithinLimit` |
| `Experience_proofs` | `EndedStaysEnded` | `ClosedSessionsStayClosed` |
| | `NothingIsLeftOut` | `NothingIsSkipped` |
| | `AnnotationsStayGrounded` | `AnnotationsAreGrounded` |
| | `OutcomesStayGrounded` | `OutcomesRestOnUse` |
| | `KnowledgeStaysSound` | `KnowledgeIsSound` |
| | `CandidatesStaySound` | `CandidatesAreSound` |
| `RuntimeSnapshot_proofs` | `SnapshotTypeCorrect` | `SnapshotTypeOK` |
| | `ManifestStaysDurable` | `ManifestIsDurable` |
| | `OvertakenReadersStayServed` | `OvertakenReadersAreServed`, if `MaxOvertakes <= 3` |
| `RepositoryKnowledge_proofs` | `KnowledgeTypesHold` | `Types` |
| | `EnforcementStaysEarned` | `EnforcementIsEarned` |
| | `PromotionsStayKept` | `PromotionsAreKept`, if there are at most two processes |
| `Runtime_proofs` | `OnlyOwnRules` | `OwnRulesOnly` |
| | `BreakersSettle` | `BreakerIsSettled` |
| | `RefreshesAreSeen` | `RefreshIsSeen` |
| | `ApplicationsCanResume` | `ApplicationsResume` |
| | `EditsStaySafe` | `EditsSurvive` |
| | `QualificationStaysExact` | `QualificationIsExact` |
| | `PagesStayOneMoment` | `PagesAreOneMoment` |
| | `OverridesStayNarrow` | what `OverridesAreNarrow` asks about two rules, about any |
| | `CompiledSnapshotsAreWellFormed` | a compiled snapshot is one that parses |
| | `OnlyPaddingLosesReviews` | what `ReviewsAreGrounded` says of lost reviews, for any findings |
| | `ReviewsStayCorroborated` | what it says of improvements and lessons, for any findings |

**Spool.**  `SpoolAssumption`: a finite set of deliveries, positive limits, and a
`None` outside the sets of keys and consumers.  `TablesAgree`, `AttemptsBounded`,
`NothingUncounted` and `CompleteMeansUnlocked` are inductive relative to the type
invariant: each theorem has one step per transaction, and `PrunedRows` states
once what pruning may do.  The accounting argument needs how each transaction
changes the number of active records (`ActiveGains`, `ActiveLoses`).  The two
action properties need one more invariant, `AbsentIsNew` – a delivery whose row
was pruned has no attempts left over – and the case analysis `HistorySteps`,
which says what a step can do to one row.

**Drain.**  `DrainAssumption` adds that contradiction is symmetric; whether
consumers keep their deadlines (`Overrun`) is left open, so the theorems hold for
both.  None of the properties is inductive: a consumer acts on what it read some
steps ago, when another may have settled the record.  `DrainInv` therefore says
what a consumer still knows at each label (`InHandFits`).  Two facts make it
stable: what the database holds only grows, so a dependency that was found stays
found and a refusal stays a refusal, and a record in somebody's hand is active,
or already stored, or refused for good.  With that, `StoreFits` – what is
committed is stored and was offered, what is quarantined is unreadable or refused
– survives each step.  The spool's transactions enter through what they do to the
*standing* of each delivery (`Rises`, `Settles`), and each of those is a step of
the promise or leaves it as it was.

**Recovery plans.**  `RecoveryAssumption` adds finitely many plans and a positive
`AppliedMax`.  Every step of an operator is a step of the spool or none
(`PlansKeepSpool`), so the spool's invariants hold beside any plans.  `PlansFit`
says what an application knows: what is no longer to do has had its effect, and its
two counts and what is left add up to the plan.  That a selection has no *second*
effect is not inductive, and has two reasons, either of which suffices.  If the
table of applied selections never forgets (`SelectionsFit`: there are no more pairs
of a plan and a delivery than it holds), an effect is found there
(`EffectsRecorded`); that the table cannot fill up before is a count of distinct
pairs.  If no recovery row is ever pruned (`RowsFit`),
a record that had an effect has a generation above the one the plan recorded
(`GenerationsRemember`), and no transaction of the spool takes a generation back, so
the selection is stale for every later application (`StaleForGood`).  Both are
conditions on how many deliveries there have been, against the two limits of 10000
rows (`recovery.ts:59`, `spool.ts:603`); when both tables have forgotten, a
selection may have a second effect.  `PlansResume` needs the second reason.

**Analysis queue.**  `JobsAssumption`: finitely many streams, positive limits.
`JobsInv` is a statement about each stream alone (`StreamInv`): an open job
reaches what was admitted; a running one starts at what was processed, and
reaches what was admitted unless a successor is open; there is at most one of
each, and none runs beside a quarantine.  The last is why a late answer can
neither pass the quarantined range nor store an ordinal again: a claim whose job
was quarantined, retried or merged no longer owns it.

**Workers.**  `WorkersAssumption`: finitely many coordinators and slots, a positive
limit, a `None` outside both.  That every step of a coordinator or a child is a
transaction of the queue, or none, is proved first (`WorkersImplementQueue`): the
theorems about the queue then hold under the workers.  `WorkIsOwned` is not
inductive.  A child knows its job and its attempt, and what makes it their owner is
spread over three tables: `ChildrenInv` says that its slot is live and names its
job (`SlotsLive`), that the row it works on is still running in its attempt
(`ClaimsOwned`), and that no two children work for one stream (`StreamsApart`); the
last is needed because the transactions of *another* job of the stream – a merge,
a widening, a quarantine – would disturb the first two.  All three hold while
deadlines are kept.  The occupancy holds without that condition: the reserving
transaction counts live slots and the running jobs no slot names, and a claim moves
one from the first count to the second or leaves the sum as it was, so the proof is
about the cardinality of two sets under each step.  `ChildrenWithinLimit` follows
from it, since a child whose deadline was kept has a live slot.

**Session evidence.**  `EvidenceAssumption`: times are numbers; an older version
stored finitely many events, each id once and each result beside its request;
annotation files are sequences; a page has at least one entry.  Three inductive
invariants, one per property.  `ClosedInv` types the records and repeats the property
with "one run is open" as a statement about pairs.  `PagesInv` says that the two
indexes share the ordinals from 1 to `High` without a gap (`Gapless`), and that what
is admitted, read, or about to be admitted by a reconciliation half-way through lies
below.  A page is right because of `PageIsPrefix`: the first entries of two tables
that share a range, merged and cut again, are a prefix of the range – whatever is
left out of a table's portion has a full page before it (`FirstIsFull`).  Without the
second cut that is false, which is the property's mutant.  `GroundInv` says that an id
is stored once in either table and indexed once (`Consistent`), so what an id
stands for never changes while records arrive (`StandsForStays`), and that *resolved*
and *indexed* are the same for annotations; the second is what a repeated artifact
could break, and does not, because what was noted before is among what
`ResolvedStands` calls resolved.  Why a backfill cannot index an id twice is part of
it: events of a run are indexed with the transaction that stores them, so only
events of the session are ever without an index.

**Advice.**  `AdviceAssumption`: a `None` that is no number, and a watched lesson
that is one.  A fact is checked in one step and recorded in a later one, so the
invariant (`AdviceFit`) says of both, of each recorded fact and of the check that
awaits its record, what it rests on (`Rests`): an applied operation on a retrieval, a
delivery and a selection that stand in this order before it and were made before the
operation began; an outcome on an applied fact and a success.  Facts are only
appended, a bundle is retrieved once, an operation begins and succeeds once, so what
a check rested on is still there when its fact is recorded (`RestsStill`), and a
selection recorded meanwhile changes nothing: of several, the first after the first
delivery counts.  That is what `qualifiedProgress` computes, one stage after the
other; `ProgressSays` reads the three facts off its result.

**Knowledge.**  `KnowledgeAssumption`: the states and times of imports, what
`validateImport` asks of their evidence, results with ids of their own, and evidence of
a result whose id no import or update uses (`stableId`).  `KnowledgeInv` has a part for
each table.  `Sound` relates an entry's state, its evidence in order and its history:
each transition was caused by evidence that is attached, one out of a dispute by evidence
that names its target, and after each contradiction of an active entry there was such a
revalidation (`Settled`); it speaks of *some* position of the cause and of distinct ids,
where the property computes the position.  `AppendSound` is the lifecycle's share: the
next piece of evidence, wherever `After` takes the entry, leaves it sound.  `Counted` says
that a result is attached exactly where its action's snapshot names the knowledge; a
snapshot is never written again and ids are never used again, so neither a second capture
nor another result disturbs it.  A transaction of several updates is reduced to one update
per entry (`Evidencing`), which needs that a snapshot names each piece of knowledge once.

**Candidates.**  `CandidateAssumption`: nothing is neither a state nor the identity of a
revision.  `CandidateInv` says of each candidate what its reviews, in order, have earned
it (`Earned`), and not only of the verified ones: a candidate that was never disputed has
one supporting review when it is observed and two of different origins when it is
confirmed, which is all a verification can rest on; every review is of the revision the
candidate has, because a revision is set before the first review; and the review after a
dispute names evidence for this candidate.  `NextReview` is the step: one more review
that `Warranted` lets pass.  `Lineage` needs that a candidate with a successor is the
superseded one: then neither end of a new link had one, and no other link changes.  The
evidence of a review may have changed since it was looked up; the invariant needs only
that it was looked up.

**Snapshot store.**  `SnapshotAssumption`: finitely many snapshots, and the marks
for a missing and a malformed manifest are no manifests.  A power loss may leave
each name in any of several states (`disk`), so `ManifestIsDurable` speaks of all of
them at once.  `StoreInv` follows the publisher from the candidate to the sync of
the directory: what it has installed is the file it wrote (`HolderInstalled`), what
it has committed is durable (`HolderCommitted`), and every manifest that may survive
leads to durable files (`ManifestsLead`).  `ReaderInv` says where an evaluation is
and what is left to it.  As long as no publication has passed it, it sees what is
current and cannot miss it (`Undisturbed`).  One that was passed re-reads the
manifest and falls back to the last known good it names, and cleanup keeps that one
through the next publication, as a reference of the manifest or of its rollback copy
(`FallbackLasts`).  Three is the exact number: with `MaxOvertakes = 4` TLC finds a
reader that three publications leave without anything.  To readers that overlap
damage, or a first publication whose manifest is taken back, nothing is promised.

**Shared knowledge.**  `KnowledgeAssumption` is the schema of a document, with
`assertCanonicalV3Applicability` (`schema.ts:245-269`: a directive applies to the tool
of its own call, or to any) and the parser's two effects, and says that the special
values are no documents or generations.  `EnforcementIsEarned` is a statement about
the compiler and the gate, proved for any generations: the rule the gate chooses is
one of the compiled rules, a compiled rule that conflicts comes from an
authoritative entry, and those are the documents of the trusted commit; what makes
it true of states is that a process remembers which commit it compiled
(`KnowledgeTypesHold`).  For `PromotionsAreKept` the invariant `PromotionInv` says
who holds the lock (`Locking`) and what a process relies on at each step of a
publication (`Safe`): the generation it stages keeps the promotions of all other
identities, the private copy keeps all promotions from the moment the working tree
may be taken apart, and the copy is taken apart only while the tree is whole.
`AtMostTwo` enters once, in `TakeOverLocking`: `TakeOver` moves away whatever lock
there is by now, and with two processes the other one is dead.  With three it is
false, as section 6 says.

**Runtime service.**  `ServiceAssumption`: a `None` that is no target, number or
snapshot, a positive capacity and threshold.  `ServiceInv` relates each cached
runtime to the store of its target: the pin of a runtime is not newer than what
the store holds, and as long as nothing was damaged a store's current snapshot
is at least as new as this process's last publication, and its fallback too
unless the current one *is* that publication.  So a runtime that falls back because its pin was
overtaken falls back to something new enough; that is the case a test would not
reach, and the reason the invariant speaks of pins at all.  After damage only the
targets are promised.

**Alignment.**  `AlignmentAssumption`: a `None` that is no process, and numbers for
the configurations.  That one process at a time is at work follows from the lock
(`Working`).  For `EditsSurvive` the invariant remembers what a process has looked
at: the file it is about to rename is as planned, and a file it is about to restore
is as the plan has it before or after, unless either was edited since (`LooksAt`);
since a plan changes only the program's part of a file, what people wrote can be
replaced only in that window.  `ApplicationsResume` is not inductive, because it
speaks of processes that have died: it needs where each undisturbed application is
(`ApplyingAt`), that is which files are as before and which as after, under a journal
that says *publishing*.  A death at any step then leaves what an application of
the same plan accepts.  For rollbacks the same invariant fails, as section 6 says.

**Overrides.**  `AuditAssumption`: finitely many rules, and older tables that keep the
CHECK constraints of the table (`override-store.ts:46-59`).  The tables derived from the
audit are a function of its rows (`TablesOf`), and every way of filling them arrives
there: `TablesStep` says it of one more row, and uses that a set that grows at its end
keeps its second member (`SecondGrows`), which is why `qualifyRule` may stop at the first
qualification it finds.  For the migration, a recursive function over the rows, the
argument is by the first row after which the replay would be wrong (`ReplayIsExact`).
The invariant of a reader (`PagesFit`) says at each query that the page holds the due
rules up to the cursor, each once and with its entry, and that the rule being read is the
next one.  What is due, and every entry, depends only on the rows up to the high-water
mark, though the queries read tables that have grown since (`Queries`, `PagesKeep`).

**Decisions and reviews.**  The pure modules have no state, so these theorems are about
their operators.  `OverridesStayNarrow`: the explanations that an override for a rule
leaves are those of the snapshot without the rule (`Matches` looks at each rule by
itself), so the strongest of them is the same, whatever that is.  `OnlyPaddingLosesReviews`:
of the two refusals of `createReviewProposals` only that of an identity with blanks, of
a finding or event that an improvement names, is ever met.  Two candidates of one
identity it never finds: an identity names its group (`ClassOfOne`, `ProjectClass`),
and an improvement with the identity of a lesson is dropped.  `ReviewsStayCorroborated` starts
from a finite set of accepted findings; that the accepted ones are those of the reviewers
that broke no rule, in any order, is a selection from a sequence and stays with the runs.

Model-checked only: the writer lock, the detectors' pages, profiles, reports, windows
and the order in which reviewers answer.  Two recursive functions are proved about, the
replay of the audit and the progress of a bundle: what is needed of them is one statement
per number, so the argument is by the least number for which it fails.  The detectors,
windows, profiles and reports fold over sequences with an operator, and what such a fold
computes for every input needs induction over data, with theorems that the installed
provers cannot instantiate.  `LateCallsAreHarmless` runs the spool and the drain, whose
theorems are stated above, with callers that are late and consumers that overrun.
`HolderKeepsLock` holds for three writers and not for four, so that there is nothing
to prove for every number of them.  Liveness under
fairness is beyond the provers in any case.

## 6. Where documents and code differ

Shown by a run:

* **A wake-up can be lost** (`lost_wakeup`).  A consumer that outlives its lock
  reads that a request is missing, another consumer stores the request and
  releases its dependants, and then the first parks the result.  Nothing releases
  it again, although the recovery-coverage design says that the later arrival of
  the request enables a new generation.
* **A repair can be missed** (`detection_pages`).  Two commands of one intent
  overlap, and the second is answered on an earlier page than the first, which
  failed: the checkpoint has dropped it, and the repair a single page would show
  is not found.
* **A relation can be missed** (`detection_growing`).  `relationCursor` is an index
  into the lookups of a page that is read again for each portion; evidence
  committed meanwhile moves them.
* **A rollback cannot go on** (`alignment_rollback`).  A rollback of an applied plan
  writes its journal last; if it dies between two files, neither the rollback nor
  an application of the same plan accepts what it left.  A new plan can be made
  from the mixture.

In the models, without a run of their own:

* A stale recovery plan can have effects before it is refused
  (`RefusedBeforeAnyEffect`, `recovery.ts:119`): it is checked in one transaction
  and applied in others.
* A launch can be lost (`LaunchIsNotLost`, `worker.ts:120`).  The coordinator looks
  at the queue for the last time in one transaction and releases its lease in
  another; the coordinator launched for a job that arrives in between finds the
  lease held and exits, and so does the first.  The job waits for the next
  consumer, although the worker design says that a coordinator stays while work is
  pending.
* A living writer can lose its lock when four processes meet
  (`runtime-snapshot-store.ts:575`).  Two reclaim the lock of a dead writer at
  once, because the second passes over the claim of the first when that is renamed
  between the listing (634) and the look (641); a third that had looked before the
  dead one took the lock moves its candidate into place between the two removals.
  The test of `runtime-snapshot.test.ts:514` says that "identity-safe stale reclaim
  never removes a replacement live lock"; `WriterLock` with `Procs = {1, 2, 3, 4}`,
  `MaxCrashes = 1`, `MaxRounds = 1` and `MaxPauses = 0` violates `HolderKeepsLock` in
  35 states.  What is claimed and run is the lock of up to three writers.
* A refused admission is not counted on the path every hook takes: `spool.ts:268`
  updates `failed_admission` inside the transaction that line 219 rolls back
  (`RefuseAdmission` keeps `failed` and the true total `refused` apart).
* A recovery plan inserts a quarantined payload into a full spool:
  `recovery.ts:130` has no capacity check, and neither has `Recover`.
* A writer that dies between the two system calls that remove its lock
  (`UnlinkOwner`, `RemoveLock`) leaves a directory without an owner file.  It is
  never recovered: `#recoverStaleWriterLock` needs an owner to call dead.
* `PagesAreAccepted` fails when the 128 pending events of a checkpoint split a
  failed request from its result: the orphan is derived again without its decision
  key, conflicts with what was stored, and the session's analysis is quarantined.
  A page cut inside one annotation file with a forward relation is refused too.
* Without the `episodeEvidence` option, which only tests supply, captured and
  annotated decisions never share a key, so every closed task is a gap and every
  correction unresolved.
* The lock of the shared knowledge excludes two processes and not three: a stale
  lock is removed by name.  A process that dies while it removes the old directory
  leaves a tree that every later read and write refuses, although the recovery copy
  is whole; a directory that people delete is restored; an edit between reading and
  the fingerprint is replaced.
* Re-importing an annotation file after its enqueue was lost does not enqueue it:
  only reconciliation or a later capture does.  A result of an operation begun
  before the session's end is refused on the resumed run.
* A result older than the latest transition of the knowledge it is evidence for is
  refused on every retry.  A replay of a candidate capture after its observation
  expired is refused.  An import with two contradictions makes no proposal.
* A candidate that was disputed and revalidated skips the requirement of two
  origins.  A convention that is backfilled before its instruction evidence is
  stored has an identity without a key for good.
* A file or usage snapshot that is delivered twice under one content is accepted
  and added twice in delta mode (`reconstructor.ts:297-306`), against M5-A1 and M5-A4
  of the session-evidence design; of cumulative usage only the last snapshot counts,
  and a field it omits is lost.
* One reviewer can lose the whole review.  An identity with blanks around it, of a
  finding or of an event, passes `isProjectReviewFinding` and makes
  `createReviewProposals` throw (`proposals.ts:111-120`, called without a handler at
  `review-service.ts:124`): what the others found is lost with it, although the
  project-review design says that "other independent reviewers may still complete"
  (`2026-08-31-milestone-3-project-improvement-review-design.md:38`).  In `Review` this
  is `None`, and `ReviewsAreGrounded` says that it happens for no other reason.
* A reader of snapshots that pinned a withdrawn commit without a last known good
  gets nothing; candidate files a crash leaves are never removed.
* An edit between the look at a managed file and the rename that replaces it is
  lost (`EditsSurvive` excepts it).

## 7. Not modelled

* **Capture adapters, normalization, privacy, host and repository identification**:
  stateless translation and sanitizing of host payloads; what they decide is the
  input of `CaptureDrain` and `SessionEvidence`.
* **Command line, skill, debrief, benchmarks**: argument parsing, rendering and an
  experiment harness.  The application service is a facade over the stores.
* Receipts, delay diagnostics and status queries, which no guard reads; schema
  creation and column upgrades, except the migrations named above; repository
  registration and listing pages of the experience store.
* The grammar of shared documents (`shared-knowledge/schema.ts`): whole or broken.
  Unused code: the v1 writer `storage/repository-knowledge.ts`, `expireUnprotected`
  and `createCaptureService`; `OverrideStore` is used only by tests, and modelled.
* Episodes derived from convention files, which every page derives again; the two
  claims of different producers, paired only while the checkpoint keeps the older.
* In alignment, the checks of artifact and writer contract before anything is
  written, and symbolic links.  In reports, transport measurements and the coverage
  classes a source declares.  In reviews, a reviewer listed twice in a profile and a
  window of no records.
