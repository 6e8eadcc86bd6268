---------------------------- MODULE SessionEvidence ----------------------------
(***************************************************************************)
(* The evidence of one session in the experience database: the capture     *)
(* records persistPassiveCapture stores, the annotations imported beside   *)
(* them, the logical index that gives every piece of evidence one ordinal, *)
(* and the high water up to which it was admitted to the analysis, which   *)
(* reads it in pages.  Records come at least once and in any order; each   *)
(* store operation is one transaction, and the admission that follows it   *)
(* another, which may be refused or never come.                            *)
(***************************************************************************)
EXTENDS Undefined, Naturals, Sequences, FiniteSets, FiniteSetsExt, SequencesExt

CONSTANTS
    Deliveries,     \* the capture records that may arrive: Start, End and Event records;
                    \* the origin of a start or end that carries no signal is None
    OldEvents,      \* sets of events an older version stored without an index
    Operation,      \* the event every annotation is about, by its id
    Relates,        \* the annotations every annotation relates to
    Artifacts,      \* the annotation files: sequences of distinct annotations
    PageLimit,      \* entries of a page of evidence (maxEvents, at most 1024)
    BackfillLimit   \* events one opening of the database indexes (1024)

Annotations == DOMAIN Operation
Start(at, origin, clock) == [kind |-> "start", at |-> at, origin |-> origin, clock |-> clock]
End(at, origin, clock) == [kind |-> "end", at |-> at, origin |-> origin, clock |-> clock]
Event(id, phase, at, related) == [kind |-> "event", id |-> id, phase |-> phase, at |-> at, related |-> related]

VARIABLES
    session,    \* None, or when it started and when it ended (or None)
    signals,    \* the lifecycle signals recorded
    runs,       \* the runs of the conversation: how each began, whether it is open
    captured,   \* the events stored within the session
    onRun,      \* the events stored on a resumed run, each with its run
    native,     \* the index of events: ordinal, id, and which of the two tables
    aliases,    \* a second event of an indexed id, and whether it says the same
    imported,   \* every annotation: None, "pending" or "resolved"
    notes,      \* the index of annotations: ordinal and annotation
    committed,  \* the high water admitted to the analysis
    due,        \* the admissions that are to follow what was stored: of "capture", of "import"
    cursor,     \* the ordinal up to which the analysis has read
    seen,       \* the ordinals it has read
    recon       \* reconcileAnalysis: what it has counted so far

records == <<session, signals, runs, captured, onRun>>
index == <<native, aliases, notes>>
analysis == <<committed, cursor, seen>>
vars == <<records, index, imported, analysis, due, recon>>

Idle == [pc |-> "idle", physical |-> 0, indexed |-> 0, aliased |-> 0, high |-> 0]
EvidenceInit ==
    /\ captured \in OldEvents
    /\ session = IF captured = {} THEN None ELSE [start |-> 1, end |-> None]
    /\ signals = {} /\ runs = <<>> /\ onRun = {}
    /\ native = {} /\ aliases = {} /\ notes = {}
    /\ imported = [a \in Annotations |-> None]
    /\ committed = 0 /\ due = {} /\ cursor = 0 /\ seen = {}
    /\ recon = Idle

---------------------------------------------------------------------------
(* The logical index.                                                        *)

NativeHigh == Max({x.n : x \in native} \cup {0})
NotesHigh == Max({x.n : x \in notes} \cup {0})
High == Max({NativeHigh, NotesHigh})

\* Every stored event, and those the index does not know.
Stored == {[event |-> e, path |-> "legacy"] : e \in captured} \cup
          {[event |-> r.event, path |-> "run"] : r \in onRun}
Known(s) ==
    \/ \E x \in native : x.id = s.event.id /\ x.path = s.path
    \/ \E x \in aliases : x.id = s.event.id /\ x.path = s.path
Unindexed == {s \in Stored : ~Known(s)}

\* What an id of the index stands for.
EventAt(id) == (CHOOSE s \in Stored :
                   s.event.id = id /\ \E x \in native : x.id = id /\ x.path = s.path).event
IndexedId(id) == \E x \in native : x.id = id

\* indexLogicalEvent(), for events in the order they come: the next ordinals of the
\* session, once per id, and a note of whether a second event of an id says the same.
Fresh(batch) == {s \in batch : ~IndexedId(s.event.id)}
Alias(s) == [id |-> s.event.id, path |-> s.path, same |-> EventAt(s.event.id) = s.event]
Older(s, t) == s.event.at < t.event.at
Index(batch) ==
    /\ \E order \in SetToSeqs(Fresh(batch)) :
          /\ \A i, j \in DOMAIN order : i < j => ~Older(order[j], order[i])
          /\ native' = native \cup {[n |-> High + i, id |-> order[i].event.id, path |-> order[i].path]
                                    : i \in DOMAIN order}
    /\ aliases' = aliases \cup {Alias(s) : s \in {s \in batch \ Fresh(batch) : ~Known(s)}}
    /\ UNCHANGED notes

---------------------------------------------------------------------------
(* The capture records, in the order persistPassiveCapture() tries things.   *)

\* applyLifecycle() inserts the session of a startup and verifies a known one.
SessionMatches(at) == session # None => session.start = at
OpenRuns == {i \in 1 .. Len(runs) : runs[i].open}
NotBefore(clock, run) == clock # None /\ run.clock # None => clock >= run.clock

Recorded(d) ==
    /\ d \notin signals
    /\ signals' = signals \cup {d}
    /\ runs' =
        IF d.kind = "start" /\ OpenRuns = {}
        THEN Append(runs, [origin |-> d.origin, open |-> TRUE, clock |-> d.clock])
        ELSE IF d.kind = "end" /\ \E i \in OpenRuns : OpenRuns = {i} /\ NotBefore(d.clock, runs[i])
        THEN [i \in DOMAIN runs |-> [runs[i] EXCEPT !.open = FALSE]]
        ELSE runs

DeliverStart(d) ==
    /\ d.kind = "start"
    /\ IF d.origin = "resume" THEN UNCHANGED session
       ELSE /\ SessionMatches(d.at)
            /\ session' = IF session = None THEN [start |-> d.at, end |-> None] ELSE session
    /\ IF d.origin = None THEN UNCHANGED <<signals, runs>>
       ELSE Recorded(d) \/ (d \in signals /\ UNCHANGED <<signals, runs>>)
    /\ UNCHANGED <<captured, onRun, index>>

MayEndAtAll(at) == at >= session.start              \* a mutant: the events are not looked at
MayEnd(at) == at >= session.start /\ \A e \in captured : e.at <= at

\* A signal leaves an ended session as it is; endSession() refuses another end.
DeliverEnd(d) ==
    /\ d.kind = "end"
    /\ session # None
    /\ IF d.origin = None
       THEN MayEnd(d.at) /\ session.end \in {None, d.at} /\ UNCHANGED <<signals, runs>>
       ELSE /\ session.end = None => MayEnd(d.at)
            /\ Recorded(d) \/ (d \in signals /\ UNCHANGED <<signals, runs>>)
    /\ session' = [session EXCEPT !.end = IF @ = None THEN d.at ELSE @]
    /\ UNCHANGED <<captured, onRun, index>>

\* The request a result belongs to, where the result is stored.
Follows(e, r) == r.phase = "pre" /\ r.id = e.related /\ r.at <= e.at
Linked(e, events) == e.phase = "post" => \E r \in events : Follows(e, r)

\* What the records carry (capture/contracts.ts), what an older version checked before
\* it stored an event, and what the parser of artifacts has made sure of.
ASSUME EvidenceAssumption ==
    /\ \A d \in Deliveries : d.at \in Nat
    /\ \A old \in OldEvents : /\ IsFiniteSet(old)
                              /\ \A e \in old : e.at \in Nat \ {0} /\ Linked(e, old)
                              /\ \A d, e \in old : d.id = e.id => d = e
    /\ \A artifact \in Artifacts : artifact \in Seq(Annotations)
    /\ Relates \in [Annotations -> SUBSET Annotations]
    /\ PageLimit \in Nat \ {0}
    /\ None \notin Nat \cup [start : Nat, end : Nat \cup {None}] \cup {"pending", "resolved"}

AfterEnd(e) == session.end # None /\ e.at > session.end

\* appendIncremental().
AppendToSession(e) ==
    /\ ~AfterEnd(e)
    /\ \A d \in captured : d.id = e.id => d = e
    /\ Linked(e, captured)
    /\ IF e \in captured THEN UNCHANGED <<captured, index>>
       ELSE captured' = captured \cup {e} /\ Index({[event |-> e, path |-> "legacy"]})
    /\ UNCHANGED onRun

\* appendLifecycleTechnical(), once the session has ended: on the open resumed run.
AppendToRun(e) ==
    /\ AfterEnd(e)
    /\ \/ /\ \E r \in onRun : r.event = e
          /\ UNCHANGED <<onRun, index>>
       \/ /\ \A r \in onRun : r.event.id # e.id
          /\ \E i \in OpenRuns :
                /\ runs[i].origin = "resume"
                /\ Linked(e, {r.event : r \in {x \in onRun : x.run = i}})
                /\ onRun' = onRun \cup {[event |-> e, run |-> i]}
          /\ Index({[event |-> e, path |-> "run"]})
    /\ UNCHANGED captured

DeliverEvent(d) ==
    /\ d.kind = "event"
    /\ session # None /\ d.at >= session.start
    /\ AppendToSession(d) \/ AppendToRun(d)
    /\ UNCHANGED <<session, signals, runs>>

Deliver(d) ==
    /\ DeliverStart(d) \/ DeliverEnd(d) \/ DeliverEvent(d)
    /\ due' = due \cup {"capture"}
    /\ UNCHANGED <<imported, analysis, recon>>

\* backfillLogicalEvidence(), on every opening: the oldest events first.
Backfill ==
    /\ Unindexed # {}
    /\ \E batch \in {b \in SUBSET Unindexed : Cardinality(b) = Min({BackfillLimit, Cardinality(Unindexed)})} :
          /\ \A s \in batch, t \in Unindexed \ batch : ~Older(t, s)
          /\ Index(batch)
    /\ UNCHANGED <<records, imported, analysis, due, recon>>

---------------------------------------------------------------------------
(* ImportedTypedEvidenceRepository.save(): one artifact, in one transaction. *)

Members(artifact) == {artifact[i] : i \in DOMAIN artifact}
AboutRequest(a) ==
    IF IndexedId(Operation[a]) THEN EventAt(Operation[a]).phase = "pre"
    ELSE \A s \in Stored : s.event.id = Operation[a] => s.event.phase = "pre"
\* No record of the artifact reaches itself through others of it.
Acyclic(batch) == ~\E S \in SUBSET batch \ {{}} : \A a \in S : Relates[a] \cap S # {}

\* Its own operation is indexed, and what it relates to is resolved or, in the
\* same artifact, has its operation indexed.
Grounded(a, batch) ==
    /\ IndexedId(Operation[a])
    /\ \A r \in Relates[a] : IF r \in batch THEN IndexedId(Operation[r]) ELSE imported[r] = "resolved"
ResolvedDirectly(batch) == {a \in batch : Grounded(a, batch)}      \* a mutant: not propagated
Resolved(batch) ==
    UNION {S \in SUBSET {a \in batch : Grounded(a, batch)} : \A a \in S : Relates[a] \cap batch \subseteq S}

Import(artifact) ==
    LET batch == Members(artifact)
        resolved == Resolved(batch)
        fresh == {a \in resolved : ~\E x \in notes : x.a = a}
    IN  /\ session # None
        /\ \A a \in batch : AboutRequest(a)
        /\ Acyclic(batch)
        /\ imported' = [a \in Annotations |->
                          IF a \in batch THEN IF a \in resolved THEN "resolved" ELSE "pending" ELSE imported[a]]
        /\ \E order \in SetToSeqs(fresh) :
              /\ \A x, y \in DOMAIN order : x < y => \E i, j \in DOMAIN artifact :
                    i < j /\ artifact[i] = order[x] /\ artifact[j] = order[y]
              /\ notes' = notes \cup {[n |-> High + x, a |-> order[x]] : x \in DOMAIN order}
        /\ due' = IF fresh = {} THEN due ELSE due \cup {"import"}
        /\ UNCHANGED <<records, native, aliases, analysis, recon>>

---------------------------------------------------------------------------
(* The admission that follows a transaction, and the analysis.               *)

\* enqueueCommittedSession() is refused while events are unindexed; save() enqueues
\* what has an ordinal, whatever has none.
Admissible(source) == session # None /\ (source = "capture" => Unindexed = {})
\* Whoever asks does so once and ignores a refusal; one that dies before never asks.
Admit(source) ==
    /\ source \in due /\ due' = due \ {source}
    /\ committed' = IF Admissible(source) THEN Max({committed, High}) ELSE committed
    /\ UNCHANGED <<records, index, imported, cursor, seen, recon>>

\* loadLogicalEvidencePage(): PageLimit of each index, merged, and cut again.
In(entries, through) == {x.n : x \in {y \in entries : y.n > cursor /\ y.n <= through}}
First(ordinals) == {n \in ordinals : Cardinality({m \in ordinals : m < n}) < PageLimit}
PageUncut(through) == First(In(native, through)) \cup First(In(notes, through))   \* a mutant
Page(through) == First(First(In(native, through)) \cup First(In(notes, through)))

\* A run of the analysis reads one page of a range that was admitted.
AnalysePage(through) ==
    /\ Unindexed = {}
    /\ seen' = seen \cup Page(through)
    /\ cursor' = IF Page(through) = {} THEN through ELSE Max(Page(through))
    /\ UNCHANGED <<records, index, imported, committed, due, recon>>

---------------------------------------------------------------------------
(* reconcileAnalysis(): every count is a statement of its own.               *)

Reading(step) == recon.pc = step /\ UNCHANGED <<records, index, imported, analysis, due>>
CountStored ==
    /\ Reading("idle") /\ session # None
    /\ recon' = [Idle EXCEPT !.pc = "index", !.physical = Cardinality(Stored)]
CountIndexed ==
    /\ Reading("index")
    /\ recon' = [recon EXCEPT !.pc = "aliases", !.indexed = Cardinality(native), !.high = NativeHigh]
CountAliases ==
    /\ Reading("aliases")
    /\ recon' = [recon EXCEPT !.pc = "notes", !.aliased = Cardinality(aliases)]
\* Events without an index make the session unavailable.
CountNotes ==
    /\ Reading("notes")
    /\ recon' = IF recon.physical # recon.indexed + recon.aliased THEN Idle
                ELSE [recon EXCEPT !.pc = "traverse", !.indexed = @ + Cardinality(notes),
                                   !.high = Max({@, NotesHigh})]
Between(from, to) == {x.n : x \in {y \in native : y.n > from /\ y.n <= to}} \cup
                     {x.n : x \in {y \in notes : y.n > from /\ y.n <= to}}
\* So does a range whose pages do not add up.
Traverse ==
    /\ Reading("traverse")
    /\ recon' = IF Cardinality(Between(0, recon.high)) = recon.indexed THEN [recon EXCEPT !.pc = "stream"] ELSE Idle
CompareStreamLate ==    \* a mutant: one entry behind counts as up to date
    /\ Reading("stream")
    /\ recon' = IF recon.high > committed + 1 THEN [recon EXCEPT !.pc = "recheck"] ELSE Idle
CompareStream ==
    /\ Reading("stream")
    /\ recon' = IF recon.high > committed THEN [recon EXCEPT !.pc = "recheck"] ELSE Idle
Recheck ==
    /\ Reading("recheck")
    /\ recon' = IF recon.physical = Cardinality(Stored) THEN [recon EXCEPT !.pc = "renotes", !.indexed = NativeHigh]
                ELSE Idle
RecheckNotes ==
    /\ Reading("renotes")
    /\ recon' = IF Max({recon.indexed, NotesHigh}) = recon.high THEN [recon EXCEPT !.pc = "enqueue"] ELSE Idle
Enqueue ==
    /\ recon.pc = "enqueue" /\ recon' = Idle
    /\ committed' = Max({committed, recon.high})
    /\ UNCHANGED <<records, index, imported, cursor, seen, due>>
Reconcile == CountStored \/ CountIndexed \/ CountAliases \/ CountNotes \/ Traverse \/
             CompareStream \/ Recheck \/ RecheckNotes \/ Enqueue

EvidenceNext ==
    \/ \E d \in Deliveries : Deliver(d)
    \/ Backfill
    \/ \E artifact \in Artifacts : Import(artifact)
    \/ \E source \in due : Admit(source)
    \/ \E through \in cursor + 1 .. committed : AnalysePage(through)
    \/ Reconcile

EvidenceSpec == EvidenceInit /\ [][EvidenceNext]_vars

Fairness == /\ WF_vars(Backfill) /\ WF_vars(Reconcile)
            /\ WF_vars(\E through \in cursor + 1 .. committed : AnalysePage(through))
FairEvidenceSpec == EvidenceSpec /\ Fairness

---------------------------------------------------------------------------

(* Once a session has ended nothing is stored in it from after its end, and a
   later event is stored only on a resumed run; a result is stored only beside
   the request it answers. *)
ClosedSessionsStayClosed ==
    session # None =>
    /\ \A e \in captured : e.at >= session.start /\ (session.end # None => e.at <= session.end)
    /\ \A e \in captured : Linked(e, captured)
    /\ \A r \in onRun : /\ session.end # None /\ r.event.at > session.end
                        /\ runs[r.run].origin = "resume"
                        /\ Linked(r.event, {x.event : x \in {y \in onRun : y.run = r.run}})
    /\ Cardinality(OpenRuns) <= 1

(* An indexed annotation is resolved for good: its operation is a request the
   index holds before it, and all it relates to is indexed, whatever artifacts
   follow in whatever order. *)
AnnotationsAreGrounded ==
    \A x \in notes :
       /\ imported[x.a] = "resolved"
       /\ \E y \in native : y.id = Operation[x.a] /\ y.n < x.n
       /\ EventAt(Operation[x.a]).phase = "pre"
       /\ \A r \in Relates[x.a] : \E y \in notes : y.a = r

(* The pages of the analysis leave nothing out: it has read exactly the evidence
   up to its cursor, although events and annotations share the ordinals and are
   paged from two tables. *)
NothingIsSkipped ==
    /\ {x.n : x \in native} \cap {x.n : x \in notes} = {}
    /\ {x.n : x \in native} \cup {x.n : x \in notes} = 1 .. High
    /\ Cardinality(native) + Cardinality(notes) = High
    /\ seen = 1 .. cursor /\ cursor <= committed /\ committed <= High

(* Whatever was indexed is in the end read by the analysis, although every
   admission may be refused or never come: the reconciliation finds the difference. *)
IndexedIsAnalysed == []<>(cursor = High)
=============================================================================
