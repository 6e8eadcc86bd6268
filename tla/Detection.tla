---------------------------- MODULE Detection ----------------------------
(***************************************************************************)
(* How one session's evidence becomes episodes: the analysis reads it in   *)
(* pages, as far as was committed when a job was claimed, and hands every  *)
(* page to the detectors together with a checkpoint (commands that wait    *)
(* for a result or a replacement, and the latest annotations) and with the *)
(* older annotations the page refers to, which are looked up in portions:  *)
(* while portions remain the page is read again.  A page and its           *)
(* acknowledgement are one step here; AnalysisJobs and AnalysisWorkers     *)
(* model how they fail and who may take them.                              *)
(***************************************************************************)
EXTENDS Integers, Sequences, FiniteSets, SequencesExt

CONSTANTS
    Logs,           \* what a session may hold: sequences of transactions, each a sequence of entries
    PageLimit,      \* entries of a page (1024)
    LookbackLimit,  \* older annotations looked up for one acknowledgement (128)
    PendingLimit,   \* events a checkpoint carries (128)
    TypedLimit,     \* annotations a checkpoint carries (128)
    Growing,        \* may evidence be committed while a page's lookups continue?
    None

\* Ids, times, producers, decisions and scopes are numbers, in the order they sort in.
Request(id, at, intent, command) ==
    [kind |-> "request", id |-> id, at |-> at, intent |-> intent, command |-> command]
Result(id, at, related, outcome) ==
    [kind |-> "result", id |-> id, at |-> at, related |-> related, outcome |-> outcome]
Annotation(kind, state, id, producer, decision, scope, operation, relates) ==
    [kind |-> kind, state |-> state, id |-> id, producer |-> producer, decision |-> decision,
     scope |-> scope, operation |-> operation, relates |-> relates]
Repository == 0     \* the scope of what is captured
IsAnnotation(e) == e.kind \notin {"request", "result"}

VARIABLES
    log,        \* the session's evidence, committed or not
    committed,  \* how many of its transactions are committed
    processed,  \* processedHighWater: the ordinal up to which it was analysed
    pending,    \* the checkpoint's pendingEvents
    typed,      \* the checkpoint's typedEvidence, oldest first
    relation,   \* the checkpoint's relationCursor, or None
    claim,      \* the checkpoint's claimCursor, 0 where there is none
    retained,   \* the episode evidence stored, which is immutable
    found       \* the episodes stored

vars == <<log, committed, processed, pending, typed, relation, claim, retained, found>>

NoEpisodes == [repairs |-> {}, corrections |-> {}, gaps |-> {}, acceptances |-> {}]
DetectionInit ==
    /\ log \in Logs
    /\ committed = 0 /\ processed = 0
    /\ pending = {} /\ typed = <<>> /\ relation = None /\ claim = 0
    /\ retained = {} /\ found = NoEpisodes

Entries == FlattenSeq(SubSeq(log, 1, committed))

---------------------------------------------------------------------------
(* Repairs: a failed command, and the first later command with a result that  *)
(* has the same intent and another text.                                     *)

Requests(events) == {e \in events : e.kind = "request"}
ResultsOf(events, request) == {e \in events : e.kind = "result" /\ e.related = request.id}
Earliest(events) == CHOOSE e \in events : \A f \in events : e.at <= f.at
Latest(events) == CHOOSE e \in events : \A f \in events : f.at <= e.at
HasResult(events, request) == ResultsOf(events, request) # {}
Failed(events, request) ==
    HasResult(events, request) /\ Latest(ResultsOf(events, request)).outcome = "failed"

Replaces(later, request) ==
    /\ later.at > request.at
    /\ later.intent = request.intent /\ request.intent # None
    /\ later.command # request.command
Replacements(events, request) ==
    {r \in Requests(events) : HasResult(events, r) /\ Replaces(r, request)}
Repaired(events, request) == Failed(events, request) /\ Replacements(events, request) # {}
Repairs(events) ==
    { <<q, Earliest(Replacements(events, q))>> : q \in {r \in Requests(events) : Repaired(events, r)} }

\* What the next page may still complete, and the part of it that is carried on.
PendingWithoutFailures(events) ==       \* a mutant: only the unanswered commands
    {q \in Requests(events) : ~HasResult(events, q)}
PendingEvents(events) ==
    {q \in Requests(events) : ~HasResult(events, q)} \cup
    UNION { {q, Latest(ResultsOf(events, q))} :
              q \in {r \in Requests(events) : Failed(events, r) /\ ~Repaired(events, r)} }
Carried(events) == {e \in events : Cardinality({f \in events : f.at > e.at}) < PendingLimit}

---------------------------------------------------------------------------
(* Typed evidence: what commands and annotations say of decisions.           *)

\* A captured command decides what its text says; a result belongs to the
\* decision of its command where that is among the events.
CapturedEvidence(events) ==
    { IF e.kind = "request"
      THEN [kind |-> "request", state |-> "observed", id |-> e.id, producer |-> None,
            decision |-> <<e.intent, e.command>>, scope |-> Repository, relates |-> {e.id}]
      ELSE LET of == {q \in Requests(events) : q.id = e.related} IN
           [kind |-> "result", state |-> e.outcome, id |-> e.id, producer |-> None,
            decision |-> IF of = {} THEN <<>> ELSE <<(CHOOSE q \in of : TRUE).intent, (CHOOSE q \in of : TRUE).command>>,
            scope |-> IF of = {} THEN None ELSE Repository, relates |-> {e.related}] : e \in events }
AnnotationEvidence(a) ==
    [kind |-> a.kind, state |-> a.state, id |-> a.id, producer |-> a.producer,
     decision |-> <<a.decision>>, scope |-> a.scope, relates |-> a.relates \cup {a.operation}]

IsDecision(t) == t.kind \in {"request", "agent-claim", "user-instruction"}
Originals(evidence, changed) ==
    {o \in evidence : IsDecision(o) /\ o.id \in changed.relates /\ o.id # changed.id /\ o.decision = changed.decision}
\* Every annotation gives a reason, a result an outcome; both must have the scope.
Related(evidence, changed) ==
    {t \in evidence : changed.id \in t.relates /\ (t.producer # None \/ t.kind = "result")}
Corrections(evidence) ==
    { <<o.id, c.id>> : <<o, c>> \in
        { p \in evidence \X evidence :
            /\ IsDecision(p[2]) /\ p[1] \in Originals(evidence, p[2])
            /\ p[1].scope = p[2].scope
            /\ \A t \in Related(evidence, p[2]) : t.scope = p[2].scope } }

\* A closed task is verified by its work's result, the command that checks it,
\* the check's result and a verification that succeeded, each linked to the last.
FirstOf(evidence) == IF evidence = {} THEN None ELSE CHOOSE t \in evidence : \A u \in evidence : t.id <= u.id
LinkedTo(evidence, closure, of, kind) ==
    IF of = None THEN {}
    ELSE {t \in evidence : /\ t.kind = kind /\ of.id \in t.relates
                           /\ t.decision = closure.decision /\ t.scope = closure.scope}
Verified(evidence, closure) ==
    LET work == FirstOf({t \in evidence : /\ t.kind = "result" /\ t.id \in closure.relates
                                          /\ t.decision = closure.decision /\ t.scope = closure.scope})
        check == FirstOf(LinkedTo(evidence, closure, work, "request"))
        result == FirstOf({t \in LinkedTo(evidence, closure, check, "result") : t # work})
    IN  \E t \in LinkedTo(evidence, closure, result, "task-verification") : t.state = "succeeded"
Gaps(evidence) ==
    {t.id : t \in {c \in evidence : c.kind = "task-transition" /\ c.state = "closed" /\ ~Verified(evidence, c)}}

Claims(evidence) == {t \in evidence : t.kind = "agent-claim" /\ t.state = "succeeded"}
SameClaim(a, b) == a.decision = b.decision /\ a.scope = b.scope
Acceptances(evidence, current) ==
    { {a.id, b.id} : <<a, b>> \in
        { p \in Claims(evidence) \X Claims(evidence) :
            p[1].id # p[2].id /\ SameClaim(p[1], p[2]) /\ {p[1].id, p[2].id} \cap current # {} } }

---------------------------------------------------------------------------
(* loadRelatedAnnotationPage(): the older annotations a page's own refer to, *)
(* by identity, and the older claims like one of its claims.                 *)

ClaimLookup(a) == <<0, a.producer, a.decision, a.scope>>
IdentityLookups(a) == { <<1, a.producer, r, 0>> : r \in a.relates }
Lookups(annotations) ==
    UNION { IdentityLookups(a) \cup (IF a.kind = "agent-claim" /\ a.state = "succeeded" THEN {ClaimLookup(a)} ELSE {}) :
              a \in annotations }
Before(k, l) == \E i \in 1 .. 4 : k[i] < l[i] /\ \A j \in 1 .. i - 1 : k[j] = l[j]
Ordered(lookups) == SetToSortSeq(lookups, Before)

\* loadIndexedAnnotationByIdentity() and loadPriorScopedClaimsPage(): ordinals of
\* annotations that were analysed before this page.
Matches(lookup, e) ==
    /\ IsAnnotation(e) /\ e.producer = lookup[2]
    /\ IF lookup[1] = 1 THEN e.id = lookup[3]
       ELSE e.kind = "agent-claim" /\ e.decision = lookup[3] /\ e.scope = lookup[4]
Prior(lookup, after) == {n \in after + 1 .. processed : Matches(lookup, Entries[n])}
LowestOf(ordinals, k) == {n \in ordinals : Cardinality({m \in ordinals : m < n}) < k}
Largest(ordinals) == CHOOSE n \in ordinals : \A m \in ordinals : m <= n

RECURSIVE LookedUp(_, _, _, _)
LookedUp(lookups, index, remaining, after) ==
    IF index > Len(lookups) THEN [ordinals |-> <<>>, relation |-> None, claim |-> 0]
    ELSE IF remaining <= 0 THEN [ordinals |-> <<>>, relation |-> index, claim |-> 0]
    ELSE LET isClaim == lookups[index][1] = 0
             page == LowestOf(Prior(lookups[index], IF isClaim THEN after ELSE 0), remaining)
             cost == IF isClaim /\ page # {} THEN Cardinality(page) ELSE 1
             rest == LookedUp(lookups, index + 1, remaining - cost, 0)
             here == SetToSortSeq(page, LAMBDA m, n : m < n)
         IN  IF isClaim /\ Cardinality(page) = remaining
             THEN [ordinals |-> here, relation |-> index, claim |-> Largest(page)]
             ELSE [rest EXCEPT !.ordinals = here \o @]

---------------------------------------------------------------------------
(* OperationalLearningService.runNext() on one page.                         *)

PageEnd == IF Len(Entries) - processed > PageLimit THEN processed + PageLimit ELSE Len(Entries)
Page == SubSeq(Entries, processed + 1, PageEnd)
PageEvents == {e \in ToSet(Page) : ~IsAnnotation(e)}
PageAnnotations == SelectSeq(Page, IsAnnotation)
Portion ==
    LookedUp(Ordered(Lookups(ToSet(PageAnnotations))), IF relation = None THEN 1 ELSE relation, LookbackLimit, claim)
Older == [i \in DOMAIN Portion.ordinals |-> Entries[Portion.ordinals[i]]]

Events == pending \cup PageEvents
Annotations == typed \o PageAnnotations \o Older
EpisodeEvidence == CapturedEvidence(Events) \cup {AnnotationEvidence(a) : a \in ToSet(Annotations)}

\* validateResult(): what evidence refers to is stored or comes with it, and an
\* identity keeps the content it was stored with.
Acceptable(evidence) ==
    /\ \A t \in evidence : t.relates \subseteq {u.id : u \in evidence \cup retained}
    /\ \A t \in evidence, u \in retained : t.id = u.id => t = u

WithEpisodes(evidence) ==
    [repairs |-> found.repairs \cup Repairs(Events),
     corrections |-> found.corrections \cup Corrections(evidence),
     gaps |-> found.gaps \cup Gaps(evidence),
     acceptances |-> found.acceptances \cup Acceptances(evidence, {a.id : a \in ToSet(PageAnnotations)})]

\* The checkpoint keeps the latest annotations, each where it came in first.
FirstOnly(s) == LET at(i) == \A j \in 1 .. i - 1 : s[j] # s[i] IN
    [i \in 1 .. Cardinality(ToSet(s)) |->
        s[CHOOSE n \in DOMAIN s : at(n) /\ Cardinality({m \in 1 .. n : at(m)}) = i]]
LastOf(s, k) == IF Len(s) > k THEN SubSeq(s, Len(s) - k + 1, Len(s)) ELSE s

SkipsRest(portion) == FALSE             \* a mutant: one portion is all that is looked up
Continues(portion) == portion.relation # None
RunPage ==
    /\ processed < Len(Entries)
    /\ Acceptable(EpisodeEvidence)
    /\ retained' = retained \cup EpisodeEvidence
    /\ found' = WithEpisodes(EpisodeEvidence)
    /\ typed' = LastOf(FirstOnly(Annotations), TypedLimit)
    /\ IF Continues(Portion)
       THEN relation' = Portion.relation /\ claim' = Portion.claim /\ UNCHANGED <<processed, pending>>
       ELSE relation' = None /\ claim' = 0 /\ processed' = PageEnd /\ pending' = Carried(PendingEvents(Events))
    /\ UNCHANGED <<log, committed>>

\* The session goes on: the next job reaches as far as is committed then.
Commit ==
    /\ committed < Len(log) /\ committed' = committed + 1
    /\ Growing \/ relation = None
    /\ UNCHANGED <<log, processed, pending, typed, relation, claim, retained, found>>

DetectionNext == RunPage \/ Commit
DetectionSpec == DetectionInit /\ [][DetectionNext]_vars

---------------------------------------------------------------------------

Read == ToSet(SubSeq(Entries, 1, processed))
EventsRead == {e \in Read : ~IsAnnotation(e)}
AnnotationsRead == {AnnotationEvidence(e) : e \in {x \in Read : IsAnnotation(x)}}

(* A page of committed evidence is never refused: what its evidence refers to
   is there, and what is derived again is as it was stored. *)
PagesAreAccepted == processed < Len(Entries) => Acceptable(EpisodeEvidence)

(* Wherever the pages and the portions of a lookup fall, every pair of equal
   claims of one producer is found, every correction of an earlier decision and
   every closed task, once they have been read: nothing older is out of reach. *)
RelationsSurvivePages ==
    /\ { {a.id, b.id} : <<a, b>> \in
            { p \in Claims(AnnotationsRead) \X Claims(AnnotationsRead) :
                p[1].id # p[2].id /\ SameClaim(p[1], p[2]) /\ p[1].producer = p[2].producer } }
       \subseteq found.acceptances
    /\ Corrections(AnnotationsRead) \subseteq found.corrections
    /\ Gaps(AnnotationsRead) \subseteq found.gaps

(* A repair is a failed command and a later one of the same intent, each failed
   command in one repair at most; and a command that was run again at once is
   found, wherever the pages fall. *)
RepairsAreReal ==
    /\ \A r \in found.repairs :
          Failed(ToSet(Entries), r[1]) /\ r[2] \in Replacements(ToSet(Entries), r[1])
    /\ \A r, s \in found.repairs : r[1] = s[1] => r = s
    /\ \A n \in 1 .. processed - 3 :
          LET q == Entries[n]
              next == Entries[n + 2]
          IN  /\ q.kind = "request" /\ next.kind = "request" /\ Replaces(next, q)
              /\ Entries[n + 1] \in ResultsOf(EventsRead, q) /\ Entries[n + 1].outcome = "failed"
              /\ Entries[n + 3] \in ResultsOf(EventsRead, next)
              => \E r \in found.repairs : r[1] = q

(* An analysis in pages finds the repairs that one page of everything finds. *)
RepairsSurvivePages == {r[1] : r \in Repairs(EventsRead)} \subseteq {r[1] : r \in found.repairs}
=============================================================================
