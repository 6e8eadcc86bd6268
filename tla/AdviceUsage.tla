------------------------------ MODULE AdviceUsage ------------------------------
(***************************************************************************)
(* The use of advice: a verified lesson is retrieved for an operation, and *)
(* what becomes of it is recorded as facts about that bundle: delivered,   *)
(* selected, applied, its outcome.  A fact is checked against the captured *)
(* evidence first and recorded in a transaction of its own afterwards;     *)
(* meanwhile the lesson, the configuration and the sessions go on.  A host *)
(* that watches its own child's output records the delivery itself.        *)
(***************************************************************************)
EXTENDS Undefined, Naturals, SequencesExt

CONSTANTS
    Lessons,        \* verified lessons, each in one revision, that fit the context asked for
    FactLessons,    \* those whose context is a file of the repository (package-json)
    Operations,     \* operations of the session
    Fitting,        \* those with the signature advice was retrieved for
    References,     \* what a claim of the agent refers to
    Watched,        \* the lesson whose bundle a host's child is to deliver
    MaxFacts,       \* a bound on the facts of a bundle
    MaxChanges,     \* on the changes of configuration, lessons and files
    MaxClock        \* and on the clock

ASSUME AdviceAssumption ==
    /\ None \notin Nat /\ Watched \in Lessons
    /\ {MaxFacts, MaxChanges, MaxClock} \subseteq Nat

VARIABLES
    enabled,        \* advice_configuration
    verified,       \* the lessons listVerifiedLocalEntries() returns now
    unchanged,      \* the file lessons whose file is still as it was verified
    bundles,        \* lesson: None, or when it was first retrieved
    facts,          \* lesson: the facts about its bundle, in order
    started,        \* operation: None, or when it began
    succeeded,      \* operations with a successful result
    annotated,      \* operations declared to verify the task
    selection,      \* retrieveLocalAdvice: the entries selected, or None
    checked,        \* recordLocalAdviceUsage: the fact whose checks passed, or None
    host,           \* how far the host has followed its child's output
    changes,        \* how often configuration, lessons and files changed
    clock

store == <<bundles, facts>>
environment == <<enabled, verified, unchanged, started, succeeded, annotated, changes, clock>>
adviceVars == <<store, environment, selection, checked, host>>

AdviceInit ==
    /\ enabled \in BOOLEAN /\ verified \in SUBSET Lessons /\ unchanged = FactLessons
    /\ bundles = [l \in Lessons |-> None] /\ facts = [l \in Lessons |-> <<>>]
    /\ started = [o \in Operations |-> None] /\ succeeded = {} /\ annotated = {}
    /\ selection = None /\ checked = None /\ host = "new" /\ changes = 0 /\ clock = 1

Fact(kind, origin, ref) == [kind |-> kind, origin |-> origin, ref |-> ref, at |-> clock]
\* INSERT OR IGNORE: a fact is recorded once, a retrieval once for a bundle.
Told(l, f) ==
    \E g \in ToSet(facts[l]) :
        /\ g.kind = f.kind
        /\ f.kind # "retrieved" => g.origin = f.origin /\ g.ref = f.ref
WithFact(l, f) == IF Told(l, f) THEN facts ELSE [facts EXCEPT ![l] = Append(@, f)]

---------------------------------------------------------------------------
(* retrieveLocalAdvice(): the configuration and the verified entries are read,*)
(* and for each selected entry the configuration again.                       *)

Select ==
    /\ selection = None /\ enabled
    /\ selection' = verified
    /\ UNCHANGED <<store, environment, checked, host>>

Retrieve ==
    /\ selection # None /\ selection # {}
    /\ \E l \in selection :
          IF enabled
          THEN /\ bundles' = [bundles EXCEPT ![l] = IF @ = None THEN clock ELSE @]
               /\ facts' = WithFact(l, Fact("retrieved", "cli-retrieval", None))
               /\ selection' = selection \ {l}
          ELSE selection' = None /\ UNCHANGED store
    /\ UNCHANGED <<environment, checked, host>>
\* All of them recorded, or too late, or an error: an empty answer.
Answer ==
    /\ selection # None /\ selection' = None
    /\ UNCHANGED <<store, environment, checked, host>>

---------------------------------------------------------------------------
(* qualifiedProgress(): how far the facts lead, each stage after the last.    *)

NoProgress == [stage |-> 0, selectedAt |-> None, applied |-> {}]
Advanced(p, f) ==
    CASE p.stage = 0 /\ f.kind = "retrieved" -> [p EXCEPT !.stage = 1]
      [] p.stage = 1 /\ f.kind = "delivered" -> [p EXCEPT !.stage = 2]
      [] p.stage = 2 /\ f.kind = "selected" -> [p EXCEPT !.stage = 3, !.selectedAt = f.at]
      [] p.stage >= 3 /\ f.kind = "applied" -> [p EXCEPT !.stage = 4, !.applied = @ \cup {f.ref}]
      [] OTHER -> p
Progress(fs) ==
    LET at[i \in 0 .. Len(fs)] == IF i = 0 THEN NoProgress ELSE Advanced(at[i - 1], fs[i])
    IN  at[Len(fs)]

Required(kind) ==
    CASE kind = "selected" -> 2 [] kind = "applied" -> 3 [] kind = "outcome-observed" -> 4 [] OTHER -> 1

\* #recordFact(): the stage is asked in the transaction.
MayRecord(l, f) ==
    /\ bundles[l] # None
    /\ Progress(facts[l]).stage >= Required(f.kind)
Records(l, f) ==
    /\ MayRecord(l, f) /\ Len(facts[l]) < MaxFacts
    /\ facts' = WithFact(l, f)
    /\ UNCHANGED bundles

---------------------------------------------------------------------------
(* recordLocalAdviceUsage(): what each kind of fact is checked against.       *)

\* verifyApplied(): an operation of the signature, begun after the selection.
BegunAfterRetrieval(l, o) == started[o] > bundles[l]  \* a mutant: the selection is not asked
BegunAfterUse(l, o) ==
    LET p == Progress(facts[l]) IN
    p.selectedAt # None /\ started[o] > bundles[l] /\ started[o] > p.selectedAt
VerifiesApplied(l, o) ==
    /\ o \in Fitting /\ bundles[l] # None /\ started[o] # None
    /\ BegunAfterUse(l, o)
\* verifyOutcome(): the annotation of an applied operation that succeeded, and the
\* lesson's file as it was.
VerifiesOutcome(l, o) ==
    /\ o \in Progress(facts[l]).applied
    /\ o \in succeeded \cap annotated
    /\ l \in FactLessons => l \in unchanged

\* "rejected" stands for "expired" too, which is recorded alike.
Claims == {"delivered", "selected", "rejected"}
Origin(kind) ==
    CASE kind = "delivered" -> "agent-claim" [] kind = "applied" -> "operation-evidence"
      [] kind = "outcome-observed" -> "verification-evidence" [] OTHER -> "agent-selection"
Passes(l, kind, ref) ==
    /\ bundles[l] # None
    /\ kind = "delivered" => enabled
    /\ kind = "applied" => VerifiesApplied(l, ref)
    /\ kind = "outcome-observed" => VerifiesOutcome(l, ref)
Check(l, kind, ref) ==
    /\ checked = None /\ Passes(l, kind, ref)
    /\ checked' = [lesson |-> l, kind |-> kind, ref |-> ref]
    /\ UNCHANGED <<store, environment, selection, host>>
Record ==
    /\ checked # None /\ checked' = None
    /\ LET f == Fact(checked.kind, Origin(checked.kind), checked.ref) IN
       IF MayRecord(checked.lesson, f) THEN Records(checked.lesson, f) ELSE UNCHANGED store
    /\ UNCHANGED <<environment, selection, host>>

\* recordObservedDeterministicOutcome(): a check bound to an operation of the
\* stream that succeeded.
RecordDeterministicOutcome(l, o) ==
    /\ o \in Fitting \cap succeeded /\ o \in Progress(facts[l]).applied
    /\ Records(l, Fact("outcome-observed", "deterministic-check", o))
    /\ UNCHANGED <<environment, selection, checked, host>>

---------------------------------------------------------------------------
(* attachCodexAdviceExposure(): the child must echo the challenge its own     *)
(* retrieval of the bundle returned.                                          *)

Followed(event) ==
    IF host = "new" THEN (IF event = "thread" THEN "thread" ELSE "invalid")
    ELSE CASE event = "retrieval started" -> IF host = "thread" THEN "retrieving" ELSE host
           [] event = "retrieval completed" -> IF host = "retrieving" THEN "marked" ELSE host
           [] event = "retrieval failed" -> IF host = "retrieving" THEN "invalid" ELSE host
           [] event = "echo started" -> IF host = "marked" THEN "echoing" ELSE host
           [] event = "echo completed" -> IF host = "echoing" THEN "echoed" ELSE host
           [] event = "echo failed" -> IF host \in {"echoing", "echoed"} THEN "invalid" ELSE host
           [] event = "turn completed" -> IF host = "echoed" THEN host ELSE "invalid"
           [] event = "thread" -> "invalid"
HostEvents == {"thread", "retrieval started", "retrieval completed", "retrieval failed",
               "echo started", "echo completed", "echo failed", "turn completed"}
\* recordDelivery(): once, as the echo is complete.
Delivers(event) == host = "echoing" /\ event = "echo completed"
ChildReports(event) ==
    /\ host # "invalid"
    /\ event = "retrieval completed" => bundles[Watched] # None
    /\ host' = Followed(event)
    /\ IF Delivers(event) /\ enabled
       THEN Records(Watched, Fact("delivered", "host-challenge", None)) ELSE UNCHANGED store
    /\ UNCHANGED <<environment, selection, checked>>

---------------------------------------------------------------------------
(* Around it.                                                                 *)

Changes ==
    /\ changes < MaxChanges /\ changes' = changes + 1
    /\ UNCHANGED <<store, started, succeeded, annotated, clock, selection, checked, host>>
Configure == Changes /\ enabled' = ~enabled /\ UNCHANGED <<verified, unchanged>>
\* A lesson is verified, or disputed or superseded.
LessonsChange(l) ==
    /\ Changes /\ UNCHANGED <<enabled, unchanged>>
    /\ verified' = IF l \in verified THEN verified \ {l} ELSE verified \cup {l}
FileChanges(l) ==
    /\ Changes /\ UNCHANGED <<enabled, verified>>
    /\ unchanged' = IF l \in unchanged THEN unchanged \ {l} ELSE unchanged \cup {l}
Begin(o) ==
    /\ started[o] = None /\ started' = [started EXCEPT ![o] = clock]
    /\ UNCHANGED <<store, enabled, verified, unchanged, succeeded, annotated, changes, clock, selection, checked, host>>
Succeed(o) ==
    /\ started[o] # None /\ succeeded' = succeeded \cup {o} /\ annotated' = annotated \cup {o}
    /\ UNCHANGED <<store, enabled, verified, unchanged, started, changes, clock, selection, checked, host>>
TimePasses ==
    /\ clock < MaxClock /\ clock' = clock + 1
    /\ UNCHANGED <<store, enabled, verified, unchanged, started, succeeded, annotated, changes, selection, checked, host>>

AdviceNext ==
    \/ Select \/ Retrieve \/ Answer \/ Record \/ Configure \/ TimePasses
    \/ \E l \in Lessons : LessonsChange(l)
    \/ \E l \in FactLessons : FileChanges(l)
    \/ \E l \in Lessons, kind \in Claims, ref \in References : Check(l, kind, ref)
    \/ \E l \in Lessons, kind \in {"applied", "outcome-observed"}, o \in Operations : Check(l, kind, o)
    \/ \E l \in Lessons, o \in Operations : RecordDeterministicOutcome(l, o)
    \/ \E event \in HostEvents : ChildReports(event)
    \/ \E o \in Operations : Begin(o) \/ Succeed(o)

AdviceSpec == AdviceInit /\ [][AdviceNext]_adviceVars

---------------------------------------------------------------------------

(* An outcome is credited to advice only for an operation that fits it, that
   succeeded and that began after the advice had been retrieved, delivered and
   selected, in this order, and is recorded as applied before the outcome is. *)
OutcomesRestOnUse ==
    \A l \in Lessons : \A n \in DOMAIN facts[l] :
        LET f == facts[l] IN
        f[n].kind = "outcome-observed" =>
           /\ f[n].ref \in Fitting \cap succeeded
           /\ \E i, j, k, m \in 1 .. n :
                 /\ i < j /\ j < k /\ k < m /\ m < n
                 /\ f[i].kind = "retrieved" /\ f[j].kind = "delivered" /\ f[k].kind = "selected"
                 /\ f[m].kind = "applied" /\ f[m].ref = f[n].ref
                 /\ started[f[n].ref] > f[i].at /\ started[f[n].ref] > f[k].at
=============================================================================
