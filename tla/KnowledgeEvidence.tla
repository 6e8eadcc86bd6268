--------------------------- MODULE KnowledgeEvidence ---------------------------
(***************************************************************************)
(* The knowledge of the experience database and the evidence for it.  An   *)
(* import brings an entry with its evidence.  The capture service records  *)
(* which knowledge a decision enforced on an action and, when the result   *)
(* arrives, turns it into evidence for that knowledge, or into a candidate *)
(* lesson when nothing was enforced and it failed.  Evidence moves an      *)
(* entry through its lifecycle; observations nothing needs are removed.    *)
(* Each operation is one transaction: what it refuses changes nothing.     *)
(***************************************************************************)
EXTENDS KnowledgeLifecycle, FiniteSets, SequencesExt

CONSTANTS
    Knowledge,      \* identities of knowledge
    Imports,        \* the entries that may be imported: knowledge, state, evidence, and times
    Actions,        \* the actions an agent may take
    Results,        \* their results: id, action, time and outcome
    Updates,        \* evidence appended with the knowledge it is for (appendIncremental)
    MaxTime         \* the last time the retention may run

\* What validateImport and the capture contract ask of an input; the evidence a
\* result is has an id made from the result's and the knowledge's (stableId).
ResultEvidence == {<<r.id, k>> : r \in Results, k \in Knowledge}
ASSUME KnowledgeAssumption ==
    /\ \A i \in Imports :
          /\ i.k \in Knowledge /\ i.state \in States /\ {i.createdAt, i.now} \subseteq Nat
          /\ i.evidence \in Seq(ToSet(i.evidence))
          /\ \A m, n \in DOMAIN i.evidence : i.evidence[m].id = i.evidence[n].id => m = n
          /\ \A e \in ToSet(i.evidence) : e.id \notin ResultEvidence
    /\ \A u \in Updates : u.k \in Knowledge /\ u.occurredAt \in Nat /\ u.e.id \notin ResultEvidence
    /\ \A r \in Results : r.action \in Actions /\ r.occurredAt \in Nat
    /\ \A r, s \in Results : r.id = s.id => r = s
    /\ None \notin States \cup [state : States, createdAt : Nat]

Evidence(id, polarity, revalidatesTo) == [id |-> id, polarity |-> polarity, revalidatesTo |-> revalidatesTo]

VARIABLES
    entries,        \* knowledge: None, or its state and when it was created
    attached,       \* knowledge_evidence: what is attached to it, in order
    history,        \* knowledge_transition_history
    proposals,      \* the knowledge with a revalidation proposal
    snapshots,      \* of every action captured, the knowledge its decision enforced
    results,        \* the results captured
    observations,   \* those of the imports and of the failures
    tombstones      \* when an observation was found to be needed by nothing, or None

knowledgeVars == <<entries, attached, history, proposals, snapshots, results, observations, tombstones>>
lifecycle == <<entries, attached, history, proposals>>
retention == <<observations, tombstones>>

OfImport(k) == <<"import", k>>
OfFailure(r) == <<"failure", r.id>>
AllObservations == {OfImport(k) : k \in Knowledge} \cup {OfFailure(r) : r \in Results}

KnowledgeEvidenceInit ==
    /\ entries = [k \in Knowledge |-> None]
    /\ attached = [k \in Knowledge |-> <<>>]
    /\ history = [k \in Knowledge |-> <<>>]
    /\ proposals = {} /\ results = {} /\ observations = {}
    /\ snapshots = [a \in Actions |-> None]
    /\ tombstones = [o \in AllObservations |-> None]

Attached(k, e) == e \in ToSet(attached[k])
IsNew(e) == \A k \in Knowledge : \A f \in ToSet(attached[k]) : f.id # e.id

\* import(): everything in it is new; a contradiction disputes it at once.
ImportKnowledge(i) ==
    /\ entries[i.k] = None /\ \A e \in ToSet(i.evidence) : IsNew(e)
    /\ LET state == Reconciled(i.state, i.evidence) IN
       /\ entries' = [entries EXCEPT ![i.k] = [state |-> state, createdAt |-> i.createdAt]]
       /\ history' = [history EXCEPT ![i.k] =
             IF state = i.state THEN <<>>
             ELSE <<[from |-> i.state, to |-> state, evidence |-> FirstContradiction(i.evidence).id,
                     occurredAt |-> i.now]>>]
    /\ attached' = [attached EXCEPT ![i.k] = i.evidence]
    /\ observations' = observations \cup {OfImport(i.k)}
    /\ UNCHANGED <<proposals, snapshots, results, tombstones>>

---------------------------------------------------------------------------
(* insertIncrementalEvidence(), for each of a set of updates: evidence e for  *)
(* knowledge k, at most one for each.                                         *)

Update(k, e, target, at) == [k |-> k, e |-> e, target |-> target, occurredAt |-> at]
StateAfter(u) == After(entries[u.k].state, u.e, u.target)
Moves(u) == StateAfter(u) # entries[u.k].state

Replays(u) ==
    /\ Attached(u.k, u.e)
    /\ u.target # None =>
          \E h \in ToSet(history[u.k]) : h.evidence = u.e.id /\ h.to = u.target /\ h.occurredAt = u.occurredAt
Appends(u) ==
    /\ IsNew(u.e) /\ entries[u.k] # None
    /\ u.occurredAt >= entries[u.k].createdAt
    /\ history[u.k] # <<>> => u.occurredAt >= Last(history[u.k]).occurredAt
    /\ Attaches(u.e, u.target)
    /\ u.target # None => Moves(u) /\ StateAfter(u) = u.target

\* maybeCreateRevalidationProposal(), where the second contradiction is attached.
Proposed(u) == u.e.polarity = "contradicts" /\ Cardinality(Contradictions(attached'[u.k])) >= 2

Evidenced(updates) ==
    /\ \A u \in updates : Replays(u) \/ Appends(u)
    /\ LET fresh == {u \in updates : ~Attached(u.k, u.e)}
           Of(k) == CHOOSE u \in fresh : u.k = k
           about == {u.k : u \in fresh}
       IN  /\ attached' = [k \in Knowledge |-> IF k \in about THEN Append(attached[k], Of(k).e) ELSE attached[k]]
           /\ entries' = [k \in Knowledge |-> IF k \in about THEN [entries[k] EXCEPT !.state = StateAfter(Of(k))] ELSE entries[k]]
           /\ history' = [k \in Knowledge |->
                 IF k \in about /\ Moves(Of(k))
                 THEN Append(history[k], [from |-> entries[k].state, to |-> StateAfter(Of(k)),
                                          evidence |-> Of(k).e.id, occurredAt |-> Of(k).occurredAt])
                 ELSE history[k]]
    /\ proposals' = proposals \cup {u.k : u \in {x \in updates : Proposed(x)}}

\* Evidence appended by itself.
AppendEvidence(u) ==
    /\ Evidenced({u})
    /\ UNCHANGED <<snapshots, results, retention>>

---------------------------------------------------------------------------
(* The capture service.                                                       *)

\* The action, with what its decision enforced; captured again with another
\* decision, it is refused (insertOrVerifyEnforcementSnapshot).
SnapshotOnce(a) == snapshots[a] = None
CaptureAction(a, enforced) ==
    /\ SnapshotOnce(a)
    /\ snapshots' = [snapshots EXCEPT ![a] = enforced]
    /\ UNCHANGED <<lifecycle, results, retention>>

\* The evidence a result is for what its action's snapshot names.
Effects(r) ==
    LET polarity == IF r.outcome = "succeeded" THEN "contradicts" ELSE "confirms" IN
    IF r.outcome = "unknown" THEN {}
    ELSE {Update(k, Evidence(<<r.id, k>>, polarity, None), None, r.occurredAt) : k \in snapshots[r.action]}

\* A failure of what nothing enforced becomes a candidate with an observation of
\* its own; captured again after that was removed, the result is refused.
CaptureResult(r) ==
    /\ snapshots[r.action] # None
    /\ LET failure == snapshots[r.action] = {} /\ r.outcome = "failed" IN
       /\ failure /\ r \in results => OfFailure(r) \in observations
       /\ observations' = observations \cup (IF failure THEN {OfFailure(r)} ELSE {})
    /\ Evidenced(Effects(r))
    /\ results' = results \cup {r}
    /\ UNCHANGED <<snapshots, tombstones>>

---------------------------------------------------------------------------

\* expireUnprotected(): what nothing protects is marked, and removed by a later run
\* that still finds nothing protecting it.
Protected(o) ==
    \E k \in Knowledge : /\ o = OfImport(k)
                         /\ entries[k].state \in Active \cup {"disputed"} \/ history[k] # <<>>
Expire(now) ==
    LET unprotected == {o \in observations : ~Protected(o)}
        expired == {o \in unprotected : tombstones[o] # None /\ tombstones[o] < now}
    IN  /\ observations' = observations \ expired
        /\ tombstones' = [o \in AllObservations |->
              IF o \in expired THEN None
              ELSE IF o \in unprotected /\ tombstones[o] = None THEN now ELSE tombstones[o]]
        /\ UNCHANGED <<lifecycle, snapshots, results>>

KnowledgeEvidenceNext ==
    \/ \E i \in Imports : ImportKnowledge(i)
    \/ \E u \in Updates : AppendEvidence(u)
    \/ \E a \in Actions, enforced \in SUBSET Knowledge : CaptureAction(a, enforced)
    \/ \E r \in Results : CaptureResult(r)
    \/ \E now \in 1 .. MaxTime : Expire(now)

KnowledgeEvidenceSpec == KnowledgeEvidenceInit /\ [][KnowledgeEvidenceNext]_knowledgeVars

---------------------------------------------------------------------------

(* Knowledge is where its transitions took it: each follows the lifecycle and
   the one before it, in time too, and was caused by evidence attached to it.
   What was contradicted is disputed until evidence that says so revalidates it,
   and its observations are kept as long as anything was ever decided on it. *)
KnowledgeIsItsHistory ==
    \A k \in Knowledge : entries[k] # None =>
        LET h == history[k]
            Position(id) == CHOOSE i \in DOMAIN attached[k] : attached[k][i].id = id
            Cause(i) == attached[k][Position(h[i].evidence)]
        IN  /\ h # <<>> => Last(h).to = entries[k].state
            /\ \A i \in DOMAIN h :
                  /\ CanTransition(h[i].from, h[i].to)
                  /\ i > 1 => h[i].from = h[i - 1].to /\ h[i].occurredAt >= h[i - 1].occurredAt
                  /\ h[i].from = "disputed" => Cause(i).revalidatesTo = h[i].to
            /\ entries[k].state \in Active =>
                  \A c \in DOMAIN attached[k] : attached[k][c].polarity = "contradicts" =>
                     \E i \in DOMAIN h : h[i].from = "disputed" /\ Position(h[i].evidence) > c
            /\ entries[k].state \in Active \cup {"disputed"} \/ h # <<>> => OfImport(k) \in observations

(* A result counts once for each piece of knowledge that was enforced on its
   action when the action was captured, for no other, and as what it says:
   whatever was captured twice, later decided otherwise, or refused. *)
EvidenceIsCountedOnce ==
    \A k \in Knowledge :
        /\ \A r \in Results :
              LET of == {n \in DOMAIN attached[k] : attached[k][n].id = <<r.id, k>>}
                  counts == r \in results /\ r.outcome # "unknown" /\ k \in snapshots[r.action]
              IN  /\ Cardinality(of) = IF counts THEN 1 ELSE 0
                  /\ \A n \in of : attached[k][n].polarity = "contradicts" <=> r.outcome = "succeeded"
        /\ k \in proposals => Cardinality(Contradictions(attached[k])) >= 2

(* Both: the knowledge stands where its evidence took it, and the evidence is
   what the captured results amount to. *)
KnowledgeIsSound == KnowledgeIsItsHistory /\ EvidenceIsCountedOnce
=============================================================================
