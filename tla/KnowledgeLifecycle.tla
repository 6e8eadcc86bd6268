-------------------------- MODULE KnowledgeLifecycle --------------------------
(***************************************************************************)
(* The lifecycle of a piece of knowledge, domain/transitions.ts: which     *)
(* state may follow which, and where a piece of evidence takes an entry.   *)
(***************************************************************************)
EXTENDS Undefined, Naturals, Sequences

Active == {"candidate", "observed", "confirmed", "verified"}
Terminal == {"superseded", "rejected", "expired"}
States == Active \cup Terminal \cup {"disputed"}

NormalNext(state) ==
    CASE state = "candidate" -> "observed"
      [] state = "observed" -> "confirmed"
      [] state = "confirmed" -> "verified"
      [] OTHER -> None

CanTransition(from, to) ==
    \/ from = "disputed" /\ to \in {"observed", "confirmed", "verified"}
    \/ from \in Active /\ (to = NormalNext(from) \/ to \in Terminal \cup {"disputed"})

\* automaticTarget().
AutomaticTarget(state, evidence) ==
    IF evidence.polarity = "contradicts" THEN "disputed"
    ELSE IF state = "disputed" THEN evidence.revalidatesTo
    ELSE IF evidence.polarity = "confirms" THEN NormalNext(state) ELSE None

\* applyTransition(): whether the evidence may be attached, and the state it leads to.
Attaches(evidence, target) ==
    evidence.polarity = "contradicts" => evidence.revalidatesTo = None /\ target \in {None, "disputed"}
AfterAny(state, evidence, target) ==    \* a mutant: a dispute is left like any other state
    LET next == IF target # None THEN target ELSE AutomaticTarget(state, evidence) IN
    IF next # None /\ CanTransition(state, next) THEN next ELSE state
After(state, evidence, target) ==
    LET next == IF target # None THEN target ELSE AutomaticTarget(state, evidence) IN
    IF next # None /\ CanTransition(state, next) /\ (state = "disputed" => evidence.revalidatesTo = next)
    THEN next ELSE state

\* reconcileImportedKnowledgeLifecycle(): a contradiction among the evidence of an
\* import disputes what it would import as active.
Contradictions(evidence) == {n \in DOMAIN evidence : evidence[n].polarity = "contradicts"}
FirstContradiction(evidence) ==
    evidence[CHOOSE n \in Contradictions(evidence) : \A m \in Contradictions(evidence) : n <= m]
Reconciled(state, evidence) ==
    IF Contradictions(evidence) # {} /\ state \in Active THEN "disputed" ELSE state
=============================================================================
