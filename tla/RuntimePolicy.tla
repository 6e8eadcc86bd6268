------------------------------ MODULE RuntimePolicy ------------------------------
(***************************************************************************)
(* What the gate decides about an operation (runtime/gate.ts, policy.ts,   *)
(* matcher.ts), from which rules (snapshot.ts), and what an override makes *)
(* of the decision (override.ts).  All of it is pure: the module has no    *)
(* variables.                                                              *)
(*                                                                         *)
(* An operation is [repository, signature, tags, class] and a signature    *)
(* [kind, tool, text]: a path is compared as a tool is, so one optional    *)
(* attribute, tool, stands for both.  A rule is [id, state, authoritative, *)
(* effect, signature, scope, tool, tags].                                  *)
(***************************************************************************)
EXTENDS Naturals, FiniteSets

CONSTANTS
    Global,     \* the scope of a rule for every repository
    None

Rejected == [rejected |-> TRUE]     \* a RuntimeSnapshotValidationError, a configuration error

---------------------------------------------------------------------------
(* Snapshots: runtime/snapshot.ts. *)

ActiveStates == {"observed", "confirmed", "verified", "disputed"}
Enforcing(r) == r.authoritative /\ r.state \notin {"observed", "disputed"}
AsContext(r) == [r EXCEPT !.effect = "context"]

(* compileRuntimeSnapshot for one repository.  A pair <<source, rule>> keeps
   equal rules of two sources apart, as the arrays of the code do. *)
CompiledSnapshot(repository, global, own, context) ==
    LET ofContext == {r \in context : r.scope \in {Global, repository}}
        selected == { <<"global", r>> : r \in {r \in global : r.scope = Global /\ r.authoritative} }
            \cup { <<"repository", r>> : r \in {r \in own : r.scope = repository /\ r.authoritative} }
            \cup { <<"context", AsContext(r)>> : r \in ofContext }
        active == { <<p[1], IF Enforcing(p[2]) THEN p[2] ELSE AsContext(p[2])>> :
                        p \in {p \in selected : p[2].state \in ActiveStates} }
    IN  IF \/ \E r \in global : r.scope = Global /\ ~Enforcing(r)
           \/ \E r \in own : r.scope = repository /\ ~Enforcing(r)
           \/ \E p, q \in active : p # q /\ p[2].id = q[2].id
        THEN Rejected
        ELSE [rejected |-> FALSE, repository |-> repository, rules |-> {p[2] : p \in active}]

\* parseRuntimeSnapshot, without the checksum and the limits of size.
WellFormed(s) ==
    /\ \A r \in s.rules : /\ r.state \in ActiveStates
                          /\ Enforcing(r) \/ r.effect = "context"
                          /\ r.scope \in {Global, s.repository}
    /\ \A q, r \in s.rules : q.id = r.id => q = r

---------------------------------------------------------------------------
(* Matching: runtime/matcher.ts. *)

Applies(op, r) ==
    /\ r.scope = Global \/ (op.repository # None /\ op.repository = r.scope)
    /\ r.tool = None \/ r.tool = op.signature.tool
    /\ r.tags \subseteq op.tags

Strength(op, r) ==
    IF r.signature.kind # op.signature.kind THEN None
    ELSE IF r.signature = op.signature THEN "exact"
    ELSE IF r.tool # None THEN "metadata"
    ELSE IF r.tags # {} THEN "tags"
    ELSE None

Matches(op, rules) == {r \in rules : Applies(op, r) /\ Strength(op, r) # None}

---------------------------------------------------------------------------
(* The decision: runtime/policy.ts and gate.ts. *)

Rank == [ALLOW |-> 0, WARN |-> 1, BLOCK |-> 2]
Strongest(outcomes) ==
    CHOOSE o \in outcomes \cup {"ALLOW"} : \A q \in outcomes : Rank[q] <= Rank[o]

BasePolicy(r, strength) ==
    IF r.state \notin ActiveStates \/ ~Enforcing(r) \/ r.effect # "conflict" THEN "ALLOW"
    ELSE IF r.state = "verified" /\ strength = "exact" THEN "BLOCK" ELSE "WARN"

UnderProfile(outcome, profile) ==
    CASE outcome = "BLOCK" /\ profile.hardBlocking -> "BLOCK"
      [] outcome # "ALLOW" /\ profile.warningsEnabled /\ (outcome = "BLOCK" => ~profile.hardBlocking) -> "WARN"
      [] OTHER -> "ALLOW"

(* RuntimeGate.evaluate.  The references of a decision are the ids of its
   explanations; binding is what runtimeInputBinding digests.  Without a
   snapshot the gate is degraded. *)
Decision(op, profile, snapshot) ==
    LET degraded == [rule |-> None,
                     outcome |-> IF op.class = "normal" THEN "ALLOW" ELSE profile.degradedOutcomes[op.class]]
        explanations == IF snapshot = None THEN {degraded}
                        ELSE { [rule |-> r.id, outcome |-> UnderProfile(BasePolicy(r, Strength(op, r)), profile)] :
                                   r \in Matches(op, snapshot.rules) }
    IN  [outcome |-> Strongest({e.outcome : e \in explanations}),
         explanations |-> explanations, binding |-> op]

---------------------------------------------------------------------------
(* Overrides: runtime/override.ts.  An override is [scope, target, from,   *)
(* until]; until is None when it has no expiry.                            *)

Overridden(decision, o) ==
    LET enforcing == {e.rule : e \in {e \in decision.explanations : e.outcome # "ALLOW" /\ e.rule # None}}
    IN  IF o.scope = "rule" THEN enforcing \cap {o.target} ELSE enforcing

InScope(decision, op, session, o) ==
    CASE o.scope = "rule" -> \E e \in decision.explanations : e.rule = o.target
      [] o.scope = "action" -> o.target = op.signature
      [] o.scope = "task-session" -> session # None /\ o.target = session

\* applyRuntimeOverride
OverrideApplies(decision, op, session, now, o) ==
    /\ op = decision.binding
    /\ now >= o.from /\ (o.until = None \/ now < o.until)
    /\ InScope(decision, op, session, o)
    /\ Overridden(decision, o) # {}

\* Mutant: an override for one rule lets the operation pass.
RemainingNone(decision, o) == "ALLOW"

Remaining(decision, o) ==
    IF o.scope = "rule"
    THEN Strongest({e.outcome : e \in {e \in decision.explanations : e.rule \notin Overridden(decision, o)}})
    ELSE "ALLOW"

WithOverride(decision, op, session, now, o) ==
    IF OverrideApplies(decision, op, session, now, o)
    THEN [decision EXCEPT !.outcome = Remaining(decision, o)] ELSE decision
=============================================================================
