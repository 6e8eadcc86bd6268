------------------------------ MODULE RecoveryPlan ------------------------------
(***************************************************************************)
(* Recovery of held and quarantined records: an operator makes a plan, a   *)
(* list of rows as they are, and applies it later, perhaps in several      *)
(* attempts and beside other operators, consumers and hooks.  A plan is    *)
(* checked as a whole in one transaction and then applied selection by     *)
(* selection, a transaction each.  Scope, page and build attestation       *)
(* decide only which rows a plan lists, so a plan may list any subset.     *)
(***************************************************************************)
EXTENDS CaptureSpool, Sequences

CONSTANTS
    Plans,
    Operators,
    AppliedMax,   \* MAX_APPLIED_HISTORY: applied selections that are remembered
    MaxCrashes    \* bound of the model: operators interrupted while they apply

ASSUME RecoveryAssumption ==
    /\ IsFiniteSet(Plans) /\ None \notin Plans
    /\ AppliedMax \in Nat \ {0} /\ MaxCrashes \in Nat

VARIABLES
    plan,       \* the selections of each plan that was made: delivery -> row it saw
    applied,    \* table capture_recovery_applied, oldest row first
    apply,      \* the local variables of each operator's application
    effects,    \* how often a plan changed a delivery: a total nobody keeps
    crashes

planVars == <<plan, applied, apply, effects, crashes>>
vars == <<spoolVars, planVars>>

NotApplying == [pc |-> "idle", plan |-> None, todo |-> {}, changed |-> 0, already |-> 0, stale |-> None]

RecoveryInit ==
    /\ SpoolInit
    /\ plan = [p \in Plans |-> <<>>]
    /\ applied = <<>>
    /\ apply = [o \in Operators |-> NotApplying]
    /\ effects = [p \in Plans |-> [d \in Deliveries |-> 0]]
    /\ crashes = 0

SelectionOfState(d) == [state |-> recovery[d].state]   \* a mutant: generation and attempts are not compared
Selection(d) == [state |-> recovery[d].state, generation |-> recovery[d].generation,
                 attempts |-> recovery[d].attempts]

WasAppliedNever(p, d) == FALSE                         \* a mutant: the table is written and not read
WasAppliedByAny(p, d) == \E i \in DOMAIN applied : applied[i][2] = d   \* a mutant
WasApplied(p, d) == \E i \in DOMAIN applied : applied[i] = <<p, d>>
Current(p, d) == Recoverable(d) /\ Selection(d) = plan[p][d]

\* Only the newest AppliedMax rows are remembered.
Recorded(p, d) ==
    LET rows == Append(applied, <<p, d>>)
    IN  IF Len(rows) > AppliedMax THEN Tail(rows) ELSE rows

---------------------------------------------------------------------------
CreatePlan(p) ==
    /\ plan[p] = <<>>
    /\ \E selected \in SUBSET {d \in Deliveries : Recoverable(d)} :
          /\ selected # {}
          /\ plan' = [plan EXCEPT ![p] = [d \in selected |-> Selection(d)]]
    /\ UNCHANGED <<spoolVars, applied, apply, effects, crashes>>

\* The first transaction: every selection not applied yet must be current.
BeginApply(o, p) ==
    /\ apply[o].pc \in {"idle", "done", "refused"}
    /\ plan[p] # <<>>
    /\ LET stale == {d \in DOMAIN plan[p] : ~WasApplied(p, d) /\ ~Current(p, d)}
           begun == [NotApplying EXCEPT !.plan = p]
       IN  \/ /\ stale = {}
              /\ apply' = [apply EXCEPT ![o] = [begun EXCEPT !.pc = "applying", !.todo = DOMAIN plan[p]]]
           \/ \E d \in stale :
              apply' = [apply EXCEPT ![o] = [begun EXCEPT !.pc = "refused", !.stale = d]]
    /\ UNCHANGED <<spoolVars, plan, applied, effects, crashes>>

\* One transaction per selection: skipped, applied, or refused.
ApplySelection(o, d) ==
    /\ apply[o].pc = "applying" /\ d \in apply[o].todo
    /\ UNCHANGED <<plan, crashes>>
    /\ LET p == apply[o].plan
       IN  \/ /\ WasApplied(p, d)
              /\ apply' = [apply EXCEPT ![o].todo = @ \ {d}, ![o].already = @ + 1]
              /\ UNCHANGED <<spoolVars, applied, effects>>
           \/ /\ ~WasApplied(p, d) /\ Current(p, d)
              /\ Recover(d)
              /\ applied' = Recorded(p, d)
              /\ effects' = [effects EXCEPT ![p][d] = @ + 1]
              /\ apply' = [apply EXCEPT ![o].todo = @ \ {d}, ![o].changed = @ + 1]
           \/ /\ ~WasApplied(p, d) /\ ~Current(p, d)
              /\ apply' = [apply EXCEPT ![o].pc = "refused", ![o].stale = d]
              /\ UNCHANGED <<spoolVars, applied, effects>>

FinishApply(o) ==
    /\ apply[o].pc = "applying" /\ apply[o].todo = {}
    /\ apply' = [apply EXCEPT ![o].pc = "done"]
    /\ UNCHANGED <<spoolVars, plan, applied, effects, crashes>>

\* The operator's process dies between two transactions.
Crash(o) ==
    /\ apply[o].pc = "applying"
    /\ crashes < MaxCrashes /\ crashes' = crashes + 1
    /\ apply' = [apply EXCEPT ![o] = NotApplying]
    /\ UNCHANGED <<spoolVars, plan, applied, effects>>

\* Hooks, consumers and the clock go on meanwhile.
SpoolUse ==
    /\ \/ \E d \in Deliveries :
             \/ Admit(d) \/ Acknowledge(d) \/ Retry(d) \/ Quarantine(d)
             \/ ClaimLeaseLapses(d) \/ BackoffElapses(d)
             \/ \E k \in Keys : WaitForDependency(d, k)
       \/ \E batch \in SUBSET Deliveries : Claim(batch)
       \/ \E k \in Keys :
             /\ \A d \in Waiting(k) : recovery[d].generation < MaxGeneration
             /\ ReleaseDependency(k)
    /\ UNCHANGED planVars

Next ==
    \/ \E p \in Plans : CreatePlan(p) \/ \E o \in Operators : BeginApply(o, p)
    \/ \E o \in Operators : FinishApply(o) \/ Crash(o) \/ \E d \in Deliveries : ApplySelection(o, d)
    \/ SpoolUse

RecoverySpec == RecoveryInit /\ [][Next]_vars

---------------------------------------------------------------------------
\* The plans, the table of applied selections and the operators keep their shape.
RecoveryTypeOK ==
    /\ SpoolTypeOK
    /\ \A p \in Plans : DOMAIN plan[p] \subseteq Deliveries
    /\ applied \in Seq(Plans \X Deliveries) /\ Len(applied) <= AppliedMax
    /\ apply \in [Operators ->
         [pc : {"idle", "applying", "done", "refused"}, plan : Plans \cup {None},
          todo : SUBSET Deliveries, changed : Nat, already : Nat, stale : Deliveries \cup {None}]]
    /\ effects \in [Plans -> [Deliveries -> Nat]] /\ crashes \in 0..MaxCrashes

\* A plan changes each record at most once, however often it is applied, by how
\* many operators, interrupted where, and also when the rows that remember what
\* was applied have been deleted.
AppliedAtMostOnce == \A p \in Plans, d \in Deliveries : effects[p][d] <= 1

\* An application that returns normally has told the truth: each selection of its
\* plan took effect exactly once, in this application or in an earlier one.
DoneMeansApplied ==
    \A o \in Operators : apply[o].pc = "done" =>
        LET selected == DOMAIN plan[apply[o].plan]
        IN  /\ \A d \in selected : effects[apply[o].plan][d] = 1
            /\ apply[o].changed + apply[o].already = Cardinality(selected)

\* Every selection that took effect still has its row.
AllRemembered ==
    \A p \in Plans, d \in Deliveries :
        effects[p][d] > 0 => \E i \in DOMAIN applied : applied[i] = <<p, d>>

\* An interrupted plan can be resumed: as long as what was applied is remembered,
\* its own effects are never what makes it stale.
OwnEffectsAreNotStale ==
    AllRemembered =>
        \A o \in Operators : apply[o].pc = "refused" => effects[apply[o].plan][apply[o].stale] = 0

\* Stated by the recovery-coverage design: a stale plan is refused before any effect.
RefusedBeforeAnyEffect == \A o \in Operators : apply[o].pc = "refused" => apply[o].changed = 0
=============================================================================
