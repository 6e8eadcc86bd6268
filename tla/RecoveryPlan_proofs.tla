------------------------- MODULE RecoveryPlan_proofs -------------------------
(***************************************************************************)
(* Theorems about recovery plans, for any number of plans, deliveries and  *)
(* operators.  Whether a plan can repeat an effect depends on what the     *)
(* spool remembers: the applied selections, or the generations.            *)
(***************************************************************************)
EXTENDS RecoveryPlan, CaptureSpool_proofs

\* Every selection there can be fits into the table of applied ones.
SelectionsFit == Cardinality(Plans) * Cardinality(Deliveries) <= AppliedMax

\* No prune deletes a recovery row.
RowsFit == Cardinality(Deliveries) <= HistoryMax

---------------------------------------------------------------------------
\* An operator's step and the steps around it are steps of the spool, or leave it alone.
LEMMA PlansUseSpool == ASSUME [Next]_vars PROVE [SpoolNext]_spoolVars
  <1>1. ASSUME NEW p \in Plans, CreatePlan(p) PROVE UNCHANGED spoolVars
    BY <1>1 DEF CreatePlan
  <1>2. ASSUME NEW o \in Operators, NEW p \in Plans, BeginApply(o, p) PROVE UNCHANGED spoolVars
    BY <1>2 DEF BeginApply
  <1>3. ASSUME NEW o \in Operators, FinishApply(o) \/ Crash(o) PROVE UNCHANGED spoolVars
    BY <1>3 DEF FinishApply, Crash
  <1>4. ASSUME NEW o \in Operators, NEW d \in Deliveries, ApplySelection(o, d)
        PROVE  Recover(d) \/ UNCHANGED spoolVars
    BY <1>4 DEF ApplySelection
  <1>5. ASSUME SpoolUse PROVE SpoolNext
    BY <1>5 DEF SpoolUse, SpoolNext
  <1>6. ASSUME UNCHANGED vars PROVE UNCHANGED spoolVars
    BY <1>6 DEF vars
  <1>7. ASSUME NEW d \in Deliveries, Recover(d) PROVE SpoolNext
    BY <1>7 DEF SpoolNext
  <1> QED
    BY <1>1, <1>2, <1>3, <1>4, <1>5, <1>6, <1>7 DEF Next

\* Recovery keeps to the spool's own transactions, so what is proved of the spool
\* holds beside any operators and plans.
THEOREM PlansKeepSpool == RecoverySpec => SpoolSpec
  <1>1. RecoveryInit => SpoolInit
    BY DEF RecoveryInit
  <1>2. [Next]_vars => [SpoolNext]_spoolVars
    BY PlansUseSpool
  <1> QED
    BY <1>1, <1>2, PTL DEF RecoverySpec, SpoolSpec

---------------------------------------------------------------------------
SelectionRow == [state : {"held", "quarantined"}, generation : Nat, attempts : Nat]
ApplyRow ==
    [pc : {"idle", "applying", "done", "refused"}, plan : Plans \cup {None},
     todo : SUBSET Deliveries, changed : Nat, already : Nat, stale : Deliveries \cup {None}]

\* The tables keep their shape, and a plan names rows that a plan may select.
TablesShape ==
    /\ plan = [p \in Plans |-> plan[p]]
    /\ \A p \in Plans : plan[p] = <<>> \/ plan[p] \in [DOMAIN plan[p] -> SelectionRow]
    /\ \A p \in Plans : DOMAIN plan[p] \subseteq Deliveries
    /\ applied \in Seq(Plans \X Deliveries)
    /\ apply \in [Operators -> ApplyRow]
    /\ effects \in [Plans -> [Deliveries -> Nat]]

\* What is left of an application, and what it has told so far.
ApplicationFits(row) ==
    /\ row.plan \in Plans /\ plan[row.plan] # <<>>
    /\ row.pc = "refused" => row.stale \in DOMAIN plan[row.plan]
    /\ row.pc \in {"applying", "done"} =>
         /\ row.todo \subseteq DOMAIN plan[row.plan]
         /\ \A d \in DOMAIN plan[row.plan] \ row.todo : effects[row.plan][d] > 0
         /\ row.changed + row.already + Cardinality(row.todo) = Cardinality(DOMAIN plan[row.plan])
    /\ row.pc = "done" => row.todo = {}

\* Plans, the table of applied selections, the effects and the applications fit together.
PlansFit ==
    /\ TablesShape
    /\ \A p \in Plans, d \in Deliveries : effects[p][d] > 0 => d \in DOMAIN plan[p]
    /\ \A i \in DOMAIN applied, p \in Plans, d \in Deliveries : applied[i] = <<p, d>> => effects[p][d] > 0
    /\ \A o \in Operators : apply[o].pc # "idle" => ApplicationFits(apply[o])

\* A selection is a row of a plan.
LEMMA SelectionType ==
    ASSUME SpoolTypeOK, NEW d \in Deliveries, Recoverable(d)
    PROVE  Selection(d) \in SelectionRow
  BY DEF SpoolTypeOK, RecoveryRow, Recoverable, Selection, SelectionRow

\* The table of applied selections gets its new row, and may lose its oldest.
LEMMA RecordedRows ==
    ASSUME NEW p \in Plans, NEW d \in Deliveries, applied \in Seq(Plans \X Deliveries)
    PROVE  /\ Recorded(p, d) \in Seq(Plans \X Deliveries)
           /\ \A i \in DOMAIN Recorded(p, d) :
                 Recorded(p, d)[i] = <<p, d>> \/ \E j \in DOMAIN applied : applied[j] = Recorded(p, d)[i]
  <1> DEFINE rows == Append(applied, <<p, d>>)
  <1>1. /\ rows \in Seq(Plans \X Deliveries) /\ Len(rows) = Len(applied) + 1
        /\ rows # <<>>
        /\ \A i \in 1 .. Len(applied) + 1 : rows[i] = IF i <= Len(applied) THEN applied[i] ELSE <<p, d>>
        /\ DOMAIN applied = 1 .. Len(applied) /\ Len(applied) \in Nat
    OBVIOUS
  <1>2. \A i \in DOMAIN rows : rows[i] = <<p, d>> \/ \E j \in DOMAIN applied : applied[j] = rows[i]
    BY <1>1
  <1> HIDE DEF rows
  <1>3. /\ Tail(rows) \in Seq(Plans \X Deliveries)
        /\ \A i \in DOMAIN Tail(rows) : i + 1 \in DOMAIN rows /\ Tail(rows)[i] = rows[i + 1]
    BY <1>1
  <1>4. Recorded(p, d) = rows \/ Recorded(p, d) = Tail(rows)
    BY DEF Recorded, rows
  <1> QED
    BY <1>1, <1>2, <1>3, <1>4

\* What is not touched keeps fitting, whatever happens to the spool.
LEMMA SpoolUseFits == ASSUME PlansFit, UNCHANGED planVars PROVE PlansFit'
  BY DEF PlansFit, TablesShape, ApplicationFits, planVars

\* A new plan is nobody's yet.
LEMMA CreateFits ==
    ASSUME PlansFit, SpoolTypeOK, NEW p \in Plans, CreatePlan(p)
    PROVE  PlansFit'
  <1>1. PICK selected \in SUBSET {d \in Deliveries : Recoverable(d)} :
           selected # {} /\ plan' = [plan EXCEPT ![p] = [d \in selected |-> Selection(d)]]
    BY DEF CreatePlan
  <1>2. plan[p] = <<>> /\ DOMAIN plan[p] = {} /\ UNCHANGED <<applied, apply, effects>>
    BY DEF CreatePlan
  <1>3. plan = [q \in Plans |-> plan[q]]
    BY DEF PlansFit, TablesShape
  <1>4. /\ plan' = [q \in Plans |-> plan'[q]]
        /\ plan'[p] = [d \in selected |-> Selection(d)]
        /\ \A q \in Plans \ {p} : plan'[q] = plan[q]
    BY <1>1, <1>3
  <1>5. plan'[p] \in [DOMAIN plan'[p] -> SelectionRow] /\ DOMAIN plan'[p] \subseteq Deliveries
    BY <1>1, <1>4, SelectionType
  <1>6. TablesShape'
    BY <1>2, <1>4, <1>5 DEF PlansFit, TablesShape
  <1>7. \A q \in Plans, d \in Deliveries : effects'[q][d] > 0 => d \in DOMAIN plan'[q]
    BY <1>2, <1>4 DEF PlansFit
  <1>8. \A o \in Operators : apply'[o].pc # "idle" => ApplicationFits(apply[o])'
    BY <1>2, <1>4 DEF PlansFit, ApplicationFits
  <1> QED
    BY <1>2, <1>6, <1>7, <1>8 DEF PlansFit

\* An application that changes its own variables only fits if these do.
LEMMA ApplyFits ==
    ASSUME PlansFit, NEW o \in Operators, NEW row \in ApplyRow,
           apply' = [apply EXCEPT ![o] = row], UNCHANGED <<plan, applied, effects>>,
           row.pc # "idle" => ApplicationFits(row)
    PROVE  PlansFit'
  <1>1. apply \in [Operators -> ApplyRow]
    BY DEF PlansFit, TablesShape
  <1>2. apply' \in [Operators -> ApplyRow] /\ apply'[o] = row /\ \A e \in Operators \ {o} : apply'[e] = apply[e]
    BY <1>1
  <1>3. \A e \in Operators : apply'[e].pc # "idle" => ApplicationFits(apply'[e])
    BY <1>2 DEF PlansFit
  <1> QED
    BY <1>2, <1>3 DEF PlansFit, TablesShape, ApplicationFits

\* An application begins with all of its plan, or is refused.
LEMMA BeginFits ==
    ASSUME PlansFit, NEW o \in Operators, NEW p \in Plans, BeginApply(o, p)
    PROVE  PlansFit'
  <1> DEFINE begun(pc, todo, stale) ==
               [pc |-> pc, plan |-> p, todo |-> todo, changed |-> 0, already |-> 0, stale |-> stale]
  <1>1. plan[p] # <<>> /\ UNCHANGED <<plan, applied, effects>> /\ DOMAIN plan[p] \subseteq Deliveries
    BY DEF BeginApply, PlansFit, TablesShape
  <1>2. CASE apply' = [apply EXCEPT ![o] = begun("applying", DOMAIN plan[p], None)]
    <2>1. begun("applying", DOMAIN plan[p], None) \in ApplyRow
      BY <1>1 DEF ApplyRow
    <2>2. IsFiniteSet(DOMAIN plan[p]) /\ Cardinality(DOMAIN plan[p]) \in Nat
      BY <1>1, DeliveriesFinite
    <2>3. ApplicationFits(begun("applying", DOMAIN plan[p], None))
      BY <1>1, <2>2 DEF ApplicationFits
    <2> HIDE DEF begun
    <2> QED
      BY <1>1, <1>2, <2>1, <2>3, ApplyFits
  <1>3. ASSUME NEW d \in DOMAIN plan[p], apply' = [apply EXCEPT ![o] = begun("refused", {}, d)]
        PROVE  PlansFit'
    <2>1. begun("refused", {}, d) \in ApplyRow
      BY <1>1 DEF ApplyRow
    <2>2. ApplicationFits(begun("refused", {}, d))
      BY <1>1 DEF ApplicationFits
    <2> HIDE DEF begun
    <2> QED
      BY <1>1, <1>3, <2>1, <2>2, ApplyFits
  <1> QED
    BY <1>2, <1>3 DEF BeginApply, NotApplying

\* A selection is skipped, takes effect, or stops the application.
LEMMA SelectionFits ==
    ASSUME PlansFit, NEW o \in Operators, NEW d \in Deliveries, ApplySelection(o, d)
    PROVE  PlansFit'
  <1> DEFINE row == apply[o]
             p == row.plan
  <1>1. row \in ApplyRow /\ row.pc = "applying" /\ d \in row.todo /\ UNCHANGED plan
    BY DEF ApplySelection, PlansFit, TablesShape
  <1>2. ApplicationFits(row)
    BY <1>1 DEF PlansFit
  <1>3. /\ p \in Plans /\ d \in DOMAIN plan[p] /\ row.todo \subseteq Deliveries
        /\ row.changed \in Nat /\ row.already \in Nat
    BY <1>1, <1>2 DEF ApplicationFits, ApplyRow
  <1>4. /\ Cardinality(row.todo) \in Nat /\ Cardinality(row.todo \ {d}) \in Nat
        /\ Cardinality(row.todo \ {d}) = Cardinality(row.todo) - 1
    BY <1>1, <1>3, DeliveriesFinite, FS_RemoveElement
  <1>5. CASE WasApplied(p, d)
    <2> DEFINE next == [row EXCEPT !.todo = @ \ {d}, !.already = @ + 1]
    <2>1. UNCHANGED <<applied, effects>> /\ apply' = [apply EXCEPT ![o] = next]
      BY <1>1, <1>5 DEF ApplySelection
    <2>2. /\ next \in ApplyRow /\ next.plan = p /\ next.pc = "applying"
          /\ next.todo = row.todo \ {d} /\ next.changed = row.changed /\ next.already = row.already + 1
      <3>1. row.todo \ {d} \in SUBSET Deliveries /\ row.already + 1 \in Nat
        BY <1>1 DEF ApplyRow
      <3>2. row \in ApplyRow /\ row.pc = "applying"
        BY <1>1
      <3> HIDE DEF row
      <3> QED
        BY <3>1, <3>2, Zenon DEF ApplyRow
    <2>3. effects[p][d] > 0
      BY <1>3, <1>5 DEF PlansFit, WasApplied
    <2> HIDE DEF next
    <2>4. ApplicationFits(next)
      BY <1>1, <1>2, <1>3, <1>4, <2>2, <2>3 DEF ApplicationFits
    <2> QED
      BY <1>1, <2>1, <2>2, <2>4, ApplyFits
  <1>6. CASE ~WasApplied(p, d) /\ ~Current(p, d)
    <2> DEFINE next == [row EXCEPT !.pc = "refused", !.stale = d]
    <2>1. UNCHANGED <<applied, effects>> /\ apply' = [apply EXCEPT ![o] = next]
      <3>1. apply' = [apply EXCEPT ![o].pc = "refused", ![o].stale = d] /\ UNCHANGED <<applied, effects>>
        BY <1>6 DEF ApplySelection
      <3> QED
        BY <3>1
    <2>2. next \in ApplyRow /\ next.plan = p /\ next.pc = "refused" /\ next.stale = d
      BY <1>1 DEF ApplyRow
    <2> HIDE DEF next
    <2>4. ApplicationFits(next)
      BY <1>2, <1>3, <2>2 DEF ApplicationFits
    <2> QED
      BY <1>1, <2>1, <2>2, <2>4, ApplyFits
  <1>7. CASE ~WasApplied(p, d) /\ Current(p, d)
    <2> DEFINE next == [row EXCEPT !.todo = @ \ {d}, !.changed = @ + 1]
    <2>1. /\ applied' = Recorded(p, d)
          /\ effects' = [effects EXCEPT ![p][d] = @ + 1]
          /\ apply' = [apply EXCEPT ![o] = next]
      BY <1>1, <1>7 DEF ApplySelection
    <2>2. /\ next \in ApplyRow /\ next.plan = p /\ next.pc = "applying"
          /\ next.todo = row.todo \ {d} /\ next.changed = row.changed + 1 /\ next.already = row.already
      <3>1. row.todo \ {d} \in SUBSET Deliveries /\ row.changed + 1 \in Nat
        BY <1>1 DEF ApplyRow
      <3>2. row \in ApplyRow /\ row.pc = "applying"
        BY <1>1
      <3> HIDE DEF row
      <3> QED
        BY <3>1, <3>2, Zenon DEF ApplyRow
    <2>3. /\ effects' \in [Plans -> [Deliveries -> Nat]] /\ effects'[p][d] > 0
          /\ \A q \in Plans, e \in Deliveries :
                /\ <<q, e>> # <<p, d>> => effects'[q][e] = effects[q][e]
                /\ effects[q][e] > 0 => effects'[q][e] > 0
      BY <1>3, <2>1 DEF PlansFit, TablesShape
    <2> HIDE DEF next
    <2>4. /\ apply' \in [Operators -> ApplyRow] /\ apply'[o] = next
          /\ \A e \in Operators \ {o} : apply'[e] = apply[e]
      BY <2>1, <2>2 DEF PlansFit, TablesShape
    <2>5. /\ applied' \in Seq(Plans \X Deliveries)
          /\ \A i \in DOMAIN applied' :
                applied'[i] = <<p, d>> \/ \E j \in DOMAIN applied : applied[j] = applied'[i]
      BY <1>3, <2>1, RecordedRows DEF PlansFit, TablesShape
    <2>6. TablesShape'
      BY <1>1, <2>3, <2>4, <2>5 DEF PlansFit, TablesShape
    <2>7. \A q \in Plans, e \in Deliveries : effects'[q][e] > 0 => e \in DOMAIN plan'[q]
      <3> SUFFICES ASSUME NEW q \in Plans, NEW e \in Deliveries, effects'[q][e] > 0
                   PROVE  e \in DOMAIN plan[q]
        BY <1>1
      <3>1. CASE <<q, e>> = <<p, d>>
        BY <1>3, <3>1
      <3>2. CASE <<q, e>> # <<p, d>>
        BY <2>3, <3>2 DEF PlansFit
      <3> QED
        BY <3>1, <3>2
    <2>8. \A i \in DOMAIN applied', q \in Plans, e \in Deliveries :
             applied'[i] = <<q, e>> => effects'[q][e] > 0
      <3> SUFFICES ASSUME NEW i \in DOMAIN applied', NEW q \in Plans, NEW e \in Deliveries,
                          applied'[i] = <<q, e>>
                   PROVE  effects'[q][e] > 0
        OBVIOUS
      <3>1. CASE applied'[i] = <<p, d>>
        BY <2>3, <3>1
      <3>2. ASSUME NEW j \in DOMAIN applied, applied[j] = <<q, e>> PROVE effects'[q][e] > 0
        BY <2>3, <3>2 DEF PlansFit
      <3> QED
        BY <2>5, <3>1, <3>2
    <2>9. ASSUME NEW e \in Operators, apply'[e].pc # "idle" PROVE ApplicationFits(apply[e])'
      <3>1. CASE e = o
        <4>1. \A x \in DOMAIN plan[p] \ next.todo : effects'[p][x] > 0
          <5> SUFFICES ASSUME NEW x \in DOMAIN plan[p] \ next.todo PROVE effects'[p][x] > 0
            OBVIOUS
          <5>1. x \in Deliveries /\ (x = d \/ x \in DOMAIN plan[p] \ row.todo)
            BY <1>3, <2>2 DEF PlansFit, TablesShape
          <5>2. CASE x = d
            BY <2>3, <5>2
          <5>3. CASE x \in DOMAIN plan[p] \ row.todo
            BY <1>1, <1>2, <1>3, <2>3, <5>1, <5>3 DEF ApplicationFits
          <5> QED
            BY <5>1, <5>2, <5>3
        <4>2. /\ row.changed + row.already + Cardinality(row.todo) = Cardinality(DOMAIN plan[p])
              /\ row.todo \subseteq DOMAIN plan[p] /\ plan[p] # <<>>
          BY <1>1, <1>2 DEF ApplicationFits
        <4>3. next.changed + next.already + Cardinality(next.todo) = Cardinality(DOMAIN plan[p])
          BY <1>3, <1>4, <2>2, <4>2
        <4>4. apply'[e] = next /\ plan' = plan
          BY <1>1, <2>4, <3>1
        <4> HIDE DEF p
        <4> QED
          BY <1>3, <2>2, <4>1, <4>2, <4>3, <4>4 DEF ApplicationFits
      <3>2. CASE e # o
        <4>1. apply'[e] = apply[e] /\ ApplicationFits(apply[e])
          BY <2>4, <2>9, <3>2 DEF PlansFit
        <4>2. DOMAIN plan[apply[e].plan] \subseteq Deliveries
          BY <4>1 DEF PlansFit, TablesShape, ApplicationFits
        <4> QED
          BY <1>1, <2>3, <4>1, <4>2 DEF ApplicationFits
      <3> QED
        BY <3>1, <3>2
    <2> QED
      BY <2>6, <2>7, <2>8, <2>9 DEF PlansFit
  <1> QED
    BY <1>5, <1>6, <1>7

\* An application ends, or dies.
LEMMA FinishFits ==
    ASSUME PlansFit, NEW o \in Operators, FinishApply(o) \/ Crash(o)
    PROVE  PlansFit'
  <1>1. apply[o] \in ApplyRow /\ apply[o].pc = "applying" /\ ApplicationFits(apply[o])
        /\ UNCHANGED <<plan, applied, effects>>
    BY DEF FinishApply, Crash, PlansFit, TablesShape
  <1>2. CASE FinishApply(o)
    <2> DEFINE next == [apply[o] EXCEPT !.pc = "done"]
    <2>1. apply' = [apply EXCEPT ![o] = next] /\ apply[o].todo = {}
      BY <1>2 DEF FinishApply
    <2>2. /\ next \in ApplyRow /\ next.pc = "done" /\ next.plan = apply[o].plan /\ next.todo = apply[o].todo
          /\ next.changed = apply[o].changed /\ next.already = apply[o].already
      BY <1>1 DEF ApplyRow
    <2> HIDE DEF next
    <2>3. ApplicationFits(next)
      BY <1>1, <2>1, <2>2 DEF ApplicationFits
    <2> QED
      BY <1>1, <2>1, <2>2, <2>3, ApplyFits
  <1>3. CASE Crash(o)
    <2>1. NotApplying \in ApplyRow /\ NotApplying.pc = "idle" /\ apply' = [apply EXCEPT ![o] = NotApplying]
      BY <1>3 DEF Crash, NotApplying, ApplyRow
    <2> QED
      BY <1>1, <2>1, ApplyFits
  <1> QED
    BY <1>2, <1>3

\* Every step keeps plans, table, effects and applications fitting.
LEMMA PlansFitStep == ASSUME PlansFit, SpoolTypeOK, [Next]_vars PROVE PlansFit'
  <1>1. CASE UNCHANGED planVars
    BY <1>1, SpoolUseFits
  <1>2. UNCHANGED vars \/ SpoolUse => UNCHANGED planVars
    BY DEF vars, SpoolUse
  <1> QED
    BY <1>1, <1>2, CreateFits, BeginFits, SelectionFits, FinishFits DEF Next

\* The spool is typed, its tables agree, and what goes on above it fits.
RecoveryInv == SpoolTypeOK /\ TablesAgree /\ AbsentIsNew /\ PlansFit

\* The spool's invariants hold under plans, and plans, table and applications fit together.
LEMMA RecoveryInvariant == RecoverySpec => []RecoveryInv
  <1>1. RecoveryInit => PlansFit
    <2> SUFFICES ASSUME RecoveryInit PROVE PlansFit
      OBVIOUS
    <2>1. NotApplying \in ApplyRow
      BY DEF NotApplying, ApplyRow
    <2>2. TablesShape
      BY <2>1 DEF RecoveryInit, TablesShape
    <2> QED
      BY <2>2 DEF RecoveryInit, PlansFit, NotApplying
  <1>2. SpoolTypeOK /\ PlansFit /\ [Next]_vars => PlansFit'
    BY PlansFitStep
  <1>3. RecoverySpec => []SpoolTypeOK /\ []TablesAgree /\ []AbsentIsNew
    BY PlansKeepSpool, SpoolTypeCorrect, TablesAlwaysAgree, AbsentAlwaysNew
  <1> QED
    BY <1>1, <1>2, <1>3, PTL DEF RecoverySpec, RecoveryInv

---------------------------------------------------------------------------
\* The only step that changes the effects and the table of applied selections.
TakesEffect(p, d) ==
    /\ ~WasApplied(p, d) /\ Current(p, d) /\ Recover(d)
    /\ applied' = Recorded(p, d)
    /\ effects' = [effects EXCEPT ![p][d] = @ + 1]
    /\ plan' = plan /\ d \in DOMAIN plan[p]

\* Effects and their rows change together, by one applied selection, or not at all.
LEMMA EffectsStep ==
    ASSUME PlansFit, [Next]_vars
    PROVE  UNCHANGED <<applied, effects>> \/ \E p \in Plans, d \in Deliveries : TakesEffect(p, d)
  <1>1. ASSUME NEW p \in Plans, CreatePlan(p) PROVE UNCHANGED <<applied, effects>>
    BY <1>1 DEF CreatePlan
  <1>2. ASSUME NEW o \in Operators, NEW p \in Plans, BeginApply(o, p) PROVE UNCHANGED <<applied, effects>>
    BY <1>2 DEF BeginApply
  <1>3. ASSUME NEW o \in Operators, FinishApply(o) \/ Crash(o) PROVE UNCHANGED <<applied, effects>>
    BY <1>3 DEF FinishApply, Crash
  <1>4. ASSUME NEW o \in Operators, NEW d \in Deliveries, ApplySelection(o, d)
        PROVE  UNCHANGED <<applied, effects>> \/ \E p \in Plans : TakesEffect(p, d)
    <2>1. ApplicationFits(apply[o]) /\ apply[o].pc = "applying" /\ d \in apply[o].todo
      BY <1>4 DEF ApplySelection, PlansFit
    <2>2. apply[o].plan \in Plans /\ d \in DOMAIN plan[apply[o].plan]
      BY <2>1 DEF ApplicationFits
    <2> QED
      BY <1>4, <2>2 DEF ApplySelection, TakesEffect
  <1>5. ASSUME SpoolUse \/ UNCHANGED vars PROVE UNCHANGED <<applied, effects>>
    BY <1>5 DEF SpoolUse, planVars, vars
  <1> QED
    BY <1>1, <1>2, <1>3, <1>4, <1>5 DEF Next

\* The effect of a selection, and nothing else, is one more.
LEMMA OneEffect ==
    ASSUME PlansFit, NEW p \in Plans, NEW d \in Deliveries, TakesEffect(p, d)
    PROVE  /\ effects'[p][d] = effects[p][d] + 1
           /\ \A q \in Plans, e \in Deliveries : <<q, e>> # <<p, d>> => effects'[q][e] = effects[q][e]
  BY DEF PlansFit, TablesShape, TakesEffect

---------------------------------------------------------------------------
(* First: while the table has room for every selection, it remembers.        *)

\* Every effect was recorded, and no row was written twice.
EffectsRecorded ==
    /\ AllRemembered
    /\ \A i, j \in DOMAIN applied : applied[i] = applied[j] => i = j

\* A selection that is not in the table leaves room for it.
LEMMA RoomForOneMore ==
    ASSUME SelectionsFit, NEW p \in Plans, NEW d \in Deliveries,
           applied \in Seq(Plans \X Deliveries),
           \A i, j \in DOMAIN applied : applied[i] = applied[j] => i = j,
           ~WasApplied(p, d)
    PROVE  Len(applied) + 1 <= AppliedMax
  <1> DEFINE rows == Append(applied, <<p, d>>)
             S == 1 .. Len(applied) + 1
             T == Plans \X Deliveries
  <1>0. /\ rows \in Seq(T) /\ Len(rows) = Len(applied) + 1
        /\ \A i \in S : rows[i] = IF i <= Len(applied) THEN applied[i] ELSE <<p, d>>
        /\ DOMAIN applied = 1 .. Len(applied) /\ Len(applied) \in Nat
    OBVIOUS
  <1>1. rows \in [S -> T]
    <2> HIDE DEF rows
    <2> QED
      BY <1>0
  <1>2. \A i \in DOMAIN applied : applied[i] # <<p, d>>
    BY DEF WasApplied
  <1>3. \A i, j \in S : rows[i] = rows[j] => i = j
    <2> HIDE DEF rows
    <2> SUFFICES ASSUME NEW i \in S, NEW j \in S, rows[i] = rows[j] PROVE i = j
      OBVIOUS
    <2>1. ASSUME NEW k \in S
          PROVE  \/ k \in DOMAIN applied /\ rows[k] = applied[k]
                 \/ k = Len(applied) + 1 /\ rows[k] = <<p, d>>
      <3>1. rows[k] = IF k <= Len(applied) THEN applied[k] ELSE <<p, d>>
        BY <1>0, Zenon
      <3> QED
        BY <1>0, <3>1
    <2> QED
      BY <1>2, <2>1, Zenon
  <1>4. IsFiniteSet(S) /\ Cardinality(S) = Len(applied) + 1
    BY <1>0, FS_Interval
  <1>5. /\ IsFiniteSet(T) /\ Cardinality(T) = Cardinality(Plans) * Cardinality(Deliveries)
        /\ Cardinality(T) \in Nat
    BY SpoolAssumption, RecoveryAssumption, FS_Product, FS_CardinalityType
  <1> HIDE DEF rows, S, T
  <1>6. ~(Cardinality(T) < Cardinality(S))
    BY <1>1, <1>3, <1>4, <1>5, FS_PigeonHole
  <1> QED
    BY <1>0, <1>4, <1>5, <1>6, RecoveryAssumption DEF SelectionsFit

\* A new row is the last, and the rows before it stay.
LEMMA RecordedWithRoom ==
    ASSUME NEW p \in Plans, NEW d \in Deliveries,
           applied \in Seq(Plans \X Deliveries), Len(applied) + 1 <= AppliedMax
    PROVE  /\ DOMAIN applied = 1 .. Len(applied) /\ Len(applied) \in Nat
           /\ DOMAIN Recorded(p, d) = 1 .. Len(applied) + 1
           /\ \A i \in 1 .. Len(applied) + 1 :
                 Recorded(p, d)[i] = IF i <= Len(applied) THEN applied[i] ELSE <<p, d>>
  <1> DEFINE rows == Append(applied, <<p, d>>)
  <1>1. /\ rows \in Seq(Plans \X Deliveries) /\ Len(rows) = Len(applied) + 1
        /\ \A i \in 1 .. Len(applied) + 1 : rows[i] = IF i <= Len(applied) THEN applied[i] ELSE <<p, d>>
        /\ DOMAIN applied = 1 .. Len(applied) /\ Len(applied) \in Nat
    OBVIOUS
  <1>2. Recorded(p, d) = rows
    BY <1>1, RecoveryAssumption DEF Recorded
  <1> HIDE DEF rows
  <1>3. DOMAIN rows = 1 .. Len(applied) + 1
    BY <1>1
  <1> QED
    BY <1>1, <1>2, <1>3

\* If the table never forgets, an effect is always recorded, so no selection has a second one.
LEMMA RecordedStep ==
    ASSUME SelectionsFit, PlansFit, EffectsRecorded, AppliedAtMostOnce, [Next]_vars
    PROVE  EffectsRecorded' /\ AppliedAtMostOnce'
  <1>1. CASE UNCHANGED <<applied, effects>>
    BY <1>1 DEF EffectsRecorded, AllRemembered, AppliedAtMostOnce
  <1>2. ASSUME NEW p \in Plans, NEW d \in Deliveries, TakesEffect(p, d)
        PROVE  EffectsRecorded' /\ AppliedAtMostOnce'
    <2>1. applied \in Seq(Plans \X Deliveries) /\ ~WasApplied(p, d) /\ applied' = Recorded(p, d)
      BY <1>2 DEF PlansFit, TablesShape, TakesEffect
    <2>2. Len(applied) + 1 <= AppliedMax
      BY <2>1, RoomForOneMore DEF EffectsRecorded
    <2>3. /\ DOMAIN applied = 1 .. Len(applied) /\ Len(applied) \in Nat
          /\ DOMAIN applied' = 1 .. Len(applied) + 1
          /\ \A i \in 1 .. Len(applied) + 1 : applied'[i] = IF i <= Len(applied) THEN applied[i] ELSE <<p, d>>
      BY <2>1, <2>2, RecordedWithRoom
    <2>4. \A i \in DOMAIN applied : applied[i] # <<p, d>>
      BY <2>1 DEF WasApplied
    <2>5. \A i, j \in DOMAIN applied' : applied'[i] = applied'[j] => i = j
      BY <2>3, <2>4 DEF EffectsRecorded
    <2>6. ~(effects[p][d] > 0) /\ effects[p][d] \in Nat
      BY <2>4 DEF EffectsRecorded, AllRemembered, PlansFit, TablesShape
    <2>7. AppliedAtMostOnce'
      BY <1>2, <2>6, OneEffect DEF AppliedAtMostOnce
    <2>8. ASSUME NEW q \in Plans, NEW e \in Deliveries, effects'[q][e] > 0
          PROVE  \E i \in DOMAIN applied' : applied'[i] = <<q, e>>
      <3>1. CASE <<q, e>> = <<p, d>>
        BY <2>3, <3>1
      <3>2. CASE <<q, e>> # <<p, d>>
        <4>1. PICK i \in DOMAIN applied : applied[i] = <<q, e>>
          BY <1>2, <2>8, <3>2, OneEffect DEF EffectsRecorded, AllRemembered
        <4> QED
          BY <2>3, <4>1
      <3> QED
        BY <3>1, <3>2
    <2> QED
      BY <2>5, <2>7, <2>8 DEF EffectsRecorded, AllRemembered
  <1> QED
    BY <1>1, <1>2, EffectsStep

\* While the table has room for every selection, nothing that was applied is forgotten.
LEMMA RecordedAlways == ASSUME SelectionsFit PROVE RecoverySpec => [](EffectsRecorded /\ AppliedAtMostOnce)
  <1>1. RecoveryInit => EffectsRecorded /\ AppliedAtMostOnce
    BY DEF RecoveryInit, EffectsRecorded, AllRemembered, AppliedAtMostOnce
  <1>2. RecoveryInv /\ EffectsRecorded /\ AppliedAtMostOnce /\ [Next]_vars
          => EffectsRecorded' /\ AppliedAtMostOnce'
    BY RecordedStep DEF RecoveryInv
  <1> QED
    BY <1>1, <1>2, RecoveryInvariant, PTL DEF RecoverySpec

---------------------------------------------------------------------------
(* Second: while no recovery row is pruned, the generations remember.        *)

\* A prune that has room for every row deletes none.
LEMMA PrunedNothing ==
    ASSUME RowsFit, NEW table \in [Deliveries -> RecoveryRow], NEW kept \in Pruned(table)
    PROVE  kept = table
  <1> DEFINE rows == {d \in Deliveries : table[d].state # "none"}
  <1>1. PICK gone \in SUBSET rows :
           /\ kept = [d \in Deliveries |-> IF d \in gone THEN NoRecovery ELSE table[d]]
           /\ gone = {} \/ Cardinality(rows \ gone) >= HistoryMax
    BY DEF Pruned
  <1>2. gone = {}
    <2> SUFFICES ASSUME gone # {} PROVE FALSE
      OBVIOUS
    <2>1. PICK d \in gone : TRUE
      OBVIOUS
    <2>2. rows \ gone \subseteq Deliveries /\ d \in Deliveries \ (rows \ gone)
      BY <2>1
    <2> DEFINE left == rows \ gone
    <2>3. IsFiniteSet(Deliveries) /\ left \in SUBSET Deliveries /\ left # Deliveries
      BY <2>2, SpoolAssumption
    <2>4. Cardinality(left) >= HistoryMax
      BY <1>1
    <2> HIDE DEF left
    <2>5. /\ Cardinality(left) \in Nat /\ Cardinality(Deliveries) \in Nat /\ HistoryMax \in Nat
          /\ Cardinality(left) <= Cardinality(Deliveries) /\ Cardinality(left) # Cardinality(Deliveries)
      BY <2>3, FS_Subset, FS_CardinalityType, SpoolAssumption
    <2> QED
      BY <2>4, <2>5 DEF RowsFit
  <1> QED
    BY <1>1, <1>2

\* What a step does to a row that is never pruned: its generation goes on, and a
\* held or settled row of one generation can only be put into quarantine, or lose
\* its place there.
GenerationStep(d) ==
    /\ recovery'[d].generation >= recovery[d].generation
    /\ (recovery[d].state \in {"held", "quarantined"} /\ recovery'[d].generation = recovery[d].generation) =>
         /\ recovery'[d].attempts = recovery[d].attempts
         /\ recovery'[d].state \in {recovery[d].state, "quarantined"}
         /\ recovery[d].state = "quarantined" => (d \in quarantine' => d \in quarantine)

\* Every transaction and every clock is such a step for every delivery.
LEMMA GenerationSteps ==
    ASSUME RowsFit, SpoolTypeOK, TablesAgree, AbsentIsNew, [SpoolNext]_spoolVars, NEW e \in Deliveries
    PROVE  GenerationStep(e)
  <1>0. recovery \in [Deliveries -> RecoveryRow] /\ recovery[e].generation \in Nat
    BY DEF SpoolTypeOK, RecoveryRow
  <1>1. ASSUME recovery'[e] = recovery[e], quarantine' = quarantine PROVE GenerationStep(e)
    BY <1>0, <1>1 DEF GenerationStep
  <1>2. ASSUME recovery'[e] = NextGeneration(recovery[e]) PROVE GenerationStep(e)
    BY <1>0, <1>2 DEF GenerationStep, NextGeneration
  <1>3. ASSUME NEW d \in Deliveries, Admit(d) PROVE GenerationStep(e)
    BY <1>0, <1>1, <1>2, <1>3 DEF Admit, AbsentIsNew
  <1>4. ASSUME NEW batch \in SUBSET Deliveries, Claim(batch) PROVE GenerationStep(e)
    <2>1. batch \subseteq Claimable /\ quarantine' \in Retained(quarantine \cup (batch \cap Unreadable), batch \cap Unreadable)
      BY <1>4 DEF Claim
    <2>2. quarantine' \subseteq quarantine \cup batch
      BY <2>1 DEF Retained
    <2>3. CASE e \in Exhausted \/ e \in batch
      <3>1. recovery[e].state = "eligible"
        BY <2>1, <2>3 DEF Exhausted, Claimable
      <3>2. recovery'[e].generation = recovery[e].generation
        <4>1. CASE e \in Exhausted
          BY <1>0, <1>4, <4>1 DEF Claim, RecoveryRow
        <4>2. CASE e \notin Exhausted /\ e \in Unreadable
          BY <1>0, <1>4, <2>3, <4>2 DEF Claim, RecoveryRow
        <4>3. CASE e \notin Exhausted /\ e \notin Unreadable
          BY <1>0, <1>4, <2>3, <4>3 DEF Claim, RecoveryRow
        <4> QED
          BY <4>1, <4>2, <4>3
      <3> QED
        BY <1>0, <3>1, <3>2 DEF GenerationStep
    <2>4. CASE e \notin Exhausted /\ e \notin batch
      <3>1. recovery'[e] = recovery[e]
        BY <1>4, <2>4 DEF Claim
      <3> QED
        BY <1>0, <2>2, <2>4, <3>1 DEF GenerationStep
    <2> QED
      BY <2>3, <2>4
  <1>5. ASSUME NEW d \in Deliveries, NEW state \in {"committed", "quarantined"},
               recovery' \in Pruned([recovery EXCEPT ![d].state = state])
        PROVE  recovery' = [recovery EXCEPT ![d].state = state]
    <2> DEFINE table == [recovery EXCEPT ![d].state = state]
    <2>1. table \in [Deliveries -> RecoveryRow]
      BY <1>0 DEF RecoveryRow
    <2> HIDE DEF table
    <2>2. recovery' = table
      BY <1>5, <2>1, PrunedNothing DEF table
    <2> QED
      BY <2>2 DEF table
  <1>6. ASSUME NEW d \in Deliveries, Acknowledge(d) PROVE GenerationStep(e)
    <2>1. CASE records[d].state = "claimed"
      <3>1. recovery[d].state = "eligible" /\ quarantine' = quarantine
        BY <1>6, <2>1 DEF TablesAgree, Acknowledge, spoolVars
      <3>2. recovery' = [recovery EXCEPT ![d].state = "committed"]
        BY <1>5, <1>6, <2>1 DEF Acknowledge
      <3> QED
        BY <1>0, <3>1, <3>2 DEF GenerationStep, RecoveryRow
    <2>2. CASE UNCHANGED spoolVars
      BY <1>1, <2>2 DEF spoolVars
    <2> QED
      BY <1>6, <2>1, <2>2 DEF Acknowledge
  <1>7. ASSUME NEW d \in Deliveries, Quarantine(d) PROVE GenerationStep(e)
    <2>1. CASE records[d].state # "absent"
      <3>1. recovery' = [recovery EXCEPT ![d].state = "quarantined"]
        BY <1>5, <1>7, <2>1 DEF Quarantine
      <3>2. quarantine' \subseteq quarantine \cup {d} /\ recovery[d].state # "quarantined"
        BY <1>7, <2>1 DEF Quarantine, Retained, TablesAgree
      <3> QED
        BY <1>0, <3>1, <3>2 DEF GenerationStep, RecoveryRow
    <2>2. CASE UNCHANGED spoolVars
      BY <1>1, <2>2 DEF spoolVars
    <2> QED
      BY <1>7, <2>1, <2>2 DEF Quarantine
  <1>8. ASSUME NEW d \in Deliveries, Retry(d) PROVE GenerationStep(e)
    <2>1. CASE records[d].state = "claimed"
      <3>1. recovery[d].state = "eligible" /\ quarantine' = quarantine
        BY <1>8, <2>1 DEF TablesAgree, Retry, spoolVars
      <3>2. \E next \in {"held", "eligible"} : recovery' = [recovery EXCEPT ![d].state = next]
        <4>1. CASE Spent(recovery[d])
          BY <1>8, <2>1, <4>1 DEF Retry
        <4>2. CASE ~Spent(recovery[d])
          BY <1>8, <2>1, <4>2 DEF Retry
        <4> QED
          BY <4>1, <4>2
      <3> QED
        BY <1>0, <3>1, <3>2 DEF GenerationStep, RecoveryRow
    <2>2. CASE UNCHANGED spoolVars
      BY <1>1, <2>2 DEF spoolVars
    <2> QED
      BY <1>8, <2>1, <2>2 DEF Retry
  <1>9. ASSUME NEW d \in Deliveries, NEW k \in Keys, WaitForDependency(d, k) PROVE GenerationStep(e)
    <2>1. quarantine' = quarantine
      BY <1>9 DEF WaitForDependency
    <2>2. CASE e = d /\ recovery[d].state = "eligible"
      <3>1. recovery'[e] = [recovery[e] EXCEPT !.state = "waiting-dependency", !.key = k]
        BY <1>0, <1>9, <2>2 DEF WaitForDependency
      <3> QED
        BY <1>0, <2>2, <3>1 DEF GenerationStep, RecoveryRow
    <2>3. CASE ~(e = d /\ recovery[d].state = "eligible")
      <3>1. recovery'[e] = recovery[e]
        BY <1>0, <1>9, <2>3 DEF WaitForDependency
      <3> QED
        BY <1>1, <2>1, <3>1
    <2> QED
      BY <2>2, <2>3
  <1>10. ASSUME NEW k \in Keys, ReleaseDependency(k) PROVE GenerationStep(e)
    BY <1>1, <1>2, <1>10 DEF ReleaseDependency
  <1>11. ASSUME NEW d \in Deliveries, Recover(d) PROVE GenerationStep(e)
    BY <1>0, <1>1, <1>2, <1>11 DEF Recover
  <1>12. ASSUME NEW d \in Deliveries, ClaimLeaseLapses(d) \/ BackoffElapses(d) PROVE GenerationStep(e)
    BY <1>1, <1>12 DEF ClaimLeaseLapses, BackoffElapses
  <1>13. ASSUME \/ \E d \in Deliveries, withReceipt \in BOOLEAN : RefuseAdmission(d, withReceipt)
                \/ \E w \in Drainers : TryAcquireDrainLock(w) \/ CompleteDrain(w)
                \/ DrainLockLapses
                \/ UNCHANGED spoolVars
         PROVE  GenerationStep(e)
    <2>1. quarantine' = quarantine /\ recovery' = recovery
      BY <1>13 DEF RefuseAdmission, TryAcquireDrainLock, CompleteDrain, DrainLockLapses, queueVars, spoolVars
    <2> QED
      BY <1>1, <2>1
  <1> QED
    BY <1>3, <1>4, <1>6, <1>7, <1>8, <1>9, <1>10, <1>11, <1>12, <1>13 DEF SpoolNext

\* A row is what a plan saw, or has gone on since.
Follows(p, d) ==
    /\ recovery[d].generation >= plan[p][d].generation
    /\ recovery[d].generation = plan[p][d].generation =>
         recovery[d].attempts = plan[p][d].attempts /\ recovery[d].state \in {plan[p][d].state, "quarantined"}

\* The generations remember: a row that a plan changed is no longer what the plan
\* saw, and neither is one that stopped an application.
GenerationsRemember ==
    /\ \A p \in Plans : \A d \in DOMAIN plan[p] :
          /\ Follows(p, d)
          /\ effects[p][d] > 0 =>
               effects[p][d] = 1 /\ recovery[d].generation > plan[p][d].generation
    /\ \A o \in Operators : apply[o].pc = "refused" =>
          LET p == apply[o].plan  d == apply[o].stale
          IN  ~Current(p, d) /\ (effects[p][d] > 0 => ~WasApplied(p, d))

\* A row that is not what the plan saw never is again.
LEMMA StaleForGood ==
    ASSUME RowsFit, RecoveryInv, RecoveryInv', [Next]_vars, NEW p \in Plans, NEW d \in DOMAIN plan[p],
           Follows(p, d), plan'[p] = plan[p], plan[p] # <<>>
    PROVE  Follows(p, d)' /\ (~Current(p, d) => ~Current(p, d)')
  <1>1. d \in Deliveries /\ plan[p][d] \in SelectionRow
    BY DEF RecoveryInv, PlansFit, TablesShape
  <1>2. recovery[d] \in RecoveryRow /\ recovery'[d] \in RecoveryRow
    BY <1>1 DEF RecoveryInv, SpoolTypeOK
  <1>3. GenerationStep(d)
    BY <1>1, PlansUseSpool, GenerationSteps DEF RecoveryInv
  <1>4. Follows(p, d)'
    BY <1>1, <1>2, <1>3 DEF Follows, GenerationStep, SelectionRow, RecoveryRow
  <1>5. ASSUME Current(p, d)' PROVE Current(p, d)
    <2>1. /\ Recoverable(d)' /\ recovery'[d].state = plan[p][d].state
          /\ recovery'[d].generation = plan[p][d].generation /\ recovery'[d].attempts = plan[p][d].attempts
      BY <1>1, <1>5 DEF Current, Selection, SelectionRow
    <2>2. recovery[d].generation = plan[p][d].generation
      BY <1>1, <1>2, <1>3, <2>1 DEF Follows, GenerationStep, SelectionRow, RecoveryRow
    <2>3. recovery[d].attempts = plan[p][d].attempts /\ recovery[d].state \in {plan[p][d].state, "quarantined"}
      BY <2>2 DEF Follows
    <2>4. recovery[d].state = plan[p][d].state
      BY <1>1, <1>3, <2>1, <2>2, <2>3 DEF GenerationStep, SelectionRow
    <2>5. Selection(d) = plan[p][d]
      BY <1>1, <2>2, <2>3, <2>4 DEF Selection, SelectionRow
    <2>6. CASE plan[p][d].state = "held"
      <3>1. records[d].state = "pending"
        BY <1>1, <2>4, <2>6 DEF RecoveryInv, TablesAgree, SpoolTypeOK, RecordRow
      <3> QED
        BY <2>4, <2>5, <2>6, <3>1 DEF Current, Recoverable
    <2>7. CASE plan[p][d].state = "quarantined"
      <3>1. d \in quarantine' /\ d \notin Unreadable
        BY <2>1, <2>7 DEF Recoverable
      <3>2. d \in quarantine
        BY <1>3, <2>1, <2>2, <2>4, <2>7, <3>1 DEF GenerationStep
      <3>3. records[d].state = "absent"
        BY <1>1, <2>4, <2>7 DEF RecoveryInv, TablesAgree
      <3> QED
        BY <2>4, <2>5, <2>7, <3>1, <3>2, <3>3 DEF Current, Recoverable
    <2> QED
      BY <1>1, <2>6, <2>7 DEF SelectionRow
  <1> QED
    BY <1>4, <1>5

\* A plan that was made stays as it was made.
LEMMA PlanStep ==
    ASSUME PlansFit, [Next]_vars, NEW p \in Plans
    PROVE  plan'[p] = plan[p] \/ CreatePlan(p)
  <1>1. ASSUME NEW q \in Plans, CreatePlan(q) PROVE plan'[p] = plan[p] \/ CreatePlan(p)
    BY <1>1 DEF CreatePlan, PlansFit, TablesShape
  <1>2. ASSUME NEW o \in Operators, NEW q \in Plans, BeginApply(o, q) PROVE plan' = plan
    BY <1>2 DEF BeginApply
  <1>3. ASSUME NEW o \in Operators, FinishApply(o) \/ Crash(o) PROVE plan' = plan
    BY <1>3 DEF FinishApply, Crash
  <1>4. ASSUME NEW o \in Operators, NEW d \in Deliveries, ApplySelection(o, d) PROVE plan' = plan
    BY <1>4 DEF ApplySelection
  <1>5. ASSUME SpoolUse \/ UNCHANGED vars PROVE plan' = plan
    BY <1>5 DEF SpoolUse, planVars, vars
  <1> QED
    BY <1>1, <1>2, <1>3, <1>4, <1>5 DEF Next

\* What stops an application is a selection that has no row and is not current.
Stops(row) == /\ UNCHANGED <<spoolVars, plan, applied, effects>>
              /\ ~WasApplied(row.plan, row.stale) /\ ~Current(row.plan, row.stale)

\* An application that is refused was refused by this step, or stays as it was.
LEMMA RefusedStep ==
    ASSUME PlansFit, [Next]_vars, NEW o \in Operators, apply'[o].pc = "refused"
    PROVE  apply'[o] = apply[o] \/ Stops(apply'[o])
  <1>0. apply \in [Operators -> ApplyRow]
    BY DEF PlansFit, TablesShape
  <1>1. ASSUME NEW e \in Operators, NEW p \in Plans, BeginApply(e, p)
        PROVE  apply'[o] = apply[o] \/ Stops(apply'[o])
    <2>1. CASE e = o
      <3>1. UNCHANGED <<spoolVars, plan, applied, effects>>
        BY <1>1 DEF BeginApply
      <3>2. CASE apply' = [apply EXCEPT ![e] = [[NotApplying EXCEPT !.plan = p] EXCEPT
                                                   !.pc = "applying", !.todo = DOMAIN plan[p]]]
        <4>1. apply'[o].pc = "applying"
          BY <1>0, <2>1, <3>2 DEF NotApplying
        <4> QED
          BY <4>1
      <3>3. ASSUME NEW d \in DOMAIN plan[p], ~WasApplied(p, d), ~Current(p, d),
                   apply' = [apply EXCEPT ![e] = [[NotApplying EXCEPT !.plan = p] EXCEPT
                                                     !.pc = "refused", !.stale = d]]
            PROVE  Stops(apply'[o])
        <4>1. apply'[o].plan = p /\ apply'[o].stale = d
          BY <1>0, <2>1, <3>3 DEF NotApplying
        <4> QED
          BY <3>1, <3>3, <4>1 DEF Stops
      <3> QED
        BY <1>1, <3>2, <3>3 DEF BeginApply
    <2>2. CASE e # o
      BY <1>0, <1>1, <2>2 DEF BeginApply
    <2> QED
      BY <2>1, <2>2
  <1>2. ASSUME NEW e \in Operators, FinishApply(e) \/ Crash(e) PROVE apply'[o] = apply[o]
    <2>1. apply'[e].pc # "refused" /\ \A x \in Operators \ {e} : apply'[x] = apply[x]
      BY <1>0, <1>2 DEF FinishApply, Crash, NotApplying, ApplyRow
    <2> QED
      BY <2>1
  <1>3. ASSUME NEW e \in Operators, NEW d \in Deliveries, ApplySelection(e, d)
        PROVE  apply'[o] = apply[o] \/ Stops(apply'[o])
    <2>1. apply[e] \in ApplyRow /\ apply[e].pc = "applying"
      BY <1>0, <1>3 DEF ApplySelection
    <2>2. CASE e # o
      BY <1>0, <1>3, <2>2 DEF ApplySelection
    <2>3. CASE e = o
      <3>1. PICK row : row = apply[o]
        OBVIOUS
      <3>2. row \in ApplyRow /\ row.pc = "applying"
        BY <2>1, <2>3, <3>1
      <3>3. ~(apply'[o] = [row EXCEPT !.todo = @ \ {d}, !.already = @ + 1])
        BY <3>2 DEF ApplyRow
      <3>4. ~(apply'[o] = [row EXCEPT !.todo = @ \ {d}, !.changed = @ + 1])
        BY <3>2 DEF ApplyRow
      <3>5. /\ ~WasApplied(row.plan, d) /\ ~Current(row.plan, d) /\ UNCHANGED <<spoolVars, plan, applied, effects>>
            /\ apply'[o] = [row EXCEPT !.pc = "refused", !.stale = d]
        BY <1>0, <1>3, <2>3, <3>1, <3>3, <3>4 DEF ApplySelection
      <3>6. apply'[o].plan = row.plan /\ apply'[o].stale = d
        BY <3>2, <3>5 DEF ApplyRow
      <3> QED
        BY <3>5, <3>6 DEF Stops
    <2> QED
      BY <2>2, <2>3
  <1>4. ASSUME NEW p \in Plans, CreatePlan(p) PROVE apply'[o] = apply[o]
    BY <1>4 DEF CreatePlan
  <1>5. ASSUME SpoolUse \/ UNCHANGED vars PROVE apply'[o] = apply[o]
    BY <1>5 DEF SpoolUse, planVars, vars
  <1> QED
    BY <1>1, <1>2, <1>3, <1>4, <1>5 DEF Next

\* What a plan changed has gone on to another generation.
LEMMA ChangedGoesOn ==
    ASSUME RowsFit, RecoveryInv, RecoveryInv', GenerationsRemember, [Next]_vars,
           NEW p \in Plans, NEW d \in DOMAIN plan'[p]
    PROVE  Follows(p, d)' /\ (effects'[p][d] > 0 =>
                effects'[p][d] = 1 /\ recovery'[d].generation > plan'[p][d].generation)
  <1>1. CASE CreatePlan(p)
    <2>1. UNCHANGED <<spoolVars, effects>> /\ plan[p] = <<>>
      BY <1>1 DEF CreatePlan
    <2>2. PICK selected \in SUBSET {e \in Deliveries : Recoverable(e)} :
             plan' = [plan EXCEPT ![p] = [e \in selected |-> Selection(e)]]
      BY <1>1 DEF CreatePlan
    <2>3. plan'[p] = [e \in selected |-> Selection(e)]
      BY <2>2 DEF RecoveryInv, PlansFit, TablesShape
    <2>4. d \in Deliveries /\ plan'[p][d] = Selection(d) /\ recovery[d] \in RecoveryRow /\ recovery' = recovery
      BY <2>1, <2>3 DEF RecoveryInv, SpoolTypeOK, spoolVars
    <2>5. Follows(p, d)'
      BY <2>4 DEF Follows, Selection, RecoveryRow
    <2>6. ~(effects'[p][d] > 0)
      BY <2>1, <2>4 DEF RecoveryInv, PlansFit
    <2> QED
      BY <2>5, <2>6
  <1>2. CASE plan'[p] = plan[p]
    <2>1. d \in Deliveries /\ plan[p] # <<>> /\ plan[p][d] \in SelectionRow
      BY <1>2 DEF RecoveryInv, PlansFit, TablesShape
    <2>2. recovery[d] \in RecoveryRow /\ recovery'[d] \in RecoveryRow /\ effects[p][d] \in Nat
      BY <2>1 DEF RecoveryInv, SpoolTypeOK, PlansFit, TablesShape
    <2>3. Follows(p, d) /\ Follows(p, d)'
      BY <1>2, <2>1, StaleForGood DEF GenerationsRemember
    <2>4. GenerationStep(d)
      BY <2>1, PlansUseSpool, GenerationSteps DEF RecoveryInv
    <2>5. CASE effects'[p][d] = effects[p][d]
      BY <1>2, <2>1, <2>2, <2>3, <2>4, <2>5 DEF GenerationsRemember, GenerationStep, SelectionRow, RecoveryRow
    <2>6. CASE TakesEffect(p, d)
      <3>1. recovery[d].generation = plan[p][d].generation
        BY <2>6 DEF TakesEffect, Current, Selection
      <3>2. effects[p][d] = 0
        BY <1>2, <2>1, <2>2, <3>1 DEF GenerationsRemember, SelectionRow, RecoveryRow
      <3>3. effects'[p][d] = 1
        BY <2>1, <2>6, <3>2, OneEffect DEF RecoveryInv
      <3>4. recovery'[d] = NextGeneration(recovery[d])
        BY <2>1, <2>6 DEF TakesEffect, Recover, RecoveryInv, SpoolTypeOK
      <3> QED
        BY <1>2, <2>2, <2>3, <3>1, <3>3, <3>4 DEF NextGeneration, RecoveryRow
    <2>7. effects'[p][d] = effects[p][d] \/ TakesEffect(p, d)
      <3>1. CASE UNCHANGED <<applied, effects>>
        BY <3>1
      <3>2. ASSUME NEW q \in Plans, NEW e \in Deliveries, TakesEffect(q, e), <<q, e>> # <<p, d>>
            PROVE  effects'[p][d] = effects[p][d]
        BY <2>1, <3>2, OneEffect DEF RecoveryInv
      <3> QED
        BY <3>1, <3>2, EffectsStep DEF RecoveryInv
    <2> QED
      BY <2>3, <2>5, <2>6, <2>7
  <1> QED
    BY <1>1, <1>2, PlanStep DEF RecoveryInv

\* What stopped an application is not taken up by another.
LEMMA StoppedStays ==
    ASSUME RowsFit, RecoveryInv, RecoveryInv', GenerationsRemember, [Next]_vars,
           NEW o \in Operators, apply'[o].pc = "refused",
           NEW p, NEW d, p = apply'[o].plan, d = apply'[o].stale
    PROVE  ~Current(p, d)' /\ (effects'[p][d] > 0 => ~WasApplied(p, d)')
  <1>1. CASE Stops(apply'[o])
    <2>1. UNCHANGED <<spoolVars, plan, applied, effects>> /\ ~WasApplied(p, d) /\ ~Current(p, d)
      BY <1>1 DEF Stops
    <2>2. ~WasApplied(p, d)' /\ ~Current(p, d)'
      BY <2>1 DEF WasApplied, Current, Recoverable, Selection, spoolVars
    <2> QED
      BY <2>2
  <1>2. CASE apply'[o] = apply[o]
    <2>1. p \in Plans /\ d \in DOMAIN plan[p] /\ plan[p] # <<>> /\ d \in Deliveries
      BY <1>2 DEF RecoveryInv, PlansFit, TablesShape, ApplicationFits
    <2>2. ~Current(p, d) /\ (effects[p][d] > 0 => ~WasApplied(p, d)) /\ Follows(p, d)
      BY <1>2, <2>1 DEF GenerationsRemember
    <2>3. plan'[p] = plan[p]
      BY <2>1, PlanStep DEF CreatePlan, RecoveryInv
    <2>4. ~Current(p, d)'
      BY <2>1, <2>2, <2>3, StaleForGood
    <2>5. CASE UNCHANGED <<applied, effects>>
      BY <2>2, <2>4, <2>5 DEF WasApplied
    <2>6. ASSUME NEW q \in Plans, NEW e \in Deliveries, TakesEffect(q, e)
          PROVE  effects'[p][d] = effects[p][d] /\ (WasApplied(p, d)' => WasApplied(p, d))
      <3>1. <<q, e>> # <<p, d>> /\ applied' = Recorded(q, e)
        BY <2>2, <2>6 DEF TakesEffect
      <3>2. effects'[p][d] = effects[p][d]
        BY <2>1, <2>6, <3>1, OneEffect DEF RecoveryInv
      <3>3. \A i \in DOMAIN applied' :
               applied'[i] = <<q, e>> \/ \E j \in DOMAIN applied : applied[j] = applied'[i]
        BY <3>1, RecordedRows DEF RecoveryInv, PlansFit, TablesShape
      <3> QED
        BY <3>1, <3>2, <3>3 DEF WasApplied
    <2> QED
      BY <2>2, <2>4, <2>5, <2>6, EffectsStep DEF RecoveryInv
  <1> QED
    BY <1>1, <1>2, RefusedStep DEF RecoveryInv

\* While no recovery row is pruned, the generations remember.
LEMMA GenerationsAlways == ASSUME RowsFit PROVE RecoverySpec => []GenerationsRemember
  <1>1. RecoveryInit => GenerationsRemember
    BY DEF RecoveryInit, GenerationsRemember, NotApplying
  <1>2. RecoveryInv /\ RecoveryInv' /\ GenerationsRemember /\ [Next]_vars => GenerationsRemember'
    <2> SUFFICES ASSUME RecoveryInv, RecoveryInv', GenerationsRemember, [Next]_vars
                 PROVE  GenerationsRemember'
      OBVIOUS
    <2>1. ASSUME NEW p \in Plans, NEW d \in DOMAIN plan'[p]
          PROVE  Follows(p, d)' /\ (effects'[p][d] > 0 =>
                    effects'[p][d] = 1 /\ recovery'[d].generation > plan'[p][d].generation)
      BY ChangedGoesOn
    <2>2. ASSUME NEW o \in Operators, apply'[o].pc = "refused",
                 NEW p, NEW d, p = apply'[o].plan, d = apply'[o].stale
          PROVE  ~Current(p, d)' /\ (effects'[p][d] > 0 => ~WasApplied(p, d)')
      BY <2>2, StoppedStays
    <2> QED
      BY <2>1, <2>2 DEF GenerationsRemember
  <1> QED
    BY <1>1, <1>2, RecoveryInvariant, PTL DEF RecoverySpec

---------------------------------------------------------------------------
\* However often, by however many operators and interrupted wherever a plan is
\* applied, it changes a delivery once at most, if either the applied selections
\* or the generations are all remembered.
THEOREM NeverAppliedTwice ==
    ASSUME SelectionsFit \/ RowsFit
    PROVE  RecoverySpec => []AppliedAtMostOnce
  <1>1. RecoveryInv /\ GenerationsRemember => AppliedAtMostOnce
    <2> SUFFICES ASSUME RecoveryInv, GenerationsRemember, NEW p \in Plans, NEW d \in Deliveries
                 PROVE  effects[p][d] <= 1
      BY DEF AppliedAtMostOnce
    <2>1. effects[p][d] \in Nat /\ (effects[p][d] > 0 => d \in DOMAIN plan[p])
      BY DEF RecoveryInv, PlansFit, TablesShape
    <2> QED
      BY <2>1 DEF GenerationsRemember
  <1>2. CASE SelectionsFit
    BY <1>2, RecordedAlways, PTL
  <1>3. CASE RowsFit
    BY <1>1, <1>3, GenerationsAlways, RecoveryInvariant, PTL
  <1> QED
    BY <1>2, <1>3

\* An application that ends has applied its whole plan, each selection once, here
\* or earlier, and counted them all.
THEOREM DoneIsTrue ==
    ASSUME SelectionsFit \/ RowsFit
    PROVE  RecoverySpec => []DoneMeansApplied
  <1>1. RecoveryInv /\ AppliedAtMostOnce => DoneMeansApplied
    <2> SUFFICES ASSUME RecoveryInv, AppliedAtMostOnce, NEW o \in Operators, apply[o].pc = "done"
                 PROVE  /\ \A d \in DOMAIN plan[apply[o].plan] : effects[apply[o].plan][d] = 1
                        /\ apply[o].changed + apply[o].already = Cardinality(DOMAIN plan[apply[o].plan])
      BY DEF DoneMeansApplied
    <2>1. ApplicationFits(apply[o]) /\ apply[o] \in ApplyRow
      BY DEF RecoveryInv, PlansFit, TablesShape
    <2>2. apply[o].plan \in Plans /\ DOMAIN plan[apply[o].plan] \subseteq Deliveries /\ apply[o].todo = {}
      BY <2>1 DEF ApplicationFits, RecoveryInv, PlansFit, TablesShape
    <2>3. ASSUME NEW d \in DOMAIN plan[apply[o].plan] PROVE effects[apply[o].plan][d] = 1
      <3>1. effects[apply[o].plan][d] > 0 /\ effects[apply[o].plan][d] <= 1 /\ effects[apply[o].plan][d] \in Nat
        BY <2>1, <2>2 DEF ApplicationFits, AppliedAtMostOnce, RecoveryInv, PlansFit, TablesShape
      <3> QED
        BY <3>1
    <2>4. apply[o].changed + apply[o].already + Cardinality(apply[o].todo) = Cardinality(DOMAIN plan[apply[o].plan])
      BY <2>1 DEF ApplicationFits
    <2>5. Cardinality(apply[o].todo) = 0 /\ apply[o].changed \in Nat /\ apply[o].already \in Nat
      BY <2>1, <2>2, FS_EmptySet DEF ApplyRow
    <2> QED
      BY <2>3, <2>4, <2>5
  <1> QED
    BY <1>1, NeverAppliedTwice, RecoveryInvariant, PTL

\* As long as what was applied is remembered, a plan that is applied again is not
\* refused for what it did itself.
THEOREM PlansResume ==
    ASSUME RowsFit
    PROVE  RecoverySpec => []OwnEffectsAreNotStale
  <1>1. RecoveryInv /\ GenerationsRemember => OwnEffectsAreNotStale
    <2> SUFFICES ASSUME RecoveryInv, GenerationsRemember, AllRemembered,
                        NEW o \in Operators, apply[o].pc = "refused"
                 PROVE  effects[apply[o].plan][apply[o].stale] = 0
      BY DEF OwnEffectsAreNotStale
    <2> DEFINE p == apply[o].plan
               d == apply[o].stale
    <2>1. p \in Plans /\ d \in Deliveries /\ effects[p][d] \in Nat
      BY DEF RecoveryInv, PlansFit, TablesShape, ApplicationFits
    <2>2. effects[p][d] > 0 => ~WasApplied(p, d)
      BY DEF GenerationsRemember
    <2>3. effects[p][d] > 0 => WasApplied(p, d)
      BY <2>1 DEF AllRemembered, WasApplied
    <2> QED
      BY <2>1, <2>2, <2>3
  <1> QED
    BY <1>1, GenerationsAlways, RecoveryInvariant, PTL
=============================================================================
