------------------------------ MODULE SessionReport ------------------------------
(***************************************************************************)
(* The report of one session (evidence/reconstructor.ts): observations, as *)
(* they were delivered, in any order and more than once, become operations *)
(* with their results and verifications, a lifecycle and measurements.     *)
(* What the code throws on is no report (None).  Identifiers and times  *)
(* are numbers, in the order in which the code sorts them.                 *)
(***************************************************************************)
EXTENDS Integers, Sequences, FiniteSets, SequencesExt, TLC

CONSTANT None

(* An observation is [id, event, exec, kind, at, related, outcome, exit,     *)
(* reading, until]: exec is the execution key, reading the interpretation of *)
(* a result; None stands for a field that is not there.                      *)

\* projectCapturedSessionEvidence: what the capture of a command and of its result give.
Projected(session, events) ==
    [startedAt |-> session.startedAt, endedAt |-> session.endedAt,
     attempted |-> FALSE, expected |-> None, through |-> None, usage |-> <<>>,
     observations |->
        LET shown == SelectSeq(events, LAMBDA e : e.phase # "pre-intent")
        IN  [i \in DOMAIN shown |->
                LET e == shown[i]
                    request == e.phase = "pre-action"
                IN  [id |-> e.id, event |-> e.event, kind |-> IF request THEN "request" ELSE "result",
                     exec |-> IF request THEN e.event ELSE e.related,
                     at |-> e.at, related |-> e.related,
                     outcome |-> IF ~request /\ e.outcome = None THEN "unknown" ELSE e.outcome,
                     exit |-> e.exit, reading |-> None, until |-> None]]]

---------------------------------------------------------------------------
(* Validation and duplicates. *)

IsObservation(o) ==
    /\ o.related # o.event
    /\ o.kind \in {"result", "task-verification"} => o.related # None
    /\ o.kind = "request" => o.related = None
    /\ o.kind # "result" => o.exit = None /\ o.reading = None
    /\ o.exit # None /\ o.outcome \in {"succeeded", "failed"} => (o.exit = 0 <=> o.outcome = "succeeded")
    /\ o.until # None => o.kind = "human-wait" /\ o.at <= o.until

Earlier(o, p) ==
    \/ o.at < p.at
    \/ o.at = p.at /\ o.event < p.event
    \/ o.at = p.at /\ o.event = p.event /\ o.id < p.id
SameEvent(o, p) == o.kind = p.kind /\ o.event = p.event
SameEvidence(o, p) == [o EXCEPT !.id = p.id] = p
Conflicting(list) ==
    \E o, p \in ToSet(list) :
        \/ o # p /\ o.id = p.id
        \/ SameEvent(o, p) /\ ~SameEvidence(o, p)

FirstOfEach(list, Same(_, _)) ==
    FoldLeft(LAMBDA kept, o : IF \E k \in ToSet(kept) : Same(k, o) THEN kept ELSE Append(kept, o), <<>>, list)
SameId(o, p) == o.id = p.id

UniqueAsDelivered(list) == FirstOfEach(FirstOfEach(list, SameId), SameEvent)     \* a mutant: not sorted
Unique(list) == FirstOfEach(SortSeq(FirstOfEach(list, SameId), Earlier), SameEvent)

\* validateObservationBounds
WithinSession(input, o) ==
    /\ input.startedAt <= o.at
    /\ input.endedAt # None => (IF o.until = None THEN o.at ELSE o.until) <= input.endedAt

---------------------------------------------------------------------------
(* Operations. *)

OfRequest(list, q) == SelectSeq(list, LAMBDA o : o.related = q.event)

\* The one result that has the execution key of the request, or no key as it has none.
Qualified(q, results) ==
    LET own == SelectSeq(results, LAMBDA r : r.exec = q.exec)
    IN  IF Len(own) = 1 THEN own[1] ELSE None

Verified(checks, outcome) == \E v \in ToSet(checks) : v.outcome = outcome
Reading(r) ==
    IF r.reading = None /\ r.exit # None /\ r.exit # 0 THEN "unclassified-nonzero" ELSE r.reading
ProcessOutcome(r) ==
    IF r = None \/ r.outcome \in {None, "unknown"} \/ Reading(r) = "no-match" THEN "unknown"
    ELSE IF r.exit = None THEN r.outcome ELSE IF r.exit = 0 THEN "succeeded" ELSE "failed"
TaskOutcome(checks) ==
    IF Verified(checks, "failed") THEN "failed"
    ELSE IF checks # <<>> /\ \A v \in ToSet(checks) : v.outcome = "succeeded" THEN "succeeded" ELSE "unknown"

OperationFrom(q, results, checks) ==
    LET result == Qualified(q, results)
        process == ProcessOutcome(result)
        task == TaskOutcome(checks)
    IN  [request |-> q.id, result |-> IF result = None THEN None ELSE result.id,
         unknown |-> IF result # None THEN IF result.exit = None THEN "source-field-absent" ELSE None
                     ELSE IF results # <<>> THEN "correlation-missing" ELSE "result-not-delivered",
         reading |-> IF result = None THEN None ELSE Reading(result),
         checks |-> [i \in DOMAIN checks |-> checks[i].id], confirmed |-> Verified(checks, "succeeded"),
         from |-> q.at, until |-> IF result = None THEN None ELSE result.at,
         process |-> process, task |-> task,
         outcome |-> IF process = "failed" THEN "command-failed"
                     ELSE IF task = "failed" THEN "task-verification-failed"
                     ELSE IF process = "succeeded" THEN "process-succeeded" ELSE "unknown"]

\* What operationFrom throws on.
Sound(op) ==
    /\ op.until # None => op.from <= op.until
    /\ op.reading = "expected-red" => op.confirmed

Lifecycle(input) ==
    IF input.endedAt # None
    THEN IF input.attempted /\ input.expected # None /\ input.through = input.expected
         THEN "reconciled-complete" ELSE "source-ended"
    ELSE IF input.attempted THEN "incomplete" ELSE "open"

---------------------------------------------------------------------------
(* Measurements. *)

UnionDuration(intervals) ==
    LET Extend(sum, i) ==
            IF sum.end = None THEN [sum EXCEPT !.start = i[1], !.end = i[2]]
            ELSE IF i[1] > sum.end
            THEN [total |-> sum.total + sum.end - sum.start, start |-> i[1], end |-> i[2]]
            ELSE [sum EXCEPT !.end = IF i[2] > @ THEN i[2] ELSE @]
        ordered == SortSeq(intervals, LAMBDA i, j : i[1] < j[1] \/ (i[1] = j[1] /\ i[2] < j[2]))
        sum == FoldLeft(Extend, [total |-> 0, start |-> 0, end |-> None], ordered)
    IN  IF sum.end = None THEN 0 ELSE sum.total + sum.end - sum.start

(* A usage snapshot is [id, at, mode, scope, lineage, input, cache]; output   *)
(* and analysis tokens are added up as these two are.                        *)
Fields == {"input", "cache"}
IsUsage(u) == u.cache # None /\ u.input # None => u.cache <= u.input
SumOf(list) == FoldLeft(LAMBDA sum, n : sum + n, 0, list)
Supplied(list, f) == LET has == SelectSeq(list, LAMBDA u : u[f] # None) IN [i \in DOMAIN has |-> has[i][f]]

\* The counts of the session where there are any, of its subagents otherwise.
Selected(usage) ==
    LET session == SelectSeq(usage, LAMBDA u : u.scope = "session")
    IN  IF session = <<>> THEN usage ELSE session
Lineages(usage) == {u.lineage : u \in ToSet(usage)}
OfLineage(usage, l) ==
    SortSeq(SelectSeq(usage, LAMBDA u : u.lineage = l), LAMBDA u, v : u.at < v.at \/ (u.at = v.at /\ u.id < v.id))
Counted(lineage) == IF lineage[1].mode = "cumulative" THEN <<Last(lineage)>> ELSE lineage
Monotonic(lineage, f) == LET n == Supplied(lineage, f) IN \A i \in 2 .. Len(n) : n[i - 1] <= n[i]
UsageIsSound(usage) ==
    /\ \A u, v \in ToSet(usage) : u.id = v.id => u = v
    /\ \A u \in ToSet(usage) : IsUsage(u)
    /\ \A l \in Lineages(Selected(usage)) :
          LET lineage == OfLineage(Selected(usage), l)
          IN  /\ \A u \in ToSet(lineage) : u.mode = lineage[1].mode
              /\ lineage[1].mode = "cumulative" => \A f \in Fields : Monotonic(lineage, f)
Tokens(usage, f) ==
    LET counted == FlattenSeq([i \in 1 .. Cardinality(Lineages(Selected(usage))) |->
                       Counted(OfLineage(Selected(usage), SetToSeq(Lineages(Selected(usage)))[i]))])
    IN  IF Supplied(counted, f) = <<>> THEN None ELSE SumOf(Supplied(counted, f))

---------------------------------------------------------------------------
\* validateInput, for what the properties tell apart.
IsInput(input) ==
    /\ input.endedAt # None => input.startedAt <= input.endedAt
    /\ input.expected # None /\ input.through # None => input.through <= input.expected
    /\ UsageIsSound(input.usage)
    /\ \A o \in ToSet(input.observations) : IsObservation(o)

\* reconstructSessionEvidence
Report(input) ==
    LET unique == Unique(input.observations)
        ofKind(k) == SelectSeq(unique, LAMBDA o : o.kind = k)
        requests == ofKind("request")
        operations == [i \in DOMAIN requests |->
            OperationFrom(requests[i], OfRequest(ofKind("result"), requests[i]),
                          OfRequest(ofKind("task-verification"), requests[i]))]
        used == UNION { {op.result} \cup ToSet(op.checks) : op \in ToSet(operations) }
        ended == SelectSeq(operations, LAMBDA op : op.until # None)
        waits == SelectSeq(unique, LAMBDA o : o.kind = "human-wait" /\ o.until # None)
    IN  IF ~IsInput(input) \/ Conflicting(input.observations)
           \/ (\E o \in ToSet(unique) : ~WithinSession(input, o)) \/ (\E op \in ToSet(operations) : ~Sound(op))
        THEN None
        ELSE [lifecycle |-> Lifecycle(input), operations |-> operations,
              unmatched |-> {o.id : o \in {x \in ToSet(unique) : x.kind \in {"result", "task-verification"}}} \ used,
              retained |-> Len(unique), duplicates |-> Len(input.observations) - Len(unique),
              elapsed |-> IF input.endedAt = None THEN None ELSE input.endedAt - input.startedAt,
              active |-> UnionDuration([i \in DOMAIN ended |-> <<ended[i].from, ended[i].until>>]),
              waiting |-> UnionDuration([i \in DOMAIN waits |-> <<waits[i].at, waits[i].until>>]),
              tokens |-> [f \in Fields |-> Tokens(input.usage, f)]]
=============================================================================
