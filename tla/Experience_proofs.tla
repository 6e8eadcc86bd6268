-------------------------- MODULE Experience_proofs --------------------------
(***************************************************************************)
(* Theorems about the experience database: the evidence of a session, for  *)
(* any capture records and annotation files, any events of an older        *)
(* version, and pages and backfills of any size; the use of advice, for    *)
(* any lessons, operations and references; knowledge and its evidence, for *)
(* any imports, updates and results; and the candidate lessons, for any    *)
(* candidates and evidence.                                                *)
(***************************************************************************)
EXTENDS SessionEvidence, AdviceUsage, KnowledgeEvidence, CandidateReview,
        FiniteSetTheorems, SequenceTheorems, TLAPS

---------------------------------------------------------------------------
(* Natural numbers, and the first of a set of ordinals.                      *)

LEMMA LeastNatural ==
    ASSUME NEW S \in SUBSET Nat, S # {}
    PROVE  \E x \in S : \A y \in S : x <= y
  <1> DEFINE below == {0 .. x : x \in S}
             smaller == StrictSubsetOrdering(Nat)
  <1>1. below \subseteq FiniteSubsetsOf(Nat) /\ below # {}
    <2>1. \A x \in S : IsFiniteSet(0 .. x) /\ 0 .. x \in SUBSET Nat
      BY FS_Interval
    <2> QED BY <2>1 DEF FiniteSubsetsOf
  <1>2. IsWellFoundedOn(smaller, FiniteSubsetsOf(Nat))
    BY FS_StrictSubsetOrderingWellFounded
  <1> HIDE DEF below, smaller
  <1>3. PICK b \in below : \A c \in below : ~(<<c, b>> \in smaller)
    BY <1>1, <1>2, WFMin, Zenon
  <1> USE DEF below, smaller
  <1>4. PICK x \in S : b = 0 .. x
    OBVIOUS
  <1>5. ASSUME NEW y \in S, y < x PROVE FALSE
    <2>1. 0 .. y \in SUBSET Nat /\ b \in SUBSET Nat
      BY <1>4
    <2>2. x \in b /\ x \notin 0 .. y /\ 0 .. y \subseteq b
      BY <1>4, <1>5
    <2>3. <<0 .. y, b>> \in smaller
      BY <2>1, <2>2 DEF StrictSubsetOrdering
    <2> QED BY <1>3, <2>3
  <1> QED BY <1>5

\* A bounded set of natural numbers has a greatest element, and Max is it.
LEMMA MaxOf ==
    ASSUME NEW S \in SUBSET Nat, S # {}, NEW h \in Nat, \A x \in S : x <= h
    PROVE  Max(S) \in S /\ \A x \in S : x <= Max(S)
  <1> DEFINE bounds == {b \in Nat : \A x \in S : x <= b}
  <1>1. PICK b \in bounds : \A c \in bounds : b <= c
    <2>1. h \in bounds
      OBVIOUS
    <2> QED BY <2>1, LeastNatural
  <1>2. b \in S
    <2> SUFFICES ASSUME b \notin S PROVE FALSE
      OBVIOUS
    <2>1. b # 0
      <3>1. PICK x \in S : TRUE
        OBVIOUS
      <3>2. x <= b /\ x # b /\ x \in Nat
        BY <3>1
      <3> QED BY <3>2
    <2>2. b - 1 \in bounds
      <3>1. \A x \in S : x <= b - 1
        BY <1>1
      <3> QED BY <1>1, <2>1, <3>1
    <2> QED BY <1>1, <2>2
  <1>3. \E x \in S : \A y \in S : x >= y
    BY <1>1, <1>2
  <1>4. Max(S) \in S /\ \A y \in S : Max(S) >= y
    BY <1>3 DEF Max
  <1> QED BY <1>4

LEMMA MaxIs ==
    ASSUME NEW S \in SUBSET Nat, NEW m \in S, \A x \in S : x <= m
    PROVE  Max(S) = m
  <1>1. S # {} /\ m \in Nat
    OBVIOUS
  <1>2. PICK n : n = Max(S)
    OBVIOUS
  <1>3. n \in S /\ \A x \in S : x <= n
    BY <1>1, <1>2, MaxOf
  <1>4. n \in Nat /\ m <= n /\ n <= m
    BY <1>1, <1>3
  <1> QED BY <1>1, <1>2, <1>4

LEMMA FiniteBelow ==
    ASSUME NEW S \in SUBSET Nat, NEW m \in Nat
    PROVE  IsFiniteSet({x \in S : x < m}) /\ Cardinality({x \in S : x < m}) \in Nat
  <1> DEFINE below == {x \in S : x < m}
  <1>1. below \in SUBSET Nat /\ \A x \in below : x <= m
    <2>1. \A x \in below : x \in Nat /\ x < m
      OBVIOUS
    <2> HIDE DEF below
    <2> QED BY <2>1
  <1> HIDE DEF below
  <1>2. IsFiniteSet(below)
    BY <1>1, FS_BoundedSetOfNaturals
  <1>3. Cardinality(below) \in Nat
    BY <1>2, FS_CardinalityType
  <1> QED BY <1>2, <1>3 DEF below

LEMMA FewerBelow ==
    ASSUME NEW S \in SUBSET Nat, NEW T \in SUBSET Nat, NEW m \in Nat, NEW n \in Nat,
           \A x \in S : x < m => x \in T /\ x < n
    PROVE  Cardinality({x \in S : x < m}) <= Cardinality({x \in T : x < n})
  <1>1. {x \in S : x < m} \in SUBSET {x \in T : x < n}
    OBVIOUS
  <1> QED BY <1>1, FiniteBelow, FS_Subset

\* What is left out of the first has a full page before it.
LEMMA FirstIsFull ==
    ASSUME NEW S \in SUBSET Nat, NEW m \in S, m \notin First(S)
    PROVE  Cardinality({x \in First(S) : x < m}) >= PageLimit
  <1> DEFINE missing == {x \in S : x \notin First(S)}
  <1>1. PICK k \in missing : \A x \in missing : k <= x
    BY LeastNatural
  <1>2. Cardinality({x \in S : x < k}) >= PageLimit
    <2>1. ~(Cardinality({x \in S : x < k}) < PageLimit)
      BY <1>1 DEF First
    <2>2. Cardinality({x \in S : x < k}) \in Nat
      BY <1>1, FiniteBelow
    <2> QED BY <2>1, <2>2, EvidenceAssumption
  <1>3. First(S) \in SUBSET Nat /\ \A x \in S : x < k => x \in First(S) /\ x < m
    <2>1. First(S) \subseteq S
      BY DEF First
    <2>2. k \in Nat /\ m \in Nat /\ k <= m
      BY <1>1
    <2>3. ASSUME NEW x \in S, x < k PROVE x \in First(S) /\ x < m
      <3>1. x \in Nat
        OBVIOUS
      <3>2. x \notin missing
        BY <1>1, <2>2, <2>3, <3>1
      <3> QED BY <2>2, <2>3, <3>1, <3>2
    <2> QED BY <2>1, <2>3
  <1>4. Cardinality({x \in S : x < k}) <= Cardinality({x \in First(S) : x < m})
    BY <1>1, <1>3, FewerBelow
  <1>5. Cardinality({x \in S : x < k}) \in Nat /\ Cardinality({x \in First(S) : x < m}) \in Nat
    BY <1>1, <1>3, FiniteBelow
  <1> QED BY <1>2, <1>4, <1>5, EvidenceAssumption

\* Two tables that share the ordinals of a range without a gap: a page of each,
\* merged and cut again, is a range that starts where the range starts.
LEMMA PageIsPrefix ==
    ASSUME NEW c \in Nat, NEW t \in Nat, c < t, NEW A, NEW B, A \cup B = (c + 1) .. t
    PROVE  \E k \in (c + 1) .. t : First(First(A) \cup First(B)) = (c + 1) .. k
  <1> DEFINE F == First(A) \cup First(B)
             P == First(F)
  <1>1. A \in SUBSET Nat /\ B \in SUBSET Nat /\ F \in SUBSET (A \cup B) /\ F \in SUBSET Nat /\ P \in SUBSET F
    BY DEF First
  <1>2. ASSUME NEW n \in P, NEW m \in (c + 1) .. t, m < n PROVE m \in P
    <2>1. Cardinality({x \in F : x < n}) < PageLimit /\ n \in Nat
      BY <1>1, <1>2 DEF First
    <2>2. ASSUME NEW S \in SUBSET Nat, First(S) \subseteq F, m \in S PROVE m \in F
      <3> SUFFICES ASSUME m \notin First(S) PROVE FALSE
        BY <2>2
      <3>1. Cardinality({x \in First(S) : x < m}) >= PageLimit
        BY <2>2, FirstIsFull
      <3>2. First(S) \in SUBSET Nat /\ \A x \in First(S) : x < m => x \in F /\ x < n
        BY <1>1, <1>2, <2>1, <2>2
      <3>3. Cardinality({x \in First(S) : x < m}) <= Cardinality({x \in F : x < n})
        BY <1>1, <2>1, <2>2, <3>2, FewerBelow
      <3>4. Cardinality({x \in First(S) : x < m}) \in Nat /\ Cardinality({x \in F : x < n}) \in Nat
        BY <1>1, <2>1, <2>2, <3>2, FiniteBelow
      <3> QED BY <2>1, <3>1, <3>3, <3>4, EvidenceAssumption
    <2>3. m \in F
      BY <1>1, <2>2
    <2>4. Cardinality({x \in F : x < m}) <= Cardinality({x \in F : x < n})
      <3>1. m \in Nat /\ n \in Nat /\ \A x \in F : x < m => x \in F /\ x < n
        BY <1>1, <1>2, <2>1
      <3> HIDE DEF F
      <3> QED BY <1>1, <3>1, FewerBelow
    <2>5. Cardinality({x \in F : x < m}) \in Nat /\ Cardinality({x \in F : x < n}) \in Nat
      BY <1>1, <2>1, FiniteBelow
    <2>6. Cardinality({x \in F : x < m}) < PageLimit
      BY <2>1, <2>4, <2>5, EvidenceAssumption
    <2> QED BY <2>3, <2>6 DEF First
  <1>3. ASSUME NEW S \in SUBSET ((c + 1) .. t), c + 1 \in S PROVE c + 1 \in First(S)
    <2>1. \A x \in S : x \in Nat /\ ~(x < c + 1)
      BY <1>3
    <2>2. {x \in S : x < c + 1} = {}
      BY <2>1
    <2>3. Cardinality({x \in S : x < c + 1}) < PageLimit
      <3>1. Cardinality({x \in S : x < c + 1}) = 0
        BY <2>2, FS_EmptySet
      <3>2. 0 < PageLimit
        BY EvidenceAssumption
      <3> QED BY <3>1, <3>2
    <2> QED BY <1>3, <2>3 DEF First
  <1>4. c + 1 \in P
    <2>1. c + 1 \in F
      BY <1>3
    <2> QED BY <1>1, <1>3, <2>1
  <1>5. P \in SUBSET Nat /\ P # {} /\ \A x \in P : x <= t
    BY <1>1, <1>4
  <1>6. Max(P) \in P /\ \A x \in P : x <= Max(P)
    BY <1>5, MaxOf
  <1>7. P = (c + 1) .. Max(P)
    <2>1. P \subseteq (c + 1) .. t /\ Max(P) \in (c + 1) .. t
      BY <1>1, <1>6
    <2>2. P \subseteq (c + 1) .. Max(P)
      BY <1>6, <2>1
    <2>3. ASSUME NEW m \in (c + 1) .. Max(P) PROVE m \in P
      <3>1. m \in (c + 1) .. t /\ (m < Max(P) \/ m = Max(P))
        BY <2>1
      <3> QED BY <1>2, <1>6, <3>1
    <2> QED BY <2>2, <2>3
  <1> QED BY <1>1, <1>6, <1>7

---------------------------------------------------------------------------
(* The capture records.                                                      *)

Starts == {d \in Deliveries : d.kind = "start"}
RunRow == [origin : {d.origin : d \in Starts}, open : BOOLEAN, clock : {d.clock : d \in Starts}]
SessionRow == [start : Nat, end : Nat \cup {None}]
RecordTypes ==
    /\ session \in SessionRow \cup {None}
    /\ runs \in Seq(RunRow)
    /\ \A e \in captured : e.at \in Nat
    /\ \A r \in onRun : r.event.at \in Nat /\ r.run \in 1 .. Len(runs)

\* The events that are stored of a session, and those of its resumed runs.
WithinSession ==
    /\ \A e \in captured : e.at >= session.start /\ (session.end # None => e.at <= session.end)
    /\ \A e \in captured : Linked(e, captured)
OfRun(i) == {x.event : x \in {y \in onRun : y.run = i}}
WithinRuns ==
    \A r \in onRun : /\ session.end # None /\ r.event.at > session.end
                     /\ runs[r.run].origin = "resume"
                     /\ Linked(r.event, OfRun(r.run))
OneOpen == \A i, j \in OpenRuns : i = j

\* The inductive invariant of the capture records.
ClosedInv ==
    /\ RecordTypes
    /\ session = None => captured = {} /\ onRun = {}
    /\ session # None => WithinSession /\ WithinRuns
    /\ OneOpen

\* A result that is linked stays linked.
LEMMA LinkedGrows ==
    ASSUME NEW e, NEW S, NEW T, S \subseteq T, Linked(e, S)
    PROVE  Linked(e, T)
  BY DEF Linked

\* What a signal does to the runs: they grow, and at most one is open.
RunsFollow ==
    /\ runs' \in Seq(RunRow) /\ Len(runs) <= Len(runs') /\ OneOpen'
    /\ \A i \in 1 .. Len(runs) : runs'[i].origin = runs[i].origin

LEMMA SignalRuns ==
    ASSUME ClosedInv, NEW d \in Deliveries, Recorded(d) \/ UNCHANGED runs
    PROVE  RunsFollow
  <1>1. runs \in Seq(RunRow) /\ OneOpen /\ Len(runs) \in Nat /\ DOMAIN runs = 1 .. Len(runs)
        /\ \A i \in 1 .. Len(runs) : runs[i] \in RunRow
    BY DEF ClosedInv, RecordTypes
  <1>2. CASE UNCHANGED runs
    BY <1>1, <1>2 DEF RunsFollow, OneOpen, OpenRuns
  <1> DEFINE new == [origin |-> d.origin, open |-> TRUE, clock |-> d.clock]
  <1>3. CASE OpenRuns = {} /\ d.kind = "start" /\ runs' = Append(runs, new)
    <2>1. new \in RunRow
      BY <1>3 DEF RunRow, Starts
    <2> HIDE DEF new
    <2>2. PICK row \in RunRow : runs' = Append(runs, row)
      BY <1>3, <2>1
    <2>3. runs' \in Seq(RunRow) /\ Len(runs') = Len(runs) + 1
      BY <1>1, <2>2, AppendProperties
    <2>4. \A i \in 1 .. Len(runs) : runs'[i] = runs[i]
      BY <1>1, <2>2, AppendProperties
    <2>5. \A i \in OpenRuns' : i = Len(runs) + 1
      <3>1. ASSUME NEW i \in 1 .. Len(runs), runs'[i].open PROVE FALSE
        <4>1. i \in OpenRuns
          BY <2>4, <3>1 DEF OpenRuns
        <4> QED BY <1>3, <4>1
      <3>2. OpenRuns' = {i \in 1 .. Len(runs) + 1 : runs'[i].open}
        BY <2>3 DEF OpenRuns
      <3> QED BY <1>1, <3>1, <3>2
    <2>6. \A i \in 1 .. Len(runs) : runs'[i].origin = runs[i].origin
      BY <2>4
    <2>7. OneOpen'
      BY <2>5 DEF OneOpen
    <2> QED BY <1>1, <2>3, <2>6, <2>7 DEF RunsFollow
  <1>4. CASE runs' = [i \in DOMAIN runs |-> [runs[i] EXCEPT !.open = FALSE]]
    <2>1. \A i \in 1 .. Len(runs) : [runs[i] EXCEPT !.open = FALSE] \in RunRow
                                    /\ [runs[i] EXCEPT !.open = FALSE].open = FALSE
                                    /\ [runs[i] EXCEPT !.open = FALSE].origin = runs[i].origin
      BY <1>1 DEF RunRow
    <2>2. DOMAIN runs' = 1 .. Len(runs) /\ \A i \in 1 .. Len(runs) : runs'[i] = [runs[i] EXCEPT !.open = FALSE]
      BY <1>1, <1>4
    <2>3. runs' \in [1 .. Len(runs) -> RunRow]
      BY <1>1, <1>4, <2>1
    <2>4. runs' \in Seq(RunRow) /\ Len(runs') = Len(runs)
      BY <1>1, <2>2, <2>3
    <2>5. OpenRuns' = {}
      BY <2>1, <2>2, <2>4 DEF OpenRuns
    <2>6. \A i \in 1 .. Len(runs) : runs'[i].origin = runs[i].origin
      BY <2>1, <2>2
    <2>7. OneOpen'
      BY <2>5 DEF OneOpen
    <2> QED BY <1>1, <2>4, <2>6, <2>7 DEF RunsFollow
  <1> QED BY <1>2, <1>3, <1>4 DEF Recorded

\* Signals and ends of a session, which store no event.
LEMMA SignalClosed ==
    ASSUME ClosedInv, RunsFollow, UNCHANGED <<captured, onRun>>,
           \/ UNCHANGED session
           \/ session = None /\ session' \in SessionRow /\ session'.end = None
           \/ /\ session # None /\ session' \in SessionRow
              /\ session'.start = session.start /\ session.end = None
              /\ session'.end # None => \A e \in captured : e.at <= session'.end
    PROVE  ClosedInv'
  <1>1. RecordTypes'
    BY DEF ClosedInv, RecordTypes, RunsFollow
  <1>2. (session = None => captured = {} /\ onRun = {})'
    BY EvidenceAssumption DEF ClosedInv, SessionRow
  <1>3. CASE session = None
    <2>1. captured' = {} /\ onRun' = {}
      BY <1>3 DEF ClosedInv
    <2> QED BY <1>1, <2>1 DEF ClosedInv, WithinSession, WithinRuns, RunsFollow
  <1>4. CASE session # None
    <2>1. WithinSession'
      BY <1>4 DEF ClosedInv, WithinSession
    <2>2. WithinRuns'
      <3>1. CASE onRun = {}
        BY <3>1 DEF WithinRuns
      <3>2. CASE onRun # {}
        <4>1. session' = session
          BY <1>4, <3>2 DEF ClosedInv, WithinRuns
        <4> QED BY <1>4, <4>1 DEF ClosedInv, RecordTypes, WithinRuns, OfRun, RunsFollow
      <3> QED BY <3>1, <3>2
    <2> QED BY <1>1, <1>2, <2>1, <2>2 DEF ClosedInv, RunsFollow
  <1> QED BY <1>3, <1>4

LEMMA StartClosed ==
    ASSUME ClosedInv, NEW d \in Deliveries, DeliverStart(d) PROVE ClosedInv'
  <1>1. RunsFollow
    BY SignalRuns DEF DeliverStart
  <1>2. UNCHANGED <<captured, onRun>>
    BY DEF DeliverStart
  <1>3. session' = session \/ (session = None /\ session' = [start |-> d.at, end |-> None])
    BY DEF DeliverStart
  <1>4. [start |-> d.at, end |-> None] \in SessionRow
    BY EvidenceAssumption DEF SessionRow
  <1> QED BY <1>1, <1>2, <1>3, <1>4, SignalClosed

LEMMA EndClosed ==
    ASSUME ClosedInv, NEW d \in Deliveries, DeliverEnd(d) PROVE ClosedInv'
  <1>1. RunsFollow
    BY SignalRuns DEF DeliverEnd
  <1>2. UNCHANGED <<captured, onRun>> /\ session # None /\ d.at \in Nat
    BY EvidenceAssumption DEF DeliverEnd
  <1>3. session \in SessionRow
    BY <1>2 DEF ClosedInv, RecordTypes
  <1>4. CASE session.end = None
    <2>1. MayEnd(d.at)
      BY <1>4 DEF DeliverEnd
    <2>2. session' = [session EXCEPT !.end = d.at]
      BY <1>4, Zenon DEF DeliverEnd
    <2>3. session' \in SessionRow /\ session'.start = session.start /\ session'.end = d.at
      BY <1>2, <1>3, <2>2 DEF SessionRow
    <2> QED BY <1>1, <1>2, <1>4, <2>1, <2>3, SignalClosed DEF MayEnd
  <1>5. CASE session.end # None
    <2>1. session' = [session EXCEPT !.end = session.end]
      BY <1>5, Zenon DEF DeliverEnd
    <2>2. session' = session
      BY <1>3, <2>1 DEF SessionRow
    <2> QED BY <1>1, <1>2, <2>2, SignalClosed
  <1> QED BY <1>4, <1>5

LEMMA EventClosed ==
    ASSUME ClosedInv, NEW d \in Deliveries, DeliverEvent(d) PROVE ClosedInv'
  <1>1. /\ UNCHANGED <<session, signals, runs>> /\ session # None /\ d.at >= session.start /\ d.at \in Nat
        /\ session \in SessionRow
    BY EvidenceAssumption DEF DeliverEvent, ClosedInv, RecordTypes
  <1>2. WithinSession /\ WithinRuns /\ RecordTypes /\ OneOpen
    BY <1>1 DEF ClosedInv
  <1>3. OneOpen'
    BY <1>1, <1>2 DEF OneOpen, OpenRuns
  <1>4. CASE AppendToSession(d)
    <2>1. UNCHANGED onRun /\ captured' \in {captured, captured \cup {d}} /\ Linked(d, captured)
          /\ (session.end # None => d.at <= session.end)
      BY <1>1, <1>4 DEF AppendToSession, AfterEnd, SessionRow
    <2>2. RecordTypes'
      BY <1>1, <1>2, <2>1 DEF RecordTypes
    <2>3. WithinSession'
      <3>1. \A e \in captured' : e = d \/ e \in captured
        BY <2>1
      <3>2. \A e \in captured' : Linked(e, captured')
        BY <1>2, <2>1, <3>1, LinkedGrows DEF WithinSession
      <3> QED BY <1>1, <1>2, <2>1, <3>1, <3>2 DEF WithinSession
    <2>4. WithinRuns'
      BY <1>1, <1>2, <2>1 DEF WithinRuns, OfRun
    <2> QED BY <1>1, <1>3, <2>2, <2>3, <2>4 DEF ClosedInv
  <1>5. CASE AppendToRun(d)
    <2>1. UNCHANGED captured /\ session.end # None /\ d.at > session.end
      BY <1>5 DEF AppendToRun, AfterEnd
    <2>2. CASE UNCHANGED onRun
      BY <1>1, <1>2, <1>3, <2>1, <2>2 DEF ClosedInv, RecordTypes, WithinSession, WithinRuns, OfRun
    <2>3. ASSUME NEW i \in OpenRuns, runs[i].origin = "resume", Linked(d, OfRun(i)),
                 onRun' = onRun \cup {[event |-> d, run |-> i]}
          PROVE  ClosedInv'
      <3>1. RecordTypes'
        BY <1>1, <1>2, <2>1, <2>3 DEF RecordTypes, OpenRuns
      <3>2. WithinSession'
        BY <1>1, <1>2, <2>1 DEF WithinSession
      <3>3. \A j : OfRun(j) \subseteq OfRun(j)'
        BY <2>3 DEF OfRun
      <3>4. WithinRuns'
        <4>1. ASSUME NEW r \in onRun' PROVE Linked(r.event, OfRun(r.run)')
          <5>1. \/ r \in onRun
                \/ r.event = d /\ r.run = i
            BY <2>3
          <5> QED BY <1>2, <2>3, <3>3, <5>1, LinkedGrows DEF WithinRuns
        <4>2. ASSUME NEW r \in onRun' PROVE r.event.at > session.end /\ runs[r.run].origin = "resume"
          BY <1>2, <2>1, <2>3 DEF WithinRuns
        <4> QED BY <1>1, <2>1, <4>1, <4>2 DEF WithinRuns
      <3> QED BY <1>1, <1>3, <3>1, <3>2, <3>4 DEF ClosedInv
    <2> QED BY <1>5, <2>2, <2>3 DEF AppendToRun, OfRun
  <1> QED BY <1>4, <1>5 DEF DeliverEvent

LEMMA ClosedInvStep == ASSUME ClosedInv, [EvidenceNext]_vars PROVE ClosedInv'
  <1>1. ASSUME NEW d \in Deliveries, Deliver(d) PROVE ClosedInv'
    BY <1>1, StartClosed, EndClosed, EventClosed DEF Deliver
  <1>2. CASE UNCHANGED records
    BY <1>2 DEF records, ClosedInv, RecordTypes, WithinSession, WithinRuns, OfRun, OneOpen, OpenRuns
  <1>3. Backfill \/ (\E artifact \in Artifacts : Import(artifact))
        \/ (\E source \in due : Admit(source))
        \/ (\E through \in cursor + 1 .. committed : AnalysePage(through)) => UNCHANGED records
    BY DEF Backfill, Import, Admit, AnalysePage
  <1>4. Reconcile => UNCHANGED records
    BY DEF Reconcile, Reading, CountStored, CountIndexed, CountAliases, CountNotes, Traverse, CompareStream,
           Recheck, RecheckNotes, Enqueue
  <1>5. UNCHANGED vars => UNCHANGED records
    BY DEF vars
  <1> QED BY <1>1, <1>2, <1>3, <1>4, <1>5 DEF EvidenceNext

LEMMA ClosedInvInit == ASSUME EvidenceInit PROVE ClosedInv
  <1>1. captured \in OldEvents /\ onRun = {} /\ runs = <<>>
        /\ session = IF captured = {} THEN None ELSE [start |-> 1, end |-> None]
    BY DEF EvidenceInit
  <1>2. \A e \in captured : e.at \in Nat /\ e.at >= 1 /\ Linked(e, captured)
    BY <1>1, EvidenceAssumption
  <1>3. OpenRuns = {} /\ runs \in Seq(RunRow)
    BY <1>1 DEF OpenRuns
  <1>4. [start |-> 1, end |-> None] \in SessionRow /\ [start |-> 1, end |-> None].start = 1
        /\ [start |-> 1, end |-> None].end = None
    BY DEF SessionRow
  <1>5. RecordTypes
    BY <1>1, <1>2, <1>3, <1>4 DEF RecordTypes
  <1>6. session # None => session.start = 1 /\ session.end = None
    BY <1>1, <1>4
  <1>7. session = None => captured = {}
    <2>1. [start |-> 1, end |-> None] # None
      BY <1>4, EvidenceAssumption DEF SessionRow
    <2> QED BY <1>1, <2>1
  <1> QED BY <1>1, <1>2, <1>3, <1>5, <1>6, <1>7 DEF ClosedInv, WithinSession, WithinRuns, OneOpen

\* persistPassiveCapture(): starts, ends and resumptions of a session and the events
\* of its operations may come in any order and more than once; nothing from after
\* its end is stored within it, a later event only on a resumed run, a result only
\* beside its request, and one run is open.
THEOREM EndedStaysEnded == EvidenceSpec => []ClosedSessionsStayClosed
  <1>1. ASSUME ClosedInv PROVE ClosedSessionsStayClosed
    <2> SUFFICES ASSUME session # None
                 PROVE  WithinSession /\ WithinRuns /\ Cardinality(OpenRuns) <= 1
      BY DEF ClosedSessionsStayClosed, WithinSession, WithinRuns, OfRun
    <2>1. Cardinality(OpenRuns) <= 1
      <3>1. CASE OpenRuns = {}
        BY <3>1, FS_EmptySet
      <3>2. CASE OpenRuns # {}
        <4>1. PICK i : OpenRuns = {i}
          BY <1>1, <3>2 DEF ClosedInv, OneOpen
        <4>2. Cardinality(OpenRuns) = 1
          BY <4>1, FS_Singleton
        <4> QED BY <4>2
      <3> QED BY <3>1, <3>2
    <2> QED BY <1>1, <2>1 DEF ClosedInv
  <1>2. ClosedInv /\ [EvidenceNext]_vars => ClosedInv'
    BY ClosedInvStep
  <1> QED BY <1>1, <1>2, ClosedInvInit, PTL DEF EvidenceSpec
---------------------------------------------------------------------------
(* The ordinals of the two indexes.                                          *)

Ordinals(listed) == {x.n : x \in listed}
OnePerOrdinal(listed) == \A x, y \in listed : x.n = y.n => x = y

\* Two finite indexes that share the ordinals up to h, without a gap.
Gapless(A, B, h) ==
    /\ IsFiniteSet(A) /\ IsFiniteSet(B)
    /\ OnePerOrdinal(A) /\ OnePerOrdinal(B)
    /\ Ordinals(A) \cap Ordinals(B) = {}
    /\ Ordinals(A) \cup Ordinals(B) = 1 .. h

LEMMA GaplessEitherWay == ASSUME NEW A, NEW B, NEW h, Gapless(A, B, h) PROVE Gapless(B, A, h)
  BY DEF Gapless

LEMMA ImageIsFinite ==
    ASSUME NEW f, IsFiniteSet(DOMAIN f) PROVE IsFiniteSet({f[x] : x \in DOMAIN f})
  <1> DEFINE T == {f[x] : x \in DOMAIN f}
             g == [x \in DOMAIN f |-> f[x]]
  <1>1. g \in Surjection(DOMAIN f, T)
    BY DEF Surjection
  <1> HIDE DEF T, g
  <1>2. IsFiniteSet(T)
    BY <1>1, FS_Surjection
  <1> QED BY <1>2 DEF T

\* Rows with the next ordinals leave no gap.
LEMMA Appended ==
    ASSUME NEW A, NEW B, NEW h \in Nat, NEW k \in Nat, Gapless(A, B, h),
           NEW row, DOMAIN row = 1 .. k, \A i \in 1 .. k : row[i].n = h + i
    PROVE  Gapless(A \cup {row[i] : i \in 1 .. k}, B, h + k)
  <1> DEFINE new == {row[i] : i \in 1 .. k}
  <1>1. IsFiniteSet(new)
    <2>1. IsFiniteSet(DOMAIN row)
      BY FS_Interval
    <2> QED BY <2>1, ImageIsFinite
  <1>2. \A x \in new : \E i \in 1 .. k : x = row[i] /\ x.n = h + i
    OBVIOUS
  <1>3. \A i \in 1 .. k : row[i] \in new
    OBVIOUS
  <1> HIDE DEF new
  <1>4. \A x \in A : x.n \in 1 .. h
    BY DEF Gapless, Ordinals
  <1>5. \A x \in B : x.n \in 1 .. h
    BY DEF Gapless, Ordinals
  <1>6. IsFiniteSet(A \cup new)
    BY <1>1, FS_Union DEF Gapless
  <1>7. OnePerOrdinal(A \cup new)
    <2>1. \A x, y \in new : x.n = y.n => x = y
      BY <1>2
    <2>2. \A x \in A, y \in new : x.n # y.n
      BY <1>2, <1>4
    <2> QED BY <2>1, <2>2 DEF OnePerOrdinal, Gapless
  <1>8. Ordinals(new) = (h + 1) .. (h + k)
    <2>1. \A x \in new : x.n \in (h + 1) .. (h + k)
      BY <1>2
    <2>2. ASSUME NEW m \in (h + 1) .. (h + k) PROVE m \in Ordinals(new)
      <3>1. m - h \in 1 .. k /\ h + (m - h) = m
        OBVIOUS
      <3>2. row[m - h] \in new /\ row[m - h].n = m
        BY <1>3, <3>1
      <3> QED BY <3>2 DEF Ordinals
    <2> QED BY <2>1, <2>2 DEF Ordinals
  <1>9. Ordinals(A \cup new) = Ordinals(A) \cup Ordinals(new)
    BY DEF Ordinals
  <1>10. Ordinals(A \cup new) \cap Ordinals(B) = {}
    <2>1. \A m \in Ordinals(B) : m \in 1 .. h
      BY <1>5 DEF Ordinals
    <2>2. Ordinals(new) \cap Ordinals(B) = {}
      BY <1>8, <2>1
    <2> QED BY <1>9, <2>2 DEF Gapless
  <1>11. Ordinals(A \cup new) \cup Ordinals(B) = 1 .. (h + k)
    <2>1. Ordinals(A) \cup Ordinals(B) = 1 .. h
      BY DEF Gapless
    <2>2. (1 .. h) \cup ((h + 1) .. (h + k)) = 1 .. (h + k)
      OBVIOUS
    <2> QED BY <1>8, <1>9, <2>1, <2>2
  <1> QED BY <1>6, <1>7, <1>10, <1>11 DEF Gapless, new

LEMMA MaxOfTwo ==
    ASSUME NEW a \in Nat, NEW b \in Nat
    PROVE  Max({a, b}) \in {a, b} /\ a <= Max({a, b}) /\ b <= Max({a, b})
  <1>1. PICK c \in {a, b} : a <= c /\ b <= c
    <2>1. CASE a <= b
      BY <2>1
    <2>2. CASE b <= a
      BY <2>2
    <2> QED BY <2>1, <2>2
  <1>2. Max({a, b}) = c
    BY <1>1, MaxIs
  <1> QED BY <1>1, <1>2

\* The greatest ordinal of the two is the number of them.
LEMMA TopOfGapless ==
    ASSUME NEW A, NEW B, NEW h \in Nat, Gapless(A, B, h)
    PROVE  /\ Max({x.n : x \in A} \cup {0}) \in 0 .. h
           /\ Max({x.n : x \in B} \cup {0}) \in 0 .. h
           /\ Max({Max({x.n : x \in A} \cup {0}), Max({x.n : x \in B} \cup {0})}) = h
  <1> DEFINE P == {x.n : x \in A} \cup {0}
             Q == {x.n : x \in B} \cup {0}
  <1>1. P \in SUBSET Nat /\ Q \in SUBSET Nat /\ P # {} /\ Q # {} /\ P \cup Q = 0 .. h
    BY DEF Gapless, Ordinals
  <1> HIDE DEF P, Q
  <1>2. (\A x \in P : x <= h) /\ (\A x \in Q : x <= h)
    BY <1>1
  <1>3. PICK p : p = Max(P)
    OBVIOUS
  <1>4. PICK q : q = Max(Q)
    OBVIOUS
  <1>5. p \in P /\ \A x \in P : x <= p
    BY <1>1, <1>3, <1>2, MaxOf
  <1>6. q \in Q /\ \A x \in Q : x <= q
    BY <1>1, <1>4, <1>2, MaxOf
  <1>7. p \in 0 .. h /\ q \in 0 .. h
    BY <1>1, <1>5, <1>6
  <1>8. Max({p, q}) = h
    <2>1. h \in P \/ h \in Q
      BY <1>1
    <2>2. p = h \/ q = h
      BY <1>5, <1>6, <1>7, <2>1
    <2>3. {p, q} \in SUBSET Nat /\ h \in {p, q} /\ \A x \in {p, q} : x <= h
      BY <1>7, <2>2
    <2> QED BY <2>3, MaxIs
  <1> QED BY <1>3, <1>4, <1>7, <1>8 DEF P, Q

\* Each index has one entry per ordinal: together they have as many entries.
LEMMA GaplessCounts ==
    ASSUME NEW A, NEW B, NEW h \in Nat, Gapless(A, B, h)
    PROVE  Cardinality(A) + Cardinality(B) = h
  <1>1. ASSUME NEW S, IsFiniteSet(S), OnePerOrdinal(S)
        PROVE  IsFiniteSet(Ordinals(S)) /\ Cardinality(Ordinals(S)) = Cardinality(S)
    <2> DEFINE f == [x \in S |-> x.n]
    <2>1. f \in Surjection(S, Ordinals(S))
      BY DEF Surjection, Ordinals
    <2>2. f \in Injection(S, Ordinals(S))
      BY <1>1 DEF Injection, IsInjective, OnePerOrdinal, Ordinals
    <2> HIDE DEF f
    <2> QED BY <1>1, <2>1, <2>2, FS_Surjection
  <1>2. /\ IsFiniteSet(Ordinals(A)) /\ Cardinality(Ordinals(A)) = Cardinality(A)
        /\ IsFiniteSet(Ordinals(B)) /\ Cardinality(Ordinals(B)) = Cardinality(B)
    BY <1>1 DEF Gapless
  <1>3. Cardinality(Ordinals(A) \cup Ordinals(B))
            = Cardinality(Ordinals(A)) + Cardinality(Ordinals(B)) - Cardinality(Ordinals(A) \cap Ordinals(B))
    BY <1>2, FS_Union
  <1>4. Cardinality(Ordinals(A) \cap Ordinals(B)) = 0
    BY FS_EmptySet DEF Gapless
  <1>5. Cardinality(Ordinals(A) \cup Ordinals(B)) = h
    <2>1. Cardinality(1 .. h) = h
      BY FS_Interval
    <2> QED BY <2>1 DEF Gapless
  <1>6. Cardinality(A) \in Nat /\ Cardinality(B) \in Nat
    BY FS_CardinalityType DEF Gapless
  <1> QED BY <1>2, <1>3, <1>4, <1>5, <1>6
---------------------------------------------------------------------------
(* The pages of the analysis.                                                *)

Steps == {"idle", "index", "aliases", "notes", "traverse", "stream", "recheck", "renotes", "enqueue"}
ReconRow == [pc : Steps, physical : Nat, indexed : Nat, aliased : Nat, high : Nat]

\* The inductive invariant of the ordinals: the indexes share 1 to High, and what
\* was admitted, read, or is about to be admitted by a reconciliation lies below.
FiniteRecords == IsFiniteSet(captured) /\ IsFiniteSet(onRun) /\ IsFiniteSet(aliases)
Numbered == High \in Nat /\ Gapless(native, notes, High)
Below ==
    /\ committed \in 0 .. High
    /\ cursor \in 0 .. committed /\ seen = 1 .. cursor
    /\ recon \in ReconRow /\ recon.high \in 0 .. High
PagesInv == FiniteRecords /\ Numbered /\ Below

LEMMA StoredIsFinite == ASSUME FiniteRecords PROVE IsFiniteSet(Stored)
  <1> DEFINE f == [e \in captured |-> [event |-> e, path |-> "legacy"]]
             g == [r \in onRun |-> [event |-> r.event, path |-> "run"]]
  <1>1. IsFiniteSet({f[e] : e \in DOMAIN f})
    BY ImageIsFinite DEF FiniteRecords
  <1>2. IsFiniteSet({g[r] : r \in DOMAIN g})
    BY ImageIsFinite DEF FiniteRecords
  <1>3. Stored = {f[e] : e \in DOMAIN f} \cup {g[r] : r \in DOMAIN g}
    BY DEF Stored
  <1> HIDE DEF f, g
  <1> QED BY <1>1, <1>2, <1>3, FS_Union

\* Growing indexes keep everything that was admitted or read below their top.
LEMMA Grown ==
    ASSUME PagesInv, FiniteRecords', UNCHANGED <<analysis, recon>>,
           NEW k \in Nat, Gapless(native', notes', High + k)
    PROVE  PagesInv'
  <1>1. High \in Nat /\ High + k \in Nat
    BY DEF PagesInv, Numbered
  <1>2. High' = High + k
    <2> DEFINE h == High + k
    <2>1. h \in Nat /\ Gapless(native', notes', h)
      BY <1>1
    <2> HIDE DEF h
    <2>2. High' = h
      BY <2>1, TopOfGapless DEF High, NativeHigh, NotesHigh
    <2> QED BY <2>2 DEF h
  <1>3. Numbered'
    BY <1>1, <1>2 DEF Numbered
  <1>4. 0 .. High \subseteq 0 .. High'
    BY <1>1, <1>2
  <1>5. Below'
    BY <1>4 DEF PagesInv, Below, analysis
  <1> QED BY <1>3, <1>5 DEF PagesInv

\* indexLogicalEvent() takes the next ordinals.
LEMMA IndexNumbers ==
    ASSUME PagesInv, NEW batch, IsFiniteSet(batch), Index(batch)
    PROVE  IsFiniteSet(aliases') /\ \E k \in Nat : Gapless(native', notes', High + k)
  <1> DEFINE second == {s \in batch \ Fresh(batch) : ~Known(s)}
             f == [s \in second |-> Alias(s)]
  <1>1. IsFiniteSet(aliases')
    <2>1. IsFiniteSet(second)
      BY FS_Subset
    <2>2. IsFiniteSet({f[s] : s \in DOMAIN f})
      BY <2>1, ImageIsFinite
    <2>3. aliases' = aliases \cup {f[s] : s \in DOMAIN f}
      BY DEF Index
    <2> HIDE DEF second, f
    <2> QED BY <2>2, <2>3, FS_Union DEF PagesInv, FiniteRecords
  <1>2. Fresh(batch) \in SUBSET batch
    BY DEF Fresh
  <1>3. PICK k : k = Cardinality(Fresh(batch))
    OBVIOUS
  <1>4. k \in Nat
    BY <1>2, <1>3, FS_Subset, FS_CardinalityType
  <1>5. PICK order \in SetToSeqs(Fresh(batch)) :
          native' = native \cup {[n |-> High + i, id |-> order[i].event.id, path |-> order[i].path]
                                 : i \in DOMAIN order}
    BY DEF Index
  <1>6. DOMAIN order = 1 .. k
    BY <1>3 DEF SetToSeqs
  <1> DEFINE row == [i \in 1 .. k |-> [n |-> High + i, id |-> order[i].event.id, path |-> order[i].path]]
  <1>7. DOMAIN row = 1 .. k /\ \A i \in 1 .. k : row[i].n = High + i
    OBVIOUS
  <1>8. native' = native \cup {row[i] : i \in 1 .. k} /\ notes' = notes
    BY <1>5, <1>6 DEF Index
  <1> HIDE DEF row
  <1>9. Gapless(native', notes', High + k)
    <2>1. PICK A, B, h : A = native /\ B = notes /\ h = High
      OBVIOUS
    <2>2. h \in Nat /\ Gapless(A, B, h)
      BY <2>1 DEF PagesInv, Numbered
    <2>3. PICK r : r = row
      OBVIOUS
    <2>4. DOMAIN r = 1 .. k
      BY <1>7, <2>3
    <2>5. \A i \in 1 .. k : r[i].n = h + i
      BY <1>7, <2>1, <2>3
    <2>6. Gapless(A \cup {r[i] : i \in 1 .. k}, B, h + k)
      BY <1>4, <2>2, <2>4, <2>5, Appended
    <2> QED BY <1>8, <2>1, <2>3, <2>6
  <1> QED BY <1>1, <1>4, <1>9

LEMMA DeliveryNumbers ==
    ASSUME PagesInv, NEW d \in Deliveries, Deliver(d) PROVE PagesInv'
  <1>1. UNCHANGED <<analysis, recon>>
    BY DEF Deliver
  <1>2. CASE UNCHANGED <<captured, onRun, index>>
    <2>1. FiniteRecords' /\ High + 0 = High /\ Gapless(native', notes', High)
      BY <1>2 DEF PagesInv, FiniteRecords, Numbered, index
    <2>2. Gapless(native', notes', High + 0)
      BY <2>1
    <2> QED BY <1>1, <2>1, <2>2, Grown
  <1>3. ASSUME NEW s, Index({s}), IsFiniteSet(captured'), IsFiniteSet(onRun') PROVE PagesInv'
    <2>1. IsFiniteSet({s})
      BY FS_Singleton
    <2>2. IsFiniteSet(aliases') /\ \E k \in Nat : Gapless(native', notes', High + k)
      BY <1>3, <2>1, IndexNumbers
    <2> QED BY <1>1, <1>3, <2>2, Grown DEF FiniteRecords
  <1>4. ASSUME AppendToSession(d) PROVE PagesInv'
    <2>1. onRun' = onRun
      BY <1>4, Zenon DEF AppendToSession
    <2>2. \/ UNCHANGED <<captured, index>>
          \/ captured' = captured \cup {d} /\ Index({[event |-> d, path |-> "legacy"]})
      BY <1>4, Zenon DEF AppendToSession
    <2>3. IsFiniteSet(captured \cup {d})
      BY FS_AddElement DEF PagesInv, FiniteRecords
    <2> QED BY <1>2, <1>3, <2>1, <2>2, <2>3 DEF PagesInv, FiniteRecords
  <1>5. ASSUME AppendToRun(d) PROVE PagesInv'
    <2>1. \/ UNCHANGED <<captured, onRun, index>>
          \/ /\ captured' = captured /\ Index({[event |-> d, path |-> "run"]})
             /\ \E i \in OpenRuns : onRun' = onRun \cup {[event |-> d, run |-> i]}
      BY <1>5 DEF AppendToRun
    <2>2. \A i : IsFiniteSet(onRun \cup {[event |-> d, run |-> i]})
      BY FS_AddElement DEF PagesInv, FiniteRecords
    <2> QED BY <1>2, <1>3, <2>1, <2>2 DEF PagesInv, FiniteRecords
  <1> QED BY <1>2, <1>4, <1>5 DEF Deliver, DeliverStart, DeliverEnd, DeliverEvent

LEMMA BackfillNumbers == ASSUME PagesInv, Backfill PROVE PagesInv'
  <1>1. PICK batch \in SUBSET Unindexed : Index(batch)
    BY DEF Backfill
  <1>2. IsFiniteSet(batch)
    BY StoredIsFinite, FS_Subset DEF PagesInv, Unindexed
  <1>3. IsFiniteSet(aliases') /\ \E k \in Nat : Gapless(native', notes', High + k)
    BY <1>1, <1>2, IndexNumbers
  <1>4. UNCHANGED <<captured, onRun, analysis, recon>>
    BY DEF Backfill, records
  <1> QED BY <1>3, <1>4, Grown DEF PagesInv, FiniteRecords

LEMMA MembersAreFinite ==
    ASSUME NEW artifact \in Artifacts
    PROVE  IsFiniteSet(Members(artifact)) /\ Members(artifact) \subseteq Annotations
  <1>1. artifact \in Seq(Annotations)
    BY EvidenceAssumption
  <1>2. DOMAIN artifact = 1 .. Len(artifact) /\ Len(artifact) \in Nat
    BY <1>1
  <1>3. IsFiniteSet(DOMAIN artifact)
    BY <1>2, FS_Interval
  <1> QED BY <1>1, <1>3, ImageIsFinite DEF Members

LEMMA ImportNumbers ==
    ASSUME PagesInv, NEW artifact \in Artifacts, Import(artifact) PROVE PagesInv'
  <1> DEFINE batch == Members(artifact)
             fresh == {a \in Resolved(batch) : ~\E x \in notes : x.a = a}
  <1>1. fresh \in SUBSET batch
    BY DEF Resolved
  <1>2. PICK k : k = Cardinality(fresh)
    OBVIOUS
  <1>3. k \in Nat
    BY <1>1, <1>2, MembersAreFinite, FS_Subset, FS_CardinalityType
  <1>4. PICK order \in SetToSeqs(fresh) :
          notes' = notes \cup {[n |-> High + x, a |-> order[x]] : x \in DOMAIN order}
    BY DEF Import
  <1>5. DOMAIN order = 1 .. k
    BY <1>2 DEF SetToSeqs
  <1> HIDE DEF fresh, batch
  <1> DEFINE row == [i \in 1 .. k |-> [n |-> High + i, a |-> order[i]]]
  <1>6. DOMAIN row = 1 .. k /\ \A i \in 1 .. k : row[i].n = High + i
    OBVIOUS
  <1>7. notes' = notes \cup {row[i] : i \in 1 .. k}
    BY <1>4, <1>5
  <1>8. UNCHANGED <<captured, onRun, native, aliases, analysis, recon>>
    BY DEF Import, records
  <1> HIDE DEF row
  <1>9. Gapless(notes', native', High + k)
    <2>1. Gapless(notes, native, High) /\ High \in Nat
      BY GaplessEitherWay DEF PagesInv, Numbered
    <2>2. PICK h \in Nat : h = High
      BY <2>1
    <2>3. PICK r : r = row
      OBVIOUS
    <2>4. DOMAIN r = 1 .. k /\ \A i \in 1 .. k : r[i].n = h + i
      BY <1>6, <2>2, <2>3
    <2>5. Gapless(notes, native, h)
      BY <2>1, <2>2
    <2>6. Gapless(notes \cup {r[i] : i \in 1 .. k}, native, h + k)
      BY <1>3, <2>4, <2>5, Appended, SMTT(60)
    <2> QED BY <1>7, <1>8, <2>2, <2>3, <2>6
  <1>10. Gapless(native', notes', High + k)
    BY <1>9, GaplessEitherWay
  <1> QED BY <1>3, <1>8, <1>10, Grown DEF PagesInv, FiniteRecords

LEMMA AdmissionNumbers ==
    ASSUME PagesInv, NEW source, Admit(source) PROVE PagesInv'
  <1>1. UNCHANGED <<captured, onRun, native, notes, aliases, cursor, seen, recon>>
    BY DEF Admit, records, index, analysis
  <1>2. FiniteRecords' /\ Numbered' /\ High' = High
    BY <1>1 DEF PagesInv, FiniteRecords, Numbered, High, NativeHigh, NotesHigh
  <1>3. committed' \in committed .. High
    <2>1. committed \in Nat /\ High \in Nat /\ committed <= High
      BY DEF PagesInv, Numbered, Below
    <2>2. Max({committed, High}) = High
      BY <2>1, MaxIs
    <2>3. committed' = committed \/ committed' = Max({committed, High})
      BY DEF Admit, analysis
    <2> QED BY <2>1, <2>2, <2>3
  <1>4. Below'
    BY <1>1, <1>2, <1>3 DEF PagesInv, Numbered, Below
  <1> QED BY <1>2, <1>4 DEF PagesInv

\* loadLogicalEvidencePage() reads on where the cursor is, up to somewhere in the range.
LEMMA PageNumbers ==
    ASSUME PagesInv, NEW through \in cursor + 1 .. committed, AnalysePage(through)
    PROVE  PagesInv'
  <1>1. /\ High \in Nat /\ committed \in Nat /\ cursor \in Nat /\ through \in Nat
        /\ cursor < through /\ through <= committed /\ committed <= High /\ seen = 1 .. cursor
    BY DEF PagesInv, Numbered, Below
  <1> DEFINE A == In(native, through)
             B == In(notes, through)
  <1>2. A \cup B = (cursor + 1) .. through
    <2>1. A = {m \in Ordinals(native) : m > cursor /\ m <= through}
      BY DEF In, Ordinals
    <2>2. B = {m \in Ordinals(notes) : m > cursor /\ m <= through}
      BY DEF In, Ordinals
    <2> HIDE DEF A, B
    <2>3. A \cup B = {m \in 1 .. High : m > cursor /\ m <= through}
      BY <2>1, <2>2 DEF PagesInv, Numbered, Gapless
    <2> QED BY <1>1, <2>3
  <1>3. Page(through) = First(First(A) \cup First(B))
    BY DEF Page
  <1> HIDE DEF A, B
  <1>4. PICK k \in (cursor + 1) .. through : Page(through) = (cursor + 1) .. k
    BY <1>1, <1>2, <1>3, PageIsPrefix
  <1>5. k \in Nat /\ cursor + 1 <= k /\ k <= through
    BY <1>1, <1>4
  <1>6. Max(Page(through)) = k /\ Page(through) # {}
    <2>1. Page(through) \in SUBSET Nat /\ k \in Page(through) /\ \A x \in Page(through) : x <= k
      BY <1>1, <1>4, <1>5
    <2> QED BY <2>1, MaxIs
  <1>7. cursor' = k
    BY <1>6 DEF AnalysePage
  <1>8. seen' = 1 .. k
    <2>1. seen' = (1 .. cursor) \cup ((cursor + 1) .. k)
      BY <1>1, <1>4 DEF AnalysePage
    <2> QED BY <1>1, <1>5, <2>1
  <1>9. UNCHANGED <<captured, onRun, native, notes, aliases, committed, recon>>
    BY DEF AnalysePage, records, index
  <1>10. FiniteRecords' /\ Numbered' /\ High' = High
    BY <1>9 DEF PagesInv, FiniteRecords, Numbered, High, NativeHigh, NotesHigh
  <1>11. Below'
    BY <1>1, <1>5, <1>7, <1>8, <1>9, <1>10 DEF PagesInv, Below
  <1> QED BY <1>10, <1>11 DEF PagesInv

LEMMA ReconcileNumbers == ASSUME PagesInv, Reconcile PROVE PagesInv'
  <1>1. UNCHANGED <<captured, onRun, native, notes, aliases, cursor, seen>>
    BY DEF Reconcile, Reading, CountStored, CountIndexed, CountAliases, CountNotes, Traverse, CompareStream,
           Recheck, RecheckNotes, Enqueue, records, index, analysis
  <1>2. FiniteRecords' /\ Numbered' /\ High' = High
    BY <1>1 DEF PagesInv, FiniteRecords, Numbered, High, NativeHigh, NotesHigh
  <1>3. /\ High \in Nat /\ committed \in Nat /\ committed <= High
        /\ recon \in ReconRow /\ recon.high \in Nat /\ recon.high <= High
    BY DEF PagesInv, Numbered, Below
  <1>4. NativeHigh \in Nat /\ NotesHigh \in Nat /\ NativeHigh <= High /\ NotesHigh <= High
    <2>1. NativeHigh \in 0 .. High /\ NotesHigh \in 0 .. High
      BY TopOfGapless DEF PagesInv, Numbered, NativeHigh, NotesHigh
    <2> QED BY <1>3, <2>1
  <1>5. /\ Cardinality(Stored) \in Nat /\ Cardinality(native) \in Nat
        /\ Cardinality(notes) \in Nat /\ Cardinality(aliases) \in Nat
    BY StoredIsFinite, FS_CardinalityType DEF PagesInv, FiniteRecords, Numbered, Gapless
  <1>6. Idle \in ReconRow /\ Idle.high = 0
    BY DEF Idle, Steps, ReconRow
  <1>7. ASSUME committed' \in committed .. High, recon' \in ReconRow, recon'.high \in 0 .. High PROVE PagesInv'
    <2>1. Below'
      BY <1>1, <1>2, <1>3, <1>7 DEF PagesInv, Below
    <2> QED BY <1>2, <2>1 DEF PagesInv
  <1>8. ASSUME NEW step, Reading(step), recon' \in ReconRow, recon'.high \in 0 .. High PROVE PagesInv'
    <2>1. committed' \in committed .. High
      BY <1>3, <1>8 DEF Reading, analysis
    <2> QED BY <1>7, <1>8, <2>1
  <1>9. ASSUME NEW step, Reading(step), recon' = Idle PROVE PagesInv'
    BY <1>3, <1>6, <1>8, <1>9
  <1>10. ASSUME CountStored PROVE PagesInv'
    <2>1. recon' \in ReconRow /\ recon'.high = 0
      BY <1>5, <1>10 DEF CountStored, Idle, Steps, ReconRow
    <2> QED BY <1>3, <1>8, <1>10, <2>1 DEF CountStored
  <1>11. ASSUME CountIndexed PROVE PagesInv'
    <2>1. recon' \in ReconRow /\ recon'.high = NativeHigh
      BY <1>3, <1>4, <1>5, <1>11 DEF CountIndexed, Steps, ReconRow
    <2> QED BY <1>3, <1>4, <1>8, <1>11, <2>1 DEF CountIndexed
  <1>12. ASSUME CountAliases PROVE PagesInv'
    <2>1. recon' \in ReconRow /\ recon'.high = recon.high
      BY <1>3, <1>5, <1>12 DEF CountAliases, Steps, ReconRow
    <2> QED BY <1>3, <1>8, <1>12, <2>1 DEF CountAliases
  <1>13. ASSUME CountNotes PROVE PagesInv'
    <2> DEFINE top == Max({recon.high, NotesHigh})
    <2>1. top \in Nat /\ top <= High
      BY <1>3, <1>4, MaxOfTwo
    <2>2. recon.indexed + Cardinality(notes) \in Nat
      BY <1>3, <1>5 DEF Steps, ReconRow
    <2>3. recon' = Idle \/ recon' = [recon EXCEPT !.pc = "traverse", !.indexed = recon.indexed + Cardinality(notes),
                                                  !.high = top]
      BY <1>13, Zenon DEF CountNotes
    <2> HIDE DEF top
    <2>4. CASE recon' = Idle
      BY <1>9, <1>13, <2>4 DEF CountNotes
    <2>5. CASE recon' = [recon EXCEPT !.pc = "traverse", !.indexed = recon.indexed + Cardinality(notes), !.high = top]
      <3>1. recon' \in ReconRow /\ recon'.high = top
        BY <1>3, <2>1, <2>2, <2>5 DEF Steps, ReconRow
      <3> QED BY <1>3, <1>8, <1>13, <2>1, <3>1 DEF CountNotes
    <2> QED BY <2>3, <2>4, <2>5
  <1>14. ASSUME NEW step, Reading(step), NEW pc \in Steps, recon' = Idle \/ recon' = [recon EXCEPT !.pc = pc]
         PROVE  PagesInv'
    <2>1. CASE recon' = [recon EXCEPT !.pc = pc]
      <3>1. recon' \in ReconRow /\ recon'.high = recon.high
        BY <1>3, <1>14, <2>1 DEF Steps, ReconRow
      <3> QED BY <1>3, <1>8, <1>14, <3>1
    <2> QED BY <1>9, <1>14, <2>1
  <1>15. ASSUME Traverse \/ CompareStream \/ RecheckNotes PROVE PagesInv'
    BY <1>14, <1>15 DEF Traverse, CompareStream, RecheckNotes, Steps
  <1>16. ASSUME Recheck PROVE PagesInv'
    <2>1. recon' = Idle \/ recon' = [recon EXCEPT !.pc = "renotes", !.indexed = NativeHigh]
      BY <1>16 DEF Recheck
    <2>2. CASE recon' = [recon EXCEPT !.pc = "renotes", !.indexed = NativeHigh]
      <3>1. recon' \in ReconRow /\ recon'.high = recon.high
        BY <1>3, <1>4, <2>2 DEF Steps, ReconRow
      <3> QED BY <1>3, <1>8, <1>16, <3>1 DEF Recheck
    <2> QED BY <1>9, <1>16, <2>1, <2>2 DEF Recheck
  <1>17. ASSUME Enqueue PROVE PagesInv'
    <2>1. Max({committed, recon.high}) \in committed .. High
      BY <1>3, MaxOfTwo
    <2> QED BY <1>3, <1>6, <1>7, <1>17, <2>1 DEF Enqueue
  <1> QED BY <1>10, <1>11, <1>12, <1>13, <1>15, <1>16, <1>17 DEF Reconcile

LEMMA PagesInvStep == ASSUME PagesInv, [EvidenceNext]_vars PROVE PagesInv'
  <1>1. CASE UNCHANGED vars
    BY <1>1 DEF vars, records, index, analysis, PagesInv, FiniteRecords, Numbered, Below, High, NativeHigh, NotesHigh
  <1> QED BY <1>1, DeliveryNumbers, BackfillNumbers, ImportNumbers, AdmissionNumbers, PageNumbers, ReconcileNumbers
          DEF EvidenceNext

LEMMA PagesInvInit == ASSUME EvidenceInit PROVE PagesInv
  <1>1. /\ native = {} /\ aliases = {} /\ notes = {} /\ onRun = {} /\ captured \in OldEvents
        /\ committed = 0 /\ cursor = 0 /\ seen = {} /\ recon = Idle
    BY DEF EvidenceInit
  <1>2. FiniteRecords
    BY <1>1, FS_EmptySet, EvidenceAssumption DEF FiniteRecords
  <1>3. Gapless(native, notes, 0)
    BY <1>1, FS_EmptySet DEF Gapless, OnePerOrdinal, Ordinals
  <1>4. High = 0
    BY <1>3, TopOfGapless DEF High, NativeHigh, NotesHigh
  <1> QED BY <1>1, <1>2, <1>3, <1>4 DEF PagesInv, Numbered, Below, Idle, Steps, ReconRow

\* loadLogicalEvidencePage(): events and annotations take their ordinals from one
\* counter and are paged from two tables; whatever arrives, is imported, is backfilled
\* or reconciled meanwhile, no ordinal is missing or given twice, and the analysis has
\* read exactly those up to its cursor.
THEOREM NothingIsLeftOut == EvidenceSpec => []NothingIsSkipped
  <1>1. ASSUME PagesInv PROVE NothingIsSkipped
    <2>1. Cardinality(native) + Cardinality(notes) = High
      BY <1>1, GaplessCounts DEF PagesInv, Numbered
    <2>2. High \in Nat /\ committed \in Nat /\ cursor <= committed /\ committed <= High /\ seen = 1 .. cursor
      BY <1>1 DEF PagesInv, Numbered, Below
    <2> QED BY <1>1, <2>1, <2>2 DEF NothingIsSkipped, PagesInv, Numbered, Gapless, Ordinals
  <1>2. PagesInv /\ [EvidenceNext]_vars => PagesInv'
    BY PagesInvStep
  <1> QED BY <1>1, <1>2, PagesInvInit, PTL DEF EvidenceSpec

---------------------------------------------------------------------------
(* The annotations.                                                          *)

\* Stored events and an index over them: an id is stored once in either table,
\* and indexed once, where it is stored.
Consistent(events, listed) ==
    /\ \A s, t \in events : s.event.id = t.event.id /\ s.path = t.path => s = t
    /\ \A x \in listed : \E s \in events : s.event.id = x.id /\ s.path = x.path
    /\ \A x, y \in listed : x.id = y.id => x = y
StandsFor(events, listed, id) ==
    (CHOOSE s \in events : s.event.id = id /\ \E x \in listed : x.id = id /\ x.path = s.path).event

Noted(a) == \E x \in notes : x.a = a

\* The inductive invariant of the annotations.  A run's event is indexed with the
\* transaction that stores it, so a backfill meets only events of the session.
StoredOnce ==
    /\ \A d, e \in captured : d.id = e.id => d = e
    /\ \A q, r \in onRun : q.event.id = r.event.id => q = r
    /\ \A r \in onRun : Known([event |-> r.event, path |-> "run"])
NotesStand ==
    /\ \A x \in notes : /\ x.a \in Annotations
                        /\ \E y \in native : y.id = Operation[x.a] /\ y.n < x.n
                        /\ EventAt(Operation[x.a]).phase = "pre"
                        /\ \A r \in Relates[x.a] : Noted(r)
    /\ \A a \in Annotations : imported[a] = "resolved" <=> Noted(a)
GroundInv == StoredOnce /\ Consistent(Stored, native) /\ NotesStand

LEMMA StandsForIs ==
    ASSUME NEW events, NEW listed, Consistent(events, listed), NEW s \in events, NEW x \in listed,
           x.id = s.event.id, x.path = s.path
    PROVE  StandsFor(events, listed, x.id) = s.event
  <1> DEFINE P(t) == t.event.id = x.id /\ \E y \in listed : y.id = x.id /\ y.path = t.path
             c == CHOOSE t \in events : P(t)
  <1>1. P(s)
    OBVIOUS
  <1>2. c \in events /\ P(c)
    BY <1>1
  <1>3. c = s
    BY <1>2 DEF Consistent
  <1> QED BY <1>3 DEF StandsFor

\* What an id stands for does not change while events and entries are added.
LEMMA StandsForStays ==
    ASSUME NEW A, NEW N, NEW B, NEW M, Consistent(A, N), Consistent(B, M), A \subseteq B, N \subseteq M, NEW x \in N
    PROVE  StandsFor(B, M, x.id) = StandsFor(A, N, x.id)
  <1>1. PICK s \in A : s.event.id = x.id /\ s.path = x.path
    BY DEF Consistent
  <1>2. StandsFor(A, N, x.id) = s.event
    BY <1>1, StandsForIs
  <1>3. s \in B /\ x \in M
    BY <1>1
  <1>4. StandsFor(B, M, x.id) = s.event
    BY <1>1, <1>3, StandsForIs
  <1> QED BY <1>2, <1>4

\* An order of a set lists each of its members once.
LEMMA OrderLists ==
    ASSUME NEW S, IsFiniteSet(S), NEW order \in SetToSeqs(S)
    PROVE  /\ \A i \in DOMAIN order : order[i] \in S
           /\ \A i, j \in DOMAIN order : order[i] = order[j] => i = j
           /\ \A s \in S : \E i \in DOMAIN order : order[i] = s
  <1>1. PICK k : k = Cardinality(S)
    OBVIOUS
  <1>2. k \in Nat
    BY <1>1, FS_CardinalityType
  <1>3. order \in [1 .. k -> S] /\ \A i, j \in 1 .. k : i # j => order[i] # order[j]
    BY <1>1 DEF SetToSeqs
  <1>4. order \in Injection(1 .. k, S)
    BY <1>3 DEF Injection, IsInjective
  <1>5. Cardinality(1 .. k) = k
    BY <1>2, FS_Interval
  <1>6. order \in Surjection(1 .. k, S)
    BY <1>1, <1>4, <1>5, FS_Injection
  <1> QED BY <1>3, <1>6 DEF Surjection

\* indexLogicalEvent(): no event it is given stays unknown, and no id is indexed twice.
LEMMA IndexConsistent ==
    ASSUME Consistent(Stored, native), Stored \subseteq Stored',
           \A s, t \in Stored' : s.event.id = t.event.id /\ s.path = t.path => s = t,
           NEW batch \in SUBSET Stored', IsFiniteSet(batch),
           \A s, t \in batch : s.event.id = t.event.id => s = t, Index(batch)
    PROVE  /\ Consistent(Stored', native')
           /\ native \subseteq native' /\ aliases \subseteq aliases' /\ notes' = notes
           /\ \A s \in batch : Known(s)'
  <1>1. Fresh(batch) \in SUBSET batch /\ IsFiniteSet(Fresh(batch))
    <2>1. Fresh(batch) \in SUBSET batch
      BY DEF Fresh
    <2> QED BY <2>1, FS_Subset
  <1>2. PICK order \in SetToSeqs(Fresh(batch)) :
          native' = native \cup {[n |-> High + i, id |-> order[i].event.id, path |-> order[i].path]
                                 : i \in DOMAIN order}
    BY DEF Index
  <1>3. /\ \A i \in DOMAIN order : order[i] \in Fresh(batch)
        /\ \A i, j \in DOMAIN order : order[i] = order[j] => i = j
        /\ \A s \in Fresh(batch) : \E i \in DOMAIN order : order[i] = s
    BY <1>1, OrderLists
  <1>4. /\ notes' = notes
        /\ aliases' = aliases \cup {Alias(s) : s \in {s \in batch \ Fresh(batch) : ~Known(s)}}
    BY DEF Index
  <1> DEFINE row(i) == [n |-> High + i, id |-> order[i].event.id, path |-> order[i].path]
  <1>5. \A x \in native' : x \in native \/ \E i \in DOMAIN order : x = row(i)
    BY <1>2
  <1>6. \A i \in DOMAIN order : row(i) \in native' /\ row(i).id = order[i].event.id /\ row(i).path = order[i].path
    BY <1>2
  <1>7. \A i \in DOMAIN order : order[i] \in batch /\ \A x \in native : x.id # order[i].event.id
    BY <1>3 DEF Fresh, IndexedId
  <1> HIDE DEF row
  <1>8. \A x \in native' : \E s \in Stored' : s.event.id = x.id /\ s.path = x.path
    BY <1>5, <1>6, <1>7 DEF Consistent
  <1>9. ASSUME NEW x \in native', NEW y \in native', x.id = y.id PROVE x = y
    <2>1. CASE x \in native /\ y \in native
      BY <1>9, <2>1 DEF Consistent
    <2>2. CASE \E i \in DOMAIN order : x = row(i)
      BY <1>3, <1>5, <1>6, <1>7, <1>9, <2>2
    <2>3. CASE \E i \in DOMAIN order : y = row(i)
      BY <1>3, <1>5, <1>6, <1>7, <1>9, <2>3
    <2> QED BY <1>5, <2>1, <2>2, <2>3
  <1>10. ASSUME NEW s \in batch PROVE Known(s)'
    <2>1. CASE s \in Fresh(batch)
      <3>1. \E x \in native' : x.id = s.event.id /\ x.path = s.path
        BY <1>3, <1>6, <2>1
      <3> QED BY <3>1 DEF Known
    <2>2. CASE Known(s)
      BY <1>2, <1>4, <2>2 DEF Known
    <2>3. CASE s \notin Fresh(batch) /\ ~Known(s)
      <3>1. Alias(s) \in aliases'
        BY <1>4, <2>3
      <3>2. Alias(s).id = s.event.id /\ Alias(s).path = s.path
        BY DEF Alias
      <3> QED BY <3>1, <3>2 DEF Known
    <2> QED BY <2>1, <2>2, <2>3
  <1> QED BY <1>2, <1>4, <1>8, <1>9, <1>10 DEF Consistent

\* Records and entries that are added leave the annotations where they stand.
LEMMA NotesStay ==
    ASSUME GroundInv, Consistent(Stored', native'), Stored \subseteq Stored', native \subseteq native',
           UNCHANGED <<notes, imported>>
    PROVE  NotesStand'
  <1>1. ASSUME NEW x \in notes
        PROVE  /\ \E y \in native' : y.id = Operation[x.a] /\ y.n < x.n
               /\ EventAt(Operation[x.a])'.phase = "pre"
    <2>1. PICK y \in native : y.id = Operation[x.a] /\ y.n < x.n
      BY DEF GroundInv, NotesStand
    <2>2. StandsFor(Stored', native', y.id) = StandsFor(Stored, native, y.id)
      BY StandsForStays DEF GroundInv
    <2>3. EventAt(Operation[x.a])' = EventAt(Operation[x.a])
      BY <2>1, <2>2 DEF EventAt, StandsFor
    <2> QED BY <2>1, <2>3 DEF GroundInv, NotesStand
  <1> QED BY <1>1 DEF GroundInv, NotesStand, Noted

LEMMA SameGround ==
    ASSUME GroundInv, UNCHANGED <<captured, onRun, native, aliases, notes, imported>>
    PROVE  GroundInv'
  <1>1. Stored' = Stored
    BY DEF Stored
  <1>2. StoredOnce'
    BY DEF GroundInv, StoredOnce, Known
  <1>3. Consistent(Stored', native')
    BY <1>1 DEF GroundInv
  <1> QED BY <1>1, <1>2, <1>3, NotesStay DEF GroundInv

LEMMA DeliveryGrounds ==
    ASSUME GroundInv, NEW d \in Deliveries, Deliver(d) PROVE GroundInv'
  <1>1. UNCHANGED imported
    BY DEF Deliver
  <1>2. CASE UNCHANGED <<captured, onRun, index>>
    BY <1>1, <1>2, SameGround DEF index
  <1>3. ASSUME NEW s, Index({s}), s \in Stored', Stored \subseteq Stored',
               \A q, r \in captured' : q.id = r.id => q = r,
               \A q, r \in onRun' : q.event.id = r.event.id => q = r,
               \A r \in onRun' : r \in onRun \/ s = [event |-> r.event, path |-> "run"]
        PROVE  GroundInv'
    <2>1. \A q, r \in Stored' : q.event.id = r.event.id /\ q.path = r.path => q = r
      BY <1>3 DEF Stored
    <2>2. IsFiniteSet({s}) /\ {s} \in SUBSET Stored' /\ \A q, r \in {s} : q.event.id = r.event.id => q = r
      BY <1>3, FS_Singleton
    <2>3. /\ Consistent(Stored', native')
          /\ native \subseteq native' /\ aliases \subseteq aliases' /\ notes' = notes
          /\ \A r \in {s} : Known(r)'
      BY <1>3, <2>1, <2>2, IndexConsistent DEF GroundInv
    <2>4. ASSUME NEW r \in onRun' PROVE Known([event |-> r.event, path |-> "run"])'
      <3>1. CASE r \in onRun
        BY <2>3, <3>1 DEF GroundInv, StoredOnce, Known
      <3>2. CASE s = [event |-> r.event, path |-> "run"]
        BY <2>3, <3>2
      <3> QED BY <1>3, <3>1, <3>2
    <2>5. StoredOnce'
      BY <1>3, <2>4 DEF StoredOnce
    <2>6. NotesStand'
      BY <1>1, <1>3, <2>3, NotesStay
    <2> QED BY <2>3, <2>5, <2>6 DEF GroundInv
  <1>4. ASSUME AppendToSession(d) PROVE GroundInv'
    <2>1. onRun' = onRun /\ \A e \in captured : e.id = d.id => e = d
      BY <1>4, Zenon DEF AppendToSession
    <2>2. \/ UNCHANGED <<captured, index>>
          \/ captured' = captured \cup {d} /\ Index({[event |-> d, path |-> "legacy"]})
      BY <1>4, Zenon DEF AppendToSession
    <2>3. CASE captured' = captured \cup {d} /\ Index({[event |-> d, path |-> "legacy"]})
      <3> DEFINE s == [event |-> d, path |-> "legacy"]
      <3>1. s \in Stored' /\ Stored \subseteq Stored'
        BY <2>1, <2>3 DEF Stored
      <3>2. (\A q, r \in captured' : q.id = r.id => q = r) /\ \A q, r \in onRun' : q.event.id = r.event.id => q = r
        BY <2>1, <2>3 DEF GroundInv, StoredOnce
      <3>3. Index({s})
        BY <2>3
      <3> HIDE DEF s
      <3> QED BY <1>3, <2>1, <3>1, <3>2, <3>3
    <2> QED BY <1>2, <2>1, <2>2, <2>3
  <1>5. ASSUME AppendToRun(d) PROVE GroundInv'
    <2>1. captured' = captured
      BY <1>5 DEF AppendToRun
    <2>2. CASE UNCHANGED <<onRun, index>>
      BY <1>2, <2>1, <2>2
    <2>3. ASSUME \A r \in onRun : r.event.id # d.id, NEW i \in OpenRuns, onRun' = onRun \cup {[event |-> d, run |-> i]},
                 Index({[event |-> d, path |-> "run"]})
          PROVE  GroundInv'
      <3> DEFINE s == [event |-> d, path |-> "run"]
      <3>1. \A r \in onRun' : r \in onRun \/ (r = [event |-> d, run |-> i] /\ r.event = d)
        BY <2>3
      <3>2. s \in Stored' /\ Stored \subseteq Stored'
        <4>1. [event |-> d, run |-> i] \in onRun' /\ [event |-> d, run |-> i].event = d
          BY <2>3
        <4>2. s \in Stored'
          BY <4>1 DEF Stored
        <4>3. Stored \subseteq Stored'
          BY <2>1, <2>3 DEF Stored
        <4> QED BY <4>2, <4>3
      <3>3. (\A q, r \in captured' : q.id = r.id => q = r) /\ \A q, r \in onRun' : q.event.id = r.event.id => q = r
        BY <2>1, <2>3, <3>1 DEF GroundInv, StoredOnce
      <3>4. \A r \in onRun' : r \in onRun \/ s = [event |-> r.event, path |-> "run"]
        BY <3>1
      <3>5. Index({s})
        BY <2>3
      <3> HIDE DEF s
      <3> QED BY <1>3, <3>2, <3>3, <3>4, <3>5
    <2> QED BY <1>5, <2>2, <2>3 DEF AppendToRun
  <1> QED BY <1>2, <1>4, <1>5 DEF Deliver, DeliverStart, DeliverEnd, DeliverEvent

LEMMA BackfillGrounds == ASSUME PagesInv, GroundInv, Backfill PROVE GroundInv'
  <1>1. PICK batch \in SUBSET Unindexed : Index(batch)
    BY DEF Backfill
  <1>2. UNCHANGED <<captured, onRun, imported>> /\ Stored' = Stored
    BY DEF Backfill, records, Stored
  <1>3. batch \in SUBSET Stored' /\ IsFiniteSet(batch)
    BY <1>2, StoredIsFinite, FS_Subset DEF PagesInv, Unindexed
  <1>4. \A s \in batch : s.path = "legacy"
    BY DEF Unindexed, Stored, GroundInv, StoredOnce
  <1>5. \A s, t \in batch : s.event.id = t.event.id => s = t
    BY <1>2, <1>3, <1>4 DEF GroundInv, Consistent
  <1>6. \A s, t \in Stored' : s.event.id = t.event.id /\ s.path = t.path => s = t
    BY <1>2 DEF GroundInv, Consistent
  <1>7. /\ Consistent(Stored', native')
        /\ native \subseteq native' /\ aliases \subseteq aliases' /\ notes' = notes
    BY <1>1, <1>2, <1>3, <1>5, <1>6, IndexConsistent DEF GroundInv
  <1>8. StoredOnce'
    BY <1>2, <1>7 DEF GroundInv, StoredOnce, Known
  <1>9. NotesStand'
    BY <1>2, <1>7, NotesStay
  <1> QED BY <1>7, <1>8, <1>9 DEF GroundInv

\* The resolved records of an artifact are all that is grounded and relates to
\* grounded ones; what was noted before is among them.
LEMMA ResolvedStands ==
    ASSUME GroundInv, NEW batch \in SUBSET Annotations
    PROVE  /\ Resolved(batch) \subseteq batch
           /\ \A a \in Resolved(batch) : /\ IndexedId(Operation[a])
                                         /\ \A r \in Relates[a] : IF r \in batch THEN r \in Resolved(batch) ELSE Noted(r)
           /\ \A a \in batch : Noted(a) => a \in Resolved(batch)
  <1>1. \A a \in Annotations : Relates[a] \subseteq Annotations
    BY EvidenceAssumption
  <1>2. ASSUME NEW a \in Resolved(batch)
        PROVE  a \in batch /\ Grounded(a, batch) /\ Relates[a] \cap batch \subseteq Resolved(batch)
    BY DEF Resolved
  <1>3. ASSUME NEW a \in batch, Noted(a) PROVE Grounded(a, batch) /\ \A r \in Relates[a] : Noted(r)
    <2>1. IndexedId(Operation[a]) /\ \A r \in Relates[a] : Noted(r)
      BY <1>3 DEF GroundInv, NotesStand, Noted, IndexedId
    <2>2. \A r \in Relates[a] : IndexedId(Operation[r]) /\ imported[r] = "resolved"
      BY <1>1, <2>1 DEF GroundInv, NotesStand, Noted, IndexedId
    <2> QED BY <2>1, <2>2 DEF Grounded
  <1>4. \A a \in batch : Noted(a) => a \in Resolved(batch)
    <2> DEFINE S == {a \in batch : Noted(a)}
    <2>1. S \in SUBSET {a \in batch : Grounded(a, batch)} /\ \A a \in S : Relates[a] \cap batch \subseteq S
      BY <1>3
    <2> HIDE DEF S
    <2>2. S \subseteq Resolved(batch)
      BY <2>1 DEF Resolved
    <2> QED BY <2>2 DEF S
  <1>5. ASSUME NEW a \in Resolved(batch), NEW r \in Relates[a], r \notin batch PROVE Noted(r)
    BY <1>1, <1>2, <1>5 DEF Grounded, GroundInv, NotesStand
  <1> QED BY <1>2, <1>4, <1>5 DEF Grounded

LEMMA ImportGrounds ==
    ASSUME PagesInv, GroundInv, NEW artifact \in Artifacts, Import(artifact) PROVE GroundInv'
  <1> DEFINE batch == Members(artifact)
             resolved == Resolved(batch)
             fresh == {a \in resolved : ~\E x \in notes : x.a = a}
  <1>1. batch \in SUBSET Annotations /\ IsFiniteSet(batch)
    BY MembersAreFinite
  <1>2. /\ \A a \in batch : AboutRequest(a)
        /\ UNCHANGED <<captured, onRun, native, aliases>>
        /\ imported' = [a \in Annotations |->
                          IF a \in batch THEN IF a \in resolved THEN "resolved" ELSE "pending" ELSE imported[a]]
    BY DEF Import, records
  <1>3. PICK order \in SetToSeqs(fresh) :
          notes' = notes \cup {[n |-> High + x, a |-> order[x]] : x \in DOMAIN order}
    BY DEF Import
  <1>4. /\ resolved \subseteq batch
        /\ \A a \in resolved : /\ IndexedId(Operation[a])
                               /\ \A r \in Relates[a] : IF r \in batch THEN r \in resolved ELSE Noted(r)
        /\ \A a \in batch : Noted(a) => a \in resolved
    BY <1>1, ResolvedStands
  <1>5. \A a : a \in fresh <=> a \in resolved /\ ~Noted(a)
    BY DEF Noted
  <1> HIDE DEF batch, resolved, fresh
  <1>6. IsFiniteSet(fresh)
    BY <1>1, <1>4, <1>5, FS_Subset
  <1>7. /\ \A i \in DOMAIN order : order[i] \in fresh
        /\ \A a \in fresh : \E i \in DOMAIN order : order[i] = a
    BY <1>6, OrderLists
  <1>8. \A x \in notes' : x \in notes \/ \E i \in DOMAIN order : x = [n |-> High + i, a |-> order[i]]
    BY <1>3
  <1>9. \A a : Noted(a)' <=> Noted(a) \/ a \in resolved
    <2>1. ASSUME NEW a \in fresh PROVE Noted(a)'
      <3>1. PICK i \in DOMAIN order : order[i] = a
        BY <1>7
      <3>2. [n |-> High + i, a |-> order[i]] \in notes' /\ [n |-> High + i, a |-> order[i]].a = a
        BY <1>3, <3>1
      <3> QED BY <3>2 DEF Noted
    <2>2. \A a : Noted(a) => Noted(a)'
      BY <1>3 DEF Noted
    <2>3. \A a : Noted(a)' => Noted(a) \/ a \in fresh
      BY <1>7, <1>8 DEF Noted
    <2> QED BY <1>5, <2>1, <2>2, <2>3
  <1>10. Stored' = Stored /\ native' = native
    BY <1>2 DEF Stored
  <1>11. \A id : EventAt(id)' = EventAt(id)
    BY <1>10 DEF EventAt
  <1>12. ASSUME NEW x \in notes'
         PROVE  /\ x.a \in Annotations
                /\ \E y \in native' : y.id = Operation[x.a] /\ y.n < x.n
                /\ EventAt(Operation[x.a])'.phase = "pre"
                /\ \A r \in Relates[x.a] : Noted(r)'
    <2>1. CASE x \in notes
      BY <1>9, <1>10, <1>11, <2>1 DEF GroundInv, NotesStand
    <2>2. CASE \E i \in DOMAIN order : x = [n |-> High + i, a |-> order[i]]
      <3>1. PICK i \in DOMAIN order : x = [n |-> High + i, a |-> order[i]]
        BY <2>2
      <3>2. x.n = High + i /\ x.a = order[i] /\ x.a \in fresh /\ x.a \in resolved /\ x.a \in batch
        BY <1>4, <1>5, <1>7, <3>1
      <3>3. PICK y \in native : y.id = Operation[x.a]
        BY <1>4, <3>2 DEF IndexedId
      <3>4. i \in Nat /\ i >= 1
        <4>1. DOMAIN order = 1 .. Cardinality(fresh) /\ Cardinality(fresh) \in Nat
          BY <1>6, FS_CardinalityType DEF SetToSeqs
        <4> QED BY <4>1
      <3>5. y.n \in 1 .. High /\ High \in Nat
        BY DEF PagesInv, Numbered, Gapless, Ordinals
      <3>6. y.n < x.n
        BY <3>2, <3>4, <3>5
      <3>7. EventAt(Operation[x.a]).phase = "pre"
        BY <1>2, <3>2, <3>3 DEF AboutRequest, IndexedId
      <3>8. \A r \in Relates[x.a] : Noted(r)'
        BY <1>4, <1>9, <3>2
      <3> QED BY <1>1, <1>10, <1>11, <3>2, <3>3, <3>6, <3>7, <3>8
    <2> QED BY <1>8, <2>1, <2>2
  <1>13. ASSUME NEW a \in Annotations PROVE imported'[a] = "resolved" <=> Noted(a)'
    <2>1. CASE a \in batch
      BY <1>2, <1>4, <1>9, <2>1
    <2>2. CASE a \notin batch
      BY <1>2, <1>4, <1>9, <2>2 DEF GroundInv, NotesStand
    <2> QED BY <2>1, <2>2
  <1>14. NotesStand'
    BY <1>12, <1>13 DEF NotesStand
  <1>15. StoredOnce'
    BY <1>2 DEF GroundInv, StoredOnce, Known
  <1> QED BY <1>10, <1>14, <1>15 DEF GroundInv

LEMMA GroundInvStep == ASSUME PagesInv, GroundInv, [EvidenceNext]_vars PROVE GroundInv'
  <1>1. CASE \/ \E source \in due : Admit(source)
             \/ UNCHANGED vars
             \/ \E through \in cursor + 1 .. committed : AnalysePage(through)
    BY <1>1, SameGround DEF Admit, AnalysePage, vars, records, index
  <1>2. CASE Reconcile
    BY <1>2, SameGround DEF Reconcile, Reading, CountStored, CountIndexed, CountAliases, CountNotes, Traverse,
           CompareStream, Recheck, RecheckNotes, Enqueue, records, index
  <1> QED BY <1>1, <1>2, DeliveryGrounds, BackfillGrounds, ImportGrounds DEF EvidenceNext

LEMMA GroundInvInit == ASSUME EvidenceInit PROVE GroundInv
  <1>1. native = {} /\ notes = {} /\ onRun = {} /\ captured \in OldEvents
        /\ imported = [a \in Annotations |-> None]
    BY DEF EvidenceInit
  <1>2. StoredOnce
    BY <1>1, EvidenceAssumption DEF StoredOnce
  <1>3. Consistent(Stored, native)
    BY <1>1, <1>2 DEF Consistent, Stored, StoredOnce
  <1>4. None # "resolved"
    BY EvidenceAssumption
  <1>5. NotesStand
    BY <1>1, <1>4 DEF NotesStand, Noted
  <1> QED BY <1>2, <1>3, <1>5 DEF GroundInv

\* ImportedTypedEvidenceRepository.save(): an annotation that was indexed once keeps a
\* request of its own, indexed before it, and related annotations that are indexed
\* too, whatever artifacts repeat or relate to it later and whatever is captured.
THEOREM AnnotationsStayGrounded == EvidenceSpec => []AnnotationsAreGrounded
  <1>1. GroundInv => AnnotationsAreGrounded
    BY DEF GroundInv, NotesStand, Noted, AnnotationsAreGrounded
  <1>2. PagesInv /\ GroundInv /\ [EvidenceNext]_vars => PagesInv' /\ GroundInv'
    BY PagesInvStep, GroundInvStep
  <1> QED BY <1>1, <1>2, PagesInvInit, GroundInvInit, PTL DEF EvidenceSpec

---------------------------------------------------------------------------
(* How far the facts lead.                                                    *)

\* Facts that show the use of advice, among the first n.
Chain(fs, n, i, j, k) ==
    /\ i \in 1 .. n /\ j \in 1 .. n /\ k \in 1 .. n /\ i < j /\ j < k
    /\ fs[i].kind = "retrieved" /\ fs[j].kind = "delivered" /\ fs[k].kind = "selected"

\* What the progress after the first n facts says about them.
IsProgress(p) ==
    /\ p = [stage |-> p.stage, selectedAt |-> p.selectedAt, applied |-> p.applied]
    /\ p.stage \in 0 .. 4 /\ p.selectedAt \in Nat \cup {None}
Says(fs, n, stage, selectedAt, applied) ==
    /\ stage >= 1 => \E i \in 1 .. n : fs[i].kind = "retrieved"
    /\ stage >= 2 => \E i, j \in 1 .. n : i < j /\ fs[i].kind = "retrieved" /\ fs[j].kind = "delivered"
    /\ stage >= 3 => \E i, j, k \in 1 .. n : Chain(fs, n, i, j, k) /\ selectedAt = fs[k].at
    /\ selectedAt # None => stage >= 3
    /\ \A o \in applied : \E m \in 1 .. n : fs[m].kind = "applied" /\ fs[m].ref = o
SaysOf(fs, n, p) == IsProgress(p) /\ Says(fs, n, p.stage, p.selectedAt, p.applied)

LEMMA AdvanceSays ==
    ASSUME NEW fs, NEW n \in Nat, NEW p, SaysOf(fs, n, p), fs[n + 1].at \in Nat
    PROVE  SaysOf(fs, n + 1, Advanced(p, fs[n + 1]))
  <1>0. PICK f : f = fs[n + 1]
    OBVIOUS
  <1>1. PICK s, at, done : s = p.stage /\ at = p.selectedAt /\ done = p.applied
    OBVIOUS
  <1>2. /\ p = [stage |-> s, selectedAt |-> at, applied |-> done] /\ s \in 0 .. 4 /\ at \in Nat \cup {None}
        /\ Says(fs, n, s, at, done) /\ f.at \in Nat
    BY <1>0, <1>1 DEF SaysOf, IsProgress
  <1>3. /\ \A i \in 1 .. n : i \in 1 .. (n + 1) /\ i < n + 1
        /\ n + 1 \in 1 .. (n + 1)
        /\ \A i, j, k : Chain(fs, n, i, j, k) => Chain(fs, n + 1, i, j, k)
    BY DEF Chain
  <1>4. ASSUME NEW t \in 0 .. 4, NEW b \in Nat \cup {None}, NEW d, Says(fs, n + 1, t, b, d),
               Advanced(p, f) = [stage |-> t, selectedAt |-> b, applied |-> d]
        PROVE  SaysOf(fs, n + 1, Advanced(p, f))
    <2>1. PICK q : q = Advanced(p, f)
      OBVIOUS
    <2>2. q = [stage |-> t, selectedAt |-> b, applied |-> d]
      BY <1>4, <2>1
    <2>3. q.stage = t /\ q.selectedAt = b /\ q.applied = d
      BY <2>2
    <2> QED BY <1>4, <2>1, <2>2, <2>3 DEF SaysOf, IsProgress
  <1>5. CASE s = 0 /\ f.kind = "retrieved"
    <2>1. Advanced(p, f) = [stage |-> 1, selectedAt |-> at, applied |-> done]
      BY <1>2, <1>5 DEF Advanced
    <2>2. Says(fs, n + 1, 1, at, done)
      BY <1>0, <1>2, <1>3, <1>5 DEF Says
    <2> QED BY <1>0, <1>2, <1>4, <2>1, <2>2
  <1>6. CASE s = 1 /\ f.kind = "delivered"
    <2>1. Advanced(p, f) = [stage |-> 2, selectedAt |-> at, applied |-> done]
      BY <1>2, <1>6 DEF Advanced
    <2>2. Says(fs, n + 1, 2, at, done)
      BY <1>0, <1>2, <1>3, <1>6 DEF Says
    <2> QED BY <1>0, <1>2, <1>4, <2>1, <2>2
  <1>7. CASE s = 2 /\ f.kind = "selected"
    <2>1. Advanced(p, f) = [stage |-> 3, selectedAt |-> f.at, applied |-> done]
      BY <1>2, <1>7 DEF Advanced
    <2>2. PICK i, j \in 1 .. n : i < j /\ fs[i].kind = "retrieved" /\ fs[j].kind = "delivered"
      BY <1>2, <1>7 DEF Says
    <2>3. Chain(fs, n + 1, i, j, n + 1) /\ f.at = fs[n + 1].at
      BY <1>0, <1>3, <1>7, <2>2 DEF Chain
    <2>4. Says(fs, n + 1, 3, f.at, done)
      BY <1>2, <1>3, <2>2, <2>3 DEF Says
    <2> QED BY <1>0, <1>2, <1>4, <2>1, <2>4
  <1>8. CASE s >= 3 /\ f.kind = "applied"
    <2>1. Advanced(p, f) = [stage |-> 4, selectedAt |-> at, applied |-> done \cup {f.ref}]
      BY <1>2, <1>8 DEF Advanced
    <2>2. PICK i, j, k \in 1 .. n : Chain(fs, n, i, j, k) /\ at = fs[k].at
      BY <1>2, <1>8 DEF Says
    <2>3. Chain(fs, n + 1, i, j, k)
      BY <1>3, <2>2
    <2>4. \A o \in done \cup {f.ref} : \E m \in 1 .. (n + 1) : fs[m].kind = "applied" /\ fs[m].ref = o
      BY <1>0, <1>2, <1>3, <1>8 DEF Says
    <2>5. fs[i].kind = "retrieved" /\ fs[j].kind = "delivered" /\ i < j
      BY <2>2 DEF Chain
    <2>6. Says(fs, n + 1, 4, at, done \cup {f.ref})
      BY <1>3, <2>2, <2>3, <2>4, <2>5 DEF Says
    <2>7. 4 \in 0 .. 4 /\ at \in Nat \cup {None}
      BY <1>2
    <2>8. SaysOf(fs, n + 1, Advanced(p, f))
      BY <1>4, <2>1, <2>6, <2>7, Zenon
    <2> QED BY <1>0, <2>8
  <1>9. CASE Advanced(p, f) = p
    <2>1. Says(fs, n + 1, s, at, done)
      BY <1>2, <1>3 DEF Says
    <2> QED BY <1>0, <1>2, <1>4, <1>9, <2>1
  <1>10. Advanced(p, f) = p \/ (s = 0 /\ f.kind = "retrieved") \/ (s = 1 /\ f.kind = "delivered")
              \/ (s = 2 /\ f.kind = "selected") \/ (s >= 3 /\ f.kind = "applied")
    BY <1>1 DEF Advanced
  <1> QED BY <1>0, <1>5, <1>6, <1>7, <1>8, <1>9, <1>10

\* The progress is defined, step by step, for facts of any number.
LEMMA ProgressSays ==
    ASSUME NEW fs, Len(fs) \in Nat, \A n \in 1 .. Len(fs) : fs[n].at \in Nat
    PROVE  SaysOf(fs, Len(fs), Progress(fs))
  <1> DEFINE N == Len(fs)
             UpTo(g, n) == g = [i \in 0 .. n |-> IF i = 0 THEN NoProgress ELSE Advanced(g[i - 1], fs[i])]
             at == CHOOSE g : UpTo(g, N)
  <1>1. Progress(fs) = at[N]
    BY DEF Progress
  <1>2. \E g : UpTo(g, N)
    <2> DEFINE bad == {n \in 0 .. N : ~\E g : UpTo(g, n)}
    <2>1. bad = {}
      <3> SUFFICES ASSUME bad # {} PROVE FALSE
        OBVIOUS
      <3>1. bad \in SUBSET Nat
        OBVIOUS
      <3>2. PICK n \in bad : \A m \in bad : n <= m
        BY <3>1, LeastNatural
      <3>3. CASE n = 0
        <4> DEFINE g == [i \in 0 .. 0 |-> NoProgress]
        <4>1. UpTo(g, 0)
          OBVIOUS
        <4> HIDE DEF g, UpTo
        <4> QED BY <3>2, <3>3, <4>1
      <3>4. CASE n # 0
        <4>1. n \in Nat /\ n - 1 \in 0 .. N /\ ~(n <= n - 1) /\ n - 1 \in Nat
          BY <3>2, <3>4
        <4>2. n - 1 \notin bad
          <5> HIDE DEF bad
          <5> QED BY <3>2, <4>1
        <4>3. PICK g : UpTo(g, n - 1)
          BY <4>1, <4>2
        <4> DEFINE h == [i \in 0 .. n |-> IF i = n THEN Advanced(g[n - 1], fs[n]) ELSE g[i]]
        <4>4. \A i \in 0 .. (n - 1) : h[i] = g[i] /\ g[i] = IF i = 0 THEN NoProgress ELSE Advanced(g[i - 1], fs[i])
          BY <4>1, <4>3
        <4>5. \A i \in 0 .. n : h[i] = IF i = 0 THEN NoProgress ELSE Advanced(h[i - 1], fs[i])
          <5> SUFFICES ASSUME NEW i \in 0 .. n PROVE h[i] = IF i = 0 THEN NoProgress ELSE Advanced(h[i - 1], fs[i])
            OBVIOUS
          <5>1. CASE i = n
            <6>1. h[n] = Advanced(g[n - 1], fs[n]) /\ h[n - 1] = g[n - 1]
              BY <4>1, <4>4
            <6> QED BY <3>4, <5>1, <6>1
          <5>2. CASE i # n
            <6>1. i \in 0 .. (n - 1) /\ (i # 0 => i - 1 \in 0 .. (n - 1))
              BY <4>1, <5>2
            <6> HIDE DEF h
            <6> QED BY <4>4, <6>1
          <5> QED BY <5>1, <5>2
        <4>6. h = [i \in 0 .. n |-> h[i]]
          OBVIOUS
        <4> HIDE DEF h
        <4>7. UpTo(h, n)
          BY <4>5, <4>6
        <4> QED BY <3>2, <4>7
      <3> QED BY <3>3, <3>4
    <2>2. N \notin bad /\ N \in 0 .. N
      BY <2>1
    <2> QED BY <2>2
  <1>3. UpTo(at, N)
    <2> HIDE DEF UpTo
    <2> QED BY <1>2
  <1> HIDE DEF at
  <1>4. \A i \in 0 .. N : at[i] = IF i = 0 THEN NoProgress ELSE Advanced(at[i - 1], fs[i])
    BY <1>3
  <1> DEFINE wrong == {n \in 0 .. N : ~SaysOf(fs, n, at[n])}
  <1>5. wrong = {}
    <2> SUFFICES ASSUME wrong # {} PROVE FALSE
      OBVIOUS
    <2>1. wrong \in SUBSET Nat
      OBVIOUS
    <2>2. PICK n \in wrong : \A m \in wrong : n <= m
      BY <2>1, LeastNatural
    <2>3. CASE n = 0
      <3>1. at[0] = NoProgress
        BY <1>4
      <3>2. SaysOf(fs, 0, NoProgress)
        BY DEF SaysOf, Says, IsProgress, NoProgress
      <3> QED BY <2>2, <2>3, <3>1, <3>2
    <2>4. CASE n # 0
      <3>1. n - 1 \in 0 .. N /\ n - 1 \in Nat /\ n \in 1 .. N /\ (n - 1) + 1 = n /\ ~(n <= n - 1)
        BY <2>2, <2>4
      <3>2. SaysOf(fs, n - 1, at[n - 1])
        BY <2>2, <3>1
      <3>3. PICK m : m = n - 1
        OBVIOUS
      <3>4. SaysOf(fs, m + 1, Advanced(at[m], fs[m + 1]))
        BY <3>1, <3>2, <3>3, AdvanceSays
      <3>5. at[n] = Advanced(at[n - 1], fs[n])
        BY <1>4, <3>1
      <3>6. SaysOf(fs, n, at[n])
        BY <3>1, <3>3, <3>4, <3>5
      <3> QED BY <2>2, <3>6
    <2> QED BY <2>3, <2>4
  <1>6. N \in 0 .. N /\ N \notin wrong
    BY <1>5
  <1> QED BY <1>1, <1>6

---------------------------------------------------------------------------
(* The inductive invariant.                                                   *)

Kinds == {"delivered", "selected", "rejected", "applied", "outcome-observed"}
Origins == {"cli-retrieval", "agent-claim", "agent-selection", "operation-evidence", "verification-evidence",
            "deterministic-check", "host-challenge"}
FactType ==
    [kind : Kinds \cup {"retrieved"}, origin : Origins, ref : References \cup Operations \cup {None}, at : Nat]

\* Among the first n facts of a bundle advice was used before the time given.
Used(fs, n, at) ==
    at \in Nat /\ \E i, j, k \in 1 .. n : Chain(fs, n, i, j, k) /\ at > fs[i].at /\ at > fs[k].at
AppliedAmong(fs, n, o) == \E m \in 1 .. n : fs[m].kind = "applied" /\ fs[m].ref = o
\* What a fact of some kind about an operation rests on, among the first n facts.
Rests(fs, n, kind, o, begun, done) ==
    /\ kind = "applied" => o \in Fitting \cap Operations /\ Used(fs, n, begun[o])
    /\ kind = "outcome-observed" => o \in done /\ AppliedAmong(fs, n, o)
BundleFits(fs, retrieved, begun, done) ==
    /\ fs \in Seq(FactType) /\ retrieved \in Nat \cup {None}
    /\ retrieved = None => fs = <<>>
    /\ retrieved # None => \E n \in 1 .. Len(fs) : fs[n].kind = "retrieved"
    /\ \A n \in 1 .. Len(fs) : /\ fs[n].kind = "retrieved" => fs[n].at = retrieved
                               /\ Rests(fs, n - 1, fs[n].kind, fs[n].ref, begun, done)
CheckFits(c, fs, begun, done) ==
    /\ c \in [lesson : Lessons, kind : Kinds, ref : References \cup Operations]
    /\ Rests(fs, Len(fs), c.kind, c.ref, begun, done)

AdviceFit ==
    /\ clock \in Nat /\ started \in [Operations -> Nat \cup {None}]
    /\ verified \in SUBSET Lessons /\ selection \in (SUBSET Lessons) \cup {None}
    /\ facts \in [Lessons -> Seq(FactType)] /\ bundles \in [Lessons -> Nat \cup {None}]
    /\ \A l \in Lessons : BundleFits(facts[l], bundles[l], started, succeeded)
    /\ checked # None => CheckFits(checked, facts[checked.lesson], started, succeeded)

\* What rests on the first facts rests on them when there are more, when operations
\* begin and when they succeed.
LEMMA RestsStill ==
    ASSUME NEW fs, NEW more, NEW n \in Nat, NEW m \in Nat, n <= m, \A i \in 1 .. n : more[i] = fs[i],
           NEW begun, NEW later, \A o \in Operations : begun[o] \in Nat => later[o] = begun[o],
           NEW done, NEW also, done \subseteq also,
           NEW kind, NEW o, Rests(fs, n, kind, o, begun, done)
    PROVE  Rests(more, m, kind, o, later, also)
  <1>1. ASSUME NEW at, Used(fs, n, at) PROVE Used(more, m, at)
    <2>1. PICK i, j, k \in 1 .. n : Chain(fs, n, i, j, k) /\ at > fs[i].at /\ at > fs[k].at
      BY <1>1 DEF Used
    <2>2. i \in 1 .. m /\ j \in 1 .. m /\ k \in 1 .. m /\ at \in Nat
      BY <1>1 DEF Used
    <2>3. Chain(more, m, i, j, k)
      BY <2>1, <2>2 DEF Chain
    <2> QED BY <2>1, <2>2, <2>3 DEF Used
  <1>2. AppliedAmong(fs, n, o) => AppliedAmong(more, m, o)
    BY DEF AppliedAmong
  <1>3. \A at : Used(fs, n, at) => at \in Nat
    BY DEF Used
  <1> QED BY <1>1, <1>2, <1>3 DEF Rests

\* A further fact that rests on those there are.
LEMMA AppendFits ==
    ASSUME NEW fs, NEW b, NEW begun, NEW done, BundleFits(fs, b, begun, done), b # None, NEW f \in FactType,
           f.kind # "retrieved", Rests(fs, Len(fs), f.kind, f.ref, begun, done)
    PROVE  BundleFits(Append(fs, f), b, begun, done)
  <1>1. fs \in Seq(FactType) /\ Len(fs) \in Nat
    BY DEF BundleFits
  <1>2. PICK more : more = Append(fs, f)
    OBVIOUS
  <1>3. /\ more \in Seq(FactType) /\ Len(more) = Len(fs) + 1 /\ more[Len(fs) + 1] = f
        /\ \A n \in 1 .. Len(fs) : more[n] = fs[n]
    BY <1>1, <1>2
  <1>4. PICK r \in 1 .. Len(fs) : fs[r].kind = "retrieved"
    BY DEF BundleFits
  <1>5. r \in 1 .. Len(more) /\ more[r].kind = "retrieved"
    BY <1>1, <1>3, <1>4
  <1>6. ASSUME NEW n \in 1 .. Len(more)
        PROVE  /\ more[n].kind = "retrieved" => more[n].at = b
               /\ Rests(more, n - 1, more[n].kind, more[n].ref, begun, done)
    <2>1. CASE n = Len(fs) + 1
      <3>1. Rests(more, Len(fs), f.kind, f.ref, begun, done)
        <4>1. PICK m, kind, o : m = Len(fs) /\ kind = f.kind /\ o = f.ref
          OBVIOUS
        <4>2. /\ m \in Nat /\ m <= m /\ Rests(fs, m, kind, o, begun, done) /\ \A i \in 1 .. m : more[i] = fs[i]
              /\ done \subseteq done /\ \A p \in Operations : begun[p] \in Nat => begun[p] = begun[p]
          BY <1>1, <1>3, <4>1
        <4>3. Rests(more, m, kind, o, begun, done)
          BY <4>2, RestsStill
        <4> QED BY <4>1, <4>3
      <3>2. n - 1 = Len(fs) /\ more[n] = f
        BY <1>1, <1>3, <2>1
      <3> QED BY <3>1, <3>2
    <2>2. CASE n # Len(fs) + 1
      <3>0. Len(fs) \in Nat /\ n \in 1 .. (Len(fs) + 1)
        BY <1>1, <1>3
      <3>1. n \in 1 .. Len(fs) /\ n - 1 \in Nat /\ n - 1 <= n - 1 /\ \A i \in 1 .. (n - 1) : i \in 1 .. Len(fs)
        BY <2>2, <3>0
      <3>2. more[n] = fs[n] /\ (fs[n].kind = "retrieved" => fs[n].at = b)
            /\ Rests(fs, n - 1, fs[n].kind, fs[n].ref, begun, done)
        BY <1>3, <3>1 DEF BundleFits
      <3>3. \A i \in 1 .. (n - 1) : more[i] = fs[i]
        BY <1>3, <3>1
      <3>4. Rests(more, n - 1, fs[n].kind, fs[n].ref, begun, done)
        <4>1. PICK m, kind, o : m = n - 1 /\ kind = fs[n].kind /\ o = fs[n].ref
          OBVIOUS
        <4>2. /\ m \in Nat /\ m <= m /\ Rests(fs, m, kind, o, begun, done) /\ \A i \in 1 .. m : more[i] = fs[i]
              /\ done \subseteq done /\ \A p \in Operations : begun[p] \in Nat => begun[p] = begun[p]
          BY <3>1, <3>2, <3>3, <4>1
        <4>3. Rests(more, m, kind, o, begun, done)
          BY <4>2, RestsStill
        <4> QED BY <4>1, <4>3
      <3> QED BY <3>2, <3>4
    <2> QED BY <2>1, <2>2
  <1>7. b \in Nat \cup {None}
    BY DEF BundleFits
  <1> QED BY <1>2, <1>3, <1>5, <1>6, <1>7 DEF BundleFits

\* A fact that rests on those recorded for its bundle may be recorded.
LEMMA WriteFits ==
    ASSUME AdviceFit, NEW l \in Lessons, NEW f \in FactType, bundles[l] # None, f.kind # "retrieved",
           Rests(facts[l], Len(facts[l]), f.kind, f.ref, started, succeeded)
    PROVE  /\ WithFact(l, f) \in [Lessons -> Seq(FactType)]
           /\ \A k \in Lessons : BundleFits(WithFact(l, f)[k], bundles[k], started, succeeded)
           /\ \A c : CheckFits(c, facts[c.lesson], started, succeeded)
                        => CheckFits(c, WithFact(l, f)[c.lesson], started, succeeded)
  <1>1. facts \in [Lessons -> Seq(FactType)] /\ \A k \in Lessons : BundleFits(facts[k], bundles[k], started, succeeded)
    BY DEF AdviceFit
  <1>2. CASE Told(l, f)
    BY <1>1, <1>2 DEF WithFact
  <1>3. CASE ~Told(l, f)
    <2>1. PICK more : more = [facts EXCEPT ![l] = Append(facts[l], f)]
      OBVIOUS
    <2>2. WithFact(l, f) = more
      BY <1>3, <2>1 DEF WithFact
    <2>3. facts[l] \in Seq(FactType) /\ Append(facts[l], f) \in Seq(FactType)
      BY <1>1
    <2>4. /\ more \in [Lessons -> Seq(FactType)] /\ more[l] = Append(facts[l], f)
          /\ \A k \in Lessons : k # l => more[k] = facts[k]
      BY <1>1, <2>1, <2>3
    <2>5. BundleFits(more[l], bundles[l], started, succeeded)
      BY <1>1, <2>4, AppendFits
    <2>6. ASSUME NEW c, CheckFits(c, facts[c.lesson], started, succeeded)
          PROVE  CheckFits(c, more[c.lesson], started, succeeded)
      <3>1. c.lesson \in Lessons
        BY <2>6 DEF CheckFits
      <3>2. CASE c.lesson = l
        <4>1. /\ Len(facts[l]) \in Nat /\ Len(more[l]) \in Nat /\ Len(facts[l]) <= Len(more[l])
              /\ \A i \in 1 .. Len(facts[l]) : more[l][i] = facts[l][i]
          BY <2>3, <2>4
        <4>2. Rests(facts[l], Len(facts[l]), c.kind, c.ref, started, succeeded)
          BY <2>6, <3>2 DEF CheckFits
        <4>3. Rests(more[l], Len(more[l]), c.kind, c.ref, started, succeeded)
          BY <4>1, <4>2, RestsStill
        <4> QED BY <2>6, <3>2, <4>3 DEF CheckFits
      <3> QED BY <2>4, <2>6, <3>1, <3>2
    <2> QED BY <1>1, <2>2, <2>4, <2>5, <2>6
  <1> QED BY <1>2, <1>3

\* What the facts rest on still holds after operations have begun or succeeded.
LEMMA TimeFits ==
    ASSUME NEW fs, NEW b, NEW begun, NEW later, \A o \in Operations : begun[o] \in Nat => later[o] = begun[o],
           NEW done, NEW also, done \subseteq also
    PROVE  /\ BundleFits(fs, b, begun, done) => BundleFits(fs, b, later, also)
           /\ \A c : Len(fs) \in Nat /\ CheckFits(c, fs, begun, done) => CheckFits(c, fs, later, also)
  <1>1. ASSUME BundleFits(fs, b, begun, done), NEW n \in 1 .. Len(fs)
        PROVE  Rests(fs, n - 1, fs[n].kind, fs[n].ref, later, also)
    <2>1. PICK m, kind, o : m = n - 1 /\ kind = fs[n].kind /\ o = fs[n].ref
      OBVIOUS
    <2>2. m \in Nat /\ m <= m /\ Rests(fs, m, kind, o, begun, done)
      BY <1>1, <2>1 DEF BundleFits
    <2>3. Rests(fs, m, kind, o, later, also)
      BY <2>2, RestsStill
    <2> QED BY <2>1, <2>3
  <1>2. ASSUME NEW c, Len(fs) \in Nat, CheckFits(c, fs, begun, done) PROVE CheckFits(c, fs, later, also)
    <2>1. Len(fs) <= Len(fs) /\ Rests(fs, Len(fs), c.kind, c.ref, begun, done)
      BY <1>2 DEF CheckFits
    <2>2. Rests(fs, Len(fs), c.kind, c.ref, later, also)
      BY <1>2, <2>1, RestsStill
    <2> QED BY <1>2, <2>2 DEF CheckFits
  <1> QED BY <1>1, <1>2 DEF BundleFits

\* The first retrieval opens the bundle, a later one finds it.
LEMMA RetrieveFits ==
    ASSUME AdviceFit, Retrieve
    PROVE  AdviceFit'
  <1>1. /\ clock' = clock /\ started' = started /\ succeeded' = succeeded /\ verified' = verified /\ checked' = checked
        /\ selection \in SUBSET Lessons
    BY DEF Retrieve, environment, AdviceFit
  <1>2. PICK l \in selection :
           \/ /\ bundles' = [bundles EXCEPT ![l] = IF bundles[l] = None THEN clock ELSE bundles[l]]
              /\ facts' = WithFact(l, Fact("retrieved", "cli-retrieval", None)) /\ selection' = selection \ {l}
           \/ selection' = None /\ bundles' = bundles /\ facts' = facts
    BY DEF Retrieve, store
  <1>3. /\ l \in Lessons /\ selection' \in (SUBSET Lessons) \cup {None}
        /\ clock \in Nat /\ started \in [Operations -> Nat \cup {None}]
        /\ facts \in [Lessons -> Seq(FactType)] /\ bundles \in [Lessons -> Nat \cup {None}]
        /\ \A k \in Lessons : BundleFits(facts[k], bundles[k], started, succeeded)
        /\ checked # None => CheckFits(checked, facts[checked.lesson], started, succeeded)
    BY <1>1, <1>2 DEF AdviceFit
  <1>4. CASE bundles' = bundles /\ facts' = facts
    BY <1>1, <1>3, <1>4 DEF AdviceFit
  <1> DEFINE f == Fact("retrieved", "cli-retrieval", None)
  <1>5. f \in FactType /\ f.kind = "retrieved" /\ f.at = clock
    BY <1>3 DEF Fact, FactType, Origins
  <1> HIDE DEF f
  <1>6. ASSUME bundles' = [bundles EXCEPT ![l] = IF bundles[l] = None THEN clock ELSE bundles[l]], facts' = WithFact(l, f)
        PROVE  AdviceFit'
    <2>1. CASE bundles[l] # None
      <3>1. PICK n \in 1 .. Len(facts[l]) : facts[l][n].kind = "retrieved"
        BY <1>3, <2>1 DEF BundleFits
      <3>2. facts[l] \in Seq(FactType)
        BY <1>3
      <3>3. facts[l][n] \in ToSet(facts[l])
        BY <3>1, <3>2 DEF ToSet
      <3>4. Told(l, f)
        BY <1>5, <3>1, <3>3 DEF Told
      <3>5. facts' = facts /\ bundles' = bundles
        BY <1>3, <1>6, <2>1, <3>4 DEF WithFact
      <3> QED BY <1>4, <3>5
    <2>2. CASE bundles[l] = None
      <3>1. facts[l] = <<>>
        BY <1>3, <2>2 DEF BundleFits
      <3>2. ~Told(l, f)
        BY <3>1 DEF Told, ToSet
      <3>3. facts' = [facts EXCEPT ![l] = <<f>>]
        BY <1>6, <3>1, <3>2 DEF WithFact
      <3>4. PICK more, opened : more = facts' /\ opened = bundles'
        OBVIOUS
      <3>5. <<f>> \in Seq(FactType) /\ Len(<<f>>) = 1 /\ <<f>>[1] = f
        BY <1>5
      <3>6. /\ more \in [Lessons -> Seq(FactType)] /\ more[l] = <<f>> /\ opened[l] = clock
            /\ opened \in [Lessons -> Nat \cup {None}]
            /\ \A k \in Lessons : k # l => more[k] = facts[k] /\ opened[k] = bundles[k]
        BY <1>3, <1>6, <2>2, <3>3, <3>4, <3>5
      <3>7. BundleFits(<<f>>, clock, started, succeeded)
        <4>1. 1 \in 1 .. 1 /\ \A n \in 1 .. 1 : n = 1
          OBVIOUS
        <4>2. Rests(<<f>>, 0, "retrieved", f.ref, started, succeeded)
          BY DEF Rests
        <4>3. clock \in Nat /\ clock # None
          BY <1>3, AdviceAssumption
        <4> QED BY <1>5, <3>5, <4>1, <4>2, <4>3 DEF BundleFits
      <3>8. checked # None => CheckFits(checked, more[checked.lesson], started, succeeded)
        <4> SUFFICES ASSUME checked # None PROVE CheckFits(checked, more[checked.lesson], started, succeeded)
          OBVIOUS
        <4>1. CheckFits(checked, facts[checked.lesson], started, succeeded) /\ checked.lesson \in Lessons
          BY <1>3 DEF CheckFits
        <4>2. CASE checked.lesson = l
          <5>1. Rests(<<>>, 0, checked.kind, checked.ref, started, succeeded)
            BY <3>1, <4>1, <4>2 DEF CheckFits
          <5>2. Rests(<<f>>, 1, checked.kind, checked.ref, started, succeeded)
            <6>1. \A i \in 1 .. 0 : <<f>>[i] = <<>>[i]
              OBVIOUS
            <6>2. PICK none, one, kind, o : none = <<>> /\ one = <<f>> /\ kind = checked.kind /\ o = checked.ref
              OBVIOUS
            <6>3. PICK n, m : n = 0 /\ m = 1
              OBVIOUS
            <6>7. /\ n \in Nat /\ m \in Nat /\ n <= m /\ \A i \in 1 .. n : one[i] = none[i]
                  /\ succeeded \subseteq succeeded /\ \A p \in Operations : started[p] \in Nat => started[p] = started[p]
              BY <6>3
            <6>4. Rests(none, 0, kind, o, started, succeeded)
              BY <5>1, <6>2
            <6>6. Rests(none, n, kind, o, started, succeeded)
              BY <6>3, <6>4
            <6>5. Rests(one, 1, kind, o, started, succeeded)
              <7>1. Rests(one, m, kind, o, started, succeeded)
                BY <6>7, <6>6, RestsStill
              <7> QED BY <6>3, <7>1
            <6> QED BY <6>2, <6>5
          <5> QED BY <3>5, <3>6, <4>1, <4>2, <5>2 DEF CheckFits
        <4> QED BY <3>6, <4>1, <4>2
      <3>9. \A k \in Lessons : BundleFits(more[k], opened[k], started, succeeded)
        BY <1>3, <3>6, <3>7
      <3> QED BY <1>1, <1>3, <3>4, <3>6, <3>8, <3>9 DEF AdviceFit
    <2> QED BY <2>1, <2>2
  <1> QED BY <1>2, <1>4, <1>6 DEF f

\* A step that records at most one fact that rests on those there are, and forgets a
\* check or keeps it.
LEMMA RecordFits ==
    ASSUME AdviceFit, NEW l \in Lessons, NEW f \in FactType, bundles[l] # None, f.kind # "retrieved",
           Rests(facts[l], Len(facts[l]), f.kind, f.ref, started, succeeded),
           facts' = WithFact(l, f), bundles' = bundles, UNCHANGED <<environment, selection>>, checked' \in {None, checked}
    PROVE  AdviceFit'
  <1>1. PICK more : more = facts'
    OBVIOUS
  <1>2. /\ more \in [Lessons -> Seq(FactType)]
        /\ \A k \in Lessons : BundleFits(more[k], bundles[k], started, succeeded)
        /\ \A c : CheckFits(c, facts[c.lesson], started, succeeded) => CheckFits(c, more[c.lesson], started, succeeded)
    BY <1>1, WriteFits
  <1> QED BY <1>1, <1>2 DEF AdviceFit, environment

\* What the progress asked about says of the facts.
LEMMA ProgressOf ==
    ASSUME AdviceFit, NEW l \in Lessons
    PROVE  /\ \A o \in Progress(facts[l]).applied : AppliedAmong(facts[l], Len(facts[l]), o)
           /\ \A at \in Nat : /\ Progress(facts[l]).selectedAt # None /\ bundles[l] # None
                              /\ at > bundles[l] /\ at > Progress(facts[l]).selectedAt
                              => Used(facts[l], Len(facts[l]), at)
  <1> DEFINE fs == facts[l]
             p == Progress(fs)
  <1>1. fs \in Seq(FactType) /\ Len(fs) \in Nat /\ BundleFits(fs, bundles[l], started, succeeded)
    BY DEF AdviceFit
  <1>2. \A n \in 1 .. Len(fs) : fs[n].at \in Nat
    <2>1. \A n \in 1 .. Len(fs) : fs[n] \in FactType
      BY <1>1
    <2> QED BY <2>1 DEF FactType
  <1>3. SaysOf(fs, Len(fs), p)
    BY <1>1, <1>2, ProgressSays
  <1> HIDE DEF p, fs
  <1>4. \A o \in p.applied : AppliedAmong(fs, Len(fs), o)
    BY <1>3 DEF SaysOf, Says, AppliedAmong
  <1>5. ASSUME NEW at \in Nat, p.selectedAt # None, at > bundles[l], at > p.selectedAt PROVE Used(fs, Len(fs), at)
    <2>1. PICK i, j, k \in 1 .. Len(fs) : Chain(fs, Len(fs), i, j, k) /\ p.selectedAt = fs[k].at
      BY <1>3, <1>5 DEF SaysOf, Says
    <2>2. fs[i].at = bundles[l]
      BY <1>1, <2>1 DEF BundleFits, Chain
    <2> QED BY <1>5, <2>1, <2>2 DEF Used
  <1> QED BY <1>4, <1>5 DEF p, fs

LEMMA AdviceSteps ==
    ASSUME AdviceFit, [AdviceNext]_adviceVars
    PROVE  AdviceFit'
  <1>1. /\ clock \in Nat /\ started \in [Operations -> Nat \cup {None}]
        /\ verified \in SUBSET Lessons /\ selection \in (SUBSET Lessons) \cup {None}
        /\ facts \in [Lessons -> Seq(FactType)] /\ bundles \in [Lessons -> Nat \cup {None}]
        /\ \A l \in Lessons : BundleFits(facts[l], bundles[l], started, succeeded)
        /\ checked # None => CheckFits(checked, facts[checked.lesson], started, succeeded)
    BY DEF AdviceFit
  <1>2. CASE Select
    BY <1>1, <1>2 DEF Select, store, environment, AdviceFit
  <1>3. CASE Retrieve
    BY <1>3, RetrieveFits
  <1>4. CASE Answer
    BY <1>1, <1>4 DEF Answer, store, environment, AdviceFit
  <1>5. CASE Record
    <2> DEFINE f == Fact(checked.kind, Origin(checked.kind), checked.ref)
    <2>1. /\ checked # None /\ checked' = None /\ UNCHANGED <<environment, selection>>
          /\ IF MayRecord(checked.lesson, f) THEN Records(checked.lesson, f) ELSE UNCHANGED store
      BY <1>5 DEF Record
    <2>2. /\ checked \in [lesson : Lessons, kind : Kinds, ref : References \cup Operations]
          /\ Rests(facts[checked.lesson], Len(facts[checked.lesson]), checked.kind, checked.ref, started, succeeded)
      BY <1>1, <2>1 DEF CheckFits
    <2>3. f \in FactType /\ f.kind = checked.kind /\ f.ref = checked.ref /\ f.kind # "retrieved"
      BY <1>1, <2>2 DEF Fact, Origin, FactType, Kinds, Origins
    <2> HIDE DEF f
    <2>4. CASE UNCHANGED store
      BY <1>1, <2>1, <2>4 DEF store, environment, AdviceFit
    <2>5. CASE Records(checked.lesson, f)
      <3>1. bundles[checked.lesson] # None /\ facts' = WithFact(checked.lesson, f) /\ bundles' = bundles
        BY <2>5 DEF Records, MayRecord
      <3> QED BY <2>1, <2>2, <2>3, <3>1, RecordFits
    <2> QED BY <2>1, <2>4, <2>5
  <1>6. CASE Configure \/ \E l \in Lessons : LessonsChange(l)
    BY <1>1, <1>6 DEF Configure, LessonsChange, Changes, store, AdviceFit
  <1>7. CASE \E l \in FactLessons : FileChanges(l)
    BY <1>1, <1>7 DEF FileChanges, Changes, store, AdviceFit
  <1>8. CASE TimePasses
    BY <1>1, <1>8 DEF TimePasses, store, AdviceFit
  <1>9. ASSUME NEW l \in Lessons, NEW kind \in Kinds, NEW ref \in References \cup Operations,
               kind \in {"applied", "outcome-observed"} => ref \in Operations, Check(l, kind, ref)
        PROVE  AdviceFit'
    <2>1. /\ Passes(l, kind, ref) /\ UNCHANGED <<store, environment, selection, host>>
          /\ checked' = [lesson |-> l, kind |-> kind, ref |-> ref]
      BY <1>9 DEF Check
    <2>2. Rests(facts[l], Len(facts[l]), kind, ref, started, succeeded)
      <3>1. ASSUME kind = "applied" PROVE ref \in Fitting \cap Operations /\ Used(facts[l], Len(facts[l]), started[ref])
        <4>1. /\ ref \in Fitting /\ ref \in Operations /\ bundles[l] # None /\ started[ref] # None
              /\ Progress(facts[l]).selectedAt # None /\ started[ref] > bundles[l]
              /\ started[ref] > Progress(facts[l]).selectedAt
          BY <1>9, <2>1, <3>1 DEF Passes, VerifiesApplied, BegunAfterUse
        <4>2. started[ref] \in Nat
          BY <1>1, <4>1
        <4> QED BY <4>1, <4>2, ProgressOf
      <3>2. ASSUME kind = "outcome-observed" PROVE ref \in succeeded /\ AppliedAmong(facts[l], Len(facts[l]), ref)
        <4>1. ref \in succeeded /\ ref \in Progress(facts[l]).applied
          BY <2>1, <3>2 DEF Passes, VerifiesOutcome
        <4> QED BY <4>1, ProgressOf
      <3> QED BY <3>1, <3>2 DEF Rests
    <2>3. PICK c : c = [lesson |-> l, kind |-> kind, ref |-> ref]
      OBVIOUS
    <2>4. c \in [lesson : Lessons, kind : Kinds, ref : References \cup Operations]
          /\ c.lesson = l /\ c.kind = kind /\ c.ref = ref
      BY <1>9, <2>3
    <2>5. CheckFits(c, facts[l], started, succeeded)
      BY <2>2, <2>4 DEF CheckFits
    <2> QED BY <1>1, <2>1, <2>3, <2>4, <2>5 DEF store, environment, AdviceFit
  <1>10. ASSUME NEW l \in Lessons, NEW o \in Operations, RecordDeterministicOutcome(l, o) PROVE AdviceFit'
    <2> DEFINE f == Fact("outcome-observed", "deterministic-check", o)
    <2>1. /\ o \in succeeded /\ o \in Progress(facts[l]).applied /\ Records(l, f)
          /\ UNCHANGED <<environment, selection, checked>>
      BY <1>10 DEF RecordDeterministicOutcome
    <2>2. f \in FactType /\ f.kind = "outcome-observed" /\ f.ref = o
      BY <1>1 DEF Fact, FactType, Kinds, Origins
    <2> HIDE DEF f
    <2>3. Rests(facts[l], Len(facts[l]), f.kind, f.ref, started, succeeded)
      BY <2>1, <2>2, ProgressOf DEF Rests
    <2>4. bundles[l] # None /\ facts' = WithFact(l, f) /\ bundles' = bundles
      BY <2>1 DEF Records, MayRecord
    <2> QED BY <2>1, <2>2, <2>3, <2>4, RecordFits
  <1>11. ASSUME NEW event \in HostEvents, ChildReports(event) PROVE AdviceFit'
    <2> DEFINE f == Fact("delivered", "host-challenge", None)
    <2>1. UNCHANGED <<environment, selection, checked>> /\ (Records(Watched, f) \/ UNCHANGED store)
      BY <1>11 DEF ChildReports
    <2>2. f \in FactType /\ f.kind = "delivered"
      BY <1>1 DEF Fact, FactType, Kinds, Origins
    <2> HIDE DEF f
    <2>3. CASE UNCHANGED store
      BY <1>1, <2>1, <2>3 DEF store, environment, AdviceFit
    <2>4. CASE Records(Watched, f)
      <3>1. bundles[Watched] # None /\ facts' = WithFact(Watched, f) /\ bundles' = bundles /\ Watched \in Lessons
        BY <2>4, AdviceAssumption DEF Records, MayRecord
      <3>2. Rests(facts[Watched], Len(facts[Watched]), f.kind, f.ref, started, succeeded)
        BY <2>2 DEF Rests
      <3> QED BY <2>1, <2>2, <3>1, <3>2, RecordFits
    <2> QED BY <2>1, <2>3, <2>4
  <1>12. ASSUME NEW o \in Operations, Begin(o) \/ Succeed(o) PROVE AdviceFit'
    <2>1. /\ clock' = clock /\ verified' = verified /\ selection' = selection /\ checked' = checked
          /\ facts' = facts /\ bundles' = bundles /\ succeeded \subseteq succeeded'
      BY <1>12 DEF Begin, Succeed, store
    <2>2. PICK later, also : later = started' /\ also = succeeded'
      OBVIOUS
    <2>3. /\ later \in [Operations -> Nat \cup {None}] /\ succeeded \subseteq also
          /\ \A p \in Operations : started[p] \in Nat => later[p] = started[p]
      <3>1. CASE Begin(o)
        BY <1>1, <2>1, <2>2, <3>1, AdviceAssumption DEF Begin
      <3>2. CASE Succeed(o)
        BY <1>1, <2>1, <2>2, <3>2 DEF Succeed
      <3> QED BY <1>12, <3>1, <3>2
    <2>4. \A l \in Lessons : BundleFits(facts[l], bundles[l], later, also)
      BY <1>1, <2>3, TimeFits
    <2>5. checked # None => CheckFits(checked, facts[checked.lesson], later, also)
      <3> SUFFICES ASSUME checked # None PROVE CheckFits(checked, facts[checked.lesson], later, also)
        OBVIOUS
      <3>1. CheckFits(checked, facts[checked.lesson], started, succeeded) /\ checked.lesson \in Lessons
        BY <1>1 DEF CheckFits
      <3>2. Len(facts[checked.lesson]) \in Nat
        BY <1>1, <3>1
      <3> QED BY <2>3, <3>1, <3>2, TimeFits
    <2> QED BY <1>1, <2>1, <2>2, <2>3, <2>4, <2>5 DEF AdviceFit
  <1>13. CASE UNCHANGED adviceVars
    BY <1>1, <1>13 DEF adviceVars, store, environment, AdviceFit
  <1>14. ASSUME NEW l \in Lessons, NEW kind \in Claims, NEW ref \in References, Check(l, kind, ref) PROVE AdviceFit'
    <2>1. kind \in Kinds /\ kind \notin {"applied", "outcome-observed"}
      BY DEF Claims, Kinds
    <2> QED BY <1>9, <1>14, <2>1
  <1>15. ASSUME NEW l \in Lessons, NEW kind \in {"applied", "outcome-observed"}, NEW o \in Operations, Check(l, kind, o)
         PROVE  AdviceFit'
    <2>1. kind \in Kinds
      BY DEF Kinds
    <2> QED BY <1>9, <1>15, <2>1
  <1> QED BY <1>2, <1>3, <1>4, <1>5, <1>6, <1>7, <1>8, <1>10, <1>11, <1>12, <1>13, <1>14, <1>15 DEF AdviceNext

(* Advice: an outcome is credited to advice only for an operation that fits it, that
   succeeded, and that began after the advice was retrieved, delivered and selected. *)
THEOREM OutcomesStayGrounded == AdviceSpec => []OutcomesRestOnUse
  <1>1. AdviceInit => AdviceFit
    <2> SUFFICES ASSUME AdviceInit PROVE AdviceFit
      OBVIOUS
    <2>1. /\ clock = 1 /\ started = [o \in Operations |-> None] /\ verified \in SUBSET Lessons /\ selection = None
          /\ facts = [l \in Lessons |-> <<>>] /\ bundles = [l \in Lessons |-> None] /\ checked = None
      BY DEF AdviceInit
    <2>2. \A begun, done : BundleFits(<<>>, None, begun, done)
      BY DEF BundleFits
    <2> QED BY <2>1, <2>2 DEF AdviceFit
  <1>2. AdviceFit /\ [AdviceNext]_adviceVars => AdviceFit'
    BY AdviceSteps
  <1>3. AdviceFit => OutcomesRestOnUse
    <2> SUFFICES ASSUME AdviceFit, NEW l \in Lessons, NEW n \in DOMAIN facts[l], facts[l][n].kind = "outcome-observed"
                 PROVE  LET f == facts[l] IN
                        /\ f[n].ref \in Fitting \cap succeeded
                        /\ \E i, j, k, m \in 1 .. n :
                              /\ i < j /\ j < k /\ k < m /\ m < n
                              /\ f[i].kind = "retrieved" /\ f[j].kind = "delivered" /\ f[k].kind = "selected"
                              /\ f[m].kind = "applied" /\ f[m].ref = f[n].ref
                              /\ started[f[n].ref] > f[i].at /\ started[f[n].ref] > f[k].at
      BY DEF OutcomesRestOnUse
    <2>1. PICK f : f = facts[l]
      OBVIOUS
    <2>2. BundleFits(f, bundles[l], started, succeeded) /\ n \in 1 .. Len(f) /\ Len(f) \in Nat
      BY <2>1 DEF AdviceFit
    <2>3. f[n].ref \in succeeded /\ AppliedAmong(f, n - 1, f[n].ref)
      BY <2>1, <2>2 DEF BundleFits, Rests
    <2>4. PICK m \in 1 .. (n - 1) : f[m].kind = "applied" /\ f[m].ref = f[n].ref
      BY <2>3 DEF AppliedAmong
    <2>5. m \in 1 .. Len(f) /\ m \in 1 .. n /\ m < n
      BY <2>2, <2>4
    <2>6. f[n].ref \in Fitting /\ Used(f, m - 1, started[f[n].ref])
      BY <2>2, <2>4, <2>5 DEF BundleFits, Rests
    <2>7. PICK i, j, k \in 1 .. (m - 1) :
             Chain(f, m - 1, i, j, k) /\ started[f[n].ref] > f[i].at /\ started[f[n].ref] > f[k].at
      BY <2>6 DEF Used
    <2>8. i \in 1 .. n /\ j \in 1 .. n /\ k \in 1 .. n /\ k < m
      BY <2>2, <2>5, <2>7
    <2> QED BY <2>1, <2>3, <2>4, <2>5, <2>6, <2>7, <2>8 DEF Chain
  <1> QED BY <1>1, <1>2, <1>3, PTL DEF AdviceSpec

---------------------------------------------------------------------------
(* An entry, its evidence and its history.                                    *)

BroughtRows == UNION {ToSet(i.evidence) : i \in Imports}
SentRows == {u.e : u \in Updates}
ResultRows == [id : ResultEvidence, polarity : {"confirms", "contradicts"}, revalidatesTo : {None}]
EvidenceRows == BroughtRows \cup SentRows \cup ResultRows
HistoryRows == [from : States, to : States, evidence : {e.id : e \in EvidenceRows}, occurredAt : Nat]

Distinct(at) == \A m, n \in DOMAIN at : at[m].id = at[n].id => m = n
\* Each transition was caused by evidence of the entry, and one out of a dispute
\* by evidence that says so.
Caused(at, h) ==
    \A i \in DOMAIN h : \E p \in DOMAIN at :
        at[p].id = h[i].evidence /\ (h[i].from = "disputed" => at[p].revalidatesTo = h[i].to)
Ordered(h) ==
    \A i \in DOMAIN h :
        /\ CanTransition(h[i].from, h[i].to)
        /\ i > 1 => h[i].from = h[i - 1].to /\ h[i].occurredAt >= h[i - 1].occurredAt
\* After every contradiction of an active entry there was a revalidation.
Settled(state, at, h) ==
    state \in Active =>
        \A c \in DOMAIN at : at[c].polarity = "contradicts" =>
            \E i \in DOMAIN h : \E p \in DOMAIN at : h[i].from = "disputed" /\ at[p].id = h[i].evidence /\ p > c
Sound(state, at, h) ==
    /\ state \in States /\ at \in Seq(EvidenceRows) /\ h \in Seq(HistoryRows)
    /\ Distinct(at) /\ Caused(at, h) /\ Ordered(h) /\ Settled(state, at, h)
    /\ h # <<>> => h[Len(h)].to = state

LEMMA AfterIs ==
    ASSUME NEW state \in States, NEW e, NEW target, KnowledgeAssumption
    PROVE  /\ After(state, e, target) # state =>
                 /\ CanTransition(state, After(state, e, target)) /\ After(state, e, target) \in States
                 /\ state = "disputed" => e.revalidatesTo = After(state, e, target)
           /\ e.polarity = "contradicts" /\ Attaches(e, target) => After(state, e, target) \notin Active
  <1>1. PICK next : next = IF target # None THEN target ELSE AutomaticTarget(state, e)
    OBVIOUS
  <1>2. After(state, e, target) = IF next # None /\ CanTransition(state, next) /\ (state = "disputed" => e.revalidatesTo = next)
                                  THEN next ELSE state
    BY <1>1 DEF After
  <1>3. None \notin States
    BY DEF KnowledgeAssumption
  <1>4. ASSUME next # None, CanTransition(state, next) PROVE next \in States
    BY <1>4, <1>3 DEF CanTransition, NormalNext, States, Active, Terminal
  <1>5. ASSUME e.polarity = "contradicts", Attaches(e, target) PROVE After(state, e, target) \notin Active
    <2>1. next = "disputed"
      BY <1>1, <1>5 DEF Attaches, AutomaticTarget
    <2>2. None # "disputed"
      BY <1>3 DEF States
    <2>3. CASE state \in Active
      <3>1. CanTransition(state, next) /\ state # "disputed"
        BY <2>1, <2>3 DEF CanTransition, Active
      <3> QED BY <1>2, <2>1, <2>2, <3>1 DEF Active
    <2>4. CASE state \notin Active
      BY <1>2, <2>1, <2>4 DEF Active
    <2> QED BY <2>3, <2>4
  <1> QED BY <1>2, <1>4, <1>5

\* The next piece of evidence leaves an entry as sound as it was.
LEMMA AppendSound ==
    ASSUME KnowledgeAssumption, NEW state, NEW at, NEW h, Sound(state, at, h),
           NEW e \in EvidenceRows, NEW target, NEW time \in Nat, Attaches(e, target),
           \A n \in DOMAIN at : at[n].id # e.id,
           h # <<>> => time >= h[Len(h)].occurredAt,
           NEW next, next = After(state, e, target),
           NEW more, more = IF next # state
                            THEN Append(h, [from |-> state, to |-> next, evidence |-> e.id, occurredAt |-> time])
                            ELSE h
    PROVE  Sound(next, Append(at, e), more)
  <1>1. /\ state \in States /\ at \in Seq(EvidenceRows) /\ h \in Seq(HistoryRows) /\ Len(at) \in Nat /\ Len(h) \in Nat
        /\ Distinct(at) /\ Caused(at, h) /\ Ordered(h) /\ Settled(state, at, h)
        /\ h # <<>> => h[Len(h)].to = state
    BY DEF Sound
  <1>2. /\ next # state => CanTransition(state, next) /\ next \in States /\ (state = "disputed" => e.revalidatesTo = next)
        /\ e.polarity = "contradicts" => next \notin Active
    BY <1>1, AfterIs
  <1>3. PICK wide : wide = Append(at, e)
    OBVIOUS
  <1>4. /\ wide \in Seq(EvidenceRows) /\ DOMAIN wide = 1 .. (Len(at) + 1) /\ DOMAIN at = 1 .. Len(at)
        /\ wide[Len(at) + 1] = e /\ \A n \in DOMAIN at : n \in DOMAIN wide /\ wide[n] = at[n]
    BY <1>1, <1>3
  <1>5. PICK row : row = [from |-> state, to |-> next, evidence |-> e.id, occurredAt |-> time]
    OBVIOUS
  <1>6. row.from = state /\ row.to = next /\ row.evidence = e.id /\ row.occurredAt = time
    BY <1>5
  <1>7. next # state => row \in HistoryRows
    BY <1>1, <1>2, <1>5 DEF HistoryRows
  <1>8. /\ more \in Seq(HistoryRows) /\ DOMAIN h = 1 .. Len(h) /\ \A i \in DOMAIN h : i \in DOMAIN more /\ more[i] = h[i]
        /\ next # state => DOMAIN more = 1 .. (Len(h) + 1) /\ more[Len(h) + 1] = row /\ Len(more) = Len(h) + 1
        /\ next = state => more = h
    BY <1>1, <1>5, <1>7
  <1>15. \A i \in DOMAIN more : i \in DOMAIN h \/ (next # state /\ i = Len(h) + 1)
    <2>1. CASE next = state
      BY <1>8, <2>1
    <2>2. CASE next # state
      <3>1. DOMAIN more = 1 .. (Len(h) + 1) /\ DOMAIN h = 1 .. Len(h) /\ Len(h) \in Nat
        BY <1>1, <1>8, <2>2
      <3> QED BY <2>2, <3>1
    <2> QED BY <2>1, <2>2
  <1>16. next # state => /\ Len(h) + 1 \in DOMAIN more /\ more[Len(h) + 1] = row
                        /\ Len(more) = Len(h) + 1
    <2>1. Len(h) + 1 \in 1 .. (Len(h) + 1)
      BY <1>1
    <2> QED BY <1>8, <2>1
  <1>17. /\ Len(at) + 1 \in DOMAIN wide
         /\ \A i \in DOMAIN h : i \in Nat /\ i > 0 /\ (i > 1 => i - 1 \in DOMAIN h)
         /\ Len(h) + 1 > 1 => h # <<>> /\ (Len(h) + 1) - 1 = Len(h) /\ Len(h) \in DOMAIN h
    <2>1. Len(at) + 1 \in DOMAIN wide
      BY <1>1, <1>4
    <2>2. \A i \in DOMAIN h : i \in Nat /\ i > 0 /\ (i > 1 => i - 1 \in DOMAIN h)
      BY <1>1
    <2>3. Len(h) + 1 > 1 => h # <<>> /\ (Len(h) + 1) - 1 = Len(h) /\ Len(h) \in DOMAIN h
      BY <1>1
    <2> QED BY <2>1, <2>2, <2>3
  <1>9. next \in States
    BY <1>1, <1>2
  <1>10. Distinct(wide)
    <2>1. \A n \in DOMAIN wide : n \in DOMAIN at \/ n = Len(at) + 1
      BY <1>1, <1>4
    <2> QED BY <1>1, <1>4, <2>1 DEF Distinct
  <1>11. Caused(wide, more)
    <2> SUFFICES ASSUME NEW i \in DOMAIN more
                 PROVE  \E p \in DOMAIN wide : wide[p].id = more[i].evidence
                                               /\ (more[i].from = "disputed" => wide[p].revalidatesTo = more[i].to)
      BY DEF Caused
    <2>1. CASE i \in DOMAIN h
      <3>1. PICK p \in DOMAIN at : at[p].id = h[i].evidence /\ (h[i].from = "disputed" => at[p].revalidatesTo = h[i].to)
        BY <1>1, <2>1 DEF Caused
      <3> QED BY <1>4, <1>8, <2>1, <3>1
    <2>2. CASE i \notin DOMAIN h
      <3>1. next # state /\ i = Len(h) + 1
        BY <1>15, <2>2
      <3>2. more[i] = row /\ Len(at) + 1 \in DOMAIN wide
        BY <1>16, <1>17, <3>1
      <3> QED BY <1>2, <1>4, <1>6, <3>1, <3>2
    <2> QED BY <2>1, <2>2
  <1>12. Ordered(more)
    <2> SUFFICES ASSUME NEW i \in DOMAIN more
                 PROVE  /\ CanTransition(more[i].from, more[i].to)
                        /\ i > 1 => more[i].from = more[i - 1].to /\ more[i].occurredAt >= more[i - 1].occurredAt
      BY DEF Ordered
    <2>1. CASE i \in DOMAIN h
      <3>1. i > 1 => i - 1 \in DOMAIN h
        BY <1>17, <2>1
      <3> QED BY <1>1, <1>8, <2>1, <3>1 DEF Ordered
    <2>2. CASE i \notin DOMAIN h
      <3>1. next # state /\ i = Len(h) + 1
        BY <1>15, <2>2
      <3>2. i > 1 => h # <<>> /\ i - 1 = Len(h) /\ Len(h) \in DOMAIN h
        BY <1>17, <3>1
      <3>3. i > 1 => more[i - 1] = h[Len(h)]
        BY <1>8, <3>2
      <3> QED BY <1>1, <1>2, <1>6, <1>8, <3>1, <3>2, <3>3
    <2> QED BY <2>1, <2>2
  <1>13. Settled(next, wide, more)
    <2> SUFFICES ASSUME next \in Active, NEW c \in DOMAIN wide, wide[c].polarity = "contradicts"
                 PROVE  \E i \in DOMAIN more : \E p \in DOMAIN wide :
                           more[i].from = "disputed" /\ wide[p].id = more[i].evidence /\ p > c
      BY DEF Settled
    <2>1. c \in DOMAIN at /\ at[c].polarity = "contradicts" /\ c \in Nat /\ c < Len(at) + 1
      BY <1>1, <1>2, <1>4
    <2>2. state \in Active \/ state = "disputed"
      BY <1>2 DEF CanTransition, Active
    <2>3. CASE state \in Active
      <3>1. PICK i \in DOMAIN h : \E p \in DOMAIN at : h[i].from = "disputed" /\ at[p].id = h[i].evidence /\ p > c
        BY <1>1, <2>1, <2>3 DEF Settled
      <3>2. PICK p \in DOMAIN at : h[i].from = "disputed" /\ at[p].id = h[i].evidence /\ p > c
        BY <3>1
      <3>3. i \in DOMAIN more /\ more[i] = h[i] /\ p \in DOMAIN wide /\ wide[p] = at[p]
        BY <1>4, <1>8
      <3> QED BY <3>2, <3>3
    <2>4. CASE state = "disputed"
      <3>1. next # state
        BY <2>4 DEF Active
      <3>2. more[Len(h) + 1] = row /\ Len(h) + 1 \in DOMAIN more /\ Len(at) + 1 \in DOMAIN wide
        BY <1>16, <1>17, <3>1
      <3> QED BY <1>4, <1>6, <2>1, <2>4, <3>2
    <2> QED BY <2>2, <2>3, <2>4
  <1>14. more # <<>> => more[Len(more)].to = next
    BY <1>1, <1>6, <1>8
  <1> QED BY <1>3, <1>4, <1>8, <1>9, <1>10, <1>11, <1>12, <1>13, <1>14 DEF Sound

---------------------------------------------------------------------------
(* The invariant.                                                             *)

KnowledgeTypes ==
    /\ entries \in [Knowledge -> [state : States, createdAt : Nat] \cup {None}]
    /\ attached \in [Knowledge -> Seq(EvidenceRows)] /\ history \in [Knowledge -> Seq(HistoryRows)]
    /\ snapshots \in [Actions -> (SUBSET Knowledge) \cup {None}] /\ results \subseteq Results
    /\ proposals \subseteq Knowledge
\* An entry and what hangs on it; what is decided on it keeps its observation.
EntrySound(k) ==
    /\ entries[k] = None => attached[k] = <<>> /\ history[k] = <<>>
    /\ entries[k] # None => Sound(entries[k].state, attached[k], history[k])
    /\ entries[k] # None /\ (entries[k].state \in Active \cup {"disputed"} \/ history[k] # <<>>) =>
          OfImport(k) \in observations
\* A result is attached to what its action's snapshot names, as what it says.
Counts(r, k) == r \in results /\ r.outcome # "unknown" /\ k \in snapshots[r.action]
Counted(at, r, k, counts) ==
    /\ counts <=> \E n \in DOMAIN at : at[n].id = <<r.id, k>>
    /\ \A n \in DOMAIN at : at[n].id = <<r.id, k>> => (at[n].polarity = "contradicts" <=> r.outcome = "succeeded")
Contradicted(at) == Cardinality(Contradictions(at)) >= 2

KnowledgeInv ==
    /\ KnowledgeTypes
    /\ \A k \in Knowledge : EntrySound(k)
    /\ \A k \in Knowledge, r \in Results : Counted(attached[k], r, k, Counts(r, k))
    /\ \A r \in results : snapshots[r.action] # None
    /\ \A k \in proposals : Contradicted(attached[k])

\* What evidence that counts as new does to its entry.
Row(u) == [from |-> entries[u.k].state, to |-> StateAfter(u), evidence |-> u.e.id, occurredAt |-> u.occurredAt]
Grew(u) ==
    /\ Appends(u) /\ attached'[u.k] = Append(attached[u.k], u.e)
    /\ entries'[u.k] = [entries[u.k] EXCEPT !.state = StateAfter(u)]
    /\ history'[u.k] = IF Moves(u) THEN Append(history[u.k], Row(u)) ELSE history[u.k]
Untouched(k) == entries'[k] = entries[k] /\ attached'[k] = attached[k] /\ history'[k] = history[k]
WellFormed(updates) ==
    /\ \A u \in updates : u.k \in Knowledge /\ u.e \in EvidenceRows /\ u.occurredAt \in Nat
    /\ \A u, v \in updates : u.k = v.k => u = v

LEMMA Evidencing ==
    ASSUME NEW updates, Evidenced(updates), WellFormed(updates)
    PROVE  /\ entries' = [k \in Knowledge |-> entries'[k]] /\ attached' = [k \in Knowledge |-> attached'[k]]
           /\ history' = [k \in Knowledge |-> history'[k]]
           /\ \A k \in Knowledge :
                 \/ Untouched(k) /\ \A u \in updates : u.k = k => Attached(k, u.e)
                 \/ \E u \in updates : u.k = k /\ Grew(u)
  <1> DEFINE fresh == {u \in updates : ~Attached(u.k, u.e)}
             Of(k) == CHOOSE u \in fresh : u.k = k
             about == {u.k : u \in fresh}
  <1>1. /\ attached' = [k \in Knowledge |-> IF k \in about THEN Append(attached[k], Of(k).e) ELSE attached[k]]
        /\ entries' = [k \in Knowledge |-> IF k \in about THEN [entries[k] EXCEPT !.state = StateAfter(Of(k))] ELSE entries[k]]
        /\ history' = [k \in Knowledge |->
                 IF k \in about /\ Moves(Of(k))
                 THEN Append(history[k], [from |-> entries[k].state, to |-> StateAfter(Of(k)),
                                          evidence |-> Of(k).e.id, occurredAt |-> Of(k).occurredAt])
                 ELSE history[k]]
    BY DEF Evidenced
  <1>2. ASSUME NEW k \in Knowledge, k \in about PROVE \E u \in updates : u.k = k /\ Grew(u)
    <2>1. \E u \in fresh : u.k = k
      BY <1>2
    <2>2. PICK u : u = Of(k)
      OBVIOUS
    <2>3. u \in fresh /\ u.k = k
      BY <2>1, <2>2
    <2>4. Appends(u)
      BY <2>3 DEF Evidenced, Replays
    <2>5. /\ attached'[k] = Append(attached[k], u.e)
          /\ entries'[k] = [entries[k] EXCEPT !.state = StateAfter(u)]
          /\ history'[k] = IF Moves(u)
                           THEN Append(history[k], [from |-> entries[k].state, to |-> StateAfter(u),
                                                    evidence |-> u.e.id, occurredAt |-> u.occurredAt])
                           ELSE history[k]
      <3> HIDE DEF fresh, Of, about
      <3> QED BY <1>1, <1>2, <2>2
    <2> QED BY <2>3, <2>4, <2>5 DEF Grew, Row
  <1>3. ASSUME NEW k \in Knowledge, k \notin about
        PROVE  Untouched(k) /\ \A u \in updates : u.k = k => Attached(k, u.e)
    <2>1. \A u \in updates : u.k = k => Attached(k, u.e)
      BY <1>3
    <2> HIDE DEF fresh, Of, about
    <2> QED BY <1>1, <1>3, <2>1 DEF Untouched
  <1> HIDE DEF fresh, Of, about
  <1> QED BY <1>1, <1>2, <1>3

LEMMA StillContradicted ==
    ASSUME NEW at \in Seq(EvidenceRows), NEW more \in Seq(EvidenceRows),
           \A n \in DOMAIN at : n \in DOMAIN more /\ more[n] = at[n], Contradicted(at)
    PROVE  Contradicted(more)
  <1>1. Contradictions(at) \subseteq Contradictions(more)
    BY DEF Contradictions
  <1>2. IsFiniteSet(1 .. Len(more)) /\ Contradictions(more) \subseteq 1 .. Len(more)
    BY FS_Interval DEF Contradictions
  <1>3. IsFiniteSet(Contradictions(more))
    BY <1>2, FS_Subset
  <1>4. PICK few, many : few = Contradictions(at) /\ many = Contradictions(more)
    OBVIOUS
  <1>5. IsFiniteSet(few) /\ Cardinality(few) <= Cardinality(many)
    BY <1>1, <1>3, <1>4, FS_Subset
  <1>6. Cardinality(few) \in Nat /\ Cardinality(many) \in Nat
    BY <1>3, <1>4, <1>5, FS_CardinalityType
  <1> QED BY <1>4, <1>5, <1>6 DEF Contradicted

\* Of every entry, what was attached stays where it was, and what is attached now
\* is attached evidence of the updates.
RowsOf(updates) ==
    \A k \in Knowledge :
        /\ \A n \in DOMAIN attached[k] : n \in DOMAIN attached'[k] /\ attached'[k][n] = attached[k][n]
        /\ \A n \in DOMAIN attached'[k] : \/ n \in DOMAIN attached[k]
                                          \/ \E u \in updates : u.k = k /\ attached'[k][n] = u.e
        /\ \A u \in updates : u.k = k => \E n \in DOMAIN attached'[k] : attached'[k][n] = u.e

LEMMA GrownKeeps ==
    ASSUME KnowledgeInv, NEW u, u.k \in Knowledge, u.e \in EvidenceRows, u.occurredAt \in Nat, Grew(u),
           OfImport(u.k) \in observations => OfImport(u.k) \in observations'
    PROVE  /\ entries'[u.k] \in [state : States, createdAt : Nat]
           /\ attached'[u.k] \in Seq(EvidenceRows) /\ history'[u.k] \in Seq(HistoryRows)
           /\ EntrySound(u.k)'
  <1>1. PICK k, e, target, time : k = u.k /\ e = u.e /\ target = u.target /\ time = u.occurredAt
    OBVIOUS
  <1>2. /\ k \in Knowledge /\ EntrySound(k) /\ entries[k] \in [state : States, createdAt : Nat]
        /\ attached[k] \in Seq(EvidenceRows) /\ history[k] \in Seq(HistoryRows)
    BY <1>1 DEF KnowledgeInv, KnowledgeTypes, Grew, Appends
  <1>3. PICK state, at, h : state = entries[k].state /\ at = attached[k] /\ h = history[k]
    OBVIOUS
  <1>4. None \notin States \cup [state : States, createdAt : Nat]
    BY KnowledgeAssumption DEF KnowledgeAssumption
  <1>5. /\ Sound(state, at, h) /\ \A n \in DOMAIN at : at[n].id # e.id
        /\ (h # <<>> => time >= h[Len(h)].occurredAt) /\ Attaches(e, target)
    <2>1. entries[k] # None
      BY <1>2, <1>4
    <2>2. Sound(state, at, h)
      BY <1>2, <1>3, <2>1 DEF EntrySound
    <2>3. IsNew(e) /\ Attaches(e, target)
      BY <1>1 DEF Grew, Appends
    <2>4. \A n \in DOMAIN at : at[n].id # e.id
      BY <1>2, <1>3, <2>3 DEF IsNew, ToSet
    <2>5. h # <<>> => time >= h[Len(h)].occurredAt
      BY <1>1, <1>3 DEF Grew, Appends, Last
    <2> QED BY <2>2, <2>3, <2>4, <2>5
  <1>6. PICK next : next = After(state, e, target)
    OBVIOUS
  <1>7. PICK more : more = IF next # state
                           THEN Append(h, [from |-> state, to |-> next, evidence |-> e.id, occurredAt |-> time])
                           ELSE h
    OBVIOUS
  <1>8. StateAfter(u) = next
    BY <1>1, <1>3, <1>6 DEF StateAfter
  <1>9. /\ attached'[k] = Append(at, e) /\ history'[k] = more
        /\ entries'[k] = [entries[k] EXCEPT !.state = next]
    BY <1>1, <1>3, <1>7, <1>8 DEF Grew, Moves, Row
  <1>10. Sound(next, Append(at, e), more)
    BY <1>1, <1>5, <1>6, <1>7, AppendSound, KnowledgeAssumption
  <1>11. PICK wide : wide = Append(at, e)
    OBVIOUS
  <1>12. next \in States /\ wide \in Seq(EvidenceRows) /\ more \in Seq(HistoryRows)
    BY <1>10, <1>11 DEF Sound
  <1>13. entries'[k] \in [state : States, createdAt : Nat] /\ entries'[k].state = next
    BY <1>2, <1>9, <1>12
  <1>14. entries'[k] # None
    BY <1>4, <1>13
  <1>15. next \in Active \cup {"disputed"} \/ more # <<>> => OfImport(k) \in observations'
    <2>1. state \in States
      BY <1>5 DEF Sound
    <2>2. next # state => state \in Active \cup {"disputed"}
      BY <1>6, <2>1, AfterIs, KnowledgeAssumption DEF CanTransition
    <2>3. state \in Active \cup {"disputed"} \/ h # <<>> => OfImport(k) \in observations
      BY <1>2, <1>3, <1>4 DEF EntrySound
    <2> QED BY <1>1, <1>7, <2>2, <2>3
  <1>16. EntrySound(k)'
    BY <1>9, <1>10, <1>11, <1>12, <1>13, <1>14, <1>15 DEF EntrySound
  <1> QED BY <1>1, <1>9, <1>11, <1>12, <1>13, <1>16

LEMMA EvidencedKeeps ==
    ASSUME KnowledgeInv, NEW updates, Evidenced(updates), WellFormed(updates), observations \subseteq observations'
    PROVE  /\ entries' \in [Knowledge -> [state : States, createdAt : Nat] \cup {None}]
           /\ attached' \in [Knowledge -> Seq(EvidenceRows)] /\ history' \in [Knowledge -> Seq(HistoryRows)]
           /\ \A k \in Knowledge : EntrySound(k)'
           /\ proposals' \subseteq Knowledge /\ \A k \in proposals' : Contradicted(attached'[k])
           /\ RowsOf(updates)
  <1>1. /\ entries' = [k \in Knowledge |-> entries'[k]] /\ attached' = [k \in Knowledge |-> attached'[k]]
        /\ history' = [k \in Knowledge |-> history'[k]]
        /\ \A k \in Knowledge : \/ Untouched(k) /\ \A u \in updates : u.k = k => Attached(k, u.e)
                                \/ \E u \in updates : u.k = k /\ Grew(u)
    BY Evidencing
  <1>2. ASSUME NEW k \in Knowledge
        PROVE  /\ entries'[k] \in [state : States, createdAt : Nat] \cup {None}
               /\ attached'[k] \in Seq(EvidenceRows) /\ history'[k] \in Seq(HistoryRows)
               /\ EntrySound(k)'
    <2>1. CASE Untouched(k)
      <3>1. EntrySound(k) /\ entries[k] \in [state : States, createdAt : Nat] \cup {None}
            /\ attached[k] \in Seq(EvidenceRows) /\ history[k] \in Seq(HistoryRows)
        BY DEF KnowledgeInv, KnowledgeTypes
      <3>2. EntrySound(k)'
        BY <2>1, <3>1 DEF Untouched, EntrySound
      <3> QED BY <2>1, <3>1, <3>2 DEF Untouched
    <2>2. CASE \E u \in updates : u.k = k /\ Grew(u)
      <3>1. PICK u \in updates : u.k = k /\ Grew(u)
        BY <2>2
      <3>2. u.k \in Knowledge /\ u.e \in EvidenceRows /\ u.occurredAt \in Nat
        BY <3>1 DEF WellFormed
      <3>3. /\ entries'[u.k] \in [state : States, createdAt : Nat]
            /\ attached'[u.k] \in Seq(EvidenceRows) /\ history'[u.k] \in Seq(HistoryRows)
            /\ EntrySound(u.k)'
        BY <3>1, <3>2, GrownKeeps
      <3> QED BY <3>1, <3>3
    <2> QED BY <1>1, <2>1, <2>2
  <1>3. RowsOf(updates)
    <2> SUFFICES ASSUME NEW k \in Knowledge
                 PROVE  /\ \A n \in DOMAIN attached[k] : n \in DOMAIN attached'[k] /\ attached'[k][n] = attached[k][n]
                        /\ \A n \in DOMAIN attached'[k] : \/ n \in DOMAIN attached[k]
                                                          \/ \E u \in updates : u.k = k /\ attached'[k][n] = u.e
                        /\ \A u \in updates : u.k = k => \E n \in DOMAIN attached'[k] : attached'[k][n] = u.e
      BY DEF RowsOf
    <2>1. CASE Untouched(k) /\ \A u \in updates : u.k = k => Attached(k, u.e)
      BY <2>1 DEF Untouched, Attached, ToSet
    <2>2. CASE \E u \in updates : u.k = k /\ Grew(u)
      <3>1. PICK u \in updates : u.k = k /\ Grew(u)
        BY <2>2
      <3>2. PICK at, wide, e : at = attached[k] /\ wide = attached'[k] /\ e = u.e
        OBVIOUS
      <3>3. wide = Append(at, e) /\ at \in Seq(EvidenceRows) /\ e \in EvidenceRows
        BY <3>1, <3>2 DEF Grew, KnowledgeInv, KnowledgeTypes, WellFormed
      <3>4. Len(at) \in Nat /\ DOMAIN at = 1 .. Len(at) /\ DOMAIN wide = 1 .. (Len(at) + 1) /\ wide[Len(at) + 1] = e
            /\ \A n \in DOMAIN at : wide[n] = at[n]
        BY <3>3
      <3>5. \A n \in DOMAIN at : n \in DOMAIN wide
        BY <3>4
      <3>6. \A n \in DOMAIN wide : n \in DOMAIN at \/ wide[n] = e
        BY <3>4
      <3>7. Len(at) + 1 \in DOMAIN wide
        BY <3>4
      <3>8. \A v \in updates : v.k = k => v.e = e
        BY <3>1, <3>2 DEF WellFormed
      <3> QED BY <3>1, <3>2, <3>4, <3>5, <3>6, <3>7, <3>8
    <2> QED BY <1>1, <2>1, <2>2
  <1>4. proposals' \subseteq Knowledge /\ \A k \in proposals' : Contradicted(attached'[k])
    <2>1. \A k \in proposals' : k \in proposals \/ \E u \in updates : u.k = k /\ Proposed(u)
      BY DEF Evidenced
    <2>2. \A u \in updates : Proposed(u) => Contradicted(attached'[u.k])
      BY DEF Proposed, Contradicted
    <2>3. ASSUME NEW k \in proposals PROVE k \in Knowledge /\ Contradicted(attached'[k])
      <3>1. k \in Knowledge /\ Contradicted(attached[k]) /\ attached[k] \in Seq(EvidenceRows)
        BY <2>3 DEF KnowledgeInv, KnowledgeTypes
      <3>2. PICK at, more : at = attached[k] /\ more = attached'[k]
        OBVIOUS
      <3>3. more \in Seq(EvidenceRows) /\ \A n \in DOMAIN at : n \in DOMAIN more /\ more[n] = at[n]
        BY <1>2, <1>3, <3>1, <3>2 DEF RowsOf
      <3>4. Contradicted(more)
        BY <3>1, <3>2, <3>3, StillContradicted
      <3> QED BY <3>1, <3>2, <3>4
    <2>4. \A u \in updates : u.k \in Knowledge
      BY DEF WellFormed
    <2> QED BY <2>1, <2>2, <2>3, <2>4
  <1>5. /\ entries' \in [Knowledge -> [state : States, createdAt : Nat] \cup {None}]
        /\ attached' \in [Knowledge -> Seq(EvidenceRows)] /\ history' \in [Knowledge -> Seq(HistoryRows)]
    BY <1>1, <1>2
  <1> QED BY <1>2, <1>3, <1>4, <1>5

LEMMA CountedStill ==
    ASSUME NEW at, NEW more, NEW r, NEW k, NEW counts \in BOOLEAN, Counted(at, r, k, counts),
           \A n \in DOMAIN at : n \in DOMAIN more /\ more[n] = at[n],
           \A n \in DOMAIN more : n \in DOMAIN at \/ more[n].id # <<r.id, k>>
    PROVE  Counted(more, r, k, counts)
  BY DEF Counted

---------------------------------------------------------------------------
(* Every operation keeps it.                                                  *)

LEMMA RowKinds ==
    /\ \A u \in Updates : u.e \in EvidenceRows
    /\ \A i \in Imports : ToSet(i.evidence) \subseteq EvidenceRows
    /\ \A r \in Results, k \in Knowledge, polarity \in {"confirms", "contradicts"} :
          Evidence(<<r.id, k>>, polarity, None) \in EvidenceRows
  <1>1. \A u \in Updates : u.e \in SentRows
    BY DEF SentRows
  <1>2. \A i \in Imports : ToSet(i.evidence) \subseteq BroughtRows
    BY Zenon DEF BroughtRows
  <1>3. \A r \in Results, k \in Knowledge, polarity \in {"confirms", "contradicts"} :
           Evidence(<<r.id, k>>, polarity, None) \in ResultRows
    <2>1. \A r \in Results, k \in Knowledge : <<r.id, k>> \in ResultEvidence
      BY DEF ResultEvidence
    <2> QED BY <2>1 DEF ResultRows, Evidence
  <1> QED BY <1>1, <1>2, <1>3, Zenon DEF EvidenceRows

LEMMA AppendKeeps ==
    ASSUME KnowledgeInv, NEW u \in Updates, AppendEvidence(u)
    PROVE  KnowledgeInv'
  <1>1. u.k \in Knowledge /\ u.occurredAt \in Nat /\ u.e.id \notin ResultEvidence /\ u.e \in EvidenceRows
    BY RowKinds, KnowledgeAssumption DEF KnowledgeAssumption
  <1>2. WellFormed({u})
    BY <1>1 DEF WellFormed
  <1>3. Evidenced({u}) /\ snapshots' = snapshots /\ results' = results /\ observations' = observations
    BY DEF AppendEvidence, retention
  <1>4. /\ entries' \in [Knowledge -> [state : States, createdAt : Nat] \cup {None}]
        /\ attached' \in [Knowledge -> Seq(EvidenceRows)] /\ history' \in [Knowledge -> Seq(HistoryRows)]
        /\ \A k \in Knowledge : EntrySound(k)'
        /\ proposals' \subseteq Knowledge /\ \A k \in proposals' : Contradicted(attached'[k])
        /\ RowsOf({u})
    BY <1>2, <1>3, EvidencedKeeps
  <1>5. ASSUME NEW k \in Knowledge, NEW r \in Results PROVE Counted(attached'[k], r, k, Counts(r, k)')
    <2>1. Counts(r, k)' = Counts(r, k)
      BY <1>3 DEF Counts
    <2>2. PICK at, more, counts : at = attached[k] /\ more = attached'[k] /\ counts = Counts(r, k)
      OBVIOUS
    <2>3. counts \in BOOLEAN /\ Counted(at, r, k, counts)
      BY <2>2 DEF KnowledgeInv, Counts
    <2>4. u.e.id # <<r.id, k>>
      BY <1>1 DEF ResultEvidence
    <2>5. \A n \in DOMAIN at : n \in DOMAIN more /\ more[n] = at[n]
      BY <1>4, <2>2 DEF RowsOf
    <2>7. \A n \in DOMAIN more : n \in DOMAIN at \/ more[n] = u.e
      BY <1>4, <2>2 DEF RowsOf
    <2>8. \A n \in DOMAIN more : n \in DOMAIN at \/ more[n].id # <<r.id, k>>
      BY <2>4, <2>7
    <2>6. Counted(more, r, k, counts)
      BY <2>3, <2>5, <2>8, CountedStill
    <2> QED BY <2>1, <2>2, <2>6
  <1>6. KnowledgeTypes'
    BY <1>3, <1>4 DEF KnowledgeInv, KnowledgeTypes
  <1>7. \A r \in results' : snapshots'[r.action] # None
    BY <1>3 DEF KnowledgeInv
  <1> QED BY <1>4, <1>5, <1>6, <1>7 DEF KnowledgeInv

LEMMA ResultKeeps ==
    ASSUME KnowledgeInv, NEW r \in Results, CaptureResult(r)
    PROVE  KnowledgeInv'
  <1>1. /\ Evidenced(Effects(r)) /\ snapshots' = snapshots /\ results' = results \cup {r}
        /\ observations \subseteq observations' /\ snapshots[r.action] # None
    BY DEF CaptureResult
  <1>2. PICK polarity \in {"confirms", "contradicts"} :
           polarity = (IF r.outcome = "succeeded" THEN "contradicts" ELSE "confirms")
    OBVIOUS
  <1>3. /\ r.outcome = "unknown" => Effects(r) = {}
        /\ r.outcome # "unknown" =>
              Effects(r) = {Update(k, Evidence(<<r.id, k>>, polarity, None), None, r.occurredAt) : k \in snapshots[r.action]}
    BY <1>2 DEF Effects
  <1>4. ASSUME NEW u \in Effects(r)
        PROVE  /\ r.outcome # "unknown" /\ u.k \in snapshots[r.action] /\ u.e = Evidence(<<r.id, u.k>>, polarity, None)
               /\ u = Update(u.k, u.e, None, r.occurredAt) /\ u.occurredAt = r.occurredAt
               /\ u.e.id = <<r.id, u.k>> /\ u.e.polarity = polarity
    <2>1. r.outcome # "unknown"
      BY <1>3, <1>4
    <2>2. PICK k \in snapshots[r.action] : u = Update(k, Evidence(<<r.id, k>>, polarity, None), None, r.occurredAt)
      BY <1>3, <1>4, <2>1
    <2>3. u.k = k /\ u.e = Evidence(<<r.id, k>>, polarity, None) /\ u.occurredAt = r.occurredAt
      BY <2>2 DEF Update
    <2>4. u.e.id = <<r.id, k>> /\ u.e.polarity = polarity
      BY <2>3 DEF Evidence
    <2> QED BY <2>1, <2>2, <2>3, <2>4
  <1>5. snapshots[r.action] \subseteq Knowledge /\ r.action \in Actions /\ r.occurredAt \in Nat
    BY <1>1, KnowledgeAssumption DEF KnowledgeInv, KnowledgeTypes, KnowledgeAssumption
  <1>6. WellFormed(Effects(r))
    <2>1. ASSUME NEW u \in Effects(r) PROVE u.k \in Knowledge /\ u.e \in EvidenceRows /\ u.occurredAt \in Nat
      BY <1>4, <1>5, RowKinds
    <2>2. ASSUME NEW u \in Effects(r), NEW v \in Effects(r), u.k = v.k PROVE u = v
      <3>1. u = Update(u.k, u.e, None, r.occurredAt) /\ v = Update(v.k, v.e, None, r.occurredAt)
        BY <1>4
      <3>2. u.e = Evidence(<<r.id, u.k>>, polarity, None) /\ v.e = Evidence(<<r.id, v.k>>, polarity, None)
        BY <1>4
      <3> QED BY <2>2, <3>1, <3>2
    <2> QED BY <2>1, <2>2 DEF WellFormed
  <1>7. /\ entries' \in [Knowledge -> [state : States, createdAt : Nat] \cup {None}]
        /\ attached' \in [Knowledge -> Seq(EvidenceRows)] /\ history' \in [Knowledge -> Seq(HistoryRows)]
        /\ \A k \in Knowledge : EntrySound(k)'
        /\ proposals' \subseteq Knowledge /\ \A k \in proposals' : Contradicted(attached'[k])
        /\ RowsOf(Effects(r))
    BY <1>1, <1>6, EvidencedKeeps
  <1>8. ASSUME NEW k \in Knowledge, NEW s \in Results PROVE Counted(attached'[k], s, k, Counts(s, k)')
    <2>1. PICK at, more, counts : at = attached[k] /\ more = attached'[k] /\ counts = Counts(s, k)
      OBVIOUS
    <2>2. counts \in BOOLEAN /\ Counted(at, s, k, counts)
      BY <2>1 DEF KnowledgeInv, Counts
    <2>3. \A n \in DOMAIN at : n \in DOMAIN more /\ more[n] = at[n]
      BY <1>7, <2>1 DEF RowsOf
    <2>4. \A n \in DOMAIN more : n \in DOMAIN at \/ \E u \in Effects(r) : u.k = k /\ more[n] = u.e
      <3>1. \A n \in DOMAIN attached'[k] :
               n \in DOMAIN attached[k] \/ \E u \in Effects(r) : u.k = k /\ attached'[k][n] = u.e
        BY <1>7, Zenon DEF RowsOf
      <3> QED BY <2>1, <3>1
    <2>5. \A u \in Effects(r) : u.k = k => \E n \in DOMAIN more : more[n] = u.e
      <3>1. \A u \in Effects(r) : u.k = k => \E n \in DOMAIN attached'[k] : attached'[k][n] = u.e
        BY <1>7, Zenon DEF RowsOf
      <3> QED BY <2>1, <3>1
    <2>6. \A n \in DOMAIN more : n \in DOMAIN at \/ (more[n].id = <<r.id, k>> /\ more[n].polarity = polarity)
      BY <1>4, <2>4
    <2>7. CASE s # r
      <3>1. Counts(s, k)' = Counts(s, k)
        BY <1>1, <2>7 DEF Counts
      <3>2. <<s.id, k>> # <<r.id, k>>
        BY <2>7, KnowledgeAssumption DEF KnowledgeAssumption
      <3>3. \A n \in DOMAIN more : n \in DOMAIN at \/ more[n].id # <<s.id, k>>
        BY <2>6, <3>2
      <3>4. Counted(more, s, k, counts)
        BY <2>2, <2>3, <3>3, CountedStill
      <3> QED BY <2>1, <3>1, <3>4
    <2>8. CASE s = r
      <3>1. Counts(r, k)' = (r.outcome # "unknown" /\ k \in snapshots[r.action])
        BY <1>1 DEF Counts
      <3>2. (\E n \in DOMAIN more : more[n].id = <<r.id, k>>) => r.outcome # "unknown" /\ k \in snapshots[r.action]
        <4> SUFFICES ASSUME NEW n \in DOMAIN more, more[n].id = <<r.id, k>>
                     PROVE  r.outcome # "unknown" /\ k \in snapshots[r.action]
          OBVIOUS
        <4>1. CASE n \in DOMAIN at
          <5>1. at[n].id = <<r.id, k>>
            BY <2>3, <4>1
          <5> QED BY <2>1, <2>2, <2>8, <4>1, <5>1 DEF Counted, Counts
        <4>2. CASE n \notin DOMAIN at
          BY <1>4, <2>4, <4>2
        <4> QED BY <4>1, <4>2
      <3>3. r.outcome # "unknown" /\ k \in snapshots[r.action] => \E n \in DOMAIN more : more[n].id = <<r.id, k>>
        <4> SUFFICES ASSUME r.outcome # "unknown", k \in snapshots[r.action]
                     PROVE  \E n \in DOMAIN more : more[n].id = <<r.id, k>>
          OBVIOUS
        <4>1. PICK u : u = Update(k, Evidence(<<r.id, k>>, polarity, None), None, r.occurredAt)
          OBVIOUS
        <4>2. u \in Effects(r) /\ u.k = k
          BY <1>3, <4>1 DEF Update
        <4>3. u.e.id = <<r.id, k>>
          BY <1>4, <4>2
        <4> QED BY <2>5, <4>2, <4>3
      <3>4. \A n \in DOMAIN more : more[n].id = <<r.id, k>> => (more[n].polarity = "contradicts" <=> r.outcome = "succeeded")
        <4>1. polarity = "contradicts" <=> r.outcome = "succeeded"
          BY <1>2
        <4> QED BY <2>2, <2>3, <2>6, <2>8, <4>1 DEF Counted
      <3> QED BY <2>1, <2>8, <3>1, <3>2, <3>3, <3>4 DEF Counted
    <2> QED BY <2>7, <2>8
  <1>9. KnowledgeTypes'
    BY <1>1, <1>7 DEF KnowledgeInv, KnowledgeTypes
  <1>10. \A s \in results' : snapshots'[s.action] # None
    BY <1>1 DEF KnowledgeInv
  <1> QED BY <1>7, <1>8, <1>9, <1>10 DEF KnowledgeInv

LEMMA FirstIsOne ==
    ASSUME NEW at \in Seq(EvidenceRows), Contradictions(at) # {}
    PROVE  \E n \in DOMAIN at : FirstContradiction(at) = at[n]
  <1>1. Contradictions(at) \subseteq DOMAIN at /\ Contradictions(at) \in SUBSET Nat
    BY DEF Contradictions
  <1>2. \E n \in Contradictions(at) : \A m \in Contradictions(at) : n <= m
    BY <1>1, LeastNatural
  <1>3. (CHOOSE n \in Contradictions(at) : \A m \in Contradictions(at) : n <= m) \in Contradictions(at)
    BY <1>2, Zenon
  <1> QED BY <1>1, <1>3 DEF FirstContradiction

\* What an import brings is sound from the start.
LEMMA ImportSound ==
    ASSUME NEW i \in Imports, NEW state, state = Reconciled(i.state, i.evidence),
           NEW h, h = (IF state = i.state THEN <<>>
                       ELSE <<[from |-> i.state, to |-> state, evidence |-> FirstContradiction(i.evidence).id,
                               occurredAt |-> i.now]>>)
    PROVE  Sound(state, i.evidence, h)
  <1>1. /\ i.state \in States /\ i.now \in Nat /\ i.evidence \in Seq(ToSet(i.evidence)) /\ Distinct(i.evidence)
    BY KnowledgeAssumption DEF KnowledgeAssumption, Distinct
  <1>2. PICK at : at = i.evidence
    OBVIOUS
  <1>3. at \in Seq(EvidenceRows) /\ Distinct(at)
    <2>1. at \in Seq(ToSet(at)) /\ ToSet(at) \subseteq EvidenceRows
      BY <1>1, <1>2, RowKinds
    <2>2. PICK rows : rows = ToSet(at)
      OBVIOUS
    <2>3. at \in Seq(rows) /\ rows \subseteq EvidenceRows
      BY <2>1, <2>2
    <2>4. at \in Seq(EvidenceRows)
      BY <2>3
    <2> QED BY <1>1, <1>2, <2>4
  <1>4. state \in States /\ (state # i.state => Contradictions(at) # {} /\ i.state \in Active /\ state = "disputed")
        /\ (state \in Active => Contradictions(at) = {})
    BY <1>1, <1>2 DEF Reconciled, States, Active, Terminal
  <1>5. CASE state = i.state
    <2>1. h = <<>> /\ h \in Seq(HistoryRows) /\ DOMAIN h = {}
      BY <1>5
    <2>2. Settled(state, at, h)
      BY <1>4 DEF Settled, Contradictions
    <2> QED BY <1>2, <1>3, <1>4, <2>1, <2>2 DEF Sound, Caused, Ordered
  <1>6. CASE state # i.state
    <2>1. PICK cause \in DOMAIN at : FirstContradiction(at) = at[cause]
      BY <1>3, <1>4, <1>6, FirstIsOne
    <2>2. PICK row : row = [from |-> i.state, to |-> state, evidence |-> at[cause].id, occurredAt |-> i.now]
      OBVIOUS
    <2>3. at[cause] \in EvidenceRows
      BY <1>3
    <2>4. row \in HistoryRows /\ row.from = i.state /\ row.to = "disputed" /\ row.evidence = at[cause].id
      BY <1>1, <1>4, <1>6, <2>2, <2>3 DEF HistoryRows
    <2>5. h = <<row>>
      BY <1>2, <1>6, <2>1, <2>2
    <2>6. h \in Seq(HistoryRows) /\ DOMAIN h = {1} /\ Len(h) = 1 /\ h[1] = row
      <3>1. Len(h) = 1 /\ h[1] = row /\ h \in Seq(HistoryRows)
        <4>1. Len(<<row>>) = 1 /\ <<row>>[1] = row
          OBVIOUS
        <4>2. <<row>> \in Seq(HistoryRows)
          BY <2>4
        <4> QED BY <2>5, <4>1, <4>2
      <3>2. DOMAIN h = 1 .. 1
        BY <3>1
      <3> QED BY <3>1, <3>2
    <2>7. CanTransition(row.from, row.to) /\ row.from # "disputed"
      BY <1>4, <1>6, <2>4 DEF CanTransition, Active
    <2>8. Caused(at, h)
      BY <2>4, <2>6, <2>7 DEF Caused
    <2>9. Ordered(h)
      BY <2>6, <2>7 DEF Ordered
    <2>10. Settled(state, at, h)
      BY <1>4, <1>6 DEF Settled, Contradictions
    <2>11. h[Len(h)].to = state
      BY <1>4, <1>6, <2>4, <2>6
    <2> QED BY <1>2, <1>3, <1>4, <2>6, <2>8, <2>9, <2>10, <2>11 DEF Sound
  <1> QED BY <1>5, <1>6

LEMMA ImportKeeps ==
    ASSUME KnowledgeInv, NEW i \in Imports, ImportKnowledge(i)
    PROVE  KnowledgeInv'
  <1>1. PICK j, state, h : /\ j = i.k /\ state = Reconciled(i.state, i.evidence)
             /\ h = (IF state = i.state THEN <<>>
                     ELSE <<[from |-> i.state, to |-> state, evidence |-> FirstContradiction(i.evidence).id,
                             occurredAt |-> i.now]>>)
    OBVIOUS
  <1>2. /\ entries[j] = None /\ attached' = [attached EXCEPT ![j] = i.evidence]
        /\ entries' = [entries EXCEPT ![j] = [state |-> state, createdAt |-> i.createdAt]]
        /\ history' = [history EXCEPT ![j] = h] /\ observations' = observations \cup {OfImport(j)}
        /\ proposals' = proposals /\ snapshots' = snapshots /\ results' = results
    BY <1>1 DEF ImportKnowledge
  <1>3. Sound(state, i.evidence, h)
    BY <1>1, ImportSound
  <1>4. PICK at : at = i.evidence
    OBVIOUS
  <1>5. at \in Seq(EvidenceRows) /\ h \in Seq(HistoryRows) /\ state \in States
    BY <1>3, <1>4 DEF Sound
  <1>6. /\ j \in Knowledge /\ i.createdAt \in Nat /\ \A n \in DOMAIN at : at[n].id \notin ResultEvidence
        /\ None \notin [state : States, createdAt : Nat]
    BY <1>1, <1>4, KnowledgeAssumption DEF KnowledgeAssumption, ToSet
  <1>7. PICK entry : entry = [state |-> state, createdAt |-> i.createdAt]
    OBVIOUS
  <1>8. entry \in [state : States, createdAt : Nat] /\ entry # None /\ entry.state = state
    BY <1>5, <1>6, <1>7
  <1>9. KnowledgeTypes
    BY DEF KnowledgeInv
  <1>10. /\ entries' \in [Knowledge -> [state : States, createdAt : Nat] \cup {None}] /\ entries'[j] = entry
         /\ \A k \in Knowledge \ {j} : entries'[k] = entries[k]
    BY <1>2, <1>6, <1>7, <1>8, <1>9 DEF KnowledgeTypes
  <1>11. /\ attached' \in [Knowledge -> Seq(EvidenceRows)] /\ attached'[j] = at
         /\ \A k \in Knowledge \ {j} : attached'[k] = attached[k]
    BY <1>2, <1>4, <1>5, <1>6, <1>9 DEF KnowledgeTypes
  <1>12. /\ history' \in [Knowledge -> Seq(HistoryRows)] /\ history'[j] = h
         /\ \A k \in Knowledge \ {j} : history'[k] = history[k]
    BY <1>2, <1>5, <1>6, <1>9 DEF KnowledgeTypes
  <1>13. KnowledgeTypes'
    BY <1>2, <1>9, <1>10, <1>11, <1>12 DEF KnowledgeTypes
  <1>14. ASSUME NEW k \in Knowledge PROVE EntrySound(k)'
    <2>1. CASE k = j
      BY <1>2, <1>3, <1>4, <1>8, <1>10, <1>11, <1>12, <2>1 DEF EntrySound
    <2>2. CASE k # j
      BY <1>2, <1>10, <1>11, <1>12, <2>2 DEF EntrySound, KnowledgeInv
    <2> QED BY <2>1, <2>2
  <1>15. attached[j] = <<>>
    BY <1>2, <1>6 DEF KnowledgeInv, EntrySound
  <1>16. ASSUME NEW k \in Knowledge, NEW r \in Results PROVE Counted(attached'[k], r, k, Counts(r, k)')
    <2>1. Counts(r, k)' = Counts(r, k) /\ Counted(attached[k], r, k, Counts(r, k))
      BY <1>2 DEF Counts, KnowledgeInv
    <2>2. CASE k = j
      <3>1. <<r.id, k>> \in ResultEvidence
        BY DEF ResultEvidence
      <3>2. \A n \in DOMAIN at : at[n].id # <<r.id, k>>
        BY <1>6, <3>1
      <3>3. ~Counts(r, k)
        BY <1>15, <2>1, <2>2 DEF Counted
      <3> QED BY <1>11, <2>1, <2>2, <3>2, <3>3 DEF Counted
    <2>3. CASE k # j
      BY <1>11, <2>1, <2>3
    <2> QED BY <2>2, <2>3
  <1>17. ASSUME NEW k \in proposals' PROVE Contradicted(attached'[k])
    <2>1. k \in Knowledge /\ Contradicted(attached[k])
      BY <1>2, <1>9, <1>17 DEF KnowledgeInv, KnowledgeTypes
    <2>2. k # j
      <3>1. Contradictions(<<>>) = {}
        BY DEF Contradictions
      <3>2. Cardinality({}) = 0
        BY FS_EmptySet
      <3>3. ~Contradicted(<<>>)
        <4>1. Cardinality(Contradictions(<<>>)) = 0
          BY <3>1, <3>2
        <4> QED BY <4>1 DEF Contradicted
      <3> QED BY <1>15, <2>1, <3>3, Zenon
    <2> QED BY <1>11, <2>1, <2>2
  <1>18. \A r \in results' : snapshots'[r.action] # None
    BY <1>2 DEF KnowledgeInv
  <1> QED BY <1>13, <1>14, <1>16, <1>17, <1>18 DEF KnowledgeInv

LEMMA CaptureKeeps ==
    ASSUME KnowledgeInv, NEW a \in Actions, NEW enforced \in SUBSET Knowledge, CaptureAction(a, enforced)
    PROVE  KnowledgeInv'
  <1>1. /\ snapshots[a] = None /\ snapshots' = [snapshots EXCEPT ![a] = enforced]
        /\ entries' = entries /\ attached' = attached /\ history' = history /\ proposals' = proposals
        /\ results' = results /\ observations' = observations
    BY DEF CaptureAction, SnapshotOnce, lifecycle, retention
  <1>2. KnowledgeTypes'
    BY <1>1 DEF KnowledgeInv, KnowledgeTypes
  <1>3. \A r \in results : snapshots'[r.action] = snapshots[r.action] /\ snapshots[r.action] # None
    <2> SUFFICES ASSUME NEW r \in results
                 PROVE  snapshots'[r.action] = snapshots[r.action] /\ snapshots[r.action] # None
      OBVIOUS
    <2>1. snapshots[r.action] # None /\ r \in Results
      BY DEF KnowledgeInv, KnowledgeTypes
    <2>2. r.action \in Actions /\ r.action # a
      BY <1>1, <2>1, KnowledgeAssumption DEF KnowledgeAssumption
    <2> QED BY <1>1, <2>1, <2>2 DEF KnowledgeInv, KnowledgeTypes
  <1>4. \A k \in Knowledge, r \in Results : Counts(r, k)' = Counts(r, k)
    BY <1>1, <1>3 DEF Counts
  <1>5. \A k \in Knowledge : EntrySound(k)'
    BY <1>1 DEF KnowledgeInv, EntrySound
  <1> QED BY <1>1, <1>2, <1>3, <1>4, <1>5 DEF KnowledgeInv

LEMMA ExpireKeeps ==
    ASSUME KnowledgeInv, NEW now, Expire(now)
    PROVE  KnowledgeInv'
  <1>1. /\ entries' = entries /\ attached' = attached /\ history' = history /\ proposals' = proposals
        /\ results' = results /\ snapshots' = snapshots
    BY DEF Expire, lifecycle
  <1>2. \A o \in observations : Protected(o) => o \in observations'
    BY DEF Expire
  <1>3. ASSUME NEW k \in Knowledge PROVE EntrySound(k)'
    <2>1. EntrySound(k)
      BY DEF KnowledgeInv
    <2>2. entries[k].state \in Active \cup {"disputed"} \/ history[k] # <<>> => Protected(OfImport(k))
      BY DEF Protected
    <2> QED BY <1>1, <1>2, <2>1, <2>2 DEF EntrySound
  <1>4. \A k \in Knowledge, r \in Results : Counts(r, k)' = Counts(r, k)
    BY <1>1 DEF Counts
  <1>5. KnowledgeTypes'
    BY <1>1 DEF KnowledgeInv, KnowledgeTypes
  <1> QED BY <1>1, <1>3, <1>4, <1>5 DEF KnowledgeInv

LEMMA KnowledgeInvInit == ASSUME KnowledgeEvidenceInit PROVE KnowledgeInv
  <1>1. /\ entries = [k \in Knowledge |-> None] /\ attached = [k \in Knowledge |-> <<>>]
        /\ history = [k \in Knowledge |-> <<>>] /\ proposals = {} /\ results = {}
        /\ snapshots = [a \in Actions |-> None]
    BY DEF KnowledgeEvidenceInit
  <1>2. <<>> \in Seq(EvidenceRows) /\ <<>> \in Seq(HistoryRows)
    OBVIOUS
  <1>3. KnowledgeTypes
    BY <1>1, <1>2 DEF KnowledgeTypes
  <1>4. \A k \in Knowledge : EntrySound(k)
    BY <1>1 DEF EntrySound
  <1>5. ASSUME NEW k \in Knowledge, NEW r \in Results PROVE Counted(attached[k], r, k, Counts(r, k))
    <2>1. attached[k] = <<>> /\ ~Counts(r, k)
      BY <1>1 DEF Counts
    <2> QED BY <2>1 DEF Counted
  <1> QED BY <1>1, <1>3, <1>4, <1>5 DEF KnowledgeInv

LEMMA KnowledgeInvStep == ASSUME KnowledgeInv, [KnowledgeEvidenceNext]_knowledgeVars PROVE KnowledgeInv'
  <1>1. ASSUME NEW i \in Imports, ImportKnowledge(i) PROVE KnowledgeInv'
    BY <1>1, ImportKeeps
  <1>2. ASSUME NEW u \in Updates, AppendEvidence(u) PROVE KnowledgeInv'
    BY <1>2, AppendKeeps
  <1>3. ASSUME NEW a \in Actions, NEW enforced \in SUBSET Knowledge, CaptureAction(a, enforced) PROVE KnowledgeInv'
    BY <1>3, CaptureKeeps
  <1>4. ASSUME NEW r \in Results, CaptureResult(r) PROVE KnowledgeInv'
    BY <1>4, ResultKeeps
  <1>5. ASSUME NEW now \in 1 .. MaxTime, Expire(now) PROVE KnowledgeInv'
    BY <1>5, ExpireKeeps
  <1>6. CASE UNCHANGED knowledgeVars
    BY <1>6 DEF knowledgeVars, KnowledgeInv, KnowledgeTypes, EntrySound, Counts
  <1> QED BY <1>1, <1>2, <1>3, <1>4, <1>5, <1>6 DEF KnowledgeEvidenceNext

LEMMA HistoryHolds == ASSUME KnowledgeInv PROVE KnowledgeIsItsHistory
  <1> SUFFICES ASSUME NEW k \in Knowledge, entries[k] # None
               PROVE  LET h == history[k]
                          Position(id) == CHOOSE i \in DOMAIN attached[k] : attached[k][i].id = id
                          Cause(i) == attached[k][Position(h[i].evidence)]
                      IN  /\ h # <<>> => Last(h).to = entries[k].state
                          /\ \A i \in DOMAIN h :
                                /\ CanTransition(h[i].from, h[i].to)
                                /\ i > 1 => h[i].from = h[i - 1].to /\ h[i].occurredAt >= h[i - 1].occurredAt
                                /\ h[i].from = "disputed" => Cause(i).revalidatesTo = h[i].to
                          /\ entries[k].state \in Active =>
                                \A c \in DOMAIN attached[k] : attached[k][c].polarity = "contradicts" =>
                                   \E i \in DOMAIN h : h[i].from = "disputed" /\ Position(h[i].evidence) > c
                          /\ entries[k].state \in Active \cup {"disputed"} \/ h # <<>> => OfImport(k) \in observations
    BY DEF KnowledgeIsItsHistory
  <1>1. PICK state, at, h : state = entries[k].state /\ at = attached[k] /\ h = history[k]
    OBVIOUS
  <1> DEFINE Position(id) == CHOOSE i \in DOMAIN at : at[i].id = id
  <1>2. Sound(state, at, h) /\ (state \in Active \cup {"disputed"} \/ h # <<>> => OfImport(k) \in observations)
    BY <1>1 DEF KnowledgeInv, EntrySound
  <1>3. ASSUME NEW p \in DOMAIN at PROVE Position(at[p].id) = p
    BY <1>2 DEF Sound, Distinct
  <1> HIDE DEF Position
  <1>4. ASSUME NEW i \in DOMAIN h, h[i].from = "disputed" PROVE at[Position(h[i].evidence)].revalidatesTo = h[i].to
    <2>1. PICK p \in DOMAIN at : at[p].id = h[i].evidence /\ at[p].revalidatesTo = h[i].to
      BY <1>2, <1>4 DEF Sound, Caused
    <2>2. Position(h[i].evidence) = p
      BY <1>3, <2>1
    <2> QED BY <2>1, <2>2
  <1>5. ASSUME state \in Active, NEW c \in DOMAIN at, at[c].polarity = "contradicts"
        PROVE  \E i \in DOMAIN h : h[i].from = "disputed" /\ Position(h[i].evidence) > c
    <2>1. PICK i \in DOMAIN h : \E p \in DOMAIN at : h[i].from = "disputed" /\ at[p].id = h[i].evidence /\ p > c
      BY <1>2, <1>5 DEF Sound, Settled
    <2>2. PICK p \in DOMAIN at : h[i].from = "disputed" /\ at[p].id = h[i].evidence /\ p > c
      BY <2>1
    <2>3. Position(h[i].evidence) = p
      BY <1>3, <2>2
    <2> QED BY <2>2, <2>3
  <1>6. Ordered(h) /\ (h # <<>> => Last(h).to = state)
    BY <1>2 DEF Sound, Last
  <1> USE DEF Position
  <1> QED BY <1>1, <1>2, <1>4, <1>5, <1>6, Zenon DEF Ordered

LEMMA CountsHold == ASSUME KnowledgeInv PROVE EvidenceIsCountedOnce
  <1>1. ASSUME NEW k \in Knowledge, NEW r \in Results
        PROVE  LET of == {n \in DOMAIN attached[k] : attached[k][n].id = <<r.id, k>>}
                   counts == r \in results /\ r.outcome # "unknown" /\ k \in snapshots[r.action]
               IN  /\ Cardinality(of) = IF counts THEN 1 ELSE 0
                   /\ \A n \in of : attached[k][n].polarity = "contradicts" <=> r.outcome = "succeeded"
    <2>1. PICK at, of, counts : /\ at = attached[k] /\ of = {n \in DOMAIN at : at[n].id = <<r.id, k>>}
                                /\ counts = Counts(r, k)
      OBVIOUS
    <2>2. Counted(at, r, k, counts) /\ Counted(attached[k], r, k, Counts(r, k))
      BY <2>1 DEF KnowledgeInv
    <2>3. CASE Counts(r, k)
      <3>1. entries[k] # None
        BY <2>2, <2>3 DEF KnowledgeInv, EntrySound, Counted
      <3>2. Distinct(at)
        BY <2>1, <3>1 DEF KnowledgeInv, EntrySound, Sound
      <3>3. PICK n \in DOMAIN at : at[n].id = <<r.id, k>>
        BY <2>1, <2>2, <2>3 DEF Counted
      <3>4. of = {n}
        BY <2>1, <3>2, <3>3 DEF Distinct
      <3>5. Cardinality(of) = 1
        BY <3>4, FS_Singleton
      <3> QED BY <2>1, <2>2, <2>3, <3>5 DEF Counted, Counts
    <2>4. CASE ~Counts(r, k)
      <3>1. of = {}
        BY <2>1, <2>2, <2>4 DEF Counted
      <3>2. Cardinality(of) = 0
        BY <3>1, FS_EmptySet
      <3> QED BY <2>1, <2>2, <2>4, <3>1, <3>2 DEF Counts
    <2> QED BY <2>3, <2>4
  <1>2. \A k \in proposals : Cardinality(Contradictions(attached[k])) >= 2
    BY DEF KnowledgeInv, Contradicted
  <1> QED BY <1>1, <1>2 DEF EvidenceIsCountedOnce

(* Knowledge: an entry is where its transitions took it, what was contradicted is
   disputed until evidence that says so revalidates it, and a captured result is
   evidence once, for the knowledge enforced on its action and for no other. *)
THEOREM KnowledgeStaysSound == KnowledgeEvidenceSpec => []KnowledgeIsSound
  <1>1. KnowledgeEvidenceInit => KnowledgeInv
    BY KnowledgeInvInit
  <1>2. KnowledgeInv /\ [KnowledgeEvidenceNext]_knowledgeVars => KnowledgeInv'
    BY KnowledgeInvStep
  <1>3. KnowledgeInv => KnowledgeIsSound
    BY HistoryHolds, CountsHold DEF KnowledgeIsSound
  <1> QED BY <1>1, <1>2, <1>3, PTL DEF KnowledgeEvidenceSpec

---------------------------------------------------------------------------
(* CandidateReview: what the rows of a candidate and of its reviews may be.     *)

CandidateFields == {"kind", "scope", "proposition", "procedure", "state", "contradiction", "revision",
                    "verifiedAt", "supersedes", "supersededBy"}
ReviewRows ==
    [revision : Nat, from : States, to : States, evidence : {w.id : w \in Witnesses},
     origin : {w.origin : w \in Witnesses}, kind : {w.kind : w \in Witnesses}, reviewedAt : Nat,
     context : {None} \cup {w.context : w \in Witnesses}]

Supporting(rs) == {i \in DOMAIN rs : rs[i].to \in {"observed", "confirmed"}}
Disputes(rs) == {i \in DOMAIN rs : rs[i].to = "disputed"}
Revalidates(row, id) == \E w \in Witnesses : row.evidence = w.id /\ w.revalidates = id

\* What the reviews rs of a candidate say of its row c.
Earned(id, c, rs) ==
    /\ DOMAIN c = CandidateFields /\ c.state \in States /\ c.revision \in Nat
    /\ rs \in Seq(ReviewRows)
    /\ rs = <<>> => c.state = "candidate"
    /\ rs # <<>> => rs[Len(rs)].to = c.state
    /\ \A i \in DOMAIN rs : rs[i].revision = c.revision /\ (i > 1 => rs[i].from = rs[i - 1].to)
    /\ \A i, j \in DOMAIN rs : rs[i].evidence = rs[j].evidence => i = j
    /\ Disputes(rs) = {} =>
          /\ c.state = "observed" => Supporting(rs) # {}
          /\ c.state \in {"confirmed", "verified"} => \E i, j \in Supporting(rs) : rs[i].origin # rs[j].origin
    /\ \A i \in Disputes(rs) : i < Len(rs) => Revalidates(rs[i + 1], id)

\* Links point both ways, a revision up, and a candidate has a successor iff it is superseded.
Lineage(cs) ==
    \A id \in DOMAIN cs :
       /\ cs[id].supersedes # None =>
             /\ cs[id].supersedes \in DOMAIN cs
             /\ cs[cs[id].supersedes].supersededBy = id /\ cs[cs[id].supersedes].state = "superseded"
       /\ cs[id].supersededBy # None =>
             /\ cs[id].supersededBy \in DOMAIN cs
             /\ cs[cs[id].supersededBy].supersedes = id
             /\ cs[cs[id].supersededBy].revision = cs[id].revision + 1
       /\ cs[id].supersededBy # None <=> cs[id].state = "superseded"

\* Each candidate is where its reviews took it, and in a lineage; what is being decided
\* on was looked up.
CandidateInv ==
    /\ candidates = [id \in DOMAIN candidates |-> candidates[id]]
    /\ DOMAIN reviews \subseteq DOMAIN candidates
    /\ \A id \in DOMAIN candidates : Earned(id, candidates[id], ReviewsOf(id))
    /\ Lineage(candidates)
    /\ reviewing # None => reviewing.witness \in Witnesses /\ reviewing.reviewedAt \in Nat

---------------------------------------------------------------------------

\* A new candidate has earned what it is.
LEMMA NewIsEarned == ASSUME NEW id, NEW c PROVE Earned(id, NewCandidate(c), <<>>)
  BY DEF Earned, NewCandidate, CandidateFields, States, Active, Supporting, Disputes

\* A review that is warranted leaves what the reviews say true.
LEMMA NextReview ==
    ASSUME NEW id, NEW c, NEW rs, Earned(id, c, rs),
           NEW row \in ReviewRows, row.from = c.state, row.revision = c.revision,
           CanTransition(c.state, row.to),
           \A i \in DOMAIN rs : rs[i].evidence # row.evidence,
           row.to = "confirmed" => \A i \in Supporting(rs) : rs[i].origin # row.origin,
           c.state = "disputed" => Revalidates(row, id),
           NEW d, DOMAIN d = CandidateFields, d.state = row.to, d.revision = c.revision
    PROVE  Earned(id, d, Append(rs, row))
  <1> DEFINE n == Len(rs)
             new == Append(rs, row)
  <1>1. /\ rs \in Seq(ReviewRows) /\ n \in Nat /\ DOMAIN rs = 1 .. n
        /\ new \in Seq(ReviewRows) /\ Len(new) = n + 1 /\ DOMAIN new = 1 .. n + 1
        /\ new[n + 1] = row /\ \A i \in 1 .. n : new[i] = rs[i]
    BY DEF Earned
  <1>2. row.to \in States
    BY DEF ReviewRows
  <1> HIDE DEF n, new
  <1>3. n > 0 => rs[n].to = c.state
    BY <1>1 DEF Earned, n
  <1>4. \A i \in DOMAIN new : new[i].revision = d.revision /\ (i > 1 => new[i].from = new[i - 1].to)
    <2> TAKE i \in DOMAIN new
    <2>1. CASE i = n + 1
      BY <2>1, <1>1, <1>3
    <2>2. CASE i \in 1 .. n
      <3>1. i > 1 => i - 1 \in 1 .. n
        BY <2>2, <1>1
      <3> QED BY <2>2, <3>1, <1>1 DEF Earned
    <2> QED BY <1>1, <2>1, <2>2
  <1>5. \A i, j \in DOMAIN new : new[i].evidence = new[j].evidence => i = j
    <2> TAKE i, j \in DOMAIN new
    <2>1. CASE i \in 1 .. n /\ j \in 1 .. n
      BY <2>1, <1>1 DEF Earned
    <2>2. CASE i = n + 1 \/ j = n + 1
      BY <2>2, <1>1
    <2> QED BY <1>1, <2>1, <2>2
  <1>6. /\ Disputes(rs) \subseteq Disputes(new) /\ Supporting(rs) \subseteq Supporting(new)
        /\ \A i \in Disputes(new) : i = n + 1 \/ i \in Disputes(rs)
        /\ row.to \in {"observed", "confirmed"} => n + 1 \in Supporting(new)
    BY <1>1 DEF Disputes, Supporting
  <1>7. \A i \in Disputes(new) : i < Len(new) => Revalidates(new[i + 1], id)
    <2> SUFFICES ASSUME NEW i \in Disputes(new), i < Len(new) PROVE Revalidates(new[i + 1], id)
      OBVIOUS
    <2>1. i \in Disputes(rs) /\ i \in 1 .. n /\ rs[i].to = "disputed"
      BY <1>1, <1>6 DEF Disputes
    <2>2. CASE i = n
      BY <2>1, <2>2, <1>1, <1>3
    <2>3. CASE i < n
      <3>1. i + 1 \in 1 .. n /\ new[i + 1] = rs[i + 1]
        BY <2>1, <2>3, <1>1
      <3> QED BY <3>1, <2>1, <2>3 DEF Earned, n
    <2> QED BY <2>1, <2>2, <2>3, <1>1
  <1>8. ASSUME Disputes(new) = {} PROVE c.state # "disputed" /\ Disputes(rs) = {}
    <2>1. Disputes(rs) = {}
      BY <1>6, <1>8
    <2>2. n > 0 => n \notin Disputes(rs)
      BY <2>1
    <2> QED BY <2>1, <2>2, <1>1, <1>3 DEF Disputes, Earned, n
  <1>9. ASSUME Disputes(new) = {}
        PROVE  /\ d.state = "observed" => Supporting(new) # {}
               /\ d.state \in {"confirmed", "verified"} =>
                     \E i, j \in Supporting(new) : new[i].origin # new[j].origin
    <2>1. d.state = "observed" => n + 1 \in Supporting(new)
      BY <1>6
    <2>2. CASE d.state = "confirmed"
      <3>1. c.state = "observed"
        BY <2>2, <1>8, <1>9, CandidateAssumption DEF CanTransition, NormalNext, Active, Terminal, States
      <3>2. PICK i \in Supporting(rs) : TRUE
        BY <3>1, <1>8, <1>9 DEF Earned
      <3>3. i \in 1 .. n /\ i \in Supporting(new) /\ n + 1 \in Supporting(new)
        BY <3>2, <2>2, <1>1, <1>6 DEF Supporting
      <3>4. new[i].origin # new[n + 1].origin
        BY <3>2, <3>3, <2>2, <1>1
      <3> QED BY <2>2, <3>3, <3>4
    <2>3. CASE d.state = "verified"
      <3>1. c.state = "confirmed"
        BY <2>3, <1>8, <1>9, CandidateAssumption DEF CanTransition, NormalNext, Active, Terminal, States
      <3>2. PICK i, j \in Supporting(rs) : rs[i].origin # rs[j].origin
        BY <3>1, <1>8, <1>9 DEF Earned
      <3>3. i \in 1 .. n /\ j \in 1 .. n
        BY <1>1 DEF Supporting
      <3> QED BY <2>3, <3>2, <3>3, <1>1, <1>6
    <2> QED BY <2>1, <2>2, <2>3
  <1>10. new # <<>> /\ new[Len(new)].to = d.state
    BY <1>1
  <1>11. d.revision \in Nat
    BY DEF Earned
  <1>12. Earned(id, d, new)
    BY <1>1, <1>2, <1>4, <1>5, <1>7, <1>9, <1>10, <1>11 DEF Earned
  <1> QED BY <1>12 DEF new

---------------------------------------------------------------------------

\* Registering: what is known stays, what is new is a candidate.
LEMMA RegisteringKeeps ==
    ASSUME CandidateInv, NEW new, NEW ds, ds = Registered(candidates, new)
    PROVE  /\ ds = [id \in DOMAIN ds |-> ds[id]]
           /\ DOMAIN ds = DOMAIN candidates \cup {Identity(c) : c \in new}
           /\ \A id \in DOMAIN candidates : ds[id] = candidates[id]
           /\ \A id \in DOMAIN ds : Earned(id, ds[id], ReviewsOf(id))
           /\ Lineage(ds)
  <1>1. /\ ds = [id \in DOMAIN ds |-> ds[id]]
        /\ DOMAIN ds = DOMAIN candidates \cup {Identity(c) : c \in new}
        /\ \A id \in DOMAIN candidates : ds[id] = candidates[id]
    BY DEF Registered
  <1>2. ASSUME NEW id \in DOMAIN ds, id \notin DOMAIN candidates
        PROVE  /\ ds[id].revision = 1 /\ ds[id].state = "candidate"
               /\ ds[id].supersedes = None /\ ds[id].supersededBy = None
               /\ Earned(id, ds[id], ReviewsOf(id))
    <2>1. PICK c : ds[id] = NewCandidate(c)
      BY <1>1, <1>2 DEF Registered
    <2>2. ReviewsOf(id) = <<>>
      BY <1>2 DEF ReviewsOf, CandidateInv
    <2>3. Earned(id, ds[id], ReviewsOf(id))
      BY <2>1, <2>2, NewIsEarned
    <2> QED BY <2>1, <2>3 DEF NewCandidate
  <1>3. \A id \in DOMAIN ds : Earned(id, ds[id], ReviewsOf(id))
    BY <1>1, <1>2 DEF CandidateInv
  <1>4. Lineage(ds)
    BY <1>1, <1>2 DEF Lineage, CandidateInv
  <1> QED BY <1>1, <1>2, <1>3, <1>4

\* An operation that only registers keeps the invariant.
LEMMA RegisterKeeps ==
    ASSUME CandidateInv, NEW new, Register(new), UNCHANGED <<reviews, reviewing>>
    PROVE  CandidateInv'
  <1>1. PICK ds : ds = candidates'
    OBVIOUS
  <1>2. PICK rvs : rvs = reviews
    OBVIOUS
  <1>3. ds = Registered(candidates, new)
    BY <1>1 DEF Register
  <1>4. \A id : ReviewsOf(id)' = ReviewsOf(id)
    BY DEF ReviewsOf
  <1>5. /\ ds = [id \in DOMAIN ds |-> ds[id]] /\ DOMAIN candidates \subseteq DOMAIN ds
        /\ \A id \in DOMAIN ds : Earned(id, ds[id], ReviewsOf(id))
        /\ Lineage(ds)
    BY <1>3, RegisteringKeeps
  <1>6. \A id \in DOMAIN ds : Earned(id, ds[id], ReviewsOf(id)')
    BY <1>4, <1>5
  <1>7. DOMAIN reviews' \subseteq DOMAIN ds
    BY <1>5 DEF CandidateInv
  <1>8. reviewing' # None => reviewing'.witness \in Witnesses /\ reviewing'.reviewedAt \in Nat
    BY DEF CandidateInv
  <1>9. Lineage(candidates')
    BY <1>1, <1>5
  <1>10. \A id \in DOMAIN candidates' : Earned(id, candidates'[id], ReviewsOf(id)')
    BY <1>1, <1>6
  <1> QED BY <1>1, <1>5, <1>7, <1>8, <1>9, <1>10 DEF CandidateInv, Lineage, Earned

\* A review is written with the row it is about: what stands in the tables after.
LEMMA Reviewing ==
    ASSUME CandidateInv, NEW id, NEW to, NEW w, NEW at, reviews' = WithReview(id, to, w, at)
    PROVE  /\ DOMAIN reviews' = DOMAIN reviews \cup {id}
           /\ \A x : x # id => ReviewsOf(x)' = ReviewsOf(x)
           /\ ReviewsOf(id)' = Append(ReviewsOf(id),
                 [revision |-> candidates[id].revision, from |-> candidates[id].state, to |-> to,
                  evidence |-> w.id, origin |-> w.origin, kind |-> w.kind, reviewedAt |-> at,
                  context |-> IF to = "verified" THEN w.context ELSE None])
  BY DEF WithReview, ReviewsOf

\* A decision adds one review that is warranted, or changes nothing.
LEMMA DecideKeeps == ASSUME CandidateInv, Decide PROVE CandidateInv'
  <1>1. PICK id, w, to, at : /\ id = reviewing.candidate /\ w = reviewing.witness
                             /\ to = reviewing.target /\ at = reviewing.reviewedAt
    OBVIOUS
  <1>2. w \in Witnesses /\ at \in Nat
    BY <1>1 DEF Decide, CandidateInv
  <1>3. reviewing' = None
    BY DEF Decide
  <1>4. CASE UNCHANGED <<candidates, reviews>>
    <2>1. \A x : ReviewsOf(x)' = ReviewsOf(x)
      BY <1>4 DEF ReviewsOf
    <2> QED BY <1>3, <1>4, <2>1 DEF CandidateInv, Lineage, Earned
  <1>5. CASE ~UNCHANGED <<candidates, reviews>>
    <2> DEFINE row == [revision |-> candidates[id].revision, from |-> candidates[id].state, to |-> to,
                       evidence |-> w.id, origin |-> w.origin, kind |-> w.kind, reviewedAt |-> at,
                       context |-> IF to = "verified" THEN w.context ELSE None]
    <2>1. /\ id \in DOMAIN candidates
          /\ ~\E r \in ToSet(ReviewsOf(id)) : r.evidence = w.id
          /\ CanTransition(candidates[id].state, to)
          /\ Warranted(id, to, w)
          /\ candidates' = [candidates EXCEPT
                 ![id].state = to,
                 ![id].contradiction = IF to = "disputed" THEN "disputed" ELSE "clear",
                 ![id].verifiedAt = IF to = "verified" THEN at ELSE None]
          /\ reviews' = WithReview(id, to, w, at)
      BY <1>1, <1>5 DEF Decide
    <2>2. PICK c, rs, old : c = candidates[id] /\ rs = ReviewsOf(id) /\ old = candidates
      OBVIOUS
    <2>3. Earned(id, c, rs) /\ DOMAIN c = CandidateFields /\ rs \in Seq(ReviewRows)
      BY <2>1, <2>2 DEF CandidateInv, Earned
    <2>4. PICK d : d = candidates'[id]
      OBVIOUS
    <2>5. /\ candidates' = [x \in DOMAIN old |-> candidates'[x]] /\ DOMAIN candidates' = DOMAIN old
          /\ \A x \in DOMAIN old : x # id => candidates'[x] = old[x]
      BY <2>1, <2>2 DEF CandidateInv
    <2>6. DOMAIN d = CandidateFields /\ d.state = to /\ d.revision = c.revision
          /\ d.supersedes = c.supersedes /\ d.supersededBy = c.supersededBy
      BY <2>1, <2>2, <2>3, <2>4 DEF CandidateFields
    <2>7. to \in {"disputed", "observed", "confirmed", "verified"}
      BY <2>1 DEF Warranted
    <2>8. row \in ReviewRows
      BY <1>2, <2>2, <2>3, <2>7 DEF ReviewRows, Earned, States, Active
    <2>9. \A i \in DOMAIN rs : rs[i].evidence # row.evidence
      BY <2>1, <2>2 DEF ToSet
    <2>10. row.to = "confirmed" => \A i \in Supporting(rs) : rs[i].origin # row.origin
      BY <2>1, <2>2 DEF Warranted, Independent, Supporting, ToSet
    <2>11. c.state = "disputed" => Revalidates(row, id)
      BY <1>2, <2>1, <2>2 DEF Warranted, Revalidates
    <2>12. row.from = c.state /\ row.revision = c.revision /\ row.to = to /\ CanTransition(c.state, to)
      BY <2>1, <2>2
    <2>13. /\ DOMAIN reviews' = DOMAIN reviews \cup {id}
           /\ \A x : x # id => ReviewsOf(x)' = ReviewsOf(x)
           /\ ReviewsOf(id)' = Append(ReviewsOf(id), row)
      BY <2>1, Reviewing
    <2>14. PICK r : r = row
      OBVIOUS
    <2> HIDE DEF row
    <2>15. Earned(id, d, Append(rs, r))
      BY <2>3, <2>6, <2>8, <2>9, <2>10, <2>11, <2>12, <2>14, NextReview
    <2>16. \A x \in DOMAIN old : x # id => Earned(x, old[x], ReviewsOf(x))
      BY <2>2 DEF CandidateInv
    <2>17. \A x \in DOMAIN candidates' : Earned(x, candidates'[x], ReviewsOf(x)')
      BY <2>2, <2>4, <2>5, <2>13, <2>14, <2>15, <2>16
    <2>18. Lineage(candidates')
      <3>1. PICK new : new = candidates'
        OBVIOUS
      <3>2. Lineage(old)
        BY <2>2 DEF CandidateInv
      <3>3. c.state # "superseded" /\ to # "superseded"
        BY <2>7, <2>12 DEF CanTransition, Active
      <3>4. \A x \in DOMAIN new : /\ new[x].supersedes = old[x].supersedes
                                  /\ new[x].supersededBy = old[x].supersededBy
                                  /\ new[x].revision = old[x].revision
                                  /\ new[x].state = "superseded" <=> old[x].state = "superseded"
        BY <2>2, <2>4, <2>5, <2>6, <3>1, <3>3
      <3>5. DOMAIN new = DOMAIN old
        BY <2>5, <3>1
      <3>6. Lineage(new)
        BY <3>2, <3>4, <3>5 DEF Lineage
      <3> QED BY <3>1, <3>6
    <2>19. DOMAIN reviews' \subseteq DOMAIN candidates'
      BY <2>1, <2>2, <2>5, <2>13 DEF CandidateInv
    <2>20. candidates' = [x \in DOMAIN candidates' |-> candidates'[x]]
      BY <2>5
    <2> QED BY <1>3, <2>17, <2>18, <2>19, <2>20 DEF CandidateInv, Earned, Lineage
  <1> QED BY <1>4, <1>5

\* A supersession: the successor is registered, then the two rows are linked, and
\* nothing else was linked to either end.
LEMMA SupersedeKeeps ==
    ASSUME CandidateInv, NEW prior \in DOMAIN candidates, NEW c \in Revisions, NEW w \in Witnesses,
           NEW at \in Nat, Supersede(prior, c, w, at)
    PROVE  CandidateInv'
  <1> DEFINE row == [revision |-> candidates[prior].revision, from |-> candidates[prior].state,
                     to |-> "superseded", evidence |-> w.id, origin |-> w.origin, kind |-> w.kind,
                     reviewedAt |-> at, context |-> IF "superseded" = "verified" THEN w.context ELSE None]
  <1>1. PICK id : id = Identity(c)
    OBVIOUS
  <1>2. id # None /\ None \notin States
    BY <1>1, CandidateAssumption
  <1>3. PICK old, p, rs, mid : /\ old = candidates /\ p = candidates[prior] /\ rs = ReviewsOf(prior)
                               /\ mid = Registered(candidates, {c})
    OBVIOUS
  <1>4. /\ prior \in DOMAIN old /\ id # prior /\ id \notin DOMAIN old
        /\ CanTransition(p.state, "superseded") /\ p = old[prior]
        /\ ~\E r \in ToSet(rs) : r.evidence = w.id
        /\ candidates' = [mid EXCEPT
              ![id].revision = p.revision + 1, ![id].supersedes = prior,
              ![prior].state = "superseded", ![prior].supersededBy = id, ![prior].verifiedAt = None]
        /\ reviews' = WithReview(prior, "superseded", w, at)
        /\ reviewing' = reviewing
    BY <1>1, <1>3 DEF Supersede, NewIdentity
  <1>5. PICK new : new = candidates'
    OBVIOUS
  <1>6. /\ mid = [x \in DOMAIN mid |-> mid[x]]
        /\ DOMAIN mid = DOMAIN old \cup {id}
        /\ \A x \in DOMAIN old : mid[x] = old[x]
        /\ mid[id].revision = 1 /\ mid[id].state = "candidate"
        /\ mid[id].supersedes = None /\ mid[id].supersededBy = None
        /\ Lineage(mid)
    <2> HIDE DEF row
    <2>0. PICK S : S = {c}
      OBVIOUS
    <2>1. /\ mid = [x \in DOMAIN mid |-> mid[x]]
          /\ DOMAIN mid = DOMAIN candidates \cup {Identity(d) : d \in S}
          /\ \A x \in DOMAIN candidates : mid[x] = candidates[x]
          /\ \A x \in DOMAIN mid \ DOMAIN candidates :
                /\ mid[x].revision = 1 /\ mid[x].state = "candidate"
                /\ mid[x].supersedes = None /\ mid[x].supersededBy = None
          /\ Lineage(mid)
      <3>1. mid = Registered(candidates, S)
        BY <1>3, <2>0
      <3>2. mid = [x \in DOMAIN mid |-> mid[x]] /\ Lineage(mid)
        BY <3>1, RegisteringKeeps
      <3>3. DOMAIN mid = DOMAIN candidates \cup {Identity(d) : d \in S}
        BY <3>1 DEF Registered
      <3>4. \A x \in DOMAIN candidates : mid[x] = candidates[x]
        BY <3>1, RegisteringKeeps
      <3>5. \A x \in DOMAIN mid \ DOMAIN candidates :
               /\ mid[x].revision = 1 /\ mid[x].state = "candidate"
               /\ mid[x].supersedes = None /\ mid[x].supersededBy = None
        <4> TAKE x \in DOMAIN mid \ DOMAIN candidates
        <4>1. PICK e : mid[x] = NewCandidate(e)
          BY <3>1, <3>3 DEF Registered
        <4> QED BY <4>1 DEF NewCandidate
      <3> QED BY <3>2, <3>3, <3>4, <3>5
    <2>2. {Identity(d) : d \in S} = {id}
      BY <1>1, <2>0
    <2> QED BY <2>1, <2>2, <1>3, <1>4
  <1>7. \A x \in DOMAIN mid : Earned(x, mid[x], ReviewsOf(x))
    BY <1>3, RegisteringKeeps
  <1>8. /\ DOMAIN mid[id] = CandidateFields /\ DOMAIN mid[prior] = CandidateFields
        /\ p.revision \in Nat /\ mid[prior] = p
    BY <1>4, <1>6, <1>7 DEF Earned
  <1>9. /\ new = [x \in DOMAIN new |-> new[x]] /\ DOMAIN new = DOMAIN mid
        /\ \A x \in DOMAIN mid : x # id /\ x # prior => new[x] = mid[x]
        /\ new[id] = [mid[id] EXCEPT !.revision = p.revision + 1, !.supersedes = prior]
        /\ new[prior] = [p EXCEPT !.state = "superseded", !.supersededBy = id, !.verifiedAt = None]
    BY <1>4, <1>5, <1>6, <1>8
  <1>10. /\ DOMAIN new[id] = CandidateFields /\ new[id].revision = p.revision + 1
         /\ new[id].supersedes = prior /\ new[id].supersededBy = None /\ new[id].state = "candidate"
    BY <1>6, <1>8, <1>9 DEF CandidateFields
  <1>11. /\ DOMAIN new[prior] = CandidateFields /\ new[prior].revision = p.revision
         /\ new[prior].supersedes = p.supersedes /\ new[prior].supersededBy = id
         /\ new[prior].state = "superseded"
    BY <1>8, <1>9 DEF CandidateFields
  <1>12. Lineage(new)
    <2>1. p.state # "superseded" /\ p.supersededBy = None
      BY <1>4, <1>6, <1>8 DEF CanTransition, Active, Lineage
    <2>2. ASSUME NEW x \in DOMAIN old, x # prior
          PROVE  /\ new[x] = old[x] /\ mid[x] = old[x] /\ x # id
      BY <1>4, <1>6, <1>9, <2>2
    <2> HIDE DEF row
    <2>3. DOMAIN new = DOMAIN old \cup {id} /\ old[prior] = p
      BY <1>4, <1>6, <1>9
    <2>4. \A x \in DOMAIN old :
             /\ old[x].supersedes # None =>
                   /\ old[x].supersedes \in DOMAIN old
                   /\ old[old[x].supersedes].supersededBy = x /\ old[old[x].supersedes].state = "superseded"
             /\ old[x].supersededBy # None =>
                   /\ old[x].supersededBy \in DOMAIN old
                   /\ old[old[x].supersededBy].supersedes = x
                   /\ old[old[x].supersededBy].revision = old[x].revision + 1
             /\ old[x].supersededBy # None <=> old[x].state = "superseded"
      BY <1>3 DEF CandidateInv, Lineage
    <2>5. \A x \in DOMAIN old : new[x].supersedes = old[x].supersedes /\ new[x].revision = old[x].revision
      BY <1>11, <2>2, <2>3
    <2>6. ASSUME NEW x \in DOMAIN new, new[x].supersedes # None
          PROVE  /\ new[x].supersedes \in DOMAIN new
                 /\ new[new[x].supersedes].supersededBy = x /\ new[new[x].supersedes].state = "superseded"
      <3>1. CASE x = id
        BY <3>1, <1>4, <1>10, <1>11, <2>3
      <3>2. CASE x \in DOMAIN old
        <4>1. PICK y : y = old[x].supersedes /\ y = new[x].supersedes
          BY <3>2, <2>5
        <4>2. y \in DOMAIN old /\ old[y].supersededBy = x /\ old[y].state = "superseded" /\ y # prior
          <5>1. y # None /\ old[x].supersedes = y
            BY <4>1, <2>6
          <5>2. y \in DOMAIN old /\ old[y].supersededBy = x /\ old[y].state = "superseded"
            BY <5>1, <3>2, <2>4
          <5> QED BY <5>2, <2>1, <2>3
        <4> QED BY <4>1, <4>2, <2>2, <2>3
      <3> QED BY <2>3, <3>1, <3>2
    <2>7. ASSUME NEW x \in DOMAIN new, new[x].supersededBy # None
          PROVE  /\ new[x].supersededBy \in DOMAIN new
                 /\ new[new[x].supersededBy].supersedes = x
                 /\ new[new[x].supersededBy].revision = new[x].revision + 1
      <3>1. CASE x = prior
        BY <3>1, <1>10, <1>11, <2>3
      <3>2. CASE x \in DOMAIN old /\ x # prior
        <4>1. PICK y : y = old[x].supersededBy /\ y = new[x].supersededBy
          BY <3>2, <2>2
        <4>2. y \in DOMAIN old /\ old[y].supersedes = x /\ old[y].revision = old[x].revision + 1
          BY <3>2, <4>1, <2>4, <2>7
        <4> QED BY <3>2, <4>1, <4>2, <2>2, <2>3, <2>5
      <3>3. x # id
        BY <2>7, <1>10
      <3> QED BY <2>3, <3>1, <3>2, <3>3
    <2>8. ASSUME NEW x \in DOMAIN new PROVE new[x].supersededBy # None <=> new[x].state = "superseded"
      BY <1>2, <1>10, <1>11, <2>2, <2>3, <2>4
    <2> QED BY <2>6, <2>7, <2>8 DEF Lineage
  <1>13. row \in ReviewRows
    BY <1>3, <1>4, <1>7, <1>6 DEF ReviewRows, Earned, States, Terminal
  <1>14. PICK r : r = row
    OBVIOUS
  <1>15. /\ DOMAIN reviews' = DOMAIN reviews \cup {prior}
         /\ \A x : x # prior => ReviewsOf(x)' = ReviewsOf(x)
         /\ ReviewsOf(prior)' = Append(ReviewsOf(prior), row)
    BY <1>4, Reviewing
  <1>16. r.from = p.state /\ r.revision = p.revision /\ r.to = "superseded" /\ r.evidence = w.id
    BY <1>3, <1>14
  <1>17. p.state # "disputed"
    BY <1>4 DEF CanTransition, Active
  <1>18. \A i \in DOMAIN rs : rs[i].evidence # w.id
    BY <1>4 DEF ToSet
  <1> HIDE DEF row
  <1>19. Earned(prior, p, rs)
    BY <1>3, <1>4, <1>6, <1>7, <1>8
  <1>20. Earned(prior, new[prior], Append(rs, r))
    BY <1>4, <1>11, <1>13, <1>14, <1>16, <1>17, <1>18, <1>19, NextReview
  <1>21. ReviewsOf(id)' = <<>>
    BY <1>3, <1>4, <1>15 DEF ReviewsOf, CandidateInv
  <1>22. Earned(id, new[id], <<>>)
    BY <1>8, <1>10 DEF Earned, States, Active, Supporting, Disputes
  <1>23. \A x \in DOMAIN new : Earned(x, new[x], ReviewsOf(x)')
    <2> TAKE x \in DOMAIN new
    <2>1. CASE x = prior
      BY <2>1, <1>3, <1>14, <1>15, <1>20
    <2>2. CASE x = id
      BY <2>2, <1>21, <1>22
    <2>3. CASE x # prior /\ x # id
      BY <2>3, <1>7, <1>9, <1>15
    <2> QED BY <2>1, <2>2, <2>3
  <1>24. DOMAIN reviews' \subseteq DOMAIN candidates'
    <2>1. DOMAIN reviews \subseteq DOMAIN old
      BY <1>3 DEF CandidateInv
    <2>2. DOMAIN candidates' = DOMAIN old \cup {id}
      BY <1>5, <1>6, <1>9
    <2> QED BY <2>1, <2>2, <1>4, <1>15
  <1>25. \A x \in DOMAIN candidates' : Earned(x, candidates'[x], ReviewsOf(x)')
    BY <1>5, <1>23
  <1>26. Lineage(candidates')
    BY <1>5, <1>12
  <1>27. candidates' = [x \in DOMAIN candidates' |-> candidates'[x]]
    BY <1>5, <1>9
  <1> QED BY <1>4, <1>24, <1>25, <1>26, <1>27 DEF CandidateInv, Earned, Lineage

\* The invariant holds at first, and through every step.
LEMMA CandidateInvInit == ASSUME CandidateReviewInit PROVE CandidateInv
  BY DEF CandidateReviewInit, CandidateInv, Lineage

LEMMA CandidateInvStep == ASSUME CandidateInv, [CandidateReviewNext]_reviewVars PROVE CandidateInv'
  <1>1. CASE UNCHANGED <<candidates, reviews, reviewing>>
    <2>1. \A x : ReviewsOf(x)' = ReviewsOf(x)
      BY <1>1 DEF ReviewsOf
    <2> QED BY <1>1, <2>1 DEF CandidateInv, Lineage, Earned
  <1>2. ASSUME NEW new, Register(new), UNCHANGED <<reviews, reviewing>> PROVE CandidateInv'
    BY <1>2, RegisterKeeps
  <1>3. CASE RegisterReview(Reviewed)
    BY <1>2, <1>3 DEF RegisterReview
  <1>4. CASE BackfillOperational
    BY <1>2, <1>4 DEF BackfillOperational
  <1>5. ASSUME NEW id, NEW to, NEW w \in Witnesses, LookUp(Request(id, to, w, 1)) PROVE CandidateInv'
    <2>1. UNCHANGED <<candidates, reviews>> /\ reviewing' = Request(id, to, w, 1)
      BY <1>5 DEF LookUp
    <2>2. \A x : ReviewsOf(x)' = ReviewsOf(x)
      BY <2>1 DEF ReviewsOf
    <2>3. reviewing'.witness \in Witnesses /\ reviewing'.reviewedAt \in Nat
      BY <2>1 DEF Request
    <2> QED BY <2>1, <2>2, <2>3 DEF CandidateInv, Lineage, Earned
  <1>6. CASE Decide
    BY <1>6, DecideKeeps
  <1>7. ASSUME NEW prior \in DOMAIN candidates, NEW c \in Revisions, NEW w \in Witnesses,
               Supersede(prior, c, w, 1)
        PROVE  CandidateInv'
    BY <1>7, SupersedeKeeps
  <1>8. ASSUME NEW o, Learn(o) PROVE CandidateInv'
    BY <1>1, <1>8 DEF Learn
  <1>9. ASSUME NEW w, EvidenceChanges(w) PROVE CandidateInv'
    BY <1>1, <1>9 DEF EvidenceChanges
  <1>10. CASE UNCHANGED reviewVars
    BY <1>1, <1>10 DEF reviewVars
  <1> QED BY <1>3, <1>4, <1>5, <1>6, <1>7, <1>8, <1>9, <1>10 DEF CandidateReviewNext

\* What it says of the verified, and of the chains.
LEMMA VerifiedHolds == ASSUME CandidateInv PROVE VerifiedIsEarned
  <1> SUFFICES ASSUME NEW id \in VerifiedEntries, NEW rs, rs = ReviewsOf(id)
               PROVE  /\ Last(rs).to = "verified" /\ Last(rs).revision = candidates[id].revision
                      /\ \A i \in DOMAIN rs : i > 1 => rs[i].from = rs[i - 1].to
                      /\ \A i, j \in DOMAIN rs : rs[i].evidence = rs[j].evidence => i = j
                      /\ Disputes(rs) = {} => \E i, j \in Supporting(rs) : rs[i].origin # rs[j].origin
                      /\ \A i \in Disputes(rs) :
                            \E w \in Witnesses : rs[i + 1].evidence = w.id /\ w.revalidates = id
    BY DEF VerifiedIsEarned, Disputes, Supporting
  <1>1. Earned(id, candidates[id], rs) /\ candidates[id].state = "verified"
    BY DEF VerifiedEntries, CandidateInv
  <1>2. rs \in Seq(ReviewRows) /\ rs # <<>> /\ Len(rs) \in Nat /\ DOMAIN rs = 1 .. Len(rs)
        /\ Len(rs) \in DOMAIN rs
    BY <1>1 DEF Earned
  <1>3. Last(rs) = rs[Len(rs)] /\ rs[Len(rs)].to = "verified"
    BY <1>1, <1>2 DEF Earned, Last
  <1>4. \A i \in Disputes(rs) : i < Len(rs)
    BY <1>2, <1>3 DEF Disputes
  <1> QED BY <1>1, <1>2, <1>3, <1>4 DEF Earned, Revalidates

LEMMA ChainHolds == ASSUME CandidateInv PROVE LineageIsAChain
  BY DEF CandidateInv, Lineage, LineageIsAChain, AcceptedEntries

(* What is served as verified was earned in the revision that is served, and revisions
   form chains of which only the end is served (CandidateRepository.review and
   supersede), for any candidates, evidence and batches. *)
THEOREM CandidatesStaySound == CandidateReviewSpec => []CandidatesAreSound
  <1>1. CandidateReviewInit => CandidateInv
    BY CandidateInvInit
  <1>2. CandidateInv /\ [CandidateReviewNext]_reviewVars => CandidateInv'
    BY CandidateInvStep
  <1>3. CandidateInv => CandidatesAreSound
    BY VerifiedHolds, ChainHolds DEF CandidatesAreSound
  <1> QED BY <1>1, <1>2, <1>3, PTL DEF CandidateReviewSpec
=============================================================================
