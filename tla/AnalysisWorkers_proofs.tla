------------------------- MODULE AnalysisWorkers_proofs -------------------------
(***************************************************************************)
(* Theorems about the queue of analysis jobs, for any number of streams,   *)
(* any length of a stream and any budget of attempts, and about the        *)
(* processes that work on it, for any number of coordinators, worker       *)
(* slots and failures.                                                     *)
(***************************************************************************)
EXTENDS AnalysisWorkers, FiniteSetTheorems, TLAPS

RunningIn(js) == {g \in Generations : js[g].state = "running"}
Quarantined(js) == {g \in Generations : js[g].state = "quarantined"}

StreamRow == [known : BOOLEAN, committed : HighWaters, processed : HighWaters, next : 1..(MaxJobs + 1)]

\* The rows of one stream against its high-waters: an open job reaches what was
\* admitted; a running one starts at what was processed and, unless a successor
\* is open, reaches as far.
RowsFit(st, js) ==
    /\ \A g \in Generations : g >= st.next => js[g].state = "absent"
    /\ \A g \in Open(js) : js[g].attempts < MaxAttempts /\ js[g].high = st.committed
    /\ \A g \in RunningIn(js) :
          /\ js[g].attempts > 0
          /\ js[g].low = st.processed
          /\ st.processed <= js[g].high /\ js[g].high <= st.committed
          /\ Open(js) = {} => js[g].high = st.committed
    /\ \A g \in Quarantined(js) : js[g].high >= st.processed

\* At most one open and one running job, and none running beside a quarantine.
OneOfEach(js) ==
    /\ \A g, h \in Open(js) : g = h
    /\ \A g, h \in RunningIn(js) : g = h
    /\ Quarantined(js) # {} => RunningIn(js) = {}

\* The inductive invariant of one stream.
StreamInv(st, js, an) ==
    /\ st.processed <= st.committed
    /\ RowsFit(st, js)
    /\ OneOfEach(js)
    /\ Quarantined(js) = {} /\ st.committed > st.processed => Open(js) \cup RunningIn(js) # {}
    /\ \A n \in Ordinals : an[n] = IF n <= st.processed THEN 1 ELSE 0

\* The inductive invariant of the queue.
JobsInv ==
    /\ stream \in [Streams -> StreamRow]
    /\ jobs \in [Streams -> [Generations -> JobRow]]
    /\ analysed \in [Streams -> [Ordinals -> Nat]]
    /\ \A s \in Streams : StreamInv(stream[s], jobs[s], analysed[s])

---------------------------------------------------------------------------
\* A row that does not exist is a row.
LEMMA NoJobType == NoJob \in JobRow
  BY JobsAssumption DEF NoJob, JobRow, HighWaters

\* The jobs of a stream after a failure, if the failed job may be tried again.
LEMMA RetriedRows ==
    ASSUME NEW st \in StreamRow, NEW js \in [Generations -> JobRow], NEW an,
           NEW g \in RunningIn(js), StreamInv(st, js, an), js[g].attempts < MaxAttempts
    PROVE  /\ Failed(js, g, FALSE) \in [Generations -> JobRow]
           /\ StreamInv(st, Failed(js, g, FALSE), an)
           /\ Quarantined(Failed(js, g, FALSE)) = {}
  <1> DEFINE high == IF Open(js) = {} THEN js[g].high
                     ELSE Higher(js[g].high, js[CHOOSE o \in Open(js) : TRUE].high)
             after == Failed(js, g, FALSE)
  <1>1. g \in Generations /\ js[g] \in JobRow /\ js[g].attempts \in Nat
        /\ st.committed \in HighWaters /\ MaxAttempts \in Nat
    BY JobsAssumption DEF RunningIn, JobRow, StreamRow
  <1>2. high = st.committed
    <2>1. CASE Open(js) = {}
      BY <2>1 DEF StreamInv, RowsFit
    <2>2. CASE Open(js) # {}
      <3>1. (CHOOSE o \in Open(js) : TRUE) \in Open(js)
        BY <2>2
      <3>2. js[CHOOSE o \in Open(js) : TRUE].high = st.committed
        BY <3>1 DEF StreamInv, RowsFit
      <3>3. js[g].high <= st.committed /\ js[g].high \in Nat /\ st.committed \in Nat
        BY <1>1 DEF StreamInv, RowsFit, JobRow, HighWaters
      <3> QED
        BY <2>2, <3>2, <3>3 DEF Higher
    <2> QED
      BY <2>1, <2>2
  <1>3. after = [h \in Generations |->
            IF h = g
            THEN [js[g] EXCEPT !.state = "retryable", !.leased = FALSE, !.due = FALSE, !.high = high]
            ELSE IF h \in Open(js) THEN NoJob ELSE js[h]]
    <2>1. ~(FALSE \/ js[g].attempts >= MaxAttempts)
      BY <1>1
    <2> QED
      BY <2>1, Zenon DEF Failed
  <1> HIDE DEF high, after
  <1>4. [js[g] EXCEPT !.state = "retryable", !.leased = FALSE, !.due = FALSE, !.high = high] \in JobRow
    BY <1>1, <1>2 DEF JobRow
  <1>5. after \in [Generations -> JobRow]
    BY <1>3, <1>4, NoJobType
  <1>6. /\ after[g].state = "retryable" /\ after[g].high = st.committed
        /\ after[g].attempts = js[g].attempts
    BY <1>1, <1>2, <1>3 DEF JobRow
  <1>7. \A h \in Generations : h # g => after[h] = IF h \in Open(js) THEN NoJob ELSE js[h]
    BY <1>3
  <1>8. Open(after) = {g}
    BY <1>1, <1>6, <1>7 DEF Open, NoJob
  <1>9. RunningIn(after) = {}
    BY <1>1, <1>6, <1>7 DEF RunningIn, NoJob, StreamInv, OneOfEach
  <1>10. Quarantined(after) = {}
    BY <1>1, <1>6, <1>7 DEF Quarantined, NoJob, StreamInv, OneOfEach
  <1>11. \A h \in Generations : h >= st.next => after[h].state = "absent"
    BY <1>1, <1>7 DEF StreamInv, RowsFit, RunningIn, NoJob
  <1>12. RowsFit(st, after)
    BY <1>6, <1>8, <1>9, <1>10, <1>11 DEF RowsFit
  <1>13. OneOfEach(after)
    BY <1>8, <1>9, <1>10 DEF OneOfEach
  <1>14. StreamInv(st, after, an)
    BY <1>8, <1>12, <1>13 DEF StreamInv
  <1> QED
    BY <1>5, <1>10, <1>14 DEF after

\* The jobs of a stream after a failure that ends in quarantine.
LEMMA QuarantinedRows ==
    ASSUME NEW st \in StreamRow, NEW js \in [Generations -> JobRow], NEW an, NEW invalid \in BOOLEAN,
           NEW g \in RunningIn(js), StreamInv(st, js, an), invalid \/ js[g].attempts >= MaxAttempts
    PROVE  /\ Failed(js, g, invalid) \in [Generations -> JobRow]
           /\ StreamInv(st, Failed(js, g, invalid), an)
  <1> DEFINE after == Failed(js, g, invalid)
  <1>1. g \in Generations /\ js[g] \in JobRow
    BY DEF RunningIn
  <1>2. after = [js EXCEPT ![g].state = "quarantined", ![g].leased = FALSE]
    BY DEF Failed
  <1> HIDE DEF after
  <1>3. after \in [Generations -> JobRow]
    BY <1>1, <1>2 DEF JobRow
  <1>4. after[g].state = "quarantined" /\ after[g].high = js[g].high
    BY <1>1, <1>2 DEF JobRow
  <1>5. \A h \in Generations : h # g => after[h] = js[h]
    BY <1>1, <1>2
  <1>6. Open(after) = Open(js)
    BY <1>1, <1>4, <1>5 DEF Open, RunningIn
  <1>7. RunningIn(after) = {}
    BY <1>4, <1>5 DEF RunningIn, StreamInv, OneOfEach
  <1>8. Quarantined(after) = {g}
    BY <1>1, <1>4, <1>5 DEF Quarantined, StreamInv, OneOfEach
  <1>9. RowsFit(st, after)
    <2>1. \A h \in Open(after) : h # g /\ after[h] = js[h]
      BY <1>4, <1>5 DEF Open
    <2>2. js[g].high >= st.processed
      <3>1. st.processed \in Nat /\ js[g].high \in Nat
        BY <1>1 DEF StreamRow, JobRow, HighWaters
      <3> QED
        BY <3>1 DEF StreamInv, RowsFit
    <2>3. \A h \in Generations : h >= st.next => after[h].state = "absent"
      BY <1>1, <1>5 DEF StreamInv, RowsFit, RunningIn
    <2> QED
      BY <1>4, <1>6, <1>7, <1>8, <2>1, <2>2, <2>3 DEF RowsFit, StreamInv
  <1>10. OneOfEach(after)
    BY <1>6, <1>7 DEF OneOfEach, StreamInv
  <1>11. StreamInv(st, after, an)
    BY <1>8, <1>9, <1>10 DEF StreamInv
  <1> QED
    BY <1>3, <1>11 DEF after

\* The jobs of a stream after a claim.
LEMMA ClaimedRows ==
    ASSUME NEW st \in StreamRow, NEW js \in [Generations -> JobRow], NEW an, StreamInv(st, js, an),
           NEW g \in Open(js), RunningIn(js) = {}, Quarantined(js) = {},
           NEW after,
           after = [js EXCEPT ![g] = [js[g] EXCEPT !.state = "running", !.attempts = js[g].attempts + 1,
                                                   !.leased = TRUE, !.due = TRUE, !.low = st.processed]]
    PROVE  after \in [Generations -> JobRow] /\ StreamInv(st, after, an)
  <1>1. g \in Generations /\ js[g] \in JobRow /\ js[g].attempts \in Nat /\ st.processed \in HighWaters
        /\ js[g].attempts < MaxAttempts /\ js[g].high = st.committed /\ MaxAttempts \in Nat
        /\ st.processed <= st.committed /\ st.committed \in Nat
    BY JobsAssumption DEF Open, JobRow, StreamRow, StreamInv, RowsFit, HighWaters
  <1> DEFINE n == js[g].attempts + 1
             row == [js[g] EXCEPT !.state = "running", !.attempts = n, !.leased = TRUE,
                                  !.due = TRUE, !.low = st.processed]
  <1>1a. n \in 0..MaxAttempts /\ n > 0
    BY <1>1
  <1>3. after = [js EXCEPT ![g] = row]
    BY Zenon
  <1> HIDE DEF n
  <1>2. row \in JobRow /\ row.state = "running" /\ row.attempts = n
        /\ row.low = st.processed /\ row.high = js[g].high
    BY <1>1, <1>1a DEF JobRow
  <1> HIDE DEF row
  <1>4. after \in [Generations -> JobRow] /\ after[g] = row /\ \A h \in Generations : h # g => after[h] = js[h]
    BY <1>1, <1>2, <1>3
  <1>5. Open(after) = {}
    BY <1>2, <1>4 DEF Open, StreamInv, OneOfEach
  <1>6. RunningIn(after) = {g}
    BY <1>1, <1>2, <1>4 DEF RunningIn
  <1>7. Quarantined(after) = {}
    BY <1>2, <1>4 DEF Quarantined
  <1>8. RowsFit(st, after)
    <2>1. \A h \in Generations : h >= st.next => after[h].state = "absent"
      BY <1>1, <1>4 DEF StreamInv, RowsFit, Open
    <2>2. /\ after[g].attempts > 0 /\ after[g].low = st.processed
          /\ st.processed <= after[g].high /\ after[g].high = st.committed
          /\ st.committed <= st.committed
      BY <1>1, <1>1a, <1>2, <1>4
    <2> QED
      BY <1>5, <1>6, <1>7, <2>1, <2>2 DEF RowsFit
  <1>9. OneOfEach(after)
    BY <1>5, <1>6, <1>7 DEF OneOfEach
  <1> QED
    BY <1>4, <1>6, <1>8, <1>9 DEF StreamInv

\* The open job of a stream takes in what is admitted.
LEMMA WidenedRows ==
    ASSUME NEW st \in StreamRow, NEW js \in [Generations -> JobRow], NEW an, StreamInv(st, js, an),
           NEW new \in StreamRow, new.processed = st.processed, new.next = st.next,
           new.committed >= st.committed,
           NEW g \in Open(js), NEW after,
           after = [js EXCEPT ![g].high = Higher(@, new.committed)]
    PROVE  after \in [Generations -> JobRow] /\ StreamInv(new, after, an)
  <1>1. g \in Generations /\ js[g] \in JobRow /\ js[g].high = st.committed
        /\ st.committed \in Nat /\ new.committed \in HighWaters /\ new.committed \in Nat /\ new.processed \in Nat
    BY DEF Open, JobRow, StreamRow, StreamInv, RowsFit, HighWaters
  <1>2. Higher(js[g].high, new.committed) = new.committed
    BY <1>1 DEF Higher
  <1>3. after = [js EXCEPT ![g] = [js[g] EXCEPT !.high = new.committed]]
    BY <1>1, <1>2
  <1>4. after \in [Generations -> JobRow]
    BY <1>1, <1>3 DEF JobRow
  <1>5. after[g].high = new.committed /\ after[g].state = js[g].state /\ after[g].attempts = js[g].attempts
    BY <1>1, <1>3 DEF JobRow
  <1>6. \A h \in Generations : h # g => after[h] = js[h]
    BY <1>3
  <1>7. Open(after) = Open(js) /\ RunningIn(after) = RunningIn(js) /\ Quarantined(after) = Quarantined(js)
    BY <1>5, <1>6 DEF Open, RunningIn, Quarantined
  <1>8. \A h \in Open(js) : h = g
    BY DEF StreamInv, OneOfEach
  <1>9. \A h \in RunningIn(js) \cup Quarantined(js) : h \in Generations /\ h # g
    BY DEF Open, RunningIn, Quarantined
  <1>10. RowsFit(new, after)
    <2>1. \A h \in Generations : h >= new.next => after[h].state = "absent"
      BY <1>5, <1>6 DEF StreamInv, RowsFit
    <2>2. \A h \in Open(after) : after[h].attempts < MaxAttempts /\ after[h].high = new.committed
      BY <1>5, <1>7, <1>8 DEF StreamInv, RowsFit
    <2>3. \A h \in RunningIn(js) : js[h].high <= new.committed
      <3>1. \A h \in RunningIn(js) : js[h].high <= st.committed /\ js[h].high \in Nat
        BY DEF StreamInv, RowsFit, RunningIn, JobRow, HighWaters
      <3> QED
        BY <1>1, <3>1
    <2>4. \A h \in RunningIn(after) :
             /\ after[h].attempts > 0 /\ after[h].low = new.processed
             /\ new.processed <= after[h].high /\ after[h].high <= new.committed
      BY <1>6, <1>7, <1>9, <2>3 DEF StreamInv, RowsFit
    <2>5. \A h \in Quarantined(after) : after[h].high >= new.processed
      BY <1>6, <1>7, <1>9 DEF StreamInv, RowsFit
    <2> QED
      BY <1>7, <2>1, <2>2, <2>4, <2>5 DEF RowsFit
  <1>11. OneOfEach(after)
    BY <1>7 DEF OneOfEach, StreamInv
  <1>12. new.processed <= new.committed
    BY <1>1 DEF StreamInv
  <1> QED
    BY <1>4, <1>7, <1>10, <1>11, <1>12 DEF StreamInv

\* The row of a new generation, in a stream that has no open job.
LEMMA InsertedRows ==
    ASSUME NEW new \in StreamRow, NEW js \in [Generations -> JobRow], NEW an,
           new.next <= MaxJobs, Open(js) = {}, OneOfEach(js), new.processed <= new.committed,
           \A h \in Generations : h >= new.next => js[h].state = "absent",
           \A h \in RunningIn(js) : /\ js[h].attempts > 0 /\ js[h].low = new.processed
                                    /\ new.processed <= js[h].high /\ js[h].high <= new.committed,
           \A h \in Quarantined(js) : js[h].high >= new.processed,
           \A n \in Ordinals : an[n] = IF n <= new.processed THEN 1 ELSE 0
    PROVE  /\ Inserted(js, new) \in [Generations -> JobRow]
           /\ [new EXCEPT !.next = @ + 1] \in StreamRow
           /\ StreamInv([new EXCEPT !.next = @ + 1], Inserted(js, new), an)
           /\ Quarantined(Inserted(js, new)) = Quarantined(js)
  <1> DEFINE after == Inserted(js, new)
             row == [NoJob EXCEPT !.state = "pending", !.low = new.processed, !.high = new.committed]
             g == new.next
             st == [new EXCEPT !.next = g + 1]
  <1>1. g \in Generations /\ g \in Nat /\ MaxJobs \in Nat
    BY JobsAssumption DEF StreamRow, Generations
  <1>2. row \in JobRow /\ row.state = "pending" /\ row.high = new.committed /\ row.attempts = 0
    BY NoJobType DEF NoJob, JobRow, StreamRow
  <1>3. after = [js EXCEPT ![g] = row]
    BY DEF Inserted
  <1>4. st \in StreamRow /\ st.next = g + 1 /\ st.processed = new.processed /\ st.committed = new.committed
    BY <1>1 DEF StreamRow
  <1>5. MaxAttempts > 0
    BY JobsAssumption
  <1> HIDE DEF after, row, st
  <1>6. after \in [Generations -> JobRow] /\ after[g] = row /\ \A h \in Generations : h # g => after[h] = js[h]
    BY <1>1, <1>2, <1>3
  <1>7. js[g].state = "absent"
    BY <1>1
  <1> HIDE DEF g
  <1>8. Open(after) = {g}
    BY <1>1, <1>2, <1>6 DEF Open
  <1>9. RunningIn(after) = RunningIn(js) /\ Quarantined(after) = Quarantined(js)
    BY <1>1, <1>2, <1>6, <1>7 DEF RunningIn, Quarantined
  <1>10. \A h \in RunningIn(js) \cup Quarantined(js) : h \in Generations /\ h # g
    BY <1>7 DEF RunningIn, Quarantined
  <1>11. RowsFit(st, after)
    <2>1. \A h \in Generations : h >= g + 1 => h # g /\ h >= g
      BY <1>1 DEF Generations
    <2>2. \A h \in Generations : h >= st.next => after[h].state = "absent"
      BY <1>4, <1>6, <2>1 DEF g
    <2>3. \A h \in RunningIn(after) :
             /\ after[h].attempts > 0 /\ after[h].low = st.processed
             /\ st.processed <= after[h].high /\ after[h].high <= st.committed
      BY <1>4, <1>6, <1>9, <1>10
    <2>4. \A h \in Quarantined(after) : after[h].high >= st.processed
      BY <1>4, <1>6, <1>9, <1>10
    <2> QED
      BY <1>2, <1>4, <1>5, <1>6, <1>8, <2>2, <2>3, <2>4 DEF RowsFit
  <1>12. OneOfEach(after)
    BY <1>8, <1>9 DEF OneOfEach
  <1>13. StreamInv(st, after, an)
    BY <1>4, <1>8, <1>11, <1>12 DEF StreamInv
  <1> QED
    BY <1>4, <1>6, <1>9, <1>13 DEF after, st, g

---------------------------------------------------------------------------
\* A step that replaces the rows of one stream.
LEMMA OneStream ==
    ASSUME JobsInv, NEW s \in Streams,
           NEW st \in StreamRow, NEW js \in [Generations -> JobRow], NEW an \in [Ordinals -> Nat],
           StreamInv(st, js, an),
           stream' = [stream EXCEPT ![s] = st], jobs' = [jobs EXCEPT ![s] = js],
           analysed' = [analysed EXCEPT ![s] = an]
    PROVE  JobsInv'
  <1>1. /\ stream' \in [Streams -> StreamRow] /\ jobs' \in [Streams -> [Generations -> JobRow]]
        /\ analysed' \in [Streams -> [Ordinals -> Nat]]
    BY DEF JobsInv
  <1>2. ASSUME NEW u \in Streams PROVE StreamInv(stream'[u], jobs'[u], analysed'[u])
    <2>1. CASE u = s
      <3>1. stream'[u] = st /\ jobs'[u] = js /\ analysed'[u] = an
        BY <2>1 DEF JobsInv
      <3> QED
        BY <3>1
    <2>2. CASE u # s
      <3>1. stream'[u] = stream[u] /\ jobs'[u] = jobs[u] /\ analysed'[u] = analysed[u]
        BY <2>2 DEF JobsInv
      <3>2. StreamInv(stream[u], jobs[u], analysed[u])
        BY DEF JobsInv
      <3> QED
        BY <3>1, <3>2
    <2> QED
      BY <2>1, <2>2
  <1> QED
    BY <1>1, <1>2 DEF JobsInv

\* What the invariant says of one stream.
LEMMA StreamTypes ==
    ASSUME JobsInv, NEW s \in Streams
    PROVE  /\ stream[s] \in StreamRow /\ jobs[s] \in [Generations -> JobRow]
           /\ analysed[s] \in [Ordinals -> Nat] /\ StreamInv(stream[s], jobs[s], analysed[s])
           /\ Running(s) = RunningIn(jobs[s])
           /\ stream = [stream EXCEPT ![s] = stream[s]] /\ analysed = [analysed EXCEPT ![s] = analysed[s]]
  BY DEF JobsInv, Running, RunningIn

\* A quarantine blocks a stream, and nothing else does.
LEMMA BlockedByQuarantine ==
    ASSUME JobsInv, NEW s \in Streams
    PROVE  Blocked(s) <=> Quarantined(jobs[s]) # {}
  BY StreamTypes DEF Blocked, Quarantined, StreamInv, RowsFit

\* An admission widens the open job, inserts one, or finds everything covered.
LEMMA EnqueueKeeps ==
    ASSUME JobsInv, NEW s \in Streams, NEW high \in HighWaters, Enqueue(s, high)
    PROVE  JobsInv'
  <1> DEFINE old == stream[s]
             top == Higher(old.committed, high)
             new == [old EXCEPT !.known = TRUE, !.committed = top]
             uncovered == \A n \in {old.processed} \cup {jobs[s][g].high : g \in Running(s)} : new.committed > n
  <1>1. /\ old \in StreamRow /\ jobs[s] \in [Generations -> JobRow] /\ analysed[s] \in [Ordinals -> Nat]
        /\ StreamInv(old, jobs[s], analysed[s]) /\ Running(s) = RunningIn(jobs[s])
        /\ analysed' = [analysed EXCEPT ![s] = analysed[s]]
    BY StreamTypes DEF Enqueue
  <1>2. old.committed \in Nat /\ high \in Nat /\ top \in HighWaters /\ top \in Nat
        /\ top >= old.committed /\ old.processed \in Nat
    BY <1>1 DEF StreamRow, HighWaters, Higher
  <1> HIDE DEF top
  <1>3. /\ new \in StreamRow /\ new.processed = old.processed /\ new.next = old.next /\ new.committed = top
    BY <1>1, <1>2 DEF StreamRow
  <1>4. \/ \E g \in Open(jobs[s]) :
              /\ jobs' = [jobs EXCEPT ![s][g].high = Higher(@, new.committed)]
              /\ stream' = [stream EXCEPT ![s] = new]
        \/ /\ Open(jobs[s]) = {} /\ (uncovered \/ ~old.known)
           /\ old.next <= MaxJobs
           /\ jobs' = [jobs EXCEPT ![s] = Inserted(@, new)]
           /\ stream' = [stream EXCEPT ![s] = [new EXCEPT !.next = @ + 1]]
        \/ /\ Open(jobs[s]) = {} /\ ~uncovered /\ old.known
           /\ jobs' = jobs
           /\ stream' = [stream EXCEPT ![s] = new]
    BY Zenon DEF Enqueue, top
  <1> HIDE DEF new, old
  <1>5. ASSUME NEW g \in Open(jobs[s]),
               jobs' = [jobs EXCEPT ![s][g].high = Higher(@, new.committed)], stream' = [stream EXCEPT ![s] = new]
        PROVE  JobsInv'
    <2> DEFINE after == [jobs[s] EXCEPT ![g].high = Higher(@, new.committed)]
    <2>1. jobs' = [jobs EXCEPT ![s] = after]
      BY <1>5
    <2>2. after \in [Generations -> JobRow] /\ StreamInv(new, after, analysed[s])
      BY <1>1, <1>2, <1>3, WidenedRows
    <2> HIDE DEF after
    <2> QED
      BY <1>1, <1>3, <1>5, <2>1, <2>2, OneStream
  <1>6. ASSUME Open(jobs[s]) = {}, old.next <= MaxJobs, jobs' = [jobs EXCEPT ![s] = Inserted(@, new)],
               stream' = [stream EXCEPT ![s] = [new EXCEPT !.next = @ + 1]]
        PROVE  JobsInv'
    <2>1. \A h \in RunningIn(jobs[s]) :
             /\ jobs[s][h].attempts > 0 /\ jobs[s][h].low = new.processed
             /\ new.processed <= jobs[s][h].high /\ jobs[s][h].high <= new.committed
      <3>1. \A h \in RunningIn(jobs[s]) :
               jobs[s][h].high \in Nat /\ jobs[s][h].high <= old.committed
        BY <1>1 DEF StreamInv, RowsFit, RunningIn, JobRow, HighWaters
      <3>2. \A h \in RunningIn(jobs[s]) : jobs[s][h].high <= new.committed
        BY <1>2, <1>3, <3>1
      <3> QED
        BY <1>1, <1>3, <3>2 DEF StreamInv, RowsFit
    <2>2. /\ \A h \in Generations : h >= new.next => jobs[s][h].state = "absent"
          /\ \A h \in Quarantined(jobs[s]) : jobs[s][h].high >= new.processed
          /\ \A n \in Ordinals : analysed[s][n] = IF n <= new.processed THEN 1 ELSE 0
          /\ OneOfEach(jobs[s])
      BY <1>1, <1>3 DEF StreamInv, RowsFit
    <2>3. new.processed <= new.committed
      BY <1>1, <1>2, <1>3 DEF StreamInv
    <2>4. /\ Inserted(jobs[s], new) \in [Generations -> JobRow]
          /\ [new EXCEPT !.next = @ + 1] \in StreamRow
          /\ StreamInv([new EXCEPT !.next = @ + 1], Inserted(jobs[s], new), analysed[s])
      BY <1>1, <1>3, <1>6, <2>1, <2>2, <2>3, InsertedRows
    <2>5. jobs' = [jobs EXCEPT ![s] = Inserted(jobs[s], new)]
      BY <1>6
    <2> QED
      BY <1>1, <1>6, <2>4, <2>5, OneStream
  <1>7. ASSUME Open(jobs[s]) = {}, ~uncovered, jobs' = jobs, stream' = [stream EXCEPT ![s] = new]
        PROVE  JobsInv'
    <2>1. PICK n \in {old.processed} \cup {jobs[s][g].high : g \in Running(s)} : ~(top > n)
      BY <1>3, <1>7
    <2>2. n \in Nat /\ n <= old.committed
      BY <1>1, <1>2 DEF StreamInv, RowsFit, RunningIn, JobRow, HighWaters
    <2>3. top = old.committed
      BY <1>2, <2>1, <2>2
    <2>4. StreamInv(new, jobs[s], analysed[s])
      BY <1>1, <1>3, <2>3 DEF StreamInv, RowsFit
    <2>5. jobs' = [jobs EXCEPT ![s] = jobs[s]]
      BY <1>7 DEF JobsInv
    <2> QED
      BY <1>1, <1>3, <1>7, <2>4, <2>5, OneStream
  <1> QED
    BY <1>4, <1>5, <1>6, <1>7

\* A claim takes the open job of a stream where nothing runs and nothing is held.
LEMMA ClaimKeeps ==
    ASSUME JobsInv, NEW s \in Streams, NEW g \in Generations, Claim(s, g)
    PROVE  JobsInv'
  <1> DEFINE row == [jobs[s][g] EXCEPT !.state = "running", !.attempts = jobs[s][g].attempts + 1,
                                       !.leased = TRUE, !.due = TRUE, !.low = stream[s].processed]
             after == [jobs[s] EXCEPT ![g] = row]
  <1>1. g \in Open(jobs[s]) /\ RunningIn(jobs[s]) = {} /\ Quarantined(jobs[s]) = {}
    BY StreamTypes, BlockedByQuarantine DEF Claim, Claimable
  <1>2. jobs' = [jobs EXCEPT ![s] = after]
    <2>1. jobs' = [jobs EXCEPT ![s][g] = row]
      BY Zenon DEF Claim
    <2> HIDE DEF row
    <2> QED
      BY <2>1
  <1>3. after \in [Generations -> JobRow] /\ StreamInv(stream[s], after, analysed[s])
    BY <1>1, StreamTypes, ClaimedRows
  <1>4. stream' = [stream EXCEPT ![s] = stream[s]] /\ analysed' = [analysed EXCEPT ![s] = analysed[s]]
    BY StreamTypes DEF Claim
  <1> HIDE DEF after
  <1> QED
    BY <1>2, <1>3, <1>4, StreamTypes, OneStream

\* A failing attempt runs, so its stream is not held; no other job of the stream fails.
LEMMA FailAttemptsKeeps ==
    ASSUME JobsInv, NEW failing, NEW invalid \in BOOLEAN,
           \A c \in failing : c \in Streams \X Generations /\ c[2] \in Running(c[1]),
           FailAttempts(failing, invalid)
    PROVE  /\ JobsInv'
           /\ \A s \in Streams : Quarantined(jobs[s]) # {} => Quarantined(jobs'[s]) # {}
           /\ UNCHANGED <<stream, analysed>>
  <1> DEFINE rows(s) == {g \in Generations : <<s, g>> \in failing}
             after(s) == IF rows(s) = {} THEN jobs[s] ELSE Failed(jobs[s], CHOOSE g \in rows(s) : TRUE, invalid)
  <1>1. jobs' = [s \in Streams |-> after(s)] /\ UNCHANGED <<stream, analysed>>
    BY DEF FailAttempts
  <1>2. ASSUME NEW s \in Streams
        PROVE  /\ after(s) \in [Generations -> JobRow]
               /\ StreamInv(stream[s], after(s), analysed[s])
               /\ Quarantined(jobs[s]) # {} => after(s) = jobs[s]
    <2>1. CASE rows(s) = {}
      BY <2>1, StreamTypes
    <2>2. CASE rows(s) # {}
      <3>1. PICK g : g = (CHOOSE h \in rows(s) : TRUE)
        OBVIOUS
      <3>2. g \in rows(s)
        BY <2>2, <3>1
      <3>3. g \in Generations /\ <<s, g>> \in failing
        BY <3>2
      <3>4. g \in RunningIn(jobs[s])
        BY <3>3, StreamTypes
      <3>5. after(s) = Failed(jobs[s], g, invalid)
        BY <2>2, <3>1
      <3> HIDE DEF rows, after
      <3>6. Quarantined(jobs[s]) = {}
        BY <3>4, StreamTypes DEF StreamInv, OneOfEach
      <3>7. CASE invalid \/ jobs[s][g].attempts >= MaxAttempts
        <4>1. /\ Failed(jobs[s], g, invalid) \in [Generations -> JobRow]
              /\ StreamInv(stream[s], Failed(jobs[s], g, invalid), analysed[s])
          BY <3>4, <3>7, StreamTypes, QuarantinedRows
        <4> QED
          BY <3>5, <3>6, <4>1
      <3>8. CASE ~(invalid \/ jobs[s][g].attempts >= MaxAttempts)
        <4>1. jobs[s][g].attempts < MaxAttempts
          BY <3>4, <3>8, JobsAssumption, StreamTypes DEF RunningIn, JobRow
        <4>2. invalid = FALSE
          BY <3>8
        <4>3. /\ Failed(jobs[s], g, FALSE) \in [Generations -> JobRow]
              /\ StreamInv(stream[s], Failed(jobs[s], g, FALSE), analysed[s])
          BY <3>4, <4>1, StreamTypes, RetriedRows
        <4> QED
          BY <3>5, <3>6, <4>2, <4>3
      <3> QED
        BY <3>7, <3>8
    <2> QED
      BY <2>1, <2>2
  <1> HIDE DEF after
  <1>3. \A s \in Streams : StreamInv(stream'[s], jobs'[s], analysed'[s])
    <2>1. \A s \in Streams : stream'[s] = stream[s] /\ jobs'[s] = after(s) /\ analysed'[s] = analysed[s]
      BY <1>1
    <2> QED
      BY <1>2, <2>1
  <1>4. JobsInv'
    BY <1>1, <1>2, <1>3 DEF JobsInv
  <1> QED
    BY <1>1, <1>2, <1>4

\* An acknowledgement completes the running job; what is left has an open job.
LEMMA AcknowledgeKeeps ==
    ASSUME JobsInv, NEW s \in Streams, NEW g \in Generations, NEW attempt, NEW upTo \in HighWaters,
           Acknowledge(s, g, attempt, upTo)
    PROVE  JobsInv' /\ Quarantined(jobs'[s]) = {}
  <1> DEFINE job == jobs[s][g]
             old == stream[s]
             new == [old EXCEPT !.processed = upTo]
             done == [jobs[s] EXCEPT ![g].state = "completed", ![g].leased = FALSE]
             an == [n \in Ordinals |-> IF job.low < n /\ n <= upTo THEN analysed[s][n] + 1 ELSE analysed[s][n]]
             left == new.committed > new.processed
  <1>1. /\ old \in StreamRow /\ jobs[s] \in [Generations -> JobRow] /\ analysed[s] \in [Ordinals -> Nat]
        /\ StreamInv(old, jobs[s], analysed[s]) /\ Running(s) = RunningIn(jobs[s])
    BY StreamTypes
  <1>2. g \in RunningIn(jobs[s]) /\ upTo \in job.low..job.high
    BY <1>1 DEF Acknowledge, Owned, RunningIn
  <1>3. /\ job \in JobRow /\ job.low = old.processed /\ job.high <= old.committed
        /\ job.low \in Nat /\ job.high \in Nat /\ old.committed \in Nat /\ upTo \in Nat
        /\ old.processed <= upTo /\ upTo <= old.committed
    BY <1>1, <1>2 DEF StreamInv, RowsFit, JobRow, StreamRow, HighWaters
  <1>4. /\ new \in StreamRow /\ new.processed = upTo /\ new.committed = old.committed /\ new.next = old.next
    BY <1>1 DEF StreamRow
  <1>5. analysed' = [analysed EXCEPT ![s] = an]
    BY DEF Acknowledge
  <1>6. \/ ~left /\ jobs' = [jobs EXCEPT ![s] = done] /\ stream' = [stream EXCEPT ![s] = new]
        \/ /\ \E o \in Open(done) :
                jobs' = [jobs EXCEPT ![s] = [done EXCEPT ![o].high = Higher(@, new.committed),
                                                         ![o].low = new.processed]]
           /\ stream' = [stream EXCEPT ![s] = new]
        \/ /\ Open(done) = {} /\ new.next <= MaxJobs
           /\ jobs' = [jobs EXCEPT ![s] = Inserted(done, new)]
           /\ stream' = [stream EXCEPT ![s] = [new EXCEPT !.next = @ + 1]]
    BY Zenon DEF Acknowledge
  <1>7. /\ an \in [Ordinals -> Nat]
        /\ \A n \in Ordinals : an[n] = IF n <= new.processed THEN 1 ELSE 0
    <2>1. \A n \in Ordinals : n \in Nat /\ analysed[s][n] = IF n <= job.low THEN 1 ELSE 0
      BY <1>1, <1>3 DEF StreamInv, Ordinals
    <2>2. ASSUME NEW n \in Ordinals PROVE an[n] = IF n <= upTo THEN 1 ELSE 0
      BY <1>3, <2>1
    <2> QED
      BY <1>1, <1>4, <2>2
  <1>8. /\ done \in [Generations -> JobRow]
        /\ done[g].state = "completed" /\ \A h \in Generations : h # g => done[h] = jobs[s][h]
    BY <1>1, <1>2, <1>3 DEF JobRow, RunningIn
  <1> HIDE DEF job, an, new, done, old
  <1>9. Open(done) = Open(jobs[s]) /\ RunningIn(done) = {} /\ Quarantined(done) = {}
    <2>1. g \in Generations /\ jobs[s][g].state = "running"
      BY <1>2 DEF RunningIn
    <2>2. Quarantined(jobs[s]) = {} /\ \A h \in RunningIn(jobs[s]) : h = g
      BY <1>1, <1>2 DEF StreamInv, OneOfEach
    <2> QED
      BY <1>8, <2>1, <2>2 DEF Open, RunningIn, Quarantined
  <1>10. \A h \in Generations : h >= new.next => done[h].state = "absent"
    BY <1>1, <1>2, <1>4, <1>8 DEF StreamInv, RowsFit, RunningIn
  <1>11. \A h \in Open(done) : h # g /\ done[h] = jobs[s][h] /\ done[h].attempts < MaxAttempts
                              /\ done[h].high = new.committed
    BY <1>1, <1>4, <1>8, <1>9 DEF StreamInv, RowsFit, Open
  <1>12. OneOfEach(done)
    BY <1>1, <1>9 DEF StreamInv, OneOfEach
  <1>13. RowsFit(new, done) /\ new.processed <= new.committed
    BY <1>3, <1>4, <1>9, <1>10, <1>11 DEF RowsFit
  <1>14. \A js : jobs' = [jobs EXCEPT ![s] = js] => jobs'[s] = js
    BY DEF JobsInv
  <1>15. CASE ~left /\ jobs' = [jobs EXCEPT ![s] = done] /\ stream' = [stream EXCEPT ![s] = new]
    <2>1. StreamInv(new, done, an)
      BY <1>7, <1>12, <1>13, <1>15 DEF StreamInv
    <2>2. JobsInv'
      BY <1>4, <1>5, <1>7, <1>8, <1>15, <2>1, OneStream
    <2> QED
      BY <1>9, <1>15, <1>14, <2>2
  <1>16. ASSUME NEW o \in Open(done), stream' = [stream EXCEPT ![s] = new],
                jobs' = [jobs EXCEPT ![s] = [done EXCEPT ![o].high = Higher(@, new.committed),
                                                         ![o].low = new.processed]]
         PROVE  JobsInv' /\ Quarantined(jobs'[s]) = {}
    <2> DEFINE after == [done EXCEPT ![o].high = Higher(@, new.committed), ![o].low = new.processed]
    <2>1. o \in Generations /\ done[o] \in JobRow /\ done[o].high = new.committed
          /\ new.committed \in HighWaters /\ new.committed \in Nat /\ new.processed \in HighWaters
      BY <1>3, <1>4, <1>8, <1>11 DEF Open, StreamRow
    <2>2. Higher(done[o].high, new.committed) = new.committed
      BY <2>1 DEF Higher
    <2>3. after = [done EXCEPT ![o] = [done[o] EXCEPT !.high = new.committed, !.low = new.processed]]
      BY <1>8, <2>1, <2>2
    <2> HIDE DEF after
    <2>4. /\ after \in [Generations -> JobRow] /\ after[o].state = done[o].state /\ after[o].high = new.committed
          /\ after[o].attempts = done[o].attempts /\ \A h \in Generations : h # o => after[h] = done[h]
      BY <1>8, <2>1, <2>3 DEF JobRow
    <2>5. Open(after) = Open(done) /\ RunningIn(after) = {} /\ Quarantined(after) = {}
      BY <1>9, <2>4 DEF Open, RunningIn, Quarantined
    <2>6. RowsFit(new, after)
      <3>1. \A h \in Open(after) : h = o
        BY <1>12, <2>5 DEF OneOfEach
      <3> QED
        BY <1>10, <1>11, <2>4, <2>5, <3>1 DEF RowsFit
    <2>7. OneOfEach(after)
      BY <1>12, <2>5 DEF OneOfEach
    <2>8. StreamInv(new, after, an)
      BY <1>7, <1>13, <2>5, <2>6, <2>7 DEF StreamInv
    <2>9. jobs' = [jobs EXCEPT ![s] = after]
      BY <1>16 DEF after
    <2>10. JobsInv'
      BY <1>4, <1>5, <1>7, <1>16, <2>4, <2>8, <2>9, OneStream
    <2> QED
      BY <1>14, <2>5, <2>9, <2>10
  <1>17. CASE /\ Open(done) = {} /\ new.next <= MaxJobs /\ jobs' = [jobs EXCEPT ![s] = Inserted(done, new)]
              /\ stream' = [stream EXCEPT ![s] = [new EXCEPT !.next = @ + 1]]
    <2>1. /\ Inserted(done, new) \in [Generations -> JobRow]
          /\ [new EXCEPT !.next = @ + 1] \in StreamRow
          /\ StreamInv([new EXCEPT !.next = @ + 1], Inserted(done, new), an)
          /\ Quarantined(Inserted(done, new)) = Quarantined(done)
      BY <1>4, <1>7, <1>8, <1>9, <1>10, <1>12, <1>13, <1>17, InsertedRows
    <2>2. JobsInv'
      BY <1>5, <1>7, <1>17, <2>1, OneStream
    <2> QED
      BY <1>9, <1>17, <1>14, <2>1, <2>2
  <1> QED
    BY <1>6, <1>15, <1>16, <1>17

\* The clocks: neither a lease nor a back-off is part of the invariant.
LEMMA ClockKeeps ==
    ASSUME JobsInv, NEW s \in Streams, NEW g \in Generations,
           JobLeaseLapses(s, g) \/ BackoffElapses(s, g)
    PROVE  JobsInv' /\ Quarantined(jobs'[s]) = Quarantined(jobs[s])
  <1>1. PICK row \in JobRow :
          /\ row.state = jobs[s][g].state /\ row.low = jobs[s][g].low /\ row.high = jobs[s][g].high
          /\ row.attempts = jobs[s][g].attempts
          /\ jobs' = [jobs EXCEPT ![s] = [jobs[s] EXCEPT ![g] = row]]
    <2>1. jobs[s][g] \in JobRow
      BY StreamTypes
    <2>2. CASE JobLeaseLapses(s, g)
      <3>1. [jobs[s][g] EXCEPT !.leased = FALSE] \in JobRow
        BY <2>1 DEF JobRow
      <3>2. jobs' = [jobs EXCEPT ![s] = [jobs[s] EXCEPT ![g] = [jobs[s][g] EXCEPT !.leased = FALSE]]]
        BY <2>2 DEF JobLeaseLapses
      <3> QED
        BY <2>1, <3>1, <3>2 DEF JobRow
    <2>3. CASE BackoffElapses(s, g)
      <3>1. [jobs[s][g] EXCEPT !.due = TRUE] \in JobRow
        BY <2>1 DEF JobRow
      <3>2. jobs' = [jobs EXCEPT ![s] = [jobs[s] EXCEPT ![g] = [jobs[s][g] EXCEPT !.due = TRUE]]]
        BY <2>3 DEF BackoffElapses
      <3> QED
        BY <2>1, <3>1, <3>2 DEF JobRow
    <2> QED
      BY <2>2, <2>3
  <1> DEFINE after == [jobs[s] EXCEPT ![g] = row]
  <1>2. /\ after \in [Generations -> JobRow]
        /\ \A h \in Generations : /\ after[h].state = jobs[s][h].state /\ after[h].low = jobs[s][h].low
                                  /\ after[h].high = jobs[s][h].high /\ after[h].attempts = jobs[s][h].attempts
    BY <1>1, StreamTypes
  <1>3. jobs' = [jobs EXCEPT ![s] = after]
    BY <1>1
  <1> HIDE DEF after
  <1>4. Open(after) = Open(jobs[s]) /\ RunningIn(after) = RunningIn(jobs[s])
        /\ Quarantined(after) = Quarantined(jobs[s])
    BY <1>2 DEF Open, RunningIn, Quarantined
  <1>5. RowsFit(stream[s], jobs[s]) /\ OneOfEach(jobs[s])
    BY StreamTypes DEF StreamInv
  <1>6. RowsFit(stream[s], after)
    <2>1. \A h \in Open(after) \cup RunningIn(after) \cup Quarantined(after) : h \in Generations
      BY DEF Open, RunningIn, Quarantined
    <2> QED
      BY <1>2, <1>4, <1>5, <2>1 DEF RowsFit
  <1>7. OneOfEach(after)
    BY <1>4, <1>5 DEF OneOfEach
  <1>8. StreamInv(stream[s], after, analysed[s])
    BY <1>4, <1>6, <1>7, StreamTypes DEF StreamInv
  <1>9. stream' = [stream EXCEPT ![s] = stream[s]] /\ analysed' = [analysed EXCEPT ![s] = analysed[s]]
    BY StreamTypes DEF JobLeaseLapses, BackoffElapses
  <1>10. JobsInv'
    BY <1>2, <1>3, <1>8, <1>9, StreamTypes, OneStream
  <1>11. jobs'[s] = after
    BY <1>3 DEF JobsInv
  <1> QED
    BY <1>4, <1>10, <1>11

---------------------------------------------------------------------------
\* The jobs that a recovery or a report of failure gives up on are running.
LEMMA FailingRuns ==
    /\ \A s \in Streams, g \in Generations, attempt \in 1..MaxAttempts, invalid \in BOOLEAN :
          Retry(s, g, attempt, invalid) =>
             g \in Running(s) /\ FailAttempts({<<s, g>>}, invalid)
    /\ \A s \in Streams, g \in Generations, attempt \in 1..MaxAttempts :
          RecoverExpiredAttempt(s, g, attempt) =>
             g \in Running(s) /\ FailAttempts({<<s, g>>}, FALSE)
    /\ RecoverExpiredJobs => FailAttempts(AllExpired, FALSE)
    /\ \A c \in AllExpired : c \in Streams \X Generations /\ c[2] \in Running(c[1])
  BY DEF Retry, Owned, RecoverExpiredAttempt, ExpiredAttempt, Expired, RecoverExpiredJobs, AllExpired, Running

\* A transaction that gives up on running jobs.
FailureStep ==
    \E failing \in SUBSET (Streams \X Generations), invalid \in BOOLEAN :
        /\ \A c \in failing : c[2] \in Running(c[1])
        /\ FailAttempts(failing, invalid)

\* The transactions of the queue, failures taken together.
LEMMA JobsSteps ==
    ASSUME JobsNext
    PROVE  \/ \E s \in Streams, high \in HighWaters : Enqueue(s, high)
           \/ \E s \in Streams, g \in Generations : Claim(s, g)
           \/ \E s \in Streams, g \in Generations : JobLeaseLapses(s, g) \/ BackoffElapses(s, g)
           \/ FailureStep
           \/ \E s \in Streams, g \in Generations, attempt \in 1..MaxAttempts, upTo \in HighWaters :
                 Acknowledge(s, g, attempt, upTo)
  <1>1. ASSUME NEW s \in Streams, NEW g \in Generations, NEW invalid \in BOOLEAN,
               g \in Running(s), FailAttempts({<<s, g>>}, invalid)
        PROVE  FailureStep
    <2>1. {<<s, g>>} \in SUBSET (Streams \X Generations) /\ \A c \in {<<s, g>>} : c[2] \in Running(c[1])
      BY <1>1
    <2> QED
      BY <1>1, <2>1 DEF FailureStep
  <1>2. ASSUME RecoverExpiredJobs PROVE FailureStep
    <2>1. AllExpired \in SUBSET (Streams \X Generations)
      BY DEF AllExpired
    <2> QED
      BY <1>2, <2>1, FailingRuns DEF FailureStep
  <1> QED
    BY <1>1, <1>2, FailingRuns DEF JobsNext

\* Every transaction and every clock keeps the invariant.
LEMMA JobsInvStep == ASSUME JobsInv, [JobsNext]_jobVars PROVE JobsInv'
  <1>1. ASSUME NEW s \in Streams, NEW high \in HighWaters, Enqueue(s, high) PROVE JobsInv'
    BY <1>1, EnqueueKeeps
  <1>2. ASSUME NEW s \in Streams, NEW g \in Generations, Claim(s, g) PROVE JobsInv'
    BY <1>2, ClaimKeeps
  <1>3. ASSUME NEW s \in Streams, NEW g \in Generations, JobLeaseLapses(s, g) \/ BackoffElapses(s, g)
        PROVE  JobsInv'
    BY <1>3, ClockKeeps
  <1>4. ASSUME FailureStep PROVE JobsInv'
    BY <1>4, FailAttemptsKeeps DEF FailureStep
  <1>5. ASSUME NEW s \in Streams, NEW g \in Generations, NEW attempt \in 1..MaxAttempts, NEW upTo \in HighWaters,
               Acknowledge(s, g, attempt, upTo)
        PROVE  JobsInv'
    BY <1>5, AcknowledgeKeeps
  <1>6. ASSUME UNCHANGED jobVars PROVE JobsInv'
    BY <1>6 DEF jobVars, JobsInv
  <1> QED
    BY <1>1, <1>2, <1>3, <1>4, <1>5, <1>6, JobsSteps

\* The empty tables satisfy it.
LEMMA JobsInvInit == JobsInit => JobsInv
  <1> SUFFICES ASSUME JobsInit PROVE JobsInv
    OBVIOUS
  <1>1. [known |-> FALSE, committed |-> 0, processed |-> 0, next |-> 1] \in StreamRow
    BY JobsAssumption DEF StreamRow, HighWaters
  <1>2. /\ stream \in [Streams -> StreamRow] /\ jobs \in [Streams -> [Generations -> JobRow]]
        /\ analysed \in [Streams -> [Ordinals -> Nat]]
    BY <1>1, NoJobType DEF JobsInit
  <1>3. ASSUME NEW s \in Streams PROVE StreamInv(stream[s], jobs[s], analysed[s])
    <2>1. \A g \in Generations : jobs[s][g].state = "absent"
      BY DEF JobsInit, NoJob
    <2>2. Open(jobs[s]) = {} /\ RunningIn(jobs[s]) = {} /\ Quarantined(jobs[s]) = {}
      BY <2>1 DEF Open, RunningIn, Quarantined
    <2>3. stream[s].committed = 0 /\ stream[s].processed = 0
      BY DEF JobsInit
    <2>4. \A n \in Ordinals : analysed[s][n] = 0 /\ ~(n <= 0)
      BY DEF JobsInit, Ordinals
    <2> QED
      BY <2>1, <2>2, <2>3, <2>4 DEF StreamInv, RowsFit, OneOfEach
  <1> QED
    BY <1>2, <1>3 DEF JobsInv

\* The invariant holds of every stream, for any lengths, budgets and clocks.
THEOREM JobsInvariant == JobsSpec => []JobsInv
  <1> QED
    BY JobsInvInit, JobsInvStep, PTL DEF JobsSpec

---------------------------------------------------------------------------
\* The results of each ordinal a stream has passed are stored exactly once, and
\* none of what it has not passed, whatever is claimed, lost, retried or merged.
THEOREM AnalysisIsExact == JobsSpec => []AnalysedOnce
  <1>1. JobsInv => AnalysedOnce
    BY DEF JobsInv, StreamInv, AnalysedOnce
  <1> QED
    BY <1>1, JobsInvariant, PTL

\* Unless a quarantine holds the stream, a job reaches whatever was admitted.
THEOREM NothingIsForgotten == JobsSpec => []NothingForgotten
  <1>1. ASSUME JobsInv, NEW s \in Streams, stream[s].committed > stream[s].processed, ~Blocked(s)
        PROVE  \E g \in Open(jobs[s]) \cup Running(s) : jobs[s][g].high = stream[s].committed
    <2>1. Open(jobs[s]) \cup Running(s) # {} /\ RowsFit(stream[s], jobs[s]) /\ Running(s) = RunningIn(jobs[s])
      BY <1>1, StreamTypes, BlockedByQuarantine DEF StreamInv
    <2> QED
      BY <2>1 DEF RowsFit
  <1>2. JobsInv => NothingForgotten
    BY <1>1 DEF NothingForgotten
  <1> QED
    BY <1>2, JobsInvariant, PTL

\* No transaction fails on the two unique indexes of the table of jobs.
THEOREM IndexesAreNeverHit == JobsSpec => []IndexesHold
  <1>1. ASSUME NEW S, \A g, h \in S : g = h PROVE Cardinality(S) <= 1
    <2>1. CASE S = {}
      BY <2>1, FS_EmptySet
    <2>2. CASE S # {}
      <3>1. PICK g \in S : S = {g}
        BY <1>1, <2>2
      <3> QED
        BY <3>1, FS_Singleton
    <2> QED
      BY <2>1, <2>2
  <1>2. ASSUME JobsInv, NEW s \in Streams PROVE Cardinality(Open(jobs[s])) <= 1 /\ Cardinality(Running(s)) <= 1
    <2>1. (\A g, h \in Open(jobs[s]) : g = h) /\ (\A g, h \in Running(s) : g = h)
      <3>1. OneOfEach(jobs[s]) /\ Running(s) = RunningIn(jobs[s])
        BY <1>2, StreamTypes DEF StreamInv
      <3> QED
        BY <3>1 DEF OneOfEach
    <2> QED
      BY <1>1, <2>1
  <1>3. JobsInv => IndexesHold
    BY <1>2 DEF IndexesHold
  <1> QED
    BY <1>3, JobsInvariant, PTL

---------------------------------------------------------------------------
\* The high-waters of a stream that only admits more is a step of the promise.
LEMMA AdmitStep ==
    ASSUME JobsInv, NEW s \in Streams, NEW st \in StreamRow, stream' = [stream EXCEPT ![s] = st],
           st.committed >= stream[s].committed, st.processed = stream[s].processed,
           \A u \in Streams : Quarantined(jobs'[u]) = Quarantined(jobs[u])
    PROVE  [Promise!Next]_(Promise!vars)
  <1> DEFINE admitted == [u \in Streams |-> stream[u].committed]
             passed == [u \in Streams |-> stream[u].processed]
             held == [u \in Streams |-> \E g \in Generations : jobs[u][g].state = "quarantined"]
  <1>1. stream \in [Streams -> StreamRow]
    BY DEF JobsInv
  <1>2. stream'[s] = st /\ \A u \in Streams : u # s => stream'[u] = stream[u]
    BY <1>1
  <1>3. passed' = passed
    BY <1>2
  <1>4. held' = held
    <2>1. \A u \in Streams : (\E g \in Generations : jobs'[u][g].state = "quarantined")
                         <=> (\E g \in Generations : jobs[u][g].state = "quarantined")
      BY DEF Quarantined
    <2> QED
      BY <2>1
  <1>5. CASE st.committed = stream[s].committed
    <2>1. admitted' = admitted
      BY <1>2, <1>5
    <2> QED
      BY <1>3, <1>4, <2>1 DEF Promise!vars
  <1>6. CASE st.committed # stream[s].committed
    <2>1. st.committed > stream[s].committed
      BY <1>1, <1>6 DEF StreamRow, HighWaters
    <2>2. admitted'[s] > admitted[s]
      BY <1>2, <2>1
    <2>3. admitted' = [admitted EXCEPT ![s] = admitted'[s]]
      <3>1. admitted' = [u \in Streams |-> stream'[u].committed]
        OBVIOUS
      <3>2. \A u \in Streams : u # s => admitted'[u] = admitted[u]
        BY <1>2, <3>1
      <3> HIDE DEF admitted
      <3>3. admitted = [u \in Streams |-> admitted[u]]
        BY DEF admitted
      <3>4. admitted' = [u \in Streams |-> admitted'[u]]
        BY <3>1
      <3> QED
        BY <3>2, <3>3, <3>4
    <2>4. Promise!Admit(s)
      BY <1>3, <1>4, <2>2, <2>3 DEF Promise!Admit
    <2> QED
      BY <2>4 DEF Promise!Next
  <1> QED
    BY <1>5, <1>6

\* A stream without quarantine that stores what was admitted is a step of the promise.
LEMMA AnalyseStep ==
    ASSUME JobsInv, NEW s \in Streams, NEW st \in StreamRow, stream' = [stream EXCEPT ![s] = st],
           st.committed = stream[s].committed, st.processed >= stream[s].processed,
           st.processed <= stream[s].committed, Quarantined(jobs[s]) = {},
           \A u \in Streams : Quarantined(jobs'[u]) = Quarantined(jobs[u])
    PROVE  [Promise!Next]_(Promise!vars)
  <1> DEFINE admitted == [u \in Streams |-> stream[u].committed]
             passed == [u \in Streams |-> stream[u].processed]
             held == [u \in Streams |-> \E g \in Generations : jobs[u][g].state = "quarantined"]
  <1>1. stream \in [Streams -> StreamRow]
    BY DEF JobsInv
  <1>2. stream'[s] = st /\ \A u \in Streams : u # s => stream'[u] = stream[u]
    BY <1>1
  <1>3. admitted' = admitted
    BY <1>2
  <1>4. held' = held /\ ~held[s]
    <2>1. \A u \in Streams : (\E g \in Generations : jobs'[u][g].state = "quarantined")
                         <=> (\E g \in Generations : jobs[u][g].state = "quarantined")
      BY DEF Quarantined
    <2> QED
      BY <2>1 DEF Quarantined
  <1>5. CASE st.processed = stream[s].processed
    <2>1. passed' = passed
      BY <1>2, <1>5
    <2> QED
      BY <1>3, <1>4, <2>1 DEF Promise!vars
  <1>6. CASE st.processed # stream[s].processed
    <2>1. st.processed > stream[s].processed
      BY <1>1, <1>6 DEF StreamRow, HighWaters
    <2>2. passed'[s] > passed[s] /\ passed'[s] <= admitted[s]
      BY <1>2, <2>1
    <2>3. passed' = [passed EXCEPT ![s] = passed'[s]]
      <3>1. passed' = [u \in Streams |-> stream'[u].processed]
        OBVIOUS
      <3>2. \A u \in Streams : u # s => passed'[u] = passed[u]
        BY <1>2, <3>1
      <3> HIDE DEF passed
      <3>3. passed = [u \in Streams |-> passed[u]]
        BY DEF passed
      <3>4. passed' = [u \in Streams |-> passed'[u]]
        BY <3>1
      <3> QED
        BY <3>2, <3>3, <3>4
    <2>4. Promise!Analyse(s)
      BY <1>3, <1>4, <2>2, <2>3 DEF Promise!Analyse
    <2> QED
      BY <2>4 DEF Promise!Next
  <1> QED
    BY <1>5, <1>6

\* What a transaction on one stream leaves in quarantine there.
LEMMA OtherStreamsQuarantine ==
    ASSUME JobsInv, NEW s \in Streams, NEW js \in [Generations -> JobRow], jobs' = [jobs EXCEPT ![s] = js],
           Quarantined(js) = Quarantined(jobs[s])
    PROVE  \A u \in Streams : Quarantined(jobs'[u]) = Quarantined(jobs[u])
  BY DEF JobsInv

\* Admission only moves the committed high-water of its stream.
LEMMA EnqueuePromised ==
    ASSUME JobsInv, NEW s \in Streams, NEW high \in HighWaters, Enqueue(s, high)
    PROVE  [Promise!Next]_(Promise!vars)
  <1> DEFINE top == Higher(stream[s].committed, high)
             new == [stream[s] EXCEPT !.known = TRUE, !.committed = top]
  <1>1. /\ stream[s] \in StreamRow /\ jobs[s] \in [Generations -> JobRow] /\ NoJob \in JobRow
        /\ StreamInv(stream[s], jobs[s], analysed[s])
    BY StreamTypes, NoJobType
  <1>2. /\ stream[s].committed \in Nat /\ top \in HighWaters /\ top >= stream[s].committed
        /\ stream[s].next \in Nat /\ MaxJobs \in Nat /\ stream[s].next > 0
    BY <1>1, JobsAssumption DEF StreamRow, HighWaters, Higher
  <1>3. \/ \E g \in Open(jobs[s]) :
              /\ jobs' = [jobs EXCEPT ![s][g].high = Higher(@, new.committed)]
              /\ stream' = [stream EXCEPT ![s] = new]
        \/ /\ stream[s].next <= MaxJobs
           /\ jobs' = [jobs EXCEPT ![s] = Inserted(@, new)]
           /\ stream' = [stream EXCEPT ![s] = [new EXCEPT !.next = @ + 1]]
        \/ jobs' = jobs /\ stream' = [stream EXCEPT ![s] = new]
    BY Zenon DEF Enqueue
  <1> HIDE DEF top
  <1>4. new \in StreamRow /\ new.committed = top /\ new.processed = stream[s].processed /\ new.next = stream[s].next
    BY <1>1, <1>2 DEF StreamRow
  <1> HIDE DEF new
  <1>5. ASSUME NEW g \in Open(jobs[s]), jobs' = [jobs EXCEPT ![s][g].high = Higher(@, new.committed)],
               stream' = [stream EXCEPT ![s] = new]
        PROVE  [Promise!Next]_(Promise!vars)
    <2> DEFINE js == [jobs[s] EXCEPT ![g].high = Higher(@, new.committed)]
    <2>1. jobs' = [jobs EXCEPT ![s] = js]
      BY <1>5
    <2>2. js \in [Generations -> JobRow]
      <3>1. g \in Generations /\ jobs[s][g] \in JobRow /\ jobs[s][g].high \in HighWaters
        BY <1>1 DEF Open, JobRow
      <3>2. Higher(jobs[s][g].high, new.committed) \in HighWaters
        BY <1>2, <1>4, <3>1 DEF Higher
      <3> QED
        BY <1>1, <3>1, <3>2 DEF JobRow
    <2>3. \A h \in Generations : js[h].state = jobs[s][h].state
      BY <1>1 DEF JobRow, Open
    <2> HIDE DEF js
    <2>4. Quarantined(js) = Quarantined(jobs[s])
      BY <2>3 DEF Quarantined
    <2> QED
      BY <1>2, <1>4, <1>5, <2>1, <2>2, <2>4, OtherStreamsQuarantine, AdmitStep
  <1>6. ASSUME stream[s].next <= MaxJobs, jobs' = [jobs EXCEPT ![s] = Inserted(@, new)],
               stream' = [stream EXCEPT ![s] = [new EXCEPT !.next = @ + 1]]
        PROVE  [Promise!Next]_(Promise!vars)
    <2> DEFINE js == Inserted(jobs[s], new)
               n == new.next + 1
               st == [new EXCEPT !.next = n]
    <2>1. jobs' = [jobs EXCEPT ![s] = js] /\ stream' = [stream EXCEPT ![s] = st]
      BY <1>6
    <2>2. new.next \in Generations /\ n \in 1..(MaxJobs + 1)
      BY <1>2, <1>4, <1>6 DEF Generations
    <2>3. jobs[s][new.next].state = "absent"
      BY <1>1, <1>4, <2>2 DEF StreamInv, RowsFit, Generations
    <2>4. js \in [Generations -> JobRow] /\ js[new.next].state = "pending"
          /\ \A h \in Generations : h # new.next => js[h] = jobs[s][h]
      <3> DEFINE row == [NoJob EXCEPT !.state = "pending", !.low = new.processed, !.high = new.committed]
      <3>1. row \in JobRow /\ row.state = "pending"
        BY <1>1, <1>4 DEF NoJob, JobRow, StreamRow
      <3>2. js = [jobs[s] EXCEPT ![new.next] = row]
        BY DEF Inserted
      <3> HIDE DEF row, js
      <3> QED
        BY <1>1, <2>2, <3>1, <3>2
    <2> HIDE DEF js, n
    <2>5. st \in StreamRow /\ st.committed = new.committed /\ st.processed = new.processed
      BY <1>4, <2>2 DEF StreamRow
    <2> HIDE DEF st
    <2>6. Quarantined(js) = Quarantined(jobs[s])
      BY <2>3, <2>4 DEF Quarantined
    <2> QED
      BY <1>2, <1>4, <2>1, <2>4, <2>5, <2>6, OtherStreamsQuarantine, AdmitStep
  <1>7. ASSUME jobs' = jobs, stream' = [stream EXCEPT ![s] = new] PROVE [Promise!Next]_(Promise!vars)
    BY <1>2, <1>4, <1>7, AdmitStep
  <1> QED
    BY <1>3, <1>5, <1>6, <1>7

\* An acknowledgement only moves the processed high-water of its stream.
LEMMA AcknowledgePromised ==
    ASSUME JobsInv, NEW s \in Streams, NEW g \in Generations, NEW attempt, NEW upTo \in HighWaters,
           Acknowledge(s, g, attempt, upTo)
    PROVE  [Promise!Next]_(Promise!vars)
  <1>1. /\ stream[s] \in StreamRow /\ jobs[s] \in [Generations -> JobRow]
        /\ StreamInv(stream[s], jobs[s], analysed[s]) /\ g \in RunningIn(jobs[s])
    BY StreamTypes DEF Acknowledge, Owned, RunningIn
  <1>2. upTo \in jobs[s][g].low..jobs[s][g].high
    BY DEF Acknowledge
  <1>3. stream[s].processed <= upTo /\ upTo <= stream[s].committed
    BY <1>1, <1>2 DEF StreamInv, RowsFit, RunningIn, JobRow, StreamRow, HighWaters
  <1>4. Quarantined(jobs[s]) = {}
    BY <1>1 DEF StreamInv, OneOfEach
  <1>5. PICK st \in StreamRow :
          stream' = [stream EXCEPT ![s] = st] /\ st.processed = upTo /\ st.committed = stream[s].committed
    <2> DEFINE new == [stream[s] EXCEPT !.processed = upTo]
               further == [new EXCEPT !.next = @ + 1]
    <2>1. stream' = [stream EXCEPT ![s] = new] \/ (new.next <= MaxJobs /\ stream' = [stream EXCEPT ![s] = further])
      BY Zenon DEF Acknowledge
    <2>2. new \in StreamRow /\ new.processed = upTo /\ new.committed = stream[s].committed
      BY <1>1 DEF StreamRow
    <2> HIDE DEF new
    <2>3. new.next <= MaxJobs => new.next + 1 \in 1..(MaxJobs + 1)
      BY <2>2, JobsAssumption DEF StreamRow
    <2>4. new.next <= MaxJobs =>
            further \in StreamRow /\ further.processed = new.processed /\ further.committed = new.committed
      BY <2>2, <2>3 DEF StreamRow
    <2> QED
      BY <2>1, <2>2, <2>4
  <1>6. \A u \in Streams : u # s => jobs'[u] = jobs[u]
    BY DEF Acknowledge, JobsInv
  <1>7. \A u \in Streams : Quarantined(jobs'[u]) = Quarantined(jobs[u])
    BY <1>4, <1>6, AcknowledgeKeeps
  <1> QED
    BY <1>3, <1>4, <1>5, <1>7, AnalyseStep

\* Every transaction is a step of the promise or none.
LEMMA PromiseStep == ASSUME JobsInv, [JobsNext]_jobVars PROVE [Promise!Next]_(Promise!vars)
  <1>1. ASSUME NEW s \in Streams, NEW high \in HighWaters, Enqueue(s, high) PROVE [Promise!Next]_(Promise!vars)
    BY <1>1, EnqueuePromised
  <1>2. ASSUME NEW s \in Streams, NEW g \in Generations, NEW attempt \in 1..MaxAttempts, NEW upTo \in HighWaters,
               Acknowledge(s, g, attempt, upTo)
        PROVE  [Promise!Next]_(Promise!vars)
    BY <1>2, AcknowledgePromised
  <1>3. ASSUME UNCHANGED stream, \A u \in Streams : Quarantined(jobs[u]) # {} => Quarantined(jobs'[u]) # {}
        PROVE  [Promise!Next]_(Promise!vars)
    <2>1. Promise!Hold
      BY <1>3 DEF Promise!Hold, Quarantined
    <2> QED
      BY <2>1 DEF Promise!Next
  <1>4. ASSUME NEW s \in Streams, NEW g \in Generations, Claim(s, g)
        PROVE  UNCHANGED stream /\ \A u \in Streams : Quarantined(jobs[u]) # {} => Quarantined(jobs'[u]) # {}
    <2>1. Quarantined(jobs[s]) = {}
      BY <1>4, BlockedByQuarantine DEF Claim, Claimable
    <2>2. \A u \in Streams : u # s => jobs'[u] = jobs[u]
      BY <1>4 DEF Claim, JobsInv
    <2> QED
      BY <1>4, <2>1, <2>2 DEF Claim
  <1>5. ASSUME NEW s \in Streams, NEW g \in Generations, JobLeaseLapses(s, g) \/ BackoffElapses(s, g)
        PROVE  UNCHANGED stream /\ \A u \in Streams : Quarantined(jobs[u]) # {} => Quarantined(jobs'[u]) # {}
    <2>1. Quarantined(jobs'[s]) = Quarantined(jobs[s])
      BY <1>5, ClockKeeps
    <2>2. \A u \in Streams : u # s => jobs'[u] = jobs[u]
      BY <1>5 DEF JobLeaseLapses, BackoffElapses, JobsInv
    <2> QED
      BY <1>5, <2>1, <2>2 DEF JobLeaseLapses, BackoffElapses
  <1>6. ASSUME FailureStep
        PROVE  UNCHANGED stream /\ \A u \in Streams : Quarantined(jobs[u]) # {} => Quarantined(jobs'[u]) # {}
    BY <1>6, FailAttemptsKeeps DEF FailureStep
  <1>7. ASSUME UNCHANGED jobVars
        PROVE  UNCHANGED stream /\ \A u \in Streams : Quarantined(jobs[u]) # {} => Quarantined(jobs'[u]) # {}
    BY <1>7 DEF jobVars
  <1> QED
    BY <1>1, <1>2, <1>3, <1>4, <1>5, <1>6, <1>7, JobsSteps

\* The queue, with its leases, retries and merged ranges, implements StreamProgress.
THEOREM QueueKeepsPromise == JobsSpec => ImplementsProgress
  <1>1. JobsInit => Promise!Init
    BY DEF JobsInit, Promise!Init, NoJob
  <1> QED
    BY <1>1, JobsInvariant, PromiseStep, PTL DEF JobsSpec, ImplementsProgress, Promise!Progress

--------------------------------------------------------------------------------
(* The processes. *)

Claims == Streams \X Generations
Leases == [owner : Coordinators \cup {None}, live : BOOLEAN]
SlotRows == [held : BOOLEAN, live : BOOLEAN, job : Claims \cup {None}]
CoordinatorRows ==
    [pc : {"none", "launched", "renew", "recover", "count", "spawn", "idle", "exit"},
     budget : 0..MaxProcesses, quiet : BOOLEAN]
ChildRows ==
    [pc : {"none", "spawned", "started", "working", "late", "exited"},
     by : Coordinators \cup {None}, job : Claims \cup {None}, attempt : Nat]

\* The types of the tables and of the processes' variables.
RowTypes ==
    /\ lease \in Leases /\ slots \in [Slots -> SlotRows]
    /\ coordinator \in [Coordinators -> CoordinatorRows] /\ child \in [Slots -> ChildRows]
    /\ wake \in BOOLEAN /\ faults \in [failed : Nat, late : BOOLEAN]

\* A child that claimed something knows what.
KnowsJob == \A k \in Slots : child[k].pc \in {"working", "late"} => child[k].job \in Claims

Working(k) == child[k].pc = "working"

\* While processes keep their deadlines: a child that runs has a live slot, a child
\* at work owns its claim, and no two children work on one stream.
SlotsLive == \A k \in Slots : child[k].pc # "none" => slots[k].live
ClaimsOwned ==
    \A k \in Slots : Working(k) =>
        Owned(child[k].job[1], child[k].job[2], child[k].attempt) /\ slots[k].job = child[k].job
StreamsApart == \A j, k \in Slots : Working(j) /\ Working(k) /\ child[j].job[1] = child[k].job[1] => j = k

\* The inductive invariant of the children.
ChildrenInv == JobsInv /\ RowTypes /\ KnowsJob /\ (DeadlinesKept => SlotsLive /\ ClaimsOwned /\ StreamsApart)

---------------------------------------------------------------------------
\* What the transactions of the queue leave alone.  An admission touches no running
\* job: it widens an open one or inserts a row that was absent.
LEMMA EnqueueFrame ==
    ASSUME JobsInv, NEW s \in Streams, NEW high \in HighWaters, Enqueue(s, high)
    PROVE  \A x \in Streams : \A h \in Running(x) : jobs'[x][h] = jobs[x][h]
  <1> SUFFICES ASSUME NEW x \in Streams, NEW h \in Running(x) PROVE jobs'[x][h] = jobs[x][h]
    OBVIOUS
  <1>1. jobs \in [Streams -> [Generations -> JobRow]] /\ h \in Generations /\ jobs[x][h].state = "running"
    BY DEF JobsInv, Running
  <1>2. jobs[s] \in [Generations -> JobRow] /\ RowsFit(stream[s], jobs[s]) /\ stream[s] \in StreamRow
    BY DEF JobsInv, StreamInv
  <1> DEFINE new == [stream[s] EXCEPT !.known = TRUE, !.committed = Higher(stream[s].committed, high)]
  <1>3. CASE \E g \in Open(jobs[s]) : jobs' = [jobs EXCEPT ![s][g].high = Higher(@, new.committed)]
    <2>1. PICK g \in Open(jobs[s]) : jobs' = [jobs EXCEPT ![s][g].high = Higher(@, new.committed)]
      BY <1>3
    <2>2. g \in Generations /\ jobs[s][g].state # "running"
      BY DEF Open
    <2> HIDE DEF new
    <2> QED BY <2>1, <2>2, <1>1
  <1>4. CASE jobs' = [jobs EXCEPT ![s] = Inserted(@, new)]
    <2>1. new.next = stream[s].next
      BY <1>2 DEF StreamRow
    <2> HIDE DEF new
    <2>2. Inserted(jobs[s], new)[h] = jobs[s][h] \/ h = new.next
      BY <1>1, <1>2 DEF Inserted
    <2>3. x = s /\ h = new.next => jobs[s][h].state = "absent"
      BY <1>1, <1>2, <2>1 DEF RowsFit, StreamRow, Generations
    <2> QED BY <1>1, <1>4, <2>2, <2>3
  <1>5. CASE jobs' = jobs
    BY <1>5
  <1> QED BY <1>3, <1>4, <1>5 DEF Enqueue

\* A claim or an acknowledgement is a matter of one stream.
LEMMA OneStreamFrame ==
    ASSUME JobsInv, NEW s \in Streams, NEW g \in Generations, NEW attempt, NEW upTo,
           Claim(s, g) \/ Acknowledge(s, g, attempt, upTo)
    PROVE  \A x \in Streams : x # s => jobs'[x] = jobs[x]
  <1>1. jobs \in [Streams -> [Generations -> JobRow]]
    BY DEF JobsInv
  <1>2. CASE Claim(s, g)
    BY <1>1, <1>2 DEF Claim
  <1>3. CASE Acknowledge(s, g, attempt, upTo)
    <2> DEFINE done == [jobs[s] EXCEPT ![g].state = "completed", ![g].leased = FALSE]
               new == [stream[s] EXCEPT !.processed = upTo]
    <2>1. \/ jobs' = [jobs EXCEPT ![s] = done]
          \/ \E o \in Open(done) : jobs' = [jobs EXCEPT ![s] = [done EXCEPT ![o].high = Higher(@, new.committed),
                                                                         ![o].low = new.processed]]
          \/ jobs' = [jobs EXCEPT ![s] = Inserted(done, new)]
      BY <1>3 DEF Acknowledge
    <2> HIDE DEF done, new
    <2> QED BY <1>1, <2>1
  <1> QED BY <1>2, <1>3

\* The claim itself: the job was open, no other of its stream runs, and it is now
\* owned by the next attempt.
LEMMA ClaimEffect ==
    ASSUME JobsInv, NEW s \in Streams, NEW g \in Generations, Claim(s, g)
    PROVE  /\ Running(s) = {}
           /\ jobs'[s][g].state = "running" /\ jobs'[s][g].leased
           /\ jobs'[s][g].attempts = jobs[s][g].attempts + 1 /\ jobs[s][g].attempts \in Nat
  <1>1. jobs \in [Streams -> [Generations -> JobRow]] /\ jobs[s][g] \in JobRow
    BY DEF JobsInv
  <1> DEFINE row == [jobs[s][g] EXCEPT !.state = "running", !.attempts = jobs[s][g].attempts + 1,
                                       !.leased = TRUE, !.due = TRUE, !.low = stream[s].processed]
  <1>2. jobs' = [jobs EXCEPT ![s][g] = row]
    BY Zenon DEF Claim
  <1>3. row.state = "running" /\ row.leased = TRUE /\ row.attempts = jobs[s][g].attempts + 1
    BY <1>1 DEF JobRow
  <1> HIDE DEF row
  <1>4. jobs'[s][g] = row
    BY <1>1, <1>2
  <1> QED BY <1>1, <1>3, <1>4 DEF Claim, Claimable, JobRow

\* Giving up on running jobs touches no other running job.
LEMMA FailFrame ==
    ASSUME JobsInv, NEW failing \in SUBSET Claims, NEW invalid, FailAttempts(failing, invalid)
    PROVE  \A x \in Streams : \A h \in Running(x) : <<x, h>> \notin failing => jobs'[x][h] = jobs[x][h]
  <1> SUFFICES ASSUME NEW x \in Streams, NEW h \in Running(x), <<x, h>> \notin failing
               PROVE  jobs'[x][h] = jobs[x][h]
    OBVIOUS
  <1>1. jobs[x] \in [Generations -> JobRow] /\ h \in Generations /\ jobs[x][h].state = "running"
    BY DEF JobsInv, Running
  <1> DEFINE rows == {g \in Generations : <<x, g>> \in failing}
  <1>2. jobs'[x] = IF rows = {} THEN jobs[x] ELSE Failed(jobs[x], CHOOSE g \in rows : TRUE, invalid)
    BY DEF FailAttempts
  <1>3. CASE rows = {}
    BY <1>2, <1>3
  <1>4. CASE rows # {}
    <2>1. PICK g : g = CHOOSE y \in rows : TRUE
      OBVIOUS
    <2>2. g \in Generations /\ g # h
      BY <1>4, <2>1
    <2>3. jobs'[x] = Failed(jobs[x], g, invalid)
      BY <1>2, <1>4, <2>1
    <2>4. h \notin Open(jobs[x])
      BY <1>1 DEF Open
    <2> QED BY <1>1, <2>2, <2>3, <2>4 DEF Failed
  <1> QED BY <1>3, <1>4

\* So does the clock.
LEMMA ClockFrame ==
    ASSUME JobsInv, NEW s \in Streams, NEW g \in Generations, JobLeaseLapses(s, g) \/ BackoffElapses(s, g)
    PROVE  \A x \in Streams : \A h \in Running(x) :
              (BackoffElapses(s, g) \/ <<x, h>> # <<s, g>>) => jobs'[x][h] = jobs[x][h]
  <1> SUFFICES ASSUME NEW x \in Streams, NEW h \in Running(x), BackoffElapses(s, g) \/ <<x, h>> # <<s, g>>
               PROVE  jobs'[x][h] = jobs[x][h]
    OBVIOUS
  <1>1. jobs \in [Streams -> [Generations -> JobRow]] /\ h \in Generations /\ jobs[x][h].state = "running"
    BY DEF JobsInv, Running
  <1>2. x # s \/ h # g
    BY <1>1 DEF BackoffElapses
  <1> QED BY <1>1, <1>2 DEF JobLeaseLapses, BackoffElapses

---------------------------------------------------------------------------
\* The records of processes that are not there.
LEMMA NullRows == NoSlot \in SlotRows /\ NoChild \in ChildRows /\ NoCoordinator \in CoordinatorRows /\ NoLease \in Leases
  BY WorkersAssumption DEF NoSlot, NoChild, NoCoordinator, NoLease, SlotRows, ChildRows, CoordinatorRows, Leases

\* What a coordinator does to its own record, and what its end does to its children.
LEMMA GotoType ==
    ASSUME RowTypes, NEW c \in Coordinators, Goto(c, "none") \/ Goto(c, "renew") \/ Goto(c, "recover") \/ Goto(c, "count")
              \/ Goto(c, "spawn") \/ Goto(c, "idle") \/ Goto(c, "exit")
    PROVE  coordinator' \in [Coordinators -> CoordinatorRows]
  BY DEF RowTypes, Goto, CoordinatorRows

LEMMA GoneType ==
    ASSUME RowTypes, NEW c \in Coordinators, Gone(c)
    PROVE  /\ coordinator' \in [Coordinators -> CoordinatorRows] /\ child' \in [Slots -> ChildRows]
           /\ \A k \in Slots : child'[k].pc = child[k].pc /\ child'[k].job = child[k].job
                               /\ child'[k].attempt = child[k].attempt
  <1>1. coordinator' \in [Coordinators -> CoordinatorRows]
    BY NullRows DEF RowTypes, Gone
  <1>2. \A k \in Slots : [child[k] EXCEPT !.by = None] \in ChildRows
    BY DEF RowTypes, ChildRows
  <1>3. child' \in [Slots -> ChildRows]
    BY <1>2 DEF RowTypes, Gone
  <1>4. \A k \in Slots : child'[k].pc = child[k].pc /\ child'[k].job = child[k].job /\ child'[k].attempt = child[k].attempt
    BY DEF RowTypes, Gone, ChildRows
  <1> QED BY <1>1, <1>3, <1>4

\* A child whose thread ends.
LEMMA ExitedType ==
    ASSUME RowTypes, NEW k \in Slots, Exited(k)
    PROVE  child' \in [Slots -> ChildRows] /\ child'[k].pc = "exited" /\ \A j \in Slots : j # k => child'[j] = child[j]
  <1>1. child' = [child EXCEPT ![k] = [child[k] EXCEPT !.pc = "exited", !.job = None, !.attempt = 0]]
    BY DEF Exited
  <1>2. [child[k] EXCEPT !.pc = "exited", !.job = None, !.attempt = 0] \in ChildRows
    BY DEF RowTypes, ChildRows
  <1> QED BY <1>1, <1>2 DEF RowTypes, ChildRows

\* A failure is counted while deadlines are kept; a missed deadline is remembered.
LEMMA FaultType ==
    ASSUME RowTypes
    PROVE  /\ Fault => faults' \in [failed : Nat, late : BOOLEAN] /\ faults'.late = faults.late
           /\ MissedDeadline => faults' \in [failed : Nat, late : BOOLEAN] /\ faults'.late
  <1>1. faults \in [failed : Nat, late : BOOLEAN]
    BY DEF RowTypes
  <1>2. ASSUME Fault PROVE faults' \in [failed : Nat, late : BOOLEAN] /\ faults'.late = faults.late
    <2>1. faults' = [faults EXCEPT !.failed = faults.failed + 1]
      BY <1>2, Zenon DEF Fault
    <2> QED BY <1>1, <2>1
  <1>3. ASSUME MissedDeadline PROVE faults' \in [failed : Nat, late : BOOLEAN] /\ faults'.late
    <2>1. faults' = [faults EXCEPT !.late = TRUE]
      BY <1>3, Zenon DEF MissedDeadline
    <2> QED BY <1>1, <2>1
  <1> QED BY <1>2, <1>3

\* A step that leaves children at work no worse off: none begins to work, and who
\* goes on has its slot, its record and its job's row as they were.
LEMMA NoneBegins ==
    ASSUME ChildrenInv, JobsInv', RowTypes', DeadlinesKept' => DeadlinesKept,
           \A k \in Slots : child'[k].pc \in {"working", "late"} =>
               /\ child[k].pc \in {"working", "late"} /\ child'[k].job = child[k].job
               /\ Working(k)' => Working(k) /\ child'[k].attempt = child[k].attempt,
           DeadlinesKept' => SlotsLive',
           DeadlinesKept' => \A k \in Slots : Working(k)' =>
               /\ slots'[k].job = slots[k].job
               /\ jobs'[child[k].job[1]][child[k].job[2]] = jobs[child[k].job[1]][child[k].job[2]]
    PROVE  ChildrenInv'
  <1>1. KnowsJob'
    BY DEF ChildrenInv, KnowsJob
  <1> SUFFICES ASSUME DeadlinesKept' PROVE ClaimsOwned' /\ StreamsApart'
    BY <1>1 DEF ChildrenInv
  <1>2. ClaimsOwned /\ StreamsApart
    BY DEF ChildrenInv
  <1>3. ClaimsOwned'
    BY <1>2 DEF ClaimsOwned, Owned, Working
  <1>4. StreamsApart'
    BY <1>2 DEF StreamsApart, Working
  <1> QED BY <1>3, <1>4

\* The job of a child at work is one of the running ones.
LEMMA WorkingRuns ==
    ASSUME ChildrenInv, DeadlinesKept, NEW k \in Slots, Working(k)
    PROVE  /\ child[k].job[1] \in Streams /\ child[k].job[2] \in Running(child[k].job[1])
           /\ child[k].job = <<child[k].job[1], child[k].job[2]>>
           /\ jobs[child[k].job[1]][child[k].job[2]].leased
           /\ child[k].attempt = jobs[child[k].job[1]][child[k].job[2]].attempts
  <1>1. child[k].job \in Claims
    BY DEF ChildrenInv, KnowsJob, Working
  <1>2. Owned(child[k].job[1], child[k].job[2], child[k].attempt)
    BY DEF ChildrenInv, ClaimsOwned
  <1> QED BY <1>1, <1>2 DEF Claims, Owned, Running

\* The steps that only concern coordinators, their lease and the launches.
CoordinatorOnly ==
    /\ UNCHANGED <<jobVars, slots, child>>
    /\ lease' \in Leases /\ coordinator' \in [Coordinators -> CoordinatorRows] /\ wake' \in BOOLEAN
    /\ faults' \in [failed : Nat, late : BOOLEAN] /\ (faults.late => faults'.late)

LEMMA CoordinatorOnlyKeeps == ASSUME ChildrenInv, CoordinatorOnly PROVE ChildrenInv'
  <1>1. JobsInv'
    BY DEF CoordinatorOnly, jobVars, JobsInv, ChildrenInv
  <1>2. RowTypes' /\ (DeadlinesKept' => DeadlinesKept)
    BY DEF CoordinatorOnly, RowTypes, ChildrenInv, DeadlinesKept
  <1>3. KnowsJob' /\ (DeadlinesKept' => SlotsLive' /\ ClaimsOwned' /\ StreamsApart')
    BY <1>2 DEF CoordinatorOnly, jobVars, ChildrenInv, KnowsJob, SlotsLive, ClaimsOwned, StreamsApart, Owned, Working
  <1> QED BY <1>1, <1>2, <1>3 DEF ChildrenInv

\* The children that run, for a step that changes no record of a child.
LEMMA SameChildren ==
    ASSUME ChildrenInv, JobsInv', RowTypes', faults'.late = faults.late, slots' = slots,
           \A k \in Slots : child'[k].pc = child[k].pc /\ child'[k].job = child[k].job /\ child'[k].attempt = child[k].attempt,
           DeadlinesKept => \A k \in Slots : Working(k) =>
               jobs'[child[k].job[1]][child[k].job[2]] = jobs[child[k].job[1]][child[k].job[2]]
    PROVE  ChildrenInv'
  <1>1. DeadlinesKept' = DeadlinesKept
    BY DEF DeadlinesKept
  <1>2. DeadlinesKept => SlotsLive'
    BY DEF ChildrenInv, SlotsLive
  <1> QED BY <1>1, <1>2, NoneBegins DEF Working

\* Admission and the recovery of expired claims leave the claims of children alone.
LEMMA OfferKeeps == ASSUME ChildrenInv, NEW s \in Streams, NEW high \in HighWaters, Offer(s, high) PROVE ChildrenInv'
  <1>1. Enqueue(s, high) /\ UNCHANGED <<lease, slots, coordinator, child, faults>>
    BY DEF Offer
  <1>2. JobsInv'
    BY <1>1, EnqueueKeeps DEF ChildrenInv
  <1>3. wake' \in BOOLEAN
    BY DEF Offer, ChildrenInv, RowTypes
  <1>4. RowTypes'
    BY <1>1, <1>3 DEF ChildrenInv, RowTypes
  <1>5. DeadlinesKept => \A k \in Slots : Working(k) =>
           jobs'[child[k].job[1]][child[k].job[2]] = jobs[child[k].job[1]][child[k].job[2]]
    BY <1>1, WorkingRuns, EnqueueFrame DEF ChildrenInv
  <1> QED BY <1>1, <1>2, <1>4, <1>5, SameChildren

LEMMA RecoverKeeps == ASSUME ChildrenInv, NEW c \in Coordinators, RecoverExpired(c) PROVE ChildrenInv'
  <1>1. UNCHANGED <<lease, slots, child, wake, faults>> /\ coordinator' \in [Coordinators -> CoordinatorRows]
    BY GotoType DEF RecoverExpired, ChildrenInv
  <1>2. RowTypes'
    BY <1>1 DEF ChildrenInv, RowTypes
  <1>3. CASE FailAttempts(AllExpired, FALSE)
    <2>1. \A x \in AllExpired : x \in Streams \X Generations /\ x[2] \in Running(x[1])
      BY FailingRuns
    <2>2. JobsInv'
      BY <1>3, <2>1, FailAttemptsKeeps DEF ChildrenInv
    <2>3. \A x \in Streams : \A h \in Running(x) : <<x, h>> \notin AllExpired => jobs'[x][h] = jobs[x][h]
      BY <1>3, <2>1, FailFrame DEF ChildrenInv, Claims
    <2>4. DeadlinesKept => \A k \in Slots : Working(k) =>
             jobs'[child[k].job[1]][child[k].job[2]] = jobs[child[k].job[1]][child[k].job[2]]
      BY <2>3, WorkingRuns DEF AllExpired, Expired
    <2> QED BY <1>1, <1>2, <2>2, <2>4, SameChildren
  <1>4. CASE UNCHANGED jobVars
    <2>1. JobsInv' /\ jobs' = jobs
      BY <1>4 DEF jobVars, JobsInv, ChildrenInv
    <2> QED BY <1>1, <1>2, <2>1, SameChildren
  <1> QED BY <1>3, <1>4 DEF RecoverExpired, RecoverExpiredJobs

---------------------------------------------------------------------------
\* There are finitely many claims.
LEMMA ClaimsFinite ==
    /\ IsFiniteSet(Claims) /\ IsFiniteSet(ClaimableJobs) /\ IsFiniteSet(LiveSlots) /\ IsFiniteSet(LiveRunning)
    /\ IsFiniteSet({claim \in LiveRunning : \A k \in LiveSlots : slots[k].job # claim})
    /\ \A c : IsFiniteSet(Active(c))
  <1>1. IsFiniteSet(Streams) /\ IsFiniteSet(Generations) /\ IsFiniteSet(Slots)
    BY JobsAssumption, WorkersAssumption, FS_Interval DEF Generations
  <1>2. IsFiniteSet(Claims)
    BY <1>1, FS_Product DEF Claims
  <1>3. ClaimableJobs \subseteq Claims /\ LiveRunning \subseteq Claims /\ LiveSlots \subseteq Slots
    BY DEF ClaimableJobs, LiveRunning, LiveSlots, Claims
  <1>4. {claim \in LiveRunning : \A k \in LiveSlots : slots[k].job # claim} \subseteq Claims
    BY <1>3
  <1>5. \A c : Active(c) \subseteq Slots
    BY DEF Active
  <1>6. \A S : S \subseteq Claims => IsFiniteSet(S)
    BY <1>2, FS_Subset
  <1>7. \A S : S \subseteq Slots => IsFiniteSet(S)
    BY <1>1, FS_Subset
  <1> QED BY <1>2, <1>3, <1>4, <1>5, <1>6, <1>7

\* A coordinator starts no more children than the setting.
LEMMA CountType ==
    ASSUME RowTypes, NEW c \in Coordinators, CountWork(c)
    PROVE  coordinator' \in [Coordinators -> CoordinatorRows]
  <1> DEFINE claimable == Cardinality(ClaimableJobs)
             active == Cardinality(Active(c))
             room == IF active >= MaxProcesses THEN 0 ELSE MaxProcesses - active
             budget == IF room <= claimable THEN room ELSE claimable
             quiet == claimable = 0 /\ Occupied = 0 /\ active = 0
  <1>1. claimable \in Nat /\ active \in Nat
    BY ClaimsFinite, FS_CardinalityType
  <1> HIDE DEF claimable, active
  <1>2. budget \in 0..MaxProcesses
    BY <1>1, WorkersAssumption
  <1>3. coordinator' = [coordinator EXCEPT ![c] = [pc |-> "spawn", budget |-> budget, quiet |-> quiet]]
    BY DEF CountWork, claimable, active
  <1> HIDE DEF budget
  <1>4. quiet \in BOOLEAN
    OBVIOUS
  <1> HIDE DEF quiet
  <1> QED BY <1>2, <1>3, <1>4 DEF RowTypes, CoordinatorRows

LEMMA CoordinatorSteps ==
    ASSUME ChildrenInv, NEW c \in Coordinators,
           \/ Launch(c) \/ Relaunch(c) \/ AcquireLease(c) \/ RenewLease(c) \/ LoseLease(c) \/ CountWork(c)
           \/ SpawnedAll(c) \/ CheckIdle(c) \/ CoordinatorFails(c)
    PROVE  CoordinatorOnly
  <1> USE DEF ChildrenInv
  <1>1. /\ lease \in Leases /\ coordinator \in [Coordinators -> CoordinatorRows] /\ wake \in BOOLEAN
        /\ faults \in [failed : Nat, late : BOOLEAN]
    BY DEF RowTypes
  <1>2. \A pc \in {"launched", "renew"} : [NoCoordinator EXCEPT !.pc = pc] \in CoordinatorRows
    BY NullRows DEF NoCoordinator, CoordinatorRows
  <1>3. CASE Launch(c) \/ Relaunch(c)
    <2>1. coordinator' \in [Coordinators -> CoordinatorRows]
      BY <1>1, <1>2, <1>3 DEF Launch, Relaunch, Launched
    <2>2. wake' \in BOOLEAN
      BY <1>1, <1>3 DEF Launch, Relaunch, Launched
    <2>3. UNCHANGED <<jobVars, lease, slots, child, faults>>
      BY <1>3 DEF Launch, Relaunch, Launched
    <2> QED BY <1>1, <2>1, <2>2, <2>3 DEF CoordinatorOnly
  <1>4. CASE AcquireLease(c)
    <2>1. lease' \in Leases
      <3>1. [owner |-> c, live |-> TRUE] \in Leases
        BY DEF Leases
      <3> QED BY <3>1, <1>1, <1>4 DEF AcquireLease
    <2> QED BY <1>1, <1>4, <2>1, GotoType DEF AcquireLease, CoordinatorOnly
  <1>5. CASE RenewLease(c) \/ LoseLease(c) \/ SpawnedAll(c)
    BY <1>1, <1>5, GotoType DEF RenewLease, LoseLease, SpawnedAll, CoordinatorOnly
  <1>6. CASE CountWork(c)
    BY <1>1, <1>6, CountType DEF CountWork, CoordinatorOnly
  <1>7. CASE CheckIdle(c)
    BY <1>1, <1>2, <1>7, GotoType DEF CheckIdle, CoordinatorOnly
  <1>8. CASE CoordinatorFails(c)
    BY <1>1, <1>8, GotoType, FaultType DEF CoordinatorFails, CoordinatorOnly
  <1> QED BY <1>3, <1>4, <1>5, <1>6, <1>7, <1>8

LEMMA LeasePassesOnly == ASSUME ChildrenInv, CoordinatorLeasePasses PROVE CoordinatorOnly
  <1>1. faults' \in [failed : Nat, late : BOOLEAN] /\ (faults.late => faults'.late)
    BY FaultType DEF CoordinatorLeasePasses, Late, ChildrenInv, RowTypes
  <1> QED BY <1>1 DEF CoordinatorLeasePasses, CoordinatorOnly, ChildrenInv, RowTypes, Leases

\* The end of a coordinator: its children are nobody's, and go on.
LEMMA GoneKeeps ==
    ASSUME ChildrenInv, NEW c \in Coordinators, ReleaseLease(c) \/ CoordinatorCrashes(c) PROVE ChildrenInv'
  <1> USE DEF ChildrenInv
  <1>1. /\ coordinator' \in [Coordinators -> CoordinatorRows] /\ child' \in [Slots -> ChildRows]
        /\ \A k \in Slots : child'[k].pc = child[k].pc /\ child'[k].job = child[k].job
                            /\ child'[k].attempt = child[k].attempt
    BY GoneType DEF ReleaseLease, CoordinatorCrashes
  <1>2. UNCHANGED <<jobVars, slots, wake>>
    BY DEF ReleaseLease, CoordinatorCrashes
  <1>3. lease' \in Leases
    BY NullRows DEF ReleaseLease, CoordinatorCrashes, RowTypes
  <1>4. faults' \in [failed : Nat, late : BOOLEAN] /\ faults'.late = faults.late
    BY FaultType DEF ReleaseLease, CoordinatorCrashes, RowTypes
  <1>5. RowTypes' /\ JobsInv' /\ jobs' = jobs
    BY <1>1, <1>2, <1>3, <1>4 DEF RowTypes, JobsInv, jobVars
  <1> QED BY <1>1, <1>2, <1>4, <1>5, SameChildren

\* A child is started in a slot that nobody uses.
LEMMA SpawnKeeps == ASSUME ChildrenInv, NEW c \in Coordinators, Spawn(c) PROVE ChildrenInv'
  <1> USE DEF ChildrenInv
  <1> DEFINE kept == [k \in Slots |-> IF slots[k].live THEN slots[k] ELSE NoSlot]
             fresh == [held |-> TRUE, live |-> TRUE, job |-> None]
             begun == [NoChild EXCEPT !.pc = "spawned", !.by = c]
  <1>1. kept \in [Slots -> SlotRows] /\ fresh \in SlotRows /\ begun \in ChildRows /\ begun.pc = "spawned"
    BY NullRows DEF RowTypes, SlotRows, NoChild, ChildRows
  <1>2. UNCHANGED <<jobVars, lease, wake, faults>>
    BY DEF Spawn
  <1>3. CASE UNCHANGED <<slots, child>> /\ Goto(c, "idle")
    BY <1>2, <1>3, GotoType, CoordinatorOnlyKeeps DEF CoordinatorOnly, RowTypes
  <1>4. JobsInv' /\ jobs' = jobs /\ DeadlinesKept' = DeadlinesKept
    BY <1>2 DEF JobsInv, jobVars, DeadlinesKept
  <1>5. \A k \in Slots : slots[k].live => kept[k] = slots[k]
    OBVIOUS
  <1> HIDE DEF kept, begun, fresh
  <1>6. CASE slots' = kept /\ Goto(c, "idle") /\ UNCHANGED child
    <2>1. RowTypes'
      BY <1>1, <1>2, <1>6, GotoType DEF RowTypes
    <2>2. DeadlinesKept => SlotsLive'
      BY <1>5, <1>6 DEF SlotsLive
    <2>3. DeadlinesKept => \A k \in Slots : Working(k) => slots'[k].job = slots[k].job
      BY <1>5, <1>6 DEF SlotsLive, Working
    <2> QED BY <1>4, <1>6, <2>1, <2>2, <2>3, NoneBegins DEF Working
  <1>7. ASSUME NEW k \in Slots, ~slots[k].live, child[k].pc = "none",
               slots' = [kept EXCEPT ![k] = fresh], child' = [child EXCEPT ![k] = begun],
               coordinator' = [coordinator EXCEPT ![c].budget = @ - 1], coordinator[c].budget > 0
        PROVE  ChildrenInv'
    <2>1. coordinator' \in [Coordinators -> CoordinatorRows]
      <3>1. coordinator[c] \in CoordinatorRows
        BY DEF RowTypes
      <3>2. [coordinator[c] EXCEPT !.budget = coordinator[c].budget - 1] \in CoordinatorRows
        BY <1>7, <3>1, WorkersAssumption DEF CoordinatorRows
      <3> QED BY <1>7, <3>2 DEF RowTypes
    <2>2. RowTypes'
      BY <1>1, <1>2, <1>7, <2>1 DEF RowTypes
    <2>3. child'[k].pc = "spawned" /\ slots'[k] = fresh /\ fresh.live
          /\ \A j \in Slots \ {k} : child'[j] = child[j] /\ slots'[j] = kept[j]
      BY <1>1, <1>7 DEF RowTypes, fresh
    <2>4. DeadlinesKept => SlotsLive'
      BY <1>5, <2>3 DEF SlotsLive
    <2>5. DeadlinesKept => \A j \in Slots : Working(j)' => slots'[j].job = slots[j].job
      BY <1>5, <2>3 DEF SlotsLive, Working
    <2>6. \A j \in Slots : child'[j].pc \in {"working", "late"} => child'[j] = child[j]
      BY <2>3
    <2> QED BY <1>4, <2>2, <2>4, <2>5, <2>6, NoneBegins DEF Working
  <1> QED BY <1>3, <1>6, <1>7 DEF Spawn, kept, fresh, begun

---------------------------------------------------------------------------
\* The end of a thread, whatever the transaction before it gave up or finished.
LEMMA ExitKeeps ==
    ASSUME ChildrenInv, NEW k \in Slots, Exited(k), JobsInv',
           UNCHANGED <<lease, slots, coordinator, wake>>,
           faults' \in [failed : Nat, late : BOOLEAN], faults'.late = faults.late,
           DeadlinesKept => \A j \in Slots \ {k} : Working(j) =>
               jobs'[child[j].job[1]][child[j].job[2]] = jobs[child[j].job[1]][child[j].job[2]],
           child[k].pc # "none"
    PROVE  ChildrenInv'
  <1> USE DEF ChildrenInv
  <1>1. child' \in [Slots -> ChildRows] /\ child'[k].pc = "exited" /\ \A j \in Slots : j # k => child'[j] = child[j]
    BY ExitedType
  <1>2. RowTypes'
    BY <1>1 DEF RowTypes
  <1>3. DeadlinesKept' = DeadlinesKept
    BY DEF DeadlinesKept
  <1>4. DeadlinesKept => SlotsLive'
    BY <1>1 DEF SlotsLive
  <1>5. \A j \in Slots : child'[j].pc \in {"working", "late"} => j # k /\ child'[j] = child[j]
    BY <1>1
  <1> QED BY <1>2, <1>3, <1>4, <1>5, NoneBegins DEF Working

\* A transaction on the stream of one child's job is nothing to another child.
LEMMA StreamsApartFrame ==
    ASSUME ChildrenInv, DeadlinesKept, NEW j \in Slots, NEW k \in Slots, j # k, Working(j), Working(k),
           \A x \in Streams : x # child[k].job[1] => jobs'[x] = jobs[x]
    PROVE  jobs'[child[j].job[1]][child[j].job[2]] = jobs[child[j].job[1]][child[j].job[2]]
  BY WorkingRuns DEF ChildrenInv, StreamsApart

LEMMA AnswersKeeps == ASSUME ChildrenInv, NEW k \in Slots, ChildAnswers(k) PROVE ChildrenInv'
  <1> DEFINE s == child[k].job[1]
             g == child[k].job[2]
  <1>1. /\ Exited(k) /\ UNCHANGED <<lease, slots, coordinator, wake, faults>> /\ Working(k)
        /\ s \in Streams /\ g \in Generations
    BY DEF ChildAnswers, ChildrenInv, KnowsJob, Claims, In, Working
  <1>2. ASSUME NEW upTo \in HighWaters, Acknowledge(s, g, child[k].attempt, upTo)
        PROVE  JobsInv' /\ \A x \in Streams : x # s => jobs'[x] = jobs[x]
    BY <1>1, <1>2, AcknowledgeKeeps, OneStreamFrame DEF ChildrenInv
  <1>3. ASSUME NEW invalid \in BOOLEAN, Retry(s, g, child[k].attempt, invalid)
        PROVE  JobsInv' /\ \A x \in Streams : x # s => jobs'[x] = jobs[x]
    <2>1. g \in Running(s) /\ FailAttempts({<<s, g>>}, invalid)
      BY <1>1, <1>3 DEF Retry, Owned, Running
    <2>2. \A c \in {<<s, g>>} : c \in Streams \X Generations /\ c[2] \in Running(c[1])
      BY <1>1, <2>1
    <2>3. JobsInv'
      BY <2>1, <2>2, FailAttemptsKeeps DEF ChildrenInv
    <2>4. ASSUME NEW x \in Streams, x # s PROVE jobs'[x] = jobs[x]
      <3>1. {y \in Generations : <<x, y>> \in {<<s, g>>}} = {}
        BY <2>4
      <3> QED BY <2>1, <3>1 DEF FailAttempts
    <2> QED BY <2>3, <2>4
  <1>4. JobsInv' /\ \A x \in Streams : x # s => jobs'[x] = jobs[x]
    BY <1>2, <1>3 DEF ChildAnswers
  <1>5. DeadlinesKept => \A j \in Slots \ {k} : Working(j) =>
           jobs'[child[j].job[1]][child[j].job[2]] = jobs[child[j].job[1]][child[j].job[2]]
    BY <1>1, <1>4, StreamsApartFrame
  <1>6. faults \in [failed : Nat, late : BOOLEAN] /\ child[k].pc # "none"
    BY <1>1 DEF ChildrenInv, RowTypes, Working
  <1> QED BY <1>1, <1>4, <1>5, <1>6, ExitKeeps

\* A late child gives up on a claim whose lease has passed; no child at work has one.
LEMMA LateKeeps == ASSUME ChildrenInv, NEW k \in Slots, LateChildRecovers(k) PROVE ChildrenInv'
  <1> DEFINE s == child[k].job[1]
             g == child[k].job[2]
  <1>1. /\ Exited(k) /\ UNCHANGED <<lease, slots, coordinator, wake, faults>> /\ child[k].pc = "late"
        /\ s \in Streams /\ g \in Generations
    BY DEF LateChildRecovers, ChildrenInv, KnowsJob, Claims, In
  <1>2. faults \in [failed : Nat, late : BOOLEAN]
    BY DEF ChildrenInv, RowTypes
  <1>3. CASE RecoverExpiredAttempt(s, g, child[k].attempt)
    <2>1. g \in Running(s) /\ ~jobs[s][g].leased /\ FailAttempts({<<s, g>>}, FALSE)
      BY <1>1, <1>3 DEF RecoverExpiredAttempt, ExpiredAttempt, Expired, Running
    <2>2. \A c \in {<<s, g>>} : c \in Streams \X Generations /\ c[2] \in Running(c[1])
      BY <1>1, <2>1
    <2>3. JobsInv'
      BY <2>1, <2>2, FailAttemptsKeeps DEF ChildrenInv
    <2>4. {<<s, g>>} \in SUBSET Claims
      BY <1>1 DEF Claims
    <2>5. \A x \in Streams : \A h \in Running(x) : <<x, h>> \notin {<<s, g>>} => jobs'[x][h] = jobs[x][h]
      BY <2>1, <2>4, FailFrame DEF ChildrenInv
    <2>6. DeadlinesKept => \A j \in Slots \ {k} : Working(j) =>
             jobs'[child[j].job[1]][child[j].job[2]] = jobs[child[j].job[1]][child[j].job[2]]
      BY <2>1, <2>5, WorkingRuns
    <2> QED BY <1>1, <1>2, <2>3, <2>6, ExitKeeps
  <1>4. CASE UNCHANGED jobVars
    <2>1. JobsInv' /\ jobs' = jobs
      BY <1>4 DEF JobsInv, jobVars, ChildrenInv
    <2> QED BY <1>1, <1>2, <2>1, ExitKeeps
  <1> QED BY <1>3, <1>4 DEF LateChildRecovers

LEMMA TerminateKeeps == ASSUME ChildrenInv, NEW k \in Slots, Terminate(k) PROVE ChildrenInv'
  <1>1. UNCHANGED <<jobVars, lease, slots, coordinator, wake>> /\ Exited(k) /\ child[k].pc # "none"
    BY DEF Terminate
  <1>2. faults' \in [failed : Nat, late : BOOLEAN] /\ faults'.late = faults.late
    BY FaultType DEF Terminate, ChildrenInv, RowTypes
  <1>3. JobsInv' /\ jobs' = jobs
    BY <1>1 DEF JobsInv, jobVars, ChildrenInv
  <1> QED BY <1>1, <1>2, <1>3, ExitKeeps

\* Its answer was refused, which does not happen to a child that kept its deadlines.
LEMMA RefusedKeeps == ASSUME ChildrenInv, NEW k \in Slots, ChildIsRefused(k) PROVE ChildrenInv'
  <1> USE DEF ChildrenInv
  <1>1. UNCHANGED <<jobVars, lease, slots, coordinator, wake, faults>> /\ child[k].pc = "working"
    BY DEF ChildIsRefused, In
  <1>2. child' = [child EXCEPT ![k] = [child[k] EXCEPT !.pc = "late"]]
    BY DEF ChildIsRefused, RowTypes, ChildRows
  <1>3. /\ child' \in [Slots -> ChildRows] /\ child'[k].pc = "late" /\ child'[k].job = child[k].job
        /\ \A j \in Slots : j # k => child'[j] = child[j]
    BY <1>2 DEF RowTypes, ChildRows
  <1>4. RowTypes' /\ JobsInv' /\ jobs' = jobs /\ DeadlinesKept' = DeadlinesKept
    BY <1>1, <1>3 DEF RowTypes, JobsInv, jobVars, DeadlinesKept
  <1>5. DeadlinesKept => SlotsLive'
    BY <1>1, <1>3 DEF SlotsLive
  <1>6. \A j \in Slots : child'[j].pc \in {"working", "late"} =>
           /\ child[j].pc \in {"working", "late"} /\ child'[j].job = child[j].job
           /\ Working(j)' => Working(j) /\ child'[j].attempt = child[j].attempt
    BY <1>1, <1>3 DEF Working
  <1> QED BY <1>1, <1>4, <1>5, <1>6, NoneBegins

\* A child that is gone, with its slot or without it.
LEMMA ChildGone ==
    ASSUME ChildrenInv, NEW k \in Slots, child' = [child EXCEPT ![k] = NoChild],
           slots' = slots \/ slots' = [slots EXCEPT ![k] = ReleasedSlot(k)],
           UNCHANGED <<jobVars, lease, coordinator, wake>>,
           faults' \in [failed : Nat, late : BOOLEAN], faults'.late = faults.late
    PROVE  ChildrenInv'
  <1> USE DEF ChildrenInv
  <1>1. child' \in [Slots -> ChildRows] /\ child'[k].pc = "none" /\ \A j \in Slots : j # k => child'[j] = child[j]
    BY NullRows DEF RowTypes, NoChild
  <1>2. slots' \in [Slots -> SlotRows] /\ \A j \in Slots : j # k => slots'[j] = slots[j]
    BY NullRows DEF RowTypes, ReleasedSlot
  <1>3. RowTypes' /\ JobsInv' /\ jobs' = jobs /\ DeadlinesKept' = DeadlinesKept
    BY <1>1, <1>2 DEF RowTypes, JobsInv, jobVars, DeadlinesKept
  <1>4. DeadlinesKept => SlotsLive'
    BY <1>1, <1>2 DEF SlotsLive
  <1>5. \A j \in Slots : child'[j].pc \in {"working", "late"} => j # k /\ child'[j] = child[j]
    BY <1>1
  <1> QED BY <1>2, <1>3, <1>4, <1>5, NoneBegins DEF Working

LEMMA EndKeeps ==
    ASSUME ChildrenInv, NEW k \in Slots, SpawnFails(k) \/ ReleaseSlot(k) \/ ChildCrashes(k) PROVE ChildrenInv'
  <1>1. faults' \in [failed : Nat, late : BOOLEAN] /\ faults'.late = faults.late
    BY FaultType DEF SpawnFails, ReleaseSlot, ChildCrashes, ChildrenInv, RowTypes
  <1> QED BY <1>1, ChildGone DEF SpawnFails, ReleaseSlot, ChildCrashes

LEMMA StartKeeps == ASSUME ChildrenInv, NEW k \in Slots, StartWatchdog(k) PROVE ChildrenInv'
  <1> USE DEF ChildrenInv
  <1>1. UNCHANGED <<jobVars, lease, slots, coordinator, wake, faults>> /\ child[k].pc = "spawned"
    BY DEF StartWatchdog, In
  <1>2. CASE ~slots[k].live
    <2>1. child' = [child EXCEPT ![k] = NoChild]
      BY <1>2 DEF StartWatchdog
    <2> QED BY <1>1, <2>1, ChildGone DEF RowTypes
  <1>3. CASE slots[k].live
    <2>1. child' = [child EXCEPT ![k] = [child[k] EXCEPT !.pc = "started"]]
      BY <1>3 DEF StartWatchdog, RowTypes
    <2>2. child' \in [Slots -> ChildRows] /\ child'[k].pc = "started" /\ \A j \in Slots : j # k => child'[j] = child[j]
      BY <2>1 DEF RowTypes, ChildRows
    <2>3. RowTypes' /\ JobsInv' /\ jobs' = jobs /\ DeadlinesKept' = DeadlinesKept
      BY <1>1, <2>2 DEF RowTypes, JobsInv, jobVars, DeadlinesKept
    <2>4. DeadlinesKept => SlotsLive'
      BY <1>1, <1>3, <2>2 DEF SlotsLive
    <2>5. \A j \in Slots : child'[j].pc \in {"working", "late"} => child'[j] = child[j]
      BY <2>2
    <2> QED BY <1>1, <2>3, <2>4, <2>5, NoneBegins DEF Working
  <1> QED BY <1>2, <1>3

\* The claim: no job of its stream was running, so that no child worked on one.
LEMMA ClaimsKeeps == ASSUME ChildrenInv, NEW k \in Slots, ChildClaims(k) PROVE ChildrenInv'
  <1> USE DEF ChildrenInv
  <1>1. UNCHANGED <<lease, coordinator, wake, faults>> /\ child[k].pc = "started"
        /\ faults \in [failed : Nat, late : BOOLEAN]
    BY DEF ChildClaims, In, RowTypes
  <1>2. CASE Exited(k) /\ UNCHANGED <<jobVars, slots>>
    <2>1. JobsInv' /\ jobs' = jobs
      BY <1>2 DEF JobsInv, jobVars
    <2> QED BY <1>1, <1>2, <2>1, ExitKeeps
  <1>3. ASSUME NEW s \in Streams, NEW g \in Generations, CurrentSlot(k), Claim(s, g),
               slots' = [slots EXCEPT ![k].job = <<s, g>>],
               child' = [child EXCEPT ![k] =
                  [@ EXCEPT !.pc = "working", !.job = <<s, g>>, !.attempt = jobs[s][g].attempts + 1]]
        PROVE  ChildrenInv'
    <2> DEFINE row == [child[k] EXCEPT !.pc = "working", !.job = <<s, g>>, !.attempt = jobs[s][g].attempts + 1]
    <2>1. /\ Running(s) = {} /\ jobs'[s][g].state = "running" /\ jobs'[s][g].leased
          /\ jobs'[s][g].attempts = jobs[s][g].attempts + 1 /\ jobs[s][g].attempts \in Nat
      BY <1>3, ClaimEffect
    <2>2. /\ row \in ChildRows /\ row.pc = "working" /\ row.job = <<s, g>>
          /\ row.attempt = jobs[s][g].attempts + 1
      <3>1. child[k] \in ChildRows /\ <<s, g>> \in Claims
        BY DEF RowTypes, Claims
      <3>2. jobs[s][g].attempts + 1 \in Nat
        BY <2>1
      <3>3. PICK r, c, n : r = child[k] /\ c = <<s, g>> /\ n = jobs[s][g].attempts + 1
        OBVIOUS
      <3>4. r \in ChildRows /\ c \in Claims /\ n \in Nat
        BY <3>1, <3>2, <3>3
      <3>5. row = [r EXCEPT !.pc = "working", !.job = c, !.attempt = n]
        BY <3>3
      <3> HIDE DEF row
      <3>6. row \in ChildRows /\ row.pc = "working" /\ row.job = c /\ row.attempt = n
        BY <3>4, <3>5 DEF ChildRows
      <3> QED BY <3>3, <3>6
    <2>3. child' = [child EXCEPT ![k] = row]
      BY <1>3 DEF RowTypes
    <2> HIDE DEF row
    <2>4. /\ child' \in [Slots -> ChildRows] /\ child'[k].pc = "working" /\ child'[k].job = <<s, g>>
          /\ child'[k].attempt = jobs'[s][g].attempts /\ \A j \in Slots : j # k => child'[j] = child[j]
      BY <2>1, <2>2, <2>3 DEF RowTypes
    <2>5. /\ slots' \in [Slots -> SlotRows] /\ slots'[k].job = <<s, g>> /\ slots'[k].live = slots[k].live
          /\ \A j \in Slots : j # k => slots'[j] = slots[j]
      BY <1>3 DEF RowTypes, SlotRows, Claims
    <2>6. JobsInv' /\ \A x \in Streams : x # s => jobs'[x] = jobs[x]
      BY <1>3, ClaimKeeps, OneStreamFrame
    <2>7. RowTypes'
      BY <1>1, <2>4, <2>5 DEF RowTypes
    <2>8. KnowsJob'
      <3>1. <<s, g>> \in Claims
        BY DEF Claims
      <3> QED BY <2>4, <3>1 DEF KnowsJob
    <2> SUFFICES ASSUME DeadlinesKept' PROVE SlotsLive' /\ ClaimsOwned' /\ StreamsApart'
      BY <2>6, <2>7, <2>8
    <2>9. DeadlinesKept
      BY <1>1 DEF DeadlinesKept
    <2>10. SlotsLive'
      BY <1>1, <2>4, <2>5, <2>9 DEF SlotsLive
    <2>11. \A j \in Slots : j # k /\ Working(j)' =>
              /\ Working(j) /\ child[j].job[1] \in Streams /\ child[j].job[1] # s
      BY <2>1, <2>4, <2>9, WorkingRuns DEF Working
    <2>12. ClaimsOwned'
      <3>1. Owned(child[k].job[1], child[k].job[2], child[k].attempt)' /\ (slots[k].job = child[k].job)'
        BY <2>1, <2>4, <2>5 DEF Owned
      <3>2. ASSUME NEW j \in Slots, j # k, Working(j)'
            PROVE  Owned(child[j].job[1], child[j].job[2], child[j].attempt)' /\ (slots[j].job = child[j].job)'
        BY <3>2, <2>4, <2>5, <2>6, <2>9, <2>11 DEF Owned, ClaimsOwned
      <3> QED BY <3>1, <3>2 DEF ClaimsOwned
    <2>13. StreamsApart'
      BY <2>4, <2>9, <2>11 DEF StreamsApart
    <2> QED BY <2>10, <2>12, <2>13
  <1> QED BY <1>2, <1>3 DEF ChildClaims

---------------------------------------------------------------------------
\* The clock.  The lease of a slot whose child runs passes only if the child missed
\* a deadline, and so does the claim of a child at work.
LEMMA SlotPassesKeeps == ASSUME ChildrenInv, NEW k \in Slots, SlotLeasePasses(k) PROVE ChildrenInv'
  <1> USE DEF ChildrenInv
  <1>1. UNCHANGED <<jobVars, lease, coordinator, child, wake>> /\ slots' = [slots EXCEPT ![k] = [slots[k] EXCEPT !.live = FALSE]]
    BY DEF SlotLeasePasses, RowTypes, SlotRows
  <1>2. /\ faults' \in [failed : Nat, late : BOOLEAN] /\ (DeadlinesKept' => DeadlinesKept)
        /\ DeadlinesKept' => child[k].pc = "none"
    BY FaultType DEF SlotLeasePasses, Late, In, RowTypes, DeadlinesKept
  <1>3. /\ slots' \in [Slots -> SlotRows] /\ slots'[k].job = slots[k].job
        /\ \A j \in Slots : j # k => slots'[j] = slots[j]
    BY <1>1 DEF RowTypes, SlotRows
  <1>4. RowTypes' /\ JobsInv' /\ jobs' = jobs
    BY <1>1, <1>2, <1>3 DEF RowTypes, JobsInv, jobVars
  <1>5. DeadlinesKept' => SlotsLive'
    BY <1>1, <1>2, <1>3 DEF SlotsLive
  <1> QED BY <1>1, <1>2, <1>3, <1>4, <1>5, NoneBegins DEF Working

LEMMA ElapseKeeps ==
    ASSUME ChildrenInv, NEW s \in Streams, NEW g \in Generations, Elapse(s, g) PROVE ChildrenInv'
  <1> USE DEF ChildrenInv
  <1>1. CASE ClaimPasses(s, g)
    <2>1. JobLeaseLapses(s, g) /\ UNCHANGED <<lease, slots, coordinator, child, wake>>
      BY <1>1 DEF ClaimPasses
    <2>2. JobsInv'
      BY <2>1, ClockKeeps
    <2>3. /\ faults' \in [failed : Nat, late : BOOLEAN] /\ (DeadlinesKept' => DeadlinesKept)
          /\ DeadlinesKept' => \A k \in Slots : child[k].job # <<s, g>> \/ child[k].attempt # jobs[s][g].attempts
      BY <1>1, FaultType DEF ClaimPasses, Late, RowTypes, DeadlinesKept
    <2>4. RowTypes'
      BY <2>1, <2>3 DEF RowTypes
    <2>5. DeadlinesKept' => SlotsLive'
      BY <2>1, <2>3 DEF SlotsLive
    <2>6. \A x \in Streams : \A h \in Running(x) : <<x, h>> # <<s, g>> => jobs'[x][h] = jobs[x][h]
      BY <2>1, ClockFrame
    <2>7. DeadlinesKept' => \A k \in Slots : Working(k) =>
             jobs'[child[k].job[1]][child[k].job[2]] = jobs[child[k].job[1]][child[k].job[2]]
      BY <2>3, <2>6, WorkingRuns
    <2> QED BY <2>1, <2>2, <2>3, <2>4, <2>5, <2>7, NoneBegins DEF Working
  <1>2. CASE BackoffElapses(s, g) /\ UNCHANGED workerVars
    <2>1. JobsInv'
      BY <1>2, ClockKeeps
    <2>2. UNCHANGED <<lease, slots, coordinator, child, wake, faults>>
      BY <1>2 DEF workerVars
    <2>3. RowTypes'
      BY <2>2 DEF RowTypes
    <2>4. \A x \in Streams : \A h \in Running(x) : jobs'[x][h] = jobs[x][h]
      BY <1>2, ClockFrame
    <2>5. DeadlinesKept => \A k \in Slots : Working(k) =>
             jobs'[child[k].job[1]][child[k].job[2]] = jobs[child[k].job[1]][child[k].job[2]]
      BY <2>4, WorkingRuns
    <2> QED BY <2>1, <2>2, <2>3, <2>5, SameChildren
  <1> QED BY <1>1, <1>2 DEF Elapse

---------------------------------------------------------------------------
LEMMA ChildrenInvStep == ASSUME ChildrenInv, [Next]_vars PROVE ChildrenInv'
  <1>1. ASSUME NEW s \in Streams, NEW high \in HighWaters, Offer(s, high) PROVE ChildrenInv'
    BY <1>1, OfferKeeps
  <1>2. ASSUME NEW c \in Coordinators,
               Launch(c) \/ Relaunch(c) \/ Coordinate(c) \/ CoordinatorFails(c) \/ CoordinatorCrashes(c)
        PROVE  ChildrenInv'
    BY <1>2, CoordinatorSteps, CoordinatorOnlyKeeps, RecoverKeeps, SpawnKeeps, GoneKeeps DEF Coordinate
  <1>3. ASSUME NEW k \in Slots,
               Work(k) \/ SpawnFails(k) \/ Terminate(k) \/ ChildCrashes(k) \/ SlotLeasePasses(k)
        PROVE  ChildrenInv'
    BY <1>3, StartKeeps, ClaimsKeeps, AnswersKeeps, RefusedKeeps, LateKeeps, TerminateKeeps, EndKeeps,
       SlotPassesKeeps DEF Work
  <1>4. ASSUME NEW s \in Streams, NEW g \in Generations, Elapse(s, g) PROVE ChildrenInv'
    BY <1>4, ElapseKeeps
  <1>5. CASE CoordinatorLeasePasses
    BY <1>5, LeasePassesOnly, CoordinatorOnlyKeeps
  <1>6. CASE UNCHANGED vars
    BY <1>6, CoordinatorOnlyKeeps DEF vars, workerVars, CoordinatorOnly, ChildrenInv, RowTypes
  <1> QED BY <1>1, <1>2, <1>3, <1>4, <1>5, <1>6 DEF Next, OfferedNext

LEMMA ChildrenInvInit == ASSUME WorkersInit PROVE ChildrenInv
  <1>1. JobsInv
    BY JobsInvInit DEF WorkersInit
  <1>2. RowTypes
    BY NullRows DEF WorkersInit, RowTypes
  <1>3. \A k \in Slots : child[k].pc = "none"
    BY DEF WorkersInit, NoChild
  <1> QED BY <1>1, <1>2, <1>3 DEF ChildrenInv, KnowsJob, SlotsLive, ClaimsOwned, StreamsApart, Working

\* The children of runAnalysisWorkerWatchdog(): whatever coordinators and children
\* die, and however often their claims are recovered, while processes keep their
\* deadlines a child at work owns the job it claimed, and its slot says so.
THEOREM WorkStaysOwned == WorkersSpec => []WorkIsOwned
  <1>1. ChildrenInv => WorkIsOwned
    BY DEF ChildrenInv, ClaimsOwned, Working, WorkIsOwned
  <1> QED BY <1>1, ChildrenInvInit, ChildrenInvStep, PTL DEF WorkersSpec

---------------------------------------------------------------------------
\* Every step of a process is a transaction of the queue, or leaves it alone.
LEMMA QueueStep == ASSUME ChildrenInv, [Next]_vars PROVE [JobsNext]_jobVars
  <1>1. ASSUME NEW s \in Streams, NEW high \in HighWaters, Offer(s, high) PROVE JobsNext
    BY <1>1 DEF Offer, JobsNext
  <1>2. ASSUME NEW c \in Coordinators, RecoverExpired(c) PROVE [JobsNext]_jobVars
    BY <1>2 DEF RecoverExpired, JobsNext
  <1>3. ASSUME NEW c \in Coordinators,
               \/ Launch(c) \/ Relaunch(c) \/ AcquireLease(c) \/ RenewLease(c) \/ LoseLease(c) \/ CountWork(c)
               \/ Spawn(c) \/ SpawnedAll(c) \/ CheckIdle(c) \/ ReleaseLease(c) \/ CoordinatorFails(c)
               \/ CoordinatorCrashes(c)
        PROVE  UNCHANGED jobVars
    BY <1>3 DEF Launch, Relaunch, Launched, AcquireLease, RenewLease, LoseLease, CountWork, Spawn, SpawnedAll,
                CheckIdle, ReleaseLease, CoordinatorFails, CoordinatorCrashes, jobVars
  <1>4. ASSUME NEW k \in Slots,
               \/ StartWatchdog(k) \/ ChildIsRefused(k) \/ Terminate(k) \/ ChildCrashes(k) \/ ReleaseSlot(k)
               \/ SpawnFails(k) \/ SlotLeasePasses(k)
        PROVE  UNCHANGED jobVars
    BY <1>4 DEF StartWatchdog, ChildIsRefused, Terminate, ChildCrashes, ReleaseSlot, SpawnFails, SlotLeasePasses, jobVars
  <1>5. ASSUME NEW k \in Slots, ChildClaims(k) PROVE [JobsNext]_jobVars
    BY <1>5 DEF ChildClaims, JobsNext
  <1>6. ASSUME NEW k \in Slots, ChildAnswers(k) \/ LateChildRecovers(k) PROVE [JobsNext]_jobVars
    <2>1. child[k].job[1] \in Streams /\ child[k].job[2] \in Generations
      BY <1>6 DEF ChildAnswers, LateChildRecovers, In, ChildrenInv, KnowsJob, Claims
    <2>2. PICK s \in Streams, g \in Generations : s = child[k].job[1] /\ g = child[k].job[2]
      BY <2>1
    <2>3. PICK attempt : attempt = child[k].attempt
      OBVIOUS
    <2>4. jobs[s][g].state = "running" => jobs[s][g].attempts \in 1..MaxAttempts
      <3>1. jobs[s][g] \in JobRow
        BY DEF ChildrenInv, JobsInv
      <3>2. g \in RunningIn(jobs[s]) => jobs[s][g].attempts > 0
        BY StreamTypes DEF ChildrenInv, StreamInv, RowsFit
      <3>3. jobs[s][g].attempts \in 0..MaxAttempts
        BY <3>1 DEF JobRow
      <3> QED BY <3>2, <3>3, JobsAssumption DEF RunningIn
    <2>5. ASSUME NEW upTo \in HighWaters, Acknowledge(s, g, attempt, upTo) PROVE JobsNext
      <3>1. attempt \in 1..MaxAttempts
        BY <2>4, <2>5 DEF Acknowledge, Owned
      <3> QED BY <2>5, <3>1 DEF JobsNext
    <2>6. ASSUME NEW invalid \in BOOLEAN, Retry(s, g, attempt, invalid) PROVE JobsNext
      <3>1. attempt \in 1..MaxAttempts
        BY <2>4, <2>6 DEF Retry, Owned
      <3> QED BY <2>6, <3>1 DEF JobsNext
    <2>7. ASSUME RecoverExpiredAttempt(s, g, attempt) PROVE JobsNext
      <3>1. attempt \in 1..MaxAttempts
        BY <2>4, <2>7 DEF RecoverExpiredAttempt, ExpiredAttempt, Expired
      <3> QED BY <2>7, <3>1 DEF JobsNext
    <2> QED BY <1>6, <2>2, <2>3, <2>5, <2>6, <2>7 DEF ChildAnswers, LateChildRecovers
  <1>7. ASSUME NEW s \in Streams, NEW g \in Generations, Elapse(s, g) PROVE JobsNext
    BY <1>7 DEF Elapse, ClaimPasses, JobsNext
  <1>8. CASE CoordinatorLeasePasses
    BY <1>8 DEF CoordinatorLeasePasses
  <1>9. CASE UNCHANGED vars
    BY <1>9 DEF vars
  <1> QED BY <1>1, <1>2, <1>3, <1>4, <1>5, <1>6, <1>7, <1>8, <1>9 DEF Next, OfferedNext, Coordinate, Work

\* Coordinators, children and their failures are one more implementation of the
\* queue: whatever the transactions of operational-store.ts promise, the processes
\* of worker.ts inherit.
THEOREM WorkersImplementQueue == WorkersSpec => JobsSpec
  <1>1. WorkersInit => JobsInit
    BY DEF WorkersInit
  <1> QED BY <1>1, QueueStep, ChildrenInvInit, ChildrenInvStep, PTL DEF WorkersSpec, JobsSpec

\* So, beside the workers, each ordinal is analysed exactly once, nothing that was
\* admitted is forgotten, and streams make the progress that was promised.
THEOREM WorkersKeepQueue == WorkersSpec => [](AnalysedOnce /\ NothingForgotten) /\ ImplementsProgress
  <1> QED BY WorkersImplementQueue, AnalysisIsExact, NothingIsForgotten, QueueKeepsPromise, PTL
---------------------------------------------------------------------------
\* While processes keep their deadlines, who is past its lease holds it.
PastLease(c) == coordinator[c].pc \notin {"none", "launched"}
LeaseHeld == DeadlinesKept => \A c \in Coordinators : PastLease(c) => Holds(c)

LEMMA LeaseHeldStep == ASSUME ChildrenInv, LeaseHeld, [Next]_vars PROVE LeaseHeld'
  <1> USE DEF ChildrenInv
  <1>1. /\ coordinator \in [Coordinators -> CoordinatorRows] /\ lease \in Leases
        /\ faults \in [failed : Nat, late : BOOLEAN]
    BY DEF RowTypes
  <1>2. CASE UNCHANGED <<coordinator, lease>> /\ (faults.late => faults'.late)
    BY <1>2 DEF LeaseHeld, DeadlinesKept, PastLease, Holds
  <1>3. ASSUME NEW c \in Coordinators, UNCHANGED lease, faults'.late = faults.late,
               \A x \in Coordinators \ {c} : coordinator'[x] = coordinator[x],
               PastLease(c)' => PastLease(c)
        PROVE  LeaseHeld'
    BY <1>3 DEF LeaseHeld, DeadlinesKept, PastLease, Holds
  <1>4. ASSUME NEW c \in Coordinators, Launch(c) \/ Relaunch(c) PROVE LeaseHeld'
    <2>1. /\ UNCHANGED <<lease, faults>>
          /\ coordinator' = [coordinator EXCEPT ![c] = [NoCoordinator EXCEPT !.pc = "launched"]]
      BY <1>4 DEF Launch, Relaunch, Launched
    <2>2. coordinator'[c].pc = "launched" /\ \A x \in Coordinators \ {c} : coordinator'[x] = coordinator[x]
      BY <1>1, <2>1 DEF NoCoordinator
    <2> QED BY <1>3, <2>1, <2>2 DEF PastLease
  <1>5. ASSUME NEW c \in Coordinators, AcquireLease(c) PROVE LeaseHeld'
    <2>1. faults' = faults /\ coordinator[c].pc = "launched"
      BY <1>5 DEF AcquireLease, At
    <2>2. CASE LeaseIsFree /\ lease' = [owner |-> c, live |-> TRUE] /\ Goto(c, "renew")
      <3>1. DeadlinesKept => \A x \in Coordinators : ~PastLease(x)
        BY <2>2 DEF LeaseHeld, Holds, LeaseIsFree
      <3>2. \A x \in Coordinators \ {c} : coordinator'[x] = coordinator[x]
        BY <1>1, <2>2 DEF Goto
      <3> QED BY <2>1, <2>2, <3>1, <3>2 DEF LeaseHeld, Holds, PastLease, DeadlinesKept
    <2>3. CASE lease' = lease /\ Goto(c, "none")
      <3>1. coordinator'[c].pc = "none" /\ \A x \in Coordinators \ {c} : coordinator'[x] = coordinator[x]
        BY <1>1, <2>3 DEF Goto, CoordinatorRows
      <3> QED BY <1>3, <2>1, <2>3, <3>1 DEF PastLease
    <2> QED BY <1>5, <2>2, <2>3 DEF AcquireLease
  <1>6. ASSUME NEW c \in Coordinators,
               \/ RenewLease(c) \/ LoseLease(c) \/ RecoverExpired(c) \/ CountWork(c) \/ Spawn(c) \/ SpawnedAll(c)
               \/ CheckIdle(c) \/ CoordinatorFails(c)
        PROVE  LeaseHeld'
    <2>1. UNCHANGED lease /\ PastLease(c)
      BY <1>6 DEF RenewLease, LoseLease, RecoverExpired, CountWork, Spawn, SpawnedAll, CheckIdle, CoordinatorFails,
                  At, PastLease
    <2>2. faults'.late = faults.late
      BY <1>6, FaultType DEF RenewLease, LoseLease, RecoverExpired, CountWork, Spawn, SpawnedAll, CheckIdle, CoordinatorFails
    <2>3. \A x \in Coordinators \ {c} : coordinator'[x] = coordinator[x]
      BY <1>1, <1>6 DEF RenewLease, LoseLease, RecoverExpired, CountWork, Spawn, SpawnedAll, CheckIdle, CoordinatorFails, Goto
    <2> QED BY <1>3, <2>1, <2>2, <2>3
  <1>7. ASSUME NEW c \in Coordinators, ReleaseLease(c) \/ CoordinatorCrashes(c) PROVE LeaseHeld'
    <2>1. faults'.late = faults.late /\ PastLease(c)' = FALSE
          /\ \A x \in Coordinators \ {c} : coordinator'[x] = coordinator[x]
      BY <1>1, <1>7, FaultType DEF ReleaseLease, CoordinatorCrashes, Gone, PastLease, NoCoordinator
    <2>2. lease' = lease \/ Holds(c)
      BY <1>7 DEF ReleaseLease, CoordinatorCrashes
    <2>3. CASE lease' = lease
      BY <1>3, <2>1, <2>3
    <2>4. CASE Holds(c)
      <3>1. DeadlinesKept => \A x \in Coordinators \ {c} : ~PastLease(x)
        BY <2>4 DEF LeaseHeld, Holds
      <3> QED BY <2>1, <3>1 DEF LeaseHeld, PastLease, DeadlinesKept
    <2> QED BY <2>2, <2>3, <2>4
  <1>8. ASSUME CoordinatorLeasePasses PROVE LeaseHeld'
    <2>1. /\ coordinator' = coordinator /\ lease' = [lease EXCEPT !.live = FALSE]
          /\ DeadlinesKept' => DeadlinesKept /\ coordinator[lease.owner].pc \in {"none", "launched"}
      BY <1>8, FaultType DEF CoordinatorLeasePasses, Late, DeadlinesKept
    <2>2. DeadlinesKept' => \A x \in Coordinators : ~PastLease(x)
      BY <2>1 DEF LeaseHeld, Holds, PastLease
    <2> QED BY <2>1, <2>2 DEF LeaseHeld, PastLease
  <1>9. ASSUME NEW k \in Slots,
               Work(k) \/ SpawnFails(k) \/ Terminate(k) \/ ChildCrashes(k) \/ SlotLeasePasses(k)
        PROVE  UNCHANGED <<coordinator, lease>> /\ (faults.late => faults'.late)
    BY <1>9, FaultType DEF Work, StartWatchdog, ChildClaims, ChildAnswers, ChildIsRefused, LateChildRecovers,
       ReleaseSlot, SpawnFails, Terminate, ChildCrashes, SlotLeasePasses, Late
  <1>10. ASSUME NEW s \in Streams, NEW g \in Generations, Elapse(s, g)
         PROVE  UNCHANGED <<coordinator, lease>> /\ (faults.late => faults'.late)
    BY <1>10, FaultType DEF Elapse, ClaimPasses, Late, workerVars
  <1>11. ASSUME NEW s \in Streams, NEW high \in HighWaters, Offer(s, high)
         PROVE  UNCHANGED <<coordinator, lease>> /\ (faults.late => faults'.late)
    BY <1>11 DEF Offer
  <1>12. CASE UNCHANGED vars
    BY <1>2, <1>12 DEF vars, workerVars
  <1> QED BY <1>2, <1>4, <1>5, <1>6, <1>7, <1>8, <1>9, <1>10, <1>11, <1>12 DEF Next, OfferedNext, Coordinate

\* runAnalysisCoordinator() renews its lease before it looks for work, starts
\* children, or ends: while processes keep their deadlines, one of them at a time,
\* whoever is launched and whoever dies.
THEOREM OneCoordinatorAtATime == WorkersSpec => []OneCoordinator
  <1>1. ASSUME LeaseHeld PROVE OneCoordinator
    <2> SUFFICES ASSUME DeadlinesKept
                 PROVE  Cardinality({c \in Coordinators : coordinator[c].pc \notin {"none", "launched"}}) <= 1
      BY DEF OneCoordinator
    <2>1. {c \in Coordinators : coordinator[c].pc \notin {"none", "launched"}} \in SUBSET {lease.owner}
      BY <1>1 DEF LeaseHeld, PastLease, Holds
    <2>2. IsFiniteSet({lease.owner}) /\ Cardinality({lease.owner}) = 1
      BY FS_Singleton
    <2> QED BY <2>1, <2>2, FS_Subset
  <1>2. WorkersInit => LeaseHeld
    BY DEF WorkersInit, LeaseHeld, PastLease, NoCoordinator
  <1>3. WorkersInit => ChildrenInv /\ LeaseHeld
    BY <1>2, ChildrenInvInit
  <1>4. ChildrenInv /\ LeaseHeld /\ [Next]_vars => (ChildrenInv /\ LeaseHeld)'
    BY ChildrenInvStep, LeaseHeldStep
  <1>5. LeaseHeld => OneCoordinator
    BY <1>1
  <1> QED BY <1>3, <1>4, <1>5, PTL DEF WorkersSpec
---------------------------------------------------------------------------
\* How many slots and running jobs are accounted for.
Unlinked == {claim \in LiveRunning : \A k \in LiveSlots : slots[k].job # claim}
OccupancyInv == Occupied <= MaxProcesses

LEMMA FiniteParts ==
    /\ \A S : S \subseteq Slots => IsFiniteSet(S) /\ Cardinality(S) \in Nat
    /\ \A S : S \subseteq Claims => IsFiniteSet(S) /\ Cardinality(S) \in Nat
    /\ LiveSlots \subseteq Slots /\ LiveSlots' \subseteq Slots
    /\ Unlinked \subseteq Claims /\ Unlinked' \subseteq Claims
  <1>1. IsFiniteSet(Claims) /\ IsFiniteSet(Slots)
    BY ClaimsFinite, WorkersAssumption
  <1> QED BY <1>1, FS_Subset, FS_CardinalityType DEF LiveSlots, Unlinked, LiveRunning, Claims

\* Fewer live slots and fewer unlinked jobs: no more is occupied.
LEMMA OccupancyShrinks ==
    ASSUME OccupancyInv, LiveSlots' \subseteq LiveSlots, Unlinked' \subseteq Unlinked
    PROVE  OccupancyInv'
  <1>1. Cardinality(LiveSlots') <= Cardinality(LiveSlots) /\ Cardinality(Unlinked') <= Cardinality(Unlinked)
    BY FiniteParts, FS_Subset
  <1>2. /\ Cardinality(LiveSlots) \in Nat /\ Cardinality(LiveSlots') \in Nat
        /\ Cardinality(Unlinked) \in Nat /\ Cardinality(Unlinked') \in Nat
    BY FiniteParts
  <1>3. Occupied = Cardinality(LiveSlots) + Cardinality(Unlinked)
        /\ Occupied' = Cardinality(LiveSlots') + Cardinality(Unlinked')
    BY DEF Occupied, Unlinked
  <1> QED BY <1>1, <1>2, <1>3, WorkersAssumption DEF OccupancyInv

\* The end of a live slot leaves at most one job unlinked: its own.
LEMMA SlotEnds ==
    ASSUME OccupancyInv, NEW k \in LiveSlots, LiveSlots' = LiveSlots \ {k},
           Unlinked' \subseteq Unlinked \cup {slots[k].job}
    PROVE  OccupancyInv'
  <1>1. IsFiniteSet(LiveSlots) /\ IsFiniteSet(Unlinked)
    BY FiniteParts
  <1>2. Cardinality(LiveSlots') = Cardinality(LiveSlots) - 1
    BY <1>1, FS_RemoveElement
  <1>3. /\ IsFiniteSet(Unlinked \cup {slots[k].job})
        /\ Cardinality(Unlinked \cup {slots[k].job}) <= Cardinality(Unlinked) + 1
    <2>1. CASE slots[k].job \in Unlinked
      <3>1. Unlinked \cup {slots[k].job} = Unlinked
        BY <2>1
      <3>2. Cardinality(Unlinked) \in Nat
        BY FiniteParts
      <3> QED BY <1>1, <3>1, <3>2
    <2>2. CASE slots[k].job \notin Unlinked
      <3>1. Cardinality(Unlinked) \in Nat
        BY FiniteParts
      <3>2. PICK old, job : old = Unlinked /\ job = slots[k].job
        OBVIOUS
      <3>3. IsFiniteSet(old \cup {job}) /\ Cardinality(old \cup {job}) = Cardinality(old) + 1
        BY <1>1, <2>2, <3>2, FS_AddElement
      <3> QED BY <3>1, <3>2, <3>3
    <2> QED BY <2>1, <2>2
  <1>4. Cardinality(Unlinked') <= Cardinality(Unlinked \cup {slots[k].job})
    BY <1>3, FS_Subset
  <1>5. /\ Cardinality(LiveSlots) \in Nat /\ Cardinality(Unlinked) \in Nat /\ Cardinality(Unlinked') \in Nat
        /\ Cardinality(Unlinked \cup {slots[k].job}) \in Nat
    BY <1>3, FiniteParts, FS_CardinalityType
  <1>6. Occupied = Cardinality(LiveSlots) + Cardinality(Unlinked)
        /\ Occupied' = Cardinality(LiveSlots') + Cardinality(Unlinked')
    BY DEF Occupied, Unlinked
  <1> QED BY <1>2, <1>3, <1>4, <1>5, <1>6, WorkersAssumption DEF OccupancyInv

\* A new slot takes a place that was free.
LEMMA SlotBegins ==
    ASSUME Occupied < MaxProcesses, NEW k, k \notin LiveSlots, LiveSlots' = LiveSlots \cup {k},
           Unlinked' \subseteq Unlinked
    PROVE  OccupancyInv'
  <1>1. IsFiniteSet(LiveSlots) /\ IsFiniteSet(Unlinked)
    BY FiniteParts
  <1>2. Cardinality(LiveSlots') = Cardinality(LiveSlots) + 1
    BY <1>1, FS_AddElement
  <1>3. Cardinality(Unlinked') <= Cardinality(Unlinked)
    BY <1>1, FS_Subset
  <1>4. /\ Cardinality(LiveSlots) \in Nat /\ Cardinality(Unlinked) \in Nat /\ Cardinality(Unlinked') \in Nat
    BY FiniteParts
  <1>5. Occupied = Cardinality(LiveSlots) + Cardinality(Unlinked)
        /\ Occupied' = Cardinality(LiveSlots') + Cardinality(Unlinked')
    BY DEF Occupied, Unlinked
  <1> QED BY <1>2, <1>3, <1>4, <1>5, WorkersAssumption DEF OccupancyInv

---------------------------------------------------------------------------
\* Only a claim makes a job run: admission adds and widens open jobs.
LEMMA EnqueueStartsNone ==
    ASSUME JobsInv, NEW s \in Streams, NEW high \in HighWaters, Enqueue(s, high)
    PROVE  LiveRunning' \subseteq LiveRunning
  <1> SUFFICES ASSUME NEW x \in Streams, NEW h \in Generations,
                      jobs'[x][h].state = "running", jobs'[x][h].leased
               PROVE  jobs[x][h].state = "running" /\ jobs[x][h].leased
    BY DEF LiveRunning
  <1>1. jobs \in [Streams -> [Generations -> JobRow]]
    BY DEF JobsInv
  <1> DEFINE new == [stream[s] EXCEPT !.known = TRUE, !.committed = Higher(stream[s].committed, high)]
  <1>2. CASE \E g \in Open(jobs[s]) : jobs' = [jobs EXCEPT ![s][g].high = Higher(@, new.committed)]
    <2>1. PICK g \in Open(jobs[s]) : jobs' = [jobs EXCEPT ![s][g].high = Higher(@, new.committed)]
      BY <1>2
    <2> HIDE DEF new
    <2>2. PICK n : n = Higher(jobs[s][g].high, new.committed)
      OBVIOUS
    <2>3. jobs' = [jobs EXCEPT ![s] = [jobs[s] EXCEPT ![g] = [jobs[s][g] EXCEPT !.high = n]]] /\ g \in Generations
      BY <1>1, <2>1, <2>2 DEF JobRow, Open
    <2>4. CASE x = s /\ h = g
      BY <1>1, <2>3, <2>4 DEF JobRow
    <2>5. CASE ~(x = s /\ h = g)
      BY <1>1, <2>3, <2>5
    <2> QED BY <2>4, <2>5
  <1>3. CASE jobs' = [jobs EXCEPT ![s] = Inserted(@, new)]
    <2> HIDE DEF new
    <2>1. jobs'[x][h] = jobs[x][h] \/ jobs'[x][h].state = "pending"
      BY <1>1, <1>3 DEF Inserted, NoJob
    <2> QED BY <2>1
  <1>4. CASE jobs' = jobs
    BY <1>4
  <1> QED BY <1>2, <1>3, <1>4 DEF Enqueue

LEMMA AcknowledgeStartsNone ==
    ASSUME JobsInv, NEW s \in Streams, NEW g \in Generations, NEW attempt, NEW upTo,
           Acknowledge(s, g, attempt, upTo)
    PROVE  LiveRunning' \subseteq LiveRunning
  <1> SUFFICES ASSUME NEW x \in Streams, NEW h \in Generations,
                      jobs'[x][h].state = "running", jobs'[x][h].leased
               PROVE  jobs[x][h].state = "running" /\ jobs[x][h].leased
    BY DEF LiveRunning
  <1>1. jobs \in [Streams -> [Generations -> JobRow]]
    BY DEF JobsInv
  <1> DEFINE done == [jobs[s] EXCEPT ![g].state = "completed", ![g].leased = FALSE]
             new == [stream[s] EXCEPT !.processed = upTo]
  <1>a. PICK old : old = jobs[s]
    OBVIOUS
  <1>b. old \in [Generations -> JobRow]
    BY <1>1, <1>a
  <1>c. [old[g] EXCEPT !.state = "completed", !.leased = FALSE] \in JobRow
        /\ [old[g] EXCEPT !.state = "completed", !.leased = FALSE].state = "completed"
    BY <1>b DEF JobRow
  <1>d. done = [old EXCEPT ![g] = [old[g] EXCEPT !.state = "completed", !.leased = FALSE]]
    BY <1>a, <1>b
  <1>2. done \in [Generations -> JobRow] /\ \A y \in Generations : y = g \/ done[y] = jobs[s][y]
    BY <1>a, <1>b, <1>c, <1>d
  <1>3. done[g].state = "completed"
    BY <1>b, <1>c, <1>d
  <1>4. \/ jobs' = [jobs EXCEPT ![s] = done]
        \/ \E o \in Open(done) : jobs' = [jobs EXCEPT ![s] = [done EXCEPT ![o].high = Higher(@, new.committed),
                                                                       ![o].low = new.processed]]
        \/ jobs' = [jobs EXCEPT ![s] = Inserted(done, new)]
    BY DEF Acknowledge
  <1> HIDE DEF done, new
  <1>5. CASE x # s
    BY <1>1, <1>4, <1>5
  <1>6. CASE x = s
    <2>1. CASE jobs' = [jobs EXCEPT ![s] = done]
      BY <1>1, <1>2, <1>3, <1>6, <2>1
    <2>2. CASE \E o \in Open(done) : jobs' = [jobs EXCEPT ![s] = [done EXCEPT ![o].high = Higher(@, new.committed),
                                                                       ![o].low = new.processed]]
      <3>1. PICK o \in Open(done) : jobs' = [jobs EXCEPT ![s] = [done EXCEPT ![o].high = Higher(@, new.committed),
                                                                       ![o].low = new.processed]]
        BY <2>2
      <3>2. jobs'[x][h].state = done[h].state /\ jobs'[x][h].leased = done[h].leased
        BY <1>1, <1>2, <1>6, <3>1 DEF JobRow, Open
      <3> QED BY <1>2, <1>3, <1>6, <3>2
    <2>3. CASE jobs' = [jobs EXCEPT ![s] = Inserted(done, new)]
      <3>1. jobs'[x][h] = done[h] \/ jobs'[x][h].state = "pending"
        BY <1>1, <1>2, <1>6, <2>3 DEF Inserted, NoJob
      <3> QED BY <1>2, <1>3, <1>6, <3>1
    <2> QED BY <1>4, <2>1, <2>2, <2>3
  <1> QED BY <1>5, <1>6

LEMMA FailStartsNone ==
    ASSUME JobsInv, NEW failing \in SUBSET Claims, NEW invalid, FailAttempts(failing, invalid)
    PROVE  LiveRunning' \subseteq LiveRunning
  <1> SUFFICES ASSUME NEW x \in Streams, NEW h \in Generations,
                      jobs'[x][h].state = "running", jobs'[x][h].leased
               PROVE  jobs[x][h].state = "running" /\ jobs[x][h].leased
    BY DEF LiveRunning
  <1>1. jobs[x] \in [Generations -> JobRow]
    BY DEF JobsInv
  <1> DEFINE rows == {g \in Generations : <<x, g>> \in failing}
  <1>2. jobs'[x] = IF rows = {} THEN jobs[x] ELSE Failed(jobs[x], CHOOSE g \in rows : TRUE, invalid)
    BY DEF FailAttempts
  <1>3. CASE rows = {}
    BY <1>2, <1>3
  <1>4. CASE rows # {}
    <2>1. PICK g : g = CHOOSE y \in rows : TRUE
      OBVIOUS
    <2>2. g \in Generations
      BY <1>4, <2>1
    <2>3. jobs'[x] = Failed(jobs[x], g, invalid)
      BY <1>2, <1>4, <2>1
    <2> HIDE DEF rows
    <2>4. jobs'[x][h] = jobs[x][h] \/ jobs'[x][h].state \in {"quarantined", "retryable", "absent"}
      <3>1. CASE invalid \/ jobs[x][g].attempts >= MaxAttempts
        BY <1>1, <2>2, <2>3, <3>1 DEF Failed, JobRow
      <3>2. CASE ~(invalid \/ jobs[x][g].attempts >= MaxAttempts)
        <4>1. CASE h = g
          <5>1. PICK n : n = IF Open(jobs[x]) = {} THEN jobs[x][g].high
                             ELSE Higher(jobs[x][g].high, jobs[x][CHOOSE o \in Open(jobs[x]) : TRUE].high)
            OBVIOUS
          <5>2. jobs'[x][h] = [jobs[x][g] EXCEPT !.state = "retryable", !.leased = FALSE, !.due = FALSE, !.high = n]
            BY <1>1, <2>3, <3>2, <4>1, <5>1 DEF Failed, JobRow
          <5> QED BY <1>1, <2>2, <5>2 DEF JobRow
        <4>2. CASE h # g /\ h \in Open(jobs[x])
          BY <2>3, <3>2, <4>2 DEF Failed, NoJob
        <4>3. CASE h # g /\ h \notin Open(jobs[x])
          BY <2>3, <3>2, <4>3 DEF Failed
        <4> QED BY <4>1, <4>2, <4>3
      <3> QED BY <3>1, <3>2
    <2> QED BY <2>4
  <1> QED BY <1>3, <1>4

LEMMA ClockStartsNone ==
    ASSUME JobsInv, NEW s \in Streams, NEW g \in Generations, JobLeaseLapses(s, g) \/ BackoffElapses(s, g)
    PROVE  LiveRunning' \subseteq LiveRunning
  <1> SUFFICES ASSUME NEW x \in Streams, NEW h \in Generations,
                      jobs'[x][h].state = "running", jobs'[x][h].leased
               PROVE  jobs[x][h].state = "running" /\ jobs[x][h].leased
    BY DEF LiveRunning
  <1>1. jobs \in [Streams -> [Generations -> JobRow]]
    BY DEF JobsInv
  <1>2. CASE ~(x = s /\ h = g)
    BY <1>1, <1>2 DEF JobLeaseLapses, BackoffElapses
  <1>3. CASE x = s /\ h = g
    <2>1. CASE JobLeaseLapses(s, g)
      BY <1>1, <1>3, <2>1 DEF JobLeaseLapses
    <2>2. CASE BackoffElapses(s, g)
      <3>1. jobs'[s][g] = [jobs[s][g] EXCEPT !.due = TRUE]
        BY <1>1, <2>2 DEF BackoffElapses
      <3> QED BY <1>1, <1>3, <3>1 DEF JobRow
    <2> QED BY <2>1, <2>2
  <1> QED BY <1>2, <1>3

---------------------------------------------------------------------------
\* The steps that change no slot and start no job.
LEMMA SameSlots ==
    ASSUME OccupancyInv, slots' = slots, LiveRunning' \subseteq LiveRunning
    PROVE  OccupancyInv'
  <1>1. LiveSlots' = LiveSlots
    BY DEF LiveSlots
  <1>2. Unlinked' \subseteq Unlinked
    BY <1>1 DEF Unlinked
  <1> QED BY <1>1, <1>2, OccupancyShrinks

\* A slot that is given back or whose lease passes, while the queue stands still.
LEMMA SlotDies ==
    ASSUME OccupancyInv, RowTypes, NEW k \in Slots, NEW row \in SlotRows, ~row.live,
           slots' = [slots EXCEPT ![k] = row], LiveRunning' \subseteq LiveRunning
    PROVE  OccupancyInv'
  <1>1. slots'[k] = row /\ \A j \in Slots : j # k => slots'[j] = slots[j]
    BY DEF RowTypes
  <1>2. LiveSlots' = LiveSlots \ {k}
    BY <1>1 DEF LiveSlots
  <1>3. CASE k \in LiveSlots
    <2>1. Unlinked' \subseteq Unlinked \cup {slots[k].job}
      BY <1>1, <1>2 DEF Unlinked, LiveSlots
    <2> QED BY <1>2, <1>3, <2>1, SlotEnds
  <1>4. CASE k \notin LiveSlots
    <2>1. LiveSlots' = LiveSlots /\ Unlinked' \subseteq Unlinked
      BY <1>1, <1>2, <1>4 DEF Unlinked, LiveSlots
    <2> QED BY <2>1, OccupancyShrinks
  <1> QED BY <1>3, <1>4

LEMMA SpawnOccupies ==
    ASSUME OccupancyInv, RowTypes, NEW c \in Coordinators, Spawn(c)
    PROVE  OccupancyInv'
  <1> DEFINE kept == [k \in Slots |-> IF slots[k].live THEN slots[k] ELSE NoSlot]
  <1>1. jobs' = jobs
    BY DEF Spawn, jobVars
  <1>2. LiveRunning' = LiveRunning
    BY <1>1 DEF LiveRunning
  <1>3. CASE slots' = slots
    BY <1>2, <1>3, SameSlots
  <1>4. CASE slots' = kept
    <2>1. LiveSlots' = LiveSlots /\ \A k \in LiveSlots : slots'[k] = slots[k]
      BY <1>4 DEF LiveSlots, NoSlot
    <2>2. Unlinked' \subseteq Unlinked
      BY <1>2, <2>1 DEF Unlinked
    <2> QED BY <2>1, <2>2, OccupancyShrinks
  <1>5. CASE Occupied < MaxProcesses /\ \E k \in Slots :
               ~slots[k].live /\ slots' = [kept EXCEPT ![k] = [held |-> TRUE, live |-> TRUE, job |-> None]]
    <2>1. PICK k \in Slots :
            ~slots[k].live /\ slots' = [kept EXCEPT ![k] = [held |-> TRUE, live |-> TRUE, job |-> None]]
      BY <1>5
    <2>2. slots'[k].live /\ \A j \in Slots : j # k => slots'[j] = IF slots[j].live THEN slots[j] ELSE NoSlot
      BY <2>1
    <2>3. k \notin LiveSlots /\ LiveSlots' = LiveSlots \cup {k} /\ \A j \in LiveSlots : slots'[j] = slots[j]
      BY <2>1, <2>2 DEF LiveSlots, NoSlot
    <2>4. Unlinked' \subseteq Unlinked
      BY <1>2, <2>3 DEF Unlinked
    <2> QED BY <1>5, <2>3, <2>4, SlotBegins
  <1> QED BY <1>3, <1>4, <1>5 DEF Spawn

\* The slot of a child that claims a job accounts for it from then on.
LEMMA ClaimOccupies ==
    ASSUME OccupancyInv, RowTypes, JobsInv, NEW k \in Slots, ChildClaims(k)
    PROVE  OccupancyInv'
  <1>1. CASE UNCHANGED <<jobVars, slots>>
    <2>1. jobs' = jobs /\ slots' = slots
      BY <1>1 DEF jobVars
    <2> QED BY <2>1, SameSlots DEF LiveRunning
  <1>2. ASSUME NEW s \in Streams, NEW g \in Generations, CurrentSlot(k), Claim(s, g),
               slots' = [slots EXCEPT ![k].job = <<s, g>>]
        PROVE  OccupancyInv'
    <2>1. jobs \in [Streams -> [Generations -> JobRow]] /\ slots \in [Slots -> SlotRows]
      BY DEF JobsInv, RowTypes
    <2>2. \A x \in Streams, h \in Generations : <<x, h>> = <<s, g>> \/ jobs'[x][h] = jobs[x][h]
      BY <1>2, <2>1 DEF Claim
    <2>3. LiveRunning' \subseteq LiveRunning \cup {<<s, g>>}
      BY <2>2 DEF LiveRunning
    <2>4. /\ slots'[k].live = slots[k].live /\ slots'[k].job = <<s, g>>
          /\ \A j \in Slots : j # k => slots'[j] = slots[j]
      BY <1>2, <2>1 DEF SlotRows
    <2>5. LiveSlots' = LiveSlots /\ k \in LiveSlots
      BY <1>2, <2>4 DEF LiveSlots, CurrentSlot
    <2>6. \A claim \in LiveRunning : claim # None
      BY WorkersAssumption DEF LiveRunning
    <2>7. slots[k].job = None
      BY <1>2 DEF CurrentSlot
    <2>8. ASSUME NEW claim \in Unlinked' PROVE claim \in Unlinked
      <3>1. claim \in LiveRunning' /\ \A j \in LiveSlots' : slots'[j].job # claim
        BY <2>8 DEF Unlinked
      <3>2. claim # <<s, g>>
        BY <2>4, <2>5, <3>1
      <3>3. claim \in LiveRunning
        BY <2>3, <3>1, <3>2
      <3>4. ASSUME NEW j \in LiveSlots PROVE slots[j].job # claim
        BY <2>4, <2>5, <2>6, <2>7, <3>1, <3>3 DEF LiveSlots
      <3> QED BY <3>3, <3>4 DEF Unlinked
    <2> QED BY <2>5, <2>8, OccupancyShrinks
  <1> QED BY <1>1, <1>2 DEF ChildClaims

---------------------------------------------------------------------------
LEMMA OccupancyStep == ASSUME OccupancyInv, ChildrenInv, [Next]_vars PROVE OccupancyInv'
  <1>1. JobsInv /\ RowTypes /\ KnowsJob
    BY DEF ChildrenInv
  <1>2. ASSUME UNCHANGED <<jobs, slots>> PROVE OccupancyInv'
    BY <1>2, SameSlots DEF LiveRunning
  <1>3. ASSUME NEW s \in Streams, NEW high \in HighWaters, Offer(s, high) PROVE OccupancyInv'
    BY <1>1, <1>3, EnqueueStartsNone, SameSlots DEF Offer
  <1>4. ASSUME NEW c \in Coordinators, RecoverExpired(c) PROVE OccupancyInv'
    <2>1. slots' = slots
      BY <1>4 DEF RecoverExpired
    <2>2. CASE FailAttempts(AllExpired, FALSE)
      <3>1. AllExpired \in SUBSET Claims
        BY DEF AllExpired, Claims
      <3> QED BY <1>1, <2>1, <2>2, <3>1, FailStartsNone, SameSlots
    <2>3. CASE UNCHANGED jobVars
      BY <1>2, <2>1, <2>3 DEF jobVars
    <2> QED BY <1>4, <2>2, <2>3 DEF RecoverExpired, RecoverExpiredJobs
  <1>5. ASSUME NEW c \in Coordinators, Spawn(c) PROVE OccupancyInv'
    BY <1>1, <1>5, SpawnOccupies
  <1>6. ASSUME NEW c \in Coordinators,
               \/ Launch(c) \/ Relaunch(c) \/ AcquireLease(c) \/ RenewLease(c) \/ LoseLease(c) \/ CountWork(c)
               \/ SpawnedAll(c) \/ CheckIdle(c) \/ ReleaseLease(c) \/ CoordinatorFails(c) \/ CoordinatorCrashes(c)
        PROVE  UNCHANGED <<jobs, slots>>
    BY <1>6 DEF Launch, Relaunch, Launched, AcquireLease, RenewLease, LoseLease, CountWork, SpawnedAll, CheckIdle,
                ReleaseLease, CoordinatorFails, CoordinatorCrashes, jobVars
  <1>7. ASSUME NEW k \in Slots, StartWatchdog(k) \/ ChildIsRefused(k) \/ Terminate(k) \/ ChildCrashes(k)
        PROVE  UNCHANGED <<jobs, slots>>
    BY <1>7 DEF StartWatchdog, ChildIsRefused, Terminate, ChildCrashes, jobVars
  <1>8. ASSUME NEW k \in Slots, ChildClaims(k) PROVE OccupancyInv'
    BY <1>1, <1>8, ClaimOccupies
  <1>9. ASSUME NEW k \in Slots, ChildAnswers(k) \/ LateChildRecovers(k) PROVE OccupancyInv'
    <2>1. slots' = slots /\ child[k].job[1] \in Streams /\ child[k].job[2] \in Generations
      BY <1>1, <1>9 DEF ChildAnswers, LateChildRecovers, In, KnowsJob, Claims
    <2>2. PICK s \in Streams, g \in Generations : s = child[k].job[1] /\ g = child[k].job[2]
      BY <2>1
    <2>3. {<<s, g>>} \in SUBSET Claims
      BY DEF Claims
    <2>4. CASE \E upTo \in HighWaters : Acknowledge(s, g, child[k].attempt, upTo)
      BY <1>1, <2>1, <2>4, AcknowledgeStartsNone, SameSlots
    <2>5. CASE \E invalid \in BOOLEAN : FailAttempts({<<s, g>>}, invalid)
      BY <1>1, <2>1, <2>3, <2>5, FailStartsNone, SameSlots
    <2>6. CASE UNCHANGED jobVars
      BY <1>2, <2>1, <2>6 DEF jobVars
    <2> QED BY <1>9, <2>2, <2>4, <2>5, <2>6 DEF ChildAnswers, LateChildRecovers, Retry, RecoverExpiredAttempt
  <1>10. ASSUME NEW k \in Slots, ReleaseSlot(k) \/ SpawnFails(k) \/ SlotLeasePasses(k) PROVE OccupancyInv'
    <2>1. jobs' = jobs
      BY <1>10 DEF ReleaseSlot, SpawnFails, SlotLeasePasses, jobVars
    <2>2. LiveRunning' = LiveRunning
      BY <2>1 DEF LiveRunning
    <2>3. slots' = [slots EXCEPT ![k] = NoSlot] \/ slots' = [slots EXCEPT ![k] = [slots[k] EXCEPT !.live = FALSE]]
      BY <1>1, <1>10 DEF ReleaseSlot, SpawnFails, SlotLeasePasses, ReleasedSlot, RowTypes, SlotRows
    <2>4. [slots[k] EXCEPT !.live = FALSE] \in SlotRows /\ ~[slots[k] EXCEPT !.live = FALSE].live
      BY <1>1 DEF RowTypes, SlotRows
    <2>5. NoSlot \in SlotRows /\ ~NoSlot.live
      BY NullRows DEF NoSlot
    <2> QED BY <1>1, <2>2, <2>3, <2>4, <2>5, SlotDies
  <1>11. ASSUME NEW s \in Streams, NEW g \in Generations, Elapse(s, g) PROVE OccupancyInv'
    BY <1>1, <1>11, ClockStartsNone, SameSlots DEF Elapse, ClaimPasses, workerVars
  <1>12. CASE CoordinatorLeasePasses
    BY <1>2, <1>12 DEF CoordinatorLeasePasses, jobVars
  <1>13. CASE UNCHANGED vars
    BY <1>2, <1>13 DEF vars, jobVars, workerVars
  <1> QED BY <1>2, <1>3, <1>4, <1>5, <1>6, <1>7, <1>8, <1>9, <1>10, <1>11, <1>12, <1>13
          DEF Next, OfferedNext, Coordinate, Work

LEMMA OccupancyAlways == WorkersSpec => [](ChildrenInv /\ OccupancyInv)
  <1>1. ASSUME WorkersInit PROVE OccupancyInv
    <2>1. LiveSlots = {}
      BY <1>1 DEF WorkersInit, LiveSlots, NoSlot
    <2>2. LiveRunning = {}
      BY <1>1 DEF WorkersInit, JobsInit, LiveRunning, NoJob
    <2>3. Occupied = Cardinality({}) + Cardinality({})
      BY <2>1, <2>2 DEF Occupied
    <2> QED BY <2>3, FS_EmptySet, WorkersAssumption DEF OccupancyInv
  <1>2. WorkersInit => ChildrenInv /\ OccupancyInv
    BY <1>1, ChildrenInvInit
  <1>3. ChildrenInv /\ OccupancyInv /\ [Next]_vars => (ChildrenInv /\ OccupancyInv)'
    BY ChildrenInvStep, OccupancyStep
  <1> QED BY <1>2, <1>3, PTL DEF WorkersSpec

\* reserveWorkerSlot() counts the live slots and the running jobs that no live slot
\* names before it inserts another: whoever dies and however late a lease is
\* noticed, the two together never exceed the setting maxProcesses.
THEOREM OccupancyStaysBounded == WorkersSpec => []OccupancyBounded
  <1>1. ASSUME OccupancyInv PROVE OccupancyBounded
    <2> DEFINE unnamed == LiveRunning \ {slots[k].job : k \in LiveSlots}
    <2>1. unnamed = Unlinked
      BY DEF Unlinked
    <2> HIDE DEF unnamed
    <2>2. IsFiniteSet(LiveSlots) /\ IsFiniteSet(unnamed)
      BY <2>1, FiniteParts
    <2>3. /\ Cardinality(LiveSlots) \in Nat /\ Cardinality(unnamed) \in Nat
          /\ Cardinality(LiveSlots \cap unnamed) \in Nat
      BY <2>2, FS_Intersection, FS_CardinalityType
    <2>4. Cardinality(LiveSlots \cup unnamed)
            = Cardinality(LiveSlots) + Cardinality(unnamed) - Cardinality(LiveSlots \cap unnamed)
      BY <2>2, FS_Union
    <2>5. Occupied = Cardinality(LiveSlots) + Cardinality(unnamed)
      BY <2>1 DEF Occupied, Unlinked
    <2>6. Cardinality(LiveSlots \cup unnamed) <= MaxProcesses
      BY <1>1, <2>3, <2>4, <2>5, WorkersAssumption DEF OccupancyInv
    <2> QED BY <2>6 DEF OccupancyBounded, unnamed
  <1> QED BY <1>1, OccupancyAlways, PTL

\* So the setting bounds the child processes that really run, those of a dead
\* coordinator included, while processes keep their deadlines.
THEOREM ChildrenStayWithinLimit == WorkersSpec => []ChildrenWithinLimit
  <1>1. ASSUME ChildrenInv, OccupancyInv PROVE ChildrenWithinLimit
    <2> SUFFICES ASSUME DeadlinesKept PROVE Cardinality({k \in Slots : child[k].pc # "none"}) <= MaxProcesses
      BY DEF ChildrenWithinLimit
    <2>1. {k \in Slots : child[k].pc # "none"} \subseteq LiveSlots
      BY <1>1 DEF ChildrenInv, SlotsLive, LiveSlots
    <2>2. /\ Cardinality({k \in Slots : child[k].pc # "none"}) <= Cardinality(LiveSlots)
          /\ Cardinality({k \in Slots : child[k].pc # "none"}) \in Nat
      BY <2>1, FiniteParts, FS_Subset
    <2>3. Occupied = Cardinality(LiveSlots) + Cardinality(Unlinked) /\ Cardinality(LiveSlots) \in Nat
          /\ Cardinality(Unlinked) \in Nat
      BY FiniteParts DEF Occupied, Unlinked
    <2> QED BY <1>1, <2>2, <2>3, WorkersAssumption DEF OccupancyInv
  <1> QED BY <1>1, OccupancyAlways, PTL
=============================================================================
