------------------------------ MODULE AnalysisJobs ------------------------------
(***************************************************************************)
(* The queue of analysis jobs (learning/repository.ts).  A stream is the   *)
(* evidence of one session under one detector set.  Its jobs cover ranges  *)
(* of ordinals: at most one runs, at most one is open (pending or          *)
(* retryable) and takes in whatever is admitted meanwhile.  This is an     *)
(* open specification: every action is one public transaction that any     *)
(* process may run at any time, with arguments that may be out of date.    *)
(*                                                                         *)
(* A claim is identified by job and attempt: the owner in the code is new  *)
(* for each claim and a job's attempts only grow, so the pair determines   *)
(* it.  leased stands for lease_expires_at > now, due for a back-off that  *)
(* has passed; both change with the clock.                                 *)
(***************************************************************************)
EXTENDS Naturals, Sequences, FiniteSets

CONSTANTS
    Streams,
    MaxAttempts,        \* attempts after which a failing job is quarantined: 4
    MaxHighWater,       \* bound of the model: ordinals of a stream
    MaxJobs,            \* bound of the model: next_generation
    MaxContinuations    \* bound of the model: acknowledgements without progress

ASSUME JobsAssumption ==
    /\ IsFiniteSet(Streams)
    /\ MaxAttempts \in Nat \ {0} /\ MaxJobs \in Nat \ {0}
    /\ MaxHighWater \in Nat /\ MaxContinuations \in Nat

VARIABLES
    stream,         \* table operational_analysis_streams
    jobs,           \* table operational_analysis_jobs: stream -> generation -> row
    outcomes,       \* table operational_analysis_attempts: the outcome of each attempt of a job
    analysed,       \* how often the results of an ordinal were stored: a total nobody keeps
    continuations

jobVars == <<stream, jobs, outcomes, analysed, continuations>>

Generations == 1..MaxJobs
HighWaters == 0..MaxHighWater
Ordinals == 1..MaxHighWater

NoJob == [state |-> "absent", low |-> 0, high |-> 0, attempts |-> 0, due |-> TRUE, leased |-> FALSE]

JobsInit ==
    /\ stream = [s \in Streams |-> [known |-> FALSE, committed |-> 0, processed |-> 0, next |-> 1]]
    /\ jobs = [s \in Streams |-> [g \in Generations |-> NoJob]]
    /\ outcomes = [s \in Streams |-> [g \in Generations |-> <<>>]]
    /\ analysed = [s \in Streams |-> [n \in Ordinals |-> 0]]
    /\ continuations = 0

---------------------------------------------------------------------------
Higher(a, b) == IF a >= b THEN a ELSE b

Open(js) == {g \in Generations : js[g].state \in {"pending", "retryable"}}
Running(s) == {g \in Generations : jobs[s][g].state = "running"}

BlockedAbove(s) ==    \* a mutant: the range up to the boundary is not counted
    \E g \in Generations : jobs[s][g].state = "quarantined" /\ jobs[s][g].high > stream[s].processed
\* A quarantined range that was never analysed holds back everything after it.
Blocked(s) ==
    \E g \in Generations : jobs[s][g].state = "quarantined" /\ jobs[s][g].high >= stream[s].processed

ClaimableBesideRunning(s, g) ==    \* a mutant
    g \in Open(jobs[s]) /\ jobs[s][g].due /\ ~Blocked(s)
Claimable(s, g) ==
    g \in Open(jobs[s]) /\ jobs[s][g].due /\ Running(s) = {} /\ ~Blocked(s)

Owned(s, g, attempt) ==
    jobs[s][g].state = "running" /\ jobs[s][g].attempts = attempt /\ jobs[s][g].leased

RunningAtAll(s, g) == jobs[s][g].state = "running"    \* a mutant: the lease is not compared
Expired(s, g) == jobs[s][g].state = "running" /\ ~jobs[s][g].leased
ExpiredAttempt(s, g, attempt) == Expired(s, g) /\ jobs[s][g].attempts = attempt

\* insertPendingJob: row of the next generation, from the stream's high-waters.
Inserted(js, row) ==
    [js EXCEPT ![row.next] = [NoJob EXCEPT !.state = "pending", !.low = row.processed, !.high = row.committed]]

FailedWithoutMerge(js, g, invalid) ==    \* a mutant: the successor's range is dropped
    IF invalid \/ js[g].attempts >= MaxAttempts
    THEN [js EXCEPT ![g].state = "quarantined", ![g].leased = FALSE]
    ELSE [h \in Generations |->
            IF h = g THEN [js[g] EXCEPT !.state = "retryable", !.leased = FALSE, !.due = FALSE]
            ELSE IF h \in Open(js) THEN NoJob ELSE js[h]]
\* failAttempt(): the rows of a stream after job g failed.  A retryable job takes
\* over the range of its successor, whose row is deleted.
Failed(js, g, invalid) ==
    IF invalid \/ js[g].attempts >= MaxAttempts
    THEN [js EXCEPT ![g].state = "quarantined", ![g].leased = FALSE]
    ELSE [h \in Generations |->
            IF h = g
            THEN [js[g] EXCEPT !.state = "retryable", !.leased = FALSE, !.due = FALSE,
                    !.high = IF Open(js) = {} THEN @ ELSE Higher(@, js[CHOOSE o \in Open(js) : TRUE].high)]
            ELSE IF h \in Open(js) THEN NoJob ELSE js[h]]

---------------------------------------------------------------------------
\* enqueueWithOutcome(): admission of everything up to high.  Below an unresolved
\* quarantine it changes nothing unless it brings something new.
Enqueue(s, high) ==
    LET old == stream[s]
        new == [old EXCEPT !.known = TRUE, !.committed = Higher(@, high)]
        uncovered == \A n \in {old.processed} \cup {jobs[s][g].high : g \in Running(s)} : new.committed > n
    IN  /\ ~(Blocked(s) /\ old.known /\ high <= old.committed)
        /\ \/ \E g \in Open(jobs[s]) :
                 /\ jobs' = [jobs EXCEPT ![s][g].high = Higher(@, new.committed)]
                 /\ stream' = [stream EXCEPT ![s] = new]
           \/ /\ Open(jobs[s]) = {} /\ (uncovered \/ ~old.known)
              /\ old.next <= MaxJobs
              /\ jobs' = [jobs EXCEPT ![s] = Inserted(@, new)]
              /\ stream' = [stream EXCEPT ![s] = [new EXCEPT !.next = @ + 1]]
           \/ /\ Open(jobs[s]) = {} /\ ~uncovered /\ old.known
              /\ jobs' = jobs
              /\ stream' = [stream EXCEPT ![s] = new]
        /\ UNCHANGED <<outcomes, analysed, continuations>>

\* claim(): the range starts at what has been processed by now.
Claim(s, g) ==
    /\ Claimable(s, g)
    /\ jobs' = [jobs EXCEPT ![s][g] = [jobs[s][g] EXCEPT !.state = "running", !.attempts = @ + 1,
                                          !.leased = TRUE, !.due = TRUE, !.low = stream[s].processed]]
    /\ outcomes' = [outcomes EXCEPT ![s][g] = Append(@, "running")]
    /\ UNCHANGED <<stream, analysed, continuations>>

\* failAttempt() for each of these running jobs, in one transaction.
FailAttempts(failing, invalid) ==
    LET rows(s) == {g \in Generations : <<s, g>> \in failing}
        after(s) == IF rows(s) = {} THEN jobs[s] ELSE Failed(jobs[s], CHOOSE g \in rows(s) : TRUE, invalid)
    IN  /\ jobs' = [s \in Streams |-> after(s)]
        /\ outcomes' = [s \in Streams |-> [g \in Generations |->
                          IF g \in rows(s) THEN [outcomes[s][g] EXCEPT ![jobs[s][g].attempts] = after(s)[g].state]
                          ELSE outcomes[s][g]]]
        /\ UNCHANGED <<stream, analysed, continuations>>

\* retry(): a failure reported by the owner of the attempt.
Retry(s, g, attempt, invalid) == Owned(s, g, attempt) /\ FailAttempts({<<s, g>>}, invalid)

\* recoverExpiredAttempt(): the same, after the lease has passed.
RecoverExpiredAttempt(s, g, attempt) ==
    ExpiredAttempt(s, g, attempt) /\ FailAttempts({<<s, g>>}, FALSE)

NoneExpired == {}    \* a mutant: nothing is recovered
AllExpired == {claimed \in Streams \X Generations : Expired(claimed[1], claimed[2])}
RecoverExpiredJobs == AllExpired # {} /\ FailAttempts(AllExpired, FALSE)

\* acknowledge(): results up to upTo are stored and the stream moves on; what is
\* left becomes, or widens, the successor.  A relation page that does not fit is
\* continued by a successor of the same range (upTo = low).
Acknowledge(s, g, attempt, upTo) ==
    LET job == jobs[s][g]
        new == [stream[s] EXCEPT !.processed = upTo]
        done == [jobs[s] EXCEPT ![g].state = "completed", ![g].leased = FALSE]
        left == new.committed > new.processed
    IN  /\ Owned(s, g, attempt)
        /\ upTo \in job.low..job.high
        /\ IF upTo = job.low /\ job.low < job.high
           THEN continuations < MaxContinuations /\ continuations' = continuations + 1
           ELSE continuations' = continuations
        /\ outcomes' = [outcomes EXCEPT ![s][g][attempt] = "completed"]
        /\ analysed' = [analysed EXCEPT ![s] =
                          [n \in Ordinals |-> IF job.low < n /\ n <= upTo THEN @[n] + 1 ELSE @[n]]]
        /\ \/ /\ ~left
              /\ jobs' = [jobs EXCEPT ![s] = done]
              /\ stream' = [stream EXCEPT ![s] = new]
           \/ /\ left
              /\ \E o \in Open(done) :
                   jobs' = [jobs EXCEPT ![s] = [done EXCEPT ![o].high = Higher(@, new.committed),
                                                            ![o].low = new.processed]]
              /\ stream' = [stream EXCEPT ![s] = new]
           \/ /\ left /\ Open(done) = {}
              /\ new.next <= MaxJobs
              /\ jobs' = [jobs EXCEPT ![s] = Inserted(done, new)]
              /\ stream' = [stream EXCEPT ![s] = [new EXCEPT !.next = @ + 1]]

\* The clock: the lease of a claim passes, or the back-off of a failed job.
JobLeaseLapses(s, g) ==
    /\ jobs[s][g].state = "running" /\ jobs[s][g].leased
    /\ jobs' = [jobs EXCEPT ![s][g].leased = FALSE]
    /\ UNCHANGED <<stream, outcomes, analysed, continuations>>

BackoffElapses(s, g) ==
    /\ jobs[s][g].state = "retryable" /\ ~jobs[s][g].due
    /\ jobs' = [jobs EXCEPT ![s][g].due = TRUE]
    /\ UNCHANGED <<stream, outcomes, analysed, continuations>>

JobsNext ==
    \/ \E s \in Streams : \E high \in HighWaters : Enqueue(s, high)
    \/ \E s \in Streams, g \in Generations :
          \/ Claim(s, g) \/ JobLeaseLapses(s, g) \/ BackoffElapses(s, g)
          \/ \E attempt \in 1..MaxAttempts :
                \/ \E invalid \in BOOLEAN : Retry(s, g, attempt, invalid)
                \/ RecoverExpiredAttempt(s, g, attempt)
                \/ \E upTo \in HighWaters : Acknowledge(s, g, attempt, upTo)
    \/ RecoverExpiredJobs

JobsSpec == JobsInit /\ [][JobsNext]_jobVars

---------------------------------------------------------------------------
\* The tables keep their columns' ranges, and a job's attempts its budget.
JobRow ==
    [state : {"absent", "pending", "running", "retryable", "completed", "quarantined"},
     low : HighWaters, high : HighWaters, attempts : 0..MaxAttempts, due : BOOLEAN, leased : BOOLEAN]
JobsTypeOK ==
    /\ stream \in [Streams -> [known : BOOLEAN, committed : HighWaters, processed : HighWaters, next : 1..(MaxJobs + 1)]]
    /\ jobs \in [Streams -> [Generations -> JobRow]]
    /\ DOMAIN outcomes = Streams
    /\ \A s \in Streams : DOMAIN outcomes[s] = Generations /\ \A g \in Generations :
          outcomes[s][g] \in Seq({"running", "retryable", "completed", "quarantined"})
    /\ analysed \in [Streams -> [Ordinals -> Nat]]
    /\ continuations \in 0..MaxContinuations

\* However often ranges are claimed, lost, retried, merged and continued, the
\* results of each ordinal the stream has passed are stored exactly once, and
\* none of what it has not passed.
AnalysedOnce ==
    \A s \in Streams, n \in Ordinals : analysed[s][n] = IF n <= stream[s].processed THEN 1 ELSE 0

\* Nothing that was admitted is forgotten: an open or running job reaches the
\* highest admitted ordinal, unless a quarantine holds the stream.
NothingForgotten ==
    \A s \in Streams : stream[s].committed > stream[s].processed =>
        \/ Blocked(s)
        \/ \E g \in Open(jobs[s]) \cup Running(s) : jobs[s][g].high = stream[s].committed

\* The two unique indexes of the table are never hit, so no transaction that
\* inserts a successor or resumes a job can fail on them.
IndexesHold == \A s \in Streams : Cardinality(Open(jobs[s])) <= 1 /\ Cardinality(Running(s)) <= 1

\* The successor beside a running job has never been claimed: failAttempt() can
\* delete its row, which no attempt refers to yet.
SuccessorIsFresh ==
    \A s \in Streams : Running(s) # {} => \A g \in Open(jobs[s]) : outcomes[s][g] = <<>>

\* The table of attempts tells the story of the job: one row per attempt, the
\* last one running exactly while the job runs.
AttemptsAgree ==
    \A s \in Streams, g \in Generations :
        LET tried == outcomes[s][g]
        IN  /\ Len(tried) = jobs[s][g].attempts
            /\ \A a \in DOMAIN tried : tried[a] = "running" <=> (a = Len(tried) /\ g \in Running(s))

\* A settled attempt is never rewritten, by no late answer of its child.
SettledAttemptIsFinal ==
    [][\A s \in Streams, g \in Generations : \A a \in DOMAIN outcomes[s][g] :
         outcomes[s][g][a] # "running" => outcomes'[s][g][a] = outcomes[s][g][a]]_jobVars

\* The queue keeps the promise of StreamProgress, in which leases, attempts and
\* merged ranges do not exist.
Promise == INSTANCE StreamProgress WITH
    admitted <- [s \in Streams |-> stream[s].committed],
    analysed <- [s \in Streams |-> stream[s].processed],
    held <- [s \in Streams |-> \E g \in Generations : jobs[s][g].state = "quarantined"]
ImplementsProgress == Promise!Progress
=============================================================================
