-------------------------- MODULE CaptureDrain_proofs --------------------------
(***************************************************************************)
(* Theorems about the consumers of the spool, for any number of consumers  *)
(* and deliveries, whether or not they outlive their leases.               *)
(***************************************************************************)
EXTENDS CaptureDrain, CaptureSpool_proofs

\* The labels at which a consumer has a record in hand.
Busy == {"check", "park", "reject", "persist", "offer", "release", "acknowledge", "retry"}
InHand(w, d) == d \in drain[w].batch \/ (drain[w].pc \in Busy /\ d = Cur(w))

\* What the two tables of the spool say of a delivery.
Standing(d) ==
    IF records[d].state # "absent" THEN "active"
    ELSE IF recovery[d].state \in {"committed", "quarantined"} THEN recovery[d].state ELSE "none"

DrainRow == [pc : Labels, batch : SUBSET Deliveries, cur : Deliveries \cup {None}, key : Keys \cup {None},
             work : BOOLEAN, acked : BOOLEAN, added : BOOLEAN, unacked : SUBSET Deliveries]

\* What a consumer knows at each label still holds, however long ago it looked: a
\* record that somebody else has settled meanwhile is stored, or never can be.
InHandFits(w) ==
    /\ \A d \in Deliveries : InHand(w, d) =>
          d \notin Unreadable /\ (Standing(d) = "active" \/ d \in stored \/ Refused(d))
    /\ drain[w].pc \in Busy => Cur(w) \in Deliveries
    /\ At(w, "park") => drain[w].key # None
    /\ At(w, "reject") => Refused(Cur(w))
    /\ At(w, "persist") => Missing(Cur(w)) = None
    /\ At(w, "offer") => Cur(w) \in stored
    /\ drain[w].pc \in {"release", "acknowledge"} => Cur(w) \in stored \cap offered
    /\ At(w, "release") => Announces[Cur(w)] # None

\* The database against the spool.
StoreFits ==
    /\ stored \in SUBSET Deliveries /\ offered \in SUBSET Deliveries
    /\ stored \cap Unreadable = {}
    /\ StoredInOrder /\ ConflictsNotStored
    /\ \A d \in Deliveries :
          /\ Standing(d) = "committed" => d \in stored \cap offered
          /\ Standing(d) = "quarantined" => d \in Unreadable \/ Refused(d)

\* The inductive invariant of the drain.
DrainInv ==
    /\ SpoolTypeOK /\ TablesAgree
    /\ drain \in [Drainers -> DrainRow]
    /\ StoreFits
    /\ \A w \in Drainers : InHandFits(w)

---------------------------------------------------------------------------
(* The steps of the spool, by what they make of each delivery's standing. *)

SameStanding == \A d \in Deliveries : Standing(d)' = Standing(d)

\* One delivery becomes active.
Rises(d, from) ==
    /\ Standing(d) = from /\ Standing(d)' = "active"
    /\ \A e \in Deliveries \ {d} : Standing(e)' = Standing(e)

\* Some are committed or quarantined, and rows of settled ones pruned.
Settles(committed, quarantined) ==
    \A d \in Deliveries :
        \/ Standing(d)' = Standing(d) /\ d \notin committed \cup quarantined
        \/ d \in committed /\ Standing(d) = "active" /\ Standing(d)' \in {"committed", "none"}
        \/ d \in quarantined /\ Standing(d) = "active" /\ Standing(d)' \in {"quarantined", "none"}
        \/ d \notin committed \cup quarantined
           /\ Standing(d) \in {"committed", "quarantined"} /\ Standing(d)' = "none"

\* The types of the two tables.
LEMMA TableTypes ==
    ASSUME SpoolTypeOK
    PROVE  records \in [Deliveries -> RecordRow] /\ recovery \in [Deliveries -> RecoveryRow]
  BY DEF SpoolTypeOK

\* These leave every delivery's standing as it is.
LEMMA QuietSteps ==
    ASSUME SpoolTypeOK,
           \/ \E d \in Deliveries : Retry(d) \/ ClaimLeaseLapses(d) \/ BackoffElapses(d)
           \/ \E d \in Deliveries, k \in Keys : WaitForDependency(d, k)
           \/ \E k \in Keys : ReleaseDependency(k)
           \/ QueueIdle
    PROVE  SameStanding
  <1>1. ASSUME NEW d \in Deliveries, Retry(d) PROVE SameStanding
    BY <1>1, TableTypes DEF Retry, spoolVars, SameStanding, Standing, RecordRow, RecoveryRow
  <1>2. ASSUME NEW d \in Deliveries, ClaimLeaseLapses(d) \/ BackoffElapses(d) PROVE SameStanding
    BY <1>2, TableTypes DEF ClaimLeaseLapses, BackoffElapses, SameStanding, Standing, RecordRow
  <1>3. ASSUME NEW d \in Deliveries, NEW k \in Keys, WaitForDependency(d, k) PROVE SameStanding
    BY <1>3, TableTypes DEF WaitForDependency, SameStanding, Standing, RecordRow, RecoveryRow
  <1>4. ASSUME NEW k \in Keys, ReleaseDependency(k) PROVE SameStanding
    BY <1>4, TableTypes
    DEF ReleaseDependency, Waiting, NextGeneration, SameStanding, Standing, RecordRow, RecoveryRow
  <1>5. ASSUME QueueIdle PROVE SameStanding
    BY <1>5 DEF QueueIdle, SameStanding, Standing
  <1> QED
    BY <1>1, <1>2, <1>3, <1>4, <1>5

\* An admission and a replay make one delivery active.
LEMMA RisingSteps ==
    ASSUME SpoolTypeOK, TablesAgree, NEW d \in Deliveries
    PROVE  /\ Admit(d) => Rises(d, "none")
           /\ Recover(d) => SameStanding \/ Rises(d, "quarantined")
  <1>1. ASSUME Admit(d) PROVE Rises(d, "none")
    BY <1>1, TableTypes DEF Admit, Known, Settled, NewRecord, NextGeneration, Rises, Standing, RecordRow
  <1>2. ASSUME Recover(d) PROVE SameStanding \/ Rises(d, "quarantined")
    BY <1>2, TableTypes DEF Recover, Recoverable, NewRecord, NextGeneration, Rises, SameStanding, Standing, RecordRow
  <1> QED
    BY <1>1, <1>2

\* A claim puts the damaged records of its batch into quarantine.
LEMMA ClaimSettles ==
    ASSUME SpoolTypeOK, TablesAgree, NEW batch \in SUBSET Deliveries, Claim(batch)
    PROVE  /\ Settles({}, batch \cap Unreadable)
           /\ \A d \in batch : Standing(d) = "active"
           /\ \A d \in batch \ Unreadable : Standing(d)' = "active"
  <1>1. /\ \A d \in batch : d \in Takeable /\ d \notin Exhausted /\ records[d].state # "absent"
        /\ \A d \in Exhausted \cup Expired : records[d].state # "absent"
    BY DEF Claim, Claimable, Takeable, Exhausted, Expired
  <1>2. \A d \in Deliveries :
          /\ d \in batch \cap Unreadable => records'[d].state = "absent" /\ recovery'[d].state = "quarantined"
          /\ d \in batch \ Unreadable => records'[d].state = "claimed"
          /\ d \notin batch => \/ records'[d].state # "absent" /\ records[d].state # "absent"
                               \/ records'[d] = records[d] /\ recovery'[d] = recovery[d]
    BY <1>1, TableTypes DEF Claim, NoRecord, RecordRow, RecoveryRow
  <1> QED
    BY <1>1, <1>2 DEF Settles, Standing

\* A table of which one row is settled, and then pruned.
LEMMA SettledOne ==
    ASSUME SpoolTypeOK, NEW d \in Deliveries, NEW state \in {"committed", "quarantined"},
           records[d].state # "absent",
           records' = [records EXCEPT ![d] = NoRecord],
           recovery' \in Pruned([recovery EXCEPT ![d].state = state])
    PROVE  /\ Standing(d) = "active" /\ Standing(d)' \in {state, "none"}
           /\ \A e \in Deliveries \ {d} :
                 \/ Standing(e)' = Standing(e)
                 \/ Standing(e) \in {"committed", "quarantined"} /\ Standing(e)' = "none"
  <1> DEFINE table == [recovery EXCEPT ![d].state = state]
  <1>1. table[d].state = state /\ \A e \in Deliveries \ {d} : table[e] = recovery[e]
    BY TableTypes DEF RecoveryRow
  <1> HIDE DEF table
  <1>2. \A e \in Deliveries : recovery'[e] = table[e] \/ (recovery'[e] = NoRecovery /\ Settled(table[e]))
    BY PrunedRows DEF table
  <1>3. records'[d].state = "absent" /\ \A e \in Deliveries \ {d} : records'[e] = records[e]
    BY TableTypes DEF NoRecord
  <1> QED
    BY <1>1, <1>2, <1>3 DEF Standing, Settled, NoRecovery

\* An acknowledgement commits its record, or comes too late.
LEMMA AcknowledgeSettles ==
    ASSUME SpoolTypeOK, TablesAgree, NEW d \in Deliveries, Acknowledge(d)
    PROVE  SameStanding \/ Settles({d}, {})
  <1>1. CASE UNCHANGED spoolVars
    BY <1>1 DEF spoolVars, SameStanding, Standing
  <1>2. CASE /\ records[d].state = "claimed"
             /\ records' = [records EXCEPT ![d] = NoRecord]
             /\ recovery' \in Pruned([recovery EXCEPT ![d].state = "committed"])
    BY <1>2, SettledOne DEF Settles
  <1> QED
    BY <1>1, <1>2 DEF Acknowledge

\* A quarantine settles its record, or comes too late.
LEMMA QuarantineSettles ==
    ASSUME SpoolTypeOK, TablesAgree, NEW d \in Deliveries, Quarantine(d)
    PROVE  SameStanding \/ Settles({}, {d})
  <1>1. CASE UNCHANGED spoolVars
    BY <1>1 DEF spoolVars, SameStanding, Standing
  <1>2. CASE /\ records[d].state # "absent"
             /\ records' = [records EXCEPT ![d] = NoRecord]
             /\ recovery' \in Pruned([recovery EXCEPT ![d].state = "quarantined"])
    BY <1>2, SettledOne DEF Settles
  <1> QED
    BY <1>1, <1>2 DEF Quarantine

---------------------------------------------------------------------------
(* What only grows. *)

\* A refusal of the database is for good, a dependency once found stays.
LEMMA Growing ==
    ASSUME stored \subseteq stored', NEW d
    PROVE  /\ Refused(d) => Refused(d)'
           /\ Missing(d) = None => Missing(d)' = None
           /\ Present \subseteq Present'
  BY DEF Refused, Missing, Present

\* A delivery nothing is missing for finds what it needs stored.
LEMMA NothingMissing ==
    ASSUME NEW d
    PROVE  Missing(d) = None <=> {SessionOf[d], RequestOf[d]} \ {None} \subseteq Present
  BY DEF Missing

\* What may become of a delivery without hurting the database.
Lawful(d) ==
    \/ Standing(d)' = Standing(d)
    \/ Standing(d)' \in {"active", "none"}
    \/ Standing(d)' = "committed" /\ d \in stored \cap offered
    \/ Standing(d)' = "quarantined" /\ (d \in Unreadable \/ Refused(d))

\* What may become of a delivery without hurting those who have it in hand.
Handled(d) ==
    Standing(d) = "active" =>
        Standing(d)' = "active" \/ d \in stored \/ Refused(d) \/ d \in Unreadable

\* Lawful steps keep the database sound.
LEMMA StoreKept ==
    ASSUME StoreFits, stored' = stored, offered \subseteq offered', offered' \in SUBSET Deliveries,
           \A d \in Deliveries : Lawful(d)
    PROVE  StoreFits'
  <1>1. Present' = Present /\ \A d : Refused(d)' <=> Refused(d)
    BY DEF Present, Refused
  <1>2. StoredInOrder' /\ ConflictsNotStored'
    BY <1>1 DEF StoreFits, StoredInOrder, ConflictsNotStored
  <1>3. ASSUME NEW d \in Deliveries
        PROVE  /\ Standing(d)' = "committed" => d \in stored' \cap offered'
               /\ Standing(d)' = "quarantined" => d \in Unreadable \/ Refused(d)'
    <2>1. /\ Standing(d) = "committed" => d \in stored \cap offered
          /\ Standing(d) = "quarantined" => d \in Unreadable \/ Refused(d)
      BY DEF StoreFits
    <2>2. Lawful(d)
      OBVIOUS
    <2> QED
      BY <1>1, <2>1, <2>2 DEF Lawful
  <1> QED
    BY <1>2, <1>3 DEF StoreFits

\* A consumer that does nothing keeps what it knows.
LEMMA OthersFit ==
    ASSUME NEW w, InHandFits(w), drain'[w] = drain[w],
           stored \subseteq stored', offered \subseteq offered', \A d \in Deliveries : Handled(d)
    PROVE  InHandFits(w)'
  <1>1. \A d : /\ Refused(d) => Refused(d)'
               /\ Missing(d) = None => Missing(d)' = None
    BY Growing
  <1>2. Cur(w)' = Cur(w) /\ (\A l : At(w, l)' <=> At(w, l)) /\ (\A d : InHand(w, d)' <=> InHand(w, d))
    BY DEF Cur, At, InHand
  <1>3. ASSUME NEW d \in Deliveries, InHand(w, d)
        PROVE  d \notin Unreadable /\ (Standing(d)' = "active" \/ d \in stored' \/ Refused(d)')
    BY <1>1, <1>3 DEF InHandFits, Handled
  <1> QED
    BY <1>1, <1>2, <1>3 DEF InHandFits

\* A step of one consumer: the database stays sound, and the consumer knows what
\* it should at its next label.
LEMMA ConsumerStep ==
    ASSUME DrainInv, [SpoolStep]_spoolVars, StoreFits', drain' \in [Drainers -> DrainRow],
           stored \subseteq stored', offered \subseteq offered', \A d \in Deliveries : Handled(d),
           NEW w \in Drainers, \A v \in Drainers \ {w} : drain'[v] = drain[v], InHandFits(w)'
    PROVE  DrainInv'
  <1>1. SpoolTypeOK' /\ TablesAgree'
    BY SpoolTypeStep, TablesAgreeStep DEF DrainInv
  <1>2. ASSUME NEW v \in Drainers PROVE InHandFits(v)'
    <2>1. CASE v = w
      BY <2>1
    <2>2. CASE v # w
      <3>1. drain'[v] = drain[v] /\ InHandFits(v)
        BY <2>2 DEF DrainInv
      <3> QED
        BY <3>1, OthersFit
    <2> QED
      BY <2>1, <2>2
  <1> QED
    BY <1>1, <1>2 DEF DrainInv

\* A step that no consumer takes.
LEMMA OutsideStep ==
    ASSUME DrainInv, [SpoolStep]_spoolVars, UNCHANGED <<stored, offered, drain>>,
           \A d \in Deliveries : Lawful(d) /\ Handled(d)
    PROVE  DrainInv'
  <1>1. SpoolTypeOK' /\ TablesAgree'
    BY SpoolTypeStep, TablesAgreeStep DEF DrainInv
  <1>2. StoreFits'
    BY StoreKept DEF DrainInv, StoreFits
  <1>3. \A w \in Drainers : InHandFits(w)'
    BY OthersFit DEF DrainInv
  <1> QED
    BY <1>1, <1>2, <1>3 DEF DrainInv

\* Standings that stay are lawful, and so is a delivery that becomes active.
LEMMA QuietIsLawful ==
    ASSUME SameStanding \/ \E d \in Deliveries, from \in {"none", "quarantined"} : Rises(d, from)
    PROVE  \A e \in Deliveries : Lawful(e) /\ Handled(e)
  BY DEF SameStanding, Rises, Lawful, Handled

\* So is a settlement of what is stored, refused or unreadable.
LEMMA SettlesIsLawful ==
    ASSUME NEW committed, NEW quarantined, Settles(committed, quarantined),
           \A d \in committed : d \in stored \cap offered,
           \A d \in quarantined : d \in Unreadable \/ Refused(d)
    PROVE  \A e \in Deliveries : Lawful(e) /\ Handled(e)
  BY DEF Settles, Lawful, Handled

---------------------------------------------------------------------------
\* A consumer that goes to another label with the record it has in hand.
LEMMA GotoRow ==
    ASSUME DrainInv, NEW w \in Drainers, NEW label \in Labels, Goto(w, label)
    PROVE  /\ drain' \in [Drainers -> DrainRow]
           /\ drain'[w].pc = label /\ drain'[w].batch = drain[w].batch /\ Cur(w)' = Cur(w)
           /\ drain'[w].key = drain[w].key
           /\ \A v \in Drainers \ {w} : drain'[v] = drain[v]
  <1>1. drain \in [Drainers -> DrainRow]
    BY DEF DrainInv
  <1> QED
    BY <1>1 DEF Goto, Cur, DrainRow

\* At another label a consumer knows what it knew, unless the label tells more.
LEMMA SameHand ==
    ASSUME NEW w, InHandFits(w), NEW label,
           drain'[w].pc = label, drain'[w].batch \subseteq drain[w].batch, Cur(w)' = Cur(w),
           drain'[w].key = drain[w].key,
           stored \subseteq stored', offered \subseteq offered', \A d \in Deliveries : Handled(d),
           label \in Busy => drain[w].pc \in Busy,
           label \notin {"park", "reject", "persist", "offer", "release", "acknowledge"}
    PROVE  InHandFits(w)'
  <1>1. \A d : Refused(d) => Refused(d)'
    BY Growing
  <1>2. \A d : InHand(w, d)' => InHand(w, d)
    BY DEF InHand
  <1>3. ASSUME NEW d \in Deliveries, InHand(w, d)'
        PROVE  d \notin Unreadable /\ (Standing(d)' = "active" \/ d \in stored' \/ Refused(d)')
    BY <1>1, <1>2, <1>3 DEF InHandFits, Handled
  <1>4. label \in Busy => Cur(w)' \in Deliveries
    BY DEF InHandFits
  <1> QED
    BY <1>3, <1>4 DEF InHandFits, At

\* A step of one consumer that stores nothing.
LEMMA HandStep ==
    ASSUME DrainInv, [SpoolStep]_spoolVars, stored' = stored, offered \subseteq offered', offered' \in SUBSET Deliveries,
           \A d \in Deliveries : Lawful(d) /\ Handled(d), drain' \in [Drainers -> DrainRow],
           NEW w \in Drainers, \A v \in Drainers \ {w} : drain'[v] = drain[v], InHandFits(w)'
    PROVE  DrainInv'
  <1>1. StoreFits'
    BY StoreKept DEF DrainInv
  <1> QED
    BY <1>1, ConsumerStep

\* A step that only takes a consumer to a label that tells it nothing new.
LEMMA PlainGoto ==
    ASSUME DrainInv, [SpoolStep]_spoolVars, UNCHANGED <<stored, offered>>,
           \A d \in Deliveries : Lawful(d) /\ Handled(d),
           NEW w \in Drainers, NEW label \in Labels, Goto(w, label),
           label \in Busy => drain[w].pc \in Busy,
           label \notin {"park", "reject", "persist", "offer", "release", "acknowledge"}
    PROVE  DrainInv'
  <1>1. InHandFits(w)'
    BY GotoRow, SameHand DEF DrainInv
  <1> QED
    BY <1>1, GotoRow, HandStep DEF DrainInv, StoreFits

\* Nothing happens to the tables of the spool.
LEMMA SpoolUntouched ==
    ASSUME UNCHANGED spoolVars
    PROVE  /\ [SpoolStep]_spoolVars
           /\ \A d \in Deliveries : Lawful(d) /\ Handled(d)
  BY QuietIsLawful DEF spoolVars, SameStanding, Standing

\* A consumer takes the drain lock.
LEMMA StartKeeps == ASSUME DrainInv, NEW w \in Drainers, Start(w) PROVE DrainInv'
  <1>1. TryAcquireDrainLock(w) /\ Goto(w, "claim") /\ UNCHANGED <<stored, offered>>
    BY DEF Start, storeVars
  <1>2. [SpoolStep]_spoolVars /\ QueueIdle
    BY <1>1, IdleSteps DEF SpoolStep, SpoolNext
  <1>3. \A d \in Deliveries : Lawful(d) /\ Handled(d)
    BY <1>2, QuietSteps, QuietIsLawful DEF DrainInv
  <1> QED
    BY <1>1, <1>2, <1>3, PlainGoto DEF Labels, Busy

\* What a claim returns is readable and active.
LEMMA ClaimBatchKeeps == ASSUME DrainInv, NEW w \in Drainers, ClaimBatch(w) PROVE DrainInv'
  <1>1. PICK batch \in SUBSET Claimable :
          /\ Claim(batch)
          /\ drain' = [drain EXCEPT ![w].pc = "next", ![w].batch = batch \ Unreadable]
    BY DEF ClaimBatch
  <1>2. batch \in SUBSET Deliveries /\ UNCHANGED <<stored, offered>>
    BY DEF ClaimBatch, storeVars, Claimable, Takeable, Expired
  <1>3. [SpoolStep]_spoolVars
    BY <1>1, <1>2 DEF SpoolStep, SpoolNext
  <1>4. \A d \in Deliveries : Lawful(d) /\ Handled(d)
    <2>1. Settles({}, batch \cap Unreadable)
      BY <1>1, <1>2, ClaimSettles DEF DrainInv
    <2> QED
      BY <2>1, SettlesIsLawful
  <1>5. /\ drain' \in [Drainers -> DrainRow] /\ \A v \in Drainers \ {w} : drain'[v] = drain[v]
        /\ drain'[w].pc = "next" /\ drain'[w].batch = batch \ Unreadable
    <2> DEFINE readable == batch \ Unreadable
               row == [drain[w] EXCEPT !.pc = "next", !.batch = readable]
    <2>1. readable \in SUBSET Deliveries
      BY <1>2
    <2>2. drain' = [drain EXCEPT ![w] = row]
      BY <1>1
    <2> HIDE DEF readable
    <2>3. row \in DrainRow /\ row.pc = "next" /\ row.batch = readable
      BY <2>1 DEF DrainInv, DrainRow, Labels
    <2> HIDE DEF row
    <2> QED
      BY <2>2, <2>3 DEF DrainInv, readable
  <1>6. \A d \in batch \ Unreadable : Standing(d)' = "active"
    BY <1>1, <1>2, ClaimSettles DEF DrainInv
  <1>7. InHandFits(w)'
    BY <1>5, <1>6 DEF InHandFits, InHand, At, Busy
  <1> QED
    BY <1>2, <1>3, <1>4, <1>5, <1>7, HandStep DEF DrainInv, StoreFits

\* The next record of the batch comes into hand.
LEMMA TakeNextKeeps == ASSUME DrainInv, NEW w \in Drainers, TakeNext(w) PROVE DrainInv'
  <1>1. PICK d \in drain[w].batch :
          drain' = [drain EXCEPT ![w].pc = "check", ![w].cur = d, ![w].batch = @ \ {d}]
    BY DEF TakeNext
  <1>2. UNCHANGED <<stored, offered>> /\ UNCHANGED spoolVars
    BY DEF TakeNext, storeVars
  <1>3. d \in Deliveries
    BY DEF DrainInv, DrainRow
  <1>4. /\ drain' \in [Drainers -> DrainRow] /\ \A v \in Drainers \ {w} : drain'[v] = drain[v]
        /\ drain'[w].pc = "check" /\ drain'[w].batch = drain[w].batch \ {d} /\ Cur(w)' = d
    BY <1>1, <1>3 DEF DrainInv, DrainRow, Labels, Cur
  <1>5. \A e : InHand(w, e)' => InHand(w, e)
    BY <1>4 DEF InHand
  <1>6. InHandFits(w)'
    <2>1. \A e \in Deliveries : InHand(w, e)' =>
             e \notin Unreadable /\ (Standing(e)' = "active" \/ e \in stored' \/ Refused(e)')
      <3>1. InHandFits(w)
        BY DEF DrainInv
      <3>2. \A e \in Deliveries : Handled(e) /\ (Refused(e) => Refused(e)')
        BY <1>2, SpoolUntouched, Growing
      <3> QED
        BY <1>2, <1>5, <3>1, <3>2 DEF InHandFits, Handled
    <2> QED
      BY <1>3, <1>4, <2>1 DEF InHandFits, At
  <1> QED
    BY <1>2, <1>4, <1>6, SpoolUntouched, HandStep DEF DrainInv, StoreFits

\* A record is parked, persisted or rejected for what the look at the database showed.
LEMMA CheckKeeps == ASSUME DrainInv, NEW w \in Drainers, Check(w) PROVE DrainInv'
  <1>0. PICK d : d = Cur(w)
    OBVIOUS
  <1> DEFINE label == IF Missing(d) # None THEN "park" ELSE IF Refused(d) THEN "reject" ELSE "persist"
  <1>1. UNCHANGED <<stored, offered>> /\ UNCHANGED spoolVars /\ At(w, "check")
        /\ drain' = [drain EXCEPT ![w].key = Missing(d), ![w].pc = label]
    BY <1>0 DEF Check, storeVars
  <1>2. d \in Deliveries
    BY <1>0, <1>1 DEF DrainInv, InHandFits, At, Busy
  <1>3. Missing(d) \in Keys \cup {None} /\ label \in Labels
    BY <1>2, DrainAssumption DEF Missing, Labels
  <1>4. /\ drain' \in [Drainers -> DrainRow] /\ \A v \in Drainers \ {w} : drain'[v] = drain[v]
        /\ drain'[w].pc = label /\ drain'[w].batch = drain[w].batch /\ Cur(w)' = d
        /\ drain'[w].key = Missing(d)
    <2> DEFINE key == Missing(d)
               row == [drain[w] EXCEPT !.key = key, !.pc = label]
    <2>1. drain' = [drain EXCEPT ![w] = row]
      BY <1>1
    <2>2. key \in Keys \cup {None} /\ label \in Labels
      BY <1>3
    <2> HIDE DEF key, label
    <2>3. row \in DrainRow /\ row.pc = label /\ row.key = key /\ row.batch = drain[w].batch /\ row.cur = Cur(w)
      BY <2>2 DEF DrainInv, DrainRow, Cur
    <2> HIDE DEF row
    <2>4. drain' \in [Drainers -> DrainRow] /\ drain'[w] = row /\ \A v \in Drainers \ {w} : drain'[v] = drain[v]
      BY <2>1, <2>3 DEF DrainInv
    <2> QED
      BY <1>0, <2>3, <2>4 DEF Cur, key
  <1>5. \A e : InHand(w, e)' => InHand(w, e)
    BY <1>0, <1>1, <1>4 DEF InHand, At, Busy
  <1>6. \A e \in Deliveries : InHand(w, e)' =>
           e \notin Unreadable /\ (Standing(e)' = "active" \/ e \in stored' \/ Refused(e)')
    <2>1. InHandFits(w)
      BY DEF DrainInv
    <2>2. \A e \in Deliveries : Handled(e) /\ (Refused(e) => Refused(e)')
      BY <1>1, SpoolUntouched, Growing
    <2> QED
      BY <1>1, <1>5, <2>1, <2>2 DEF InHandFits, Handled
  <1>7. (Missing(d) = None => Missing(d)' = None) /\ (Refused(d) => Refused(d)')
    <2>1. stored \subseteq stored'
      BY <1>1
    <2> QED
      BY <2>1, Growing
  <1>8. InHandFits(w)'
    <2>1. label \in {"park", "reject", "persist"}
      OBVIOUS
    <2>2. (label = "park" => Missing(d) # None) /\ (label = "reject" => Refused(d))
          /\ (label = "persist" => Missing(d) = None)
      OBVIOUS
    <2> HIDE DEF label
    <2> QED
      BY <1>2, <1>4, <1>6, <1>7, <2>1, <2>2 DEF InHandFits, At
  <1> QED
    BY <1>1, <1>4, <1>8, SpoolUntouched, HandStep DEF DrainInv, StoreFits

\* A record is parked although another consumer may have settled it.
LEMMA ParkKeeps == ASSUME DrainInv, NEW w \in Drainers, Park(w) PROVE DrainInv'
  <1>1. PICK d, k : d = Cur(w) /\ k = drain[w].key
    OBVIOUS
  <1>2. /\ At(w, "park") /\ WaitForDependency(d, k) /\ Goto(w, "next")
        /\ UNCHANGED <<stored, offered>>
    BY <1>1 DEF Park, storeVars
  <1>3. d \in Deliveries /\ k \in Keys
    BY <1>1, <1>2 DEF DrainInv, DrainRow, InHandFits, At, Busy
  <1>4. [SpoolStep]_spoolVars
    BY <1>2, <1>3 DEF SpoolStep, SpoolNext
  <1>5. \A e \in Deliveries : Lawful(e) /\ Handled(e)
    BY <1>2, <1>3, QuietSteps, QuietIsLawful DEF DrainInv
  <1> QED
    BY <1>2, <1>4, <1>5, PlainGoto DEF Labels, Busy

\* What is put into quarantine is refused for good.
LEMMA RejectKeeps == ASSUME DrainInv, NEW w \in Drainers, Reject(w) PROVE DrainInv'
  <1>1. PICK d : d = Cur(w)
    OBVIOUS
  <1>2. At(w, "reject") /\ Quarantine(d) /\ Goto(w, "next") /\ UNCHANGED <<stored, offered>>
    BY <1>1 DEF Reject, storeVars
  <1>3. d \in Deliveries /\ Refused(d)
    BY <1>1, <1>2 DEF DrainInv, InHandFits, At, Busy
  <1>4. [SpoolStep]_spoolVars
    BY <1>2, <1>3 DEF SpoolStep, SpoolNext
  <1>5. \A e \in Deliveries : Lawful(e) /\ Handled(e)
    <2>1. CASE SameStanding
      BY <2>1, QuietIsLawful
    <2>2. CASE Settles({}, {d})
      BY <1>3, <2>2, SettlesIsLawful
    <2> QED
      BY <1>2, <1>3, <2>1, <2>2, QuarantineSettles DEF DrainInv
  <1> QED
    BY <1>2, <1>4, <1>5, PlainGoto DEF Labels, Busy

\* The database takes a record that nothing is missing for and nothing contradicts.
LEMMA PersistKeeps == ASSUME DrainInv, NEW w \in Drainers, Persist(w) PROVE DrainInv'
  <1>1. PICK d : d = Cur(w)
    OBVIOUS
  <1>2. /\ At(w, "persist") /\ UNCHANGED offered /\ UNCHANGED spoolVars
        /\ \/ ~Refused(d) /\ stored' = stored \cup {d} /\ Goto(w, "offer")
           \/ Refused(d) /\ stored' = stored /\ Goto(w, "reject")
    BY <1>1 DEF Persist
  <1>3. d \in Deliveries /\ d \notin Unreadable /\ Missing(d) = None /\ InHandFits(w) /\ drain[w].pc \in Busy
    BY <1>1, <1>2 DEF DrainInv, InHandFits, InHand, At, Busy
  <1>4. stored \subseteq stored' /\ offered' = offered /\ offered \in SUBSET Deliveries
    BY <1>2 DEF DrainInv, StoreFits
  <1>5. [SpoolStep]_spoolVars /\ \A e \in Deliveries : Lawful(e) /\ Handled(e)
    BY <1>2, SpoolUntouched
  <1>6. \A e : /\ Refused(e) => Refused(e)'
               /\ Missing(e) = None => Missing(e)' = None
               /\ Present \subseteq Present'
    BY <1>4, Growing
  <1>7. ASSUME NEW label \in {"offer", "reject"}, Goto(w, label)
        PROVE  /\ drain' \in [Drainers -> DrainRow] /\ \A v \in Drainers \ {w} : drain'[v] = drain[v]
               /\ drain'[w].pc = label /\ Cur(w)' = d /\ drain'[w].batch = drain[w].batch
               /\ \A e \in Deliveries : InHand(w, e)' =>
                     e \notin Unreadable /\ (Standing(e)' = "active" \/ e \in stored' \/ Refused(e)')
    <2>1. label \in Labels /\ label \in Busy
      BY DEF Labels, Busy
    <2>2. /\ drain' \in [Drainers -> DrainRow] /\ \A v \in Drainers \ {w} : drain'[v] = drain[v]
          /\ drain'[w].pc = label /\ Cur(w)' = d /\ drain'[w].batch = drain[w].batch
      BY <1>1, <1>7, <2>1, GotoRow
    <2>3. \A e : InHand(w, e)' => InHand(w, e)
      BY <1>1, <1>3, <2>2 DEF InHand
    <2>4. \A e \in Deliveries : InHand(w, e)' =>
             e \notin Unreadable /\ (Standing(e)' = "active" \/ e \in stored' \/ Refused(e)')
      BY <1>3, <1>4, <1>5, <1>6, <2>3 DEF InHandFits, Handled
    <2> QED
      BY <2>2, <2>4
  <1>8. CASE Refused(d) /\ stored' = stored /\ Goto(w, "reject")
    <2>1. InHandFits(w)'
      BY <1>3, <1>6, <1>7, <1>8 DEF InHandFits, At
    <2> QED
      BY <1>4, <1>5, <1>7, <1>8, <2>1, HandStep
  <1>9. CASE ~Refused(d) /\ stored' = stored \cup {d} /\ Goto(w, "offer")
    <2>1. InHandFits(w)'
      BY <1>3, <1>7, <1>9 DEF InHandFits, At
    <2>2. StoreFits'
      <3>1. StoreFits
        BY DEF DrainInv
      <3>2. StoredInOrder'
        <4>1. \A e \in stored : {SessionOf[e], RequestOf[e]} \ {None} \subseteq Present
          BY <3>1 DEF StoreFits, StoredInOrder
        <4>2. {SessionOf[d], RequestOf[d]} \ {None} \subseteq Present
          BY <1>3, NothingMissing
        <4> QED
          BY <1>6, <1>9, <4>1, <4>2 DEF StoredInOrder
      <3>3. ConflictsNotStored'
        <4>1. Conflicts[d] \cap (stored \cup {d}) = {}
          BY <1>9 DEF Refused
        <4>2. \A e \in stored : Conflicts[e] \cap stored = {} /\ e \in Deliveries
          BY <3>1 DEF StoreFits, ConflictsNotStored
        <4>3. \A e \in stored : d \notin Conflicts[e]
          BY <1>3, <4>1, <4>2, DrainAssumption
        <4> QED
          BY <1>9, <4>1, <4>2, <4>3 DEF ConflictsNotStored
      <3>4. ASSUME NEW e \in Deliveries
            PROVE  /\ Standing(e)' = "committed" => e \in stored' \cap offered'
                   /\ Standing(e)' = "quarantined" => e \in Unreadable \/ Refused(e)'
        <4>1. Standing(e)' = Standing(e)
          BY <1>2 DEF spoolVars, Standing
        <4>2. /\ Standing(e) = "committed" => e \in stored \cap offered
              /\ Standing(e) = "quarantined" => e \in Unreadable \/ Refused(e)
          BY <3>1 DEF StoreFits
        <4> QED
          BY <1>4, <1>6, <4>1, <4>2
      <3> QED
        BY <1>3, <1>4, <1>9, <3>1, <3>2, <3>3, <3>4 DEF StoreFits
    <2> QED
      BY <1>4, <1>5, <1>7, <1>9, <2>1, <2>2, ConsumerStep
  <1> QED
    BY <1>2, <1>8, <1>9

\* A consumer whose row keeps the record in hand, with other notes.
LEMMA RowStep ==
    ASSUME DrainInv, NEW w \in Drainers, NEW row \in DrainRow, drain' = [drain EXCEPT ![w] = row]
    PROVE  /\ drain' \in [Drainers -> DrainRow] /\ drain'[w] = row /\ Cur(w)' = row.cur
           /\ \A v \in Drainers \ {w} : drain'[v] = drain[v]
  <1>1. drain \in [Drainers -> DrainRow]
    BY DEF DrainInv
  <1> QED
    BY <1>1 DEF Cur

\* The offer comes after the store, and before the release and the acknowledgement.
LEMMA OfferKeeps == ASSUME DrainInv, NEW w \in Drainers, OfferAnalysis(w) PROVE DrainInv'
  <1>1. PICK d : d = Cur(w)
    OBVIOUS
  <1>2. PICK admitted \in BOOLEAN, added \in BOOLEAN :
          drain' = [drain EXCEPT
             ![w].pc = IF Announces[d] # None THEN "release" ELSE "acknowledge",
             ![w].work = added,
             ![w].unacked = IF admitted THEN @ \cup {d} ELSE @]
    BY <1>1 DEF OfferAnalysis
  <1>3. At(w, "offer") /\ offered' = offered \cup {d} /\ stored' = stored /\ UNCHANGED spoolVars
    BY <1>1 DEF OfferAnalysis
  <1>4. d \in Deliveries /\ d \in stored /\ InHandFits(w) /\ drain[w].pc \in Busy
    BY <1>1, <1>3 DEF DrainInv, InHandFits, At, Busy
  <1> DEFINE label == IF Announces[d] # None THEN "release" ELSE "acknowledge"
             unacked == IF admitted THEN drain[w].unacked \cup {d} ELSE drain[w].unacked
             row == [drain[w] EXCEPT !.pc = label, !.work = added, !.unacked = unacked]
  <1>5. drain' = [drain EXCEPT ![w] = row]
    BY <1>2
  <1>6. drain[w] \in DrainRow
    BY DEF DrainInv
  <1>7. unacked \in SUBSET Deliveries
    BY <1>4, <1>6 DEF DrainRow
  <1>8. label \in {"release", "acknowledge"} /\ (label = "release" => Announces[d] # None)
    OBVIOUS
  <1> HIDE DEF label, unacked
  <1>9. row \in DrainRow /\ row.pc = label /\ row.cur = d /\ row.batch = drain[w].batch
    BY <1>1, <1>6, <1>7, <1>8 DEF DrainRow, Labels, Cur
  <1> HIDE DEF row
  <1>10. /\ drain' \in [Drainers -> DrainRow] /\ drain'[w] = row /\ Cur(w)' = d
         /\ \A v \in Drainers \ {w} : drain'[v] = drain[v]
    BY <1>5, <1>9, RowStep
  <1>11. [SpoolStep]_spoolVars /\ \A e \in Deliveries : Lawful(e) /\ Handled(e)
    BY <1>3, SpoolUntouched
  <1>12. \A e : Refused(e) => Refused(e)'
    <2>1. stored \subseteq stored'
      BY <1>3
    <2> QED
      BY <2>1, Growing
  <1>13. \A e \in Deliveries : InHand(w, e)' =>
            e \notin Unreadable /\ (Standing(e)' = "active" \/ e \in stored' \/ Refused(e)')
    <2>1. \A e : InHand(w, e)' => InHand(w, e)
      BY <1>1, <1>4, <1>9, <1>10 DEF InHand
    <2> QED
      BY <1>3, <1>4, <1>11, <1>12, <2>1 DEF InHandFits, Handled
  <1>14. InHandFits(w)'
    BY <1>3, <1>4, <1>8, <1>9, <1>10, <1>13 DEF InHandFits, At
  <1>15. offered \subseteq offered' /\ offered' \in SUBSET Deliveries
    BY <1>3, <1>4 DEF DrainInv, StoreFits
  <1> QED
    BY <1>3, <1>10, <1>11, <1>14, <1>15, HandStep

\* A release wakes the records that wait for the stored one.
LEMMA ReleaseKeeps == ASSUME DrainInv, NEW w \in Drainers, Release(w) PROVE DrainInv'
  <1>1. PICK d, k : d = Cur(w) /\ k = Announces[d]
    OBVIOUS
  <1>2. At(w, "release") /\ ReleaseDependency(k) /\ Goto(w, "acknowledge") /\ UNCHANGED <<stored, offered>>
    BY <1>1 DEF Release, storeVars
  <1>3. d \in Deliveries /\ d \in stored \cap offered /\ k \in Keys /\ InHandFits(w) /\ drain[w].pc \in Busy
    BY <1>1, <1>2, DrainAssumption DEF DrainInv, InHandFits, At, Busy
  <1>4. [SpoolStep]_spoolVars
    BY <1>2, <1>3 DEF SpoolStep
  <1>5. \A e \in Deliveries : Lawful(e) /\ Handled(e)
    BY <1>2, <1>3, QuietSteps, QuietIsLawful DEF DrainInv
  <1>6. /\ drain' \in [Drainers -> DrainRow] /\ \A v \in Drainers \ {w} : drain'[v] = drain[v]
        /\ drain'[w].pc = "acknowledge" /\ Cur(w)' = d /\ drain'[w].batch = drain[w].batch
    BY <1>1, <1>2, GotoRow DEF Labels
  <1>7. \A e \in Deliveries : InHand(w, e)' =>
           e \notin Unreadable /\ (Standing(e)' = "active" \/ e \in stored' \/ Refused(e)')
    <2>1. \A e : InHand(w, e)' => InHand(w, e)
      BY <1>1, <1>3, <1>6 DEF InHand
    <2>2. \A e : Refused(e) => Refused(e)'
      BY <1>2, Growing
    <2> QED
      BY <1>2, <1>3, <1>5, <2>1, <2>2 DEF InHandFits, Handled
  <1>8. InHandFits(w)'
    BY <1>2, <1>3, <1>6, <1>7 DEF InHandFits, At
  <1> QED
    BY <1>2, <1>4, <1>5, <1>6, <1>8, HandStep DEF DrainInv, StoreFits

\* Only what is stored and offered is acknowledged.
LEMMA AcknowledgeRecordKeeps == ASSUME DrainInv, NEW w \in Drainers, AcknowledgeRecord(w) PROVE DrainInv'
  <1>1. PICK d : d = Cur(w)
    OBVIOUS
  <1>2. /\ At(w, "acknowledge") /\ Acknowledge(d) /\ UNCHANGED <<stored, offered>>
        /\ drain' = [drain EXCEPT ![w].pc = "next", ![w].acked = TRUE, ![w].work = FALSE,
                                  ![w].added = @ \/ drain[w].work, ![w].unacked = @ \ {d}]
    BY <1>1 DEF AcknowledgeRecord, storeVars
  <1>3. d \in Deliveries /\ d \in stored \cap offered /\ InHandFits(w) /\ drain[w] \in DrainRow
    BY <1>1, <1>2 DEF DrainInv, InHandFits, At, Busy
  <1>4. [SpoolStep]_spoolVars
    BY <1>2, <1>3 DEF SpoolStep, SpoolNext
  <1>5. \A e \in Deliveries : Lawful(e) /\ Handled(e)
    <2>1. CASE SameStanding
      BY <2>1, QuietIsLawful
    <2>2. CASE Settles({d}, {})
      BY <1>3, <2>2, SettlesIsLawful
    <2> QED
      BY <1>2, <1>3, <2>1, <2>2, AcknowledgeSettles DEF DrainInv
  <1> DEFINE added == drain[w].added \/ drain[w].work
             unacked == drain[w].unacked \ {d}
             row == [drain[w] EXCEPT !.pc = "next", !.acked = TRUE, !.work = FALSE,
                                     !.added = added, !.unacked = unacked]
  <1>6. drain' = [drain EXCEPT ![w] = row]
    BY <1>2
  <1>7. added \in BOOLEAN
    BY Zenon
  <1>8. unacked \in SUBSET Deliveries
    BY <1>3 DEF DrainRow
  <1> HIDE DEF added, unacked
  <1>9. row \in DrainRow /\ row.pc = "next" /\ row.cur = Cur(w) /\ row.batch = drain[w].batch /\ row.key = drain[w].key
    BY <1>3, <1>7, <1>8 DEF DrainRow, Labels, Cur
  <1> HIDE DEF row
  <1>10. /\ drain' \in [Drainers -> DrainRow] /\ drain'[w] = row /\ Cur(w)' = Cur(w)
         /\ \A v \in Drainers \ {w} : drain'[v] = drain[v]
    BY <1>6, <1>9, RowStep
  <1>11. InHandFits(w)'
    BY <1>2, <1>3, <1>5, <1>9, <1>10, SameHand DEF Busy
  <1> QED
    BY <1>2, <1>4, <1>5, <1>10, <1>11, HandStep DEF DrainInv, StoreFits

\* A record is given back after a failure.
LEMMA RetryRecordKeeps == ASSUME DrainInv, NEW w \in Drainers, RetryRecord(w) PROVE DrainInv'
  <1>1. PICK d : d = Cur(w)
    OBVIOUS
  <1>2. At(w, "retry") /\ Retry(d) /\ Goto(w, "next") /\ UNCHANGED <<stored, offered>>
    BY <1>1 DEF RetryRecord, storeVars
  <1>3. d \in Deliveries
    BY <1>1, <1>2 DEF DrainInv, InHandFits, At, Busy
  <1>4. [SpoolStep]_spoolVars
    BY <1>2, <1>3 DEF SpoolStep, SpoolNext
  <1>5. \A e \in Deliveries : Lawful(e) /\ Handled(e)
    BY <1>2, <1>3, QuietSteps, QuietIsLawful DEF DrainInv
  <1> QED
    BY <1>2, <1>4, <1>5, PlainGoto DEF Labels, Busy

\* The end of a drain, orderly or not: nothing is in hand any more.
LEMMA EndKeeps ==
    ASSUME DrainInv, NEW w \in Drainers, drain' = [drain EXCEPT ![w] = Idle], UNCHANGED <<stored, offered>>,
           CompleteDrain(w) \/ UNCHANGED spoolVars
    PROVE  DrainInv'
  <1>1. [SpoolStep]_spoolVars /\ QueueIdle
    BY IdleSteps DEF SpoolStep, SpoolNext
  <1>2. \A e \in Deliveries : Lawful(e) /\ Handled(e)
    BY <1>1, QuietSteps, QuietIsLawful DEF DrainInv
  <1>3. Idle \in DrainRow /\ Idle.pc = "idle" /\ Idle.batch = {}
    BY DEF Idle, DrainRow, Labels
  <1>4. /\ drain' \in [Drainers -> DrainRow] /\ drain'[w] = Idle
        /\ \A v \in Drainers \ {w} : drain'[v] = drain[v]
    BY <1>3, RowStep
  <1>5. InHandFits(w)'
    BY <1>3, <1>4 DEF InHandFits, InHand, At, Busy
  <1> QED
    BY <1>1, <1>2, <1>4, <1>5, HandStep DEF DrainInv, StoreFits

\* The steps of a consumer that leave the spool alone and tell it nothing.
LEMMA ControlKeeps ==
    ASSUME DrainInv, NEW w \in Drainers, EndBatch(w) \/ WakeAnalysis(w) \/ FailRecord(w) \/ AbortDrain(w)
    PROVE  DrainInv'
  <1>1. UNCHANGED spoolVars /\ UNCHANGED <<stored, offered>>
    BY DEF EndBatch, WakeAnalysis, FailRecord, AbortDrain, storeVars
  <1>2. \E label \in {"claim", "wake", "complete", "retry"} :
           Goto(w, label) /\ (label = "retry" => drain[w].pc \in Busy)
    BY DEF EndBatch, WakeAnalysis, FailRecord, AbortDrain, At, Busy
  <1> QED
    BY <1>1, <1>2, SpoolUntouched, PlainGoto DEF Labels, Busy

\* Hooks, recovery plans and clocks.
LEMMA EnvironmentKeeps == ASSUME DrainInv, Environment PROVE DrainInv'
  <1>1. UNCHANGED <<stored, offered, drain>>
    BY DEF Environment, drainVars, storeVars
  <1>2. [SpoolStep]_spoolVars
    BY DEF Environment, SpoolStep, SpoolNext
  <1>3. ASSUME NEW d \in Deliveries, Admit(d) \/ Recover(d) PROVE \A e \in Deliveries : Lawful(e) /\ Handled(e)
    BY <1>3, RisingSteps, QuietIsLawful DEF DrainInv
  <1>4. ASSUME NEW d \in Deliveries, BackoffElapses(d) \/ ClaimLeaseLapses(d)
        PROVE  \A e \in Deliveries : Lawful(e) /\ Handled(e)
    BY <1>4, QuietSteps, QuietIsLawful DEF DrainInv
  <1>5. ASSUME DrainLockLapses \/ \E d \in Deliveries, withReceipt \in BOOLEAN : RefuseAdmission(d, withReceipt)
        PROVE  \A e \in Deliveries : Lawful(e) /\ Handled(e)
    BY <1>5, IdleSteps, QuietSteps, QuietIsLawful DEF DrainInv
  <1>6. \A e \in Deliveries : Lawful(e) /\ Handled(e)
    BY <1>3, <1>4, <1>5 DEF Environment
  <1> QED
    BY <1>1, <1>2, <1>6, OutsideStep

\* Every step of consumers, hooks, plans and clocks keeps the invariant.
LEMMA DrainInvStep == ASSUME DrainInv, [Next]_vars PROVE DrainInv'
  <1>1. ASSUME NEW w \in Drainers, Work(w) PROVE DrainInv'
    BY <1>1, ClaimBatchKeeps, TakeNextKeeps, CheckKeeps, ParkKeeps, RejectKeeps, PersistKeeps, OfferKeeps,
       ReleaseKeeps, AcknowledgeRecordKeeps, RetryRecordKeeps, ControlKeeps, EndKeeps
    DEF Work, Complete, storeVars
  <1>2. ASSUME NEW w \in Drainers, FailRecord(w) \/ AbortDrain(w) PROVE DrainInv'
    BY <1>2, ControlKeeps
  <1>3. ASSUME NEW w \in Drainers, Crash(w) PROVE DrainInv'
    BY <1>3, EndKeeps DEF Crash, storeVars
  <1>4. ASSUME UNCHANGED spoolVars, UNCHANGED <<stored, offered, drain>> PROVE DrainInv'
    BY <1>4, SpoolUntouched, OutsideStep
  <1>5. CASE TakeAnalysisWork
    BY <1>4, <1>5 DEF TakeAnalysisWork
  <1>6. CASE UNCHANGED vars
    BY <1>4, <1>6 DEF vars, drainVars, storeVars
  <1> QED
    BY <1>1, <1>2, <1>3, <1>5, <1>6, StartKeeps, EnvironmentKeeps DEF Next

\* Empty tables, idle consumers.
LEMMA DrainInvInit == DrainInit => DrainInv
  <1> SUFFICES ASSUME DrainInit PROVE DrainInv
    OBVIOUS
  <1>1. SpoolTypeOK /\ TablesAgree
    BY SpoolAssumption
    DEF DrainInit, SpoolInit, SpoolTypeOK, TablesAgree, CounterRow, NoRecord, NoRecovery, RecordRow, RecoveryRow
  <1>2. Idle \in DrainRow /\ Idle.pc = "idle" /\ Idle.batch = {}
    BY DEF Idle, DrainRow, Labels
  <1>3. drain \in [Drainers -> DrainRow] /\ \A w \in Drainers : InHandFits(w)
    BY <1>2 DEF DrainInit, InHandFits, InHand, At, Busy
  <1>4. StoreFits
    BY DEF DrainInit, SpoolInit, NoRecord, NoRecovery, StoreFits, StoredInOrder, ConflictsNotStored, Standing
  <1> QED
    BY <1>1, <1>3, <1>4 DEF DrainInv

\* The invariant holds whatever the consumers, the clocks and the faults do.
THEOREM DrainInvariant == Spec => []DrainInv
  <1> QED
    BY DrainInvInit, DrainInvStep, PTL DEF Spec

---------------------------------------------------------------------------
\* A stored delivery found what it needs stored, and nothing contradicts it.
THEOREM StoredStaysSound == Spec => []StoredIsSound
  <1>1. DrainInv => StoredIsSound
    BY DEF DrainInv, StoreFits, StoredIsSound
  <1> QED
    BY <1>1, DrainInvariant, PTL

\* Nothing leaves the spool as committed before it is stored and was offered.
THEOREM CommittedStaysStored == Spec => []CommittedIsStored
  <1>1. ASSUME DrainInv, NEW d \in Deliveries, recovery[d].state = "committed" PROVE d \in stored \cap offered
    <2>1. Standing(d) = "committed"
      BY <1>1 DEF DrainInv, TablesAgree, Standing
    <2> QED
      BY <1>1, <2>1 DEF DrainInv, StoreFits
  <1>2. DrainInv => CommittedIsStored
    BY <1>1 DEF CommittedIsStored
  <1> QED
    BY <1>2, DrainInvariant, PTL

\* What the spool holds in quarantine is not in the database.
THEOREM QuarantinedIsNeverStored == Spec => []QuarantinedIsNotStored
  <1>1. ASSUME DrainInv, NEW d \in Deliveries, recovery[d].state = "quarantined" PROVE d \notin stored
    <2>1. Standing(d) = "quarantined"
      BY <1>1 DEF DrainInv, TablesAgree, Standing
    <2>2. d \in Unreadable \/ Refused(d)
      BY <1>1, <2>1 DEF DrainInv, StoreFits
    <2> QED
      BY <1>1, <2>2 DEF DrainInv, StoreFits, ConflictsNotStored, Refused
  <1>2. DrainInv => QuarantinedIsNotStored
    BY <1>1 DEF QuarantinedIsNotStored
  <1> QED
    BY <1>2, DrainInvariant, PTL

---------------------------------------------------------------------------
(* The drain implements AtLeastOnceDelivery, step by step. *)

\* The status of a delivery, by its standing.
LEMMA StatusByStanding ==
    /\ Status = [d \in Deliveries |-> Status[d]]
    /\ \A d \in Deliveries :
         /\ d \in stored => Status[d] = "delivered"
         /\ d \notin stored /\ Standing(d) = "active" => Status[d] = "accepted"
         /\ d \notin stored /\ Standing(d) = "quarantined" => Status[d] = "rejected"
         /\ d \notin stored /\ Standing(d) = "committed" => Status[d] = "lost"
         /\ d \notin stored /\ Standing(d) = "none" => Status[d] = "absent"
         /\ Standing(d) \in {"active", "quarantined", "committed", "none"}
  BY DEF Status, Standing

\* The same after a step.
LEMMA StatusByStandingNext ==
    /\ Status' = [d \in Deliveries |-> Status'[d]]
    /\ \A d \in Deliveries :
         /\ d \in stored' => Status'[d] = "delivered"
         /\ d \notin stored' /\ Standing(d)' = "active" => Status'[d] = "accepted"
         /\ d \notin stored' /\ Standing(d)' = "quarantined" => Status'[d] = "rejected"
         /\ d \notin stored' /\ Standing(d)' = "committed" => Status'[d] = "lost"
         /\ d \notin stored' /\ Standing(d)' = "none" => Status'[d] = "absent"
         /\ Standing(d)' \in {"active", "quarantined", "committed", "none"}
  BY DEF Status, Standing

\* A delivery of which nothing changes keeps its status.
LEMMA SameStatus ==
    ASSUME NEW d \in Deliveries, Standing(d)' = Standing(d), d \in stored' <=> d \in stored
    PROVE  Status'[d] = Status[d]
  BY StatusByStanding, StatusByStandingNext

\* Steps that change no standing are no steps of the promise.
LEMMA QuietPromised ==
    ASSUME stored' = stored, SameStanding
    PROVE  [Promise!Next]_Status
  <1>1. \A d \in Deliveries : Status'[d] = Status[d]
    BY SameStatus DEF SameStanding
  <1> QED
    BY <1>1, StatusByStanding, StatusByStandingNext

\* An admission is accepted, a replay accepted again.
LEMMA RisesPromised ==
    ASSUME stored' = stored, NEW d \in Deliveries, NEW from \in {"none", "quarantined"}, Rises(d, from)
    PROVE  [Promise!Next]_Status
  <1>1. \A e \in Deliveries \ {d} : Status'[e] = Status[e]
    BY SameStatus DEF Rises
  <1>2. CASE d \in stored
    <2>1. Status'[d] = Status[d]
      BY <1>2, StatusByStanding, StatusByStandingNext
    <2> QED
      BY <1>1, <2>1, StatusByStanding, StatusByStandingNext
  <1>3. CASE d \notin stored
    <2>1. Status[d] = (IF from = "none" THEN "absent" ELSE "rejected") /\ Status'[d] = "accepted"
      BY <1>3, StatusByStanding, StatusByStandingNext DEF Rises
    <2>2. Status' = [Status EXCEPT ![d] = "accepted"]
      BY <1>1, <2>1, StatusByStanding, StatusByStandingNext
    <2>3. Promise!Accept(d) \/ Promise!Replay(d)
      BY <2>1, <2>2 DEF Promise!Accept, Promise!Replay, Promise!Becomes
    <2> QED
      BY <2>3 DEF Promise!Next
  <1> QED
    BY <1>2, <1>3

\* Quarantines and prunes are rejections, an acknowledgement is no step.
LEMMA SettlesPromised ==
    ASSUME DrainInv, stored' = stored, NEW committed \in SUBSET stored, NEW quarantined \in SUBSET Deliveries,
           Settles(committed, quarantined)
    PROVE  [Promise!Next]_Status
  <1> DEFINE refused == quarantined \ stored
             forgotten == {d \in Deliveries \ stored : Standing(d) # "none" /\ Standing(d)' = "none"}
  <1>1. \A d \in Deliveries \ stored : Standing(d) # "committed"
    BY DEF DrainInv, StoreFits
  <1>2. \A d \in refused : Standing(d) = "active" /\ d \in Deliveries \ stored
    BY DEF Settles
  <1>3. \A d \in refused : Status[d] = "accepted"
    BY <1>2, StatusByStanding
  <1>4. \A d \in forgotten : d \in Deliveries \ stored /\ (Standing(d) = "quarantined" \/ d \in refused)
    BY <1>1 DEF Settles
  <1>5. \A d \in forgotten : Status[d] = "rejected" \/ d \in refused
    BY <1>4, StatusByStanding
  <1>6. ASSUME NEW d \in Deliveries
        PROVE  Status'[d] = IF d \in forgotten THEN "absent" ELSE IF d \in refused THEN "rejected" ELSE Status[d]
    <2>1. CASE d \in stored
      BY <2>1, StatusByStanding, StatusByStandingNext
    <2>2. CASE d \in forgotten
      BY <2>2, StatusByStandingNext
    <2>3. CASE d \notin stored /\ d \notin forgotten /\ d \in refused
      BY <1>2, <2>3, StatusByStandingNext DEF Settles
    <2>4. CASE d \notin stored /\ d \notin forgotten /\ d \notin refused
      <3>1. Standing(d)' = Standing(d)
        BY <1>1, <2>4 DEF Settles
      <3> QED
        BY <2>4, <3>1, SameStatus
    <2> QED
      BY <2>1, <2>2, <2>3, <2>4
  <1>7. refused \in SUBSET Deliveries /\ forgotten \in SUBSET Deliveries
    OBVIOUS
  <1>8. PICK out \in SUBSET Deliveries : out = forgotten
    BY <1>7
  <1> HIDE DEF refused, forgotten
  <1>9. Promise!Reject(refused, out)
    BY <1>3, <1>5, <1>6, <1>8, StatusByStandingNext DEF Promise!Reject
  <1> QED
    BY <1>7, <1>9 DEF Promise!Next

\* A record that is persisted is delivered: the record in hand was still active.
LEMMA PersistPromised ==
    ASSUME DrainInv, NEW w \in Drainers, Persist(w)
    PROVE  [Promise!Next]_Status
  <1>1. PICK d : d = Cur(w)
    OBVIOUS
  <1>2. /\ At(w, "persist") /\ UNCHANGED spoolVars
        /\ \/ ~Refused(d) /\ stored' = stored \cup {d}
           \/ stored' = stored
    BY <1>1 DEF Persist
  <1>3. SameStanding
    BY <1>2 DEF spoolVars, SameStanding, Standing
  <1>4. /\ d \in Deliveries /\ Missing(d) = None
        /\ Standing(d) = "active" \/ d \in stored \/ Refused(d)
    BY <1>1, <1>2 DEF DrainInv, InHandFits, InHand, At, Busy
  <1>5. CASE stored' = stored
    BY <1>3, <1>5, QuietPromised
  <1>6. CASE ~Refused(d) /\ d \notin stored /\ stored' = stored \cup {d}
    <2>1. Status[d] = "accepted" /\ Status'[d] = "delivered"
      BY <1>4, <1>6, StatusByStanding, StatusByStandingNext
    <2>2. \A e \in Deliveries \ {d} : Status'[e] = Status[e]
      BY <1>3, <1>6, SameStatus DEF SameStanding
    <2>3. Status' = [Status EXCEPT ![d] = "delivered"]
      BY <2>1, <2>2, StatusByStanding, StatusByStandingNext
    <2>4. \A k \in {SessionOf[d], RequestOf[d]} \ {None} :
             \E e \in {f \in Deliveries : Announces[f] = k} : Status[e] = "delivered"
      <3>1. \A k \in {SessionOf[d], RequestOf[d]} \ {None} : \E e \in stored : Announces[e] = k
        BY <1>4, NothingMissing DEF Present
      <3>2. \A e \in stored : e \in Deliveries /\ Status[e] = "delivered"
        BY StatusByStanding DEF DrainInv, StoreFits
      <3> QED
        BY <3>1, <3>2
    <2>5. \A e \in Conflicts[d] : Status[e] # "delivered"
      <3>1. \A e \in Conflicts[d] : e \in Deliveries /\ e \notin stored
        BY <1>4, <1>6, DrainAssumption DEF Refused
      <3>2. \A e \in Deliveries \ stored : Status[e] # "delivered"
        BY StatusByStanding
      <3> QED
        BY <3>1, <3>2
    <2>6. Promise!Deliver(d)
      BY <1>4, <2>1, <2>3, <2>4, <2>5 DEF Promise!Deliver, Promise!Becomes
    <2> QED
      BY <1>4, <2>6 DEF Promise!Next
  <1> QED
    BY <1>2, <1>5, <1>6

\* Every step of a consumer, a hook or a clock is a step of the promise or none.
LEMMA PromiseStep == ASSUME DrainInv, [Next]_vars PROVE [Promise!Next]_Status
  <1> USE DEF DrainInv
  <1>1. ASSUME NEW w \in Drainers, ClaimBatch(w) PROVE [Promise!Next]_Status
    <2>1. PICK batch \in SUBSET Deliveries : Claim(batch)
      BY <1>1 DEF ClaimBatch, Claimable, Takeable, Expired
    <2>2. Settles({}, batch \cap Unreadable) /\ stored' = stored
      BY <1>1, <2>1, ClaimSettles DEF ClaimBatch, storeVars
    <2>3. batch \cap Unreadable \in SUBSET Deliveries /\ {} \in SUBSET stored
      BY SpoolAssumption
    <2> QED
      BY <2>2, <2>3, SettlesPromised
  <1>2. ASSUME NEW w \in Drainers, Reject(w) PROVE [Promise!Next]_Status
    <2>1. PICK d : d = Cur(w)
      OBVIOUS
    <2>2. d \in Deliveries /\ Quarantine(d) /\ stored' = stored
      BY <1>2, <2>1 DEF Reject, storeVars, InHandFits, At, Busy
    <2>3. {d} \in SUBSET Deliveries /\ {} \in SUBSET stored
      BY <2>2
    <2> QED
      BY <2>2, <2>3, QuarantineSettles, QuietPromised, SettlesPromised
  <1>3. ASSUME NEW w \in Drainers, AcknowledgeRecord(w) PROVE [Promise!Next]_Status
    <2>1. PICK d : d = Cur(w)
      OBVIOUS
    <2>2. d \in Deliveries /\ d \in stored /\ Acknowledge(d) /\ stored' = stored
      BY <1>3, <2>1 DEF AcknowledgeRecord, storeVars, InHandFits, At, Busy
    <2>3. {d} \in SUBSET stored /\ {} \in SUBSET Deliveries
      BY <2>2
    <2> QED
      BY <2>2, <2>3, AcknowledgeSettles, QuietPromised, SettlesPromised
  <1>4. ASSUME NEW d \in Deliveries, Admit(d) \/ Recover(d), stored' = stored PROVE [Promise!Next]_Status
    BY <1>4, RisingSteps, QuietPromised, RisesPromised
  <1>5. ASSUME stored' = stored,
               \/ \E d \in Deliveries : Retry(d) \/ ClaimLeaseLapses(d) \/ BackoffElapses(d)
               \/ \E d \in Deliveries, k \in Keys : WaitForDependency(d, k)
               \/ \E k \in Keys : ReleaseDependency(k)
               \/ QueueIdle
        PROVE  [Promise!Next]_Status
    BY <1>5, QuietSteps, QuietPromised
  <1>6. ASSUME NEW w \in Drainers, Park(w) \/ Release(w) \/ RetryRecord(w) PROVE [Promise!Next]_Status
    <2>1. PICK d, k : d = Cur(w) /\ k = drain[w].key
      OBVIOUS
    <2>2. CASE Park(w)
      <3>1. d \in Deliveries /\ k \in Keys /\ WaitForDependency(d, k) /\ stored' = stored
        BY <2>1, <2>2 DEF Park, storeVars, DrainRow, InHandFits, At, Busy
      <3> QED
        BY <1>5, <3>1
    <2>3. CASE Release(w)
      <3>1. Announces[d] \in Keys /\ ReleaseDependency(Announces[d]) /\ stored' = stored
        BY <2>1, <2>3, DrainAssumption DEF Release, storeVars, InHandFits, At, Busy
      <3> QED
        BY <1>5, <3>1
    <2>4. CASE RetryRecord(w)
      <3>1. d \in Deliveries /\ Retry(d) /\ stored' = stored
        BY <2>1, <2>4 DEF RetryRecord, storeVars, InHandFits, At, Busy
      <3> QED
        BY <1>5, <3>1
    <2> QED
      BY <1>6, <2>2, <2>3, <2>4
  <1>7. ASSUME UNCHANGED spoolVars, stored' = stored PROVE [Promise!Next]_Status
    BY <1>5, <1>7, IdleSteps
  <1>8. ASSUME NEW w \in Drainers,
               TakeNext(w) \/ Check(w) \/ OfferAnalysis(w) \/ EndBatch(w) \/ WakeAnalysis(w)
                  \/ FailRecord(w) \/ AbortDrain(w) \/ Crash(w)
        PROVE  [Promise!Next]_Status
    BY <1>7, <1>8 DEF TakeNext, Check, OfferAnalysis, EndBatch, WakeAnalysis, FailRecord, AbortDrain, Crash, storeVars
  <1>9. ASSUME NEW w \in Drainers, Start(w) \/ Complete(w) PROVE [Promise!Next]_Status
    <2>1. QueueIdle /\ stored' = stored
      BY <1>9, IdleSteps DEF Start, Complete, storeVars
    <2> QED
      BY <1>5, <2>1
  <1>10. ASSUME Environment PROVE [Promise!Next]_Status
    <2>1. stored' = stored
      BY <1>10 DEF Environment, drainVars, storeVars
    <2>2. ASSUME NEW d \in Deliveries, NEW withReceipt \in BOOLEAN, RefuseAdmission(d, withReceipt)
          PROVE  [Promise!Next]_Status
      BY <1>5, <2>1, <2>2, IdleSteps
    <2>3. ASSUME DrainLockLapses PROVE [Promise!Next]_Status
      BY <1>5, <2>1, <2>3, IdleSteps
    <2> QED
      BY <1>4, <1>5, <1>10, <2>1, <2>2, <2>3 DEF Environment
  <1>11. ASSUME TakeAnalysisWork \/ UNCHANGED vars PROVE [Promise!Next]_Status
    BY <1>7, <1>11 DEF TakeAnalysisWork, vars, drainVars, storeVars
  <1> QED
    BY <1>1, <1>2, <1>3, <1>6, <1>8, <1>9, <1>10, <1>11, PersistPromised DEF Next, Work

\* The drain implements AtLeastOnceDelivery: nothing accepted is lost, nothing is
\* delivered out of order, beside its contradiction or after it was rejected.
THEOREM DrainKeepsPromise == Spec => ImplementsDelivery
  <1>1. DrainInit => Promise!Init
    BY DEF DrainInit, SpoolInit, NoRecord, NoRecovery, Promise!Init, Status
  <1> QED
    BY <1>1, DrainInvariant, PromiseStep, PTL DEF Spec, ImplementsDelivery, Promise!Spec
=============================================================================
