----------------------------- MODULE Runtime_proofs -----------------------------
(***************************************************************************)
(* Theorems about the runtime service, for any targets and profiles, any   *)
(* capacity, any number of publications and any damage to the stores; and  *)
(* about the alignment of a repository, for any processes, files, plans,   *)
(* deaths and edits; about the audit of overrides, for any grants, rules,  *)
(* scopes, older tables and number of rows; and about the gate's decisions *)
(* and the manual review, for any rules and any findings.                  *)
(***************************************************************************)
EXTENDS RuntimeService, OverrideAudit, Alignment, Review,
        FiniteSetTheorems, WellFoundedInduction, TLAPS

Policy == INSTANCE RuntimePolicy WITH Global <- Every

\* The types of the data.
Snapshots == [repo : Targets, gen : Nat]
Stores == [manifest : BOOLEAN, current : Snapshots \cup {None}, lkg : Snapshots \cup {None}]
Breakers == [state : {"closed", "open", "half-open"}, failures : Nat, elapsed : BOOLEAN]
Runtimes == [index : Snapshots \cup {None}, pin : Nat \cup {None}, breaker : Breakers]

\* A store that nobody damaged: what it holds is for its target and, except for
\* the fallback of a first publication, not older than this process's own.
StoreFits(t, st, low, newest) ==
    /\ st.manifest <=> st.current # None
    /\ st.current = None => low = 0 /\ st.lkg = None
    /\ st.current # None =>
          /\ st.current.repo = t
          /\ low <= st.current.gen /\ st.current.gen <= newest
          /\ low < st.current.gen /\ st.lkg # None => low <= st.lkg.gen

\* A runtime beside such a store: neither its index nor its pin is older than what
\* this process published, and the pin is not newer than the store.
RuntimeFits(st, low, rt) ==
    /\ rt.index # None => low <= rt.index.gen
    /\ rt.pin # None => st.current # None /\ low <= rt.pin /\ rt.pin <= st.current.gen

\* A runtime between two calls.
Settled(t, rt) == rt.breaker.state # "half-open" /\ (rt.index # None => rt.index.repo = t)

\* The stores and the memory of a service: types, and what holds until damage.
SoundStores(sts, lows, newest, d) ==
    /\ sts \in [Targets -> Stores]
    /\ d = 0 => \A t \in Targets : StoreFits(t, sts[t], lows[t], newest)

SoundRuntime(t, rt, st, low, d) ==
    rt \in Runtimes /\ Settled(t, rt) /\ (d = 0 => RuntimeFits(st, low, rt))

SoundRuntimes(rs, sts, lows, d) ==
    /\ rs \in [Keys -> Runtimes \cup {None}]
    /\ \A k \in Keys : rs[k] # None => SoundRuntime(k[2], rs[k], sts[k[2]], lows[k[2]], d)

\* The other variables have their types.
Others ==
    /\ gens \in Nat /\ damaged \in Nat /\ refreshed \in [Targets -> Nat]
    /\ legacy \in [repo : Targets, gen : {0}] \cup {None}
    /\ pointer \in Targets \cup {None}
    /\ active \in [key : Keys \cup {None}, target : Targets \cup {None}]

\* The inductive invariant of the service.
ServiceInv ==
    /\ Others
    /\ SoundStores(store, refreshed, gens, damaged)
    /\ SoundRuntimes(runtimes, store, refreshed, damaged)

---------------------------------------------------------------------------
\* None is no snapshot, no generation and no target.
LEMMA Distinct == None \notin Snapshots /\ None \notin Nat /\ None \notin Targets
  BY ServiceAssumption DEF Snapshots

\* A compiled snapshot is a snapshot.
LEMMA SnapshotType ==
    ASSUME NEW t \in Targets, NEW g \in Nat
    PROVE  Snapshot(t, g) \in Snapshots /\ Snapshot(t, g) # None
           /\ Snapshot(t, g).repo = t /\ Snapshot(t, g).gen = g
  BY Distinct DEF Snapshot, Snapshots

\* A new breaker is closed.
LEMMA ClosedBreaker == Closed \in Breakers /\ Closed.state # "half-open"
  BY DEF Closed, Breakers

\* A breaker that failed, or whose attempt was aborted, is not left half-open.
LEMMA BreakerSettles ==
    ASSUME NEW b \in Breakers
    PROVE  /\ Attempting(b) \in Breakers
           /\ FailedOnceMore(b) \in Breakers /\ FailedOnceMore(b).state # "half-open"
           /\ Aborted(b) \in Breakers /\ Aborted(b).state # "half-open"
  <1>1. Attempting(b) \in Breakers
    BY DEF Attempting, Breakers
  <1>3. FailedOnceMore(b) \in Breakers /\ FailedOnceMore(b).state # "half-open"
    BY DEF FailedOnceMore, Breakers
  <1>4. Aborted(b) \in Breakers /\ Aborted(b).state # "half-open"
    BY DEF Aborted, Breakers
  <1> QED
    BY <1>1, <1>3, <1>4

\* Whatever an attempt to load ends with, the runtime stays settled, has only rules
\* of its target and nothing older than this process published.
LEMMA ResolvedFits ==
    ASSUME NEW t \in Targets, NEW rt \in Runtimes, NEW st \in Stores, NEW low \in Nat, NEW newest \in Nat,
           NEW broken, Settled(t, rt)
    PROVE  /\ Resolved(rt, t, broken, st) \in Runtimes
           /\ Settled(t, Resolved(rt, t, broken, st))
           /\ StoreFits(t, st, low, newest) /\ RuntimeFits(st, low, rt)
                => RuntimeFits(st, low, Resolved(rt, t, broken, st))
  <1> DEFINE trying == Attempting(rt.breaker)
             Loaded(s) == [rt EXCEPT !.index = s, !.breaker = Closed]
             Broken(b) == [rt EXCEPT !.breaker = b]
             Good(r) == /\ r \in Runtimes /\ Settled(t, r)
                        /\ StoreFits(t, st, low, newest) /\ RuntimeFits(st, low, rt) => RuntimeFits(st, low, r)
  <1> SUFFICES Good(Resolved(rt, t, broken, st))
    OBVIOUS
  <1>0. rt.breaker \in Breakers /\ trying \in Breakers /\ rt.index \in Snapshots \cup {None} /\ rt.pin \in Nat \cup {None}
    <2>1. rt.breaker \in Breakers /\ rt.index \in Snapshots \cup {None} /\ rt.pin \in Nat \cup {None}
      BY DEF Runtimes
    <2> QED
      BY <2>1, BreakerSettles
  <1>1. Good(rt)
    OBVIOUS
  <1>8. ASSUME NEW r \in Runtimes, r.index = rt.index, r.pin = rt.pin, r.breaker.state # "half-open" PROVE Good(r)
    <2>1. Settled(t, r)
      BY <1>8 DEF Settled
    <2>2. RuntimeFits(st, low, rt) => RuntimeFits(st, low, r)
      BY <1>8 DEF RuntimeFits
    <2> QED
      BY <2>1, <2>2
  <1>2. ASSUME NEW b \in Breakers, b.state # "half-open" PROVE Good(Broken(b))
    <2>1. Broken(b) \in Runtimes /\ Broken(b).index = rt.index /\ Broken(b).pin = rt.pin /\ Broken(b).breaker = b
      BY DEF Runtimes
    <2> HIDE DEF Broken, Good
    <2> QED
      BY <2>1, <1>2, <1>8
  <1>3. ASSUME NEW s \in Snapshots, s.repo = t,
               StoreFits(t, st, low, newest) /\ RuntimeFits(st, low, rt) => low <= s.gen
        PROVE  Good(Loaded(s))
    <2>1. Loaded(s) \in Runtimes /\ Loaded(s).index = s /\ Loaded(s).pin = rt.pin /\ Loaded(s).breaker = Closed
      BY ClosedBreaker, <1>0 DEF Runtimes
    <2> QED
      BY <2>1, <1>3, <1>0, ClosedBreaker DEF Settled, RuntimeFits
  <1>4. st.current \in Snapshots \cup {None} /\ st.lkg \in Snapshots \cup {None}
    BY DEF Stores
  <1>5. CASE rt.index # None \/ ~CanAttempt(rt.breaker)
    BY <1>1, <1>5 DEF Resolved
  <1>6. CASE ~(rt.index # None \/ ~CanAttempt(rt.breaker)) /\ broken
    <2>1. Resolved(rt, t, broken, st) = Broken(Aborted(trying))
      BY <1>6 DEF Resolved
    <2> QED
      BY <2>1, <1>2, <1>0, BreakerSettles
  <1>7. CASE ~(rt.index # None \/ ~CanAttempt(rt.breaker)) /\ ~broken
    <2>1. CASE ForTarget(st.current, t, rt.pin)
      <3>1. Resolved(rt, t, broken, st) = Loaded(st.current)
        BY <1>7, <2>1 DEF Resolved
      <3>2. st.current \in Snapshots /\ st.current.repo = t /\ st.current # None
        BY <2>1, <1>4 DEF ForTarget
      <3>3. StoreFits(t, st, low, newest) => low <= st.current.gen
        BY <3>2 DEF StoreFits
      <3> HIDE DEF Good, Loaded
      <3> QED
        BY <3>1, <3>2, <3>3, <1>3
    <2>2. CASE ~ForTarget(st.current, t, rt.pin) /\ ForTarget(st.lkg, t, None)
      <3>1. Resolved(rt, t, broken, st) = Loaded(st.lkg)
        BY <1>7, <2>2 DEF Resolved
      <3>2. st.lkg \in Snapshots /\ st.lkg.repo = t /\ st.lkg # None
        BY <2>2, <1>4 DEF ForTarget
      <3>3. ASSUME StoreFits(t, st, low, newest), RuntimeFits(st, low, rt) PROVE low <= st.lkg.gen
        <4>1. st.current # None /\ st.current.repo = t /\ st.current \in Snapshots
          BY <3>3, <3>2, <1>4 DEF StoreFits
        <4>2. rt.pin \in Nat /\ rt.pin # st.current.gen /\ low <= rt.pin /\ rt.pin <= st.current.gen
          BY <4>1, <2>2, <3>3, <1>0 DEF ForTarget, RuntimeFits
        <4>3. low < st.current.gen
          BY <4>1, <4>2 DEF Snapshots
        <4> QED
          BY <4>1, <4>3, <3>3, <3>2 DEF StoreFits
      <3> HIDE DEF Good, Loaded
      <3> QED
        BY <3>1, <3>2, <3>3, <1>3
    <2>3. CASE ~ForTarget(st.current, t, rt.pin) /\ ~ForTarget(st.lkg, t, None)
      <3>1. Resolved(rt, t, broken, st) = Broken(FailedOnceMore(trying))
        BY <1>7, <2>3 DEF Resolved
      <3> QED
        BY <3>1, <1>2, <1>0, BreakerSettles
    <2> QED
      BY <2>1, <2>2, <2>3
  <1> QED
    BY <1>5, <1>6, <1>7

\* A new runtime holds its index and its pin, with a closed breaker.
LEMMA NewRuntimeFits ==
    ASSUME NEW t, NEW index \in Snapshots \cup {None}, NEW pin \in Nat \cup {None}, NEW st, NEW low,
           index # None => index.repo = t /\ low <= index.gen,
           pin # None => st.current # None /\ low <= pin /\ pin <= st.current.gen
    PROVE  /\ NewRuntime(index, pin) \in Runtimes
           /\ Settled(t, NewRuntime(index, pin))
           /\ RuntimeFits(st, low, NewRuntime(index, pin))
  <1> DEFINE rt == NewRuntime(index, pin)
  <1>1. rt \in Runtimes /\ rt.index = index /\ rt.pin = pin /\ rt.breaker = Closed
    BY ClosedBreaker DEF NewRuntime, Runtimes
  <1>2. Settled(t, rt)
    BY <1>1, ClosedBreaker DEF Settled
  <1>3. RuntimeFits(st, low, rt)
    BY <1>1 DEF RuntimeFits
  <1> QED
    BY <1>1, <1>2, <1>3

---------------------------------------------------------------------------
\* A later store of the same target: it holds a snapshot if the earlier did, and
\* none that is older.
Later(st, next) == st.current # None => next.current # None /\ st.current.gen <= next.current.gen

\* Bringing over what an older version stored keeps a store sound.
LEMMA MigratedStore ==
    ASSUME ServiceInv, NEW t \in Targets
    PROVE  /\ Migrated(t) \in Stores
           /\ damaged = 0 => StoreFits(t, Migrated(t), refreshed[t], gens) /\ Later(store[t], Migrated(t))
  <1> DEFINE st == store[t]
  <1>1. st \in Stores /\ (damaged = 0 => StoreFits(t, st, refreshed[t], gens))
    BY DEF ServiceInv, SoundStores
  <1>2. st.manifest \in BOOLEAN /\ st.current \in Snapshots \cup {None} /\ refreshed[t] \in Nat /\ gens \in Nat
    BY <1>1 DEF Stores, ServiceInv, Others
  <1>3. CASE ~(~st.manifest /\ t # Global /\ legacy # None /\ legacy.repo = t)
    <2>1. Migrated(t) = st
      BY <1>3 DEF Migrated
    <2> QED
      BY <2>1, <1>1, <1>2 DEF Later, Snapshots
  <1>4. CASE ~st.manifest /\ t # Global /\ legacy # None /\ legacy.repo = t
    <2> DEFINE n == Migrated(t)
    <2>1. legacy \in Snapshots /\ legacy.gen = 0 /\ legacy.repo = t
      BY <1>4 DEF ServiceInv, Others, Snapshots
    <2>2. n = Published(st, legacy)
      BY <1>4 DEF Migrated
    <2>3. n \in Stores /\ n.manifest /\ n.current = legacy /\ n.lkg = st.current
      BY <2>1, <2>2, <1>2 DEF Published, Stores
    <2>4. ASSUME damaged = 0 PROVE StoreFits(t, n, refreshed[t], gens) /\ Later(st, n)
      <3>1. st.current = None /\ refreshed[t] = 0
        BY <2>4, <1>1, <1>4 DEF StoreFits
      <3> QED
        BY <3>1, <2>3, <2>1, <1>2, <1>4 DEF StoreFits, Later
    <2> QED
      BY <2>3, <2>4
  <1> QED
    BY <1>3, <1>4

\* A publication of a new snapshot, by this process or another, replaces what the
\* store held.
LEMMA PublicationFits ==
    ASSUME NEW t \in Targets, NEW st \in Stores, NEW low \in Nat, NEW newest \in Nat
    PROVE  LET s == Snapshot(t, newest + 1)
               n == PublishedStore(st, s)
           IN  /\ n \in Stores /\ n.current = s
               /\ StoreFits(t, st, low, newest) =>
                     /\ StoreFits(t, n, low, newest + 1) /\ StoreFits(t, n, newest + 1, newest + 1)
                     /\ Later(st, n)
  <1> DEFINE s == Snapshot(t, newest + 1)
             n == PublishedStore(st, s)
  <1>1. s \in Snapshots /\ s # None /\ s.repo = t /\ s.gen = newest + 1
    BY SnapshotType
  <1>2. st.current \in Snapshots \cup {None} /\ st.lkg \in Snapshots \cup {None}
    BY DEF Stores
  <1>3. n \in Stores /\ n.current = s /\ n.manifest
    BY <1>1, <1>2 DEF PublishedStore, Recovered, Published, Stores
  <1>4. ASSUME StoreFits(t, st, low, newest)
        PROVE  StoreFits(t, n, low, newest + 1) /\ StoreFits(t, n, newest + 1, newest + 1) /\ Later(st, n)
    <2>1. ~Unreadable(st)
      BY <1>4 DEF StoreFits, Unreadable
    <2>2. n.lkg = st.current
      BY <2>1 DEF PublishedStore, Published
    <2>3. low <= newest /\ (st.current # None => low <= st.current.gen /\ st.current.gen <= newest /\ st.current.gen \in Nat)
      BY <1>4, <1>2 DEF StoreFits, Snapshots
    <2> HIDE DEF s, n
    <2>4. StoreFits(t, n, low, newest + 1)
      BY <1>1, <1>3, <2>2, <2>3 DEF StoreFits
    <2>5. StoreFits(t, n, newest + 1, newest + 1)
      BY <1>1, <1>3, <2>2 DEF StoreFits
    <2>6. Later(st, n)
      BY <1>1, <1>3, <2>3 DEF Later
    <2> QED
      BY <2>4, <2>5, <2>6
  <1> QED
    BY <1>3, <1>4

\* The stores stay sound when one of them is replaced by a sound one.
LEMMA ReplacedStore ==
    ASSUME NEW sts, NEW lows \in [Targets -> Nat], NEW newest \in Nat, NEW d, SoundStores(sts, lows, newest, d),
           NEW t \in Targets, NEW st \in Stores, NEW low \in Nat, NEW next \in Nat, newest <= next,
           d = 0 => StoreFits(t, st, low, next)
    PROVE  SoundStores([sts EXCEPT ![t] = st], [lows EXCEPT ![t] = low], next, d)
  <1> DEFINE sts2 == [sts EXCEPT ![t] = st]
             lows2 == [lows EXCEPT ![t] = low]
  <1>1. sts2 \in [Targets -> Stores] /\ sts2[t] = st /\ \A u \in Targets \ {t} : sts2[u] = sts[u]
    BY DEF SoundStores
  <1>2. lows2[t] = low /\ \A u \in Targets \ {t} : lows2[u] = lows[u]
    OBVIOUS
  <1>3. ASSUME d = 0, NEW u \in Targets PROVE StoreFits(u, sts2[u], lows2[u], next)
    <2>1. CASE u = t
      BY <2>1, <1>1, <1>2, <1>3
    <2>2. CASE u # t
      <3>1. StoreFits(u, sts[u], lows[u], newest) /\ sts[u] \in Stores /\ lows[u] \in Nat
        BY <1>3 DEF SoundStores
      <3>2. sts[u].current # None => sts[u].current.gen \in Nat
        BY <3>1 DEF Stores, Snapshots
      <3>3. StoreFits(u, sts[u], lows[u], next)
        BY <3>1, <3>2 DEF StoreFits
      <3> QED
        BY <3>3, <2>2, <1>1, <1>2
    <2> QED
      BY <2>1, <2>2
  <1> QED
    BY <1>1, <1>3 DEF SoundStores

---------------------------------------------------------------------------
\* Forgetting runtimes leaves the others as they were.
LEMMA ClearedRuntimes ==
    ASSUME NEW rs, NEW sts, NEW lows, NEW d, SoundRuntimes(rs, sts, lows, d), NEW keys
    PROVE  SoundRuntimes(Cleared(rs, keys), sts, lows, d)
  <1> DEFINE cs == Cleared(rs, keys)
  <1>1. cs \in [Keys -> Runtimes \cup {None}] /\ \A k \in Keys : cs[k] \in {None, rs[k]}
    BY DEF Cleared, SoundRuntimes
  <1> QED
    BY <1>1 DEF SoundRuntimes

\* What is sound beside a store is sound beside a later one.
LEMMA LaterStore ==
    ASSUME NEW rs, NEW sts \in [Targets -> Stores], NEW lows \in [Targets -> Nat], NEW d,
           SoundRuntimes(rs, sts, lows, d),
           NEW t \in Targets, NEW st \in Stores, d = 0 => Later(sts[t], st)
    PROVE  SoundRuntimes(rs, [sts EXCEPT ![t] = st], lows, d)
  <1> DEFINE sts2 == [sts EXCEPT ![t] = st]
  <1>1. sts2[t] = st /\ \A u \in Targets \ {t} : sts2[u] = sts[u]
    OBVIOUS
  <1>2. ASSUME d = 0, NEW k \in Keys, rs[k] # None PROVE RuntimeFits(sts2[k[2]], lows[k[2]], rs[k])
    <2>1. k[2] \in Targets /\ rs[k] \in Runtimes /\ RuntimeFits(sts[k[2]], lows[k[2]], rs[k])
      BY <1>2 DEF SoundRuntimes, SoundRuntime, Keys
    <2>2. CASE k[2] = t
      <3>1. rs[k].pin \in Nat \cup {None}
        BY <2>1 DEF Runtimes
      <3>2. sts[t].current \in Snapshots \cup {None} /\ st.current \in Snapshots \cup {None}
        BY DEF Stores
      <3>3. (sts[t].current # None => sts[t].current.gen \in Nat) /\ (st.current # None => st.current.gen \in Nat)
        BY <3>2 DEF Snapshots
      <3> QED
        BY <3>1, <3>3, <2>1, <2>2, <1>1, <1>2 DEF RuntimeFits, Later
    <2>3. CASE k[2] # t
      BY <2>1, <2>3, <1>1
    <2> QED
      BY <2>2, <2>3
  <1> QED
    BY <1>2 DEF SoundRuntimes, SoundRuntime

\* One runtime replaced by a sound one.
LEMMA ReplacedRuntime ==
    ASSUME NEW rs, NEW sts, NEW lows, NEW d, SoundRuntimes(rs, sts, lows, d),
           NEW k \in Keys, NEW rt, SoundRuntime(k[2], rt, sts[k[2]], lows[k[2]], d)
    PROVE  SoundRuntimes([rs EXCEPT ![k] = rt], sts, lows, d)
  <1> DEFINE rs2 == [rs EXCEPT ![k] = rt]
  <1>1. rs2 \in [Keys -> Runtimes \cup {None}] /\ rs2[k] = rt /\ \A j \in Keys \ {k} : rs2[j] = rs[j]
    BY DEF SoundRuntimes, SoundRuntime
  <1> QED
    BY <1>1 DEF SoundRuntimes

\* The runtime of a call: the cached one, or a new one that is pinned to what the
\* store holds.
LEMMA RuntimeForSound ==
    ASSUME NEW rs, NEW sts \in [Targets -> Stores], NEW lows \in [Targets -> Nat], NEW newest \in Nat, NEW d,
           SoundRuntimes(rs, sts, lows, d), SoundStores(sts, lows, newest, d),
           NEW p \in Profiles, NEW t \in Targets
    PROVE  /\ SoundRuntimes(RuntimeFor(rs, p, t, PinOf(sts[t])), sts, lows, d)
           /\ SoundRuntime(t, RuntimeFor(rs, p, t, PinOf(sts[t]))[<<p, t>>], sts[t], lows[t], d)
  <1> DEFINE k == <<p, t>>
             pin == PinOf(sts[t])
             rt == NewRuntime(None, pin)
  <1>0. k \in Keys /\ k[2] = t /\ rs \in [Keys -> Runtimes \cup {None}]
    BY DEF Keys, SoundRuntimes
  <1>1. CASE rs[k] # None /\ pin \in {None, rs[k].pin}
    BY <1>1, <1>0 DEF RuntimeFor, SoundRuntimes
  <1>2. CASE ~(rs[k] # None /\ pin \in {None, rs[k].pin})
    <2>1. RuntimeFor(rs, p, t, pin) = [rs EXCEPT ![k] = rt]
      BY <1>2 DEF RuntimeFor
    <2>2. sts[t] \in Stores /\ sts[t].current \in Snapshots \cup {None}
      BY DEF Stores
    <2>3. pin \in Nat \cup {None} /\ (pin # None => sts[t].current # None /\ pin = sts[t].current.gen)
      BY <2>2 DEF PinOf, Snapshots
    <2>4. d = 0 /\ pin # None => sts[t].current # None /\ lows[t] <= pin /\ pin <= sts[t].current.gen
      <3>1. d = 0 => StoreFits(t, sts[t], lows[t], newest)
        BY DEF SoundStores
      <3> HIDE DEF pin
      <3> QED
        BY <3>1, <2>3 DEF StoreFits
    <2> HIDE DEF pin
    <2>5. SoundRuntime(t, rt, sts[t], lows[t], d)
      <3>1. rt \in Runtimes /\ rt.index = None /\ rt.pin = pin /\ rt.breaker = Closed
        BY <2>3, ClosedBreaker DEF NewRuntime, Runtimes
      <3>2. Settled(t, rt)
        BY <3>1, ClosedBreaker DEF Settled
      <3>3. d = 0 => RuntimeFits(sts[t], lows[t], rt)
        BY <3>1, <2>4 DEF RuntimeFits
      <3> QED
        BY <3>1, <3>2, <3>3 DEF SoundRuntime
    <2> HIDE DEF rt
    <2>6. SoundRuntimes([rs EXCEPT ![k] = rt], sts, lows, d)
      BY <2>5, <1>0, ReplacedRuntime
    <2>7. [rs EXCEPT ![k] = rt][k] = rt
      BY <1>0
    <2> QED
      BY <2>1, <2>5, <2>6, <2>7 DEF pin
  <1> QED
    BY <1>1, <1>2

\* Resolving a runtime keeps the memory of the service sound.
LEMMA ResolvedSound ==
    ASSUME NEW rs, NEW sts \in [Targets -> Stores], NEW lows \in [Targets -> Nat], NEW newest \in Nat, NEW d,
           SoundRuntimes(rs, sts, lows, d), SoundStores(sts, lows, newest, d),
           NEW p \in Profiles, NEW t \in Targets, NEW broken,
           SoundRuntime(t, rs[<<p, t>>], sts[t], lows[t], d)
    PROVE  SoundRuntimes([rs EXCEPT ![<<p, t>>] = Resolved(@, t, broken, sts[t])], sts, lows, d)
  <1> DEFINE k == <<p, t>>
  <1>0. k \in Keys /\ k[2] = t
    BY DEF Keys
  <1>1. rs[k] \in Runtimes /\ Settled(t, rs[k]) /\ (d = 0 => RuntimeFits(sts[t], lows[t], rs[k]))
    BY DEF SoundRuntime
  <1>2. PICK r : r = Resolved(rs[k], t, broken, sts[t])
    OBVIOUS
  <1>3. r \in Runtimes /\ Settled(t, r)
        /\ (StoreFits(t, sts[t], lows[t], newest) /\ RuntimeFits(sts[t], lows[t], rs[k]) => RuntimeFits(sts[t], lows[t], r))
    BY <1>1, <1>2, ResolvedFits
  <1>4. d = 0 => StoreFits(t, sts[t], lows[t], newest)
    BY DEF SoundStores
  <1>5. SoundRuntimes([rs EXCEPT ![k] = r], sts, lows, d)
    <2>1. SoundRuntime(t, r, sts[t], lows[t], d)
      BY <1>1, <1>3, <1>4 DEF SoundRuntime
    <2> QED
      BY <2>1, <1>0, ReplacedRuntime
  <1>6. [rs EXCEPT ![<<p, t>>] = Resolved(@, t, broken, sts[t])] = [rs EXCEPT ![k] = r]
    BY <1>2
  <1> QED
    BY <1>5, <1>6

\* After a publication of this process every other runtime of the target is gone.
LEMMA PublishedRuntimes ==
    ASSUME NEW rs, NEW sts \in [Targets -> Stores], NEW lows \in [Targets -> Nat], NEW d,
           SoundRuntimes(rs, sts, lows, d),
           NEW p \in Profiles, NEW t \in Targets, NEW st \in Stores, NEW s \in Snapshots,
           s.repo = t, st.current = s
    PROVE  LET rs2 == WithRuntime(rs, p, t, s, s.gen)
           IN  /\ SoundRuntimes(rs2, [sts EXCEPT ![t] = st], [lows EXCEPT ![t] = s.gen], d)
               /\ SoundRuntime(t, rs2[<<p, t>>], st, s.gen, d)
  <1> DEFINE k == <<p, t>>
             rt == NewRuntime(s, s.gen)
             cs == Cleared(rs, OfTarget(t))
             sts2 == [sts EXCEPT ![t] = st]
             lows2 == [lows EXCEPT ![t] = s.gen]
  <1>1. k \in Keys /\ k[2] = t /\ s.gen \in Nat /\ s # None
    BY Distinct DEF Keys, Snapshots
  <1>2. sts2[t] = st /\ lows2[t] = s.gen /\ \A u \in Targets \ {t} : sts2[u] = sts[u] /\ lows2[u] = lows[u]
    BY <1>1
  <1>3. rt \in Runtimes /\ rt.index = s /\ rt.pin = s.gen /\ rt.breaker = Closed
    BY <1>1, ClosedBreaker DEF NewRuntime, Runtimes
  <1>4. Settled(t, rt)
    BY <1>3, ClosedBreaker DEF Settled
  <1>5. SoundRuntime(t, rt, st, s.gen, d) /\ st = sts2[t] /\ s.gen = lows2[t]
    BY <1>1, <1>2, <1>3, <1>4 DEF RuntimeFits, SoundRuntime
  <1>6. SoundRuntimes(cs, sts2, lows2, d)
    <2>1. SoundRuntimes(cs, sts, lows, d)
      BY ClearedRuntimes
    <2>2. ASSUME NEW j \in Keys, cs[j] # None PROVE j[2] \in Targets \ {t}
      BY <2>2 DEF Cleared, OfTarget, Keys
    <2>3. ASSUME NEW j \in Keys, cs[j] # None PROVE SoundRuntime(j[2], cs[j], sts2[j[2]], lows2[j[2]], d)
      <3>1. SoundRuntime(j[2], cs[j], sts[j[2]], lows[j[2]], d)
        BY <2>1, <2>3 DEF SoundRuntimes
      <3>2. j[2] # t /\ j[2] \in Targets
        BY <2>2, <2>3
      <3> QED
        BY <3>1, <3>2, <1>2
    <2> QED
      BY <2>1, <2>3 DEF SoundRuntimes
  <1> HIDE DEF rt, cs, sts2, lows2
  <1>7. SoundRuntimes([cs EXCEPT ![k] = rt], sts2, lows2, d)
    BY <1>1, <1>5, <1>6, ReplacedRuntime
  <1>8. WithRuntime(rs, p, t, s, s.gen) = [cs EXCEPT ![k] = rt]
    BY DEF WithRuntime, Replaced, rt, cs
  <1>9. [cs EXCEPT ![k] = rt][k] = rt
    BY <1>1, <1>6 DEF SoundRuntimes
  <1> QED
    BY <1>5, <1>7, <1>8, <1>9 DEF sts2, lows2

---------------------------------------------------------------------------
\* What the invariant says of the data, for the actions below.
LEMMA ServiceTypes ==
    ASSUME ServiceInv
    PROVE  /\ store \in [Targets -> Stores] /\ refreshed \in [Targets -> Nat] /\ gens \in Nat /\ damaged \in Nat
           /\ SoundStores(store, refreshed, gens, damaged)
           /\ SoundRuntimes(runtimes, store, refreshed, damaged)
           /\ legacy \in [repo : Targets, gen : {0}] \cup {None}
           /\ pointer \in Targets \cup {None}
           /\ active \in [key : Keys \cup {None}, target : Targets \cup {None}]
  BY DEF ServiceInv, Others, SoundStores

\* What the memory keeps when a target is used is sound.
LEMMA KeptSound ==
    ASSUME ServiceInv, NEW t \in Targets
    PROVE  SoundRuntimes(Kept(t), store, refreshed, damaged)
           /\ KeptActive(t) \in [key : Keys \cup {None}, target : Targets \cup {None}]
  <1>1. SoundRuntimes(Kept(t), store, refreshed, damaged)
    BY ServiceTypes, ClearedRuntimes DEF Kept
  <1>2. KeptActive(t) \in [key : Keys \cup {None}, target : Targets \cup {None}]
    BY ServiceTypes DEF KeptActive, NoActive
  <1> QED
    BY <1>1, <1>2

\* The stores and the memory after bringing over what an older version stored.
LEMMA MigratedSound ==
    ASSUME ServiceInv, NEW t \in Targets
    PROVE  LET sts == [store EXCEPT ![t] = Migrated(t)]
           IN  /\ sts \in [Targets -> Stores] /\ sts[t] = Migrated(t)
               /\ SoundStores(sts, refreshed, gens, damaged)
               /\ SoundRuntimes(Kept(t), sts, refreshed, damaged)
  <1>1. PICK st : st = Migrated(t)
    OBVIOUS
  <1>2. st \in Stores /\ (damaged = 0 => StoreFits(t, st, refreshed[t], gens) /\ Later(store[t], st))
    BY <1>1, MigratedStore
  <1> DEFINE sts == [store EXCEPT ![t] = st]
  <1>3. sts \in [Targets -> Stores] /\ sts[t] = st
    BY <1>2, ServiceTypes
  <1>4. SoundStores(sts, refreshed, gens, damaged)
    <2>1. [refreshed EXCEPT ![t] = refreshed[t]] = refreshed /\ refreshed[t] \in Nat /\ gens <= gens
      BY ServiceTypes
    <2>2. SoundStores(sts, [refreshed EXCEPT ![t] = refreshed[t]], gens, damaged)
      BY <1>2, <2>1, ServiceTypes, ReplacedStore
    <2> QED
      BY <2>1, <2>2
  <1>5. SoundRuntimes(Kept(t), sts, refreshed, damaged)
    BY <1>2, ServiceTypes, KeptSound, LaterStore
  <1> QED
    BY <1>1, <1>3, <1>4, <1>5

\* A key of a target in use.
LEMMA ActiveType ==
    ASSUME NEW p \in Profiles, NEW t \in Targets
    PROVE  [key |-> <<p, t>>, target |-> t] \in [key : Keys \cup {None}, target : Targets \cup {None}]
  BY DEF Keys

---------------------------------------------------------------------------
(* One lemma for each action. *)

\* Compiling a snapshot numbers it anew.
LEMMA CompiledNumber == ServiceInv /\ Compiled => gens' = gens + 1 /\ gens' \in Nat
  BY ServiceTypes DEF Compiled

\* A call answered from memory.
LEMMA CachedStep ==
    ASSUME ServiceInv, NEW p \in Profiles, NEW t \in Targets, NEW broken, EvaluateCached(p, t, broken)
    PROVE  ServiceInv'
  <1> USE DEF EvaluateCached, bounds
  <1>1. Others'
    BY ServiceTypes, ActiveType DEF Others
  <1>2. SoundStores(store, refreshed, gens, damaged)'
    BY ServiceTypes
  <1>3. SoundRuntimes(runtimes, store, refreshed, damaged)'
    <2>1. PICK rs : rs = Kept(t)
      OBVIOUS
    <2>2. SoundRuntimes(rs, store, refreshed, damaged)
      BY <2>1, KeptSound
    <2>3. SoundRuntime(t, rs[<<p, t>>], store[t], refreshed[t], damaged)
      <3>1. rs[<<p, t>>] # None /\ <<p, t>> \in Keys /\ <<p, t>>[2] = t
        BY <2>1 DEF Cached, Keys
      <3> QED
        BY <3>1, <2>2 DEF SoundRuntimes
    <2>4. SoundRuntimes([rs EXCEPT ![<<p, t>>] = Resolved(@, t, broken, store[t])], store, refreshed, damaged)
      BY <2>2, <2>3, ServiceTypes, ResolvedSound
    <2>5. runtimes' = [rs EXCEPT ![<<p, t>>] = Resolved(@, t, broken, store[t])]
      BY <2>1 DEF Resolve
    <2> QED
      BY <2>4, <2>5
  <1> QED
    BY <1>1, <1>2, <1>3 DEF ServiceInv

\* The memory after a call whose runtime is taken from, or pinned to, the store.
LEMMA StoredCall ==
    ASSUME ServiceInv, NEW p \in Profiles, NEW t \in Targets, NEW broken,
           store' = [store EXCEPT ![t] = Migrated(t)],
           Resolve(p, t, RuntimeFor(Kept(t), p, t, PinOf(Migrated(t))), Migrated(t), broken),
           UNCHANGED <<refreshed, gens, damaged>>
    PROVE  SoundStores(store, refreshed, gens, damaged)' /\ SoundRuntimes(runtimes, store, refreshed, damaged)'
  <1>1. PICK sts : sts = [store EXCEPT ![t] = Migrated(t)]
    OBVIOUS
  <1>2. /\ sts \in [Targets -> Stores] /\ sts[t] = Migrated(t)
        /\ SoundStores(sts, refreshed, gens, damaged)
        /\ SoundRuntimes(Kept(t), sts, refreshed, damaged)
    BY <1>1, MigratedSound
  <1>3. PICK rs : rs = RuntimeFor(Kept(t), p, t, PinOf(sts[t]))
    OBVIOUS
  <1>4. SoundRuntimes(rs, sts, refreshed, damaged) /\ SoundRuntime(t, rs[<<p, t>>], sts[t], refreshed[t], damaged)
    BY <1>2, <1>3, ServiceTypes, RuntimeForSound
  <1>5. SoundRuntimes([rs EXCEPT ![<<p, t>>] = Resolved(@, t, broken, sts[t])], sts, refreshed, damaged)
    BY <1>2, <1>4, ServiceTypes, ResolvedSound
  <1>6. runtimes' = [rs EXCEPT ![<<p, t>>] = Resolved(@, t, broken, sts[t])]
    BY <1>2, <1>3 DEF Resolve
  <1> QED
    BY <1>1, <1>2, <1>5, <1>6

\* A call answered from the store.
LEMMA StoredStep ==
    ASSUME ServiceInv, NEW p \in Profiles, NEW t \in Targets, NEW broken, EvaluateStored(p, t, broken)
    PROVE  ServiceInv'
  <1>1. SoundStores(store, refreshed, gens, damaged)' /\ SoundRuntimes(runtimes, store, refreshed, damaged)'
    BY StoredCall DEF EvaluateStored, bounds
  <1>2. Others'
    BY ServiceTypes, ActiveType DEF EvaluateStored, Activate, Others, bounds
  <1> QED
    BY <1>1, <1>2 DEF ServiceInv

\* A publication of this process, with the runtimes of all profiles replaced.
LEMMA PublishedCall ==
    ASSUME ServiceInv, NEW p \in Profiles, NEW t \in Targets, gens' = gens + 1
    PROVE  LET s == Snapshot(t, gens + 1)
               next == PublishedStore(Migrated(t), s)
               rs == WithRuntime(Kept(t), p, t, s, s.gen)
               sts == [store EXCEPT ![t] = next]
               lows == [refreshed EXCEPT ![t] = s.gen]
           IN  /\ sts \in [Targets -> Stores] /\ lows \in [Targets -> Nat] /\ sts[t] = next /\ lows[t] = s.gen
               /\ SoundStores(sts, lows, gens + 1, damaged)
               /\ SoundRuntimes(rs, sts, lows, damaged)
               /\ SoundRuntime(t, rs[<<p, t>>], next, s.gen, damaged)
  <1>1. PICK s : s = Snapshot(t, gens + 1)
    OBVIOUS
  <1>2. PICK next : next = PublishedStore(Migrated(t), s)
    OBVIOUS
  <1>3. s \in Snapshots /\ s.repo = t /\ s.gen = gens + 1 /\ gens \in Nat
    BY <1>1, ServiceTypes, SnapshotType
  <1>4. Migrated(t) \in Stores /\ (damaged = 0 => StoreFits(t, Migrated(t), refreshed[t], gens)) /\ refreshed[t] \in Nat
    BY MigratedStore, ServiceTypes
  <1>5. next \in Stores /\ next.current = s /\ (damaged = 0 => StoreFits(t, next, gens + 1, gens + 1))
    BY <1>1, <1>2, <1>3, <1>4, PublicationFits
  <1>6. gens <= gens + 1 /\ gens + 1 \in Nat
    BY <1>3
  <1>7. SoundStores([store EXCEPT ![t] = next], [refreshed EXCEPT ![t] = gens + 1], gens + 1, damaged)
    BY <1>5, <1>6, ServiceTypes, ReplacedStore
  <1>8. PICK rs0 : rs0 = Kept(t)
    OBVIOUS
  <1>9. SoundRuntimes(rs0, store, refreshed, damaged)
    BY <1>8, KeptSound
  <1>10. LET rs == WithRuntime(rs0, p, t, s, s.gen)
         IN  /\ SoundRuntimes(rs, [store EXCEPT ![t] = next], [refreshed EXCEPT ![t] = s.gen], damaged)
             /\ SoundRuntime(t, rs[<<p, t>>], next, s.gen, damaged)
    BY <1>3, <1>5, <1>9, ServiceTypes, PublishedRuntimes
  <1>11. /\ [store EXCEPT ![t] = next] \in [Targets -> Stores] /\ [store EXCEPT ![t] = next][t] = next
         /\ [refreshed EXCEPT ![t] = s.gen] \in [Targets -> Nat] /\ [refreshed EXCEPT ![t] = s.gen][t] = s.gen
    BY <1>3, <1>5, <1>6, ServiceTypes
  <1> QED
    BY <1>1, <1>2, <1>3, <1>7, <1>8, <1>10, <1>11

\* A call that compiles a snapshot and publishes it.
LEMMA RefreshingStep ==
    ASSUME ServiceInv, NEW p \in Profiles, NEW t \in Targets, EvaluateRefreshing(p, t)
    PROVE  ServiceInv'
  <1>1. gens' = gens + 1 /\ gens' \in Nat
    BY CompiledNumber DEF EvaluateRefreshing
  <1> DEFINE s == Snapshot(t, gens + 1)
             next == PublishedStore(Migrated(t), s)
             rs == WithRuntime(Kept(t), p, t, s, s.gen)
  <1>2. /\ store' = [store EXCEPT ![t] = next] /\ refreshed' = [refreshed EXCEPT ![t] = s.gen]
        /\ runtimes' = [rs EXCEPT ![<<p, t>>] = Resolved(@, t, FALSE, next)]
        /\ damaged' = damaged
    BY <1>1 DEF EvaluateRefreshing, Resolve
  <1>3. /\ store' \in [Targets -> Stores] /\ refreshed' \in [Targets -> Nat] /\ store'[t] = next /\ refreshed'[t] = s.gen
        /\ SoundStores(store', refreshed', gens', damaged)
        /\ SoundRuntimes(rs, store', refreshed', damaged)
        /\ SoundRuntime(t, rs[<<p, t>>], next, s.gen, damaged)
    BY <1>1, <1>2, PublishedCall
  <1> HIDE DEF next, rs, s
  <1>4. SoundRuntimes(runtimes', store', refreshed', damaged)
    BY <1>1, <1>2, <1>3, ResolvedSound
  <1>5. SoundStores(store, refreshed, gens, damaged)' /\ SoundRuntimes(runtimes, store, refreshed, damaged)'
    BY <1>2, <1>3, <1>4
  <1>6. Others'
    BY <1>1, <1>2, <1>3, ServiceTypes, ActiveType DEF EvaluateRefreshing, Activate, Others
  <1> QED
    BY <1>5, <1>6 DEF ServiceInv

\* A refresh from a trusted commit.
LEMMA RefreshKnowledgeStep ==
    ASSUME ServiceInv, NEW t \in Targets, RefreshKnowledge(t)
    PROVE  ServiceInv'
  <1>0. Normal \in Profiles
    BY ServiceAssumption
  <1>1. gens' = gens + 1 /\ gens' \in Nat
    BY CompiledNumber DEF RefreshKnowledge
  <1> DEFINE s == Snapshot(t, gens + 1)
             next == PublishedStore(Migrated(t), s)
             rs == WithRuntime(Kept(t), Normal, t, s, s.gen)
  <1>2. /\ store' = [store EXCEPT ![t] = next] /\ refreshed' = [refreshed EXCEPT ![t] = s.gen]
        /\ runtimes' = rs /\ damaged' = damaged
    BY <1>1 DEF RefreshKnowledge
  <1>3. /\ refreshed' \in [Targets -> Nat]
        /\ SoundStores(store', refreshed', gens', damaged)
        /\ SoundRuntimes(rs, store', refreshed', damaged)
    BY <1>0, <1>1, <1>2, PublishedCall
  <1>4. SoundStores(store, refreshed, gens, damaged)' /\ SoundRuntimes(runtimes, store, refreshed, damaged)'
    BY <1>2, <1>3
  <1>5. Others'
    BY <1>0, <1>1, <1>2, <1>3, ServiceTypes, ActiveType DEF RefreshKnowledge, Activate, Others
  <1> QED
    BY <1>4, <1>5 DEF ServiceInv

\* A call that is refused, or whose publication fails.
LEMMA RefusedStep ==
    ASSUME ServiceInv, NEW t \in Targets, Refused(t)
    PROVE  ServiceInv'
  <1>1. SoundStores(store, refreshed, gens, damaged)' /\ SoundRuntimes(runtimes, store, refreshed, damaged)'
    BY MigratedSound DEF Refused, Refuse, bounds
  <1>2. Others'
    BY ServiceTypes, KeptSound DEF Refused, Refuse, Others, bounds
  <1> QED
    BY <1>1, <1>2 DEF ServiceInv

\* A status of the runtime used newest.
LEMMA StatusOfActiveStep ==
    ASSUME ServiceInv, NEW broken, StatusOfActive(broken)
    PROVE  ServiceInv'
  <1>1. active.key \in Keys
    BY ServiceTypes DEF StatusOfActive
  <1>2. PICK p \in Profiles, t \in Targets : active.key = <<p, t>>
    BY <1>1 DEF Keys
  <1>3. active.key[1] = p /\ active.key[2] = t
    BY <1>2
  <1>4. runtimes' = [runtimes EXCEPT ![<<p, t>>] = Resolved(@, t, broken, store[t])]
    BY <1>3 DEF StatusOfActive, Resolve
  <1>5. SoundRuntime(t, runtimes[<<p, t>>], store[t], refreshed[t], damaged)
    BY <1>1, <1>2, <1>3, ServiceTypes DEF StatusOfActive, SoundRuntimes
  <1>6. SoundRuntimes([runtimes EXCEPT ![<<p, t>>] = Resolved(@, t, broken, store[t])], store, refreshed, damaged)
    BY <1>5, ServiceTypes, ResolvedSound
  <1>7. SoundStores(store, refreshed, gens, damaged)' /\ SoundRuntimes(runtimes, store, refreshed, damaged)'
    BY <1>4, <1>6, ServiceTypes DEF StatusOfActive, bounds
  <1>8. Others'
    BY ServiceTypes DEF StatusOfActive, Others, bounds
  <1> QED
    BY <1>7, <1>8 DEF ServiceInv

\* A status of the target that the pointer names.
LEMMA StatusOfPointedStep ==
    ASSUME ServiceInv, NEW broken, StatusOfPointed(broken)
    PROVE  ServiceInv'
  <1>0. Normal \in Profiles /\ Global \in Targets
    BY ServiceAssumption
  <1>1. PICK t : t = PointedTarget
    OBVIOUS
  <1>2. t \in Targets
    BY <1>0, <1>1, ServiceTypes DEF PointedTarget
  <1>3. CASE Foreign(Migrated(t).current, t)
    <2>1. SoundStores(store, refreshed, gens, damaged)' /\ SoundRuntimes(runtimes, store, refreshed, damaged)'
      BY <1>1, <1>2, <1>3, MigratedSound DEF StatusOfPointed, Refuse, bounds
    <2>2. Others'
      BY <1>1, <1>2, <1>3, ServiceTypes, KeptSound DEF StatusOfPointed, Refuse, Others, bounds
    <2> QED
      BY <2>1, <2>2 DEF ServiceInv
  <1>4. CASE ~Foreign(Migrated(t).current, t)
    <2>1. SoundStores(store, refreshed, gens, damaged)' /\ SoundRuntimes(runtimes, store, refreshed, damaged)'
      BY <1>0, <1>1, <1>2, <1>4, StoredCall DEF StatusOfPointed, bounds
    <2>2. Others'
      BY <1>0, <1>1, <1>2, <1>4, ServiceTypes, ActiveType DEF StatusOfPointed, Others, bounds
    <2> QED
      BY <2>1, <2>2 DEF ServiceInv
  <1> QED
    BY <1>3, <1>4

\* An open breaker that may try again is still open.
LEMMA IntervalStep ==
    ASSUME ServiceInv, IntervalPasses
    PROVE  ServiceInv'
  <1>1. SoundStores(store, refreshed, gens, damaged)' /\ Others'
    BY ServiceTypes DEF IntervalPasses, Others, bounds
  <1>2. ASSUME NEW t, NEW rt, NEW st, NEW low, SoundRuntime(t, rt, st, low, damaged)
        PROVE  SoundRuntime(t, [rt EXCEPT !.breaker.elapsed = TRUE], st, low, damaged)
    <2> DEFINE r == [rt EXCEPT !.breaker.elapsed = TRUE]
    <2>1. rt \in Runtimes /\ rt.breaker \in Breakers
      BY <1>2 DEF SoundRuntime, Runtimes
    <2>2. PICK b : b = [rt.breaker EXCEPT !.elapsed = TRUE]
      OBVIOUS
    <2>3. b \in Breakers /\ b.state = rt.breaker.state
      BY <2>1, <2>2 DEF Breakers
    <2>4. r = [rt EXCEPT !.breaker = b]
      BY <2>2
    <2>5. r \in Runtimes /\ r.index = rt.index /\ r.pin = rt.pin /\ r.breaker = b
      BY <2>1, <2>3, <2>4 DEF Runtimes
    <2> HIDE DEF r
    <2>6. SoundRuntime(t, r, st, low, damaged)
      BY <2>3, <2>5, <1>2 DEF SoundRuntime, Settled, RuntimeFits
    <2> QED
      BY <2>6 DEF r
  <1>3. SoundRuntimes(runtimes, store, refreshed, damaged)'
    <2>1. /\ runtimes' \in [Keys -> Runtimes \cup {None}]
          /\ \A k \in Keys : runtimes'[k] # None =>
                SoundRuntime(k[2], runtimes'[k], store[k[2]], refreshed[k[2]], damaged)
      <3>1. ASSUME NEW k \in Keys
            PROVE  /\ runtimes'[k] \in Runtimes \cup {None}
                   /\ runtimes'[k] # None => SoundRuntime(k[2], runtimes'[k], store[k[2]], refreshed[k[2]], damaged)
        <4>1. runtimes[k] # None => SoundRuntime(k[2], runtimes[k], store[k[2]], refreshed[k[2]], damaged)
          BY ServiceTypes DEF SoundRuntimes
        <4>2. runtimes'[k] = IF runtimes[k] # None /\ runtimes[k].breaker.state = "open"
                             THEN [runtimes[k] EXCEPT !.breaker.elapsed = TRUE] ELSE runtimes[k]
          BY DEF IntervalPasses
        <4>3. CASE runtimes[k] # None /\ runtimes[k].breaker.state = "open"
          <5>1. SoundRuntime(k[2], [runtimes[k] EXCEPT !.breaker.elapsed = TRUE], store[k[2]], refreshed[k[2]], damaged)
            BY <4>1, <4>3, <1>2
          <5> QED
            BY <5>1, <4>2, <4>3 DEF SoundRuntime
        <4>4. CASE ~(runtimes[k] # None /\ runtimes[k].breaker.state = "open")
          BY <4>1, <4>2, <4>4, ServiceTypes DEF SoundRuntimes
        <4> QED
          BY <4>3, <4>4
      <3>2. runtimes' = [k \in Keys |-> runtimes'[k]]
        BY DEF IntervalPasses
      <3> QED
        BY <3>1, <3>2
    <2> QED
      BY <2>1 DEF SoundRuntimes, IntervalPasses, bounds
  <1> QED
    BY <1>1, <1>3 DEF ServiceInv

\* What another process publishes is newer than all this process knows.
LEMMA PublishElsewhereStep ==
    ASSUME ServiceInv, NEW t \in Targets, PublishElsewhere(t)
    PROVE  ServiceInv'
  <1>1. gens' = gens + 1 /\ gens' \in Nat /\ gens \in Nat /\ gens <= gens + 1
    BY CompiledNumber, ServiceTypes DEF PublishElsewhere
  <1>2. PICK st : st = PublishedStore(store[t], Snapshot(t, gens + 1))
    OBVIOUS
  <1>3. store[t] \in Stores /\ refreshed[t] \in Nat /\ (damaged = 0 => StoreFits(t, store[t], refreshed[t], gens))
    BY ServiceTypes DEF SoundStores
  <1>4. st \in Stores /\ (damaged = 0 => StoreFits(t, st, refreshed[t], gens + 1) /\ Later(store[t], st))
    BY <1>1, <1>2, <1>3, PublicationFits
  <1>5. store' = [store EXCEPT ![t] = st] /\ UNCHANGED <<refreshed, damaged, runtimes>>
    BY <1>1, <1>2 DEF PublishElsewhere, memory
  <1>6. SoundStores(store, refreshed, gens, damaged)'
    <2>1. SoundStores([store EXCEPT ![t] = st], [refreshed EXCEPT ![t] = refreshed[t]], gens + 1, damaged)
      BY <1>1, <1>3, <1>4, ServiceTypes, ReplacedStore
    <2>2. [refreshed EXCEPT ![t] = refreshed[t]] = refreshed
      BY ServiceTypes
    <2> QED
      BY <2>1, <2>2, <1>1, <1>5
  <1>7. SoundRuntimes(runtimes, store, refreshed, damaged)'
    <2>1. SoundRuntimes(runtimes, [store EXCEPT ![t] = st], refreshed, damaged)
      BY <1>4, ServiceTypes, LaterStore
    <2> QED
      BY <2>1, <1>5
  <1>8. Others'
    BY <1>1, ServiceTypes DEF PublishElsewhere, memory, Others
  <1> QED
    BY <1>6, <1>7, <1>8 DEF ServiceInv

\* Damage ends what is promised of the ages of snapshots, not of their targets.
LEMMA DamageStep ==
    ASSUME ServiceInv, NEW t \in Targets, Damage(t)
    PROVE  ServiceInv'
  <1>1. damaged' \in Nat /\ damaged' # 0
    BY ServiceTypes DEF Damage
  <1>2. Others'
    BY <1>1, ServiceTypes DEF Damage, memory, Others
  <1>3. store' \in [Targets -> Stores]
    <2>1. store[t] \in Stores /\ [store[t] EXCEPT !.current = None] \in Stores
          /\ [store[t] EXCEPT !.current = None, !.lkg = None] \in Stores
      BY ServiceTypes DEF Stores
    <2>2. CASE store' = [store EXCEPT ![t].current = None]
      <3>1. store' = [store EXCEPT ![t] = [store[t] EXCEPT !.current = None]]
        BY <2>2
      <3> QED
        BY <3>1, <2>1, ServiceTypes
    <2>3. CASE store' = [store EXCEPT ![t].current = None, ![t].lkg = None]
      <3>1. store' = [store EXCEPT ![t] = [store[t] EXCEPT !.current = None, !.lkg = None]]
        BY <2>3, ServiceTypes
      <3> QED
        BY <3>1, <2>1, ServiceTypes
    <2>4. CASE \E u \in Targets \ {t} : store[u].manifest /\ store' = [store EXCEPT ![t] = store[u]]
      BY <2>4, ServiceTypes
    <2> QED
      BY <2>2, <2>3, <2>4 DEF Damage
  <1>4. SoundStores(store, refreshed, gens, damaged)'
    BY <1>1, <1>3 DEF SoundStores
  <1>5. SoundRuntimes(runtimes, store, refreshed, damaged)'
    <2>1. runtimes' = runtimes
      BY DEF Damage, memory
    <2> QED
      BY <1>1, <2>1, ServiceTypes DEF SoundRuntimes, SoundRuntime
  <1> QED
    BY <1>2, <1>4, <1>5 DEF ServiceInv

\* A new process has published nothing and remembers nothing.
LEMMA RestartStep ==
    ASSUME ServiceInv, Restart
    PROVE  ServiceInv'
  <1>1. Others'
    BY ServiceTypes DEF Restart, NoActive, Others, bounds
  <1>2. refreshed' = [t \in Targets |-> 0] /\ UNCHANGED <<store, gens, damaged>>
    BY DEF Restart, bounds
  <1>3. SoundStores(store, refreshed, gens, damaged)'
    <2>1. ASSUME NEW t \in Targets, damaged = 0 PROVE StoreFits(t, store[t], 0, gens)
      <3>1. StoreFits(t, store[t], refreshed[t], gens) /\ refreshed[t] \in Nat /\ store[t] \in Stores
        BY <2>1, ServiceTypes DEF SoundStores
      <3>2. /\ store[t].current \in Snapshots \cup {None} /\ store[t].lkg \in Snapshots \cup {None}
            /\ gens \in Nat
        BY <3>1, ServiceTypes DEF Stores
      <3>3. \A s \in Snapshots : s.gen \in Nat
        BY DEF Snapshots
      <3> QED
        BY <3>1, <3>2, <3>3 DEF StoreFits
    <2> QED
      BY <2>1, <1>2, ServiceTypes DEF SoundStores
  <1>4. SoundRuntimes(runtimes, store, refreshed, damaged)'
    BY DEF Restart, SoundRuntimes
  <1> QED
    BY <1>1, <1>3, <1>4 DEF ServiceInv

---------------------------------------------------------------------------
\* The invariant holds at the start.
LEMMA ServiceInvInit == ServiceInit => ServiceInv
  <1> SUFFICES ASSUME ServiceInit PROVE ServiceInv
    OBVIOUS
  <1>1. Others
    BY DEF ServiceInit, Others, NoActive, Snapshot
  <1>2. SoundStores(store, refreshed, gens, damaged)
    BY DEF ServiceInit, SoundStores, StoreFits, Stores, EmptyStore
  <1>3. SoundRuntimes(runtimes, store, refreshed, damaged)
    BY DEF ServiceInit, SoundRuntimes
  <1> QED
    BY <1>1, <1>2, <1>3 DEF ServiceInv

\* Every step keeps the invariant.
LEMMA ServiceInvStep == ServiceInv /\ [Next]_vars => ServiceInv'
  <1> SUFFICES ASSUME ServiceInv, [Next]_vars PROVE ServiceInv'
    OBVIOUS
  <1>1. CASE UNCHANGED vars
    BY <1>1 DEF vars, ServiceInv, Others
  <1>2. ASSUME NEW p \in Profiles, NEW t \in Targets, Evaluate(p, t) PROVE ServiceInv'
    BY <1>2, CachedStep, StoredStep, RefreshingStep DEF Evaluate
  <1>3. ASSUME NEW t \in Targets, RefreshKnowledge(t) \/ Refused(t) \/ PublishElsewhere(t) \/ Damage(t) PROVE ServiceInv'
    BY <1>3, RefreshKnowledgeStep, RefusedStep, PublishElsewhereStep, DamageStep
  <1>4. ASSUME NEW broken \in BOOLEAN, StatusOfActive(broken) \/ StatusOfPointed(broken) PROVE ServiceInv'
    BY <1>4, StatusOfActiveStep, StatusOfPointedStep
  <1> QED
    BY <1>1, <1>2, <1>3, <1>4, IntervalStep, RestartStep DEF Next

\* The inductive invariant of the service.
THEOREM ServiceInvariant == ServiceSpec => []ServiceInv
  <1> QED
    BY ServiceInvInit, ServiceInvStep, PTL DEF ServiceSpec

---------------------------------------------------------------------------
\* Whatever the stores hold, no decision is made with another target's rules.
THEOREM OnlyOwnRules == ServiceSpec => []OwnRulesOnly
  <1>1. ServiceInv => OwnRulesOnly
    BY DEF ServiceInv, SoundRuntimes, SoundRuntime, Settled, OwnRulesOnly
  <1> QED
    BY <1>1, ServiceInvariant, PTL

\* No call, not even one that throws, leaves a breaker half-open.
THEOREM BreakersSettle == ServiceSpec => []BreakerIsSettled
  <1>1. ServiceInv => BreakerIsSettled
    BY DEF ServiceInv, SoundRuntimes, SoundRuntime, Settled, BreakerIsSettled
  <1> QED
    BY <1>1, ServiceInvariant, PTL

\* However many publications follow each other, here and elsewhere, no profile
\* decides with something older than this process published.
THEOREM RefreshesAreSeen == ServiceSpec => []RefreshIsSeen
  <1>1. ASSUME ServiceInv, NEW k \in Keys, runtimes[k] # None, runtimes[k].index # None, damaged = 0
        PROVE  runtimes[k].index.gen >= refreshed[k[2]]
    <2>1. SoundRuntime(k[2], runtimes[k], store[k[2]], refreshed[k[2]], damaged) /\ k[2] \in Targets
      BY <1>1, ServiceTypes DEF SoundRuntimes, Keys
    <2>2. refreshed[k[2]] <= runtimes[k].index.gen /\ runtimes[k] \in Runtimes
      BY <1>1, <2>1 DEF SoundRuntime, RuntimeFits
    <2>3. runtimes[k].index.gen \in Nat /\ refreshed[k[2]] \in Nat
      BY <1>1, <2>1, <2>2, ServiceTypes DEF Runtimes, Snapshots
    <2> QED
      BY <2>2, <2>3
  <1>2. ServiceInv => RefreshIsSeen
    BY <1>1 DEF RefreshIsSeen
  <1> QED
    BY <1>2, ServiceInvariant, PTL

---------------------------------------------------------------------------
(* The alignment. *)

Contents == [own : Builds \cup {None, "hooks"}, foreign : Nat]
Marks == {"none", "decide", "rolled-back"}
Labels == {"idle", "begin", "decide", "publish", "rename", "failing", "restore", "rolled-back"}
ProcRow ==
    [pc : Labels, plan : plans \cup {None}, rollback : BOOLEAN, todo : SUBSET Files, then : Marks,
     late : SUBSET Files, since : Nat]

\* An alignment of files leaves what people wrote as it is.
KeepsForeign(plan) ==
    /\ Covered(plan) \subseteq Files
    /\ \A f \in Covered(plan) : plan.before[f] \in Contents /\ plan.after[f] \in Contents
    /\ \A f \in Covered(plan) : plan.after[f].foreign = plan.before[f].foreign

DraftFits ==
    draft # None =>
        /\ draft = [build |-> draft.build, todo |-> draft.todo, before |-> draft.before]
        /\ draft.build \in Builds /\ draft.todo \subseteq Files /\ DOMAIN draft.before \subseteq Files
        /\ draft.before \in [DOMAIN draft.before -> Contents]

Types ==
    /\ files \in [Files -> Contents] /\ edits \in Nat
    /\ \A plan \in plans : KeepsForeign(plan)
    /\ DraftFits
    /\ proc \in [Installers -> ProcRow]

\* A process works on a plan, alone.
Working(p) ==
    /\ holder = p /\ Plan(p) \in plans /\ proc[p].since <= edits
    /\ proc[p].todo \subseteq Covered(Plan(p))
    /\ At(p, "rename") => proc[p].todo # {}
    /\ At(p, "restore") => proc[p].then # "none"

\* What a process has looked at is what it saw, unless it was edited since.
LooksAt(plan, pc, rest, late) ==
    /\ pc = "rename" => LET f == Min(rest) IN f \notin late => files[f] = plan.before[f]
    /\ pc = "restore" =>
          \A f \in rest : f \notin late => files[f] \in {plan.before[f], plan.after[f]}
Looks(p) == LooksAt(Plan(p), proc[p].pc, proc[p].todo, proc[p].late)

\* Where an application is that nobody disturbed.
ApplyingAt(plan, pc, rest, then) ==
    LET done == Covered(plan) \ rest
    IN  /\ pc = "restore" =>
              /\ Journaled(plan, "publishing") /\ Within(plan)
              /\ then = "rolled-back" => \A f \in done : files[f] = plan.before[f]
        /\ pc \in {"publish", "rename", "failing"} =>
              /\ Journaled(plan, "publishing")
              /\ \A f \in done : files[f] = plan.after[f]
              /\ \A f \in rest : files[f] = plan.before[f]
        /\ pc = "rolled-back" => AllBefore(plan)
Applying(p) == ApplyingAt(Plan(p), proc[p].pc, proc[p].todo, proc[p].then)

\* The plan that was written for last can go on.
LastFits == last # None => last.plan \in plans /\ (~last.rollback => Resumable(last.plan))

AlignmentInv ==
    /\ Types
    /\ \A p \in Installers : ~At(p, "idle") => Working(p) /\ Looks(p)
    /\ \A p \in Installers : ~At(p, "idle") /\ proc[p].since = edits /\ ~proc[p].rollback => Applying(p)
    /\ LastFits

---------------------------------------------------------------------------
\* Numbers have a least one.
LEMMA LeastNatural ==
    ASSUME NEW S \in SUBSET Nat, S # {}
    PROVE  \E x \in S : \A y \in S : x <= y
  <1> DEFINE below == {0 .. x : x \in S}
             smaller == StrictSubsetOrdering(Nat)
  <1>1. below \subseteq FiniteSubsetsOf(Nat) /\ below # {}
    <2>1. \A x \in S : IsFiniteSet(0 .. x) /\ 0 .. x \in SUBSET Nat
      BY FS_Interval
    <2> QED BY <2>1 DEF FiniteSubsetsOf
  <1>2. IsWellFoundedOn(smaller, FiniteSubsetsOf(Nat))
    BY FS_StrictSubsetOrderingWellFounded
  <1> HIDE DEF below, smaller
  <1>3. PICK b \in below : \A c \in below : ~(<<c, b>> \in smaller)
    BY <1>1, <1>2, WFMin, Zenon
  <1> USE DEF below, smaller
  <1>4. PICK x \in S : b = 0 .. x
    OBVIOUS
  <1>5. ASSUME NEW y \in S, y < x PROVE FALSE
    <2>1. 0 .. y \in SUBSET Nat /\ b \in SUBSET Nat
      BY <1>4
    <2>2. x \in b /\ x \notin 0 .. y /\ 0 .. y \subseteq b
      BY <1>4, <1>5
    <2>3. <<0 .. y, b>> \in smaller
      BY <2>1, <2>2 DEF StrictSubsetOrdering
    <2> QED BY <1>3, <2>3
  <1> QED BY <1>5

\* The next file of a process is one it has still to do.
LEMMA NextFile == ASSUME NEW S \in SUBSET Files, S # {} PROVE Min(S) \in S
  <1>1. S \in SUBSET Nat
    BY AlignmentAssumption DEF Files, Wrapper
  <1>2. \E x \in S : \A y \in S : x <= y
    BY <1>1, LeastNatural
  <1> QED BY <1>2 DEF Min

\* An alignment leaves what people wrote as it is.
LEMMA AlignedKeeps ==
    ASSUME NEW f \in Files, NEW c \in Contents, NEW build \in Builds, f = Wrapper => c.foreign = 0
    PROVE  Aligned(f, c, build) \in Contents /\ Aligned(f, c, build).foreign = c.foreign
  BY DEF Aligned, Content, Contents

\* Beside a process at work all others are idle.
LEMMA Alone ==
    ASSUME AlignmentInv, NEW p \in Installers, holder \in {None, p}, NEW q \in Installers, q # p
    PROVE  At(q, "idle")
  BY AlignmentAssumption DEF AlignmentInv, Working

\* A step of one process, with what it has to show.
LEMMA StepOf ==
    ASSUME AlignmentInv, NEW p \in Installers, holder \in {None, p},
           proc' \in [Installers -> ProcRow], \A q \in Installers : q # p => proc'[q] = proc[q],
           UNCHANGED <<plans, draft, edits>>, files' \in [Files -> Contents],
           ~At(p, "idle")' => Working(p)' /\ Looks(p)',
           ~At(p, "idle")' /\ proc'[p].since = edits /\ ~proc'[p].rollback => Applying(p)',
           LastFits'
    PROVE  AlignmentInv'
  <1>1. Types'
    BY DEF AlignmentInv, Types, DraftFits, KeepsForeign, Covered, ProcRow
  <1>2. \A q \in Installers : ~At(q, "idle")' => q = p
    BY Alone DEF At
  <1>3. \A q \in Installers : ~At(q, "idle")' => Working(q)' /\ Looks(q)'
    BY <1>2, Zenon
  <1>4. \A q \in Installers : ~At(q, "idle")' /\ proc'[q].since = edits' /\ ~proc'[q].rollback => Applying(q)'
    BY <1>2
  <1> QED BY <1>1, <1>3, <1>4 DEF AlignmentInv

\* A process that leaves has nothing to show.
LEMMA LeaveStep ==
    ASSUME AlignmentInv, NEW p \in Installers, holder = p, Leave(p),
           UNCHANGED <<files, plans, draft, edits>>,
           LastFits'
    PROVE  AlignmentInv'
  <1>1. proc \in [Installers -> ProcRow]
    BY DEF AlignmentInv, Types
  <1>2. Idle \in ProcRow /\ Idle.pc = "idle"
    BY DEF Idle, ProcRow, Marks, Labels
  <1>3. proc' \in [Installers -> ProcRow] /\ At(p, "idle")' /\ \A q \in Installers : q # p => proc'[q] = proc[q]
    BY <1>1, <1>2 DEF Leave, At
  <1>4. files' \in [Files -> Contents]
    BY DEF AlignmentInv, Types
  <1> QED BY <1>3, <1>4, StepOf, Zenon

\* Taking the lock.
LEMMA LockStep ==
    ASSUME AlignmentInv, NEW p \in Installers, NEW plan \in plans, NEW rollback \in BOOLEAN,
           AcquireLock(p, plan, rollback)
    PROVE  AlignmentInv'
  <1>1. proc \in [Installers -> ProcRow] /\ edits \in Nat /\ files' \in [Files -> Contents]
    BY DEF AlignmentInv, Types, AcquireLock, Looked
  <1> DEFINE row == [Idle EXCEPT !.pc = "begin", !.plan = plan, !.rollback = rollback, !.since = edits]
  <1>2. /\ row.pc = "begin" /\ row.plan = plan /\ row.rollback = rollback /\ row.todo = {}
        /\ row.then = "none" /\ row.late = {} /\ row.since = edits
    BY DEF Idle
  <1>3. row \in ProcRow
    <2>1. Idle \in ProcRow
      BY DEF Idle, ProcRow, Marks, Labels
    <2> HIDE DEF Idle
    <2>2. "begin" \in Labels
      BY DEF Labels
    <2> QED BY <1>1, <2>1, <2>2, Zenon DEF ProcRow
  <1>4. proc'[p] = row /\ proc' \in [Installers -> ProcRow] /\ \A q \in Installers : q # p => proc'[q] = proc[q]
    BY <1>1, <1>3 DEF AcquireLock
  <1>5. holder = None /\ holder' = p /\ UNCHANGED <<files, plans, draft, last, edits, journal>>
    BY DEF AcquireLock, Looked
  <1>6. Working(p)' /\ Looks(p)' /\ Applying(p)'
    <2>1. /\ proc'[p].pc = "begin" /\ proc'[p].plan = plan /\ proc'[p].todo = {} /\ proc'[p].since = edits
      BY <1>2, <1>4
    <2> HIDE DEF row
    <2> QED BY <1>1, <1>5, <2>1 DEF Working, Looks, LooksAt, Applying, ApplyingAt, At, Plan
  <1>7. LastFits'
    BY <1>5 DEF AlignmentInv, LastFits, Resumable, AllBefore, AllAfter, Journaled, Within, Covered
  <1> HIDE DEF row
  <1> QED BY <1>1, <1>4, <1>5, <1>6, <1>7, StepOf

\* What a step of p makes of its row.
RowIs(p, pc, todo, then, late) ==
    /\ proc' \in [Installers -> ProcRow] /\ \A q \in Installers : q # p => proc'[q] = proc[q]
    /\ proc'[p].pc = pc /\ proc'[p].todo = todo /\ proc'[p].then = then /\ proc'[p].late = late
    /\ proc'[p].plan = Plan(p) /\ proc'[p].rollback = proc[p].rollback /\ proc'[p].since = proc[p].since

\* A row that replaces that of p.
LEMMA RowTo ==
    ASSUME Types, NEW p \in Installers, NEW r \in ProcRow, proc' = [proc EXCEPT ![p] = r],
           r.plan = Plan(p), r.rollback = proc[p].rollback, r.since = proc[p].since
    PROVE  RowIs(p, r.pc, r.todo, r.then, r.late)
  BY DEF Types, RowIs

\* The assignments of the code to its local variables.
LEMMA Assignments ==
    ASSUME Types, NEW p \in Installers, NEW pc \in Labels, NEW todo \in SUBSET Files, NEW then \in Marks,
           NEW late \in SUBSET Files
    PROVE  /\ proc' = [proc EXCEPT ![p].pc = pc]
                => RowIs(p, pc, proc[p].todo, proc[p].then, proc[p].late)
           /\ proc' = [proc EXCEPT ![p].todo = todo]
                => RowIs(p, proc[p].pc, todo, proc[p].then, proc[p].late)
           /\ proc' = [proc EXCEPT ![p].pc = pc, ![p].late = late]
                => RowIs(p, pc, proc[p].todo, proc[p].then, late)
           /\ proc' = [proc EXCEPT ![p].pc = pc, ![p].todo = todo]
                => RowIs(p, pc, todo, proc[p].then, proc[p].late)
           /\ proc' = [proc EXCEPT ![p].pc = pc, ![p].todo = todo, ![p].then = then]
                => RowIs(p, pc, todo, then, proc[p].late)
           /\ proc' = [proc EXCEPT ![p].pc = pc, ![p].todo = todo, ![p].then = then, ![p].late = late]
                => RowIs(p, pc, todo, then, late)
  <1> DEFINE row == proc[p]
  <1>0. row \in ProcRow
    BY DEF Types
  <1>1. ASSUME proc' = [proc EXCEPT ![p].pc = pc]
        PROVE  RowIs(p, pc, proc[p].todo, proc[p].then, proc[p].late)
    <2> DEFINE r == [row EXCEPT !.pc = pc]
    <2>1. proc' = [proc EXCEPT ![p] = r]
      BY <1>1
    <2>2. r \in ProcRow
      <3> HIDE DEF row
      <3> QED BY <1>0, Zenon DEF ProcRow
    <2>3. /\ r.pc = pc /\ r.todo = row.todo /\ r.then = row.then /\ r.late = row.late
          /\ r.plan = row.plan /\ r.rollback = row.rollback /\ r.since = row.since
      <3> HIDE DEF row
      <3> QED BY <1>0 DEF ProcRow
    <2> HIDE DEF r
    <2> QED BY <2>1, <2>2, <2>3, RowTo DEF Plan
  <1>2. ASSUME proc' = [proc EXCEPT ![p].todo = todo]
        PROVE  RowIs(p, proc[p].pc, todo, proc[p].then, proc[p].late)
    <2> DEFINE r == [row EXCEPT !.todo = todo]
    <2>1. proc' = [proc EXCEPT ![p] = r]
      BY <1>2
    <2>2. r \in ProcRow
      <3> HIDE DEF row
      <3> QED BY <1>0, Zenon DEF ProcRow
    <2>3. /\ r.pc = row.pc /\ r.todo = todo /\ r.then = row.then /\ r.late = row.late
          /\ r.plan = row.plan /\ r.rollback = row.rollback /\ r.since = row.since
      <3> HIDE DEF row
      <3> QED BY <1>0 DEF ProcRow
    <2> HIDE DEF r
    <2> QED BY <2>1, <2>2, <2>3, RowTo DEF Plan
  <1>3. ASSUME proc' = [proc EXCEPT ![p].pc = pc, ![p].late = late]
        PROVE  RowIs(p, pc, proc[p].todo, proc[p].then, late)
    <2> DEFINE r == [row EXCEPT !.pc = pc, !.late = late]
    <2>1. proc' = [proc EXCEPT ![p] = r]
      BY <1>3
    <2>2. r \in ProcRow
      <3> HIDE DEF row
      <3> QED BY <1>0, Zenon DEF ProcRow
    <2>3. /\ r.pc = pc /\ r.todo = row.todo /\ r.then = row.then /\ r.late = late
          /\ r.plan = row.plan /\ r.rollback = row.rollback /\ r.since = row.since
      <3> HIDE DEF row
      <3> QED BY <1>0 DEF ProcRow
    <2> HIDE DEF r
    <2> QED BY <2>1, <2>2, <2>3, RowTo DEF Plan
  <1>4. ASSUME proc' = [proc EXCEPT ![p].pc = pc, ![p].todo = todo]
        PROVE  RowIs(p, pc, todo, proc[p].then, proc[p].late)
    <2> DEFINE r == [row EXCEPT !.pc = pc, !.todo = todo]
    <2>1. proc' = [proc EXCEPT ![p] = r]
      BY <1>4
    <2>2. r \in ProcRow
      <3> HIDE DEF row
      <3> QED BY <1>0, Zenon DEF ProcRow
    <2>3. /\ r.pc = pc /\ r.todo = todo /\ r.then = row.then /\ r.late = row.late
          /\ r.plan = row.plan /\ r.rollback = row.rollback /\ r.since = row.since
      <3> HIDE DEF row
      <3> QED BY <1>0 DEF ProcRow
    <2> HIDE DEF r
    <2> QED BY <2>1, <2>2, <2>3, RowTo DEF Plan
  <1>5. ASSUME proc' = [proc EXCEPT ![p].pc = pc, ![p].todo = todo, ![p].then = then]
        PROVE  RowIs(p, pc, todo, then, proc[p].late)
    <2> DEFINE r == [row EXCEPT !.pc = pc, !.todo = todo, !.then = then]
    <2>1. proc' = [proc EXCEPT ![p] = r]
      BY <1>5
    <2>2. r \in ProcRow
      <3> HIDE DEF row
      <3> QED BY <1>0, Zenon DEF ProcRow
    <2>3. /\ r.pc = pc /\ r.todo = todo /\ r.then = then /\ r.late = row.late
          /\ r.plan = row.plan /\ r.rollback = row.rollback /\ r.since = row.since
      <3> HIDE DEF row
      <3> QED BY <1>0 DEF ProcRow
    <2> HIDE DEF r
    <2> QED BY <2>1, <2>2, <2>3, RowTo DEF Plan
  <1>6. ASSUME proc' = [proc EXCEPT ![p].pc = pc, ![p].todo = todo, ![p].then = then, ![p].late = late]
        PROVE  RowIs(p, pc, todo, then, late)
    <2> DEFINE r == [row EXCEPT !.pc = pc, !.todo = todo, !.then = then, !.late = late]
    <2>1. proc' = [proc EXCEPT ![p] = r]
      BY <1>6
    <2>2. r \in ProcRow
      <3> HIDE DEF row
      <3> QED BY <1>0, Zenon DEF ProcRow
    <2>3. /\ r.pc = pc /\ r.todo = todo /\ r.then = then /\ r.late = late
          /\ r.plan = row.plan /\ r.rollback = row.rollback /\ r.since = row.since
      <3> HIDE DEF row
      <3> QED BY <1>0 DEF ProcRow
    <2> HIDE DEF r
    <2> QED BY <2>1, <2>2, <2>3, RowTo DEF Plan
  <1> QED BY <1>1, <1>2, <1>3, <1>4, <1>5, <1>6

\* What a process at work knows, as values.
LEMMA Locals ==
    ASSUME AlignmentInv, NEW p \in Installers, ~At(p, "idle")
    PROVE  \E plan \in plans, pc \in Labels, todo \in SUBSET Files, then \in Marks, late \in SUBSET Files :
              /\ plan = Plan(p) /\ pc = proc[p].pc /\ todo = proc[p].todo /\ then = proc[p].then
              /\ late = proc[p].late
              /\ KeepsForeign(plan) /\ todo \subseteq Covered(plan)
              /\ LooksAt(plan, pc, todo, late)
              /\ proc[p].since = edits /\ ~proc[p].rollback => ApplyingAt(plan, pc, todo, then)
  <1>1. Working(p) /\ Looks(p) /\ (proc[p].since = edits /\ ~proc[p].rollback => Applying(p))
    BY DEF AlignmentInv
  <1>2. proc[p] \in ProcRow /\ (\A plan \in plans : KeepsForeign(plan))
    BY DEF AlignmentInv, Types
  <1>3. /\ proc[p].pc \in Labels /\ proc[p].todo \in SUBSET Files /\ proc[p].then \in Marks
        /\ proc[p].late \in SUBSET Files /\ Plan(p) \in plans
    BY <1>1, <1>2 DEF ProcRow, Working
  <1>4. proc[p].todo \subseteq Covered(Plan(p)) /\ KeepsForeign(Plan(p))
    BY <1>1, <1>2 DEF Working
  <1> QED BY <1>1, <1>3, <1>4, Zenon DEF Looks, Applying

\* A step of a process that goes on.
LEMMA GoesOn ==
    ASSUME AlignmentInv, NEW p \in Installers, ~At(p, "idle"), NEW plan \in plans, plan = Plan(p),
           NEW pc, NEW todo, NEW then, NEW late, RowIs(p, pc, todo, then, late),
           UNCHANGED <<plans, draft, edits, holder>>, files' \in [Files -> Contents],
           todo \subseteq Covered(plan), pc = "rename" => todo # {}, pc = "restore" => then # "none",
           LooksAt(plan, pc, todo, late)',
           proc[p].since = edits /\ ~proc[p].rollback => ApplyingAt(plan, pc, todo, then)',
           LastFits'
    PROVE  AlignmentInv'
  <1>1. Working(p)
    BY DEF AlignmentInv
  <1>2. /\ proc'[p].pc = pc /\ proc'[p].todo = todo /\ proc'[p].then = then /\ proc'[p].late = late
        /\ proc'[p].plan = plan /\ proc'[p].rollback = proc[p].rollback /\ proc'[p].since = proc[p].since
        /\ proc' \in [Installers -> ProcRow] /\ \A q \in Installers : q # p => proc'[q] = proc[q]
    BY DEF RowIs
  <1>3. Plan(p)' = plan
    BY <1>2 DEF Plan
  <1>4. Working(p)'
    BY <1>1, <1>2, <1>3 DEF Working, At, Covered
  <1>5. Looks(p)' /\ (proc'[p].since = edits /\ ~proc'[p].rollback => Applying(p)')
    BY <1>2, <1>3 DEF Looks, Applying
  <1>6. holder = p
    BY <1>1 DEF Working
  <1> QED BY <1>2, <1>4, <1>5, <1>6, StepOf

\* What was written for last can go on as long as nothing is written.
LEMMA LastStays == ASSUME LastFits, UNCHANGED <<last, files, journal>>, plans \subseteq plans' PROVE LastFits'
  BY DEF LastFits, Resumable, AllBefore, AllAfter, Journaled, Within, Covered

\* What is written by an application that nobody disturbed has to leave its plan resumable.
LEMMA LastWritten ==
    ASSUME NEW p \in Installers, Wrote(p), UNCHANGED plans, NEW plan \in plans, plan = Plan(p),
           proc[p].since = edits /\ ~proc[p].rollback => Resumable(plan)'
    PROVE  LastFits'
  <1>1. CASE edits = proc[p].since
    <2>1. last' = [plan |-> plan, rollback |-> proc[p].rollback]
      BY <1>1 DEF Wrote
    <2>2. last'.plan = plan /\ last'.rollback = proc[p].rollback
      BY <2>1
    <2> QED BY <1>1, <2>2 DEF LastFits
  <1>2. CASE edits # proc[p].since
    BY <1>2 DEF Wrote, LastFits
  <1> QED BY <1>1, <1>2

\* What every step can use.
LEMMA Known ==
    ASSUME AlignmentInv
    PROVE  /\ Types /\ LastFits /\ files \in [Files -> Contents] /\ proc \in [Installers -> ProcRow] /\ edits \in Nat
           /\ \A p \in Installers : ~At(p, "idle") => holder = p
  BY DEF AlignmentInv, Types, Working

LEMMA BeginStep == ASSUME AlignmentInv, NEW p \in Installers, Begin(p) PROVE AlignmentInv'
  <1>1. /\ ~At(p, "idle") /\ holder = p
    BY Known DEF Begin, At
  <1>2. PICK plan \in plans, pc \in Labels, todo \in SUBSET Files, then \in Marks, late \in SUBSET Files :
              /\ plan = Plan(p) /\ pc = proc[p].pc /\ todo = proc[p].todo /\ then = proc[p].then
              /\ late = proc[p].late
              /\ KeepsForeign(plan) /\ todo \subseteq Covered(plan)
              /\ LooksAt(plan, pc, todo, late)
              /\ proc[p].since = edits /\ ~proc[p].rollback => ApplyingAt(plan, pc, todo, then)
    BY <1>1, Locals
  <1>3. UNCHANGED <<files, plans, draft, last, edits, journal>> /\ LastFits' /\ files' \in [Files -> Contents]
    BY Known, LastStays DEF Begin, Looked
  <1>4. CASE Continue(p, "decide")
    <2>1. RowIs(p, "decide", todo, then, late) /\ holder' = holder
      BY <1>2, <1>4, Known, Assignments DEF Continue, Labels
    <2> QED BY <1>1, <1>2, <1>3, <2>1, GoesOn DEF LooksAt, ApplyingAt
  <1>5. CASE Leave(p)
    BY <1>1, <1>3, <1>5, LeaveStep
  <1>6. CASE /\ Journaled(plan, "publishing") /\ Within(plan) /\ holder' = holder
             /\ Restoring(p, Covered(plan), "decide")
    <2>1. Covered(plan) \in SUBSET Files
      BY <1>2 DEF KeepsForeign
    <2>2. RowIs(p, "restore", Covered(plan), "decide", late)
      BY <1>2, <1>6, <2>1, Known, Assignments DEF Restoring, Labels, Marks
    <2>3. Journaled(plan, "publishing")' /\ Within(plan)'
      BY <1>3, <1>6 DEF Journaled, Within, Covered
    <2>4. LooksAt(plan, "restore", Covered(plan), late)' /\ ApplyingAt(plan, "restore", Covered(plan), "decide")'
      BY <2>3 DEF LooksAt, ApplyingAt, Within, Covered
    <2> QED BY <1>1, <1>2, <1>3, <1>6, <2>2, <2>4, GoesOn
  <1> QED BY <1>2, <1>4, <1>5, <1>6 DEF Begin

LEMMA RestoreStep == ASSUME AlignmentInv, NEW p \in Installers, RestoreFile(p) PROVE AlignmentInv'
  <1>1. /\ ~At(p, "idle") /\ holder = p
    BY Known DEF RestoreFile, At
  <1>2. PICK plan \in plans, pc \in Labels, todo \in SUBSET Files, then \in Marks, late \in SUBSET Files :
              /\ plan = Plan(p) /\ pc = proc[p].pc /\ todo = proc[p].todo /\ then = proc[p].then
              /\ late = proc[p].late
              /\ KeepsForeign(plan) /\ todo \subseteq Covered(plan)
              /\ LooksAt(plan, pc, todo, late)
              /\ proc[p].since = edits /\ ~proc[p].rollback => ApplyingAt(plan, pc, todo, then)
    BY <1>1, Locals
  <1>3. pc = "restore" /\ todo # {} /\ Min(todo) \in todo
    BY <1>2, NextFile DEF RestoreFile, At
  <1>4. PICK f \in todo : f = Min(todo)
    BY <1>3
  <1>5. /\ files' = [files EXCEPT ![f] = plan.before[f]] /\ Wrote(p)
        /\ UNCHANGED <<plans, draft, journal, holder, edits>>
    BY <1>2, <1>4 DEF RestoreFile
  <1>6. RowIs(p, pc, todo \ {f}, then, late)
    BY <1>2, <1>4, Known, Assignments DEF RestoreFile
  <1>7. plan.before[f] \in Contents /\ files' \in [Files -> Contents]
    BY <1>2, <1>5, Known DEF KeepsForeign
  <1>8. /\ f \in Files /\ files'[f] = plan.before[f] /\ \A g \in Files \ {f} : files'[g] = files[g]
    BY <1>5, Known
  <1>9. LooksAt(plan, pc, todo \ {f}, late)'
    BY <1>2, <1>3, <1>8 DEF LooksAt
  <1>10. ASSUME proc[p].since = edits, ~proc[p].rollback
         PROVE  ApplyingAt(plan, pc, todo \ {f}, then)' /\ Resumable(plan)'
    <2>1. Journaled(plan, "publishing") /\ Within(plan)
      BY <1>2, <1>3, <1>10 DEF ApplyingAt
    <2>2. Journaled(plan, "publishing")' /\ Within(plan)'
      BY <1>2, <1>5, <1>8, <2>1 DEF Journaled, Within, Covered, KeepsForeign
    <2>3. then = "rolled-back" => \A g \in Covered(plan) \ (todo \ {f}) : files'[g] = plan.before[g]
      BY <1>2, <1>3, <1>8, <1>10 DEF ApplyingAt, KeepsForeign
    <2> QED BY <1>3, <2>2, <2>3 DEF ApplyingAt, Resumable, Covered
  <1>11. LastFits'
    BY <1>2, <1>5, <1>10, LastWritten
  <1>12. then # "none"
    BY <1>1, <1>2, <1>3 DEF AlignmentInv, Working, At
  <1> QED BY <1>1, <1>2, <1>3, <1>5, <1>6, <1>7, <1>9, <1>10, <1>11, <1>12, GoesOn

LEMMA RestoredStep == ASSUME AlignmentInv, NEW p \in Installers, Restored(p) PROVE AlignmentInv'
  <1>1. /\ ~At(p, "idle") /\ holder = p
    BY Known DEF Restored, At
  <1>2. PICK plan \in plans, pc \in Labels, todo \in SUBSET Files, then \in Marks, late \in SUBSET Files :
              /\ plan = Plan(p) /\ pc = proc[p].pc /\ todo = proc[p].todo /\ then = proc[p].then
              /\ late = proc[p].late
              /\ KeepsForeign(plan) /\ todo \subseteq Covered(plan)
              /\ LooksAt(plan, pc, todo, late)
              /\ proc[p].since = edits /\ ~proc[p].rollback => ApplyingAt(plan, pc, todo, then)
    BY <1>1, Locals
  <1>3. UNCHANGED <<files, plans, draft, last, edits, journal, holder>> /\ LastFits' /\ files' \in [Files -> Contents]
    BY Known, LastStays DEF Restored, Looked
  <1>4. pc = "restore" /\ todo = {} /\ then \in {"decide", "rolled-back"}
    BY <1>1, <1>2 DEF Restored, AlignmentInv, Working, At, Marks
  <1>5. RowIs(p, then, todo, then, {})
    BY <1>2, <1>4, Known, Assignments DEF Restored, Labels
  <1>6. LooksAt(plan, then, todo, {})'
    BY <1>4 DEF LooksAt
  <1>7. proc[p].since = edits /\ ~proc[p].rollback => ApplyingAt(plan, then, todo, then)'
    BY <1>2, <1>3, <1>4 DEF ApplyingAt, AllBefore, Covered
  <1> QED BY <1>1, <1>2, <1>3, <1>4, <1>5, <1>6, <1>7, GoesOn

LEMMA DecideRollbackStep == ASSUME AlignmentInv, NEW p \in Installers, DecideRollback(p) PROVE AlignmentInv'
  <1>1. /\ ~At(p, "idle") /\ holder = p /\ proc[p].rollback
    BY Known DEF DecideRollback, At
  <1>2. PICK plan \in plans, pc \in Labels, todo \in SUBSET Files, then \in Marks, late \in SUBSET Files :
              /\ plan = Plan(p) /\ pc = proc[p].pc /\ todo = proc[p].todo /\ then = proc[p].then
              /\ late = proc[p].late
              /\ KeepsForeign(plan) /\ todo \subseteq Covered(plan)
              /\ LooksAt(plan, pc, todo, late)
              /\ proc[p].since = edits /\ ~proc[p].rollback => ApplyingAt(plan, pc, todo, then)
    BY <1>1, Locals
  <1>3. UNCHANGED <<files, plans, draft, last, edits, journal>> /\ LastFits' /\ files' \in [Files -> Contents]
    BY Known, LastStays DEF DecideRollback, Looked
  <1>4. CASE Leave(p)
    BY <1>1, <1>3, <1>4, LeaveStep
  <1>5. CASE AllAfter(plan) /\ Restoring(p, Covered(plan), "rolled-back") /\ holder' = holder
    <2>1. Covered(plan) \in SUBSET Files
      BY <1>2 DEF KeepsForeign
    <2>2. RowIs(p, "restore", Covered(plan), "rolled-back", late)
      BY <1>2, <1>5, <2>1, Known, Assignments DEF Restoring, Labels, Marks
    <2>3. LooksAt(plan, "restore", Covered(plan), late)'
      BY <1>3, <1>5 DEF LooksAt, AllAfter, Covered
    <2> QED BY <1>1, <1>2, <1>3, <1>5, <2>2, <2>3, GoesOn
  <1> QED BY <1>2, <1>4, <1>5 DEF DecideRollback

LEMMA DecideApplyStep == ASSUME AlignmentInv, NEW p \in Installers, DecideApply(p) PROVE AlignmentInv'
  <1>1. /\ ~At(p, "idle") /\ holder = p
    BY Known DEF DecideApply, At
  <1>2. PICK plan \in plans, pc \in Labels, todo \in SUBSET Files, then \in Marks, late \in SUBSET Files :
              /\ plan = Plan(p) /\ pc = proc[p].pc /\ todo = proc[p].todo /\ then = proc[p].then
              /\ late = proc[p].late
              /\ KeepsForeign(plan) /\ todo \subseteq Covered(plan)
              /\ LooksAt(plan, pc, todo, late)
              /\ proc[p].since = edits /\ ~proc[p].rollback => ApplyingAt(plan, pc, todo, then)
    BY <1>1, Locals
  <1>3. UNCHANGED <<files, plans, draft, edits>> /\ files' \in [Files -> Contents]
    BY Known DEF DecideApply
  <1>4. CASE Leave(p) /\ UNCHANGED <<journal, last>>
    BY <1>1, <1>3, <1>4, Known, LastStays, LeaveStep
  <1>5. CASE /\ AllBefore(plan) /\ journal' = WithJournal(plan, "publishing") /\ Wrote(p)
             /\ proc' = [proc EXCEPT ![p].pc = "publish", ![p].todo = Covered(plan)]
             /\ UNCHANGED holder
    <2>1. Covered(plan) \in SUBSET Files
      BY <1>2 DEF KeepsForeign
    <2>2. RowIs(p, "publish", Covered(plan), then, late)
      BY <1>2, <1>5, <2>1, Known, Assignments DEF Labels
    <2>3. Journaled(plan, "publishing")'
      BY <1>5 DEF Journaled, WithJournal
    <2>4. ApplyingAt(plan, "publish", Covered(plan), then)' /\ Resumable(plan)'
      BY <1>3, <1>5, <2>3 DEF ApplyingAt, AllBefore, Resumable, Covered
    <2>5. LastFits'
      BY <1>2, <1>3, <1>5, <2>4, LastWritten
    <2>6. LooksAt(plan, "publish", Covered(plan), late)'
      BY DEF LooksAt
    <2> QED BY <1>1, <1>2, <1>3, <1>5, <2>2, <2>4, <2>5, <2>6, GoesOn
  <1> QED BY <1>2, <1>4, <1>5 DEF DecideApply

LEMMA LookStep == ASSUME AlignmentInv, NEW p \in Installers, LookAtFile(p) PROVE AlignmentInv'
  <1>1. /\ ~At(p, "idle") /\ holder = p
    BY Known DEF LookAtFile, At
  <1>2. PICK plan \in plans, pc \in Labels, todo \in SUBSET Files, then \in Marks, late \in SUBSET Files :
              /\ plan = Plan(p) /\ pc = proc[p].pc /\ todo = proc[p].todo /\ then = proc[p].then
              /\ late = proc[p].late
              /\ KeepsForeign(plan) /\ todo \subseteq Covered(plan)
              /\ LooksAt(plan, pc, todo, late)
              /\ proc[p].since = edits /\ ~proc[p].rollback => ApplyingAt(plan, pc, todo, then)
    BY <1>1, Locals
  <1>3. UNCHANGED <<files, plans, draft, last, edits, journal, holder>> /\ LastFits' /\ files' \in [Files -> Contents]
    BY Known, LastStays DEF LookAtFile, Looked
  <1>4. pc = "publish" /\ todo # {} /\ Min(todo) \in todo
    BY <1>2, NextFile DEF LookAtFile, At
  <1>5. PICK f \in todo : f = Min(todo)
    BY <1>4
  <1>6. PICK next \in {"rename", "failing"} : next = IF StillBefore(p, f) THEN "rename" ELSE "failing"
    OBVIOUS
  <1>7. RowIs(p, next, todo, then, late \ {f})
    BY <1>2, <1>5, <1>6, Known, Assignments DEF LookAtFile, Labels
  <1>8. LooksAt(plan, next, todo, late \ {f})'
    BY <1>2, <1>3, <1>5, <1>6 DEF LooksAt, StillBefore
  <1>9. proc[p].since = edits /\ ~proc[p].rollback => ApplyingAt(plan, next, todo, then)'
    BY <1>2, <1>3, <1>4 DEF ApplyingAt, Journaled, Covered
  <1> QED BY <1>1, <1>2, <1>3, <1>4, <1>7, <1>8, <1>9, GoesOn

LEMMA RenameStep == ASSUME AlignmentInv, NEW p \in Installers, RenameFile(p) PROVE AlignmentInv'
  <1>1. /\ ~At(p, "idle") /\ holder = p
    BY Known DEF RenameFile, At
  <1>2. PICK plan \in plans, pc \in Labels, todo \in SUBSET Files, then \in Marks, late \in SUBSET Files :
              /\ plan = Plan(p) /\ pc = proc[p].pc /\ todo = proc[p].todo /\ then = proc[p].then
              /\ late = proc[p].late
              /\ KeepsForeign(plan) /\ todo \subseteq Covered(plan)
              /\ LooksAt(plan, pc, todo, late)
              /\ proc[p].since = edits /\ ~proc[p].rollback => ApplyingAt(plan, pc, todo, then)
    BY <1>1, Locals
  <1>3. pc = "rename" /\ todo # {} /\ Min(todo) \in todo
    BY <1>1, <1>2, NextFile DEF RenameFile, At, AlignmentInv, Working
  <1>4. PICK f \in todo : f = Min(todo)
    BY <1>3
  <1>5. /\ files' = [files EXCEPT ![f] = plan.after[f]] /\ Wrote(p)
        /\ UNCHANGED <<plans, draft, journal, holder, edits>>
    BY <1>2, <1>4 DEF RenameFile
  <1>6. RowIs(p, "publish", todo \ {f}, then, late)
    BY <1>2, <1>4, Known, Assignments DEF RenameFile, Labels
  <1>7. plan.after[f] \in Contents /\ files' \in [Files -> Contents]
    BY <1>2, <1>5, Known DEF KeepsForeign
  <1>8. /\ f \in Files /\ files'[f] = plan.after[f] /\ \A g \in Files \ {f} : files'[g] = files[g]
    BY <1>5, Known
  <1>9. ASSUME proc[p].since = edits, ~proc[p].rollback
         PROVE  ApplyingAt(plan, "publish", todo \ {f}, then)' /\ Resumable(plan)'
    <2>1. /\ Journaled(plan, "publishing")
          /\ \A g \in Covered(plan) \ todo : files[g] = plan.after[g]
          /\ \A g \in todo : files[g] = plan.before[g]
      BY <1>2, <1>3, <1>9 DEF ApplyingAt
    <2>2. Journaled(plan, "publishing")' /\ Covered(plan) \subseteq Files
      BY <1>2, <1>5, <2>1 DEF Journaled, KeepsForeign
    <2>3. /\ \A g \in Covered(plan) \ (todo \ {f}) : files'[g] = plan.after[g]
          /\ \A g \in todo \ {f} : files'[g] = plan.before[g]
      BY <1>8, <2>1, <2>2
    <2>4. Within(plan)'
      BY <1>2, <2>3 DEF Within, Covered
    <2> QED BY <2>2, <2>3, <2>4 DEF ApplyingAt, Resumable, Covered
  <1>10. LastFits'
    BY <1>2, <1>5, <1>9, LastWritten
  <1>11. LooksAt(plan, "publish", todo \ {f}, late)'
    BY DEF LooksAt
  <1> QED BY <1>1, <1>2, <1>5, <1>6, <1>7, <1>9, <1>10, <1>11, GoesOn

LEMMA FailStep == ASSUME AlignmentInv, NEW p \in Installers, PublicationFails(p) PROVE AlignmentInv'
  <1>1. /\ ~At(p, "idle") /\ holder = p
    BY Known DEF PublicationFails, At
  <1>2. PICK plan \in plans, pc \in Labels, todo \in SUBSET Files, then \in Marks, late \in SUBSET Files :
              /\ plan = Plan(p) /\ pc = proc[p].pc /\ todo = proc[p].todo /\ then = proc[p].then
              /\ late = proc[p].late
              /\ KeepsForeign(plan) /\ todo \subseteq Covered(plan)
              /\ LooksAt(plan, pc, todo, late)
              /\ proc[p].since = edits /\ ~proc[p].rollback => ApplyingAt(plan, pc, todo, then)
    BY <1>1, Locals
  <1>3. UNCHANGED <<files, plans, draft, last, edits, journal, holder>> /\ LastFits' /\ files' \in [Files -> Contents]
    BY Known, LastStays DEF PublicationFails, Continue
  <1>4. RowIs(p, "failing", todo, then, late) /\ pc \in {"publish", "rename"}
    BY <1>2, Known, Assignments DEF PublicationFails, Continue, Labels
  <1>5. proc[p].since = edits /\ ~proc[p].rollback => ApplyingAt(plan, "failing", todo, then)'
    BY <1>2, <1>3, <1>4 DEF ApplyingAt, Journaled, Covered
  <1>6. LooksAt(plan, "failing", todo, late)'
    BY DEF LooksAt
  <1> QED BY <1>1, <1>2, <1>3, <1>4, <1>5, <1>6, GoesOn

LEMMA UndoStep == ASSUME AlignmentInv, NEW p \in Installers, UndoPublication(p) PROVE AlignmentInv'
  <1>1. /\ ~At(p, "idle") /\ holder = p
    BY Known DEF UndoPublication, At
  <1>2. PICK plan \in plans, pc \in Labels, todo \in SUBSET Files, then \in Marks, late \in SUBSET Files :
              /\ plan = Plan(p) /\ pc = proc[p].pc /\ todo = proc[p].todo /\ then = proc[p].then
              /\ late = proc[p].late
              /\ KeepsForeign(plan) /\ todo \subseteq Covered(plan)
              /\ LooksAt(plan, pc, todo, late)
              /\ proc[p].since = edits /\ ~proc[p].rollback => ApplyingAt(plan, pc, todo, then)
    BY <1>1, Locals
  <1>3. UNCHANGED <<files, plans, draft, last, edits, journal>> /\ LastFits' /\ files' \in [Files -> Contents]
    BY Known, LastStays DEF UndoPublication, Looked
  <1>4. CASE Leave(p)
    BY <1>1, <1>3, <1>4, LeaveStep
  <1> DEFINE published == Covered(plan) \ todo
  <1>5. CASE /\ \A f \in published : files[f] = plan.after[f]
             /\ proc' = [proc EXCEPT ![p].pc = "restore", ![p].todo = published,
                                     ![p].then = "rolled-back", ![p].late = {}]
             /\ UNCHANGED holder
    <2>1. published \in SUBSET Files
      BY <1>2 DEF KeepsForeign
    <2>2. RowIs(p, "restore", published, "rolled-back", {})
      BY <1>2, <1>5, <2>1, Known, Assignments DEF Labels, Marks
    <2>3. LooksAt(plan, "restore", published, {})'
      BY <1>3, <1>5 DEF LooksAt
    <2>4. ASSUME proc[p].since = edits, ~proc[p].rollback
          PROVE  ApplyingAt(plan, "restore", published, "rolled-back")'
      <3>1. Journaled(plan, "publishing") /\ \A f \in todo : files[f] = plan.before[f]
        BY <1>2, <2>4 DEF ApplyingAt, UndoPublication, At
      <3>2. Journaled(plan, "publishing")' /\ Within(plan)'
        BY <1>3, <1>5, <3>1 DEF Journaled, Within, Covered
      <3> QED BY <1>2, <1>3, <3>1, <3>2 DEF ApplyingAt, Covered
    <2> HIDE DEF published
    <2> QED BY <1>1, <1>2, <1>3, <1>5, <2>2, <2>3, <2>4, GoesOn DEF published
  <1> QED BY <1>2, <1>4, <1>5 DEF UndoPublication

LEMMA CloseStep == ASSUME AlignmentInv, NEW p \in Installers, CloseJournal(p) PROVE AlignmentInv'
  <1>1. /\ ~At(p, "idle") /\ holder = p
    BY Known DEF CloseJournal, At
  <1>2. PICK plan \in plans, pc \in Labels, todo \in SUBSET Files, then \in Marks, late \in SUBSET Files :
              /\ plan = Plan(p) /\ pc = proc[p].pc /\ todo = proc[p].todo /\ then = proc[p].then
              /\ late = proc[p].late
              /\ KeepsForeign(plan) /\ todo \subseteq Covered(plan)
              /\ LooksAt(plan, pc, todo, late)
              /\ proc[p].since = edits /\ ~proc[p].rollback => ApplyingAt(plan, pc, todo, then)
    BY <1>1, Locals
  <1>3. UNCHANGED <<files, plans, draft, edits>> /\ Wrote(p) /\ Leave(p)
    BY DEF CloseJournal
  <1>4. proc[p].since = edits /\ ~proc[p].rollback => Resumable(plan)'
    BY <1>2, <1>3 DEF CloseJournal, At, ApplyingAt, Resumable, AllAfter, AllBefore, Covered
  <1>5. LastFits'
    BY <1>2, <1>3, <1>4, LastWritten
  <1> QED BY <1>1, <1>3, <1>5, LeaveStep

LEMMA StopStep == ASSUME AlignmentInv, NEW p \in Installers, Stop(p) PROVE AlignmentInv'
  <1>1. holder = p /\ LastFits'
    BY Known, LastStays DEF Stop, At
  <1> QED BY <1>1, LeaveStep DEF Stop

LEMMA EditStep == ASSUME AlignmentInv, NEW f \in Files, Edit(f) PROVE AlignmentInv'
  <1>1. PICK own \in {files[f].own, None} : files' = [files EXCEPT ![f] = Content(own, edits' + 1)]
    BY DEF Edit
  <1>2. /\ edits' = edits + 1 /\ last' = None
        /\ proc' = [p \in Installers |-> IF At(p, "idle") THEN proc[p] ELSE [proc[p] EXCEPT !.late = @ \cup {f}]]
        /\ UNCHANGED <<plans, draft, journal, holder>>
    BY DEF Edit
  <1>3. Content(own, edits' + 1) \in Contents /\ files' \in [Files -> Contents] /\ edits' \in Nat
    BY <1>1, <1>2, Known DEF Content, Contents
  <1>4. \A g \in Files \ {f} : files'[g] = files[g]
    BY <1>1, Known
  <1>5. ASSUME NEW p \in Installers
        PROVE  /\ proc'[p] \in ProcRow /\ (At(p, "idle") => At(p, "idle")')
               /\ proc'[p].pc = proc[p].pc /\ proc'[p].todo = proc[p].todo /\ proc'[p].then = proc[p].then
               /\ proc'[p].plan = proc[p].plan /\ proc'[p].since = proc[p].since
               /\ ~At(p, "idle") => proc'[p].late = proc[p].late \cup {f}
    <2> DEFINE row == proc[p]
    <2>1. row \in ProcRow
      BY Known
    <2>2. CASE At(p, "idle")
      BY <1>2, <2>1, <2>2 DEF At
    <2>3. CASE ~At(p, "idle")
      <3>1. proc'[p] = [row EXCEPT !.late = row.late \cup {f}]
        BY <1>2, <2>3
      <3>2. row.late \cup {f} \in SUBSET Files
        BY <2>1 DEF ProcRow
      <3> HIDE DEF row
      <3>3. proc'[p] \in ProcRow
        BY <2>1, <3>1, <3>2, Zenon DEF ProcRow
      <3>4. /\ proc'[p].pc = row.pc /\ proc'[p].todo = row.todo /\ proc'[p].then = row.then
            /\ proc'[p].plan = row.plan /\ proc'[p].since = row.since /\ proc'[p].late = row.late \cup {f}
        BY <2>1, <3>1 DEF ProcRow
      <3> QED BY <2>3, <3>3, <3>4 DEF row, At
    <2> QED BY <2>2, <2>3
  <1>6. Types'
    <2>1. proc' \in [Installers -> ProcRow]
      BY <1>2, <1>5
    <2> QED BY <1>2, <1>3, <2>1, Known DEF Types, DraftFits, KeepsForeign, Covered, ProcRow
  <1>7. ASSUME NEW p \in Installers, ~At(p, "idle")'
        PROVE  Working(p)' /\ Looks(p)' /\ proc'[p].since # edits'
    <2>1. ~At(p, "idle")
      BY <1>5, <1>7
    <2>2. /\ Working(p) /\ Looks(p) /\ proc[p].since \in Nat /\ Plan(p)' = Plan(p)
          /\ KeepsForeign(Plan(p))
      BY <1>5, <2>1, Known DEF AlignmentInv, Working, ProcRow, Plan, Types
    <2>3. Working(p)'
      BY <1>2, <1>5, <2>2, Known DEF Working, At, Covered, Plan
    <2>4. PICK plan \in plans, pc \in Labels, todo \in SUBSET Files, then \in Marks, late \in SUBSET Files :
              /\ plan = Plan(p) /\ pc = proc[p].pc /\ todo = proc[p].todo /\ then = proc[p].then
              /\ late = proc[p].late
              /\ KeepsForeign(plan) /\ todo \subseteq Covered(plan)
              /\ LooksAt(plan, pc, todo, late)
              /\ proc[p].since = edits /\ ~proc[p].rollback => ApplyingAt(plan, pc, todo, then)
      BY <2>1, Locals
    <2>5. /\ Plan(p)' = plan /\ proc'[p].pc = pc /\ proc'[p].todo = todo /\ proc'[p].late = late \cup {f}
      BY <1>5, <2>1, <2>2, <2>4
    <2>6. pc = "rename" => Min(todo) \in todo
      BY <2>1, <2>2, <2>4, NextFile DEF Working, At
    <2>7. LooksAt(plan, pc, todo, late \cup {f})'
      BY <1>4, <2>4, <2>6 DEF LooksAt
    <2>8. Looks(p)'
      BY <2>5, <2>7 DEF Looks
    <2>9. proc'[p].since # edits'
      BY <1>2, <1>5, <2>2, Known DEF Working
    <2> QED BY <2>3, <2>8, <2>9
  <1>8. LastFits'
    BY <1>2 DEF LastFits
  <1> QED BY <1>6, <1>7, <1>8 DEF AlignmentInv

\* Planning touches neither the files nor the processes.
LEMMA PlanningStep ==
    ASSUME AlignmentInv, UNCHANGED <<files, proc, holder, journal, last, edits>>, plans \subseteq plans',
           \A plan \in plans' \ plans : KeepsForeign(plan), DraftFits'
    PROVE  AlignmentInv'
  <1>1. Types'
    BY DEF AlignmentInv, Types, KeepsForeign, Covered, ProcRow
  <1>2. \A p \in Installers : ~At(p, "idle")' => Working(p)' /\ Looks(p)'
    BY DEF AlignmentInv, Working, Looks, LooksAt, At, Plan, Covered
  <1>3. \A p \in Installers : ~At(p, "idle")' /\ proc'[p].since = edits' /\ ~proc'[p].rollback => Applying(p)'
    BY DEF AlignmentInv, Applying, ApplyingAt, At, Plan, Covered, Journaled, Within, AllBefore
  <1>4. LastFits'
    BY LastStays DEF AlignmentInv
  <1> QED BY <1>1, <1>2, <1>3, <1>4 DEF AlignmentInv

LEMMA BeginPlanStep == ASSUME AlignmentInv, NEW build \in Builds, BeginPlan(build) PROVE AlignmentInv'
  <1>1. Sources \subseteq Files
    <2>1. Configurations \subseteq Files /\ Configurations # {}
      BY AlignmentAssumption DEF Files
    <2>2. Min(Configurations) \in Files
      BY <2>1, NextFile
    <2> QED BY <2>1, <2>2 DEF Sources
  <1>2. draft' = [build |-> build, todo |-> {Wrapper} \cup Sources, before |-> <<>>]
    BY DEF BeginPlan
  <1>3. DraftFits'
    <2>1. /\ draft'.build = build /\ draft'.todo = {Wrapper} \cup Sources /\ draft'.before = <<>>
      BY <1>2
    <2>2. draft'.todo \subseteq Files /\ DOMAIN draft'.before = {}
      BY <1>1, <2>1 DEF Files
    <2>3. draft'.before \in [{} -> Contents]
      BY <2>1
    <2> QED BY <1>2, <2>1, <2>2, <2>3 DEF DraftFits
  <1> QED BY <1>3, PlanningStep DEF BeginPlan

LEMMA ReadForPlanStep == ASSUME AlignmentInv, ReadForPlan PROVE AlignmentInv'
  <1>1. /\ draft = [build |-> draft.build, todo |-> draft.todo, before |-> draft.before] /\ draft.todo # {}
        /\ draft.build \in Builds /\ draft.todo \subseteq Files /\ DOMAIN draft.before \subseteq Files
        /\ draft.before \in [DOMAIN draft.before -> Contents]
    BY DEF AlignmentInv, Types, DraftFits, ReadForPlan
  <1>2. PICK f \in draft.todo : f = Min(draft.todo)
    BY <1>1, NextFile
  <1> DEFINE before == [g \in DOMAIN draft.before \cup {f} |-> IF g = f THEN files[f] ELSE draft.before[g]]
  <1>3. draft' = [draft EXCEPT !.todo = draft.todo \ {f}, !.before = before]
    BY <1>2 DEF ReadForPlan
  <1>4. before \in [DOMAIN before -> Contents] /\ DOMAIN before \subseteq Files
    BY <1>1, <1>2, Known
  <1> HIDE DEF before
  <1>5. draft' = [build |-> draft.build, todo |-> draft.todo \ {f}, before |-> before]
    BY <1>1, <1>3
  <1>6. draft'.build = draft.build /\ draft'.todo = draft.todo \ {f} /\ draft'.before = before
    BY <1>5
  <1>7. DraftFits'
    BY <1>1, <1>4, <1>5, <1>6 DEF DraftFits
  <1> QED BY <1>7, PlanningStep DEF ReadForPlan

LEMMA WritePlanStep == ASSUME AlignmentInv, WritePlan PROVE AlignmentInv'
  <1> DEFINE after == [f \in DOMAIN draft.before |-> Aligned(f, draft.before[f], draft.build)]
             plan == [before |-> draft.before, after |-> after]
  <1>1. /\ draft.build \in Builds /\ DOMAIN draft.before \subseteq Files
        /\ draft.before \in [DOMAIN draft.before -> Contents]
    BY DEF AlignmentInv, Types, DraftFits, WritePlan
  <1>2. plans' = plans \/ (plans' = plans \cup {plan} /\ draft.before[Wrapper].foreign = 0)
    BY DEF WritePlan
  <1>3. plan.before = draft.before /\ plan.after = after
    OBVIOUS
  <1>4. draft.before[Wrapper].foreign = 0 => KeepsForeign(plan)
    <2> SUFFICES ASSUME draft.before[Wrapper].foreign = 0, NEW f \in DOMAIN draft.before
                 PROVE  after[f] \in Contents /\ after[f].foreign = draft.before[f].foreign
      BY <1>1, <1>3 DEF KeepsForeign, Covered
    <2>1. after[f] = Aligned(f, draft.before[f], draft.build) /\ f \in Files /\ draft.before[f] \in Contents
      BY <1>1
    <2> HIDE DEF after
    <2> QED BY <1>1, <2>1, AlignedKeeps
  <1> HIDE DEF after, plan
  <1>5. DraftFits'
    BY DEF WritePlan, DraftFits
  <1> QED BY <1>2, <1>4, <1>5, PlanningStep DEF WritePlan

\* The inductive invariant: nobody else is at work, what was looked at was seen, and
\* where an undisturbed application is can be told from the files and the journal.
LEMMA AlignmentInvariant == AlignmentSpec => []AlignmentInv
  <1>1. AlignmentInit => AlignmentInv
    <2> SUFFICES ASSUME AlignmentInit PROVE AlignmentInv
      OBVIOUS
    <2>1. files \in [Files -> Contents] /\ edits \in Nat /\ plans = {} /\ draft = None /\ last = None
      BY DEF AlignmentInit, Absent, Content, Contents
    <2>2. Idle \in ProcRow /\ Idle.pc = "idle"
      BY DEF Idle, ProcRow, Marks, Labels
    <2>3. proc \in [Installers -> ProcRow] /\ \A p \in Installers : At(p, "idle")
      BY <2>2 DEF AlignmentInit, At
    <2> QED BY <2>1, <2>3 DEF AlignmentInv, Types, DraftFits, LastFits
  <1>2. AlignmentInv /\ [AlignmentNext]_alignmentVars => AlignmentInv'
    <2> SUFFICES ASSUME AlignmentInv, [AlignmentNext]_alignmentVars PROVE AlignmentInv'
      OBVIOUS
    <2>1. CASE UNCHANGED alignmentVars
      <3>1. UNCHANGED <<files, proc, holder, journal, last, edits, plans>> /\ DraftFits'
        BY <2>1 DEF alignmentVars, AlignmentInv, Types, DraftFits
      <3> QED BY <3>1, PlanningStep
    <2>2. ASSUME NEW p \in Installers, Run(p) \/ PublicationFails(p) \/ Stop(p) PROVE AlignmentInv'
      BY <2>2, BeginStep, RestoreStep, RestoredStep, DecideRollbackStep, DecideApplyStep, LookStep,
         RenameStep, UndoStep, CloseStep, FailStep, StopStep DEF Run
    <2>3. ASSUME NEW f \in Files, Edit(f) PROVE AlignmentInv'
      BY <2>3, EditStep
    <2>4. ASSUME NEW p \in Installers, NEW plan \in plans, NEW rollback \in BOOLEAN, AcquireLock(p, plan, rollback)
          PROVE  AlignmentInv'
      BY <2>4, LockStep
    <2>5. ASSUME NEW build \in Builds, BeginPlan(build) PROVE AlignmentInv'
      BY <2>5, BeginPlanStep
    <2> QED BY <2>1, <2>2, <2>3, <2>4, <2>5, ReadForPlanStep, WritePlanStep DEF AlignmentNext
  <1> QED BY <1>1, <1>2, PTL DEF AlignmentSpec

---------------------------------------------------------------------------
\* However an application of a plan ended, the same plan can be applied again, unless
\* people edited the files meanwhile.
THEOREM ApplicationsCanResume == AlignmentSpec => []ApplicationsResume
  <1>1. AlignmentInv => ApplicationsResume
    BY DEF AlignmentInv, LastFits, ApplicationsResume
  <1> QED BY <1>1, AlignmentInvariant, PTL

\* A file that people wrote is replaced only by a process that had looked at it before
\* they did.
THEOREM EditsStaySafe == AlignmentSpec => EditsSurvive
  <1> DEFINE Survives == \A f \in Files : files'[f].foreign # files[f].foreign =>
                              edits' # edits \/ \E p \in Installers : f \in proc[p].late
  <1>1. AlignmentInv /\ [AlignmentNext]_alignmentVars => [Survives]_alignmentVars
    <2> SUFFICES ASSUME AlignmentInv, [AlignmentNext]_alignmentVars, NEW f \in Files,
                        files'[f].foreign # files[f].foreign, edits' = edits
                 PROVE  \E p \in Installers : f \in proc[p].late
      OBVIOUS
    <2>1. ASSUME NEW p \in Installers, RestoreFile(p) PROVE f \in proc[p].late
      <3>1. /\ ~At(p, "idle") /\ At(p, "restore") /\ proc[p].todo # {}
            /\ files' = [files EXCEPT ![Min(proc[p].todo)] = Plan(p).before[Min(proc[p].todo)]]
        BY <2>1 DEF RestoreFile, At
      <3>2. Working(p) /\ Looks(p) /\ KeepsForeign(Plan(p))
        BY <3>1 DEF AlignmentInv, Types, Working
      <3>3. Min(proc[p].todo) \in proc[p].todo
        BY <3>1, <3>2, NextFile DEF Working, KeepsForeign
      <3>4. f = Min(proc[p].todo) /\ files'[f] = Plan(p).before[f]
        BY <3>1, Known
      <3> QED BY <3>1, <3>2, <3>3, <3>4 DEF Looks, LooksAt, At, KeepsForeign, Working
    <2>2. ASSUME NEW p \in Installers, RenameFile(p) PROVE f \in proc[p].late
      <3>1. /\ ~At(p, "idle") /\ At(p, "rename")
            /\ files' = [files EXCEPT ![Min(proc[p].todo)] = Plan(p).after[Min(proc[p].todo)]]
        BY <2>2 DEF RenameFile, At
      <3>2. Working(p) /\ Looks(p) /\ KeepsForeign(Plan(p))
        BY <3>1 DEF AlignmentInv, Types, Working
      <3>3. Min(proc[p].todo) \in proc[p].todo
        BY <3>1, <3>2, NextFile DEF Working, KeepsForeign
      <3>4. f = Min(proc[p].todo) /\ files'[f] = Plan(p).after[f]
        BY <3>1, Known
      <3> QED BY <3>1, <3>2, <3>3, <3>4 DEF Looks, LooksAt, At, KeepsForeign, Working
    <2>3. ASSUME NEW p \in Installers, PublicationFails(p) \/ Stop(p) PROVE UNCHANGED files
      BY <2>3 DEF PublicationFails, Stop
    <2>4. ASSUME NEW p \in Installers, Run(p), ~RestoreFile(p), ~RenameFile(p) PROVE UNCHANGED files
      BY <2>4 DEF Run, Begin, Restored, DecideRollback, DecideApply, LookAtFile, UndoPublication, CloseJournal, Looked
    <2>5. ASSUME NEW g \in Files, Edit(g) PROVE FALSE
      BY <2>5, Known DEF Edit
    <2>6. ASSUME NEW p \in Installers, NEW plan \in plans, NEW rollback \in BOOLEAN, AcquireLock(p, plan, rollback)
          PROVE  UNCHANGED files
      BY <2>6 DEF AcquireLock, Looked
    <2>7. ASSUME (\E build \in Builds : BeginPlan(build)) \/ ReadForPlan \/ WritePlan PROVE UNCHANGED files
      BY <2>7 DEF BeginPlan, ReadForPlan, WritePlan
    <2> QED BY <2>1, <2>2, <2>3, <2>4, <2>5, <2>6, <2>7 DEF AlignmentNext, alignmentVars
  <1> QED BY <1>1, AlignmentInvariant, PTL DEF AlignmentSpec, EditsSurvive

---------------------------------------------------------------------------
(* Overrides.  The derived tables are a function of the rows of the audit,  *)
(* whichever way they were filled, and a reader's pages one of the rows up  *)
(* to its high-water mark.                                                  *)

AuditRow ==
    [phase : {"authorized", "completed"}, grant : Grants, use : Uses \cup {Legacy}, refs : SUBSET Rules,
     at : Times, outcome : Outcomes \cup {None}]
Succeeded(row) == row.phase = "completed" /\ row.outcome = "succeeded"
IsAudit(rows) ==
    rows \in Seq(AuditRow) /\ \A n \in 1 .. Len(rows) : rows[n].outcome = "succeeded" => rows[n].phase = "completed"

Scopes == Grants \cup {Every}

\* The rows that contradict rule r in a scope, the second of a set of rows, and what the
\* derived tables hold after the first k rows.
Against(rows, r, scope, high) ==
    {n \in DOMAIN rows : /\ n <= high /\ rows[n].outcome = "succeeded" /\ r \in rows[n].refs
                         /\ ScopeRule[rows[n].grant] \in {None, r}
                         /\ scope \in {Every, rows[n].grant}}
Second(S, n) == n \in S /\ Cardinality(Before(S, n)) = 1
Use(rows, r, n) == [rule |-> r, grant |-> rows[n].grant, use |-> rows[n].use, seq |-> n]
UsesAt(rows, n) == {Use(rows, r, n) : r \in Relevant(rows[n])}
SuccessOf(rows, k) == UNION {UsesAt(rows, n) : n \in {m \in 1 .. k : Succeeded(rows[m])}}
Mark(scope, r, n) == [scope |-> scope, rule |-> r, at |-> n]
MarksOf(S, scope, r) == {Mark(scope, r, n) : n \in {n \in S : Cardinality(Before(S, n)) = 1}}
QualifiedOf(rows, k) == UNION {MarksOf(Against(rows, r, scope, k), scope, r) : scope \in Scopes, r \in Rules}
TablesOf(rows, k) == [success |-> SuccessOf(rows, k), qualified |-> QualifiedOf(rows, k)]

\* The members of the tables.
LEMMA Members ==
    ASSUME NEW rows, NEW k
    PROVE  /\ \A s : s \in SuccessOf(rows, k) <=>
                  \E n \in 1 .. k : Succeeded(rows[n]) /\ \E r \in Relevant(rows[n]) : s = Use(rows, r, n)
           /\ \A q : q \in QualifiedOf(rows, k) <=>
                  \E scope \in Scopes, r \in Rules : \E n : Second(Against(rows, r, scope, k), n) /\ q = Mark(scope, r, n)
  <1>1. ASSUME NEW s
        PROVE  s \in SuccessOf(rows, k) <=>
                  \E n \in 1 .. k : Succeeded(rows[n]) /\ \E r \in Relevant(rows[n]) : s = Use(rows, r, n)
    BY DEF SuccessOf, UsesAt
  <1>2. ASSUME NEW q
        PROVE  q \in QualifiedOf(rows, k) <=>
                  \E scope \in Scopes, r \in Rules : \E n : Second(Against(rows, r, scope, k), n) /\ q = Mark(scope, r, n)
    <2>1. q \in QualifiedOf(rows, k) <=> \E scope \in Scopes, r \in Rules : q \in MarksOf(Against(rows, r, scope, k), scope, r)
      BY DEF QualifiedOf
    <2>2. \A S, scope, r : q \in MarksOf(S, scope, r) <=> \E n : Second(S, n) /\ q = Mark(scope, r, n)
      BY DEF MarksOf, Second
    <2> QED BY <2>1, <2>2
  <1> QED BY <1>1, <1>2

\* Contradictions are finitely many rows of the log.
LEMMA AgainstFinite ==
    ASSUME NEW rows \in Seq(AuditRow), NEW r, NEW scope, NEW k \in Nat
    PROVE  /\ Against(rows, r, scope, k) \in SUBSET (1 .. k) /\ IsFiniteSet(Against(rows, r, scope, k))
           /\ Against(rows, r, scope, k) \subseteq 1 .. Len(rows)
  <1>1. Against(rows, r, scope, k) \in SUBSET (1 .. k) /\ Against(rows, r, scope, k) \subseteq 1 .. Len(rows)
    BY DEF Against
  <1> QED BY <1>1, FS_Interval, FS_Subset

\* What one more row adds to the contradictions.
Hits(row, r, scope) == row.outcome = "succeeded" /\ r \in Relevant(row) /\ scope \in {Every, row.grant}

LEMMA OneMore ==
    ASSUME NEW rows \in Seq(AuditRow), NEW k \in 1 .. Len(rows), NEW r, NEW scope
    PROVE  /\ Hits(rows[k], r, scope) => Against(rows, r, scope, k) = Against(rows, r, scope, k - 1) \cup {k}
           /\ ~Hits(rows[k], r, scope) => Against(rows, r, scope, k) = Against(rows, r, scope, k - 1)
  <1>1. rows[k] \in AuditRow /\ DOMAIN rows = 1 .. Len(rows)
    OBVIOUS
  <1>2. Hits(rows[k], r, scope) <=> k \in Against(rows, r, scope, k)
    BY <1>1 DEF Hits, Against, Relevant, AuditRow
  <1>3. \A n \in 1 .. Len(rows) : n # k => (n \in Against(rows, r, scope, k) <=> n \in Against(rows, r, scope, k - 1))
    BY <1>1 DEF Against
  <1>4. k \notin Against(rows, r, scope, k - 1)
    BY DEF Against
  <1> QED BY <1>1, <1>2, <1>3, <1>4 DEF Against

\* The second of a set that grows at its end stays the second, and a set of one gets its
\* second with the next.
LEMMA SecondGrows ==
    ASSUME NEW k \in Nat \ {0}, NEW S \in SUBSET (1 .. (k - 1)), NEW n
    PROVE  /\ Second(S \cup {k}, n) <=> Second(S, n) \/ (n = k /\ Cardinality(S) = 1)
           /\ Cardinality(S) = 1 => ~Second(S, n)
  <1>0. S \subseteq 1 .. (k - 1) /\ k - 1 \in Int /\ \A m \in S : m \in Nat /\ m < k
    OBVIOUS
  <1>1. IsFiniteSet(S) /\ Cardinality(S) \in Nat
    <2>1. IsFiniteSet(1 .. (k - 1))
      BY <1>0, FS_Interval
    <2>2. IsFiniteSet(S)
      BY <1>0, <2>1, FS_Subset
    <2> QED BY <2>2, FS_CardinalityType
  <1>2. n \in S => Before(S \cup {k}, n) = Before(S, n) /\ n # k
    <2> SUFFICES ASSUME n \in S PROVE Before(S \cup {k}, n) = Before(S, n) /\ n # k
      OBVIOUS
    <2>1. \A m \in S \cup {k} : m < n => m \in S
      BY <1>0
    <2> QED BY <1>0, <2>1 DEF Before
  <1>3. Before(S \cup {k}, k) = S
    <2>1. ~(k < k)
      OBVIOUS
    <2>2. \A m : m \in S \cup {k} /\ m < k <=> m \in S
      BY <1>0, <2>1
    <2> QED BY <2>2, Zenon DEF Before
  <1>4. k \notin S
    BY <1>0
  <1>5. ASSUME Cardinality(S) = 1, Second(S, n) PROVE FALSE
    <2>1. Before(S, n) \subseteq S \ {n} /\ n \in S
      BY <1>5 DEF Before, Second
    <2>2. IsFiniteSet(S \ {n}) /\ Cardinality(S \ {n}) = 0
      BY <1>1, <1>5, <2>1, FS_RemoveElement
    <2>3. Cardinality(Before(S, n)) <= 0
      BY <2>1, <2>2, FS_Subset
    <2> QED BY <1>5, <2>3 DEF Second
  <1> QED BY <1>2, <1>3, <1>4, <1>5 DEF Second

\* The row numbers of the uses in a scope are the contradictions there.
LEMMA UsesAreContradictions ==
    ASSUME NEW rows, IsAudit(rows), NEW k \in 0 .. Len(rows), NEW r, NEW scope
    PROVE  Sequences(InScope(SuccessOf(rows, k), scope, r)) = Against(rows, r, scope, k)
  <1>1. \A n \in 1 .. Len(rows) : rows[n] \in AuditRow /\ (rows[n].outcome = "succeeded" => rows[n].phase = "completed")
    BY DEF IsAudit
  <1>2. DOMAIN rows = 1 .. Len(rows) /\ Len(rows) \in Nat
    BY DEF IsAudit
  <1>3. \A n \in 1 .. Len(rows) : r \in Relevant(rows[n]) <=> r \in rows[n].refs /\ ScopeRule[rows[n].grant] \in {None, r}
    BY DEF Relevant
  <1>4. ASSUME NEW n, n \in Against(rows, r, scope, k) PROVE n \in Sequences(InScope(SuccessOf(rows, k), scope, r))
    <2>1. n \in 1 .. k /\ Succeeded(rows[n]) /\ r \in Relevant(rows[n]) /\ scope \in {Every, rows[n].grant}
      BY <1>1, <1>2, <1>3, <1>4 DEF Against, Succeeded
    <2>2. Use(rows, r, n) \in SuccessOf(rows, k)
      BY <2>1, Members
    <2>3. Use(rows, r, n).rule = r /\ Use(rows, r, n).grant = rows[n].grant /\ Use(rows, r, n).seq = n
      BY DEF Use
    <2> QED BY <2>1, <2>2, <2>3 DEF Sequences, InScope
  <1>5. ASSUME NEW s, s \in InScope(SuccessOf(rows, k), scope, r) PROVE s.seq \in Against(rows, r, scope, k)
    <2>1. PICK n \in 1 .. k : Succeeded(rows[n]) /\ \E q \in Relevant(rows[n]) : s = Use(rows, q, n)
      BY <1>5, Members DEF InScope
    <2>2. r \in Relevant(rows[n]) /\ s.seq = n /\ scope \in {Every, rows[n].grant}
      BY <1>5, <2>1 DEF InScope, Use
    <2> QED BY <1>1, <1>2, <1>3, <2>1, <2>2 DEF Against, Succeeded
  <1> QED BY <1>4, <1>5 DEF Sequences

\* Recording the evidence of one more row keeps the tables exact.
LEMMA TablesStep ==
    ASSUME NEW rows, IsAudit(rows), NEW k \in 1 .. Len(rows)
    PROVE  WithEvidence(TablesOf(rows, k - 1), rows[k], k) = TablesOf(rows, k)
  <1> DEFINE row == rows[k]
             low == TablesOf(rows, k - 1)
             A(scope, r) == Against(rows, r, scope, k)
             B(scope, r) == Against(rows, r, scope, k - 1)
  <1>1. /\ rows \in Seq(AuditRow) /\ row \in AuditRow /\ (row.outcome = "succeeded" <=> Succeeded(row))
        /\ k \in Nat \ {0} /\ k - 1 \in 0 .. Len(rows) /\ k - 1 \in Nat /\ k \in 0 .. Len(rows)
    BY DEF IsAudit, Succeeded
  <1>2. Relevant(row) \subseteq Rules /\ row.grant \in Grants
    BY <1>1 DEF Relevant, AuditRow
  <1>3. low.success = SuccessOf(rows, k - 1) /\ low.qualified = QualifiedOf(rows, k - 1)
    BY DEF TablesOf
  <1>4. CASE ~Succeeded(row)
    <2>1. WithEvidence(low, row, k) = low
      BY <1>1, <1>4 DEF WithEvidence, Succeeded
    <2>2. SuccessOf(rows, k) = SuccessOf(rows, k - 1)
      <3>1. {m \in 1 .. k : Succeeded(rows[m])} = {m \in 1 .. (k - 1) : Succeeded(rows[m])}
        BY <1>1, <1>4
      <3> QED BY <3>1 DEF SuccessOf
    <2>3. \A scope, r : A(scope, r) = B(scope, r)
      BY <1>1, <1>4, OneMore DEF Hits
    <2>4. QualifiedOf(rows, k) = QualifiedOf(rows, k - 1)
      BY <2>3 DEF QualifiedOf
    <2> QED BY <2>1, <2>2, <2>4 DEF TablesOf
  <1>5. CASE Succeeded(row)
    <2> DEFINE added == [low EXCEPT !.success = low.success \cup
                            {[rule |-> r, grant |-> row.grant, use |-> row.use, seq |-> k] : r \in Relevant(row)}]
               new == UNION {Qualified(added, scope, r) : scope \in {Every, row.grant}, r \in Relevant(row)}
    <2>1. WithEvidence(low, row, k) = [added EXCEPT !.qualified = added.qualified \cup new]
      BY <1>5 DEF WithEvidence, Succeeded
    <2>2. SuccessOf(rows, k) = SuccessOf(rows, k - 1) \cup UsesAt(rows, k)
      <3>1. {m \in 1 .. k : Succeeded(rows[m])} = {m \in 1 .. (k - 1) : Succeeded(rows[m])} \cup {k}
        BY <1>1, <1>5
      <3> QED BY <3>1 DEF SuccessOf
    <2>3. added = [success |-> SuccessOf(rows, k), qualified |-> QualifiedOf(rows, k - 1)]
      <3>1. UsesAt(rows, k) = {[rule |-> r, grant |-> row.grant, use |-> row.use, seq |-> k] : r \in Relevant(row)}
        BY DEF UsesAt, Use
      <3>2. added = [low EXCEPT !.success = SuccessOf(rows, k)]
        BY <1>3, <2>2, <3>1
      <3> HIDE DEF added
      <3> QED BY <1>3, <3>2 DEF TablesOf
    <2> HIDE DEF added
    <2>4. added.success = SuccessOf(rows, k) /\ added.qualified = QualifiedOf(rows, k - 1)
      BY <2>3
    <2>5. ASSUME NEW scope, NEW r
          PROVE  /\ A(scope, r) = Sequences(InScope(added.success, scope, r))
                 /\ B(scope, r) \in SUBSET (1 .. (k - 1))
                 /\ Hits(row, r, scope) => A(scope, r) = B(scope, r) \cup {k}
                 /\ ~Hits(row, r, scope) => A(scope, r) = B(scope, r)
      BY <1>1, <2>4, UsesAreContradictions, AgainstFinite, OneMore
    <2>6. ASSUME NEW scope, NEW r, NEW q
          PROVE  q \in Qualified(added, scope, r) <=>
                    /\ ~\E m \in QualifiedOf(rows, k - 1) : m.scope = scope /\ m.rule = r
                    /\ \E n : Second(A(scope, r), n) /\ q = Mark(scope, r, n)
      <3>1. Qualified(added, scope, r) =
               IF \E m \in QualifiedOf(rows, k - 1) : m.scope = scope /\ m.rule = r THEN {} ELSE MarksOf(A(scope, r), scope, r)
        BY <2>4, <2>5 DEF Qualified, MarksOf, Mark
      <3>2. \A S : q \in MarksOf(S, scope, r) <=> \E n : Second(S, n) /\ q = Mark(scope, r, n)
        BY DEF MarksOf, Second
      <3> QED BY <3>1, <3>2
    <2>7. \A q : q \in new <=> \E scope \in {Every, row.grant}, r \in Relevant(row) : q \in Qualified(added, scope, r)
      OBVIOUS
    <2> HIDE DEF new, A, B
    <2>8. ASSUME NEW q PROVE q \in QualifiedOf(rows, k) <=> q \in QualifiedOf(rows, k - 1) \/ q \in new
      <3>1. /\ q \in QualifiedOf(rows, k) <=>
                   \E scope \in Scopes, r \in Rules : \E n : Second(A(scope, r), n) /\ q = Mark(scope, r, n)
            /\ \A p : p \in QualifiedOf(rows, k - 1) <=>
                   \E scope \in Scopes, r \in Rules : \E n : Second(B(scope, r), n) /\ p = Mark(scope, r, n)
        BY Members DEF A, B
      <3>2. ASSUME q \in QualifiedOf(rows, k - 1) PROVE q \in QualifiedOf(rows, k)
        <4>0. PICK scope \in Scopes, r \in Rules : \E n : Second(B(scope, r), n) /\ q = Mark(scope, r, n)
          BY <3>1, <3>2
        <4>1. PICK n : Second(B(scope, r), n) /\ q = Mark(scope, r, n)
          BY <4>0
        <4>2. Second(A(scope, r), n)
          BY <1>1, <2>5, <4>1, SecondGrows
        <4> QED BY <3>1, <4>1, <4>2
      <3>3. ASSUME q \in new PROVE q \in QualifiedOf(rows, k)
        <4>1. PICK scope \in {Every, row.grant}, r \in Relevant(row) : q \in Qualified(added, scope, r)
          BY <2>7, <3>3
        <4> QED BY <1>2, <2>6, <3>1, <4>1 DEF Scopes
      <3>4. ASSUME q \in QualifiedOf(rows, k), q \notin QualifiedOf(rows, k - 1) PROVE q \in new
        <4>0. PICK scope \in Scopes, r \in Rules : \E n : Second(A(scope, r), n) /\ q = Mark(scope, r, n)
          BY <3>1, <3>4
        <4>1. PICK n : Second(A(scope, r), n) /\ q = Mark(scope, r, n)
          BY <4>0
        <4>2. ~Second(B(scope, r), n)
          BY <3>1, <3>4, <4>1
        <4>3. Hits(row, r, scope) /\ Cardinality(B(scope, r)) = 1
          BY <1>1, <2>5, <4>1, <4>2, SecondGrows
        <4>4. ~\E m \in QualifiedOf(rows, k - 1) : m.scope = scope /\ m.rule = r
          <5> SUFFICES ASSUME NEW m \in QualifiedOf(rows, k - 1), m.scope = scope, m.rule = r PROVE FALSE
            OBVIOUS
          <5>0. PICK c \in Scopes, p \in Rules : \E i : Second(B(c, p), i) /\ m = Mark(c, p, i)
            BY <3>1
          <5>1. PICK i : Second(B(c, p), i) /\ m = Mark(c, p, i)
            BY <5>0
          <5>2. c = scope /\ p = r
            BY <5>1 DEF Mark
          <5> QED BY <1>1, <2>5, <4>3, <5>1, <5>2, SecondGrows
        <4>5. q \in Qualified(added, scope, r)
          BY <2>6, <4>1, <4>4
        <4> QED BY <2>7, <4>3, <4>5 DEF Hits
      <3> QED BY <3>2, <3>3, <3>4
    <2>9. QualifiedOf(rows, k) = QualifiedOf(rows, k - 1) \cup new
      BY <2>8
    <2> QED BY <2>1, <2>3, <2>4, <2>9 DEF TablesOf
  <1> QED BY <1>4, <1>5

\* No rows, no evidence.
LEMMA NoTables == ASSUME NEW rows, IsAudit(rows) PROVE TablesOf(rows, 0) = NoEvidence
  <1>1. \A s : s \notin SuccessOf(rows, 0)
    BY Members
  <1>2. \A q : q \notin QualifiedOf(rows, 0)
    <2>1. \A scope, r, n : ~Second(Against(rows, r, scope, 0), n)
      BY DEF Second, Against, IsAudit
    <2> QED BY <2>1, Members
  <1> QED BY <1>1, <1>2 DEF TablesOf, NoEvidence

\* The replay of a table makes the tables exact, row by row.
LEMMA ReplayIsExact ==
    ASSUME IsAudit(log)
    PROVE  Replayed[Len(log)] = TablesOf(log, Len(log))
  <1> DEFINE exact == [n \in 0 .. Len(log) |-> TablesOf(log, n)]
             Follows(f) == f = [n \in 0 .. Len(log) |->
                                  IF n = 0 THEN NoEvidence ELSE WithEvidence(f[n - 1], log[n], n)]
  <1>0. Len(log) \in Nat
    BY DEF IsAudit
  <1>1. Follows(exact)
    <2> SUFFICES ASSUME NEW n \in 0 .. Len(log)
                 PROVE  TablesOf(log, n) = IF n = 0 THEN NoEvidence ELSE WithEvidence(exact[n - 1], log[n], n)
      OBVIOUS
    <2>1. CASE n = 0
      BY <2>1, NoTables
    <2>2. CASE n # 0
      <3>1. n \in 1 .. Len(log) /\ n - 1 \in 0 .. Len(log)
        BY <1>0, <2>2
      <3>2. exact[n - 1] = TablesOf(log, n - 1)
        BY <3>1
      <3> HIDE DEF exact
      <3> QED BY <2>2, <3>1, <3>2, TablesStep
    <2> QED BY <2>1, <2>2
  <1>2. Follows(Replayed)
    <2>1. Replayed = CHOOSE f : Follows(f)
      BY DEF Replayed
    <2> HIDE DEF Follows, exact
    <2> QED BY <1>1, <2>1
  <1>3. \A n \in 0 .. Len(log) :
           Replayed[n] = IF n = 0 THEN NoEvidence ELSE WithEvidence(Replayed[n - 1], log[n], n)
    BY <1>2
  <1> DEFINE wrong == {n \in 0 .. Len(log) : Replayed[n] # TablesOf(log, n)}
  <1>4. wrong = {}
    <2> SUFFICES ASSUME wrong # {} PROVE FALSE
      OBVIOUS
    <2>1. PICK n \in wrong : \A m \in wrong : n <= m
      <3>1. wrong \in SUBSET Nat
        BY <1>0
      <3> QED BY <3>1, LeastNatural
    <2>2. n \in 0 .. Len(log) /\ Replayed[n] # TablesOf(log, n)
      OBVIOUS
    <2>3. n # 0
      BY <1>3, <2>2, NoTables
    <2>4. n \in 1 .. Len(log) /\ n - 1 \in 0 .. Len(log) /\ n - 1 < n
      BY <1>0, <2>2, <2>3
    <2>5. n - 1 \notin wrong
      BY <1>0, <2>1, <2>4
    <2>6. Replayed[n - 1] = TablesOf(log, n - 1)
      BY <2>4, <2>5
    <2> HIDE DEF wrong
    <2> QED BY <1>3, <2>2, <2>3, <2>4, <2>6, TablesStep
  <1> QED BY <1>0, <1>4

\* What was derived from the first rows does not change with more.
LEMMA TablesKeep ==
    ASSUME NEW rows \in Seq(AuditRow), NEW row \in AuditRow, NEW k \in 0 .. Len(rows)
    PROVE  /\ TablesOf(Append(rows, row), k) = TablesOf(rows, k)
           /\ \A r, scope : Against(Append(rows, row), r, scope, k) = Against(rows, r, scope, k)
  <1> DEFINE more == Append(rows, row)
  <1>1. /\ more \in Seq(AuditRow) /\ Len(more) = Len(rows) + 1 /\ \A n \in 1 .. Len(rows) : more[n] = rows[n]
        /\ DOMAIN more = 1 .. (Len(rows) + 1) /\ DOMAIN rows = 1 .. Len(rows) /\ Len(rows) \in Nat
    OBVIOUS
  <1> HIDE DEF more
  <1>2. \A n \in 1 .. k : more[n] = rows[n]
    BY <1>1
  <1>3. ASSUME NEW r, NEW scope PROVE Against(more, r, scope, k) = Against(rows, r, scope, k)
    BY <1>1, <1>2 DEF Against
  <1>4. SuccessOf(more, k) = SuccessOf(rows, k)
    <2>1. \A n \in 1 .. k : (Succeeded(more[n]) <=> Succeeded(rows[n])) /\ UsesAt(more, n) = UsesAt(rows, n)
      BY <1>2 DEF UsesAt, Use
    <2> QED BY <2>1 DEF SuccessOf
  <1>5. QualifiedOf(more, k) = QualifiedOf(rows, k)
    BY <1>3 DEF QualifiedOf
  <1> QED BY <1>3, <1>4, <1>5 DEF TablesOf, more

---------------------------------------------------------------------------
\* The inductive invariant of the tables.
TablesFit == IsAudit(log) /\ (derived # None => derived = TablesOf(log, Len(log)))

Appends == \E row \in AuditRow : (row.outcome = "succeeded" => row.phase = "completed") /\ Appended(row)
Reads ==
    \/ \E scope \in Scopes : BeginPages(scope)
    \/ ReadGroups \/ CountRule \/ ReadSupport \/ EndPage \/ Forget

\* The steps: an append, the migration, or one of the reader.
LEMMA AuditSteps ==
    ASSUME TablesFit, [AuditNext]_auditVars
    PROVE  Appends \/ Migrate \/ Reads \/ UNCHANGED auditVars
  <1>1. ASSUME NEW g \in Grants, NEW u \in Uses, NEW refs \in References, NEW at \in Times, Authorize(g, u, refs, at)
        PROVE  Appends
    <2> DEFINE row == Row("authorized", g, u, refs, at, None)
    <2>1. row \in AuditRow /\ row.outcome = None
      BY AuditAssumption DEF Row, AuditRow
    <2>2. row.outcome # "succeeded"
      BY <2>1, AuditAssumption DEF Outcomes
    <2>3. Appended(row)
      BY <1>1 DEF Authorize
    <2> HIDE DEF row
    <2> QED BY <2>1, <2>2, <2>3 DEF Appends
  <1>2. ASSUME NEW g \in Grants, NEW u \in Uses \cup {Legacy}, NEW at \in Times, NEW o \in Outcomes, Complete(g, u, at, o)
        PROVE  Appends
    <2>1. PICK n \in Positions(log, "authorized", g, u) : Appended(Row("completed", g, u, log[n].refs, at, o))
      BY <1>2 DEF Complete
    <2> DEFINE row == Row("completed", g, u, log[n].refs, at, o)
    <2>2. log[n].refs \in SUBSET Rules
      <3>1. log \in Seq(AuditRow) /\ n \in DOMAIN log
        BY <2>1 DEF TablesFit, IsAudit, Positions
      <3>2. log[n] \in AuditRow
        BY <3>1
      <3> QED BY <3>2 DEF AuditRow
    <2>3. row \in AuditRow /\ row.phase = "completed"
      BY <2>2 DEF Row, AuditRow
    <2> HIDE DEF row
    <2> QED BY <2>1, <2>3 DEF Appends, row
  <1> QED BY <1>1, <1>2 DEF AuditNext, Reads, Scopes

\* What an append does.
LEMMA AppendStep ==
    ASSUME TablesFit, Appends
    PROVE  /\ TablesFit' /\ derived' = TablesOf(log', Len(log')) /\ UNCHANGED <<reader, page>>
           /\ Len(log') = Len(log) + 1
           /\ \A k \in 0 .. Len(log) : \A r, scope : Against(log', r, scope, k) = Against(log, r, scope, k)
           /\ \A n \in 1 .. Len(log) : log'[n] = log[n]
  <1>1. PICK row \in AuditRow : (row.outcome = "succeeded" => row.phase = "completed") /\ Appended(row)
    BY DEF Appends
  <1>2. /\ derived # None /\ log' = Append(log, row) /\ UNCHANGED <<reader, page>>
        /\ derived' = WithEvidence(derived, row, Len(log) + 1) /\ log \in Seq(AuditRow)
    BY <1>1 DEF Appended, TablesFit, IsAudit
  <1>3. /\ log' \in Seq(AuditRow) /\ Len(log') = Len(log) + 1 /\ Len(log) \in Nat
        /\ log'[Len(log) + 1] = row /\ \A n \in 1 .. Len(log) : log'[n] = log[n]
    BY <1>2
  <1>4. IsAudit(log')
    BY <1>1, <1>3 DEF TablesFit, IsAudit
  <1>5. derived = TablesOf(log', Len(log))
    BY <1>2, <1>3, TablesKeep DEF TablesFit
  <1>6. derived' = TablesOf(log', Len(log'))
    <2>1. PICK rows : rows = log'
      OBVIOUS
    <2>2. Len(rows) \in 1 .. Len(rows) /\ Len(rows) - 1 = Len(log)
      BY <1>3, <2>1
    <2>3. WithEvidence(TablesOf(rows, Len(rows) - 1), rows[Len(rows)], Len(rows)) = TablesOf(rows, Len(rows))
      BY <1>4, <2>1, <2>2, TablesStep
    <2> QED BY <1>2, <1>3, <1>5, <2>1, <2>2, <2>3
  <1>7. \A k \in 0 .. Len(log) : \A r, scope : Against(log', r, scope, k) = Against(log, r, scope, k)
    BY <1>2, TablesKeep
  <1> QED BY <1>2, <1>3, <1>4, <1>6, <1>7 DEF TablesFit

\* The invariant of the tables holds.
LEMMA TablesAlways == AuditSpec => []TablesFit
  <1>1. AuditInit => TablesFit
    <2>1. ASSUME log = <<>>, derived = NoEvidence PROVE TablesFit
      <3>1. IsAudit(log) /\ Len(log) = 0
        BY <2>1 DEF IsAudit
      <3> QED BY <2>1, <3>1, NoTables DEF TablesFit
    <2>2. ASSUME log \in OldLogs, derived = None PROVE TablesFit
      <3>1. log \in Seq(OldRows)
        BY <2>2, AuditAssumption
      <3>2. \A row \in OldRows : row \in AuditRow /\ (row.outcome = "succeeded" => row.phase = "completed")
        BY AuditAssumption DEF OldRows, AuditRow, Outcomes
      <3>3. log \in Seq(AuditRow)
        BY <3>1, <3>2
      <3>4. IsAudit(log)
        BY <3>1, <3>2, <3>3 DEF IsAudit
      <3> QED BY <2>2, <3>4 DEF TablesFit
    <2> QED BY <2>1, <2>2 DEF AuditInit
  <1>2. TablesFit /\ [AuditNext]_auditVars => TablesFit'
    <2> SUFFICES ASSUME TablesFit, [AuditNext]_auditVars PROVE TablesFit'
      OBVIOUS
    <2>1. CASE Appends
      BY <2>1, AppendStep
    <2>2. CASE Migrate
      BY <2>2, ReplayIsExact DEF Migrate, TablesFit
    <2>3. CASE Reads \/ UNCHANGED auditVars
      <3>1. UNCHANGED <<log, derived>>
        BY <2>3 DEF Reads, BeginPages, ReadGroups, CountRule, ReadSupport, EndPage, Forget, auditVars
      <3> QED BY <3>1 DEF TablesFit
    <2> QED BY <2>1, <2>2, <2>3, AuditSteps
  <1> QED BY <1>1, <1>2, PTL DEF AuditSpec

\* Of every rule and scope the derived tables say exactly what the audit does.
THEOREM QualificationStaysExact == AuditSpec => []QualificationIsExact
  <1>1. TablesFit => QualificationIsExact
    <2> SUFFICES ASSUME TablesFit, derived # None PROVE QualificationIsExact
      BY DEF QualificationIsExact
    <2>1. derived.qualified = QualifiedOf(log, Len(log))
      BY DEF TablesFit, TablesOf
    <2>2. \A r, scope : Contradictions(r, scope, Len(log)) = Against(log, r, scope, Len(log))
      BY DEF Contradictions, Against
    <2>3. QualifiedOf(log, Len(log)) = UNION { MarksOf(Contradictions(r, scope, Len(log)), scope, r) :
                                                 scope \in Grants \cup {Every}, r \in Rules }
      <3> DEFINE audit == UNION { MarksOf(Contradictions(r, scope, Len(log)), scope, r) :
                                     scope \in Grants \cup {Every}, r \in Rules }
      <3>1. \A q : q \in audit <=> \E scope \in Grants \cup {Every}, r \in Rules :
                                       q \in MarksOf(Contradictions(r, scope, Len(log)), scope, r)
        OBVIOUS
      <3>2. \A q : q \in QualifiedOf(log, Len(log)) <=> \E scope \in Grants \cup {Every}, r \in Rules :
                                       q \in MarksOf(Against(log, r, scope, Len(log)), scope, r)
        <4>1. \A q : q \in QualifiedOf(log, Len(log)) <=>
                        \E scope \in Scopes, r \in Rules : q \in MarksOf(Against(log, r, scope, Len(log)), scope, r)
          BY DEF QualifiedOf
        <4> QED BY <4>1 DEF Scopes
      <3> HIDE DEF audit
      <3>3. \A q : q \in QualifiedOf(log, Len(log)) <=> q \in audit
        BY <2>2, <3>1, <3>2
      <3>4. QualifiedOf(log, Len(log)) = audit
        BY <3>3
      <3> QED BY <3>4 DEF audit
    <2> QED BY <2>1, <2>3 DEF QualificationIsExact, MarksOf, Mark
  <1> QED BY <1>1, TablesAlways, PTL

---------------------------------------------------------------------------
(* The pages.  What they must hold is fixed by the rows up to the reader's  *)
(* high-water mark: the due rules, and the entry of each.                   *)

Due(rows, scope, high) == {r \in Rules : Cardinality(Against(rows, r, scope, high)) >= 2}
FirstUses(rows, S) == {<<rows[n].grant, rows[n].use>> : n \in {n \in S : Cardinality(Before(S, n)) < 2}}
Entry(rows, r, scope, high) ==
    [rule |-> r, count |-> Cardinality(Against(rows, r, scope, high)), uses |-> FirstUses(rows, Against(rows, r, scope, high))]
Counting(rows, r, scope, high) == [rule |-> r, count |-> Cardinality(Against(rows, r, scope, high)), uses |-> {}]

\* A set of numbers has two members if and only if it has a second.
LEMMA TwoHaveASecond ==
    ASSUME NEW S \in SUBSET Nat, IsFiniteSet(S)
    PROVE  Cardinality(S) >= 2 <=> \E n : Second(S, n)
  <1>0. Cardinality(S) \in Nat
    BY FS_CardinalityType
  <1>1. ASSUME Cardinality(S) >= 2 PROVE \E n : Second(S, n)
    <2>1. S # {}
      BY <1>1, FS_EmptySet
    <2>2. PICK x \in S : \A y \in S : x <= y
      BY <2>1, LeastNatural
    <2>3. IsFiniteSet(S \ {x}) /\ Cardinality(S \ {x}) = Cardinality(S) - 1
      BY <2>2, FS_RemoveElement
    <2>4. S \ {x} # {} /\ S \ {x} \in SUBSET Nat
      BY <1>0, <1>1, <2>3, FS_EmptySet
    <2>5. PICK y \in S \ {x} : \A z \in S \ {x} : y <= z
      BY <2>4, LeastNatural
    <2>6. x \in Nat /\ y \in Nat /\ x < y
      BY <2>2, <2>5
    <2>7. \A z \in S : z < y <=> z = x
      BY <2>2, <2>5, <2>6
    <2>8. Before(S, y) = {x}
      BY <2>2, <2>7 DEF Before
    <2> QED BY <2>5, <2>8, FS_Singleton DEF Second
  <1>2. ASSUME NEW n, Second(S, n) PROVE Cardinality(S) >= 2
    <2>1. n \in S /\ n \in Nat /\ Before(S, n) \in SUBSET S /\ n \notin Before(S, n)
      BY <1>2 DEF Second, Before
    <2>2. IsFiniteSet(Before(S, n)) /\ Cardinality(Before(S, n)) = 1
      BY <1>2, <2>1, FS_Subset DEF Second
    <2>3. Cardinality(Before(S, n) \cup {n}) = 2
      BY <2>1, <2>2, FS_AddElement
    <2>4. Before(S, n) \cup {n} \in SUBSET S
      BY <2>1
    <2>5. Cardinality(Before(S, n) \cup {n}) <= Cardinality(S)
      BY <2>4, FS_Subset
    <2> QED BY <2>3, <2>5
  <1> QED BY <1>1, <1>2

\* The contradictions up to an earlier row, and the second of them.
LEMMA Earlier ==
    ASSUME NEW rows \in Seq(AuditRow), NEW r, NEW scope, NEW high \in 0 .. Len(rows)
    PROVE  /\ Against(rows, r, scope, high) = {n \in Against(rows, r, scope, Len(rows)) : n <= high}
           /\ \A n : Second(Against(rows, r, scope, high), n) <=> Second(Against(rows, r, scope, Len(rows)), n) /\ n <= high
  <1> DEFINE all == Against(rows, r, scope, Len(rows))
             early == Against(rows, r, scope, high)
  <1>1. early = {n \in all : n <= high}
    BY DEF Against
  <1>2. all \subseteq 1 .. Len(rows) /\ Len(rows) \in Nat /\ high \in Nat
    BY AgainstFinite
  <1> HIDE DEF all, early
  <1>3. \A n \in all : n \in Nat
    BY <1>2
  <1>4. ASSUME NEW n, n \in all, n <= high PROVE Before(early, n) = Before(all, n)
    <2>1. \A m \in all : m < n => m <= high
      BY <1>2, <1>3, <1>4
    <2> QED BY <1>1, <2>1 DEF Before
  <1>5. \A n : Second(early, n) <=> Second(all, n) /\ n <= high
    BY <1>1, <1>4 DEF Second
  <1> QED BY <1>1, <1>5 DEF all, early

\* What the queries of a page find in the derived tables.
LEMMA Queries ==
    ASSUME TablesFit, derived = TablesOf(log, Len(log)), reader.high \in 0 .. Len(log), reader.scope \in Scopes
    PROVE  /\ Groups = {r \in Due(log, reader.scope, reader.high) : r > reader.after}
           /\ \A r \in Rules : LET A == Against(log, r, reader.scope, reader.high) IN
                 /\ Counted(r) = {Use(log, r, n) : n \in A}
                 /\ Sequences(Counted(r)) = A
                 /\ Cardinality(Counted(r)) = Cardinality(A)
  <1> DEFINE scope == reader.scope
             high == reader.high
             A(r) == Against(log, r, scope, high)
             all(r) == Against(log, r, scope, Len(log))
  <1>1. /\ IsAudit(log) /\ log \in Seq(AuditRow) /\ Len(log) \in Nat /\ high \in Nat
        /\ derived.success = SuccessOf(log, Len(log)) /\ derived.qualified = QualifiedOf(log, Len(log))
    BY DEF TablesFit, IsAudit, TablesOf
  <1>2. ASSUME NEW r
        PROVE  /\ A(r) \in SUBSET Nat /\ IsFiniteSet(A(r)) /\ A(r) = {n \in all(r) : n <= high}
               /\ \A n : Second(A(r), n) <=> Second(all(r), n) /\ n <= high
    BY <1>1, AgainstFinite, Earlier
  <1>3. Groups = {r \in Due(log, scope, high) : r > reader.after}
    <2>1. \A r \in Rules : r \in Due(log, scope, high) <=> \E n : Second(all(r), n) /\ n <= high
      BY <1>2, TwoHaveASecond DEF Due
    <2>2. ASSUME NEW q PROVE q \in derived.qualified <=>
             \E c \in Scopes, r \in Rules : \E n : Second(Against(log, r, c, Len(log)), n) /\ q = Mark(c, r, n)
      BY <1>1, Members
    <2> HIDE DEF all, A
    <2>3. ASSUME NEW r \in Rules, NEW n, Second(all(r), n), n <= high, r > reader.after PROVE r \in Groups
      <3>1. Mark(scope, r, n) \in derived.qualified
        BY <2>2, <2>3 DEF all
      <3>2. Mark(scope, r, n).scope = scope /\ Mark(scope, r, n).rule = r /\ Mark(scope, r, n).at = n
        BY DEF Mark
      <3> HIDE DEF scope, high
      <3> QED BY <2>3, <3>1, <3>2 DEF Groups, scope, high
    <2>4. ASSUME NEW r, r \in Groups
          PROVE  r \in Rules /\ r > reader.after /\ \E n : Second(all(r), n) /\ n <= high
      <3>1. PICK q \in derived.qualified : q.scope = scope /\ q.rule > reader.after /\ q.at <= high /\ r = q.rule
        BY <2>4 DEF Groups
      <3>0. PICK c \in Scopes, p \in Rules : \E n : Second(Against(log, p, c, Len(log)), n) /\ q = Mark(c, p, n)
        BY <2>2, <3>1
      <3>2. PICK n : Second(Against(log, p, c, Len(log)), n) /\ q = Mark(c, p, n)
        BY <3>0
      <3>3. q.scope = c /\ q.rule = p /\ q.at = n
        BY <3>2 DEF Mark
      <3>4. c = scope /\ p = r
        BY <3>1, <3>3
      <3> QED BY <3>1, <3>2, <3>3, <3>4 DEF all
    <2>5. \A r : r \in Groups <=> r \in Due(log, scope, high) /\ r > reader.after
      BY <2>1, <2>3, <2>4 DEF Due
    <2> QED BY <2>5
  <1>4. ASSUME NEW r \in Rules
        PROVE  /\ Counted(r) = {Use(log, r, n) : n \in A(r)}
               /\ Sequences(Counted(r)) = A(r)
               /\ Cardinality(Counted(r)) = Cardinality(A(r))
    <2>1. Len(log) \in 0 .. Len(log)
      BY <1>1
    <2>2. Sequences(InScope(derived.success, scope, r)) = all(r)
      BY <1>1, <2>1, UsesAreContradictions
    <2>3. \A s \in InScope(derived.success, scope, r) : s = Use(log, r, s.seq) /\ s.seq \in all(r)
      <3>1. ASSUME NEW s \in InScope(derived.success, scope, r) PROVE s = Use(log, r, s.seq)
        <4>1. s \in SuccessOf(log, Len(log)) /\ s.rule = r
          BY <1>1 DEF InScope
        <4>0. PICK n \in 1 .. Len(log) : \E p : s = Use(log, p, n)
          BY <4>1, Members
        <4>2. PICK p : s = Use(log, p, n)
          BY <4>0
        <4>3. s.rule = p /\ s.seq = n
          BY <4>2 DEF Use
        <4> QED BY <4>1, <4>2, <4>3
      <3> QED BY <2>2, <3>1 DEF Sequences
    <2>4. \A n \in all(r) : Use(log, r, n) \in InScope(derived.success, scope, r)
      <3>1. ASSUME NEW n \in all(r) PROVE Use(log, r, n) \in InScope(derived.success, scope, r)
        <4>1. PICK s \in InScope(derived.success, scope, r) : s.seq = n
          BY <2>2 DEF Sequences
        <4> QED BY <2>3, <4>1
      <3> QED BY <3>1
    <2>5. \A n : Use(log, r, n).seq = n
      BY DEF Use
    <2>6. ASSUME NEW s PROVE s \in Counted(r) <=> \E n \in A(r) : s = Use(log, r, n)
      <3>1. s \in Counted(r) <=> s \in InScope(derived.success, scope, r) /\ s.seq <= high
        BY DEF Counted
      <3> HIDE DEF A, all, high
      <3> QED BY <1>2, <2>3, <2>4, <2>5, <3>1
    <2>7. Counted(r) = {Use(log, r, n) : n \in A(r)}
      BY <2>6
    <2>8. Sequences(Counted(r)) = A(r)
      <3> HIDE DEF A
      <3> QED BY <2>5, <2>7 DEF Sequences
    <2>9. Cardinality(Counted(r)) = Cardinality(A(r))
      <3> DEFINE f == [n \in A(r) |-> Use(log, r, n)]
      <3> HIDE DEF A
      <3>1. f \in [A(r) -> Counted(r)] /\ \A s \in Counted(r) : \E n \in A(r) : f[n] = s
        BY <2>6
      <3>2. \A m, n \in A(r) : f[m] = f[n] => m = n
        BY <2>5
      <3>3. f \in Bijection(A(r), Counted(r))
        <4> HIDE DEF f
        <4> QED BY <3>1, <3>2 DEF Bijection, Injection, Surjection, IsInjective
      <3> QED BY <1>2, <3>3, FS_Bijection DEF ExistsBijection
    <2> QED BY <2>7, <2>8, <2>9
  <1> QED BY <1>3, <1>4

---------------------------------------------------------------------------
EntryType == [rule : Rules, count : Nat, uses : SUBSET (Grants \X (Uses \cup {Legacy}))]
ReaderType ==
    [pc : {"groups", "count", "support", "done"}, scope : Scopes, high : Nat, after : Nat,
     rest : SUBSET Rules, more : BOOLEAN]

\* A page that holds the due rules up to a limit, each once, with its evidence.
PageHolds(pg, rows, scope, high, limit) ==
    /\ pg \in Seq(EntryType)
    /\ \A i \in 1 .. Len(pg) : /\ pg[i].rule \in Due(rows, scope, high) /\ pg[i].rule <= limit
                               /\ pg[i] = Entry(rows, pg[i].rule, scope, high)
    /\ \A r \in Due(rows, scope, high) : r <= limit => \E i \in 1 .. Len(pg) : pg[i].rule = r
    /\ \A i, j \in 1 .. Len(pg) : pg[i].rule = pg[j].rule => i = j

\* The next due rule after the cursor, and whether one more follows.
Upcoming(rows, rd, r) ==
    LET due == Due(rows, rd.scope, rd.high) IN
    /\ r \in due /\ r > rd.after
    /\ \A p \in due : p > rd.after => r <= p
    /\ ~rd.more => \A p \in due : p <= r

AllRead(rows, rd) == \A p \in Due(rows, rd.scope, rd.high) : p <= rd.after

\* The inductive invariant of the reader.
PagesFitFor(rows, rd, pg) ==
    /\ rd \in ReaderType /\ rd.high <= Len(rows)
    /\ rd.pc # "support" => PageHolds(pg, rows, rd.scope, rd.high, rd.after)
    /\ rd.pc = "count" => \/ rd.rest = {} /\ (~rd.more => AllRead(rows, rd))
                          \/ \E r : rd.rest = {r} /\ Upcoming(rows, rd, r)
    /\ rd.pc = "support" => \E r, held :
           /\ rd.rest = {r} /\ Upcoming(rows, rd, r)
           /\ PageHolds(held, rows, rd.scope, rd.high, rd.after)
           /\ pg = Append(held, Counting(rows, r, rd.scope, rd.high))
    /\ rd.pc = "done" => AllRead(rows, rd)
PagesFit == reader.pc # "idle" => derived = TablesOf(log, Len(log)) /\ PagesFitFor(log, reader, page)

\* Evidence is of rules, numbers and uses.
LEMMA EntriesAreTyped ==
    ASSUME NEW rows \in Seq(AuditRow), NEW r \in Rules, NEW scope, NEW high \in Nat
    PROVE  /\ Entry(rows, r, scope, high) \in EntryType
           /\ Counting(rows, r, scope, high) \in EntryType
  <1> DEFINE A == Against(rows, r, scope, high)
  <1>1. A \subseteq 1 .. Len(rows) /\ Cardinality(A) \in Nat
    BY AgainstFinite, FS_CardinalityType
  <1>2. \A n \in A : rows[n] \in AuditRow
    BY <1>1
  <1> HIDE DEF A
  <1>3. \A n \in A : rows[n].grant \in Grants /\ rows[n].use \in Uses \cup {Legacy}
    BY <1>2 DEF AuditRow
  <1>4. FirstUses(rows, A) \in SUBSET (Grants \X (Uses \cup {Legacy}))
    BY <1>3 DEF FirstUses
  <1>5. Entry(rows, r, scope, high) = [rule |-> r, count |-> Cardinality(A), uses |-> FirstUses(rows, A)]
    BY DEF Entry, A
  <1>6. Counting(rows, r, scope, high) = [rule |-> r, count |-> Cardinality(A), uses |-> {}]
    BY DEF Counting, A
  <1> QED BY <1>1, <1>4, <1>5, <1>6 DEF EntryType

\* A page that gets the next due rule's evidence holds the due rules up to that one.
LEMMA PageGrows ==
    ASSUME NEW rows \in Seq(AuditRow), NEW rd \in ReaderType, NEW r, Upcoming(rows, rd, r),
           NEW pg, PageHolds(pg, rows, rd.scope, rd.high, rd.after)
    PROVE  PageHolds(Append(pg, Entry(rows, r, rd.scope, rd.high)), rows, rd.scope, rd.high, r)
  <1> DEFINE due == Due(rows, rd.scope, rd.high)
             entry == Entry(rows, r, rd.scope, rd.high)
             long == Append(pg, entry)
  <1>1. rd.after \in Nat /\ rd.high \in Nat
    BY DEF ReaderType
  <1>2. due \subseteq Rules /\ Rules \subseteq Nat
    BY AuditAssumption DEF Due
  <1>3. r \in due /\ r > rd.after /\ \A p \in due : p > rd.after => r <= p
    BY DEF Upcoming
  <1>4. entry \in EntryType /\ entry.rule = r
    BY <1>1, <1>2, <1>3, EntriesAreTyped DEF Entry
  <1>5. /\ pg \in Seq(EntryType)
        /\ \A i \in 1 .. Len(pg) : pg[i].rule \in due /\ pg[i].rule <= rd.after
                                   /\ pg[i] = Entry(rows, pg[i].rule, rd.scope, rd.high)
        /\ \A p \in due : p <= rd.after => \E i \in 1 .. Len(pg) : pg[i].rule = p
        /\ \A i, j \in 1 .. Len(pg) : pg[i].rule = pg[j].rule => i = j
    BY DEF PageHolds
  <1> HIDE DEF due, entry
  <1>6. /\ long \in Seq(EntryType) /\ Len(long) = Len(pg) + 1 /\ Len(pg) \in Nat /\ long[Len(pg) + 1] = entry
        /\ \A i \in 1 .. Len(pg) : long[i] = pg[i]
    BY <1>4, <1>5
  <1> HIDE DEF long
  <1>7. \A p \in due : p <= r <=> p <= rd.after \/ p = r
    BY <1>1, <1>2, <1>3
  <1>8. ASSUME NEW i \in 1 .. Len(long)
        PROVE  long[i].rule \in due /\ long[i].rule <= r /\ long[i] = Entry(rows, long[i].rule, rd.scope, rd.high)
    <2>1. CASE i = Len(pg) + 1
      BY <1>3, <1>4, <1>6, <1>7, <2>1 DEF entry
    <2>2. CASE i \in 1 .. Len(pg)
      BY <1>5, <1>6, <1>7, <2>2
    <2> QED BY <1>6, <2>1, <2>2
  <1>9. ASSUME NEW p \in due, p <= r PROVE \E i \in 1 .. Len(long) : long[i].rule = p
    <2>1. CASE p = r
      <3>1. Len(pg) + 1 \in 1 .. Len(long)
        BY <1>6
      <3> QED BY <1>4, <1>6, <2>1, <3>1
    <2>2. CASE p <= rd.after
      <3>1. PICK i \in 1 .. Len(pg) : pg[i].rule = p
        BY <1>5, <2>2
      <3> QED BY <1>6, <3>1
    <2> QED BY <1>7, <1>9, <2>1, <2>2
  <1>10. ASSUME NEW i \in 1 .. Len(long), NEW j \in 1 .. Len(long), long[i].rule = long[j].rule PROVE i = j
    <2>1. \A k \in 1 .. Len(pg) : long[k].rule # r
      BY <1>1, <1>2, <1>3, <1>5, <1>6
    <2> QED BY <1>4, <1>5, <1>6, <1>10, <2>1
  <1> QED BY <1>6, <1>8, <1>9, <1>10 DEF PageHolds, due, long, entry

\* More rows leave the evidence up to the high-water mark alone.
LEMMA PagesKeep ==
    ASSUME NEW rows, NEW more, NEW rd, NEW pg, PagesFitFor(rows, rd, pg), Len(rows) \in Nat, Len(more) = Len(rows) + 1,
           \A k \in 0 .. Len(rows) : \A r, scope : Against(more, r, scope, k) = Against(rows, r, scope, k),
           \A n \in 1 .. Len(rows) : more[n] = rows[n], rows \in Seq(AuditRow)
    PROVE  PagesFitFor(more, rd, pg)
  <1>1. rd \in ReaderType /\ rd.high \in 0 .. Len(rows)
    BY DEF PagesFitFor, ReaderType
  <1>2. \A r : Against(more, r, rd.scope, rd.high) = Against(rows, r, rd.scope, rd.high)
    BY <1>1
  <1>3. Due(more, rd.scope, rd.high) = Due(rows, rd.scope, rd.high)
    BY <1>2 DEF Due
  <1>4. ASSUME NEW r PROVE Entry(more, r, rd.scope, rd.high) = Entry(rows, r, rd.scope, rd.high)
    <2> DEFINE A == Against(rows, r, rd.scope, rd.high)
    <2>1. \A n \in A : more[n] = rows[n]
      BY <1>1, AgainstFinite
    <2> HIDE DEF A
    <2>2. FirstUses(more, A) = FirstUses(rows, A)
      BY <2>1 DEF FirstUses
    <2> QED BY <1>2, <2>2 DEF Entry, A
  <1>8. \A r : Counting(more, r, rd.scope, rd.high) = Counting(rows, r, rd.scope, rd.high)
    BY <1>2 DEF Counting
  <1>5. \A p, limit : PageHolds(p, more, rd.scope, rd.high, limit) <=> PageHolds(p, rows, rd.scope, rd.high, limit)
    BY <1>3, <1>4 DEF PageHolds
  <1>6. (AllRead(more, rd) <=> AllRead(rows, rd)) /\ \A r : Upcoming(more, rd, r) <=> Upcoming(rows, rd, r)
    BY <1>3 DEF AllRead, Upcoming
  <1>7. rd.high <= Len(more)
    BY <1>1
  <1> QED BY <1>5, <1>6, <1>7, <1>8 DEF PagesFitFor

\* Without a cursor the reader starts with nothing read.
LEMMA PagesStart ==
    ASSUME TablesFit, NEW scope \in Scopes, BeginPages(scope)
    PROVE  PagesFit'
  <1> DEFINE rd == [pc |-> "groups", scope |-> scope, high |-> Len(log), after |-> 0, rest |-> {}, more |-> FALSE]
  <1>1. /\ page' = <<>> /\ log' = log /\ derived' = derived /\ derived = TablesOf(log, Len(log))
        /\ log \in Seq(AuditRow) /\ Len(log) \in Nat
    BY DEF BeginPages, TablesFit, IsAudit
  <1>0. reader' = rd
    <2>1. PICK a : a = [NotReading EXCEPT !.pc = "groups"]
      OBVIOUS
    <2>2. PICK b : b = [a EXCEPT !.scope = scope]
      OBVIOUS
    <2>3. reader' = [b EXCEPT !.high = Len(log)]
      BY <2>1, <2>2, Zenon DEF BeginPages
    <2>4. a = [pc |-> "groups", scope |-> None, high |-> 0, after |-> 0, rest |-> {}, more |-> FALSE]
      BY <2>1 DEF NotReading
    <2>5. b = [pc |-> "groups", scope |-> scope, high |-> 0, after |-> 0, rest |-> {}, more |-> FALSE]
      BY <2>2, <2>4
    <2> QED BY <2>3, <2>5
  <1>2. rd \in ReaderType /\ rd.high <= Len(log) /\ rd.pc = "groups" /\ rd.after = 0
    BY <1>1 DEF ReaderType
  <1> HIDE DEF rd
  <1>3. \A r \in Due(log, rd.scope, rd.high) : ~(r <= 0)
    BY AuditAssumption DEF Due
  <1>4. PageHolds(<<>>, log, rd.scope, rd.high, rd.after)
    BY <1>2, <1>3 DEF PageHolds
  <1>5. PagesFitFor(log, rd, <<>>)
    BY <1>2, <1>4 DEF PagesFitFor
  <1> QED BY <1>0, <1>1, <1>5 DEF PagesFit

\* The query for the groups finds the next due rule, and whether one more follows.
LEMMA GroupsStep ==
    ASSUME TablesFit, PagesFit, ReadGroups
    PROVE  PagesFit'
  <1>1. /\ reader.pc = "groups" /\ derived = TablesOf(log, Len(log)) /\ PagesFitFor(log, reader, page)
        /\ log' = log /\ derived' = derived /\ page' = page
    BY DEF ReadGroups, PagesFit
  <1>2. reader \in ReaderType /\ reader.high \in 0 .. Len(log) /\ reader.scope \in Scopes
    BY <1>1 DEF PagesFitFor, ReaderType
  <1> DEFINE due == Due(log, reader.scope, reader.high)
             first == {r \in Groups : \A q \in Groups : r <= q}
  <1>3. Groups = {r \in due : r > reader.after}
    BY <1>1, <1>2, Queries
  <1>4. due \subseteq Rules /\ Rules \subseteq Nat /\ IsFiniteSet(Groups) /\ Groups \in SUBSET Nat
    <2>1. due \subseteq Rules
      BY DEF Due
    <2> QED BY <1>3, <2>1, AuditAssumption, FS_Subset
  <1>5. PICK rd : rd = [reader EXCEPT !.pc = "count", !.rest = first, !.more = Cardinality(Groups) > 1]
    OBVIOUS
  <1>6. reader' = rd
    BY <1>5 DEF ReadGroups
  <1>7. /\ rd \in ReaderType /\ rd.pc = "count" /\ rd.scope = reader.scope /\ rd.high = reader.high
        /\ rd.after = reader.after /\ rd.rest = first /\ rd.more = (Cardinality(Groups) > 1)
    <2>1. first \in SUBSET Rules /\ (Cardinality(Groups) > 1) \in BOOLEAN
      BY <1>3, <1>4
    <2> HIDE DEF first
    <2> QED BY <1>2, <1>5, <2>1 DEF ReaderType
  <1> HIDE DEF due
  <1>8. \/ rd.rest = {} /\ (~rd.more => AllRead(log, rd))
        \/ \E r : rd.rest = {r} /\ Upcoming(log, rd, r)
    <2>1. CASE Groups = {}
      <3>1. \A p \in due : p <= reader.after
        BY <1>2, <1>3, <1>4, <2>1 DEF ReaderType
      <3> QED BY <1>7, <2>1, <3>1 DEF AllRead, due
    <2>2. CASE Groups # {}
      <3>1. PICK r \in Groups : \A q \in Groups : r <= q
        BY <1>4, <2>2, LeastNatural
      <3>2. first = {r}
        <4>1. \A p \in Groups : p \in Nat
          BY <1>4
        <4>2. \A p \in Groups : p <= r => p = r
          BY <3>1, <4>1
        <4>3. \A p : p \in first <=> p = r
          BY <3>1, <4>1, <4>2
        <4> QED BY <4>3
      <3>3. r \in due /\ r > reader.after /\ \A p \in due : p > reader.after => r <= p
        BY <1>3, <3>1
      <3>4. ASSUME ~rd.more PROVE \A p \in due : p <= r
        <4>1. ~(Cardinality(Groups) > 1)
          BY <1>7, <3>4
        <4>2. Groups = {r}
          <5>1. Cardinality(Groups) \in Nat /\ Cardinality(Groups) # 0
            BY <1>4, <2>2, FS_EmptySet, FS_CardinalityType
          <5>2. Cardinality(Groups) = 1
            BY <4>1, <5>1
          <5>3. \E x : Groups = {x}
            BY <1>4, <5>2, FS_Singleton
          <5> QED BY <3>1, <5>3
        <4>3. \A p \in due : p <= reader.after \/ p = r
          BY <1>2, <1>3, <1>4, <4>2 DEF ReaderType
        <4>4. reader.after \in Nat
          BY <1>2 DEF ReaderType
        <4> QED BY <1>4, <3>3, <4>3, <4>4
      <3> HIDE DEF first
      <3>5. Upcoming(log, rd, r)
        BY <1>7, <3>3, <3>4 DEF Upcoming, due
      <3> QED BY <1>7, <3>2, <3>5
    <2> QED BY <2>1, <2>2
  <1>9. PageHolds(page, log, rd.scope, rd.high, rd.after)
    BY <1>1, <1>7 DEF PagesFitFor
  <1>10. PagesFitFor(log, rd, page)
    BY <1>2, <1>7, <1>8, <1>9 DEF PagesFitFor
  <1> QED BY <1>1, <1>6, <1>10 DEF PagesFit

\* The count is that of the high-water mark.
LEMMA CountStep ==
    ASSUME TablesFit, PagesFit, CountRule
    PROVE  PagesFit'
  <1>1. /\ reader.pc = "count" /\ derived = TablesOf(log, Len(log)) /\ PagesFitFor(log, reader, page)
        /\ log' = log /\ derived' = derived
    BY DEF CountRule, PagesFit
  <1>2. reader \in ReaderType /\ reader.high \in 0 .. Len(log) /\ reader.scope \in Scopes
    BY <1>1 DEF PagesFitFor, ReaderType
  <1>3. PICK r \in reader.rest : page' = Append(page, [rule |-> r, count |-> Cardinality(Counted(r)), uses |-> {}])
    BY DEF CountRule
  <1>4. reader.rest = {r} /\ Upcoming(log, reader, r)
    BY <1>1, <1>3 DEF PagesFitFor
  <1>5. r \in Rules
    BY <1>4 DEF Upcoming, Due
  <1>6. page' = Append(page, Counting(log, r, reader.scope, reader.high))
    BY <1>1, <1>2, <1>3, <1>5, Queries DEF Counting
  <1>7. PICK rd : rd = [reader EXCEPT !.pc = "support"]
    OBVIOUS
  <1>8. /\ reader' = rd /\ rd \in ReaderType /\ rd.pc = "support" /\ rd.scope = reader.scope /\ rd.high = reader.high
        /\ rd.after = reader.after /\ rd.rest = reader.rest /\ rd.more = reader.more
    BY <1>2, <1>7 DEF CountRule, ReaderType
  <1>9. Upcoming(log, rd, r)
    BY <1>4, <1>8 DEF Upcoming
  <1>10. PICK pg : pg = page'
    OBVIOUS
  <1>11. PageHolds(page, log, rd.scope, rd.high, rd.after)
    BY <1>1, <1>8 DEF PagesFitFor
  <1>12. /\ rd.rest = {r} /\ Upcoming(log, rd, r) /\ PageHolds(page, log, rd.scope, rd.high, rd.after)
         /\ pg = Append(page, Counting(log, r, rd.scope, rd.high))
    BY <1>4, <1>6, <1>8, <1>9, <1>10, <1>11
  <1>13. PagesFitFor(log, rd, pg)
    BY <1>2, <1>8, <1>12 DEF PagesFitFor
  <1> QED BY <1>1, <1>8, <1>10, <1>13 DEF PagesFit

\* Replacing the last element of a sequence.
LEMMA LastReplaced ==
    ASSUME NEW T, NEW s \in Seq(T), NEW a \in T, NEW b \in T
    PROVE  [Append(s, a) EXCEPT ![Len(s) + 1] = b] = Append(s, b)
  <1> DEFINE n == Len(s)
             both == [i \in 1 .. (n + 1) |-> IF i = n + 1 THEN b ELSE s[i]]
  <1>1. n \in Nat
    OBVIOUS
  <1>2. ASSUME NEW c \in T PROVE Append(s, c) = [i \in 1 .. (n + 1) |-> IF i = n + 1 THEN c ELSE s[i]]
    <2>1. /\ Append(s, c) \in Seq(T) /\ Len(Append(s, c)) = n + 1 /\ Append(s, c)[n + 1] = c
          /\ \A i \in 1 .. n : Append(s, c)[i] = s[i]
      OBVIOUS
    <2>2. PICK t : t = Append(s, c)
      OBVIOUS
    <2> HIDE DEF n
    <2>3. t = [i \in 1 .. (n + 1) |-> t[i]]
      <3>1. t \in Seq(T) /\ Len(t) = n + 1
        BY <2>1, <2>2
      <3>2. t \in [1 .. Len(t) -> T]
        BY <3>1
      <3> QED BY <3>1, <3>2
    <2>4. \A i \in 1 .. (n + 1) : t[i] = IF i = n + 1 THEN c ELSE s[i]
      BY <1>1, <2>1, <2>2
    <2> QED BY <2>2, <2>3, <2>4
  <1> HIDE DEF n
  <1>3. [[i \in 1 .. (n + 1) |-> IF i = n + 1 THEN a ELSE s[i]] EXCEPT ![n + 1] = b] = both
    BY <1>1
  <1> QED BY <1>2, <1>3 DEF n

\* The first uses are those of the high-water mark, and complete the entry.
LEMMA SupportStep ==
    ASSUME TablesFit, PagesFit, ReadSupport
    PROVE  PagesFit'
  <1>1. /\ reader.pc = "support" /\ derived = TablesOf(log, Len(log)) /\ PagesFitFor(log, reader, page)
        /\ log' = log /\ derived' = derived
    BY DEF ReadSupport, PagesFit
  <1>2. /\ reader \in ReaderType /\ reader.high \in 0 .. Len(log) /\ reader.scope \in Scopes
        /\ log \in Seq(AuditRow)
    BY <1>1 DEF PagesFitFor, ReaderType, TablesFit, IsAudit
  <1> DEFINE first(r) == {s \in Counted(r) : Cardinality(Before(Sequences(Counted(r)), s.seq)) < 2}
             uses(r) == {<<s.grant, s.use>> : s \in first(r)}
  <1>3. PICK r \in reader.rest : /\ page' = [page EXCEPT ![Len(page)].uses = uses(r)]
                                 /\ reader' = [reader EXCEPT !.pc = "count", !.rest = {}, !.after = r]
    BY DEF ReadSupport
  <1> DEFINE A == Against(log, r, reader.scope, reader.high)
             entry == Entry(log, r, reader.scope, reader.high)
             bare == Counting(log, r, reader.scope, reader.high)
  <1>4. PICK held : /\ reader.rest = {r} /\ Upcoming(log, reader, r)
                    /\ PageHolds(held, log, reader.scope, reader.high, reader.after)
                    /\ page = Append(held, bare)
    BY <1>1, <1>3 DEF PagesFitFor
  <1>5. r \in Rules /\ r \in Nat
    BY <1>4, AuditAssumption DEF Upcoming, Due
  <1>6. uses(r) = FirstUses(log, A)
    <2>1. Counted(r) = {Use(log, r, n) : n \in A} /\ Sequences(Counted(r)) = A
      BY <1>1, <1>2, <1>5, Queries
    <2> HIDE DEF A
    <2>2. \A n : Use(log, r, n).seq = n /\ Use(log, r, n).grant = log[n].grant /\ Use(log, r, n).use = log[n].use
      BY DEF Use
    <2>3. \A s : s \in first(r) <=> \E n \in A : Cardinality(Before(A, n)) < 2 /\ s = Use(log, r, n)
      BY <2>1, <2>2
    <2> HIDE DEF first
    <2>4. \A u : u \in uses(r) <=> u \in FirstUses(log, A)
      BY <2>2, <2>3 DEF FirstUses
    <2> HIDE DEF uses
    <2> QED BY <2>4
  <1>7. page' = Append(held, entry)
    <2>1. [bare EXCEPT !.uses = FirstUses(log, A)] = entry
      BY DEF Entry, Counting
    <2>2. held \in Seq(EntryType) /\ bare \in EntryType /\ entry \in EntryType
      BY <1>2, <1>4, <1>5, EntriesAreTyped DEF PageHolds, ReaderType
    <2>3. page' = [page EXCEPT ![Len(page)] = [page[Len(page)] EXCEPT !.uses = FirstUses(log, A)]]
      BY <1>3, <1>6
    <2> HIDE DEF bare, entry, A
    <2>4. Len(page) = Len(held) + 1 /\ page[Len(page)] = bare
      BY <1>4, <2>2
    <2>5. page' = [page EXCEPT ![Len(page)] = entry]
      BY <2>1, <2>3, <2>4
    <2>6. [Append(held, bare) EXCEPT ![Len(held) + 1] = entry] = Append(held, entry)
      BY <2>2, LastReplaced
    <2> QED BY <1>4, <2>4, <2>5, <2>6
  <1> HIDE DEF uses, first, entry, bare, A
  <1>8. PICK rd : rd = [reader EXCEPT !.pc = "count", !.rest = {}, !.after = r]
    OBVIOUS
  <1>9. /\ reader' = rd /\ rd \in ReaderType /\ rd.pc = "count" /\ rd.scope = reader.scope /\ rd.high = reader.high
        /\ rd.after = r /\ rd.rest = {} /\ rd.more = reader.more
    BY <1>2, <1>3, <1>5, <1>8 DEF ReaderType
  <1>10. PICK pg : pg = Append(held, entry)
    OBVIOUS
  <1>11. PageHolds(pg, log, rd.scope, rd.high, rd.after)
    BY <1>2, <1>4, <1>9, <1>10, PageGrows DEF entry
  <1>12. ~rd.more => AllRead(log, rd)
    BY <1>4, <1>9 DEF Upcoming, AllRead
  <1>13. PagesFitFor(log, rd, pg)
    BY <1>2, <1>9, <1>11, <1>12 DEF PagesFitFor
  <1> QED BY <1>1, <1>7, <1>9, <1>10, <1>13 DEF PagesFit

\* The caller has the cursor of the last rule read, or the last page.
LEMMA EndPageStep ==
    ASSUME PagesFit, EndPage
    PROVE  PagesFit'
  <1>1. /\ reader.pc = "count" /\ reader.rest = {} /\ derived = TablesOf(log, Len(log)) /\ PagesFitFor(log, reader, page)
        /\ log' = log /\ derived' = derived /\ page' = page
    BY DEF EndPage, PagesFit
  <1>2. reader \in ReaderType /\ reader.high <= Len(log) /\ PageHolds(page, log, reader.scope, reader.high, reader.after)
        /\ (~reader.more => AllRead(log, reader))
    BY <1>1 DEF PagesFitFor
  <1>3. PICK rd : rd = [reader EXCEPT !.pc = IF reader.more THEN "groups" ELSE "done"]
    OBVIOUS
  <1>4. /\ reader' = rd /\ rd \in ReaderType /\ rd.pc = (IF reader.more THEN "groups" ELSE "done")
        /\ rd.scope = reader.scope /\ rd.high = reader.high /\ rd.after = reader.after
    BY <1>2, <1>3 DEF EndPage, ReaderType
  <1>5. AllRead(log, rd) <=> AllRead(log, reader)
    BY <1>4 DEF AllRead
  <1>6. PagesFitFor(log, rd, page)
    BY <1>2, <1>4, <1>5 DEF PagesFitFor
  <1> QED BY <1>1, <1>4, <1>6 DEF PagesFit

\* The invariant of the reader holds.
LEMMA PagesAlways == AuditSpec => []PagesFit
  <1>1. AuditInit => PagesFit
    BY DEF AuditInit, PagesFit, NotReading
  <1>2. TablesFit /\ TablesFit' /\ PagesFit /\ [AuditNext]_auditVars => PagesFit'
    <2> SUFFICES ASSUME TablesFit, TablesFit', PagesFit, [AuditNext]_auditVars PROVE PagesFit'
      OBVIOUS
    <2>1. CASE Appends
      <3>1. /\ derived' = TablesOf(log', Len(log')) /\ UNCHANGED <<reader, page>> /\ Len(log') = Len(log) + 1
            /\ \A k \in 0 .. Len(log) : \A r, scope : Against(log', r, scope, k) = Against(log, r, scope, k)
            /\ \A n \in 1 .. Len(log) : log'[n] = log[n]
            /\ log \in Seq(AuditRow) /\ Len(log) \in Nat
        BY <2>1, AppendStep DEF TablesFit, IsAudit
      <3>2. PICK more : more = log'
        OBVIOUS
      <3>3. PagesFitFor(log, reader, page) => PagesFitFor(more, reader, page)
        BY <3>1, <3>2, PagesKeep
      <3> QED BY <3>1, <3>2, <3>3 DEF PagesFit
    <2>2. CASE Migrate
      BY <2>2, ReplayIsExact DEF Migrate, PagesFit, TablesFit
    <2>3. CASE Reads
      <3>1. CASE Forget
        BY <3>1 DEF Forget, NotReading, PagesFit
      <3> QED BY <2>3, <3>1, PagesStart, GroupsStep, CountStep, SupportStep, EndPageStep DEF Reads
    <2>4. CASE UNCHANGED auditVars
      BY <2>4 DEF auditVars, PagesFit
    <2> QED BY <2>1, <2>2, <2>3, <2>4, AuditSteps
  <1> QED BY <1>1, <1>2, TablesAlways, PTL DEF AuditSpec

(* The pages collected with one cursor are the evidence at the first page's
   high-water mark, each due rule once, whatever is appended between the queries. *)
THEOREM PagesStayOneMoment == AuditSpec => []PagesAreOneMoment
  <1>1. PagesFit => PagesAreOneMoment
    <2> SUFFICES ASSUME PagesFit, reader.pc = "done" PROVE PagesAreOneMoment
      BY DEF PagesAreOneMoment
    <2> DEFINE due == Due(log, reader.scope, reader.high)
    <2>1. /\ AllRead(log, reader) /\ PageHolds(page, log, reader.scope, reader.high, reader.after)
      BY DEF PagesFit, PagesFitFor
    <2>2. /\ \A i \in 1 .. Len(page) : page[i].rule \in due /\ page[i] = Entry(log, page[i].rule, reader.scope, reader.high)
          /\ \A r \in due : \E i \in 1 .. Len(page) : page[i].rule = r
          /\ \A i, j \in 1 .. Len(page) : page[i].rule = page[j].rule => i = j
          /\ DOMAIN page = 1 .. Len(page)
      BY <2>1 DEF AllRead, PageHolds
    <2> HIDE DEF due
    <2>3. ToSet(page) = {Entry(log, r, reader.scope, reader.high) : r \in due}
      <3>1. \A e : e \in ToSet(page) <=> \E i \in 1 .. Len(page) : e = page[i]
        BY <2>2 DEF ToSet
      <3>2. \A e : e \in ToSet(page) <=> \E r \in due : e = Entry(log, r, reader.scope, reader.high)
        BY <2>2, <3>1
      <3> QED BY <3>2
    <2>4. \A r : Contradictions(r, reader.scope, reader.high) = Against(log, r, reader.scope, reader.high)
      BY DEF Contradictions, Against
    <2> DEFINE evidence(r) ==
                 LET rows == Contradictions(r, reader.scope, reader.high) IN
                 [rule |-> r, count |-> Cardinality(rows),
                  uses |-> {<<log[n].grant, log[n].use>> : n \in {n \in rows : Cardinality(Before(rows, n)) < 2}}]
    <2>5. \A r : evidence(r) = Entry(log, r, reader.scope, reader.high)
      BY <2>4 DEF Entry, FirstUses
    <2>6. {r \in Rules : Cardinality(Contradictions(r, reader.scope, reader.high)) >= 2} = due
      BY <2>4 DEF Due, due
    <2>7. ToSet(page) = {evidence(r) : r \in due}
      <3> HIDE DEF evidence
      <3> QED BY <2>3, <2>5
    <2> QED BY <2>2, <2>6, <2>7 DEF PagesAreOneMoment
  <1> QED BY <1>1, PagesAlways, PTL

---------------------------------------------------------------------------
(* The decisions of the gate, and what an override makes of them.              *)

(* Whatever rules, profile and override: an override changes the decision only of the
   operation the decision was made for, within its validity, and never that of a gate
   without a snapshot; one for a rule leaves what the snapshot without the rule decides,
   one for an action or a session changes nothing else (applyRuntimeOverride).  MCRuntime
   checks OverridesAreNarrow for two rules. *)
THEOREM OverridesStayNarrow ==
    ASSUME NEW op, NEW other, NEW profile, NEW rules, NEW now, NEW session, NEW o,
           o.scope \in {"rule", "action", "task-session"},
           NEW repository, NEW snapshot, NEW rest,
           snapshot \in {None, [repository |-> repository, rules |-> rules]},
           rest = [repository |-> repository, rules |-> {r \in rules : r.id # o.target}], rest # None,
           Policy!WithOverride(Policy!Decision(op, profile, snapshot), other, session, now, o)
              # Policy!Decision(op, profile, snapshot)
    PROVE  /\ other = op /\ snapshot # None
           /\ now >= o.from /\ (o.until = None \/ now < o.until)
           /\ o.scope = "rule" =>
                 Policy!WithOverride(Policy!Decision(op, profile, snapshot), other, session, now, o).outcome
                    = Policy!Decision(op, profile, rest).outcome
           /\ o.scope = "action" => op.signature = o.target
           /\ o.scope = "task-session" => session # None /\ session = o.target
  <1>1. PICK d : d = Policy!Decision(op, profile, snapshot)
    OBVIOUS
  <1>2. Policy!OverrideApplies(d, other, session, now, o)
    BY <1>1 DEF Policy!WithOverride
  <1>3. /\ other = d.binding /\ now >= o.from /\ (o.until = None \/ now < o.until)
        /\ Policy!InScope(d, other, session, o) /\ Policy!Overridden(d, o) # {}
    BY <1>2 DEF Policy!OverrideApplies
  <1>4. d.binding = op
    BY <1>1 DEF Policy!Decision
  <1>5. PICK e \in d.explanations : e.outcome # "ALLOW" /\ e.rule # None
    BY <1>3 DEF Policy!Overridden
  <1>6. snapshot # None
    <2> SUFFICES ASSUME snapshot = None PROVE FALSE
      OBVIOUS
    <2>1. \A x \in d.explanations : x.rule = None
      BY <1>1 DEF Policy!Decision
    <2> QED BY <1>5, <2>1
  <1>7. ASSUME o.scope = "rule"
        PROVE  Policy!WithOverride(d, other, session, now, o).outcome = Policy!Decision(op, profile, rest).outcome
    <2> DEFINE Explained(r) == [rule |-> r.id, outcome |->
                   Policy!UnderProfile(Policy!BasePolicy(r, Policy!Strength(op, r)), profile)]
               kept == {r \in rules : r.id # o.target}
    <2>1. d.explanations = {Explained(r) : r \in Policy!Matches(op, rules)}
      BY <1>1, <1>6 DEF Policy!Decision
    <2>2. Policy!Decision(op, profile, rest).outcome =
             Policy!Strongest({x.outcome : x \in {Explained(r) : r \in Policy!Matches(op, kept)}})
      BY DEF Policy!Decision
    <2>3. Policy!Overridden(d, o) = {o.target}
      BY <1>3, <1>7 DEF Policy!Overridden
    <2>4. Policy!Matches(op, kept) = {r \in Policy!Matches(op, rules) : r.id # o.target}
      BY DEF Policy!Matches
    <2>5. {x \in d.explanations : x.rule \notin {o.target}} = {Explained(r) : r \in Policy!Matches(op, kept)}
      BY <2>1, <2>4
    <2>6. Policy!WithOverride(d, other, session, now, o).outcome = Policy!Remaining(d, o)
      <3>1. d = [outcome |-> d.outcome, explanations |-> d.explanations, binding |-> d.binding]
        BY <1>1 DEF Policy!Decision
      <3> QED BY <1>2, <3>1 DEF Policy!WithOverride
    <2>7. Policy!Remaining(d, o) =
             Policy!Strongest({x.outcome : x \in {y \in d.explanations : y.rule \notin {o.target}}})
      BY <1>7, <2>3 DEF Policy!Remaining
    <2> QED BY <2>2, <2>5, <2>6, <2>7
  <1>8. /\ o.scope = "action" => op.signature = o.target
        /\ o.scope = "task-session" => session # None /\ session = o.target
    BY <1>3, <1>4 DEF Policy!InScope
  <1> QED BY <1>1, <1>3, <1>4, <1>6, <1>7, <1>8

(* What compileRuntimeSnapshot does not refuse, parseRuntimeSnapshot accepts: rules of
   this repository or of all, active, under distinct ids, and those that may not enforce
   are context, whatever sources it is compiled from. *)
THEOREM CompiledSnapshotsAreWellFormed ==
    ASSUME NEW repository, NEW global, NEW own, NEW context,
           \A r \in context \cup global \cup own : {"effect", "state", "authoritative", "id", "scope"} \subseteq DOMAIN r,
           ~Policy!CompiledSnapshot(repository, global, own, context).rejected
    PROVE  Policy!WellFormed(Policy!CompiledSnapshot(repository, global, own, context))
  <1> DEFINE ofContext == {r \in context : r.scope \in {Every, repository}}
             selected == { <<"global", r>> : r \in {q \in global : q.scope = Every /\ q.authoritative} }
                \cup { <<"repository", r>> : r \in {q \in own : q.scope = repository /\ q.authoritative} }
                \cup { <<"context", Policy!AsContext(r)>> : r \in ofContext }
             Admitted(r) == IF Policy!Enforcing(r) THEN r ELSE Policy!AsContext(r)
             chosen == { <<p[1], Admitted(p[2])>> : p \in {q \in selected : q[2].state \in Policy!ActiveStates} }
             s == Policy!CompiledSnapshot(repository, global, own, context)
  <1>1. /\ s = [rejected |-> FALSE, repository |-> repository, rules |-> {p[2] : p \in chosen}]
        /\ \A p, q \in chosen : p # q => p[2].id # q[2].id
    BY DEF Policy!CompiledSnapshot, Policy!Rejected
  <1>2. ASSUME NEW r, {"effect", "state", "authoritative", "id", "scope"} \subseteq DOMAIN r
        PROVE  LET c == Policy!AsContext(r) IN
               /\ c.effect = "context" /\ c.state = r.state /\ c.authoritative = r.authoritative
               /\ c.scope = r.scope /\ DOMAIN c = DOMAIN r
    BY <1>2 DEF Policy!AsContext
  <1>3. \A p \in selected : /\ {"effect", "state", "authoritative", "id", "scope"} \subseteq DOMAIN p[2]
                            /\ p[2].scope \in {Every, repository}
    BY <1>2
  <1>4. ASSUME NEW p \in chosen
        PROVE  /\ p[2].state \in Policy!ActiveStates /\ p[2].scope \in {Every, repository}
               /\ Policy!Enforcing(p[2]) \/ p[2].effect = "context"
    <2>1. PICK q \in selected : q[2].state \in Policy!ActiveStates /\ p = <<q[1], Admitted(q[2])>>
      OBVIOUS
    <2>2. p[2] = Admitted(q[2])
      BY <2>1
    <2> HIDE DEF chosen, selected
    <2>3. CASE Policy!Enforcing(q[2])
      BY <2>1, <2>2, <2>3, <1>3
    <2>4. CASE ~Policy!Enforcing(q[2])
      BY <2>1, <2>2, <2>4, <1>2, <1>3
    <2> QED BY <2>3, <2>4
  <1> HIDE DEF chosen, s
  <1>5. \A q, r \in s.rules : q.id = r.id => q = r
    <2> TAKE q, r \in s.rules
    <2>1. PICK a \in chosen, b \in chosen : q = a[2] /\ r = b[2]
      BY <1>1
    <2> QED BY <1>1, <2>1
  <1>6. s.repository = repository /\ s.rules = {p[2] : p \in chosen}
    BY <1>1
  <1>7. Policy!WellFormed(s)
    BY <1>4, <1>5, <1>6 DEF Policy!WellFormed
  <1> QED BY <1>7 DEF s

---------------------------------------------------------------------------
(* The manual review.                                                         *)

\* A group of findings is all of them that have its root.
LEMMA ClassOfOne ==
    ASSUME NEW findings, NEW g \in LegacyGroups(findings)
    PROVE  \E root : /\ g = {f \in findings : ~f.project /\ f.root = root} /\ g # {}
                     /\ (CHOOSE f \in g : TRUE).root = root
  <1>1. PICK root \in {f.root : f \in {f \in findings : ~f.project}} :
           g = {f \in {f \in findings : ~f.project} : f.root = root}
    BY DEF LegacyGroups, Classes
  <1>2. g # {} /\ (CHOOSE f \in g : TRUE) \in g
    BY <1>1
  <1> QED BY <1>1, <1>2

\* A project group is all the project findings of its category and root.
LEMMA ProjectClass ==
    ASSUME NEW findings, NEW g \in ProjectGroups(findings)
    PROVE  \E k : /\ g = {f \in findings : f.project /\ <<f.category, f.root>> = k}
                  /\ <<(CHOOSE f \in g : TRUE).category, (CHOOSE f \in g : TRUE).root>> = k
  <1>1. PICK k \in {<<f.category, f.root>> : f \in {f \in findings : f.project}} :
           g = {f \in {f \in findings : f.project} : <<f.category, f.root>> = k}
    BY DEF ProjectGroups, Classes
  <1>2. g # {} /\ (CHOOSE f \in g : TRUE) \in g
    BY <1>1
  <1>3. g = {f \in findings : f.project /\ <<f.category, f.root>> = k}
    BY <1>1
  <1>4. <<(CHOOSE f \in g : TRUE).category, (CHOOSE f \in g : TRUE).root>> = k
    BY <1>1, <1>2
  <1> QED BY <1>3, <1>4

\* The identity of a candidate names the group it is made of.
LEMMA LessonsDiffer ==
    ASSUME NEW findings, NEW events, NEW p \in Lessons(findings, events), NEW q \in Lessons(findings, events),
           p.id = q.id
    PROVE  p = q
  <1>1. PICK g \in LegacyGroups(findings), h \in LegacyGroups(findings) :
           p = Lesson(g, events) /\ q = Lesson(h, events)
    BY DEF Lessons
  <1>2. PICK a : /\ g = {f \in findings : ~f.project /\ f.root = a} /\ (CHOOSE f \in g : TRUE).root = a
    BY ClassOfOne
  <1>3. PICK b : /\ h = {f \in findings : ~f.project /\ f.root = b} /\ (CHOOSE f \in h : TRUE).root = b
    BY ClassOfOne
  <1>4. p.id = a /\ q.id = b
    BY <1>1, <1>2, <1>3 DEF Lesson
  <1>5. g = h
    BY <1>2, <1>3, <1>4
  <1> QED BY <1>1, <1>5

\* So does that of an improvement.
LEMMA ImprovementsDiffer ==
    ASSUME NEW findings, NEW p \in Improvements(findings), NEW q \in Improvements(findings), p.id = q.id
    PROVE  p = q
  <1>1. PICK g \in ProjectGroups(findings), h \in ProjectGroups(findings) :
           p = Improvement(g) /\ q = Improvement(h)
    BY DEF Improvements, Corroborated
  <1>2. PICK a : /\ g = {f \in findings : f.project /\ <<f.category, f.root>> = a}
                 /\ <<(CHOOSE f \in g : TRUE).category, (CHOOSE f \in g : TRUE).root>> = a
    BY ProjectClass
  <1>3. PICK b : /\ h = {f \in findings : f.project /\ <<f.category, f.root>> = b}
                 /\ <<(CHOOSE f \in h : TRUE).category, (CHOOSE f \in h : TRUE).root>> = b
    BY ProjectClass
  <1>4. p.id = a /\ q.id = b
    BY <1>1, <1>2, <1>3 DEF Improvement
  <1>5. g = h
    BY <1>2, <1>3, <1>4
  <1> QED BY <1>1, <1>5

(* createReviewProposals refuses what a review proposes, and so loses the review, exactly
   if an improvement that is proposed names a finding or an event by an identity with
   blanks around it.  It never is for two of one identity, whatever was found: no two
   candidates have one. *)
THEOREM OnlyPaddingLosesReviews ==
    ASSUME NEW findings, NEW events
    PROVE  /\ Unproposable(Proposed(findings, events))
                <=> \E m \in Improvements(findings) \ Collisions(findings, events) : NamesPadded(m)
           /\ \A p, q \in Proposed(findings, events) : p.id = q.id => p = q
  <1> DEFINE lessons == Lessons(findings, events)
             improved == Improvements(findings) \ Collisions(findings, events)
  <1>1. Proposed(findings, events) = lessons \cup improved
    BY DEF Proposed
  <1>2. \A l \in lessons : ~NamesPadded(l)
    BY DEF Lessons, Lesson, NamesPadded
  <1>3. \A p \in lessons, q \in improved : p.id # q.id
    BY DEF Collisions
  <1>4. \A p, q \in lessons : p.id = q.id => p = q
    BY LessonsDiffer
  <1>5. \A p, q \in improved : p.id = q.id => p = q
    BY ImprovementsDiffer
  <1> HIDE DEF lessons, improved
  <1>6. \A p, q \in Proposed(findings, events) : p.id = q.id => p = q
    BY <1>1, <1>3, <1>4, <1>5
  <1>7. Unproposable(Proposed(findings, events)) <=> \E m \in improved : NamesPadded(m)
    BY <1>1, <1>2, <1>6 DEF Unproposable
  <1> QED BY <1>6, <1>7 DEF improved

(* Of any finite set of accepted findings: an improvement rests on two events, and on every
   finding of its category and root, which all say the same; a finding outside the projects
   is a candidate's or waits for a reviewer, never both, and a candidate of a failure is
   made of findings about failed events alone (orchestrator.ts, project-improvements.ts,
   proposals.ts). *)
THEOREM ReviewsStayCorroborated ==
    ASSUME NEW findings, IsFiniteSet(findings), NEW events, None \notin {"failure", "project-fact"}
    PROVE  /\ \A m \in Improvements(findings) :
                 /\ Cardinality(m.evidence) >= 2
                 /\ \A f \in findings : f.project /\ <<f.category, f.root>> = m.id =>
                       {f.says} = m.says /\ f.id \in m.findings /\ f.evidence \subseteq m.evidence
           /\ \A f \in findings : ~f.project =>
                 /\ (\E c \in Lessons(findings, events) : c.id = f.root)
                       <=> ~\E g \in LegacyGroups(findings) : f \in g /\ GroupKind(g, events) = None
                 /\ \A c \in Lessons(findings, events) : c.id = f.root =>
                       /\ f.says \in c.says
                       /\ c.kind = "failure" => \E e \in events : e.id = f.event /\ e.outcome = "failed"
  <1>1. ASSUME NEW m \in Improvements(findings)
        PROVE  /\ Cardinality(m.evidence) >= 2
               /\ \A f \in findings : f.project /\ <<f.category, f.root>> = m.id =>
                     {f.says} = m.says /\ f.id \in m.findings /\ f.evidence \subseteq m.evidence
    <2>1. PICK g \in ProjectGroups(findings) :
             /\ m = Improvement(g) /\ Cardinality(Sayings(g)) = 1 /\ Cardinality(Grounds(g)) >= 2
      <3>1. PICK g \in Corroborated(findings) : m = Improvement(g)
        BY DEF Improvements
      <3>2. /\ g \in ProjectGroups(findings) /\ g \notin Disagreements(findings)
            /\ Cardinality(Grounds(g)) >= 2
        BY DEF Corroborated
      <3>3. Cardinality(Sayings(g)) = 1
        BY <3>2 DEF Disagreements
      <3> QED BY <3>1, <3>2, <3>3
    <2>2. PICK k : /\ g = {f \in findings : f.project /\ <<f.category, f.root>> = k}
                   /\ <<(CHOOSE f \in g : TRUE).category, (CHOOSE f \in g : TRUE).root>> = k
      BY ProjectClass
    <2>3. /\ m.id = k /\ m.says = Sayings(g) /\ m.evidence = Grounds(g)
          /\ m.findings = {f.id : f \in g}
      BY <2>1, <2>2 DEF Improvement
    <2>4. IsFiniteSet(g)
      BY <2>2, FS_Subset
    <2>5. IsFiniteSet(Sayings(g))
      <3> DEFINE F == [f \in g |-> f.says]
      <3>1. F \in Surjection(g, Sayings(g))
        BY DEF Surjection, Sayings
      <3> QED BY <3>1, <2>4, FS_Surjection
    <2>6. PICK said : Sayings(g) = {said}
      BY <2>1, <2>5, FS_Singleton
    <2>7. ASSUME NEW f \in g
          PROVE  {f.says} = m.says /\ f.id \in m.findings /\ f.evidence \subseteq m.evidence
      <3>1. f.says \in Sayings(g) /\ f.evidence \subseteq Grounds(g)
        BY DEF Sayings, Grounds
      <3> QED BY <3>1, <2>3, <2>6
    <2>8. \A f \in findings : f.project /\ <<f.category, f.root>> = m.id => f \in g
      BY <2>2, <2>3
    <2> QED BY <2>1, <2>3, <2>7, <2>8
  <1>2. ASSUME NEW f \in findings, ~f.project
        PROVE  /\ (\E c \in Lessons(findings, events) : c.id = f.root)
                     <=> ~\E g \in LegacyGroups(findings) : f \in g /\ GroupKind(g, events) = None
               /\ \A c \in Lessons(findings, events) : c.id = f.root =>
                     /\ f.says \in c.says
                     /\ c.kind = "failure" => \E e \in events : e.id = f.event /\ e.outcome = "failed"
    <2> DEFINE own == {h \in {h \in findings : ~h.project} : h.root = f.root}
    <2>1. own \in LegacyGroups(findings) /\ f \in own
      BY <1>2 DEF LegacyGroups, Classes
    <2>2. \A g \in LegacyGroups(findings) : f \in g => g = own
      BY ClassOfOne
    <2>3. ASSUME NEW c \in Lessons(findings, events), c.id = f.root
          PROVE  c = Lesson(own, events) /\ GroupKind(own, events) # None
      <3>1. PICK g \in LegacyGroups(findings) : c = Lesson(g, events) /\ GroupKind(g, events) # None
        BY DEF Lessons
      <3>2. PICK root : g = {h \in findings : ~h.project /\ h.root = root} /\ (CHOOSE h \in g : TRUE).root = root
        BY ClassOfOne
      <3>3. root = f.root
        BY <2>3, <3>1, <3>2 DEF Lesson
      <3> QED BY <3>1, <3>2, <3>3
    <2> HIDE DEF own
    <2>4. ASSUME GroupKind(own, events) # None PROVE \E c \in Lessons(findings, events) : c.id = f.root
      <3>1. PICK root : own = {h \in findings : ~h.project /\ h.root = root} /\ (CHOOSE h \in own : TRUE).root = root
        BY <2>1, ClassOfOne
      <3>2. Lesson(own, events) \in Lessons(findings, events)
        BY <2>1, <2>4 DEF Lessons
      <3>3. Lesson(own, events).id = f.root
        BY <2>1, <3>1 DEF Lesson
      <3> QED BY <3>2, <3>3
    <2>5. Lesson(own, events).kind = GroupKind(own, events) /\ f.says \in Lesson(own, events).says
      BY <2>1 DEF Lesson, Sayings
    <2>6. ASSUME GroupKind(own, events) = "failure"
          PROVE  \E e \in events : e.id = f.event /\ e.outcome = "failed"
      <3> DEFINE kinds == {LegacyKind(h, events) : h \in own}
      <3>1. Cardinality(kinds) = 1 /\ GroupKind(own, events) = CHOOSE k \in kinds : TRUE
        BY <2>6 DEF GroupKind
      <3>2. IsFiniteSet(kinds)
        <4> DEFINE F == [h \in own |-> LegacyKind(h, events)]
        <4>1. IsFiniteSet(own)
          BY FS_Subset DEF own
        <4>2. F \in Surjection(own, kinds)
          BY DEF Surjection
        <4> QED BY <4>1, <4>2, FS_Surjection
      <3> HIDE DEF kinds
      <3>3. PICK kind : kinds = {kind}
        BY <3>1, <3>2, FS_Singleton
      <3>4. kind = "failure"
        BY <3>1, <3>3, <2>6
      <3>5. LegacyKind(f, events) = "failure"
        BY <2>1, <3>3, <3>4 DEF kinds
      <3> QED BY <3>5 DEF LegacyKind
    <2> QED BY <2>1, <2>2, <2>3, <2>4, <2>5, <2>6
  <1> QED BY <1>1, <1>2
=============================================================================
