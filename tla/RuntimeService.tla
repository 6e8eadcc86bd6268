------------------------------ MODULE RuntimeService ------------------------------
(***************************************************************************)
(* The runtime service of one process (application/runtime-service.ts)     *)
(* with its cache of resilient runtimes (runtime/resilience.ts), each with *)
(* a circuit breaker (runtime/circuit-breaker.ts).  Every target, that is  *)
(* a repository or the global one, has a snapshot store of its own; other  *)
(* processes publish to it and files get damaged between two calls.  A     *)
(* call is synchronous; RuntimeSnapshot shows what it reads while others   *)
(* publish during the call.                                                *)
(***************************************************************************)
EXTENDS Undefined, Naturals, Sequences, SequencesExt

CONSTANTS
    Targets, Global,    \* what a snapshot is for; the target without a repository
    Profiles, Normal,   \* built-in profiles; the one that status and refreshes use
    Capacity,           \* targets kept in memory
    Threshold,          \* failures that open a circuit breaker
    MaxGen,             \* bound of the model: snapshots compiled
    MaxDamage           \* bound of the model: times the stores are damaged

ASSUME ServiceAssumption ==
    /\ Global \in Targets /\ Normal \in Profiles
    /\ None \notin Targets \cup Nat /\ None \notin [repo : Targets, gen : Nat]
    /\ Capacity \in Nat \ {0} /\ Threshold \in Nat \ {0} /\ MaxGen \in Nat /\ MaxDamage \in Nat

VARIABLES
    store,      \* the snapshot store of each target
    legacy,     \* what the one store of an older version holds
    pointer,    \* the file that names the target evaluated last
    lru,        \* #targetLru, least recently used first
    runtimes,   \* #runtimes: a resilient runtime, or None, for each profile and target
    active,     \* #activeRuntimeKey and #activeTarget
    refreshed,  \* for each target, the snapshot this process published last (history)
    gens, damaged

memory == <<lru, runtimes, active>>
bounds == <<gens, damaged>>
vars == <<store, legacy, pointer, lru, runtimes, active, refreshed, gens, damaged>>

Keys == Profiles \X Targets
Snapshot(t, g) == [repo |-> t, gen |-> g]
EmptyStore == [manifest |-> FALSE, current |-> None, lkg |-> None]
NoActive == [key |-> None, target |-> None]

ServiceInit ==
    /\ store = [t \in Targets |-> EmptyStore]
    /\ legacy \in {None} \cup {Snapshot(t, 0) : t \in Targets}
    /\ pointer = None
    /\ lru = <<>> /\ runtimes = [k \in Keys |-> None] /\ active = NoActive
    /\ refreshed = [t \in Targets |-> 0]
    /\ gens = 0 /\ damaged = 0

Compiled == gens < MaxGen /\ gens' = gens + 1

---------------------------------------------------------------------------
(* The snapshot store, as its callers see it. *)

Published(st, s) == [manifest |-> TRUE, current |-> s, lkg |-> st.current]
Recovered(st, s) == [manifest |-> TRUE, current |-> s, lkg |-> st.lkg]
Unreadable(st) == st.manifest /\ st.current = None
PublishedStore(st, s) == IF Unreadable(st) THEN Recovered(st, s) ELSE Published(st, s)

\* #migrateLegacySnapshot()
Migrated(t) ==
    IF ~store[t].manifest /\ t # Global /\ legacy # None /\ legacy.repo = t
    THEN Published(store[t], legacy) ELSE store[t]

(* The circuit breaker. *)

Closed == [state |-> "closed", failures |-> 0, elapsed |-> FALSE]
CanAttempt(b) == b.state = "closed" \/ (b.state = "open" /\ b.elapsed)
Attempting(b) == IF b.state = "open" THEN [b EXCEPT !.state = "half-open"] ELSE b
FailedOnceMore(b) ==
    [state |-> IF b.state = "half-open" \/ b.failures + 1 >= Threshold THEN "open" ELSE b.state,
     failures |-> IF b.failures < Threshold THEN b.failures + 1 ELSE b.failures, elapsed |-> FALSE]
NotAborted(b) == b    \* a mutant: an unexpected error leaves the attempt open
Aborted(b) == IF b.state = "half-open" THEN [b EXCEPT !.state = "open", !.elapsed = FALSE] ELSE b

(* ResilientRuntime: the index in memory, the snapshot it is pinned to, and its *)
(* breaker.                                                                     *)

NewRuntime(index, pin) == [index |-> index, pin |-> pin, breaker |-> Closed]

\* snapshotForTarget()
AnyReadable(s, t, pin) == s # None    \* a mutant: the snapshot's own target is not compared
ForTarget(s, t, pin) == s # None /\ s.repo = t /\ pin \in {None, s.gen}

\* resolve(): the runtime afterwards.  The decision is made with its index; without
\* one the profile's degraded outcome applies.  With "broken" the load meets an
\* error that is none of its own, and the call throws.
Resolved(rt, t, broken, st) ==
    LET trying == Attempting(rt.breaker)
        Loaded(s) == [rt EXCEPT !.index = s, !.breaker = Closed]
    IN  IF rt.index # None \/ ~CanAttempt(rt.breaker) THEN rt
        ELSE IF broken THEN [rt EXCEPT !.breaker = Aborted(trying)]
        ELSE IF ForTarget(st.current, t, rt.pin) THEN Loaded(st.current)
        ELSE IF ForTarget(st.lkg, t, None) THEN Loaded(st.lkg)
        ELSE [rt EXCEPT !.breaker = FailedOnceMore(trying)]

---------------------------------------------------------------------------
(* The memory of the service. *)

OfTarget(t) == {k \in Keys : k[2] = t}
Cleared(rs, keys) == [k \in Keys |-> IF k \in keys THEN None ELSE rs[k]]

\* #touchTarget(): the target becomes the most recent; the least recent ones go,
\* with their runtimes.
Touched(t) ==
    LET queue == Append(SelectSeq(lru, LAMBDA u : u # t), t)
    IN  IF Len(queue) > Capacity THEN Tail(queue) ELSE queue
Evicted(t) == ToSet(lru) \ ToSet(Touched(t))
Kept(t) == Cleared(runtimes, UNION {OfTarget(u) : u \in Evicted(t)})
KeptActive(t) == IF active.target \in Evicted(t) THEN NoActive ELSE active

\* #replaceTargetRuntimes()
ReplacedOwn(rs, p, t) == {<<p, t>>}    \* a mutant: other profiles keep their runtimes
Replaced(rs, p, t) == OfTarget(t)
WithRuntime(rs, p, t, index, pin) == [Cleared(rs, Replaced(rs, p, t)) EXCEPT ![<<p, t>>] = NewRuntime(index, pin)]

\* #runtimeFor(): without a pin any cached runtime will do.
RuntimeFor(rs, p, t, pin) ==
    IF rs[<<p, t>>] # None /\ pin \in {None, rs[<<p, t>>].pin} THEN rs
    ELSE [rs EXCEPT ![<<p, t>>] = NewRuntime(None, pin)]

Refuse(t) == runtimes' = Kept(t) /\ active' = KeptActive(t)

\* The end of a call that goes through: the runtime is resolved.
Resolve(p, t, rs, st, broken) == runtimes' = [rs EXCEPT ![<<p, t>>] = Resolved(@, t, broken, st)]

Cached(p, t) == KeptActive(t).target = t /\ Kept(t)[<<p, t>>] # None
PinOf(st) == IF st.current = None THEN None ELSE st.current.gen

---------------------------------------------------------------------------
(* evaluate(), and refreshKnowledgeRuntime(). *)

EvaluateCached(p, t, broken) ==
    /\ Cached(p, t)
    /\ lru' = Touched(t) /\ active' = [key |-> <<p, t>>, target |-> t]
    /\ Resolve(p, t, Kept(t), store[t], broken)
    /\ UNCHANGED <<store, legacy, pointer, refreshed, bounds>>

\* The pointer may fail to be written.
Activate(p, t) ==
    /\ lru' = Touched(t) /\ active' = [key |-> <<p, t>>, target |-> t]
    /\ pointer' \in {pointer, t}

Foreign(s, t) == s # None /\ s.repo # t

EvaluateStored(p, t, broken) ==
    LET st == Migrated(t)
    IN  /\ ~Cached(p, t) /\ st.manifest /\ ~Foreign(st.current, t)
        /\ store' = [store EXCEPT ![t] = st]
        /\ Activate(p, t)
        /\ Resolve(p, t, RuntimeFor(Kept(t), p, t, PinOf(st)), st, broken)
        /\ UNCHANGED <<legacy, refreshed, bounds>>

\* A refresh, asked for or because there is no snapshot at all.  The runtime that
\* takes the published snapshot has it in memory.
EvaluateRefreshing(p, t) ==
    LET st == Migrated(t)
        s == Snapshot(t, gens')
        next == PublishedStore(st, s)
    IN  /\ ~Foreign(st.current, t) /\ ~(Unreadable(st) /\ Foreign(st.lkg, t))
        /\ Compiled
        /\ store' = [store EXCEPT ![t] = next]
        /\ refreshed' = [refreshed EXCEPT ![t] = s.gen]
        /\ Activate(p, t)
        /\ Resolve(p, t, WithRuntime(Kept(t), p, t, s, s.gen), next, FALSE)
        /\ UNCHANGED <<legacy, damaged>>

\* A snapshot of another target stands in the store, or the compilation or the
\* publication fails: nothing but the order of use changes.
Refused(t) ==
    LET st == Migrated(t)
    IN  /\ store' = [store EXCEPT ![t] = st]
        /\ lru' = Touched(t) /\ Refuse(t)
        /\ UNCHANGED <<legacy, pointer, refreshed, bounds>>

Evaluate(p, t) ==
    \/ \E broken \in BOOLEAN : EvaluateCached(p, t, broken) \/ EvaluateStored(p, t, broken)
    \/ EvaluateRefreshing(p, t)

\* refreshKnowledgeRuntime(): a snapshot compiled from a trusted commit; nothing is
\* taken from the store.
RefreshKnowledge(t) ==
    LET st == Migrated(t)
        s == Snapshot(t, gens')
        next == PublishedStore(st, s)
    IN  /\ t # Global /\ ~Foreign(st.current, t)
        /\ Compiled
        /\ store' = [store EXCEPT ![t] = next]
        /\ refreshed' = [refreshed EXCEPT ![t] = s.gen]
        /\ Activate(Normal, t)
        /\ runtimes' = WithRuntime(Kept(t), Normal, t, s, s.gen)
        /\ UNCHANGED <<legacy, damaged>>

\* #readActiveTarget(): the pointer counts only while its store holds a snapshot of
\* the target it names.
PointedTarget ==
    IF pointer = None THEN Global
    ELSE LET s == IF store[pointer].current # None THEN store[pointer].current ELSE store[pointer].lkg
         IN  IF s # None /\ s.repo = pointer THEN pointer ELSE Global

StatusOfActive(broken) ==
    /\ active.key # None /\ runtimes[active.key] # None
    /\ Resolve(active.key[1], active.key[2], runtimes, store[active.key[2]], broken)
    /\ UNCHANGED <<store, legacy, pointer, lru, active, refreshed, bounds>>

StatusOfPointed(broken) ==
    LET t == PointedTarget
        st == Migrated(t)
    IN  /\ active.key = None
        /\ store' = [store EXCEPT ![t] = st]
        /\ lru' = Touched(t)
        /\ IF Foreign(st.current, t)
           THEN Refuse(t)
           ELSE /\ active' = [key |-> <<Normal, t>>, target |-> t]
                /\ Resolve(Normal, t, RuntimeFor(Kept(t), Normal, t, PinOf(st)), st, broken)
        /\ UNCHANGED <<legacy, pointer, refreshed, bounds>>

---------------------------------------------------------------------------
(* Around the service. *)

\* The reset interval of every open breaker passes.
IntervalPasses ==
    /\ \E k \in Keys : runtimes[k] # None /\ runtimes[k].breaker.state = "open"
    /\ runtimes' = [k \in Keys |->
            IF runtimes[k] # None /\ runtimes[k].breaker.state = "open"
            THEN [runtimes[k] EXCEPT !.breaker.elapsed = TRUE] ELSE runtimes[k]]
    /\ UNCHANGED <<store, legacy, pointer, lru, active, refreshed, bounds>>

PublishElsewhere(t) ==
    /\ Compiled
    /\ store' = [store EXCEPT ![t] = PublishedStore(@, Snapshot(t, gens'))]
    /\ UNCHANGED <<legacy, pointer, memory, refreshed, damaged>>

\* Snapshots are lost, or another target's are put in their place.
Damage(t) ==
    /\ damaged < MaxDamage /\ damaged' = damaged + 1 /\ store[t].manifest
    /\ \/ store' = [store EXCEPT ![t].current = None]
       \/ store' = [store EXCEPT ![t].current = None, ![t].lkg = None]
       \/ \E u \in Targets \ {t} : store[u].manifest /\ store' = [store EXCEPT ![t] = store[u]]
    /\ UNCHANGED <<legacy, pointer, memory, refreshed, gens>>

\* The process ends and another starts.
Restart ==
    /\ lru' = <<>> /\ runtimes' = [k \in Keys |-> None] /\ active' = NoActive
    /\ refreshed' = [t \in Targets |-> 0]
    /\ UNCHANGED <<store, legacy, pointer, bounds>>

Next ==
    \/ \E p \in Profiles, t \in Targets : Evaluate(p, t)
    \/ \E t \in Targets : RefreshKnowledge(t) \/ Refused(t) \/ PublishElsewhere(t) \/ Damage(t)
    \/ \E broken \in BOOLEAN : StatusOfActive(broken) \/ StatusOfPointed(broken)
    \/ IntervalPasses \/ Restart

ServiceSpec == ServiceInit /\ [][Next]_vars

---------------------------------------------------------------------------
\* No decision is made with another target's rules, whatever the stores hold.
OwnRulesOnly ==
    \A k \in Keys : runtimes[k] # None /\ runtimes[k].index # None => runtimes[k].index.repo = k[2]

\* A breaker that a call left half-open would refuse every later attempt.
BreakerIsSettled ==
    \A k \in Keys : runtimes[k] # None => runtimes[k].breaker.state # "half-open"

\* What this process has published for a target is what every profile decides with
\* from then on, or something newer; only the fallback of a damaged store is older.
RefreshIsSeen ==
    \A k \in Keys : runtimes[k] # None /\ runtimes[k].index # None /\ damaged = 0
        => runtimes[k].index.gen >= refreshed[k[2]]

\* Memory is held for the targets in use only, and the active runtime is one of
\* them.
CacheIsBounded ==
    /\ Len(lru) <= Capacity
    /\ \A k \in Keys : runtimes[k] # None => k[2] \in ToSet(lru)
    /\ active.key # None => runtimes[active.key] # None /\ active.target = active.key[2]
=============================================================================
