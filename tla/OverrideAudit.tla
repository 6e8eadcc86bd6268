------------------------------ MODULE OverrideAudit ------------------------------
(***************************************************************************)
(* The audit of runtime overrides (storage/override-store.ts): an          *)
(* append-only table of authorizations and completions, the tables derived *)
(* from it that say which rules are contradicted by successful overrides,  *)
(* the migration of an older database, and a reader that fetches the       *)
(* evidence page by page, query by query, while others append.             *)
(***************************************************************************)
EXTENDS Undefined, Naturals, Sequences, FiniteSets, SequencesExt

CONSTANTS
    Grants,         \* the overrides that agents use
    ScopeRule,      \* the rule of a grant's scope, None for an action or a task session
    From, Until,    \* the validity of each grant; None if it never expires
    Uses, Legacy,   \* identities of uses; the use given to rows of an older version
    Rules,          \* rule identities, in the order of their names: 1..n
    References,     \* sets of rules that a decision may refer to
    Times,          \* values of the clock
    OldLogs,        \* what the table of an older version may hold
    Every,          \* GLOBAL_QUALIFICATION_SCOPE
    MaxRows         \* bound of the model: length of the table

Outcomes == {"succeeded", "failed"}     \* unknown is treated as failed is

\* The older table had the same CHECK constraints.
OldRows == [phase : {"authorized"}, grant : Grants, use : {Legacy}, refs : SUBSET Rules, at : Times, outcome : {None}]
           \cup [phase : {"completed"}, grant : Grants, use : {Legacy}, refs : SUBSET Rules, at : Times, outcome : Outcomes]

ASSUME AuditAssumption ==
    /\ Rules \subseteq Nat \ {0} /\ IsFiniteSet(Rules) /\ References \subseteq SUBSET Rules
    /\ None \notin Outcomes /\ OldLogs \subseteq Seq(OldRows)
    /\ MaxRows \in Nat

VARIABLES
    log,        \* runtime_override_audit
    derived,    \* the success and the qualification table, None before the migration
    reader,     \* deriveLearningEvidencePage, and its caller's cursor
    page        \* what the caller has collected: rule -> evidence

auditVars == <<log, derived, reader, page>>

Row(phase, g, u, refs, at, outcome) ==
    [phase |-> phase, grant |-> g, use |-> u, refs |-> refs, at |-> at, outcome |-> outcome]
NoEvidence == [success |-> {}, qualified |-> {}]
NotReading == [pc |-> "idle", scope |-> None, high |-> 0, after |-> 0, rest |-> {}, more |-> FALSE]

AuditInit ==
    /\ \/ log = <<>> /\ derived = NoEvidence
       \/ log \in OldLogs /\ derived = None
    /\ reader = NotReading /\ page = <<>>

---------------------------------------------------------------------------
(* Writing. *)

\* relevantRuleIds
Relevant(row) ==
    IF ScopeRule[row.grant] = None THEN row.refs ELSE row.refs \cap {ScopeRule[row.grant]}

InScope(successes, scope, r) == {s \in successes : s.rule = r /\ scope \in {Every, s.grant}}
Sequences(successes) == {s.seq : s \in successes}
Before(seqs, n) == {m \in seqs : m < n}

\* Mutant: every success qualifies the rule anew.
QualifiedAgain(tables, scope, r) ==
    LET seqs == Sequences(InScope(tables.success, scope, r))
    IN  { [scope |-> scope, rule |-> r, at |-> n] : n \in {n \in seqs : Cardinality(Before(seqs, n)) >= 1} }

(* qualifyRule: at the second success of the rule in that scope, if it is not
   qualified there already. *)
Qualified(tables, scope, r) ==
    LET seqs == Sequences(InScope(tables.success, scope, r))
    IN  IF \E q \in tables.qualified : q.scope = scope /\ q.rule = r THEN {}
        ELSE { [scope |-> scope, rule |-> r, at |-> n] : n \in {n \in seqs : Cardinality(Before(seqs, n)) = 1} }

\* insertSuccessfulRuleEvidence for the row with sequence n
WithEvidence(tables, row, n) ==
    LET added == [tables EXCEPT !.success = @ \cup
                    { [rule |-> r, grant |-> row.grant, use |-> row.use, seq |-> n] : r \in Relevant(row) }]
    IN  IF row.phase # "completed" \/ row.outcome # "succeeded" THEN tables
        ELSE [added EXCEPT !.qualified = @ \cup
                UNION {Qualified(added, scope, r) : scope \in {Every, row.grant}, r \in Relevant(row)}]

Positions(rows, phase, g, u) ==
    {n \in DOMAIN rows : rows[n].phase = phase /\ rows[n].grant = g /\ rows[n].use = u}

\* The authorization a completion needs: same references, not later than it.
Authorizes(a, row) == a.refs = row.refs /\ a.at <= row.at

Appended(row) ==
    /\ derived # None /\ Len(log) < MaxRows
    /\ Positions(log, row.phase, row.grant, row.use) = {}      \* UNIQUE
    /\ log' = Append(log, row)
    /\ derived' = WithEvidence(derived, row, Len(log) + 1)
    /\ UNCHANGED <<reader, page>>

Authorize(g, u, refs, at) ==
    /\ From[g] <= at /\ (Until[g] # None => at < Until[g])
    /\ Appended(Row("authorized", g, u, refs, at, None))

Complete(g, u, at, outcome) ==
    \E n \in Positions(log, "authorized", g, u) :
        LET row == Row("completed", g, u, log[n].refs, at, outcome)
        IN  Authorizes(log[n], row) /\ Appended(row)

---------------------------------------------------------------------------
(* Migration of an older table, whose rows have no use identity: its rows  *)
(* are checked (validateLegacyRow), copied under the strict schema, and    *)
(* replayed in order into the derived tables.                              *)

LegacyRowIsValid(n) ==
    LET prior == {m \in Positions(log, "authorized", log[n].grant, Legacy) : m < n}
    IN  log[n].phase = "completed" =>
            /\ Cardinality(prior) = 1
            /\ \A m \in prior : Authorizes(log[m], log[n])

\* The tables after the first n rows.
Replayed[n \in 0 .. Len(log)] == IF n = 0 THEN NoEvidence ELSE WithEvidence(Replayed[n - 1], log[n], n)

Migrate ==
    /\ derived = None
    /\ \A n \in DOMAIN log : LegacyRowIsValid(n)
    /\ \A m, n \in DOMAIN log :
           log[m].phase = log[n].phase /\ log[m].grant = log[n].grant => m = n     \* UNIQUE
    /\ derived' = Replayed[Len(log)]
    /\ UNCHANGED <<log, reader, page>>

---------------------------------------------------------------------------
(* Reading.  The queries of one page, of one rule each, are no transaction. *)

\* Without a cursor: the page starts at the high-water mark of the table.
BeginPages(scope) ==
    /\ derived # None /\ reader.pc = "idle"
    /\ reader' = [NotReading EXCEPT !.pc = "groups", !.scope = scope, !.high = Len(log)]
    /\ page' = <<>>
    /\ UNCHANGED <<log, derived>>

\* qualifyingRuleGroups, for pages of one rule: one row more tells if a page follows.
Groups == {q.rule : q \in {q \in derived.qualified :
              q.scope = reader.scope /\ q.rule > reader.after /\ q.at <= reader.high}}

ReadGroups ==
    LET first == {r \in Groups : \A q \in Groups : r <= q}
    IN  /\ reader.pc = "groups"
        /\ reader' = [reader EXCEPT !.pc = "count", !.rest = first,
                                    !.more = Cardinality(Groups) > 1]
        /\ UNCHANGED <<log, derived, page>>

\* Mutant: the rows after the first page's high-water mark are counted too.
CountedUpToNow(r) == InScope(derived.success, reader.scope, r)

Counted(r) == {s \in InScope(derived.success, reader.scope, r) : s.seq <= reader.high}

\* countSuccessfulUses
CountRule ==
    /\ reader.pc = "count"
    /\ \E r \in reader.rest :
           page' = Append(page, [rule |-> r, count |-> Cardinality(Counted(r)), uses |-> {}])
    /\ reader' = [reader EXCEPT !.pc = "support"]
    /\ UNCHANGED <<log, derived>>

\* supportingSuccessfulUses: the first two, by sequence.
ReadSupport ==
    /\ reader.pc = "support"
    /\ \E r \in reader.rest :
           LET first == {s \in Counted(r) : Cardinality(Before(Sequences(Counted(r)), s.seq)) < 2}
           IN  /\ page' = [page EXCEPT ![Len(page)].uses = {<<s.grant, s.use>> : s \in first}]
               /\ reader' = [reader EXCEPT !.pc = "count", !.rest = {}, !.after = r]
    /\ UNCHANGED <<log, derived>>

\* The caller comes back with the cursor, as long as it is given one.
EndPage ==
    /\ reader.pc = "count" /\ reader.rest = {}
    /\ reader' = [reader EXCEPT !.pc = IF reader.more THEN "groups" ELSE "done"]
    /\ UNCHANGED <<log, derived, page>>

Forget ==
    /\ reader.pc = "done"
    /\ reader' = NotReading /\ page' = <<>>
    /\ UNCHANGED <<log, derived>>

AuditNext ==
    \/ \E g \in Grants, u \in Uses, refs \in References, at \in Times : Authorize(g, u, refs, at)
    \/ \E g \in Grants, u \in Uses \cup {Legacy}, at \in Times, o \in Outcomes : Complete(g, u, at, o)
    \/ Migrate
    \/ \E scope \in Grants \cup {Every} : BeginPages(scope)
    \/ ReadGroups \/ CountRule \/ ReadSupport \/ EndPage \/ Forget

AuditSpec == AuditInit /\ [][AuditNext]_auditVars

---------------------------------------------------------------------------

\* The successful uses that contradict rule r, read off the audit up to row high.
Contradictions(r, scope, high) ==
    {n \in DOMAIN log : /\ n <= high /\ log[n].outcome = "succeeded" /\ r \in log[n].refs
                        /\ ScopeRule[log[n].grant] \in {None, r}
                        /\ scope \in {Every, log[n].grant}}

(* The derived tables say of every rule and scope exactly what the audit does:
   qualified from the second successful use on, whether the rows were appended
   or migrated, and for whichever grant came first. *)
QualificationIsExact ==
    derived # None =>
        derived.qualified = UNION { { [scope |-> scope, rule |-> r, at |-> n] :
            n \in {n \in Contradictions(r, scope, Len(log)) :
                      Cardinality(Before(Contradictions(r, scope, Len(log)), n)) = 1} } :
            scope \in Grants \cup {Every}, r \in Rules }

(* The pages collected with one cursor are the evidence of one moment, that of
   the first page: every qualified rule once, with the count and the first two
   uses of that moment, however many rows are appended between the queries. *)
PagesAreOneMoment ==
    reader.pc = "done" =>
        /\ ToSet(page) = { LET rows == Contradictions(r, reader.scope, reader.high) IN
               [rule |-> r, count |-> Cardinality(rows),
                uses |-> {<<log[n].grant, log[n].use>> : n \in {n \in rows : Cardinality(Before(rows, n)) < 2}}] :
               r \in {r \in Rules : Cardinality(Contradictions(r, reader.scope, reader.high)) >= 2} }
        /\ \A i, j \in DOMAIN page : page[i].rule = page[j].rule => i = j
=============================================================================
