-------------------------------- MODULE Review --------------------------------
(***************************************************************************)
(* The manual review of one session (review/review-service.ts): the chosen *)
(* reviewers (runtime.ts, default-reviewers.ts) report findings about the  *)
(* events of the session; those of reviewers that broke no rule become     *)
(* groups (orchestrator.ts), project improvements                          *)
(* (project-improvements.ts) and candidate lessons (proposals.ts).         *)
(*                                                                         *)
(* A finding is [project, id, root, says, category, severity, evidence,    *)
(* claim, event, sound]: project tells a project improvement from another  *)
(* finding, claim and event are what its code names, sound says that no    *)
(* field is missing or outside of its type.                                *)
(***************************************************************************)
EXTENDS Undefined, Integers, Sequences, FiniteSets, FiniteSetsExt, SequencesExt

CONSTANT Padded     \* the identities of events and findings with blanks around them

Ids(events) == {e.id : e \in events}

---------------------------------------------------------------------------
(* The reviewers.  An event is [id, kind, outcome, tool, topics]; topics are  *)
(* the keyword lists that its text meets.                                     *)

Finding(root, says, id) ==
    [project |-> FALSE, id |-> id, root |-> root, says |-> says, category |-> None, severity |-> None,
     evidence |-> {}, claim |-> None, event |-> None, sound |-> TRUE]
Named(name, other) == IF name = None THEN other ELSE name

\* One finding for each of the chosen events, in their order.
OfEach(events, Chosen(_), Found(_)) ==
    LET chosen == SelectSeq(events, Chosen) IN [i \in DOMAIN chosen |-> Found(chosen[i])]
\* finding()
Evidence(reviewer, code, e) ==
    [Finding(<<code, e.kind>>, <<"review", code, e.kind>>, <<reviewer, e.id>>) EXCEPT !.claim = code, !.event = e.id]
Reviewer(id, expensive, answer) == [id |-> id, expensive |-> expensive, answer |-> answer]

KeywordReviewer(id, code, events) ==
    Reviewer(id, FALSE, OfEach(events, LAMBDA e : code \in e.topics, LAMBDA e : Evidence(id, code, e)))
WorkflowReviewer(events) ==
    Reviewer("workflow", FALSE, OfEach(events, LAMBDA e : e.kind = "tool",
        LAMBDA e : Finding(<<e.outcome, Named(e.tool, "unknown")>>, <<"reuse", e.outcome, Named(e.tool, "unknown")>>,
                           <<"workflow", e.id>>)))
FailureReviewer(events) ==
    Reviewer("failures-learning", FALSE, OfEach(events, LAMBDA e : e.outcome = "failed",
        LAMBDA e : Evidence("failures-learning", "failure-learning", e)))
DiagnosticsReviewer(events) ==
    Reviewer("diagnostics", TRUE, OfEach(events, LAMBDA e : e.outcome = "failed",
        LAMBDA e : Finding(<<"diagnostic", Named(e.tool, e.kind)>>, <<"run", "diagnostics", Named(e.tool, e.kind)>>,
                           <<"diagnostics", e.id>>)))
PrivacyReviewer(events) ==
    Reviewer("privacy", FALSE, OfEach(events, LAMBDA e : e.kind # "tool",
        LAMBDA e : Finding(<<"review-evidence", e.kind>>, <<"preserve", "evidence", e.kind>>, <<"privacy", e.id>>)))
ProjectReviewer(id, category, events) ==
    Reviewer(id, FALSE, OfEach(events, LAMBDA e : category \in e.topics,
        LAMBDA e : [Finding(category, <<"improve", "project", category>>, <<id, e.id>>) EXCEPT
                       !.project = TRUE, !.category = category, !.evidence = {e.id},
                       !.severity = IF e.outcome = "failed" THEN 3 ELSE 2]))

\* Profile 1 has keyword reviewers in the place of the project reviewers of profile 2.
Specialties == <<"architecture", "developer-experience", "project-management">>
Specialists == <<"architecture-project-specialist", "developer-experience-project-specialist",
                 "project-management-project-specialist">>
DefaultReviewers(version, events) ==
    << KeywordReviewer("prompt-effectiveness", "prompt-effectiveness", events),
       WorkflowReviewer(events), FailureReviewer(events),
       KeywordReviewer("temporary-artifacts", "temporary-artifact", events),
       KeywordReviewer("code-changes", "code-change", events) >>
    \o [i \in 1 .. 3 |-> IF version = 1 THEN KeywordReviewer(Specialties[i], Specialties[i], events)
                                        ELSE ProjectReviewer(Specialists[i], Specialties[i], events)]
    \o << PrivacyReviewer(events), DiagnosticsReviewer(events) >>

\* ReviewRuntime.run(): expensive reviewers may be skipped; one that throws, or
\* answers with something else than findings, has no result.
Results(reviewers, expensive) ==
    SelectSeq(reviewers, LAMBDA r : (expensive \/ ~r.expensive) /\ r.answer # None)

---------------------------------------------------------------------------
(* The validation of results: a reviewer's findings are used all or not at all. *)

FindingIds(r) == {f.id : f \in ToSet(r.answer)} \ {None}

\* crossReviewerDuplicateReviewerIds()
Common(r, s) == r.id # s.id /\ FindingIds(r) \cap FindingIds(s) # {}
SharesWithEarlier(results, i) == \E j \in 1 .. i - 1 : Common(results[i], results[j])    \* a mutant
Shares(results, i) == \E j \in DOMAIN results : Common(results[i], results[j])
DuplicateReviewers(results) == {results[i].id : i \in {j \in DOMAIN results : Shares(results, j)}}

Unsound(f, events) == ~f.sound \/ (f.project /\ ~(f.evidence \subseteq Ids(events)))
Repeats(findings, i) == \E j \in 1 .. i - 1 : findings[j].id = findings[i].id

\* validateReviewerResult(): why the result is not used, None if it is.
Fault(r, events) ==
    LET wrong == {i \in DOMAIN r.answer : Unsound(r.answer[i], events) \/ Repeats(r.answer, i)}
        first == r.answer[Min(wrong)]
    IN  IF wrong = {} THEN None
        ELSE IF ~Unsound(first, events) THEN "DUPLICATE_REVIEWER_FINDING_ID"
        ELSE IF first.project THEN "PROJECT_REVIEWER_INVALID" ELSE "REVIEWER_RESULT_INVALID"

Used(results, events) ==
    SelectSeq(results, LAMBDA r : r.id \notin DuplicateReviewers(results) /\ Fault(r, events) = None)
Accepted(results, events) == UNION {ToSet(r.answer) : r \in ToSet(Used(results, events))}
Diagnostics(results, events) ==
    {<<"DUPLICATE_REVIEWER_FINDING_ID", id>> : id \in DuplicateReviewers(results)} \cup
    {<<Fault(r, events), r.id>> : r \in
        {s \in ToSet(results) : s.id \notin DuplicateReviewers(results) /\ Fault(s, events) # None}}

---------------------------------------------------------------------------
(* Consolidation.  The identities of accepted findings differ, so that what   *)
(* consolidateProjectReviewFindings() would refuse has been refused.          *)

Sayings(findings) == {f.says : f \in findings}
Grounds(findings) == UNION {f.evidence : f \in findings}
Classes(findings, Key(_)) == { {f \in findings : Key(f) = k} : k \in {Key(f) : f \in findings} }

ProjectGroups(findings) == Classes({f \in findings : f.project}, LAMBDA f : <<f.category, f.root>>)
Disagreements(findings) == {g \in ProjectGroups(findings) : Cardinality(Sayings(g)) # 1}
Corroborated(findings) ==
    {g \in ProjectGroups(findings) \ Disagreements(findings) : Cardinality(Grounds(g)) >= 2}

Improvement(g) ==
    LET one == CHOOSE f \in g : TRUE
    IN  [id |-> <<one.category, one.root>>, kind |-> "heuristic", category |-> one.category, says |-> Sayings(g),
         severity |-> Max({f.severity : f \in g}), evidence |-> Grounds(g), findings |-> {f.id : f \in g}]
Improvements(findings) == {Improvement(g) : g \in Corroborated(findings)}

\* groupReviewFindings()
LegacyGroups(findings) == Classes({f \in findings : ~f.project}, LAMBDA f : f.root)

\* legacyKind(), groupKind()
LegacyKind(f, events) ==
    IF f.claim = "failure-learning" /\ \E e \in events : e.id = f.event /\ e.outcome = "failed" THEN "failure"
    ELSE IF f.claim = "project-fact" /\ f.event \in Ids(events) THEN "project-fact" ELSE None
GroupKind(g, events) ==
    LET kinds == {LegacyKind(f, events) : f \in g}
    IN  IF Cardinality(kinds) = 1 THEN CHOOSE k \in kinds : TRUE ELSE None

Lesson(g, events) ==
    [id |-> (CHOOSE f \in g : TRUE).root, kind |-> GroupKind(g, events), category |-> "workflow", says |-> Sayings(g),
     severity |-> None, evidence |-> {}, findings |-> {}]
Lessons(findings, events) == {Lesson(g, events) : g \in {h \in LegacyGroups(findings) : GroupKind(h, events) # None}}

\* What is proposed: the lessons, and the improvements whose identity is no lesson's.
Collisions(findings, events) == {p \in Improvements(findings) : \E l \in Lessons(findings, events) : l.id = p.id}
Proposed(findings, events) == Lessons(findings, events) \cup (Improvements(findings) \ Collisions(findings, events))

\* validateIdentifiers(), of what an improvement names; a lesson names nothing.
NamesPadded(p) == p.evidence \cap Padded # {} \/ p.findings \cap Padded # {}

\* createReviewProposals() makes a candidate and its proposal of each, or throws.
Unproposable(proposed) ==
    \/ \E p \in proposed : NamesPadded(p)
    \/ \E p, q \in proposed : p # q /\ p.id = q.id

\* None is a review that is lost as a whole, with what every reviewer found.
Review(reviewers, expensive, eventList) ==
    LET events == ToSet(eventList)
        results == Results(reviewers, expensive)
        findings == Accepted(results, events)
        proposed == Proposed(findings, events)
    IN  IF Unproposable(proposed) THEN None
        ELSE [findings |-> findings, improvements |-> Improvements(findings), disagreements |-> Disagreements(findings),
              required |-> {g \in LegacyGroups(findings) : GroupKind(g, events) = None},
              diagnostics |-> Diagnostics(results, events) \cup
                              {<<"PROPOSAL_ID_COLLISION", p.id>> : p \in Collisions(findings, events)},
              candidates |-> proposed]

---------------------------------------------------------------------------
(* The session to review (selection.ts, resolveSelectedSession).  A session is *)
(* [id, hint, identity, found, inside, at]: what its file says of its          *)
(* repository and whether that was verified, the repository its directory is   *)
(* found to be in, whether the file is inside, and its time, None if unknown.  *)

Verified(s, repository) == s.hint /\ s.identity = repository /\ s.found = repository /\ s.inside

Latest(sessions) ==
    LET dated == {s \in sessions : s.at # None}
    IN  IF dated = {} THEN None
        ELSE LET newest == {s \in dated : s.at = Max({t.at : t \in dated})}
             IN  (CHOOSE s \in newest : s.id = Min({t.id : t \in newest})).id

\* named: an identity, "latest", or None; chosen and confirmed are the user's answers.
\* None stands for an error.
SelectedSession(named, interactive, repository, sessions, chosen, confirmed) ==
    LET scoped == {s \in sessions : Verified(s, repository)}
        selected == IF named = "latest" THEN Latest(scoped)
                    ELSE IF \E s \in scoped : s.id = chosen THEN chosen ELSE None
    IN  IF named \notin {None, "latest"} THEN named
        ELSE IF interactive /\ repository # None /\ confirmed THEN selected ELSE None
=============================================================================
