----------------------------- MODULE MCRuntime -----------------------------
(* What an agent's gate does and what is reported of it: the runtime service,  *)
(* whose repository and global target share a cache of one target; the audit   *)
(* of overrides; the alignment of a repository with an installed build; and    *)
(* the pure modules.  which names the machine that runs, the others rest.      *)
EXTENDS RuntimeService, OverrideAudit, Alignment, TLC
CONSTANTS everywhere, here, normal, careful, byRule, byAction, use1, use2, old, blank, build1, build2, installer1, installer2
VARIABLES which, input

(* Two grants, one for rule 1 and one for an action; an older table that is    *)
(* consistent, or whose completion differs from its authorization.             *)
OldRow(phase, refs, outcome) ==
    [phase |-> phase, grant |-> byAction, use |-> Legacy, refs |-> refs, at |-> 1, outcome |-> outcome]
ScopeRuleInstance == [g \in Grants |-> IF g = byRule THEN 1 ELSE None]
FromInstance == [g \in Grants |-> 1]
UntilInstance == [g \in Grants |-> IF g = byRule THEN 2 ELSE None]
OldLogsInstance ==
    { <<OldRow("authorized", {1, 2}, None), OldRow("completed", {1, 2}, "succeeded")>>,
      <<OldRow("authorized", {1, 2}, None), OldRow("completed", {1}, "succeeded")>> }

---------------------------------------------------------------------------
MCSymmetry ==
    UNION {Permutations({use1, use2}), Permutations({installer1, installer2}), Permutations({build1, build2})}

(* The pure modules are asked one question per initial state; input is None   *)
(* otherwise.              The decision an override is used on: two rules of   *)
(* any standing, one matching the call exactly and one matching its tool.     *)
Policy == INSTANCE RuntimePolicy WITH Global <- Every, None <- None
Config == INSTANCE RuntimeProfiles WITH None <- None
Call(text) == [kind |-> "action", tool |-> "git", text |-> text]
RuleOf(id, state, authoritative, text) ==
    LET r == [id |-> id, state |-> state, authoritative |-> authoritative, effect |-> "conflict",
              signature |-> Call(text), scope |-> Every, tool |-> "git", tags |-> {}]
    IN  IF Policy!Enforcing(r) THEN r ELSE Policy!AsContext(r)
OneRule(id) == { RuleOf(id, s, a, t) : s \in {"verified", "confirmed", "disputed"},
                                       a \in BOOLEAN, t \in {"push", "fetch"} }
Snapshots == { [repository |-> "here", rules |-> rs] :
                 rs \in { {q, r} : q \in OneRule(1), r \in OneRule(2) } \cup { {r} : r \in OneRule(1) } }
Operations == { [repository |-> "here", signature |-> Call(t), tags |-> {}, class |-> c] :
                  t \in {"push", "pull"}, c \in {"normal", "protected"} }
Degraded == [normal |-> "ALLOW", caution |-> "WARN", protected |-> "BLOCK"]
ProfilesOfGate == { [hardBlocking |-> h, warningsEnabled |-> w, degradedOutcomes |-> Degraded] : h, w \in BOOLEAN }
GrantsOfGate ==
    { [scope |-> "rule", target |-> r, from |-> 1, until |-> 3] : r \in {1, 2} } \cup
    { [scope |-> "action", target |-> Call("push"), from |-> 1, until |-> None],
      [scope |-> "task-session", target |-> "s", from |-> 1, until |-> None] }
OverrideInputs ==
    [asks : {"override"}, snapshot : {None} \cup {s \in Snapshots : Policy!WellFormed(s)}, profile : ProfilesOfGate, grant : GrantsOfGate]

(* The profile it is decided under: two custom definitions in either order,   *)
(* and what the session, a selector, the repository and the default say.      *)
Sets == { [hardBlocking |-> h, warningsEnabled |-> None, captureEnabled |-> c] :
            h \in {TRUE, None}, c \in {TRUE, FALSE, None} }
Definitions(id) == { [id |-> id, extends |-> e, sets |-> s] :
                       e \in {"normal", "learning", "p", "q", "nowhere"}, s \in Sets }
DefinitionLists == { <<d>> : d \in Definitions("p") } \cup
                   { <<d, e>> : d \in Definitions("p"), e \in Definitions("q") } \cup
                   { <<e, d>> : d \in Definitions("p"), e \in Definitions("q") }

Settings == { [profile |-> i, sets |-> [hardBlocking |-> None, warningsEnabled |-> None, captureEnabled |-> c]] :
                i \in {None, "p", "learning"}, c \in {FALSE, None} }
Optional == {<<>>} \cup { <<x>> : x \in Settings }
Selectors == { [literals |-> l, wildcards |-> w, setting |-> [profile |-> i, sets |-> [f \in Config!Fields |-> None]]] :
                 l \in 1 .. 2, w \in 0 .. 2, i \in {"p", "learning"} }
SelectorLists == {<<>>} \cup UNION { [1 .. n -> Selectors] : n \in 1 .. 2 }
ProfileInputs == [asks : {"profiles"}, list : DefinitionLists]

(* The report of a session: two commands, the first delivered under two ids,   *)
(* with results that agree, contradict, or lack the key of their execution.    *)
Report == INSTANCE SessionReport WITH None <- None
Observed(id, event, kind, exec, related, at, outcome, exit) ==
    [id |-> id, event |-> event, kind |-> kind, exec |-> exec, related |-> related, at |-> at,
     outcome |-> outcome, exit |-> exit, reading |-> None, until |-> None]
Observations ==
    { Observed(1, 1, "request", 1, None, 1, None, None), Observed(2, 1, "request", 1, None, 1, None, None),
      Observed(3, 2, "request", None, None, 2, None, None),
      Observed(4, 3, "result", 1, 1, 2, "succeeded", 0), Observed(4, 3, "result", 1, 1, 2, "failed", 1),
      Observed(5, 4, "result", 1, 1, 3, "failed", 1), Observed(6, 5, "result", None, 1, 3, "failed", 1),
      Observed(7, 6, "result", None, 2, 4, "unknown", None),
      [Observed(8, 7, "result", None, 2, 4, "failed", 1) EXCEPT !.reading = "expected-red"],
      Observed(9, 8, "task-verification", None, 2, 4, "succeeded", None),
      Observed(10, 9, "task-verification", None, 1, 4, "failed", None),
      [Observed(11, 10, "human-wait", None, None, 2, None, None) EXCEPT !.until = 5] }
Used(id, at, mode, scope, lineage, in, cache) ==
    [id |-> id, at |-> at, mode |-> mode, scope |-> scope, lineage |-> lineage, input |-> in, cache |-> cache]
Usage ==
    { Used(1, 1, "cumulative", "session", 1, 10, 4), Used(2, 2, "cumulative", "session", 1, 15, None),
      Used(3, 2, "cumulative", "subagent", 2, 9, 3), Used(4, 3, "delta", "subagent", 3, 5, 5),
      Used(5, 3, "delta", "session", 1, 2, None) }
Captured(id, phase, related, at, outcome, exit) ==
    [id |-> id, event |-> id, phase |-> phase, related |-> related, at |-> at, outcome |-> outcome, exit |-> exit]
CapturedEvents ==
    { Captured(1, "pre-intent", None, 1, None, None), Captured(2, "pre-action", None, 2, None, None),
      Captured(3, "post-result", 2, 3, None, 1), Captured(4, "post-result", 2, 4, "failed", 1),
      Captured(5, "post-result", 6, 4, "succeeded", None), Captured(6, "pre-action", None, 5, None, None) }
CaptureInputs == [asks : {"capture"}, events : SUBSET CapturedEvents, endedAt : {None, 6}]
ReportInputs ==
    [asks : {"report"}, observations : UNION {kSubset(n, Observations) : n \in 0 .. 4}, usage : {{}}, endedAt : {None, 4}]
    \cup [asks : {"report"}, observations : {{}}, usage : SUBSET Usage, endedAt : {None}]

(* The review of a session: two reviewers with up to two findings each, of a    *)
(* project or not, some of them unsound, and an expensive one; or the default  *)
(* reviewers.  blank is an identity with blanks around it, of a finding and of *)
(* an event that is in the longer session only.  The session is what a window *)
(* of two records keeps of its file, and is one of those that were found.      *)
R == INSTANCE Review WITH None <- None, Padded <- {blank}
Kept2 == INSTANCE SessionWindow WITH None <- None, MaxEvents <- 2, MaxText <- 3
Happened(id, kind, outcome, topics) ==
    [id |-> id, kind |-> kind, outcome |-> outcome, tool |-> IF kind = "tool" THEN "git" ELSE None, topics |-> topics]
TwoEvents == <<Happened(1, "tool", "failed", {}), Happened(2, "message", "passed", {})>>
MoreEvents == Append(TwoEvents, Happened(blank, "message", "passed", {}))
Improve(id, says, evidence) ==
    [R!Finding("r", says, id) EXCEPT !.project = TRUE, !.category = "architecture", !.severity = 2, !.evidence = evidence]
Claim(id, root, says, claim, event) ==
    [R!Finding(<<root, "r">>, says, id) EXCEPT !.claim = claim, !.event = event]
Findings ==
    { Improve(1, "x", {1}), Improve(1, "x", {2}), Improve(2, "x", {2}), Improve(3, "y", {1, 2}), Improve(4, "x", {blank}),
      Improve(blank, "x", {2}),
      Claim(5, "architecture", "x", "failure-learning", 1), Claim(6, "architecture", "y", "failure-learning", 2),
      Claim(7, "other", "x", "project-fact", 2), [Claim(None, "other", "x", None, None) EXCEPT !.sound = FALSE] }
Answers == {None} \cup UNION {[1 .. n -> Findings] : n \in 0 .. 2}
ReviewInputs ==
    [asks : {"review"}, events : {TwoEvents, MoreEvents}, expensive : {TRUE},
     reviewers : { <<R!Reviewer("a", FALSE, a), R!Reviewer("b", FALSE, b), R!Reviewer("c", TRUE, <<Improve(8, "x", {1})>>)>> :
                     a \in Answers, b \in {x \in Answers : x = None \/ Len(x) <= 1} }]
SessionEvents(id) ==
    { Happened(id, k, o, t) : k \in {"tool", "message"}, o \in {"failed", "passed"},
                              t \in {{}, {"architecture"}, {"prompt-effectiveness", "project-management"}} }
DefaultInputs ==
    { [asks |-> "review", events |-> events, expensive |-> x, reviewers |-> R!DefaultReviewers(v, events)] :
        events \in { <<d, e>> : d \in SessionEvents(1), e \in SessionEvents(2) },
        x \in BOOLEAN, v \in {1, 2} }
Records == [ordinal : {None, 0, 2}, at : {1, 2}, text : {1, 2, 4}]
Lines == {r \in Records : <<r.at, r.text>> \in {<<1, 2>>, <<2, 1>>, <<2, 4>>}}
WindowInputs == [asks : {"window"}, records : UNION {[1 .. n -> Lines] : n \in 1 .. 4}]
Descriptors(id) ==
    [id : {id}, hint : {TRUE}, identity : {"here", "there"}, found : {"here", "there"}, inside : BOOLEAN, at : {None, 1, 2}]
SelectionInputs == [asks : {"selection"}, sessions : {{d, e} : d \in Descriptors(1), e \in Descriptors(2)}]

TargetInputs == [asks : {"target"}, definition : Definitions("p"), selectors : SelectorLists]

MCInit ==
    /\ which \in {"service", "audit", "alignment", "question"}
    /\ ServiceInit /\ (which # "service" => legacy = None)
    /\ AuditInit /\ (which # "audit" => log = <<>>)
    /\ AlignmentInit /\ (which # "alignment" => \A f \in DOMAIN files : files[f] = Absent)
    /\ IF which = "question"
       THEN input \in OverrideInputs \cup ProfileInputs \cup TargetInputs \cup ReportInputs \cup CaptureInputs
                      \cup ReviewInputs \cup DefaultInputs \cup WindowInputs \cup SelectionInputs
       ELSE input = None
MCNext ==
    /\ \/ which = "service" /\ Next /\ UNCHANGED <<auditVars, alignmentVars>>
       \/ which = "audit" /\ AuditNext /\ UNCHANGED <<vars, alignmentVars>>
       \/ which = "alignment" /\ AlignmentNext /\ UNCHANGED <<vars, auditVars>>
    /\ UNCHANGED <<which, input>>
MCSpec == MCInit /\ [][MCNext]_<<vars, auditVars, alignmentVars, which, input>>
Asked(question) == input # None /\ input.asks = question

---------------------------------------------------------------------------

(* An override changes the decision only of the operation the decision was
   made for, within its validity, and never that of a degraded gate.  One for a
   rule leaves exactly what the other rules alone would have decided; one for
   another action or session changes nothing. *)
OverridesAreNarrow ==
    Asked("override") =>
    LET s == input.snapshot
        p == input.profile
        g == input.grant
    IN  \A op, other \in Operations, now \in 0 .. 3, session \in {"s", "other", None} :
        LET decision == Policy!Decision(op, p, s)
            after == Policy!WithOverride(decision, other, session, now, g)
        IN  after # decision =>
                /\ other = op /\ s # None /\ now >= 1
                /\ g.scope = "rule" => now < 3 /\ after.outcome =
                       Policy!Decision(op, p, [s EXCEPT !.rules = {r \in @ : r.id # g.target}]).outcome
                /\ g.scope = "action" => op.signature = g.target
                /\ g.scope = "task-session" => session = "s"


(* Whatever the order of the definitions, each profile is what the chain of its
   ancestors declares, nearest first; the configuration is refused exactly when
   a chain does not end at a built-in profile or a descendant of learning gives
   up capture. *)
ProfilesAreTheirLineage ==
    Asked("profiles") =>
        LET list == input.list
            defs == [i \in {d.id : d \in ToSet(list)} |-> CHOOSE d \in ToSet(list) : d.id = i]
            registry == Config!DefinedProfiles(list)
            chain(i) == Config!Chain(defs, i, {})
        IN  /\ registry.rejected <=> \E i \in DOMAIN defs :
                   \/ Last(chain(i)) = None
                   \/ Config!LearningChain(chain(i)) /\ ~Config!Declared(defs, chain(i), "captureEnabled")
            /\ ~registry.rejected => \A i \in DOMAIN defs :
                   /\ registry.profiles[i] = [f \in Config!Fields |-> Config!Declared(defs, chain(i), f)]
                   /\ i \in registry.learning <=> Config!LearningChain(chain(i))

(* The order in which selectors are written never decides which one applies:
   two that fit equally well are refused.  And no mixture of settings leaves a
   target with a learning identity and without capture. *)
ResolutionIsOrderFree ==
    Asked("target") =>
    \A registry \in {Config!DefinedProfiles(<<input.definition>>)}, session, shared \in Optional :
        LET local == input.selectors
        IN  \A targets \in { [selectors \in {local, Reverse(local)} |->
                                 Config!ResolvedTarget(registry, session, selectors, shared, <<>>, <<>>)] } :
                /\ targets[local] = targets[Reverse(local)]
                /\ ~targets[local].rejected =>
                      (targets[local].id \in registry.learning => targets[local].profile.captureEnabled)

(* The settings in force are what the lineage of the resolved profile declares,
   in whatever order definitions and selectors are written. *)
SettingsAreDetermined == ProfilesAreTheirLineage /\ ResolutionIsOrderFree

(* SessionReport: a report is the same in whatever order and however often its
   observations were delivered.  No result serves two operations or is both
   used and unmatched; another result may leave the outcome of a command
   unknown, and never turns its success into a failure.  Overlapping commands
   are timed once, and never beyond the session. *)
ReportsAreGrounded ==
    Asked("report") =>
    LET list == SetToSeq(input.observations)
        usage == SetToSeq(input.usage)
        Without(o) == <<SetToSeq(input.observations \ {o}), usage>>
        orders == SetToSeqs(input.observations) \X SetToSeqs(input.usage)
        deliveries == orders \cup {<<list \o list, usage>>} \cup {Without(o) : o \in input.observations}
        Paired(r) == {op \in ToSet(r.operations) : op.result # None}
    IN  \A reports \in { [d \in deliveries |->
            Report!Report([startedAt |-> 1, endedAt |-> input.endedAt, attempted |-> TRUE, expected |-> 2,
                           through |-> 2, usage |-> d[2], observations |-> d[1]])] } :
        LET report == reports[<<list, usage>>]
            twice == reports[<<list \o list, usage>>]
        IN  /\ \A d \in orders : reports[d] = report
            /\ IF report = None THEN twice = report ELSE [twice EXCEPT !.duplicates = report.duplicates] = report
            /\ report # None =>
                  /\ \A p, q \in Paired(report) : p.result = q.result => p = q
                  /\ \A p \in Paired(report) : p.result \notin report.unmatched
                  /\ report.active = Cardinality({t \in 0 .. 5 : \E op \in Paired(report) : op.from <= t /\ t < op.until})
                  /\ report.elapsed # None => report.active <= report.elapsed /\ report.waiting <= report.elapsed
                  /\ \A o \in input.observations :
                        LET before == reports[Without(o)]
                        IN  before # None => \A p \in ToSet(before.operations), q \in ToSet(report.operations) :
                                p.request = q.request => {p.process, q.process} # {"succeeded", "failed"}

(* SessionReport: of what was captured, a command that was answered is without
   a result only because it was answered more than once; and a session is
   refused only if an answer precedes its command. *)
CaptureIsReported ==
    Asked("capture") =>
    LET report == Report!Report(Report!Projected([startedAt |-> 1, endedAt |-> input.endedAt], SetToSeq(input.events)))
        answers(q) == {e \in input.events : e.phase = "post-result" /\ e.related = q.id}
        asked == {e \in input.events : e.phase = "pre-action"}
        Single(q) == Cardinality(answers(q)) = 1
    IN  IF report = None
        THEN \E q \in asked : Single(q) /\ \E a \in answers(q) : a.at < q.at
        ELSE /\ {op.request : op \in ToSet(report.operations)} = {q.id : q \in asked}
             /\ \A q \in asked, op \in ToSet(report.operations) : op.request = q.id =>
                   /\ op.result # None <=> Single(q)
                   /\ op.unknown = "correlation-missing" <=> Cardinality(answers(q)) > 1
SessionsAreReported == ReportsAreGrounded /\ CaptureIsReported

(* Review: whatever the order of the reviewers and of their findings, a review
   ends with the same groups, improvements and candidates, those of the
   reviewers that broke no rule alone.  It is lost as a whole, in any order
   again, only if a project finding that was accepted has an identity with
   blanks around it or names such an event.  Otherwise an improvement rests on
   two events of the session and no accepted finding contradicts it, a
   candidate of a failure on nothing but failures, and every accepted finding
   is a candidate's or waits for a reviewer. *)
ReviewsAreCorroborated ==
    Asked("review") =>
    LET events == ToSet(input.events)
        Of(reviewers) == R!Review(reviewers, input.expensive, input.events)
        turned == [i \in DOMAIN input.reviewers |->
                      [input.reviewers[i] EXCEPT !.answer = IF @ = None THEN None ELSE Reverse(@)]]
        results == R!Results(input.reviewers, input.expensive)
    IN  \A review \in {Of(input.reviewers)} :
        /\ Of(Reverse(input.reviewers)) = review
        /\ \A others \in {Of(turned), Of(R!Used(results, events))} :
              others = IF review = None THEN None ELSE [review EXCEPT !.diagnostics = others.diagnostics]
        /\ review = None => \E f \in R!Accepted(results, events) : f.project /\ (f.id = blank \/ blank \in f.evidence)
        /\ review # None =>
           /\ \A m \in review.improvements :
                 /\ m.evidence \subseteq R!Ids(events) /\ Cardinality(m.evidence) >= 2
                 /\ \A f \in review.findings :
                       f.project /\ <<f.category, f.root>> = m.id => {f.says} = m.says /\ f.id \in m.findings
           /\ \A f \in review.findings : ~f.project =>
                 \A lessons \in {{c \in review.candidates : c.id = f.root /\ c.kind # "heuristic"}} :
                    /\ (lessons # {}) # (\E g \in review.required : f \in g)
                    /\ \A c \in lessons : c.kind = "failure" => \E e \in events : e.id = f.event /\ e.outcome = "failed"

(* SessionWindow: a window has the last records of the file, the longest run of
   newest texts that fits, and the first and the last time of the whole file;
   the normalization accepts it.  Files whose ordinals rise, or that have none,
   are never refused. *)
WindowsAreSuffixes ==
    Asked("window") =>
    LET file == input.records
        count == Len(file)
        times == {r.at : r \in ToSet(file)}
        Size(i) == IF file[i].text = None \/ file[i].text > 3 THEN 0 ELSE file[i].text
        SizeFrom(i) == FoldSet(LAMBDA j, sum : sum + Size(j), 0, i .. count)
    IN  \A w \in {Kept2!Window(file)} :
        /\ w.rejected => \E i, j \in 1 .. count : i < j /\ file[j].ordinal # None /\
                             (file[i].ordinal = None \/ file[i].ordinal >= file[j].ordinal)
        /\ ~w.rejected =>
              /\ Kept2!Normalizes(w) /\ Len(w.records) = Min({count, 2})
              /\ w.start = Min(times) /\ w.end = Max(times)
              /\ \A k \in DOMAIN w.records :
                    LET i == count - Len(w.records) + k
                    IN  /\ w.records[k].at = file[i].at
                        /\ w.records[k].text = IF file[i].text \in {None, 4} \/ SizeFrom(i) > 3 THEN None ELSE file[i].text

(* Review: a session that was not named is one of this repository, by its own
   word and by its place, and the user has confirmed it; the latest is the
   newest of those. *)
SelectionIsScoped ==
    Asked("selection") =>
    \A named \in {None, "latest"}, interactive, confirmed \in BOOLEAN, chosen \in {None, 1, 2} :
        LET id == R!SelectedSession(named, interactive, "here", input.sessions, chosen, confirmed)
            ours == {s \in input.sessions : s.identity = "here" /\ s.found = "here" /\ s.inside}
        IN  id # None =>
              /\ interactive /\ confirmed
              /\ \E s \in ours : s.id = id /\ IF named = None THEN id = chosen
                                              ELSE \A t \in ours : t.at = None \/ t.at <= s.at

(* What a review says rests on the session that was chosen, on what was kept of
   it and on more than one observation. *)
ReviewsAreGrounded == ReviewsAreCorroborated /\ WindowsAreSuffixes /\ SelectionIsScoped
=============================================================================
