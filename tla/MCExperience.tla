---------------------------- MODULE MCExperience ----------------------------
(* Five machines that share the experience database and no state: which of   *)
(* them runs is chosen at the start, the others keep their initial state.    *)
EXTENDS SessionEvidence, AdviceUsage, KnowledgeEvidence, CandidateReview, TLC
CONSTANTS call, answer, note1, note2, note3, k1, k2

\* A session that ends and is resumed, with one operation on either side of its
\* end, and annotations two files bring, one relating to the other's.
MCDeliveries == { Start(1, "startup", None), Event(call, "pre", 2, None), End(3, "end", None),
                  Start(4, "resume", None), Event(call, "pre", 5, None), Event(answer, "post", 5, call) }
MCOld == { {}, {Event(call, "pre", 2, None)} }
MCOperation == [x \in {note1, note2, note3} |-> call]
MCRelates == (note1 :> {note2}) @@ (note2 :> {note3}) @@ (note3 :> {})
MCArtifacts == { <<note2, note1>>, <<note3>> }

---------------------------------------------------------------------------
(* Knowledge: one entry imported confirmed or already contradicted, another   *)
(* in a final state, a success, a failure and a result that says nothing.    *)
MCKnowledge == {k1, k2}
Entry(k, state, evidence, createdAt) ==
    [k |-> k, state |-> state, evidence |-> evidence, createdAt |-> createdAt, now |-> 2]
MCImports == { Entry(k1, "confirmed", <<Evidence(<<"i1", None>>, "confirms", None)>>, 1),
               Entry(k1, "observed", <<Evidence(<<"i1", None>>, "confirms", None),
                                       Evidence(<<"i2", None>>, "contradicts", None)>>, 1),
               Entry(k2, "rejected", <<Evidence(<<"i3", None>>, "confirms", None)>>, 2) }
Outcome(id, action, at, outcome) == [id |-> id, action |-> action, occurredAt |-> at, outcome |-> outcome]
MCResults == { Outcome("r1", "a", 2, "succeeded"), Outcome("r2", "b", 3, "failed"), Outcome("r3", "b", 1, "unknown") }
Sent(e, target) == [k |-> k1, e |-> e, target |-> target, occurredAt |-> 3]
MCUpdates == { Sent(Evidence(<<"u1", None>>, "confirms", "observed"), "observed"),
               Sent(Evidence(<<"u2", None>>, "confirms", None), "observed"),
               Sent(Evidence(<<"u3", None>>, "contradicts", None), None),
               Sent(Evidence(<<"u4", None>>, "confirms", None), "superseded"),
               Sent(Evidence(<<"u5", None>>, "contextualizes", None), None) }

---------------------------------------------------------------------------
(* Candidates: two of a convention, from two sessions, one registered by hand *)
(* that may be replaced, and evidence of every kind, in three sessions.       *)
MCLearned == { [id |-> "o1", session |-> "s1", kind |-> "convention", convention |-> "pnpm"],
               [id |-> "o2", session |-> "s2", kind |-> "convention", convention |-> "pnpm"] }
Manual(scope) == [source |-> "manual-review", origin |-> "m1", kind |-> "failure", scope |-> scope,
                  proposition |-> None, procedure |-> None]
Witnessed(id, origin, kind, key, scope, context, revalidates) ==
    [id |-> id, origin |-> origin, kind |-> kind, key |-> key, scope |-> scope, context |-> context,
     revalidates |-> revalidates]
MCStanding ==
    { Witnessed("e2", "s2", "instruction-context", "pnpm", "repository", "v1", None),
      Witnessed("e8", "s3", "task-verification", "fix", None, "v1", None),
      Witnessed("e1", "s1", "observation", None, None, None, None),
      Witnessed("e6", "s3", "contradiction", None, None, None, None),
      Witnessed("e7", "s2", "instruction-context", "pnpm", "repository", "v1",
                <<"convention", "repository", "pnpm", None>>) }
MCWitnesses == MCStanding \cup
    { Witnessed("e5", "s2", "deterministic-fact", "npm", "repository", "f1", None) }
MCReviewed == { Manual("repository") }
MCRevisions == { Manual("repository"), Manual("app") }

---------------------------------------------------------------------------
(* Detection: pages of two entries, one annotation kept or looked up at a time. *)
VARIABLES log, reached, processed, pending, typed, relation, claim, retained, found

Cases == INSTANCE DetectionCases
D == INSTANCE Detection WITH Logs <- Cases!MCLogs \cup {<<>>}, PageLimit <- 2, LookbackLimit <- 1,
        PendingLimit <- 6, TypedLimit <- 1, Growing <- FALSE, committed <- reached, None <- None

---------------------------------------------------------------------------
VARIABLE which
ofDetection == <<log, reached, processed, pending, typed, relation, claim, retained, found>>

ExperienceInit ==
    /\ which \in {"session", "knowledge", "candidates", "advice", "detection"}
    /\ EvidenceInit /\ KnowledgeEvidenceInit /\ CandidateReviewInit /\ AdviceInit /\ D!DetectionInit
    /\ which # "detection" => log = <<>>
    /\ which # "session" => captured = {}
    /\ verified = IF which = "advice" THEN Lessons ELSE {}
    /\ enabled = (which = "advice")
ExperienceNext ==
    /\ UNCHANGED which
    /\ \/ /\ which = "session" /\ EvidenceNext
          /\ UNCHANGED <<knowledgeVars, reviewVars, adviceVars, ofDetection>>
       \/ /\ which = "knowledge" /\ KnowledgeEvidenceNext
          /\ UNCHANGED <<vars, reviewVars, adviceVars, ofDetection>>
       \/ /\ which = "candidates" /\ CandidateReviewNext
          /\ UNCHANGED <<vars, knowledgeVars, adviceVars, ofDetection>>
       \/ /\ which = "advice" /\ AdviceNext
          /\ UNCHANGED <<vars, knowledgeVars, reviewVars, ofDetection>>
       \/ /\ which = "detection" /\ D!DetectionNext
          /\ UNCHANGED <<vars, knowledgeVars, reviewVars, adviceVars>>
\* The session's fairness, as FairEvidenceSpec states it: the other machines owe nothing.
SessionStep(step) ==
    which = "session" /\ step /\ UNCHANGED <<which, knowledgeVars, reviewVars, adviceVars, ofDetection>>
ExperienceSpec ==
    /\ ExperienceInit /\ [][ExperienceNext]_<<which, vars, knowledgeVars, reviewVars, adviceVars, ofDetection>>
    /\ WF_vars(SessionStep(Backfill)) /\ WF_vars(SessionStep(Reconcile))
    /\ WF_vars(SessionStep(\E through \in cursor + 1 .. committed : AnalysePage(through)))

---------------------------------------------------------------------------
(* Detection: equal claims, corrections and closed tasks are found wherever the
   pages and the portions of a lookup fall. *)
RelationsSurvivePages == D!RelationsSurvivePages

(* Detection: a repair is a failed command and a later one that replaces it, and
   a command that was run again at once is found wherever the pages fall. *)
RepairsAreReal == D!RepairsAreReal
=============================================================================
