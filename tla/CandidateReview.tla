---------------------------- MODULE CandidateReview ----------------------------
(***************************************************************************)
(* The candidate lessons of a repository: registered from what the         *)
(* analysis learned and from manual reviews, reviewed against evidence     *)
(* that is looked up in the captured sessions, and superseded by revised   *)
(* ones.  Looking evidence up and deciding on it are two steps; each       *)
(* operation of the repository is one transaction.                         *)
(***************************************************************************)
EXTENDS KnowledgeLifecycle, FiniteSets, SequencesExt

CONSTANTS
    Learned,        \* operational candidates of the analysis: id, session, kind, convention
    Reviewed,       \* candidates a manual review may register
    Revisions,      \* candidates that may replace another
    Witnesses,      \* what evidence may resolve to
    Standing,       \* those that resolve from the start
    Targets,        \* the states reviews ask for
    BackfillBatch,  \* operational candidates a transaction takes over (1024)
    MaxReviews      \* a bound on the reviews recorded

Candidate(source, origin, kind, scope, proposition, procedure) ==
    [source |-> source, origin |-> origin, kind |-> kind, scope |-> scope,
     proposition |-> proposition, procedure |-> procedure]
Witness(id, origin, kind, key, scope, context) ==
    [id |-> id, origin |-> origin, kind |-> kind, key |-> key, scope |-> scope,
     context |-> context, revalidates |-> None]
Request(c, target, w, at) == [candidate |-> c, target |-> target, witness |-> w, reviewedAt |-> at]

VARIABLES
    candidates,     \* by identity: kind, state, revision, its place in a lineage
    origins,        \* where each comes from
    reviews,        \* acl_candidate_reviews: of each candidate decided on, in order
    learned,        \* the operational candidates the analysis has stored
    resolvable,     \* the evidence that can be looked up now
    reviewing       \* the request whose evidence was looked up, or None

reviewVars == <<candidates, origins, reviews, learned, resolvable, reviewing>>

CandidateReviewInit ==
    /\ candidates = <<>> /\ origins = {} /\ reviews = <<>>
    /\ learned = {} /\ resolvable = Standing /\ reviewing = None

\* canonicalCandidateIdentity(): what a proposition says, or where it comes from.
Identity(c) ==
    IF c.proposition # None THEN <<c.kind, c.scope, c.proposition, c.procedure>>
    ELSE <<c.kind, c.scope, "unkeyed", <<c.source, c.origin>>>>

ASSUME CandidateAssumption == None \notin States /\ \A c \in Revisions : Identity(c) # None

NewCandidate(c) ==
    [kind |-> c.kind, scope |-> c.scope, proposition |-> c.proposition, procedure |-> c.procedure,
     state |-> "candidate", contradiction |-> "clear", revision |-> 1, verifiedAt |-> None,
     supersedes |-> None, supersededBy |-> None]
\* insertCandidate(): a known one gets another origin and stays as it is.
Registered(known, new) ==
    [id \in DOMAIN known \cup {Identity(c) : c \in new} |->
        IF id \in DOMAIN known THEN known[id] ELSE NewCandidate(CHOOSE c \in new : Identity(c) = id)]
Originating(new) == {[candidate |-> Identity(c), source |-> c.source, origin |-> c.origin] : c \in new}

Register(new) ==
    /\ candidates' = Registered(candidates, new)
    /\ origins' = origins \cup Originating(new)

\* registerManualReview(): all of a review at once.
RegisterReview(new) ==
    /\ Register(new)
    /\ UNCHANGED <<reviews, learned, resolvable, reviewing>>

\* backfillOperational(): a convention is keyed if the instructions it was learned
\* from can be found in its session, and only for the whole repository.
Pending == {o \in learned : ~\E x \in origins : x.source = "operational" /\ x.origin = o.id}
Proposition(o) ==
    IF o.kind = "convention" /\ \E w \in resolvable : /\ w.kind = "instruction-context" /\ w.origin = o.session
                                                      /\ w.key = o.convention /\ w.scope = "repository"
    THEN o.convention ELSE None
BackfillOperational ==
    \E batch \in SUBSET Pending :
       /\ batch # {} /\ Cardinality(batch) <= BackfillBatch
       /\ Cardinality(batch) < BackfillBatch => batch = Pending
       /\ Register({Candidate("operational", o.id, o.kind, "repository", Proposition(o), None) : o \in batch})
       /\ UNCHANGED <<reviews, learned, resolvable, reviewing>>

---------------------------------------------------------------------------
(* review().                                                                  *)

\* SqliteCandidateEvidenceResolver.resolve(), in the session the evidence is from.
LookUp(request) ==
    /\ reviewing = None
    /\ request.witness \in resolvable
    /\ reviewing' = request
    /\ UNCHANGED <<candidates, origins, reviews, learned, resolvable>>

ReviewsOf(id) == IF id \in DOMAIN reviews THEN reviews[id] ELSE <<>>

Sources == {"observation", "instruction-context", "deterministic-fact", "user-confirmed-fact"}
AnyOrigin(id, w) == TRUE                              \* a mutant: the origin is not compared
Independent(id, w) ==
    ~\E r \in ToSet(ReviewsOf(id)) : r.to \in {"observed", "confirmed"} /\ r.origin = w.origin

\* What verifies a candidate depends on its kind.
Verifies(c, w) ==
    /\ w.context # None
    /\ CASE c.kind = "project-fact" ->
              /\ w.kind \in {"deterministic-fact", "user-confirmed-fact"}
              /\ c.proposition # None /\ w.key = c.proposition
              /\ w.kind = "deterministic-fact" => w.scope = c.scope
         [] c.kind = "convention" ->
              w.kind = "instruction-context" /\ c.proposition # None /\ w.key = c.proposition /\ w.scope = c.scope
         [] OTHER -> w.kind = "task-verification" /\ (c.procedure # None => w.key = c.procedure)

\* validateReviewEvidence().
Warranted(id, target, w) ==
    LET c == candidates[id] IN
    /\ c.state = "disputed" => w.revalidates = id
    /\ \/ target = "disputed" /\ w.kind = "contradiction"
       \/ target = "observed" /\ w.kind \in Sources
       \/ target = "confirmed" /\ w.kind \in Sources /\ Independent(id, w)
       \/ target = "verified" /\ Verifies(c, w)

WithReview(id, to, w, at) ==
    LET review == [revision |-> candidates[id].revision, from |-> candidates[id].state, to |-> to,
                   evidence |-> w.id, origin |-> w.origin, kind |-> w.kind, reviewedAt |-> at,
                   context |-> IF to = "verified" THEN w.context ELSE None]
    IN  [x \in DOMAIN reviews \cup {id} |-> IF x = id THEN Append(ReviewsOf(id), review) ELSE reviews[x]]

\* Evidence decides once; asked again the same, nothing changes.
Decide ==
    /\ reviewing # None
    /\ reviewing' = None
    /\ LET id == reviewing.candidate
           w == reviewing.witness
           to == reviewing.target
       IN  IF /\ id \in DOMAIN candidates
              /\ ~\E r \in ToSet(ReviewsOf(id)) : r.evidence = w.id
              /\ CanTransition(candidates[id].state, to)
              /\ Warranted(id, to, w)
           THEN /\ candidates' = [candidates EXCEPT
                      ![id].state = to,
                      ![id].contradiction = IF to = "disputed" THEN "disputed" ELSE "clear",
                      ![id].verifiedAt = IF to = "verified" THEN reviewing.reviewedAt ELSE None]
                /\ reviews' = WithReview(id, to, w, reviewing.reviewedAt)
           ELSE UNCHANGED <<candidates, reviews>>
    /\ UNCHANGED <<origins, learned, resolvable>>

---------------------------------------------------------------------------
(* supersede(): the successor is registered, and both ends of the link set.   *)

NewIdentity(prior, id) == id # prior /\ id \notin DOMAIN candidates
Supersede(prior, c, w, at) ==
    LET id == Identity(c) IN
    /\ prior \in DOMAIN candidates
    /\ w \in resolvable /\ w.kind \in {"observation", "task-verification"}
    /\ CanTransition(candidates[prior].state, "superseded")
    /\ c.kind = candidates[prior].kind /\ c.proposition = candidates[prior].proposition
    /\ NewIdentity(prior, id)
    /\ ~\E r \in ToSet(ReviewsOf(prior)) : r.evidence = w.id
    /\ candidates' = [Registered(candidates, {c}) EXCEPT
          ![id].revision = candidates[prior].revision + 1, ![id].supersedes = prior,
          ![prior].state = "superseded", ![prior].supersededBy = id, ![prior].verifiedAt = None]
    /\ origins' = origins \cup Originating({c})
    /\ reviews' = WithReview(prior, "superseded", w, at)
    /\ UNCHANGED <<learned, resolvable, reviewing>>

---------------------------------------------------------------------------
(* What is read.                                                              *)

\* The review listVerifiedLocalEntries() joins a verified candidate with.
Verifying(id) ==
    {r \in ToSet(ReviewsOf(id)) :
        /\ r.revision = candidates[id].revision /\ r.to = "verified"
        /\ r.reviewedAt = candidates[id].verifiedAt /\ r.context # None}
VerifiedEntries ==
    {id \in DOMAIN candidates : candidates[id].state = "verified" /\ candidates[id].contradiction = "clear"
                                /\ Verifying(id) # {}}
\* listAcceptedLocalEntries().
AcceptedEntries(scope) ==
    {id \in DOMAIN candidates :
        /\ candidates[id].state \in {"observed", "confirmed", "verified"} /\ candidates[id].contradiction = "clear"
        /\ candidates[id].state = "verified" => id \in VerifiedEntries
        /\ candidates[id].scope \in {"repository", scope}}

---------------------------------------------------------------------------
(* The analysis, and the sessions and files the evidence is looked up in.     *)

Learn(o) ==
    /\ o \notin learned
    /\ learned' = learned \cup {o}
    /\ UNCHANGED <<candidates, origins, reviews, resolvable, reviewing>>
\* A witness appears with the session's capture; a fact's file may change again.
EvidenceChanges(w) ==
    /\ IF w \notin resolvable THEN resolvable' = resolvable \cup {w}
       ELSE w.kind = "deterministic-fact" /\ resolvable' = resolvable \ {w}
    /\ UNCHANGED <<candidates, origins, reviews, learned, reviewing>>

DecisionsLeft == SumFunction([id \in DOMAIN reviews |-> Len(reviews[id])]) < MaxReviews
CandidateReviewNext ==
    \/ \E o \in Learned : Learn(o)
    \/ \E w \in Witnesses : EvidenceChanges(w)
    \/ RegisterReview(Reviewed)
    \/ BackfillOperational
    \/ \E id \in DOMAIN candidates, to \in Targets, w \in Witnesses :
          DecisionsLeft /\ LookUp(Request(id, to, w, 1))
    \/ Decide
    \/ \E prior \in DOMAIN candidates, c \in Revisions, w \in Witnesses :
          DecisionsLeft /\ Supersede(prior, c, w, 1)

CandidateReviewSpec == CandidateReviewInit /\ [][CandidateReviewNext]_reviewVars

---------------------------------------------------------------------------

(* What is served as verified was verified in the revision that is served, by
   the last thing decided on it and by evidence that fits its kind; before that
   two sessions had supported it, or evidence of its own revalidated it after
   the last dispute.  No evidence decided on it twice. *)
VerifiedIsEarned ==
    \A id \in VerifiedEntries :
        LET rs == ReviewsOf(id)
            supporting == {i \in DOMAIN rs : rs[i].to \in {"observed", "confirmed"}}
            disputes == {i \in DOMAIN rs : rs[i].to = "disputed"}
        IN  /\ Last(rs).to = "verified" /\ Last(rs).revision = candidates[id].revision
            /\ \A i \in DOMAIN rs : i > 1 => rs[i].from = rs[i - 1].to
            /\ \A i, j \in DOMAIN rs : rs[i].evidence = rs[j].evidence => i = j
            /\ disputes = {} => \E i, j \in supporting : rs[i].origin # rs[j].origin
            /\ \A i \in disputes : \E w \in Witnesses : rs[i + 1].evidence = w.id /\ w.revalidates = id

(* Revisions form chains: each candidate replaces at most one and is replaced by
   at most one, a revision above it, and nothing of a chain but its end is served. *)
LineageIsAChain ==
    /\ \A id \in DOMAIN candidates :
          LET c == candidates[id] IN
          /\ c.supersedes # None => candidates[c.supersedes].supersededBy = id
          /\ c.supersededBy # None =>
                /\ candidates[c.supersededBy].supersedes = id
                /\ candidates[c.supersededBy].revision = c.revision + 1
          /\ c.supersededBy # None <=> c.state = "superseded"
    /\ \A id \in AcceptedEntries("repository") : candidates[id].supersededBy = None

(* Both: what is served was earned, in the revision that replaced what it replaces. *)
CandidatesAreSound == VerifiedIsEarned /\ LineageIsAChain
=============================================================================
