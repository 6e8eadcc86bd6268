------------------------ MODULE RepositoryKnowledge_proofs ------------------------
(***************************************************************************)
(* Theorems about the shared knowledge of a repository: what a snapshot    *)
(* may enforce, for any documents, edits and number of processes, and that *)
(* two processes lose no promotion.                                        *)
(***************************************************************************)
EXTENDS RepositoryKnowledge, TLAPS

---------------------------------------------------------------------------
(* What a snapshot enforces: pure lemmas about the compiler and the gate. *)

Own(local, of) == {r \in Rules(Activated(local, of)) : r.effect = "conflict"}
Context(local, of) == {r \in Rules(Activated(local, of)) : r.effect = "context"}
Compilation(local, of) == Policy!CompiledSnapshot(Repository, {}, Own(local, of), Context(local, of))

\* What is written of a document is the document, but for its evidence.
LEMMA StoredFields ==
    ASSUME NEW d \in Documents
    PROVE  Stored(d).id = d.id /\ Stored(d).directive = d.directive
  BY KnowledgeAssumption DEF Stored

\* The directives a generation can hold apply to the tool of their own call.
LEMMA DirectiveFits ==
    ASSUME NEW d \in Known, d.directive # None
    PROVE  d.directive \in Directives /\ d.directive.effect \in {"context", "conflict"}
           /\ d.directive.tool \in {None, d.directive.signature.tool}
  BY KnowledgeAssumption DEF Directives

LEMMA RuleTypes ==
    ASSUME NEW local \in Generations, NEW of \in Generations
    PROVE  Rules(Activated(local, of)) \subseteq RuleRow
  <1> SUFFICES ASSUME NEW e \in Activated(local, of), e.document.directive # None,
                      e.document.state \in Policy!ActiveStates
               PROVE  Rule(e) \in RuleRow
    BY DEF Rules
  <1>1. e.document \in Known /\ e.authoritative \in BOOLEAN
    <2>1. \E d \in Known, b \in BOOLEAN : e = [document |-> d, authoritative |-> b]
      BY DEF Activated, Generations
    <2> QED BY <2>1
  <1>2. e.document.directive \in Directives
    BY <1>1, DirectiveFits
  <1> QED BY <1>1, <1>2 DEF Rule, RuleRow, Authoritative

LEMMA AsContextType ==
    ASSUME NEW r \in RuleRow
    PROVE  Policy!AsContext(r) \in RuleRow /\ Policy!AsContext(r).effect = "context"
  BY DEF Policy!AsContext, RuleRow

\* A compiled snapshot that is not rejected is one; its conflicts are those of the
\* trusted commit.
LEMMA CompilationIsSnapshot ==
    ASSUME NEW local \in Generations, NEW of \in Generations, ~Compilation(local, of).rejected
    PROVE  /\ Compilation(local, of) \in Snapshots
           /\ \A r \in Compilation(local, of).rules : r.effect = "conflict" => r \in Own(local, of)
  <1> DEFINE own == Own(local, of)
             context == Context(local, of)
             ofContext == {r \in context : r.scope \in {Global, Repository}}
             selected == { <<"global", r>> : r \in {r \in {} : r.scope = Global /\ r.authoritative} }
                 \cup { <<"repository", r>> : r \in {r \in own : r.scope = Repository /\ r.authoritative} }
                 \cup { <<"context", Policy!AsContext(r)>> : r \in ofContext }
             active == { <<p[1], IF Policy!Enforcing(p[2]) THEN p[2] ELSE Policy!AsContext(p[2])>> :
                             p \in {p \in selected : p[2].state \in Policy!ActiveStates} }
  <1>1. own \subseteq RuleRow /\ context \subseteq RuleRow
    BY RuleTypes DEF Own, Context
  <1>2. ASSUME NEW p \in selected
        PROVE  p[2] \in RuleRow /\ (p[2].effect = "conflict" => p[2] \in own)
    <2>1. p[2] \in own \/ \E r \in context : p[2] = Policy!AsContext(r)
      OBVIOUS
    <2> HIDE DEF own, context, selected
    <2> QED BY <1>1, <2>1, AsContextType
  <1>3. ASSUME NEW q \in active
        PROVE  q[2] \in RuleRow /\ (q[2].effect = "conflict" => q[2] \in own)
    <2>1. PICK p \in selected : q[2] = IF Policy!Enforcing(p[2]) THEN p[2] ELSE Policy!AsContext(p[2])
      OBVIOUS
    <2> HIDE DEF own, context, selected, active
    <2>2. CASE Policy!Enforcing(p[2])
      BY <1>2, <2>1, <2>2
    <2>3. CASE ~Policy!Enforcing(p[2])
      BY <1>2, <2>1, <2>3, AsContextType
    <2> QED BY <2>2, <2>3
  <1>4. Compilation(local, of) = [rejected |-> FALSE, repository |-> Repository, rules |-> {q[2] : q \in active}]
    BY DEF Compilation, Policy!CompiledSnapshot, Policy!Rejected
  <1> HIDE DEF own, context, selected, active
  <1>5. {q[2] : q \in active} \subseteq RuleRow
    BY <1>3
  <1> QED BY <1>3, <1>4, <1>5 DEF Snapshots, own

\* The strongest of some outcomes is one of them.
LEMMA StrongestIsOne ==
    ASSUME NEW outcomes \in SUBSET {"ALLOW", "WARN", "BLOCK"}
    PROVE  Policy!Strongest(outcomes) \in outcomes \cup {"ALLOW"}
  <1>1. \E o \in outcomes \cup {"ALLOW"} : \A q \in outcomes : Policy!Rank[q] <= Policy!Rank[o]
    <2>1. Policy!Rank["ALLOW"] = 0 /\ Policy!Rank["WARN"] = 1 /\ Policy!Rank["BLOCK"] = 2
      BY DEF Policy!Rank
    <2>2. CASE "BLOCK" \in outcomes
      BY <2>1, <2>2
    <2>3. CASE "BLOCK" \notin outcomes /\ "WARN" \in outcomes
      BY <2>1, <2>3
    <2>4. CASE outcomes \subseteq {"ALLOW"}
      BY <2>1, <2>4
    <2> QED BY <2>2, <2>3, <2>4
  <1> QED BY <1>1 DEF Policy!Strongest

\* What the gate decides beyond ALLOW it decides for one rule of the snapshot.
LEMMA DecidedByRule ==
    ASSUME NEW snapshot \in Snapshots, NEW op, NEW profile,
           Policy!Decision(op, profile, snapshot).outcome # "ALLOW"
    PROVE  \E r \in Policy!Matches(op, snapshot.rules) :
              Policy!Decision(op, profile, snapshot).outcome
                = Policy!UnderProfile(Policy!BasePolicy(r, Policy!Strength(op, r)), profile)
  <1> DEFINE Outcome(r) == Policy!UnderProfile(Policy!BasePolicy(r, Policy!Strength(op, r)), profile)
             outcomes == {e.outcome : e \in {[rule |-> r.id, outcome |-> Outcome(r)] :
                                                 r \in Policy!Matches(op, snapshot.rules)}}
  <1>1. snapshot # None
    BY KnowledgeAssumption
  <1>2. Policy!Decision(op, profile, snapshot).outcome = Policy!Strongest(outcomes)
    BY <1>1 DEF Policy!Decision
  <1>3. \A r : Outcome(r) \in {"ALLOW", "WARN", "BLOCK"}
    BY DEF Policy!UnderProfile
  <1>4. \A o \in outcomes : \E r \in Policy!Matches(op, snapshot.rules) : o = Outcome(r)
    OBVIOUS
  <1> HIDE DEF Outcome, outcomes
  <1>5. Policy!Strongest(outcomes) \in outcomes \cup {"ALLOW"}
    BY <1>3, <1>4, StrongestIsOne
  <1>6. \E r \in Policy!Matches(op, snapshot.rules) : Policy!Strongest(outcomes) = Outcome(r)
    BY <1>2, <1>4, <1>5
  <1> QED BY <1>2, <1>6 DEF Outcome

\* A rule that the compiler enforces is a directive of the trusted commit.
LEMMA OwnIsEarned ==
    ASSUME NEW local \in Generations, NEW of \in Generations, NEW r \in Own(local, of)
    PROVE  \E d \in of : /\ d.scope = Repository /\ d.directive # None /\ d.directive.effect = "conflict"
                         /\ d.state = r.state /\ d.state \in {"confirmed", "verified"}
                         /\ r.signature = d.directive.signature /\ r.tool \in {None, d.directive.signature.tool}
                         /\ r.tags = {}
  <1>1. PICK e \in Activated(local, of) :
          /\ r = Rule(e) /\ r.effect = "conflict" /\ e.document.scope = Repository /\ e.document.directive # None
          /\ e.document.state \in Policy!ActiveStates
    BY DEF Own, Rules
  <1>2. e.authoritative /\ e.document.directive.effect # "context" /\ e.document.state \notin {"observed", "disputed"}
    BY <1>1 DEF Rule, Authoritative
  <1>3. e.document \in of /\ e.document \in Known
    BY <1>2 DEF Activated, Generations
  <1>4. /\ r.state = e.document.state /\ r.signature = e.document.directive.signature
        /\ r.tool = e.document.directive.tool /\ r.tags = {}
    BY <1>1 DEF Rule
  <1>5. e.document.directive.effect = "conflict"
        /\ e.document.directive.tool \in {None, e.document.directive.signature.tool}
    BY <1>1, <1>2, <1>3, DirectiveFits
  <1>6. e.document.state \in {"confirmed", "verified"}
    BY <1>1, <1>2 DEF Policy!ActiveStates
  <1> QED BY <1>1, <1>3, <1>4, <1>5, <1>6

\* What the gate enforces from a compiled snapshot, the trusted commit has earned.
Earned(of, op) ==
    {d \in of : /\ d.scope = Repository /\ d.directive # None
                /\ d.directive.effect = "conflict"
                /\ d.directive.signature.tool = op.signature.tool}

LEMMA DecisionIsEarned ==
    ASSUME NEW local \in Generations, NEW of \in Generations, ~Compilation(local, of).rejected, NEW op, NEW profile
    PROVE  LET decision == Policy!Decision(op, profile, Compilation(local, of))
           IN  /\ decision.outcome # "ALLOW" => \E d \in Earned(of, op) : d.state \in {"confirmed", "verified"}
               /\ decision.outcome = "BLOCK" =>
                      \E d \in Earned(of, op) : d.state = "verified" /\ d.directive.signature = op.signature
  <1> DEFINE snapshot == Compilation(local, of)
             outcome == Policy!Decision(op, profile, snapshot).outcome
  <1> SUFFICES ASSUME outcome # "ALLOW"
               PROVE  \E d \in Earned(of, op) :
                         /\ d.state \in {"confirmed", "verified"}
                         /\ outcome = "BLOCK" => d.state = "verified" /\ d.directive.signature = op.signature
    OBVIOUS
  <1>1. snapshot \in Snapshots /\ \A r \in snapshot.rules : r.effect = "conflict" => r \in Own(local, of)
    BY CompilationIsSnapshot
  <1> HIDE DEF snapshot
  <1>2. PICK r \in Policy!Matches(op, snapshot.rules) :
          outcome = Policy!UnderProfile(Policy!BasePolicy(r, Policy!Strength(op, r)), profile)
    BY <1>1, DecidedByRule
  <1> HIDE DEF outcome
  <1>3. /\ r \in snapshot.rules /\ Policy!Applies(op, r) /\ Policy!Strength(op, r) # None
    BY <1>2 DEF Policy!Matches
  <1>4. Policy!BasePolicy(r, Policy!Strength(op, r)) # "ALLOW"
    BY <1>2 DEF Policy!UnderProfile
  <1>5. r.effect = "conflict"
    BY <1>4 DEF Policy!BasePolicy
  <1>6. PICK d \in of : /\ d.scope = Repository /\ d.directive # None /\ d.directive.effect = "conflict"
                        /\ d.state = r.state /\ d.state \in {"confirmed", "verified"}
                        /\ r.signature = d.directive.signature /\ r.tool \in {None, d.directive.signature.tool}
                        /\ r.tags = {}
    BY <1>1, <1>3, <1>5, OwnIsEarned
  <1>7. d.directive.signature.tool = op.signature.tool
    <2>1. r.tool = None \/ r.tool = op.signature.tool
      BY <1>3 DEF Policy!Applies
    <2>2. r.tool = None => r.signature = op.signature
      BY <1>3, <1>6 DEF Policy!Strength
    <2> QED BY <1>6, <2>1, <2>2
  <1>8. ASSUME outcome = "BLOCK" PROVE d.state = "verified" /\ d.directive.signature = op.signature
    <2>1. Policy!BasePolicy(r, Policy!Strength(op, r)) = "BLOCK"
      BY <1>2, <1>8 DEF Policy!UnderProfile
    <2>2. r.state = "verified" /\ Policy!Strength(op, r) = "exact"
      BY <2>1 DEF Policy!BasePolicy
    <2>3. r.signature = op.signature
      BY <1>3, <2>2 DEF Policy!Strength
    <2> QED BY <1>6, <2>2, <2>3
  <1>9. d \in Earned(of, op)
    BY <1>6, <1>7 DEF Earned
  <1> QED BY <1>6, <1>8, <1>9
---------------------------------------------------------------------------
(* The types of the repository's files and of the processes. *)

Arriving == {"contending", "acquiring", "recovering", "takingover", "cleaning", "reading", "restoring"}
Writing == {"staging", "copying", "dropping", "installing", "checking", "removing", "publishing", "published",
            "withdrawing", "rollingback"}
ProcRow ==
    [pc : Arriving \cup Writing \cup {"idle", "releasing", "released", "resolving", "compiled", "dead"},
     task : Documents \cup {None, Broken}, existing : Generations, stage : Generations \cup {None},
     candidate : Generations \cup {None}, expected : Generations \cup {Absent, Broken}, removed : BOOLEAN,
     compiled : [snapshot : Snapshots, of : Generations] \cup {None}]

\* A process that writes has a document to promote; what it has compiled comes from
\* some local generation and the trusted one it names.
RowOK(w) ==
    /\ w.pc \in Arriving => w.task \in Documents \cup {None}
    /\ w.pc \in Writing => w.task \in Documents
    /\ w.pc = "compiled" =>
          /\ w.compiled.of \in Generations
          /\ \E local \in Generations : /\ ~Compilation(local, w.compiled.of).rejected
                                       /\ w.compiled.snapshot = Compilation(local, w.compiled.of)

RowsOK == proc \in [Procs -> ProcRow] /\ \A q \in Procs : RowOK(proc[q])

Files == Generations \cup {Absent, Broken}
Types ==
    /\ base \in Files /\ recovery \in Files /\ lock \in Procs \cup {None, Emptied} /\ trusted \in Generations
    /\ RowsOK
    /\ kept \in [Ids -> SUBSET Known]

\* Process p has become row, and the others are as they were.
Turns(p, row) == row \in ProcRow /\ proc'[p] = row /\ \A q \in Procs \ {p} : proc'[q] = proc[q]
Moves(p) == RowsOK' /\ \E row : Turns(p, row)

LEMMA WholeGenerations == \A g \in Files : Whole(g) <=> g \in Generations
  BY KnowledgeAssumption DEF Files, Whole

LEMMA IdleType == Idle \in ProcRow /\ RowOK(Idle) /\ \A t \in Documents \cup {None} :
                     [Idle EXCEPT !.pc = "contending", !.task = t] \in ProcRow
  BY DEF Idle, ProcRow, RowOK, Arriving, Writing, Generations, Known

LEMMA TurnsType ==
    ASSUME Types, NEW p \in Procs, NEW row, proc' = [proc EXCEPT ![p] = row], row \in ProcRow, RowOK(row)
    PROVE  Turns(p, row) /\ Moves(p)
  <1>1. Turns(p, row)
    BY DEF Types, RowsOK, Turns
  <1>2. RowsOK'
    BY DEF Types, RowsOK
  <1> QED BY <1>1, <1>2 DEF Moves

LEMMA GoesTo ==
    ASSUME Types, NEW p \in Procs, NEW pc \in Arriving \cup Writing \cup {"idle", "releasing", "released", "resolving", "dead"},
           Goes(p, pc), pc \in Arriving => proc[p].task \in Documents \cup {None},
           pc \in Writing => proc[p].task \in Documents
    PROVE  /\ Turns(p, [proc[p] EXCEPT !.pc = pc]) /\ [proc[p] EXCEPT !.pc = pc].pc = pc
           /\ Moves(p)
  <1> DEFINE row == [proc[p] EXCEPT !.pc = pc]
  <1>1. row \in ProcRow /\ row.pc = pc /\ row.task = proc[p].task
    BY DEF Types, RowsOK, ProcRow
  <1>2. proc' = [proc EXCEPT ![p] = row]
    BY DEF Goes, Types, RowsOK
  <1>3. pc # "compiled"
    BY DEF Arriving, Writing
  <1> HIDE DEF row
  <1>4. RowOK(row)
    BY <1>1, <1>3 DEF RowOK
  <1>5. Turns(p, row) /\ Moves(p)
    BY <1>1, <1>2, <1>4, TurnsType
  <1> QED BY <1>1, <1>5 DEF row

LEMMA GoesIdle ==
    ASSUME Types, NEW p \in Procs, proc' = [proc EXCEPT ![p] = Idle]
    PROVE  Turns(p, Idle) /\ Moves(p)
  BY IdleType, TurnsType

LEMMA FinishTo ==
    ASSUME Types, NEW p \in Procs, Finish(p)
    PROVE  /\ Turns(p, [Idle EXCEPT !.pc = "releasing", !.task = Broken])
           /\ [Idle EXCEPT !.pc = "releasing", !.task = Broken].pc = "releasing"
           /\ Moves(p)
  <1> DEFINE row == [Idle EXCEPT !.pc = "releasing", !.task = Broken]
  <1>1. row \in ProcRow /\ row.pc = "releasing"
    BY DEF Idle, ProcRow, Generations, Known
  <1>2. proc' = [proc EXCEPT ![p] = row]
    BY DEF Finish
  <1> HIDE DEF row
  <1>3. RowOK(row)
    BY <1>1 DEF RowOK, Arriving, Writing
  <1>4. Turns(p, row) /\ Moves(p)
    BY <1>1, <1>2, <1>3, TurnsType
  <1> QED BY <1>1, <1>4 DEF row

LEMMA LeaveTo ==
    ASSUME Types, NEW p \in Procs, Leave(p)
    PROVE  /\ \E row : Turns(p, row) /\ row.pc \in {"resolving", "idle"}
           /\ Moves(p)
  <1>1. CASE Goes(p, "resolving")
    BY <1>1, GoesTo DEF Arriving, Writing
  <1>2. CASE proc' = [proc EXCEPT ![p] = Idle]
    <2>1. Idle.pc = "idle"
      BY DEF Idle
    <2> QED BY <1>2, <2>1, GoesIdle
  <1> QED BY <1>1, <1>2 DEF Leave

\* A document replaces the one of its identity.
LEMMA WithDocumentType ==
    ASSUME NEW g \in Generations, NEW d \in Documents
    PROVE  WithDocument(g, d) \in Generations /\ Stored(d) \in WithDocument(g, d)
           /\ \A e \in g : e.id # d.id => e \in WithDocument(g, d)
  BY DEF WithDocument, Generations, Known

---------------------------------------------------------------------------
(* What each step makes of its process. *)

\* Asking for the lock, and giving it back.
LEMMA LockMoves ==
    ASSUME Types, NEW p \in Procs,
           \/ FindLock(p) \/ RenameCandidate(p) \/ ReadOwner(p) \/ TakeOver(p) \/ TimeOut(p)
           \/ ReleaseOwner(p) \/ ReleaseDirectory(p)
    PROVE  Moves(p) /\ UNCHANGED <<base, recovery, kept, trusted>> /\ lock' \in Procs \cup {None, Emptied}
  <1>1. UNCHANGED <<base, recovery, kept, trusted>> /\ lock' \in Procs \cup {None, Emptied}
    BY DEF FindLock, RenameCandidate, ReadOwner, TakeOver, TimeOut, ReleaseOwner, ReleaseDirectory, tree, outside, Types
  <1>2. \/ Leave(p) \/ Goes(p, "released") \/ proc' = [proc EXCEPT ![p] = Idle]
        \/ proc[p].pc \in Arriving /\ \E pc \in Arriving : Goes(p, pc)
    BY DEF FindLock, RenameCandidate, ReadOwner, TakeOver, TimeOut, ReleaseOwner, ReleaseDirectory, At, Arriving
  <1>3. ASSUME proc[p].pc \in Arriving, NEW pc \in Arriving, Goes(p, pc) PROVE Moves(p)
    <2>1. proc[p].task \in Documents \cup {None}
      BY <1>3 DEF Types, RowsOK, RowOK
    <2>2. pc \notin Writing
      BY DEF Arriving, Writing
    <2> QED BY <1>3, <2>1, <2>2, GoesTo
  <1>4. ASSUME Goes(p, "released") PROVE Moves(p)
    <2>1. "released" \notin Arriving \cup Writing
      BY DEF Arriving, Writing
    <2> QED BY <1>4, <2>1, GoesTo
  <1> QED BY <1>1, <1>2, <1>3, <1>4, LeaveTo, GoesIdle

\* Entering: what others have staged is removed.
LEMMA CleanUpTurns ==
    ASSUME Types, NEW p \in Procs, CleanUp(p)
    PROVE  /\ RowsOK'
           /\ \A q \in Procs : proc'[q].pc = IF q = p THEN "reading" ELSE proc[q].pc
           /\ UNCHANGED <<base, recovery, kept, trusted, lock>>
  <1> DEFINE pc(q) == IF q = p THEN "reading" ELSE proc[q].pc
             row(q) == [proc[q] EXCEPT !.stage = None, !.candidate = None, !.pc = pc(q)]
  <1>1. proc' = [q \in Procs |-> row(q)]
    BY DEF CleanUp, Types, RowsOK, ProcRow
  <1>2. \A q \in Procs : pc(q) \in Arriving \cup Writing \cup {"idle", "releasing", "released", "resolving", "compiled", "dead"}
    BY DEF Types, RowsOK, ProcRow, Arriving
  <1>3. ASSUME NEW q \in Procs PROVE pc(q) = proc[q].pc \/ (pc(q) \in Arriving /\ proc[q].pc \in Arriving)
    BY DEF CleanUp, At, Arriving
  <1> HIDE DEF pc
  <1>4. ASSUME NEW q \in Procs
        PROVE  row(q) \in ProcRow /\ row(q).pc = pc(q) /\ row(q).task = proc[q].task /\ row(q).compiled = proc[q].compiled
    BY <1>2 DEF Types, RowsOK, ProcRow
  <1> HIDE DEF row
  <1>5. ASSUME NEW q \in Procs PROVE RowOK(row(q))
    <2>1. RowOK(proc[q])
      BY DEF Types, RowsOK
    <2>2. CASE pc(q) = proc[q].pc
      BY <1>4, <2>1, <2>2 DEF RowOK
    <2>3. CASE pc(q) \in Arriving /\ proc[q].pc \in Arriving
      BY <1>4, <2>1, <2>3 DEF RowOK, Arriving, Writing
    <2> QED BY <1>3, <2>2, <2>3
  <1>6. \A q \in Procs : proc'[q] = row(q)
    BY <1>1
  <1>7. \A q \in Procs : proc'[q].pc = pc(q)
    BY <1>4, <1>6
  <1>8. UNCHANGED <<base, recovery, kept, trusted, lock>>
    BY DEF CleanUp, tree, outside
  <1>9. RowsOK'
    BY <1>1, <1>4, <1>5 DEF RowsOK
  <1> QED BY <1>7, <1>8, <1>9 DEF pc

\* Reading: a generation, nothing yet, or one that has to be restored first.
LEMMA ReadMoves ==
    ASSUME Types, NEW p \in Procs, ReadGeneration(p)
    PROVE  /\ Moves(p) /\ UNCHANGED <<base, recovery, lock, kept, trusted>>
           /\ \/ proc'[p].pc = "releasing"
              \/ /\ proc'[p].pc = "staging"
                 /\ \/ Whole(base) /\ proc'[p].existing = base
                    \/ base = Absent /\ recovery = Absent
              \/ proc'[p].pc = "restoring" /\ Whole(recovery) /\ proc'[p].stage = recovery
  <1>1. UNCHANGED <<base, recovery, lock, kept, trusted>>
    BY DEF ReadGeneration, tree, outside
  <1>2. proc[p] \in ProcRow /\ proc[p].task \in Documents \cup {None}
    BY DEF ReadGeneration, At, Types, RowsOK, RowOK, Arriving
  <1> DEFINE existing == IF base = Absent THEN {} ELSE base
             pc == IF proc[p].task = None THEN "releasing" ELSE "staging"
  <1>3. CASE Finish(p)
    BY <1>1, <1>3, FinishTo DEF Turns
  <1>4. CASE /\ Whole(base) \/ (base = Absent /\ recovery = Absent)
             /\ proc' = [proc EXCEPT ![p].existing = existing, ![p].pc = pc]
    <2>1. PICK old, e, c : old = proc[p] /\ e = existing /\ c = pc
      OBVIOUS
    <2> DEFINE row == [old EXCEPT !.existing = e, !.pc = c]
    <2>2. existing \in Generations
      <3>1. {} \in Generations
        BY DEF Generations
      <3> QED BY <1>4, <3>1, WholeGenerations DEF Types
    <2>3. pc \in {"releasing", "staging"} /\ (pc = "staging" => proc[p].task \in Documents)
      BY <1>2
    <2>4. proc' = [proc EXCEPT ![p] = row]
      BY <1>4, <2>1 DEF Types, RowsOK
    <2> HIDE DEF existing, pc
    <2>5. row \in ProcRow /\ row.existing = existing /\ row.pc = pc /\ row.task = proc[p].task
      BY <1>2, <2>1, <2>2, <2>3 DEF ProcRow, Writing
    <2> HIDE DEF row
    <2>6. RowOK(row)
      BY <2>3, <2>5 DEF RowOK, Arriving, Writing
    <2>7. Turns(p, row) /\ Moves(p)
      BY <2>4, <2>5, <2>6, TurnsType
    <2>8. proc'[p].pc = pc /\ proc'[p].existing = existing
      BY <2>5, <2>7 DEF Turns
    <2>9. existing = base \/ (base = Absent /\ recovery = Absent)
      BY <1>4, WholeGenerations DEF existing, Types, Whole
    <2>10. Whole(base) \/ (base = Absent /\ recovery = Absent)
      BY <1>4
    <2> QED BY <1>1, <2>3, <2>7, <2>8, <2>9, <2>10
  <1>5. CASE /\ ~Whole(base) /\ base # Broken /\ recovery # Absent /\ ~(base = Absent /\ recovery = Broken)
             /\ proc' = [proc EXCEPT ![p].stage = recovery, ![p].pc = "restoring"]
    <2>1. PICK old, r : old = proc[p] /\ r = recovery
      OBVIOUS
    <2> DEFINE row == [old EXCEPT !.stage = r, !.pc = "restoring"]
    <2>2. Whole(recovery) /\ recovery \in Generations
      BY <1>5, WholeGenerations DEF Types, Whole
    <2>3. proc' = [proc EXCEPT ![p] = row]
      BY <1>5, <2>1 DEF Types, RowsOK
    <2>4. row \in ProcRow /\ row.stage = recovery /\ row.pc = "restoring" /\ row.task = proc[p].task
      BY <1>2, <2>1, <2>2 DEF ProcRow, Arriving
    <2> HIDE DEF row
    <2>5. RowOK(row)
      BY <1>2, <2>4 DEF RowOK, Writing
    <2>6. Turns(p, row) /\ Moves(p)
      BY <2>3, <2>4, <2>5, TurnsType
    <2> QED BY <1>1, <2>2, <2>4, <2>6 DEF Turns
  <1>6. \/ Finish(p)
        \/ /\ Whole(base) \/ (base = Absent /\ recovery = Absent)
           /\ proc' = [proc EXCEPT ![p].existing = existing, ![p].pc = pc]
        \/ /\ ~Whole(base) /\ base # Broken /\ recovery # Absent /\ ~(base = Absent /\ recovery = Broken)
           /\ proc' = [proc EXCEPT ![p].stage = recovery, ![p].pc = "restoring"]
    <2>1. base = Broken \/ base = Absent \/ Whole(base)
      BY DEF Whole
    <2> QED BY <2>1 DEF ReadGeneration, Whole
  <1> QED BY <1>3, <1>4, <1>5, <1>6

LEMMA RestoreMoves ==
    ASSUME Types, NEW p \in Procs, Restore(p)
    PROVE  /\ Moves(p) /\ UNCHANGED <<recovery, lock, kept, trusted>> /\ base' \in Files
           /\ proc'[p].pc \in {"reading", "releasing"}
           /\ base' = base \/ (base = Absent /\ base' = proc[p].stage /\ base' \in Generations)
  <1>1. UNCHANGED <<recovery, lock, kept, trusted>>
    BY DEF Restore, outside
  <1>2. proc[p] \in ProcRow /\ proc[p].task \in Documents \cup {None}
    BY DEF Restore, At, Types, RowsOK, RowOK, Arriving
  <1>3. CASE base' = base /\ Finish(p)
    BY <1>1, <1>3, FinishTo DEF Turns, Types
  <1>4. CASE /\ base = Absent /\ proc[p].stage # None /\ base' = proc[p].stage
             /\ proc' = [proc EXCEPT ![p].stage = None, ![p].pc = "reading"]
    <2>1. PICK old : old = proc[p]
      OBVIOUS
    <2> DEFINE row == [old EXCEPT !.stage = None, !.pc = "reading"]
    <2>2. proc' = [proc EXCEPT ![p] = row]
      BY <1>4, <2>1 DEF Types, RowsOK
    <2>3. row \in ProcRow /\ row.pc = "reading" /\ row.task = proc[p].task
      BY <1>2, <2>1 DEF ProcRow, Arriving
    <2> HIDE DEF row
    <2>4. RowOK(row)
      BY <1>2, <2>3 DEF RowOK, Writing
    <2>5. Turns(p, row) /\ Moves(p)
      BY <2>2, <2>3, <2>4, TurnsType
    <2>6. base' \in Generations
      BY <1>2, <1>4 DEF ProcRow
    <2> QED BY <1>1, <1>4, <2>3, <2>5, <2>6 DEF Turns, Files
  <1> QED BY <1>3, <1>4 DEF Restore

\* Writing, step by step.
LEMMA StageMoves ==
    ASSUME Types, NEW p \in Procs, Stage(p)
    PROVE  /\ Moves(p) /\ UNCHANGED <<base, recovery, lock, kept, trusted>> /\ proc[p].task \in Documents
           /\ \/ proc'[p].pc = "releasing"
              \/ /\ proc'[p].pc = IF base = Absent THEN "checking" ELSE "copying"
                 /\ base # Broken /\ proc'[p].task = proc[p].task
                 /\ proc'[p].stage = WithDocument(proc[p].existing, proc[p].task)
  <1> DEFINE updated == WithDocument(proc[p].existing, proc[p].task)
             pc == IF base = Absent THEN "checking" ELSE "copying"
  <1>1. UNCHANGED <<base, recovery, lock, kept, trusted>>
    BY DEF Stage, tree, outside
  <1>2. proc[p] \in ProcRow /\ proc[p].task \in Documents
    BY DEF Stage, At, Types, RowsOK, RowOK, Writing
  <1>3. CASE Finish(p)
    BY <1>1, <1>2, <1>3, FinishTo DEF Turns
  <1>4. CASE base # Broken /\ proc' = [proc EXCEPT ![p].stage = updated, ![p].expected = base, ![p].pc = pc]
    <2>1. PICK old, u, e, c : old = proc[p] /\ u = updated /\ e = base /\ c = pc
      OBVIOUS
    <2> DEFINE row == [old EXCEPT !.stage = u, !.expected = e, !.pc = c]
    <2>2. updated \in Generations /\ base \in Generations \cup {Absent, Broken} /\ pc \in {"checking", "copying"}
      BY <1>2, WithDocumentType DEF ProcRow, Types, Files
    <2>3. proc' = [proc EXCEPT ![p] = row]
      BY <1>4, <2>1 DEF Types, RowsOK
    <2> HIDE DEF updated, pc
    <2>4. row \in ProcRow /\ row.stage = updated /\ row.pc = pc /\ row.task = proc[p].task
      BY <1>2, <2>1, <2>2 DEF ProcRow, Writing
    <2> HIDE DEF row
    <2>5. RowOK(row)
      BY <1>2, <2>2, <2>4 DEF RowOK, Arriving
    <2>6. Turns(p, row) /\ Moves(p)
      BY <2>3, <2>4, <2>5, TurnsType
    <2>7. proc'[p].pc = pc /\ proc'[p].stage = updated /\ proc'[p].task = proc[p].task
      BY <2>4, <2>6 DEF Turns
    <2> QED BY <1>1, <1>2, <1>4, <2>6, <2>7 DEF updated, pc
  <1> QED BY <1>3, <1>4 DEF Stage

LEMMA CopyMoves ==
    ASSUME Types, NEW p \in Procs, CopyPrimary(p)
    PROVE  /\ Moves(p) /\ UNCHANGED <<base, recovery, lock, kept, trusted>>
           /\ \/ proc'[p].pc = "releasing"
              \/ /\ proc'[p].pc = "dropping" /\ Whole(base) /\ proc'[p].candidate = base /\ base \in Generations
                 /\ proc'[p].stage = proc[p].stage /\ proc'[p].task = proc[p].task
  <1>1. UNCHANGED <<base, recovery, lock, kept, trusted>>
    BY DEF CopyPrimary, tree, outside
  <1>2. proc[p] \in ProcRow /\ proc[p].task \in Documents
    BY DEF CopyPrimary, At, Types, RowsOK, RowOK, Writing
  <1>3. CASE Finish(p)
    BY <1>1, <1>3, FinishTo DEF Turns
  <1>4. CASE Whole(base) /\ proc' = [proc EXCEPT ![p].candidate = base, ![p].pc = "dropping"]
    <2>1. PICK old, b : old = proc[p] /\ b = base
      OBVIOUS
    <2> DEFINE row == [old EXCEPT !.candidate = b, !.pc = "dropping"]
    <2>2. base \in Generations
      BY <1>4, WholeGenerations DEF Types
    <2>3. proc' = [proc EXCEPT ![p] = row]
      BY <1>4, <2>1 DEF Types, RowsOK
    <2>4. /\ row \in ProcRow /\ row.candidate = base /\ row.pc = "dropping" /\ row.task = proc[p].task
          /\ row.stage = proc[p].stage
      BY <1>2, <2>1, <2>2 DEF ProcRow, Writing
    <2> HIDE DEF row
    <2>5. RowOK(row)
      BY <1>2, <2>4 DEF RowOK, Arriving
    <2>6. Turns(p, row) /\ Moves(p)
      BY <2>3, <2>4, <2>5, TurnsType
    <2> QED BY <1>1, <1>4, <2>2, <2>4, <2>6 DEF Turns
  <1> QED BY <1>3, <1>4 DEF CopyPrimary

LEMMA InstallMoves ==
    ASSUME Types, NEW p \in Procs, InstallRecovery(p)
    PROVE  /\ Moves(p) /\ UNCHANGED <<base, lock, kept, trusted>> /\ recovery' \in Files
           /\ \/ proc'[p].pc = "releasing" /\ recovery' = recovery /\ proc[p].candidate = None
              \/ /\ proc'[p].pc = "checking" /\ recovery' = proc[p].candidate /\ recovery' \in Generations
                 /\ proc'[p].stage = proc[p].stage /\ proc'[p].task = proc[p].task
  <1>1. UNCHANGED <<base, lock, kept, trusted>>
    BY DEF InstallRecovery, outside
  <1>2. proc[p] \in ProcRow /\ proc[p].task \in Documents
    BY DEF InstallRecovery, At, Types, RowsOK, RowOK, Writing
  <1>3. CASE proc[p].candidate = None /\ recovery' = recovery /\ Finish(p)
    BY <1>1, <1>3, FinishTo DEF Turns, Types
  <1>4. CASE /\ proc[p].candidate # None /\ recovery' = proc[p].candidate
             /\ proc' = [proc EXCEPT ![p].candidate = None, ![p].pc = "checking"]
    <2>1. PICK old : old = proc[p]
      OBVIOUS
    <2> DEFINE row == [old EXCEPT !.candidate = None, !.pc = "checking"]
    <2>2. proc' = [proc EXCEPT ![p] = row]
      BY <1>4, <2>1 DEF Types, RowsOK
    <2>3. row \in ProcRow /\ row.pc = "checking" /\ row.task = proc[p].task /\ row.stage = proc[p].stage
      BY <1>2, <2>1 DEF ProcRow, Writing
    <2> HIDE DEF row
    <2>4. RowOK(row)
      BY <1>2, <2>3 DEF RowOK, Arriving
    <2>5. Turns(p, row) /\ Moves(p)
      BY <2>2, <2>3, <2>4, TurnsType
    <2>6. recovery' \in Generations
      BY <1>2, <1>4 DEF ProcRow
    <2> QED BY <1>1, <1>4, <2>3, <2>5, <2>6 DEF Turns, Files
  <1> QED BY <1>3, <1>4 DEF InstallRecovery

LEMMA RemoveMoves ==
    ASSUME Types, NEW p \in Procs, RemovePrimary(p)
    PROVE  /\ Moves(p) /\ UNCHANGED <<recovery, lock, kept, trusted>> /\ base' \in {Absent, Broken}
           /\ proc'[p].pc \in {"removing", "publishing"}
           /\ proc'[p].stage = proc[p].stage /\ proc'[p].task = proc[p].task
  <1>1. UNCHANGED <<recovery, lock, kept, trusted>> /\ base' \in {Absent, Broken} /\ proc[p].pc = "removing"
    BY DEF RemovePrimary, outside, At
  <1>2. proc[p] \in ProcRow /\ proc[p].task \in Documents
    BY <1>1 DEF Types, RowsOK, RowOK, Writing
  <1>3. CASE Goes(p, "publishing")
    <2>1. "publishing" \in Writing /\ "publishing" \notin Arriving
      BY DEF Writing, Arriving
    <2>2. Turns(p, [proc[p] EXCEPT !.pc = "publishing"]) /\ Moves(p)
      BY <1>2, <1>3, <2>1, GoesTo
    <2> QED BY <1>1, <1>2, <2>2 DEF Turns, ProcRow
  <1>4. CASE proc' = [proc EXCEPT ![p].removed = TRUE]
    <2>1. PICK old : old = proc[p]
      OBVIOUS
    <2> DEFINE row == [old EXCEPT !.removed = TRUE]
    <2>2. proc' = [proc EXCEPT ![p] = row]
      BY <1>4, <2>1 DEF Types, RowsOK
    <2>3. row \in ProcRow /\ row.pc = proc[p].pc /\ row.task = proc[p].task /\ row.stage = proc[p].stage
      BY <1>2, <2>1 DEF ProcRow
    <2> HIDE DEF row
    <2>4. RowOK(row)
      BY <1>1, <1>2, <2>3 DEF RowOK, Arriving
    <2>5. Turns(p, row) /\ Moves(p)
      BY <2>2, <2>3, <2>4, TurnsType
    <2> QED BY <1>1, <2>3, <2>5 DEF Turns
  <1> QED BY <1>3, <1>4 DEF RemovePrimary

\* A writer that goes on keeps its document and what it has staged.
LEMMA WriterGoes ==
    ASSUME Types, NEW p \in Procs, proc[p].pc \in Writing, NEW pc \in Writing, Goes(p, pc)
    PROVE  /\ Moves(p) /\ proc'[p].pc = pc /\ proc'[p].stage = proc[p].stage
           /\ proc'[p].task = proc[p].task /\ proc'[p].candidate = proc[p].candidate
  <1>1. proc[p] \in ProcRow /\ proc[p].task \in Documents
    BY DEF Types, RowsOK, RowOK
  <1>2. pc \notin Arriving
    BY DEF Arriving, Writing
  <1>3. Turns(p, [proc[p] EXCEPT !.pc = pc]) /\ Moves(p)
    BY <1>1, <1>2, GoesTo
  <1> QED BY <1>1, <1>3 DEF Turns, ProcRow

LEMMA DropMoves ==
    ASSUME Types, NEW p \in Procs, DropRecovery(p)
    PROVE  /\ Moves(p) /\ UNCHANGED <<base, lock, kept, trusted>> /\ recovery' \in Files
           /\ proc'[p].pc \in {"dropping", "installing"} /\ proc'[p].stage = proc[p].stage
           /\ proc'[p].task = proc[p].task /\ proc'[p].candidate = proc[p].candidate
  <1>1. UNCHANGED <<base, lock, kept, trusted>> /\ recovery' \in Files
    BY DEF DropRecovery, outside, Files
  <1>2. proc[p].pc \in Writing /\ {"dropping", "installing"} \subseteq Writing
    BY DEF DropRecovery, At, Writing
  <1>3. Goes(p, "dropping") \/ Goes(p, "installing")
    BY DEF DropRecovery
  <1> QED BY <1>1, <1>2, <1>3, WriterGoes

LEMMA CheckMoves ==
    ASSUME Types, NEW p \in Procs, CheckFingerprint(p)
    PROVE  /\ Moves(p) /\ UNCHANGED <<base, recovery, lock, kept, trusted>>
           /\ \/ proc'[p].pc = "releasing"
              \/ /\ proc'[p].pc = "removing" /\ proc'[p].stage = proc[p].stage
                 /\ proc'[p].task = proc[p].task
  <1>1. UNCHANGED <<base, recovery, lock, kept, trusted>>
    BY DEF CheckFingerprint, tree, outside
  <1>2. CASE Finish(p)
    BY <1>1, <1>2, FinishTo DEF Turns
  <1>3. CASE Goes(p, "removing")
    <2>1. proc[p].pc \in Writing /\ "removing" \in Writing
      BY DEF CheckFingerprint, At, Writing
    <2> QED BY <1>1, <1>3, <2>1, WriterGoes
  <1> QED BY <1>2, <1>3 DEF CheckFingerprint

LEMMA PublishMoves ==
    ASSUME Types, NEW p \in Procs, PublishStage(p)
    PROVE  /\ Moves(p) /\ UNCHANGED <<recovery, lock, trusted>> /\ kept' \in [Ids -> SUBSET Known] /\ base' \in Files
           /\ proc'[p].stage = proc[p].stage /\ proc'[p].task = proc[p].task
           /\ \/ proc'[p].pc = "rollingback" /\ UNCHANGED <<base, kept>>
              \/ /\ proc'[p].pc = "published" /\ base' = proc[p].stage /\ base' \in Generations
                 /\ \A i \in Ids : kept'[i] = IF i = proc[p].task.id /\ kept[i] # {}
                                             THEN kept[i] \cup {Stored(proc[p].task)} ELSE kept[i]
  <1>1. UNCHANGED <<recovery, lock, trusted>> /\ proc[p].pc \in Writing /\ {"published", "rollingback"} \subseteq Writing
    BY DEF PublishStage, outside, At, Writing
  <1>2. proc[p] \in ProcRow /\ proc[p].task \in Documents
    BY <1>1 DEF Types, RowsOK, RowOK
  <1>3. CASE UNCHANGED <<base, kept>> /\ Goes(p, "rollingback")
    BY <1>1, <1>3, WriterGoes DEF Types
  <1>4. CASE /\ proc[p].stage # None /\ base' = proc[p].stage /\ Goes(p, "published")
             /\ kept' = [kept EXCEPT ![proc[p].task.id] = IF @ = {} THEN @ ELSE @ \cup {Stored(proc[p].task)}]
    <2>1. base' \in Generations
      BY <1>2, <1>4 DEF ProcRow
    <2>2. PICK id, d : id = proc[p].task.id /\ d = Stored(proc[p].task)
      OBVIOUS
    <2>3. id \in Ids /\ d \in Known
      BY <1>2, <2>2 DEF Ids, Known
    <2>4. kept' = [kept EXCEPT ![id] = IF kept[id] = {} THEN kept[id] ELSE kept[id] \cup {d}]
      BY <1>4, <2>2, <2>3 DEF Types
    <2>5. /\ kept' \in [Ids -> SUBSET Known]
          /\ \A i \in Ids : kept'[i] = IF i = id /\ kept[i] # {} THEN kept[i] \cup {d} ELSE kept[i]
      BY <2>3, <2>4 DEF Types
    <2> QED BY <1>1, <1>4, <2>1, <2>2, <2>5, WriterGoes DEF Files
  <1> QED BY <1>3, <1>4 DEF PublishStage

LEMMA ReadBackMoves ==
    ASSUME Types, NEW p \in Procs, ReadBack(p)
    PROVE  /\ Moves(p) /\ UNCHANGED <<base, recovery, lock, trusted>> /\ kept' \in [Ids -> SUBSET Known]
           /\ proc'[p].pc = "releasing"
           /\ \/ kept' = kept
              \/ /\ Whole(base) /\ base = proc[p].stage /\ proc[p].task \in Documents
                 /\ \A i \in Ids : kept'[i] = IF i = proc[p].task.id THEN {Stored(proc[p].task)} ELSE kept[i]
  <1>1. UNCHANGED <<base, recovery, lock, trusted>> /\ Finish(p)
    BY DEF ReadBack, tree, outside
  <1>2. proc[p].task \in Documents
    BY DEF ReadBack, At, Writing, Types, RowsOK, RowOK
  <1>3. Moves(p) /\ proc'[p].pc = "releasing"
    BY <1>1, FinishTo DEF Turns
  <1>4. CASE kept' = kept
    BY <1>1, <1>3, <1>4 DEF Types
  <1>5. CASE /\ Whole(base) /\ base = proc[p].stage
             /\ kept' = [kept EXCEPT ![proc[p].task.id] = {Stored(proc[p].task)}]
    <2>1. PICK id, d : id = proc[p].task.id /\ d = Stored(proc[p].task)
      OBVIOUS
    <2>2. id \in Ids /\ d \in Known
      BY <1>2, <2>1 DEF Ids, Known
    <2>3. kept' = [kept EXCEPT ![id] = {d}]
      BY <1>5, <2>1
    <2>4. kept' \in [Ids -> SUBSET Known] /\ \A i \in Ids : kept'[i] = IF i = id THEN {d} ELSE kept[i]
      BY <2>2, <2>3 DEF Types
    <2> QED BY <1>1, <1>2, <1>3, <1>5, <2>1, <2>4
  <1>6. kept' = kept \/ (Whole(base) /\ base = proc[p].stage
                        /\ kept' = [kept EXCEPT ![proc[p].task.id] = {Stored(proc[p].task)}])
    <2>1. CASE Whole(base) /\ base = proc[p].stage
      BY <2>1 DEF ReadBack
    <2>2. CASE ~(Whole(base) /\ base = proc[p].stage)
      <3>1. kept' = kept \/ kept' = [kept EXCEPT ![proc[p].task.id] = kept[proc[p].task.id]]
        BY <2>2 DEF ReadBack
      <3> QED BY <3>1 DEF Types
    <2> QED BY <2>1, <2>2
  <1> QED BY <1>4, <1>5, <1>6

\* A publication that fails, and what it takes back.
LEMMA FailureMoves ==
    ASSUME Types, NEW p \in Procs, PublishFails(p) \/ ReadBackFails(p)
    PROVE  /\ Moves(p) /\ UNCHANGED <<base, recovery, lock, kept, trusted>>
           /\ \/ proc'[p].pc = "releasing"
              \/ proc'[p].pc = "rollingback"
              \/ /\ proc'[p].pc = "withdrawing" /\ proc[p].pc = "published"
                 /\ proc'[p].stage = proc[p].stage /\ proc'[p].task = proc[p].task
  <1>1. UNCHANGED <<base, recovery, lock, kept, trusted>>
    BY DEF PublishFails, ReadBackFails, tree, outside
  <1>2. proc[p].pc \in Writing /\ {"withdrawing", "rollingback"} \subseteq Writing
    BY DEF PublishFails, ReadBackFails, At, Writing
  <1>3. \/ Goes(p, "rollingback") \/ Finish(p) \/ (Goes(p, "withdrawing") /\ proc[p].pc = "published")
    BY DEF PublishFails, ReadBackFails, At
  <1>4. CASE Finish(p)
    BY <1>1, <1>4, FinishTo DEF Turns
  <1>5. CASE Goes(p, "rollingback") \/ (Goes(p, "withdrawing") /\ proc[p].pc = "published")
    BY <1>1, <1>2, <1>5, WriterGoes
  <1> QED BY <1>3, <1>4, <1>5

LEMMA WithdrawMoves ==
    ASSUME Types, NEW p \in Procs, Withdraw(p)
    PROVE  /\ Moves(p) /\ UNCHANGED <<recovery, lock, kept, trusted>> /\ base' \in {Absent, Broken}
           /\ proc'[p].pc \in {"withdrawing", "rollingback"}
           /\ proc'[p].stage = proc[p].stage /\ proc'[p].task = proc[p].task
  <1>1. UNCHANGED <<recovery, lock, kept, trusted>> /\ base' \in {Absent, Broken}
        /\ proc[p].pc = "withdrawing" /\ {"withdrawing", "rollingback"} \subseteq Writing
    BY DEF Withdraw, outside, At, Writing
  <1>2. CASE proc' = proc
    <2>1. RowsOK' /\ Turns(p, proc[p])
      BY <1>2 DEF Types, RowsOK, Turns
    <2>2. Moves(p)
      BY <2>1 DEF Moves
    <2> QED BY <1>1, <1>2, <2>2
  <1>3. CASE Goes(p, "rollingback")
    BY <1>1, <1>3, WriterGoes
  <1> QED BY <1>2, <1>3 DEF Withdraw

LEMMA RollBackMoves ==
    ASSUME Types, NEW p \in Procs, RollBack(p)
    PROVE  /\ Moves(p) /\ UNCHANGED <<recovery, lock, kept, trusted>> /\ base' \in Files
           /\ proc'[p].pc = "releasing" /\ (base' = base \/ (base = Absent /\ Whole(recovery) /\ base' = recovery))
  <1>1. UNCHANGED <<recovery, lock, kept, trusted>> /\ Finish(p)
    BY DEF RollBack, outside
  <1>2. Moves(p) /\ proc'[p].pc = "releasing"
    BY <1>1, FinishTo DEF Turns
  <1> QED BY <1>1, <1>2 DEF RollBack, Types

\* A request that begins.
LEMMA BeginMoves ==
    ASSUME Types, NEW p \in Procs, Activate(p) \/ \E d \in Documents : Promote(p, d)
    PROVE  Moves(p) /\ UNCHANGED <<base, recovery, lock, kept, trusted>> /\ proc'[p].pc = "contending"
  <1>1. UNCHANGED <<base, recovery, lock, kept, trusted>>
    BY DEF Activate, Promote, tree, outside
  <1>2. PICK row : /\ proc' = [proc EXCEPT ![p] = row] /\ row \in ProcRow /\ row.pc = "contending"
                   /\ row.task \in Documents \cup {None}
    <2>1. CASE Activate(p)
      <3> DEFINE entered == [Idle EXCEPT !.pc = "contending"]
      <3>1. entered \in ProcRow
        BY DEF Idle, ProcRow, Arriving, Generations, Known
      <3>2. entered.pc = "contending" /\ entered.task = None
        BY DEF Idle
      <3>3. proc' = [proc EXCEPT ![p] = entered]
        BY <2>1 DEF Activate
      <3> HIDE DEF entered
      <3> QED BY <3>1, <3>2, <3>3
    <2>2. ASSUME NEW d \in Documents, Promote(p, d)
          PROVE  \E row : /\ proc' = [proc EXCEPT ![p] = row] /\ row \in ProcRow /\ row.pc = "contending"
                          /\ row.task \in Documents \cup {None}
      <3> DEFINE entered == [Idle EXCEPT !.pc = "contending", !.task = d]
      <3>1. entered \in ProcRow
        BY IdleType
      <3>2. entered.pc = "contending" /\ entered.task = d
        BY DEF Idle
      <3>3. proc' = [proc EXCEPT ![p] = entered]
        BY <2>2 DEF Promote
      <3> HIDE DEF entered
      <3> QED BY <3>1, <3>2, <3>3
    <2> QED BY <2>1, <2>2
  <1>3. RowOK(row)
    BY <1>2 DEF RowOK, Writing
  <1>4. Turns(p, row) /\ Moves(p)
    BY <1>2, <1>3, TurnsType
  <1> QED BY <1>1, <1>2, <1>4 DEF Turns

\* An activation that compiles what the trusted commit holds, and one that is done.
LEMMA ActivationMoves ==
    ASSUME Types, NEW p \in Procs, ResolveCommit(p) \/ PublishSnapshot(p) \/ Die(p)
    PROVE  /\ Moves(p) /\ UNCHANGED <<base, recovery, lock, kept, trusted>>
           /\ proc'[p].pc \in {"idle", "compiled", "dead"}
           /\ proc'[p].pc = "dead" => \E q \in Procs \ {p} : Alive(q)
  <1>1. UNCHANGED <<base, recovery, lock, kept, trusted>>
    BY DEF ResolveCommit, PublishSnapshot, Die, tree, outside
  <1>2. CASE proc' = [proc EXCEPT ![p] = Idle]
    <2>1. Idle.pc = "idle"
      BY DEF Idle
    <2> QED BY <1>1, <1>2, <2>1, GoesIdle DEF Turns
  <1>3. CASE Die(p)
    <2>1. "dead" \notin Arriving \cup Writing
      BY DEF Arriving, Writing
    <2>2. Goes(p, "dead")
      BY <1>3 DEF Die
    <2>3. Turns(p, [proc[p] EXCEPT !.pc = "dead"]) /\ [proc[p] EXCEPT !.pc = "dead"].pc = "dead" /\ Moves(p)
      BY <2>1, <2>2, GoesTo
    <2> QED BY <1>1, <1>3, <2>3 DEF Turns, Die
  <1> DEFINE snapshot == Compilation(proc[p].existing, trusted)
             row == [Idle EXCEPT !.pc = "compiled", !.compiled = [snapshot |-> snapshot, of |-> trusted]]
  <1>4. CASE ~snapshot.rejected /\ proc' = [proc EXCEPT ![p] = row]
    <2>1. proc[p].existing \in Generations /\ trusted \in Generations
      BY DEF Types, RowsOK, ProcRow
    <2>2. snapshot \in Snapshots
      BY <1>4, <2>1, CompilationIsSnapshot
    <2>3. RowOK(row) /\ row.pc = "compiled"
      <3>1. row.pc = "compiled" /\ row.compiled = [snapshot |-> snapshot, of |-> trusted]
        BY DEF Idle
      <3>2. row.compiled.of = trusted /\ row.compiled.snapshot = snapshot
        BY <3>1
      <3> HIDE DEF row
      <3> QED BY <1>4, <2>1, <3>1, <3>2 DEF RowOK, Arriving, Writing
    <2> HIDE DEF snapshot
    <2>4. row \in ProcRow
      BY <2>1, <2>2 DEF ProcRow, Idle, Generations, Known
    <2> HIDE DEF row
    <2>5. Turns(p, row) /\ Moves(p)
      BY <1>4, <2>3, <2>4, TurnsType
    <2> QED BY <1>1, <2>3, <2>5 DEF Turns
  <1>5. ResolveCommit(p) => \/ proc' = [proc EXCEPT ![p] = Idle]
                            \/ ~snapshot.rejected /\ proc' = [proc EXCEPT ![p] = row]
    BY DEF ResolveCommit, Compilation, Own, Context
  <1> QED BY <1>2, <1>3, <1>4, <1>5 DEF PublishSnapshot

LEMMA TypesStep == ASSUME Types, [KnowledgeNext]_vars PROVE Types'
  <1>1. ASSUME NEW p \in Procs, Step(p) \/ Activate(p) \/ Die(p) \/ \E d \in Documents : Promote(p, d)
        PROVE  Types'
    <2>1. CASE CleanUp(p)
      BY <2>1, CleanUpTurns DEF Types
    <2>2. CASE \/ FindLock(p) \/ RenameCandidate(p) \/ ReadOwner(p) \/ TakeOver(p) \/ TimeOut(p)
               \/ ReleaseOwner(p) \/ ReleaseDirectory(p)
      BY <2>2, LockMoves DEF Types, Moves
    <2>3. CASE Activate(p) \/ Die(p) \/ ResolveCommit(p) \/ PublishSnapshot(p) \/ \E d \in Documents : Promote(p, d)
      BY <2>3, BeginMoves, ActivationMoves DEF Types, Moves
    <2>4. CASE ReadGeneration(p) \/ Restore(p) \/ Stage(p) \/ CopyPrimary(p) \/ DropRecovery(p) \/ InstallRecovery(p)
      BY <2>4, ReadMoves, RestoreMoves, StageMoves, CopyMoves, DropMoves, InstallMoves DEF Types, Moves
    <2>5. CASE CheckFingerprint(p) \/ PublishStage(p) \/ ReadBack(p) \/ PublishFails(p) \/ ReadBackFails(p) \/ RollBack(p)
      BY <2>5, CheckMoves, PublishMoves, ReadBackMoves, FailureMoves, RollBackMoves DEF Types, Moves
    <2>6. CASE RemovePrimary(p) \/ Withdraw(p)
      BY <2>6, RemoveMoves, WithdrawMoves DEF Types, Moves, Files
    <2> QED BY <1>1, <2>1, <2>2, <2>3, <2>4, <2>5, <2>6 DEF Step
  <1>2. ASSUME NEW g \in Edits, Edit(g) PROVE Types'
    <2>1. g \in Generations
      BY DEF Generations, Known
    <2>2. UNCHANGED <<recovery, lock, proc, trusted>> /\ base' = g /\ kept' = [i \in Ids |-> {}]
      BY <1>2 DEF Edit
    <2> QED BY <2>1, <2>2 DEF Types, RowsOK, Files
  <1>3. CASE Merge
    <2>1. UNCHANGED <<base, recovery, lock, proc, kept>> /\ trusted' = base /\ Whole(base)
      BY <1>3 DEF Merge, tree
    <2> QED BY <2>1, WholeGenerations DEF Types, RowsOK
  <1>4. CASE UNCHANGED vars
    BY <1>4 DEF vars, Types, RowsOK
  <1> QED BY <1>1, <1>2, <1>3, <1>4 DEF KnowledgeNext

LEMMA TypesInit == ASSUME KnowledgeInit PROVE Types
  <1>1. {} \in Generations
    BY DEF Generations
  <1> QED BY <1>1, IdleType DEF KnowledgeInit, Types, RowsOK, Files

THEOREM KnowledgeTypesHold == KnowledgeSpec => []Types
  <1> QED BY TypesInit, TypesStep, PTL DEF KnowledgeSpec

\* compileActivatedRuntimeRules() and the gate: whatever is promoted, edited or
\* merged, by however many processes, a compiled snapshot warns or blocks only for
\* a confirmed or verified directive of the trusted commit, and blocks only the
\* exact call of a verified one.
THEOREM EnforcementStaysEarned == KnowledgeSpec => []EnforcementIsEarned
  <1>1. ASSUME Types, NEW p \in Procs, At(p, "compiled"), NEW op \in Operations, NEW profile \in Profiles
        PROVE  LET decision == Policy!Decision(op, profile, proc[p].compiled.snapshot)
                   earned == {d \in proc[p].compiled.of :
                                 /\ d.scope = Repository /\ d.directive # None
                                 /\ d.directive.effect = "conflict"
                                 /\ d.directive.signature.tool = op.signature.tool}
               IN  /\ decision.outcome # "ALLOW" => \E d \in earned : d.state \in {"confirmed", "verified"}
                   /\ decision.outcome = "BLOCK" =>
                          \E d \in earned : d.state = "verified" /\ d.directive.signature = op.signature
    <2>1. PICK of \in Generations : of = proc[p].compiled.of
      BY <1>1 DEF Types, RowsOK, RowOK, At
    <2>2. PICK local \in Generations :
            ~Compilation(local, of).rejected /\ proc[p].compiled.snapshot = Compilation(local, of)
      BY <1>1, <2>1 DEF Types, RowsOK, RowOK, At
    <2> QED BY <2>1, <2>2, DecisionIsEarned DEF Earned
  <1>2. Types => EnforcementIsEarned
    BY <1>1 DEF EnforcementIsEarned
  <1> QED BY <1>2, KnowledgeTypesHold, PTL
---------------------------------------------------------------------------
(* Two processes: the lock excludes, and no promotion is lost. *)

CriticalSection == Writing \cup {"cleaning", "reading", "restoring", "releasing"}
SomeoneDead == \E q \in Procs : ~Alive(q)

\* Who is between acquiring and releasing owns the lock; a lock is taken over, or
\* left without an owner, only beside a process that died or is releasing it.
Locking ==
    /\ \A p \in Procs : proc[p].pc \in CriticalSection => lock = p
    /\ \A p \in Procs : At(p, "takingover") => SomeoneDead
    /\ lock = Emptied => SomeoneDead \/ \E q \in Procs : At(q, "released")

\* A generation that keeps every promotion, and one that keeps those of others.
Covers(g) == \A i \in Ids : kept[i] # {} => Whole(g) /\ g \cap kept[i] # {}
CoversOthers(g, id) == \A i \in Ids \ {id} : kept[i] # {} => g \cap kept[i] # {}
Surviving == IF Whole(base) THEN base ELSE recovery

\* What a process in its critical section relies on, by the step it is about to take.
Safe(p) ==
    LET w == proc[p]
    IN  /\ w.pc = "restoring" => w.stage = recovery
        /\ w.pc = "staging" => Covers(w.existing)
        /\ w.pc \in Writing \ {"staging", "rollingback"} => w.stage \in Generations /\ Stored(w.task) \in w.stage
        /\ w.pc \in {"copying", "dropping", "installing", "checking", "removing", "publishing"} =>
              CoversOthers(w.stage, w.task.id)
        /\ w.pc \in {"dropping", "installing"} => Whole(base) /\ Covers(w.candidate)
        /\ w.pc \in {"checking", "removing", "publishing", "published", "withdrawing", "rollingback"} => Covers(recovery)

KeptNamed == \A i \in Ids : \A d \in kept[i] : d.id = i

\* The inductive invariant of promotion.
PromotionInv == Types /\ Locking /\ KeptNamed /\ Covers(Surviving) /\ \A p \in Procs : Safe(p)

LEMMA LockFrame ==
    ASSUME Locking, NEW p \in Procs, lock' = lock, \A q \in Procs \ {p} : proc'[q].pc = proc[q].pc,
           proc'[p].pc \in CriticalSection => proc[p].pc \in CriticalSection,
           proc'[p].pc # "takingover", proc[p].pc # "dead", proc[p].pc = "released" => proc'[p].pc = "dead"
    PROVE  Locking'
  <1>1. SomeoneDead => SomeoneDead'
    BY DEF SomeoneDead, Alive
  <1>2. (\E q \in Procs : At(q, "released")) => SomeoneDead' \/ \E q \in Procs : At(q, "released")'
    BY DEF SomeoneDead, Alive, At
  <1> QED BY <1>1, <1>2 DEF Locking, At

\* A step of the process in its critical section, or one that changes nothing that
\* is shared, costs no other process what it relies on.
LEMMA OthersSafe ==
    ASSUME PromotionInv, NEW p \in Procs, \A q \in Procs \ {p} : proc'[q] = proc[q],
           proc[p].pc \in CriticalSection \/ UNCHANGED <<base, recovery, kept>>
    PROVE  \A q \in Procs \ {p} : Safe(q)'
  <1> SUFFICES ASSUME NEW q \in Procs \ {p} PROVE Safe(q)'
    OBVIOUS
  <1>1. CASE proc[p].pc \in CriticalSection
    <2>1. proc'[q].pc \notin CriticalSection
      BY <1>1 DEF PromotionInv, Locking
    <2> QED BY <2>1 DEF Safe, CriticalSection, Writing
  <1>2. CASE UNCHANGED <<base, recovery, kept>>
    BY <1>2 DEF PromotionInv, Safe, Covers, CoversOthers
  <1> QED BY <1>1, <1>2

LEMMA CriticalStep ==
    ASSUME PromotionInv, NEW p \in Procs, proc[p].pc \in CriticalSection, Moves(p), lock' = lock,
           proc'[p].pc \in CriticalSection, Types', KeptNamed', Covers(Surviving)', Safe(p)'
    PROVE  PromotionInv'
  <1>1. \A q \in Procs \ {p} : proc'[q] = proc[q]
    BY DEF Moves, Turns
  <1>2. Locking'
    <2>1. proc[p].pc \notin {"dead", "released"} /\ proc'[p].pc # "takingover"
      BY DEF CriticalSection, Writing
    <2> QED BY <1>1, <2>1, LockFrame DEF PromotionInv
  <1>3. \A q \in Procs : Safe(q)'
    BY <1>1, OthersSafe
  <1> QED BY <1>2, <1>3 DEF PromotionInv

\* Of such a step that leaves the files and the promotions alone.
LEMMA QuietStep ==
    ASSUME PromotionInv, NEW p \in Procs, proc[p].pc \in CriticalSection, Moves(p), Types',
           UNCHANGED <<base, recovery, lock, kept>>, proc'[p].pc \in CriticalSection, Safe(p)'
    PROVE  PromotionInv'
  <1>1. KeptNamed' /\ Covers(Surviving)'
    BY DEF PromotionInv, KeptNamed, Covers, Surviving
  <1> QED BY <1>1, CriticalStep

---------------------------------------------------------------------------
LEMMA SafeReleasing == ASSUME NEW p, proc[p].pc \in {"reading", "releasing"} PROVE Safe(p)
  BY DEF Safe, Writing

LEMMA ReadSafe == ASSUME PromotionInv, Types', NEW p \in Procs, ReadGeneration(p) PROVE PromotionInv'
  <1>1. Types /\ Covers(Surviving) /\ proc[p].pc \in CriticalSection
    BY DEF PromotionInv, ReadGeneration, At, CriticalSection
  <1>2. /\ Moves(p) /\ UNCHANGED <<base, recovery, lock, kept, trusted>>
        /\ \/ proc'[p].pc = "releasing"
           \/ /\ proc'[p].pc = "staging"
              /\ \/ Whole(base) /\ proc'[p].existing = base
                 \/ base = Absent /\ recovery = Absent
           \/ proc'[p].pc = "restoring" /\ Whole(recovery) /\ proc'[p].stage = recovery
    BY <1>1, ReadMoves
  <1>3. Safe(p)' /\ proc'[p].pc \in CriticalSection
    <2>1. CASE proc'[p].pc = "releasing"
      BY <2>1 DEF Safe, CriticalSection, Writing
    <2>2. CASE proc'[p].pc = "restoring" /\ Whole(recovery) /\ proc'[p].stage = recovery
      BY <1>2, <2>2 DEF Safe, CriticalSection, Writing
    <2>3. CASE proc'[p].pc = "staging" /\ Whole(base) /\ proc'[p].existing = base
      BY <1>1, <1>2, <2>3 DEF Safe, CriticalSection, Writing, Covers, Surviving
    <2>4. CASE proc'[p].pc = "staging" /\ base = Absent /\ recovery = Absent
      <3>1. \A i \in Ids : kept[i] = {}
        BY <1>1, <2>4 DEF Covers, Surviving, Whole
      <3> QED BY <1>2, <2>4, <3>1 DEF Safe, CriticalSection, Writing, Covers
    <2> QED BY <1>2, <2>1, <2>2, <2>3, <2>4
  <1> QED BY <1>1, <1>2, <1>3, QuietStep

LEMMA RestoreSafe == ASSUME PromotionInv, Types', NEW p \in Procs, Restore(p) PROVE PromotionInv'
  <1>1. Types /\ Covers(Surviving) /\ proc[p].pc \in CriticalSection /\ proc[p].stage = recovery
    BY DEF PromotionInv, Restore, At, CriticalSection, Safe
  <1>2. /\ Moves(p) /\ UNCHANGED <<recovery, lock, kept, trusted>> /\ base' \in Files
        /\ proc'[p].pc \in {"reading", "releasing"}
        /\ base' = base \/ (base = Absent /\ base' = proc[p].stage /\ base' \in Generations)
    BY <1>1, RestoreMoves
  <1>3. Safe(p)' /\ proc'[p].pc \in CriticalSection
    BY <1>2 DEF Safe, Writing, CriticalSection
  <1>4. KeptNamed'
    BY <1>2 DEF PromotionInv, KeptNamed
  <1>5. Covers(Surviving)'
    BY <1>1, <1>2 DEF Covers, Surviving, Whole
  <1> QED BY <1>1, <1>2, <1>3, <1>4, <1>5, CriticalStep

LEMMA StageSafe == ASSUME PromotionInv, Types', NEW p \in Procs, Stage(p) PROVE PromotionInv'
  <1>1. /\ Types /\ Covers(Surviving) /\ KeptNamed /\ proc[p].pc \in CriticalSection /\ Covers(proc[p].existing)
        /\ proc[p].existing \in Generations
    BY DEF PromotionInv, Stage, At, CriticalSection, Writing, Safe, Types, RowsOK, ProcRow
  <1>2. /\ Moves(p) /\ UNCHANGED <<base, recovery, lock, kept, trusted>> /\ proc[p].task \in Documents
        /\ \/ proc'[p].pc = "releasing"
           \/ /\ proc'[p].pc = IF base = Absent THEN "checking" ELSE "copying"
              /\ base # Broken /\ proc'[p].task = proc[p].task
              /\ proc'[p].stage = WithDocument(proc[p].existing, proc[p].task)
    BY <1>1, StageMoves
  <1>3. CASE proc'[p].pc = "releasing"
    BY <1>1, <1>2, <1>3, QuietStep DEF Safe, CriticalSection, Writing
  <1>4. CASE /\ proc'[p].pc = IF base = Absent THEN "checking" ELSE "copying"
             /\ base # Broken /\ proc'[p].task = proc[p].task
             /\ proc'[p].stage = WithDocument(proc[p].existing, proc[p].task)
    <2>1. PICK old, d, new : old = proc[p].existing /\ d = proc[p].task /\ new = WithDocument(old, d)
      OBVIOUS
    <2>2. new \in Generations /\ Stored(d) \in new /\ \A e \in old : e.id # d.id => e \in new
      BY <1>1, <1>2, <2>1, WithDocumentType
    <2>3. CoversOthers(new, d.id)
      <3> SUFFICES ASSUME NEW i \in Ids \ {d.id}, kept[i] # {} PROVE new \cap kept[i] # {}
        BY DEF CoversOthers
      <3>1. PICK e \in old : e \in kept[i]
        BY <1>1, <2>1 DEF Covers
      <3>2. e.id = i
        BY <1>1, <3>1 DEF KeptNamed
      <3> QED BY <2>2, <3>1, <3>2
    <2>4. base = Absent => Covers(recovery)
      BY <1>1 DEF Surviving, Whole
    <2>5. Safe(p)'
      BY <1>2, <1>4, <2>1, <2>2, <2>3, <2>4 DEF Safe, CoversOthers, Covers
    <2>6. proc'[p].pc \in CriticalSection
      BY <1>4 DEF CriticalSection, Writing
    <2> QED BY <1>1, <1>2, <2>5, <2>6, QuietStep
  <1> QED BY <1>2, <1>3, <1>4

LEMMA CopySafe == ASSUME PromotionInv, Types', NEW p \in Procs, CopyPrimary(p) PROVE PromotionInv'
  <1>1. /\ Types /\ Covers(Surviving) /\ proc[p].pc \in CriticalSection
        /\ proc[p].stage \in Generations /\ Stored(proc[p].task) \in proc[p].stage
        /\ CoversOthers(proc[p].stage, proc[p].task.id)
    BY DEF PromotionInv, CopyPrimary, At, CriticalSection, Writing, Safe
  <1>2. /\ Moves(p) /\ UNCHANGED <<base, recovery, lock, kept, trusted>>
        /\ \/ proc'[p].pc = "releasing"
           \/ /\ proc'[p].pc = "dropping" /\ Whole(base) /\ proc'[p].candidate = base /\ base \in Generations
              /\ proc'[p].stage = proc[p].stage /\ proc'[p].task = proc[p].task
    BY <1>1, CopyMoves
  <1>3. Safe(p)' /\ proc'[p].pc \in CriticalSection
    BY <1>1, <1>2 DEF Safe, CriticalSection, Writing, Covers, CoversOthers, Surviving
  <1> QED BY <1>1, <1>2, <1>3, QuietStep

LEMMA DropSafe == ASSUME PromotionInv, Types', NEW p \in Procs, DropRecovery(p) PROVE PromotionInv'
  <1>1. /\ Types /\ Covers(Surviving) /\ proc[p].pc \in CriticalSection /\ Whole(base)
        /\ proc[p].stage \in Generations /\ Stored(proc[p].task) \in proc[p].stage
        /\ CoversOthers(proc[p].stage, proc[p].task.id) /\ Covers(proc[p].candidate)
    BY DEF PromotionInv, DropRecovery, At, CriticalSection, Writing, Safe
  <1>2. /\ Moves(p) /\ UNCHANGED <<base, lock, kept, trusted>> /\ recovery' \in Files
        /\ proc'[p].pc \in {"dropping", "installing"} /\ proc'[p].stage = proc[p].stage
        /\ proc'[p].task = proc[p].task /\ proc'[p].candidate = proc[p].candidate
    BY <1>1, DropMoves
  <1>3. Safe(p)' /\ proc'[p].pc \in CriticalSection
    BY <1>1, <1>2 DEF Safe, CriticalSection, Writing, Covers, CoversOthers, Whole
  <1>4. KeptNamed' /\ Covers(Surviving)'
    BY <1>1, <1>2 DEF PromotionInv, KeptNamed, Covers, Surviving, Whole
  <1> QED BY <1>1, <1>2, <1>3, <1>4, CriticalStep

LEMMA InstallSafe == ASSUME PromotionInv, Types', NEW p \in Procs, InstallRecovery(p) PROVE PromotionInv'
  <1>1. /\ Types /\ Covers(Surviving) /\ proc[p].pc \in CriticalSection /\ Whole(base)
        /\ proc[p].stage \in Generations /\ Stored(proc[p].task) \in proc[p].stage
        /\ CoversOthers(proc[p].stage, proc[p].task.id) /\ Covers(proc[p].candidate)
    BY DEF PromotionInv, InstallRecovery, At, CriticalSection, Writing, Safe
  <1>2. /\ Moves(p) /\ UNCHANGED <<base, lock, kept, trusted>> /\ recovery' \in Files
        /\ \/ proc'[p].pc = "releasing" /\ recovery' = recovery /\ proc[p].candidate = None
           \/ /\ proc'[p].pc = "checking" /\ recovery' = proc[p].candidate /\ recovery' \in Generations
              /\ proc'[p].stage = proc[p].stage /\ proc'[p].task = proc[p].task
    BY <1>1, InstallMoves
  <1>3. Safe(p)' /\ proc'[p].pc \in CriticalSection
    BY <1>1, <1>2 DEF Safe, CriticalSection, Writing, Covers, CoversOthers, Whole
  <1>4. KeptNamed' /\ Covers(Surviving)'
    BY <1>1, <1>2 DEF PromotionInv, KeptNamed, Covers, Surviving, Whole
  <1> QED BY <1>1, <1>2, <1>3, <1>4, CriticalStep

LEMMA CheckSafe == ASSUME PromotionInv, Types', NEW p \in Procs, CheckFingerprint(p) PROVE PromotionInv'
  <1>1. /\ Types /\ proc[p].pc \in CriticalSection
        /\ proc[p].stage \in Generations /\ Stored(proc[p].task) \in proc[p].stage
        /\ CoversOthers(proc[p].stage, proc[p].task.id) /\ Covers(recovery)
    BY DEF PromotionInv, CheckFingerprint, At, CriticalSection, Writing, Safe
  <1>2. /\ Moves(p) /\ UNCHANGED <<base, recovery, lock, kept, trusted>>
        /\ \/ proc'[p].pc = "releasing"
           \/ /\ proc'[p].pc = "removing" /\ proc'[p].stage = proc[p].stage
              /\ proc'[p].task = proc[p].task
    BY <1>1, CheckMoves
  <1>3. Safe(p)' /\ proc'[p].pc \in CriticalSection
    BY <1>1, <1>2 DEF Safe, CriticalSection, Writing, Covers, CoversOthers
  <1> QED BY <1>1, <1>2, <1>3, QuietStep

LEMMA RemoveSafe == ASSUME PromotionInv, Types', NEW p \in Procs, RemovePrimary(p) PROVE PromotionInv'
  <1>1. /\ Types /\ proc[p].pc \in CriticalSection
        /\ proc[p].stage \in Generations /\ Stored(proc[p].task) \in proc[p].stage
        /\ CoversOthers(proc[p].stage, proc[p].task.id) /\ Covers(recovery)
    BY DEF PromotionInv, RemovePrimary, At, CriticalSection, Writing, Safe
  <1>2. /\ Moves(p) /\ UNCHANGED <<recovery, lock, kept, trusted>> /\ base' \in {Absent, Broken}
        /\ proc'[p].pc \in {"removing", "publishing"}
        /\ proc'[p].stage = proc[p].stage /\ proc'[p].task = proc[p].task
    BY <1>1, RemoveMoves
  <1>3. Safe(p)' /\ proc'[p].pc \in CriticalSection
    BY <1>1, <1>2 DEF Safe, CriticalSection, Writing, Covers, CoversOthers
  <1>4. KeptNamed' /\ Covers(Surviving)'
    BY <1>1, <1>2 DEF PromotionInv, KeptNamed, Covers, Surviving, Whole
  <1> QED BY <1>1, <1>2, <1>3, <1>4, CriticalStep

\* The generation that is put in place has the promoted document, and what it
\* replaces is still the recovery copy.
LEMMA PublishSafe == ASSUME PromotionInv, Types', NEW p \in Procs, PublishStage(p) PROVE PromotionInv'
  <1>1. /\ Types /\ proc[p].pc \in CriticalSection /\ proc[p].task \in Documents
        /\ proc[p].stage \in Generations /\ Stored(proc[p].task) \in proc[p].stage
        /\ CoversOthers(proc[p].stage, proc[p].task.id) /\ Covers(recovery) /\ KeptNamed /\ Covers(Surviving)
    BY DEF PromotionInv, PublishStage, At, CriticalSection, Writing, Safe, Types, RowsOK, RowOK
  <1>2. /\ Moves(p) /\ UNCHANGED <<recovery, lock, trusted>>
        /\ proc'[p].stage = proc[p].stage /\ proc'[p].task = proc[p].task
        /\ \/ proc'[p].pc = "rollingback" /\ UNCHANGED <<base, kept>>
           \/ /\ proc'[p].pc = "published" /\ base' = proc[p].stage /\ base' \in Generations
              /\ \A i \in Ids : kept'[i] = IF i = proc[p].task.id /\ kept[i] # {}
                                          THEN kept[i] \cup {Stored(proc[p].task)} ELSE kept[i]
    BY <1>1, PublishMoves
  <1>3. CASE proc'[p].pc = "rollingback" /\ UNCHANGED <<base, kept>>
    BY <1>1, <1>2, <1>3, QuietStep DEF Safe, CriticalSection, Writing, Covers
  <1>4. CASE /\ proc'[p].pc = "published" /\ base' = proc[p].stage /\ base' \in Generations
             /\ \A i \in Ids : kept'[i] = IF i = proc[p].task.id /\ kept[i] # {}
                                         THEN kept[i] \cup {Stored(proc[p].task)} ELSE kept[i]
    <2>1. PICK d, id, g : d = Stored(proc[p].task) /\ id = proc[p].task.id /\ g = proc[p].stage
      OBVIOUS
    <2>2. d.id = id /\ d \in g /\ base' = g /\ g \in Generations
      BY <1>1, <1>4, <2>1, StoredFields
    <2>3. \A i \in Ids : kept'[i] = IF i = id /\ kept[i] # {} THEN kept[i] \cup {d} ELSE kept[i]
      BY <1>4, <2>1
    <2>4. KeptNamed'
      BY <1>1, <2>2, <2>3 DEF KeptNamed
    <2>5. Whole(g)
      BY <2>2, KnowledgeAssumption DEF Whole
    <2>6. Covers(Surviving)'
      <3>1. Surviving' = g
        BY <2>2, <2>5 DEF Surviving, Whole
      <3>2. CoversOthers(g, id)
        BY <1>1, <2>1
      <3> QED BY <2>2, <2>3, <2>5, <3>1, <3>2 DEF Covers, CoversOthers, Whole
    <2>7. Covers(recovery)'
      BY <1>1, <1>2, <2>3 DEF Covers, Whole
    <2>8. Safe(p)' /\ proc'[p].pc \in CriticalSection
      BY <1>1, <1>2, <1>4, <2>7 DEF Safe, CriticalSection, Writing
    <2> QED BY <1>1, <1>2, <2>4, <2>6, <2>8, CriticalStep
  <1> QED BY <1>2, <1>3, <1>4

LEMMA ReadBackSafe == ASSUME PromotionInv, Types', NEW p \in Procs, ReadBack(p) PROVE PromotionInv'
  <1>1. /\ Types /\ proc[p].pc \in CriticalSection /\ Stored(proc[p].task) \in proc[p].stage
        /\ KeptNamed /\ Covers(Surviving)
    BY DEF PromotionInv, ReadBack, At, CriticalSection, Writing, Safe
  <1>2. /\ Moves(p) /\ UNCHANGED <<base, recovery, lock, trusted>> /\ proc'[p].pc = "releasing"
        /\ \/ kept' = kept
           \/ /\ Whole(base) /\ base = proc[p].stage /\ proc[p].task \in Documents
              /\ \A i \in Ids : kept'[i] = IF i = proc[p].task.id THEN {Stored(proc[p].task)} ELSE kept[i]
    BY <1>1, ReadBackMoves
  <1>3. Safe(p)' /\ proc'[p].pc \in CriticalSection
    BY <1>2 DEF Safe, CriticalSection, Writing
  <1>4. CASE kept' = kept
    BY <1>1, <1>2, <1>3, <1>4, QuietStep
  <1>5. CASE /\ Whole(base) /\ base = proc[p].stage /\ proc[p].task \in Documents
             /\ \A i \in Ids : kept'[i] = IF i = proc[p].task.id THEN {Stored(proc[p].task)} ELSE kept[i]
    <2>1. PICK d, id : d = Stored(proc[p].task) /\ id = proc[p].task.id
      OBVIOUS
    <2>2. d.id = id /\ d \in base
      BY <1>1, <1>5, <2>1, StoredFields
    <2>3. \A i \in Ids : kept'[i] = IF i = id THEN {d} ELSE kept[i]
      BY <1>5, <2>1
    <2>4. KeptNamed' /\ Covers(Surviving)'
      BY <1>1, <1>2, <1>5, <2>2, <2>3 DEF KeptNamed, Covers, Surviving, Whole
    <2> QED BY <1>1, <1>2, <1>3, <2>4, CriticalStep
  <1> QED BY <1>2, <1>4, <1>5

LEMMA FailureSafe ==
    ASSUME PromotionInv, Types', NEW p \in Procs, PublishFails(p) \/ ReadBackFails(p) PROVE PromotionInv'
  <1>1. Types /\ proc[p].pc \in CriticalSection /\ Covers(recovery)
        /\ proc[p].stage \in Generations /\ Stored(proc[p].task) \in proc[p].stage
    BY DEF PromotionInv, PublishFails, ReadBackFails, At, CriticalSection, Writing, Safe
  <1>2. /\ Moves(p) /\ UNCHANGED <<base, recovery, lock, kept, trusted>>
        /\ \/ proc'[p].pc = "releasing"
           \/ proc'[p].pc = "rollingback"
           \/ /\ proc'[p].pc = "withdrawing" /\ proc[p].pc = "published"
              /\ proc'[p].stage = proc[p].stage /\ proc'[p].task = proc[p].task
    BY <1>1, FailureMoves
  <1>3. Safe(p)' /\ proc'[p].pc \in CriticalSection
    BY <1>1, <1>2 DEF Safe, CriticalSection, Writing, Covers
  <1> QED BY <1>1, <1>2, <1>3, QuietStep

LEMMA WithdrawSafe == ASSUME PromotionInv, Types', NEW p \in Procs, Withdraw(p) PROVE PromotionInv'
  <1>1. Types /\ proc[p].pc \in CriticalSection /\ Covers(recovery)
        /\ proc[p].stage \in Generations /\ Stored(proc[p].task) \in proc[p].stage
    BY DEF PromotionInv, Withdraw, At, CriticalSection, Writing, Safe
  <1>2. /\ Moves(p) /\ UNCHANGED <<recovery, lock, kept, trusted>> /\ base' \in {Absent, Broken}
        /\ proc'[p].pc \in {"withdrawing", "rollingback"}
        /\ proc'[p].stage = proc[p].stage /\ proc'[p].task = proc[p].task
    BY <1>1, WithdrawMoves
  <1>3. Safe(p)' /\ proc'[p].pc \in CriticalSection
    BY <1>1, <1>2 DEF Safe, CriticalSection, Writing, Covers
  <1>4. KeptNamed' /\ Covers(Surviving)'
    BY <1>1, <1>2 DEF PromotionInv, KeptNamed, Covers, Surviving, Whole
  <1> QED BY <1>1, <1>2, <1>3, <1>4, CriticalStep

LEMMA RollBackSafe == ASSUME PromotionInv, Types', NEW p \in Procs, RollBack(p) PROVE PromotionInv'
  <1>1. Types /\ proc[p].pc \in CriticalSection /\ Covers(recovery) /\ Covers(Surviving)
    BY DEF PromotionInv, RollBack, At, CriticalSection, Writing, Safe
  <1>2. /\ Moves(p) /\ UNCHANGED <<recovery, lock, kept, trusted>>
        /\ proc'[p].pc = "releasing" /\ (base' = base \/ (base = Absent /\ Whole(recovery) /\ base' = recovery))
    BY <1>1, RollBackMoves
  <1>3. Safe(p)' /\ proc'[p].pc \in CriticalSection
    BY <1>2 DEF Safe, CriticalSection, Writing
  <1>4. KeptNamed' /\ Covers(Surviving)'
    BY <1>1, <1>2 DEF PromotionInv, KeptNamed, Covers, Surviving, Whole
  <1> QED BY <1>1, <1>2, <1>3, <1>4, CriticalStep

\* Whoever enters has removed what others staged; they hold no lock.
LEMMA CleanUpSafe == ASSUME PromotionInv, Types', NEW p \in Procs, CleanUp(p) PROVE PromotionInv'
  <1>1. /\ Types /\ proc[p].pc = "cleaning" /\ lock = p
        /\ \A q \in Procs \ {p} : proc[q].pc \notin CriticalSection
    BY DEF PromotionInv, CleanUp, At, Locking, CriticalSection
  <1>2. /\ \A q \in Procs : proc'[q].pc = IF q = p THEN "reading" ELSE proc[q].pc
        /\ UNCHANGED <<base, recovery, kept, trusted, lock>>
    BY <1>1, CleanUpTurns
  <1>3. Locking'
    <2>1. "cleaning" \in CriticalSection /\ "reading" \in CriticalSection
      BY DEF CriticalSection
    <2> QED BY <1>1, <1>2, <2>1, LockFrame DEF PromotionInv
  <1>4. ASSUME NEW q \in Procs PROVE Safe(q)'
    <2>1. proc'[q].pc \notin Writing \cup {"restoring"}
      BY <1>1, <1>2 DEF CriticalSection, Writing
    <2> QED BY <2>1 DEF Safe, Writing
  <1>5. KeptNamed' /\ Covers(Surviving)'
    BY <1>2 DEF PromotionInv, KeptNamed, Covers, Surviving
  <1> QED BY <1>3, <1>4, <1>5 DEF PromotionInv

---------------------------------------------------------------------------
(* Asking for the lock, and giving it back. *)

LEMMA PcAfter ==
    ASSUME Types, NEW p \in Procs, NEW pc, Goes(p, pc)
    PROVE  proc'[p].pc = pc /\ \A q \in Procs \ {p} : proc'[q] = proc[q]
  <1>1. proc \in [Procs -> ProcRow]
    BY DEF Types, RowsOK
  <1> DEFINE row == [proc[p] EXCEPT !.pc = pc]
  <1>2. row.pc = pc
    BY <1>1 DEF ProcRow
  <1>3. proc' = [proc EXCEPT ![p] = row]
    BY DEF Goes
  <1> HIDE DEF row
  <1> QED BY <1>1, <1>2, <1>3

\* Outside the critical section nothing that is shared changes but the lock.
LEMMA OutsideStep ==
    ASSUME PromotionInv, NEW p \in Procs, Moves(p), Types', UNCHANGED <<base, recovery, kept>>,
           proc'[p].pc \notin Writing \cup {"restoring"}, Locking'
    PROVE  PromotionInv'
  <1>1. \A q \in Procs \ {p} : Safe(q)'
    BY OthersSafe DEF Moves, Turns
  <1>2. Safe(p)'
    BY DEF Safe, Writing
  <1>3. KeptNamed' /\ Covers(Surviving)'
    BY DEF PromotionInv, KeptNamed, Covers, Surviving
  <1> QED BY <1>1, <1>2, <1>3 DEF PromotionInv

\* A lock that is taken over was the lock of the dead: there is nobody else.
AtMostTwo == \A a, b, c \in Procs : a = b \/ b = c \/ a = c

LEMMA AcquireLocking ==
    ASSUME PromotionInv, NEW p \in Procs, RenameCandidate(p)
    PROVE  Locking' /\ proc'[p].pc \notin Writing \cup {"restoring"}
  <1>1. Types /\ Locking /\ At(p, "acquiring")
    BY DEF PromotionInv, RenameCandidate
  <1>2. CASE Free(lock)
    <2>1. \A q \in Procs : proc[q].pc \notin CriticalSection
      BY <1>1, <1>2, KnowledgeAssumption DEF Locking, Free
    <2>2. lock' = p /\ Goes(p, "cleaning")
      BY <1>2 DEF RenameCandidate
    <2>3. proc'[p].pc = "cleaning" /\ \A q \in Procs \ {p} : proc'[q] = proc[q]
      BY <1>1, <2>2, PcAfter
    <2>4. SomeoneDead => SomeoneDead'
      BY <1>1, <2>3 DEF SomeoneDead, Alive, At
    <2>5. lock' # Emptied
      BY <2>2, KnowledgeAssumption
    <2> QED BY <1>1, <2>1, <2>2, <2>3, <2>4, <2>5 DEF Locking, At, Writing
  <1>3. CASE ~Free(lock)
    <2>1. UNCHANGED lock /\ Goes(p, "recovering")
      BY <1>3 DEF RenameCandidate
    <2>2. proc'[p].pc = "recovering" /\ \A q \in Procs \ {p} : proc'[q] = proc[q]
      BY <1>1, <2>1, PcAfter
    <2>3. "recovering" \notin CriticalSection
      BY DEF CriticalSection, Writing
    <2> QED BY <1>1, <2>1, <2>2, <2>3, LockFrame DEF At, Writing
  <1> QED BY <1>2, <1>3

LEMMA RecoverLocking ==
    ASSUME PromotionInv, NEW p \in Procs, ReadOwner(p)
    PROVE  Locking' /\ proc'[p].pc \notin Writing \cup {"restoring"}
  <1>1. Types /\ Locking /\ At(p, "recovering") /\ UNCHANGED lock
    BY DEF PromotionInv, ReadOwner
  <1>2. CASE Stale
    <2>1. SomeoneDead
      <3>1. CASE lock = Emptied
        BY <1>1, <1>2, <3>1 DEF Stale, Locking
      <3>2. CASE lock # Emptied
        BY <1>1, <1>2, <3>2 DEF Stale, Types, SomeoneDead
      <3> QED BY <3>1, <3>2
    <2>2. Goes(p, "takingover")
      BY <1>2 DEF ReadOwner
    <2>3. proc'[p].pc = "takingover" /\ \A q \in Procs \ {p} : proc'[q] = proc[q]
      BY <1>1, <2>2, PcAfter
    <2>4. SomeoneDead'
      BY <1>1, <2>1, <2>3 DEF SomeoneDead, Alive, At
    <2>5. "takingover" \notin CriticalSection \cup Writing
      BY DEF CriticalSection, Writing
    <2> QED BY <1>1, <2>3, <2>4, <2>5 DEF Locking, At
  <1>3. CASE ~Stale
    <2>1. Goes(p, "contending")
      BY <1>3 DEF ReadOwner
    <2>2. proc'[p].pc = "contending" /\ \A q \in Procs \ {p} : proc'[q] = proc[q]
      BY <1>1, <2>1, PcAfter
    <2>3. "contending" \notin CriticalSection
      BY DEF CriticalSection, Writing
    <2> QED BY <1>1, <2>2, <2>3, LockFrame DEF At, Writing
  <1> QED BY <1>2, <1>3

LEMMA TakeOverLocking ==
    ASSUME AtMostTwo, PromotionInv, NEW p \in Procs, TakeOver(p)
    PROVE  Locking' /\ proc'[p].pc \notin Writing \cup {"restoring"}
  <1>1. Types /\ Locking /\ At(p, "takingover") /\ lock' = None /\ Goes(p, "contending")
    BY DEF PromotionInv, TakeOver
  <1>2. proc'[p].pc = "contending" /\ \A q \in Procs \ {p} : proc'[q] = proc[q]
    BY <1>1, PcAfter
  <1>3. PICK dead \in Procs : proc[dead].pc = "dead"
    BY <1>1 DEF Locking, SomeoneDead, Alive
  <1>4. \A q \in Procs : q = p \/ q = dead
    BY <1>1, <1>3 DEF AtMostTwo, At
  <1>5. {"contending", "dead"} \cap (CriticalSection \cup Writing \cup {"restoring", "takingover"}) = {}
    BY DEF CriticalSection, Writing
  <1>6. None # Emptied
    BY KnowledgeAssumption
  <1>7. \A q \in Procs : proc'[q].pc \in {"contending", "dead"}
    BY <1>2, <1>3, <1>4
  <1> QED BY <1>1, <1>2, <1>5, <1>6, <1>7 DEF Locking, At

LEMMA WaitLocking ==
    ASSUME PromotionInv, NEW p \in Procs, FindLock(p) \/ TimeOut(p)
    PROVE  Locking' /\ proc'[p].pc \notin Writing \cup {"restoring"}
  <1>1. Types /\ Locking /\ At(p, "contending") /\ UNCHANGED lock
    BY DEF PromotionInv, FindLock, TimeOut
  <1>2. proc'[p].pc \in {"acquiring", "recovering", "idle"} /\ \A q \in Procs \ {p} : proc'[q] = proc[q]
    <2>1. CASE TimeOut(p)
      <3>1. Idle.pc = "idle"
        BY DEF Idle
      <3> QED BY <1>1, <2>1, <3>1 DEF TimeOut, Types, RowsOK
    <2>2. ASSUME NEW pc \in {"acquiring", "recovering"}, Goes(p, pc)
          PROVE  proc'[p].pc \in {"acquiring", "recovering"} /\ \A q \in Procs \ {p} : proc'[q] = proc[q]
      BY <1>1, <2>2, PcAfter
    <2> QED BY <2>1, <2>2 DEF FindLock
  <1>3. {"acquiring", "recovering", "idle"} \cap (CriticalSection \cup Writing \cup {"restoring", "takingover"}) = {}
    BY DEF CriticalSection, Writing
  <1>4. Locking'
    BY <1>1, <1>2, <1>3, LockFrame DEF At
  <1> QED BY <1>2, <1>3, <1>4

LEMMA ReleaseLocking ==
    ASSUME PromotionInv, NEW p \in Procs, ReleaseOwner(p) \/ ReleaseDirectory(p)
    PROVE  Locking' /\ proc'[p].pc \notin Writing \cup {"restoring"}
  <1>1. Types /\ Locking
    BY DEF PromotionInv
  <1>2. CASE ReleaseOwner(p)
    <2>1. At(p, "releasing") /\ lock = p
      BY <1>1, <1>2 DEF ReleaseOwner, Locking, At, CriticalSection
    <2>2. lock' = Emptied /\ Goes(p, "released")
      BY <1>2, <2>1 DEF ReleaseOwner
    <2>3. proc'[p].pc = "released" /\ \A q \in Procs \ {p} : proc'[q] = proc[q]
      BY <1>1, <2>2, PcAfter
    <2>4. SomeoneDead => SomeoneDead'
      BY <2>1, <2>3 DEF SomeoneDead, Alive, At
    <2>5. "released" \notin CriticalSection \cup Writing
      BY DEF CriticalSection, Writing
    <2> QED BY <1>1, <2>1, <2>2, <2>3, <2>4, <2>5 DEF Locking, At
  <1>3. CASE ReleaseDirectory(p)
    <2>1. At(p, "released") /\ Leave(p) /\ lock' = IF lock = Emptied THEN None ELSE lock
      BY <1>3 DEF ReleaseDirectory
    <2>2. proc'[p].pc \in {"resolving", "idle"} /\ \A q \in Procs \ {p} : proc'[q] = proc[q]
      BY <1>1, <2>1, LeaveTo DEF Turns
    <2>3. SomeoneDead => SomeoneDead'
      BY <2>1, <2>2 DEF SomeoneDead, Alive, At
    <2>4. lock' # Emptied /\ \A q \in Procs : lock = q => lock' = q
      BY <2>1, KnowledgeAssumption
    <2>5. {"resolving", "idle"} \cap (CriticalSection \cup Writing \cup {"restoring", "takingover"}) = {}
      BY DEF CriticalSection, Writing
    <2> QED BY <1>1, <2>2, <2>3, <2>4, <2>5 DEF Locking, At
  <1> QED BY <1>2, <1>3

LEMMA LockSafe ==
    ASSUME AtMostTwo, PromotionInv, Types', NEW p \in Procs,
           \/ FindLock(p) \/ RenameCandidate(p) \/ ReadOwner(p) \/ TakeOver(p) \/ TimeOut(p)
           \/ ReleaseOwner(p) \/ ReleaseDirectory(p)
    PROVE  PromotionInv'
  <1>1. Types
    BY DEF PromotionInv
  <1>2. Moves(p) /\ UNCHANGED <<base, recovery, kept, trusted>>
    BY <1>1, LockMoves
  <1>3. Locking' /\ proc'[p].pc \notin Writing \cup {"restoring"}
    BY AcquireLocking, RecoverLocking, TakeOverLocking, WaitLocking, ReleaseLocking
  <1> QED BY <1>2, <1>3, OutsideStep

\* Requests that begin, activations that end, and deaths.
LEMMA RequestSafe ==
    ASSUME PromotionInv, Types', NEW p \in Procs,
           \/ Activate(p) \/ Die(p) \/ ResolveCommit(p) \/ PublishSnapshot(p)
           \/ \E d \in Documents : Promote(p, d)
    PROVE  PromotionInv'
  <1>1. Types /\ Locking
    BY DEF PromotionInv
  <1>2. /\ Moves(p) /\ UNCHANGED <<base, recovery, lock, kept, trusted>>
        /\ proc'[p].pc \in {"contending", "idle", "compiled", "dead"}
    BY <1>1, BeginMoves, ActivationMoves
  <1>3. {"contending", "idle", "compiled", "dead"} \cap (CriticalSection \cup Writing \cup {"restoring", "takingover"}) = {}
    BY DEF CriticalSection, Writing
  <1>4. proc[p].pc # "dead" /\ (proc[p].pc = "released" => proc'[p].pc = "dead")
    <2>1. CASE Die(p)
      <3>1. Goes(p, "dead") /\ proc[p].pc # "dead"
        BY <2>1 DEF Die, Alive
      <3> QED BY <1>1, <3>1, PcAfter
    <2>2. CASE ~Die(p)
      BY <2>2 DEF Activate, ResolveCommit, PublishSnapshot, Promote, At
    <2> QED BY <2>1, <2>2
  <1>5. Locking'
    <2>1. \A q \in Procs \ {p} : proc'[q].pc = proc[q].pc
      BY <1>2 DEF Moves, Turns
    <2> QED BY <1>1, <1>2, <1>3, <1>4, <2>1, LockFrame
  <1> QED BY <1>2, <1>3, <1>5, OutsideStep

\* Others edit the working tree, and what was promoted is theirs to keep.
LEMMA EditSafe == ASSUME PromotionInv, Types', NEW g \in Edits, Edit(g) PROVE PromotionInv'
  <1>1. UNCHANGED <<recovery, lock, proc, trusted>> /\ base' = g /\ kept' = [i \in Ids |-> {}]
    BY DEF Edit
  <1>2. g \in Generations /\ Whole(g)
    <2>1. g \in Generations
      BY DEF Generations, Known
    <2> QED BY <2>1, WholeGenerations DEF Files
  <1>3. \A i \in Ids : kept'[i] = {}
    BY <1>1
  <1>4. Locking' /\ KeptNamed' /\ Covers(Surviving)'
    BY <1>1, <1>3 DEF PromotionInv, Locking, At, SomeoneDead, Alive, KeptNamed, Covers
  <1>5. ASSUME NEW p \in Procs PROVE Safe(p)'
    <2>1. Safe(p)
      BY DEF PromotionInv
    <2> QED BY <1>1, <1>2, <1>3, <2>1 DEF Safe, Covers, CoversOthers
  <1> QED BY <1>4, <1>5 DEF PromotionInv

LEMMA PromotionInvStep ==
    ASSUME AtMostTwo, PromotionInv, [KnowledgeNext]_vars PROVE PromotionInv'
  <1>1. Types'
    BY TypesStep DEF PromotionInv
  <1>2. ASSUME NEW p \in Procs, Step(p) \/ Activate(p) \/ Die(p) \/ \E d \in Documents : Promote(p, d)
        PROVE  PromotionInv'
    <2>1. CASE \/ FindLock(p) \/ RenameCandidate(p) \/ ReadOwner(p) \/ TakeOver(p) \/ TimeOut(p)
               \/ ReleaseOwner(p) \/ ReleaseDirectory(p)
      BY <1>1, <2>1, LockSafe
    <2>2. CASE Activate(p) \/ Die(p) \/ ResolveCommit(p) \/ PublishSnapshot(p) \/ \E d \in Documents : Promote(p, d)
      BY <1>1, <2>2, RequestSafe
    <2>3. CASE CleanUp(p) \/ ReadGeneration(p) \/ Restore(p) \/ Stage(p) \/ CopyPrimary(p) \/ DropRecovery(p) \/ InstallRecovery(p)
      BY <1>1, <2>3, CleanUpSafe, ReadSafe, RestoreSafe, StageSafe, CopySafe, DropSafe, InstallSafe
    <2>4. CASE \/ CheckFingerprint(p) \/ RemovePrimary(p) \/ PublishStage(p) \/ ReadBack(p)
               \/ PublishFails(p) \/ ReadBackFails(p) \/ Withdraw(p) \/ RollBack(p)
      BY <1>1, <2>4, CheckSafe, RemoveSafe, PublishSafe, ReadBackSafe, FailureSafe, WithdrawSafe, RollBackSafe
    <2> QED BY <1>2, <2>1, <2>2, <2>3, <2>4 DEF Step
  <1>3. ASSUME NEW g \in Edits, Edit(g) PROVE PromotionInv'
    BY <1>1, <1>3, EditSafe
  <1>4. CASE Merge \/ UNCHANGED vars
    <2>1. UNCHANGED <<base, recovery, lock, proc, kept>>
      BY <1>4 DEF Merge, vars, tree
    <2> QED BY <1>1, <2>1 DEF PromotionInv, Locking, At, SomeoneDead, Alive, KeptNamed, Covers, CoversOthers, Surviving, Safe
  <1> QED BY <1>2, <1>3, <1>4 DEF KnowledgeNext

LEMMA PromotionInvInit == ASSUME KnowledgeInit PROVE PromotionInv
  <1>1. Types
    BY TypesInit
  <1>2. lock = None /\ (\A p \in Procs : proc[p].pc = "idle") /\ \A i \in Ids : kept[i] = {}
    BY DEF KnowledgeInit, Idle
  <1>3. "idle" \notin CriticalSection \cup Writing
    BY DEF CriticalSection, Writing
  <1>4. Locking
    BY <1>2, <1>3, KnowledgeAssumption DEF Locking, At
  <1>5. KeptNamed /\ Covers(Surviving) /\ \A p \in Procs : Safe(p)
    BY <1>2, <1>3 DEF KeptNamed, Covers, Safe, Writing
  <1> QED BY <1>1, <1>4, <1>5 DEF PromotionInv

\* writeSharedKnowledgeUnlocked(), replaceRecovery() and withRepositoryKnowledgeLock():
\* whatever two processes promote, wherever they fail or die, and whoever takes the
\* lock over, the document promoted last under an identity is in the working tree or
\* in the recovery copy until others edit the working tree.
THEOREM PromotionsStayKept ==
    ASSUME AtMostTwo
    PROVE  KnowledgeSpec => []PromotionsAreKept
  <1>1. KnowledgeInit => PromotionInv
    BY PromotionInvInit
  <1>2. PromotionInv /\ [KnowledgeNext]_vars => PromotionInv'
    BY PromotionInvStep
  <1>3. PromotionInv => PromotionsAreKept
    BY DEF PromotionInv, Covers, Surviving, PromotionsAreKept
  <1> QED BY <1>1, <1>2, <1>3, PTL DEF KnowledgeSpec
=============================================================================
