SPECIFICATION ExperienceSpec
CONSTANTS
  call = call
  answer = answer
  note1 = note1
  note2 = note2
  note3 = note3
  k1 = k1
  k2 = k2
  None = None
  Deliveries <- MCDeliveries
  OldEvents <- MCOld
  Operation <- MCOperation
  Relates <- MCRelates
  Artifacts <- MCArtifacts
  PageLimit = 1
  BackfillLimit = 1
  Lessons = {"lesson"}
  FactLessons = {"lesson"}
  Operations = {"operation"}
  Fitting = {"operation"}
  References = {"reference"}
  Watched = "lesson"
  MaxFacts = 5
  MaxChanges = 1
  MaxClock = 2
  Knowledge <- MCKnowledge
  Imports <- MCImports
  Actions = {"a", "b"}
  Results <- MCResults
  Updates <- MCUpdates
  MaxTime = 2
  Learned <- MCLearned
  Reviewed <- MCReviewed
  Revisions <- MCRevisions
  Witnesses <- MCWitnesses
  Standing <- MCStanding
  Targets = {"observed", "confirmed", "verified", "disputed"}
  BackfillBatch = 1
  MaxReviews = 3
INVARIANTS
  ClosedSessionsStayClosed
  AnnotationsAreGrounded
  NothingIsSkipped
  KnowledgeIsSound
  CandidatesAreSound
  OutcomesRestOnUse
  RelationsSurvivePages
  RepairsAreReal
PROPERTY IndexedIsAnalysed
CHECK_DEADLOCK FALSE
