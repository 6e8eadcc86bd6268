SPECIFICATION KnowledgeSpec
CONSTANTS
  Procs = {p, q}
  Documents <- MCDocuments
  Edits <- MCEdits
  Operations <- MCOperations
  Profiles <- MCProfiles
  Repository = Repository
  Absent = Absent
  Broken = Broken
  Emptied = Emptied
  Global = Global
  None = None
  MaxEdits = 1
  MaxFaults = 1
INVARIANTS PromotionsAreKept EnforcementIsEarned
SYMMETRY MCSymmetry
CHECK_DEADLOCK FALSE
