SPECIFICATION AlignmentSpec
CONSTANTS
  installer = installer
  build = build
  None = None
  Installers = {installer}
  Configurations = {2}
  Builds = {build}
  MaxPlans = 1
  MaxEdits = 0
  MaxStops = 1
INVARIANT RollbacksResume
CHECK_DEADLOCK FALSE
