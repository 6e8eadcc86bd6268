SPECIFICATION MCSpec
CONSTANTS
  everywhere = everywhere
  here = here
  normal = normal
  careful = careful
  Targets = {everywhere, here}
  Global = everywhere
  Profiles = {normal, careful}
  Normal = normal
  None = None
  Capacity = 1
  Threshold = 2
  MaxGen = 2
  MaxDamage = 1
  byRule = byRule
  byAction = byAction
  use1 = use1
  use2 = use2
  old = old
  blank = blank
  Grants = {byRule, byAction}
  Uses = {use1, use2}
  Legacy = old
  Every = Every
  installer1 = installer1
  installer2 = installer2
  build1 = build1
  build2 = build2
  Installers = {installer1, installer2}
  Builds = {build1, build2}
  Configurations = {2, 3}
  MaxPlans = 2
  MaxEdits = 1
  MaxStops = 2
  ScopeRule <- ScopeRuleInstance
  From <- FromInstance
  Until <- UntilInstance
  OldLogs <- OldLogsInstance
  Rules = {1, 2}
  References = {{1, 2}}
  Times = {1}
  MaxRows = 6
INVARIANTS OwnRulesOnly BreakerIsSettled RefreshIsSeen QualificationIsExact PagesAreOneMoment
  OverridesAreNarrow SettingsAreDetermined SessionsAreReported ReviewsAreGrounded ApplicationsResume
PROPERTY EditsSurvive
SYMMETRY MCSymmetry
CHECK_DEADLOCK FALSE
