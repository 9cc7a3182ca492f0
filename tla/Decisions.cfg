SPECIFICATION Spec
CONSTANTS
  Ready = "ready"
  Working = "wip"
  Review = "in-review"
  Human = "needs-human"
  Routes <- MCRoutes
  RouteMode <- MCRouteMode
  DefaultMode = "Attended"
  WorkspaceOf <- MCWorkspaceOf
  GlobalPolicy = "HumanFinalApproval"
  Concurrency = 3
  LimitFloor = 1
  LimitFactor = 1
  Numbers = {1, 2, 3}
  LabelLists <- MCLabelLists
  AnySource = AnySource
  NoProtection = NoProtection
  NoRuleset = NoRuleset
  RequiredCheck = "eupho"
  EuphoApp = EuphoApp
  OtherApp = OtherApp
  Text = {"main", "docs", "deps", "docs/", "ready", "wip", "in-review", "needs-human", " "}
  Blank = " "
  Configs <- MCConfigs
  ConfiguredIssue <- MCConfiguredIssue
  Parent = ".."
  MaxLinks = 5
  Name = {"a", "b"}
  LastDay = 60000
INVARIANTS
  OneAnswerEach
  WithinConcurrency
  DeferredForLowerOnly
  OrderIndependent
  PlansAreStorable
  AutonomyIsOptedIn
  PassMeansStrong
  StrongPasses
  StateRootIsOutside
  StateRootIsOne
  RepositoryIsOne
  CalendarIsExact
\* A decision has no further step.
CHECK_DEADLOCK FALSE
