SPECIFICATION Spec
CONSTANTS
  Ready = "ready"
  Working = "wip"
  Review = "in-review"
  Human = "needs-human"
  Routes <- MCRoutes
  RouteMode <- MCRouteMode
  DefaultMode = "Attended"
  WorkspaceOf <- MCWorkspaceOf
  GlobalPolicy = "HumanFinalApproval"
  Concurrency = 2
  LimitFloor = 100
  LimitFactor = 4
  NoProcess = NoProcess
  NoSnapshot = NoSnapshot
  r1 = r1
  r2 = r2
  p1 = p1
  p2 = p2
  Process = {p1}
  Repo = {r1}
  RepoOf <- MCRepoOf
  NumberOfIssues = 1
  main = main
  next = next
  Branch = {main, next}
  DefaultBranch = main
  LocalPolicy = {TRUE, FALSE}
  MaxVersion = 1
  MaxTransfers = 0
INVARIANT
  TrustedBaseGovernsItself
PROPERTIES
  UnclaimedWhenListed
