\* Every request by one process, and two processes that share the cache; sources and reports of two contents, two days.
CONSTANTS
  p1 = p1
  p2 = p2
  Procs = {p1, p2}
  NoProc = NoProc
  Workloads <- EachRequest
  Sources = {1, 2}
  Files <- SomeFiles
  Tags <- SomeTags
  Reports = {1, 2}
  NoReport = 0
  MaxFindings = 2
  MaxDay = 1
  MaxRuns = 1
  CurrencyWindow = 1
  PageSize = 2
SPECIFICATION Spec
INVARIANTS ToolchainTypeOK SuccessWasEarned
PROPERTIES ReplayOfSource EntriesSurvive VerdictOnlyAges
