\* Two processes, of builds with different rosters, ingest two transcripts that
\* grow meanwhile, over two days.
CONSTANTS
  Paths = {path1, path2}
  Models = {model}
  NoModel = NoModel
  Tools = {}
  NoTool = "none"
  Rates = {cheap, dear}
  NoRate = NoRate
  Rosters <- AnyRoster
  MaxLines = 2
  MaxDays = 2
  Procs = {q1, q2}
  NoProc = NoProc
  Blanks = TRUE
  Quiet = FALSE
SPECIFICATION Spec
INVARIANTS CostTypeOK EveryTurnAccounted
PROPERTIES LedgerSpec PastRepriceStable
SYMMETRY ProcSymmetry
