\* One ingest at a time of transcripts nobody is writing to, with blank lines.
CONSTANTS
  Paths = {path}
  Models = {model}
  NoModel = NoModel
  Tools = {"Bash"}
  NoTool = "none"
  Rates = {cheap, dear}
  NoRate = NoRate
  Rosters <- AnyRoster
  MaxLines = 2
  MaxDays = 2
  Procs = {q1}
  NoProc = NoProc
  Blanks = TRUE
  Quiet = TRUE
SPECIFICATION Spec
INVARIANT ToolIsTheTurns
