\* Two processes, two calls between them, one commit by others.
CONSTANTS
  p1 = p1
  p2 = p2
  main = main
  topic = topic
  extra = extra
  Procs = {p1, p2}
  Dir <- SomeDir
  Branches = {main, topic, extra}
  NoBranch = NoBranch
  Paths = {"w1", "w2", "w3"}
  Starts <- SomeStarts
  Conflicts <- SomeConflicts
  Workloads <- SomeWorkloads
  Changes = {"d"}
  MaxCalls = 2
  MaxForeign = 1
SPECIFICATION Spec
INVARIANT GitTypeOK
PROPERTIES RewritesAreBackedUp ResignOnlySigns CleanStaysClean
CHECK_DEADLOCK FALSE
