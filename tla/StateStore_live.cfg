\* Progress although breakers race each other, holders overrun and a process
\* crashes.
CONSTANTS
  p1 = p1
  p2 = p2
  p3 = p3
  r1 = r1
  c1 = c1
  c2 = c2
  NoProc = NoProc
  Procs = {p1, p2, p3}
  Refs = {r1}
  Consumers = {c1, c2}
  Requests <- OneRequest
  Known <- SameBuilds
  StaleAge = 1
  LockTimeout = 0
  MaxCrashes = 1
  Removable = TRUE
SPECIFICATION FairStoreSpec
PROPERTIES CallReturns StaleLockBroken
