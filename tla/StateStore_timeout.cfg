\* The limits stand as in the code: a lock file grows stale later than a waiter
\* times out.
CONSTANTS
  p1 = p1
  p2 = p2
  p3 = p3
  r1 = r1
  c1 = c1
  c2 = c2
  NoProc = NoProc
  Procs = {p1, p2, p3}
  Refs = {r1}
  Consumers = {c1, c2}
  Requests <- SharedRequests
  Known <- SameBuilds
  StaleAge = 3
  LockTimeout = 1
  MaxCrashes = 1
  Removable = TRUE
SPECIFICATION StoreSpec
PROPERTY NoTimeoutOnDeadHolder
SYMMETRY AnySymmetry
