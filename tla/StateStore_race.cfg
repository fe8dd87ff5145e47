\* Two waiters may both find a crashed holder's lock file stale before either
\* removes it.
CONSTANTS
  p1 = p1
  p2 = p2
  p3 = p3
  r1 = r1
  c1 = c1
  c2 = c2
  NoProc = NoProc
  Procs = {p1, p2, p3}
  Refs = {r1}
  Consumers = {c1, c2}
  Requests <- SharedRequests
  Known <- SameBuilds
  StaleAge = 1
  LockTimeout = 0
  MaxCrashes = 1
  Removable = TRUE
SPECIFICATION StoreSpec
INVARIANT NoLostRegistration
SYMMETRY AnySymmetry
