\* Mutual exclusion, no lost update and refinement up to the lock's two lapses,
\* with crashes.
CONSTANTS
  p1 = p1
  p2 = p2
  p3 = p3
  r1 = r1
  c1 = c1
  c2 = c2
  NoProc = NoProc
  Procs = {p1, p2, p3}
  Refs = {r1}
  Consumers = {c1, c2}
  Requests <- SharedRequests
  Known <- OldAndNewBuilds
  StaleAge = 0
  LockTimeout = 0
  MaxCrashes = 1
  Removable = TRUE
SPECIFICATION StoreSpec
INVARIANTS StoreTypeOK HolderOwnsLock
PROPERTIES LostOnlyInLapse RegistryOnlyGrows RegistrySpec
SYMMETRY BuildSymmetry
