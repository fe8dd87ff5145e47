\* Three processes on one cache, a crash, damage, and a host that comes and goes.
CONSTANTS
  current = current
  last = last
  Procs = {p1, p2, p3}
  Programs = {"ladder", "script"}
  Contents = {current, last}
  Hosts <- SomeHosts
  Copies <- SomeCopies
  MaxCalls = 3
  MaxCrashes = 1
  MaxDamage = 1
SYMMETRY ProcSymmetry
SPECIFICATION Spec
INVARIANTS ProvisioningTypeOK EntryIsVouched SelfHeals
PROPERTY HandsOutVerified
