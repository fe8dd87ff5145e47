\* The register through refused calls, failed writes of either file, crashes
\* between the two and restarts.
CONSTANTS
  Scores <- LowAndHigh
  Outcomes <- ClosedAndCarried
  Cycles <- TwoCycles
  MaxEntries = 2
  Absent = Absent
  MaxFaults = 2
SPECIFICATION Spec
INVARIANTS LedgerTypeOK AckedEntriesKept MirrorAgrees RollupAccountsForAll
PROPERTIES HandleFollowsAcks RegisterSpec
