\* The mirror cannot be written after the JSON file was.
CONSTANTS
  Scores <- LowAndHigh
  Outcomes <- ClosedAndCarried
  Cycles <- TwoCycles
  MaxEntries = 2
  Absent = Absent
  MaxFaults = 2
SPECIFICATION Spec
INVARIANT AckedEntriesSurvive
