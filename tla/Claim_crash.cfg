SPECIFICATION Spec
CONSTANTS
  Threshold = 2
  MaxJournal = 8
  MaxCommits = 3
  MaxSequence = 4
  MaxCrashes = 3
  MaxFailures = 0
INVARIANT CrashLosesOnlyInFlight
