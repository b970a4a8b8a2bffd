SPECIFICATION Spec
CONSTANTS
  Threshold = 2
  MaxJournal = 8
  MaxCommits = 4
  MaxSequence = 4
  MaxCrashes = 3
  MaxFailures = 2
INVARIANT TypeOK
INVARIANT RecoversAcknowledged
INVARIANT SequenceIsDurable
PROPERTY ImplementsCell
