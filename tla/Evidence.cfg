SPECIFICATION Spec
CONSTANTS
  Source = {a, b}
  Target = {t1, t2}
  Content <- MCContent
  NoLoad = none
  Unknown = unknown
  MaxSources = 2
  MaxReports = 3
  MaxSequence = 2
  MaxInstant = 2
  MaxVersion = 2
  MaxReopens = 2
SYMMETRY MCSymmetry
INVARIANT TypeOK
INVARIANT LoadIsNewest
INVARIANT ConflictIsReal
INVARIANT ReplaysStayRefused
