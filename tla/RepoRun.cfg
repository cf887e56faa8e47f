SPECIFICATION FairSpec
CONSTANTS
  N = 2
  Items <- MCItems
  SectionOf <- MCSectionOf
  KindOf <- MCKindOf
  Tolerant <- MCTolerant
  Options <- MCOptions
  MaxRetries = 1
  MaxEdits = 1
  MaxFaults = 2
INVARIANTS
  PreflightBarrier
  SecretsMaskedFirst
  RowsTellTheTruth
  GreenMeansReconciled
  VerdictCoversRows
PROPERTIES
  WriteDiscipline
  ImplementsContract
  Reconverges
