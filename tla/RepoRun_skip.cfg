SPECIFICATION Spec
CONSTANTS
  N = 2
  Items <- MCItems
  SectionOf <- MCSectionOf
  KindOf <- MCKindOf
  Tolerant <- MCTolerant
  Options <- MCWarn
  MaxRetries = 1
  MaxEdits = 0
  MaxFaults = 1
INVARIANT SkipWroteNothing
