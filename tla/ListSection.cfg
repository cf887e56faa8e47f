SPECIFICATION FairSpec
CONSTANTS
  Names <- MCNames
  Vals <- MCVals
  Flags <- MCFlags
  Default = "on"
  Unset = "-"
  Lower <- MCLower
  Begins <- MCBegins
  Undeclarable = {"x"}
  Decls <- MCDecls
  Documents <- MCDocuments
  MaxRetries = 1
  MaxItems = 2
  MaxEdits = 1
  MaxFaults = 2
INVARIANTS
  AppliedMeansReconciled
  PlanIsFeasible
  UndeclaredFlagKeptUnbroken
PROPERTIES
  NeverWedges
  SparesUndeclared
  Reconverges
