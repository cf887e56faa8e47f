SPECIFICATION Spec
CONSTANTS
  Names <- MCNames
  Vals <- MCVals
  Flags <- MCFlags
  Default = "on"
  Unset = "-"
  Lower <- MCLower
  Begins <- MCBegins
  Undeclarable = {"x"}
  Decls <- MCKeys
  Documents <- MCRotation
  MaxRetries = 1
  MaxItems = 2
  MaxEdits = 0
  MaxFaults = 1
INVARIANT UndeclaredFlagKept
