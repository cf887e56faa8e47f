SPECIFICATION Spec
CONSTANTS
  Slugs <- MCSlugs
  Self = "self"
  Actual = {"public", "internal"}
  Configs <- MCConfigs
  MaxChanges = 1
  MaxFaults = 2
CHECK_DEADLOCK FALSE
INVARIANT
  SecretsStaySecret
  ReportsOnlyWhereProven
  EveryTargetConcludes
  ReportsAreSettled
PROPERTY
  MasksComeFirst
