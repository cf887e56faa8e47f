SPECIFICATION FairSpec
CONSTANTS
  Unset = Unset
  Off = Off
  Unverifiable <- MCUnverifiable
  Canonical <- MCCanonical
  Matches <- MCMatches
  Upper <- MCUpper
  Fold <- MCFold
  OrgTemplate <- MCOrgTemplate
  Permissions <- MCPermissions
  InvitationRoles <- MCInvitationRoles
  BypassMax = 2
  PatchName <- MCPatchName
  MaxPinned = 3
  NoTimer = 0
  FullRef <- MCFullRef
  RuleDefaults <- MCRuleDefaults
  Cases <- MCCases
INVARIANTS
  AppliedMeansReconciled
  PlanIsFeasible
  UndeclaredSpared
  SnapshotIsClean
PROPERTIES
  StaleWriteRefused
  Reconverges
