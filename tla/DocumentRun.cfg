SPECIFICATION Spec
CONSTANTS
  Unset = Unset
  Null = Null
  Nowhere = Nowhere
  NoWait = NoWait
  Knobbed = {"labels"}
  Ranked = "environments"
  DefaultPolicy <- MCDefaultPolicy
  NestedDefault = "delete"
  Inside <- MCInside
  Hops = 4
  MaxRetries = 2
  MaxRetryWait = 60
  Kind <- MCKind
  SubGrant = "workflow"
  PageSize = 2
  Sections <- MCSections
  Cases <- MCCases
  Fields <- MCFields
  Values <- MCValues
  Mappings <- MCMappings
INVARIANTS
  DocumentTellsTheTruth
  FilesStayWhole
  SameContentSameBytes
  RenderedIsAccepted
  HighestDeclarationWins
CHECK_DEADLOCK FALSE
