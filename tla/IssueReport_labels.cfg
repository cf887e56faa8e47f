SPECIFICATION FairSpec
CONSTANTS
  Runs = {"r1"}
  Modes = {"always"}
  Declarations <- MCNoDeclarations
  Opened <- MCNoneOpened
  PageSize = 3
  MaxEdits = 2
  MaxFaults = 0
PROPERTY
  HumanLabelsKept
