SPECIFICATION Spec
CONSTANTS
  Runs = {r1, r2}
  Modes = {"always", "on-failure"}
  Declarations <- MCDeclarations
  Opened <- MCOpened
  PageSize = 3
  MaxEdits = 1
  MaxFaults = 1
SYMMETRY MCSymmetry
PROPERTY
  DeliveredMirrorsRun
  PeoplesWorkIsKept
  NoNeedlessDuplicate
  MarkerSurvivesApply
