SPECIFICATION FairSpec
CONSTANTS
  Runs = {"r1", "r2"}
  Modes = {"always", "on-failure"}
  Declarations <- MCNoDeclarations
  Opened <- MCNoneOpened
  PageSize = 3
  MaxEdits = 1
  MaxFaults = 1
PROPERTY
  HealthCloses
  FailureShows
