SPECIFICATION Spec
CONSTANTS
  MaxMain = 4
  Kept = 1
  PushAttempts = 3
  ConfirmReads = 2
  AnchorAttempts = 2
  Cases <- StablePublishers
PROPERTY NoReleaseDisplacesANewer
CHECK_DEADLOCK FALSE
