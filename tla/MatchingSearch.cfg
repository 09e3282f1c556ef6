CONSTANTS
  MaxDetectorBits = 20
  Nothing = Nothing
  Codes <- MCCodes
SPECIFICATION Spec
INVARIANTS NothingLost CorrectsFewFaults
CHECK_DEADLOCK FALSE
