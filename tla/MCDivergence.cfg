CONSTANTS
  NumStages = 6
  PredicateStage = 3
  Absent = Absent
  Nil = Nil
  Invariants <- MCInvariants
  Runs <- MCRuns
SPECIFICATION FairSpec
INVARIANTS TypeOK EvidenceIsCompared FailuresAgree
PROPERTIES LocatesTheBoundary Terminates
CHECK_DEADLOCK FALSE
