CONSTANTS
  Nil = Nil
  Uncanonical = Uncanonical
  Unencodable = Unencodable
  Elsewhere = Elsewhere
  Described = Described
  Invariants <- MCInvariants
  Temporal <- MCTemporal
  MinSeparation = 2
  States <- TwoStates
  Failings <- VerdictFailings
  Artifacts <- MCArtifacts
  Irregular <- Spoilt
  FileHeld = TRUE
  MaxFiled = 1
SPECIFICATION Spec
INVARIANTS TypeOK AcceptedIsCoherent NeverVerified InputDescribed
CHECK_DEADLOCK FALSE
