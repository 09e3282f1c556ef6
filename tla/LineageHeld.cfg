CONSTANTS
  Nil = Nil
  Uncanonical = Uncanonical
  Unencodable = Unencodable
  Elsewhere = Elsewhere
  Described = Described
  Invariants <- MCInvariants
  Temporal <- MCTemporal
  MinSeparation = 2
  States <- HeldStates
  Failings <- MCFailings
  Artifacts <- NoArtifacts
  Irregular <- None
  FileHeld = TRUE
  MaxFiled = 3
SPECIFICATION Spec
INVARIANTS ReachesGenesis
CHECK_DEADLOCK FALSE
