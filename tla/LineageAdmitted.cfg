CONSTANTS
  Nil = Nil
  Uncanonical = Uncanonical
  Unencodable = Unencodable
  Elsewhere = Elsewhere
  Described = Described
  Invariants <- MCInvariants
  Temporal <- MCTemporal
  MinSeparation = 2
  States <- MCStates
  Failings <- MCFailings
  Artifacts <- NoArtifacts
  Irregular <- None
  FileHeld = FALSE
  MaxFiled = 3
SPECIFICATION Spec
INVARIANTS EntriesJustified StudySpan AncestorsSpaced AdmissionExact
CHECK_DEADLOCK FALSE
