CONSTANTS
  MaxDetectorBits = 6
  Required <- MCRequired
  Inputs <- MCInputs
  CODE_DISTANCE = 3
  ROUNDS = 3
  Published <- MCPublished
  Places <- MCPlaces
  NotString = NotString
  NoArtifact = NoArtifact
  Nil = Nil
SPECIFICATION Spec
INVARIANTS TableIsComplete OutputIsTheTally NothingPartial ExtractedIsDecoded ExtractionIsCanonical
CHECK_DEADLOCK FALSE
