CONSTANTS
  Nil = Nil
  Uncanonical = Uncanonical
  Unencodable = Unencodable
  Exception = Exception
  Invariants <- MCInvariants
  Temporal <- MCTemporal
  MinSeparation <- TwelveHours
  Cases <- MCCases
  NegativeControls <- MCControls
  Lineage <- MCLineage
  Adapters <- MCAdapters
  Live <- FlakyLive
  Answers <- MockAnswers
  MaxRuns = 2
SPECIFICATION FairSpec
INVARIANTS CasesInOrder Discriminates AliasesShown DoublesFindNothing
PROPERTY RunsEnd
CHECK_DEADLOCK FALSE
