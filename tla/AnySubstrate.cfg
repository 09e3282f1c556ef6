CONSTANTS
  Nil = Nil
  Uncanonical = Uncanonical
  Unencodable = Unencodable
  Exception = Exception
  Invariants <- MCInvariants
  Temporal <- MCTemporal
  MinSeparation <- TwelveHours
  Cases <- FewCases
  NegativeControls <- MCControls
  Lineage <- MCLineage
  Adapters <- AnyName
  Live <- AnyName
  Answers <- AnyAnswers
  MaxRuns = 1
SPECIFICATION Spec
INVARIANT AgreementIsAdmission
CHECK_DEADLOCK FALSE
