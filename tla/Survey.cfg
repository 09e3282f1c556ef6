SPECIFICATION Spec
CONSTANTS
  NumStages = 6
  PredicateStage = 3
  Invariants <- MCInvariants
  Absent = Absent
  Nil = Nil
  CaseIds <- MCCaseIds
  Surveys <- MCSurveys
  Rulesets <- Registry
  Cases <- Surveyed
  EmitUnder <- Emit
  DigestUnder <- DigestOf
  Compose <- NFC
  Double  <- AsDouble
INVARIANTS
  TypeOK
  DivergencesPreserved
  EarliestIsRoot
  ConvergedIsNoDifference
  ToolsAgree
CHECK_DEADLOCK FALSE
