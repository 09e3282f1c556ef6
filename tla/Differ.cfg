SPECIFICATION Spec
CONSTANTS
  Comparisons <- MCComparisons
  EmitUnder   <- Emit
  DigestUnder <- DigestOf
  Compose     <- NFC
  Double      <- AsDouble
  Nil         = Nil
INVARIANTS
  TextIsMeaning
  RereadsToItself
  GapsExplainAll
  NineCasesDiverge
  LostToEncoding
CHECK_DEADLOCK FALSE
