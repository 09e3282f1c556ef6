SPECIFICATION Spec
CONSTANTS
  Groups <- MCGroups
  Harness = "harness"
  Fields <- MCFields
  ContractDigest = "contract_digest"
  MaxEdits = 1
INVARIANTS
  StaleOnlyByEdit
  FrozenMeansCollected
PROPERTIES
  FrozenFixturesStable
CHECK_DEADLOCK FALSE
