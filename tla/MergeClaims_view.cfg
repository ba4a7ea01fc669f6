SPECIFICATION Spec
CONSTANTS
  MaxScalar = 1
  PlainDefault = 0
  LenStep = 3
  Fields <- NoArenaData
  Entries = {"trait"}
  Target = "view"
  MaxTokens = 4
INVARIANTS MergesIntoSelf
CHECK_DEADLOCK FALSE
