SPECIFICATION Spec
CONSTANTS
  MaxScalar = 1
  PlainDefault = 1
  LenStep = 3
  Fields <- ScalarsOnly
  Entries = {"trait"}
  Target = "builder"
  MaxTokens = 4
INVARIANTS DecodedEqualsEncoded
CHECK_DEADLOCK FALSE
