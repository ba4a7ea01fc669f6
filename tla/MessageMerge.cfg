SPECIFICATION Spec
CONSTANTS
  MaxScalar = 1
  PlainDefault = 1
  LenStep = 3
  Fields <- NoGroup
  Entries = {"inherent"}
  Target = "builder"
  MaxTokens = 4
INVARIANTS MergesOccurrences LookupsFindEntries RoundTrips LengthsAreExact
CHECK_DEADLOCK FALSE
