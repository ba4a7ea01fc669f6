SPECIFICATION Spec
CONSTANTS
  Bits = 3
  MaxBytes = 3
  PieceLen = 2
  MaxLen = 4
INVARIANTS StaysInBounds DecodesWhatItSays RoundTrips LengthIsExact
CHECK_DEADLOCK FALSE
