SPECIFICATION Spec
CONSTANTS
  NanosPerSecond = 3
  MaxSeconds = 3
  MaxNanos = 7
INVARIANTS TypeOK
PROPERTIES NormalizesExactly TryNormalizeKeepsMoment IntoSystemTimeRoundTrips FromSystemTimeExact
