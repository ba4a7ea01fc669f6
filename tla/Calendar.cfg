SPECIFICATION Spec
CONSTANTS
  NanosPerSecond = 8
  MaxSeconds = 23465032
  MaxNanos = 20
  SecondsPerMinute = 2
  MinutesPerHour = 2
  HoursPerDay = 2
  DigitBase = 2
  GroupDigits = 1
  FirstYear <- MCFirstYear
  LastYear = 10001
  Watched <- MCWatched
  SampleDays <- MCSampleDays
  SampleNanos <- MCSampleNanos
INVARIANTS YearsHaveTheirLength CalendarMatchesClock TextRoundTrips ParsesLocalTime OnlyCalendarDates
CHECK_DEADLOCK FALSE
