------------------------------ MODULE Calendar ------------------------------
(***************************************************************************)
(* The civil calendar of defiant-types: DateTime::from(Timestamp),         *)
(* Timestamp::try_from(DateTime), the RFC 3339 text of a Timestamp and its *)
(* parser.  Both directions are musl's code, ported separately.            *)
(*                                                                         *)
(* Beside them runs a reference clock that knows no formula: it counts     *)
(* days from 1970-01-01 and turns the pages of a wall calendar.  It may    *)
(* skip a year it does not watch.  An operation is called at the date the  *)
(* clock shows, and its reply is compared with the clock.                  *)
(*                                                                         *)
(* Scaled: the lengths of a minute, an hour, a day and a second.  The      *)
(* constants of the code are whole numbers of days, and are kept as days.  *)
(***************************************************************************)
EXTENDS SecondsNanos, Sequences

CONSTANTS
  SecondsPerMinute, MinutesPerHour, HoursPerDay,  (* 60, 60, 24            *)
  DigitBase,    (* 10: a fraction is written with digits of this base      *)
  GroupDigits,  (* 3: digits of a group; a second has three groups         *)
  FirstYear, LastYear,  (* bound: the years the clock can show             *)
  Watched,      (* bound: the years whose days are all visited             *)
  SampleDays,   (* bound: the <<month, day>> at which operations are called *)
  SampleNanos   (* bound: the nanos of the values that are formatted       *)

SecondsPerHour == SecondsPerMinute * MinutesPerHour
SecondsPerDay  == SecondsPerHour * HoursPerDay
NanoDigits     == 3 * GroupDigits

ASSUME ClockAssumption ==
  /\ SecondsPerMinute \in Nat \ {0} /\ MinutesPerHour \in Nat \ {0} /\ HoursPerDay \in Nat \ {0}
  /\ SecondsPerDay \in Nat \ {0}
ASSUME DigitsAssumption ==
  /\ DigitBase \in Nat /\ DigitBase > 1 /\ GroupDigits \in Nat \ {0}
  /\ NanosPerSecond = DigitBase ^ NanoDigits
(* The law of powers, for the exponents in use: the provers know none. *)
ASSUME PowersAssumption ==
  /\ DigitBase ^ 0 = 1
  /\ \A k \in 0 .. NanoDigits : /\ DigitBase ^ k \in Nat \ {0}
                               /\ DigitBase ^ (k + 1) = DigitBase * DigitBase ^ k
ASSUME YearsAssumption  ==
  /\ FirstYear \in Int /\ LastYear \in Int /\ FirstYear <= 1970 /\ 1970 <= LastYear
  /\ Watched \subseteq FirstYear .. LastYear /\ SampleNanos \subseteq Nanos

VARIABLES
  day,     (* reference: days since 1970-01-01                             *)
  civil,   (* reference: the date of that day                              *)
  moment,  (* the Timestamp of the last operation                          *)
  text,    (* its text                                                     *)
  reply    (* which operation it was, and how it ended                     *)

vars == <<day, civil, moment, text, reply>>

TS == INSTANCE Timestamp WITH timestamp <- moment, system <- moment

-----------------------------------------------------------------------------
(* The reference: the Gregorian rule and the pages of a wall calendar *)

Gregorian(year)  == year % 4 = 0 /\ (year % 100 # 0 \/ year % 400 = 0)
YearLength(year) == IF Gregorian(year) THEN 366 ELSE 365

MonthLength(year, month) ==
  CASE month = 2                -> IF Gregorian(year) THEN 29 ELSE 28
    [] month \in {4, 6, 9, 11}  -> 30
    [] OTHER                    -> 31

NextDay(c) ==
  IF c.day < MonthLength(c.year, c.month) THEN [c EXCEPT !.day = c.day + 1]
  ELSE IF c.month < 12 THEN [c EXCEPT !.month = c.month + 1, !.day = 1]
  ELSE [year |-> c.year + 1, month |-> 1, day |-> 1]

NewYear(year) == [year |-> year, month |-> 1, day |-> 1]

-----------------------------------------------------------------------------
(* Integer helpers: Rust's / and % truncate *)

TruncDiv(a, b) == IF a >= 0 THEN a \div b ELSE -((-a) \div b)
TruncRem(a, b) == a - b * TruncDiv(a, b)

(* A division whose rest is made positive by hand. *)
RepairedDiv(a, b) == TruncDiv(a, b) - (IF TruncRem(a, b) < 0 THEN 1 ELSE 0)
RepairedRem(a, b) == TruncRem(a, b) + (IF TruncRem(a, b) < 0 THEN b ELSE 0)

-----------------------------------------------------------------------------
(* Calendar to seconds *)

(* year_to_seconds, 1901 to 2038: the leap days since 1968. *)
RecentYear(y) ==
  LET leap  == (y - 68) % 4 = 0
      leaps == ((y - 68) \div 4) - (IF leap THEN 1 ELSE 0)
  IN  [days |-> 365 * (y - 70) + leaps, leap |-> leap]

(* Mutant: the century is taken for a leap year. *)
CenturyYearLeap(rem) ==
  LET centuries == rem \div 100
      r         == rem - 100 * centuries
  IN  IF rem = 0 THEN [leap |-> TRUE, leaps |-> 0]
      ELSE IF r = 0 THEN [leap |-> TRUE, leaps |-> 24 * centuries]
      ELSE [leap |-> r % 4 = 0, leaps |-> (r \div 4) + 24 * centuries]

(* The place of a year in its cycle of 400, where 0 is the leap year 2000. *)
CenturyYear(rem) ==
  LET centuries == rem \div 100
      r         == rem - 100 * centuries
  IN  IF rem = 0 THEN [leap |-> TRUE, leaps |-> 0]
      ELSE IF r = 0 THEN [leap |-> FALSE, leaps |-> 24 * centuries]
      ELSE [leap |-> r % 4 = 0, leaps |-> (r \div 4) + 24 * centuries]

(* Any other year. *)
AnyYear(y) ==
  LET place == CenturyYear(RepairedRem(y - 100, 400))
      leaps == place.leaps + 97 * RepairedDiv(y - 100, 400) - (IF place.leap THEN 1 ELSE 0)
  IN  [days |-> 365 * (y - 100) + leaps + 10957 + 1, leap |-> place.leap]

(* year_to_seconds: when a year starts, in days since 1970, and whether it *)
(* is a leap year.  (The code answers in seconds, as an i128.)             *)
YearToDays(year) ==
  LET y == year - 1900
  IN  IF 1 <= y /\ y <= 138 THEN RecentYear(y) ELSE AnyYear(y)

DaysThroughMonth == <<0, 31, 59, 90, 120, 151, 181, 212, 243, 273, 304, 334>>

(* month_to_seconds *)
MonthToDays(month, leap) ==
  DaysThroughMonth[month] + (IF leap /\ month > 2 THEN 1 ELSE 0)

(* date_time_to_seconds *)
DateTimeToSeconds(t) ==
  LET start == YearToDays(t.year)
  IN  SecondsPerDay * (start.days + MonthToDays(t.month, start.leap) + t.day - 1)
        + SecondsPerHour * t.hour + SecondsPerMinute * t.minute + t.second

DaysInMonth(year, month) ==
  <<31, 28, 31, 30, 31, 30, 31, 31, 30, 31, 30, 31>>[month]
    + (IF YearToDays(year).leap /\ month = 2 THEN 1 ELSE 0)

-----------------------------------------------------------------------------
(* Seconds to calendar *)

(* The first day of each month of a year that starts in March. *)
FromMarch == <<0, 31, 61, 92, 122, 153, 184, 214, 245, 275, 306, 337, 366>>

(* The last of the cycles in a longer one may be a day longer. *)
Capped(cycles, limit) == IF cycles = limit THEN limit - 1 ELSE cycles

(* Mutant: the fourth century of a cycle ends a day early. *)
CyclesUncapped(days) ==
  LET qc == RepairedDiv(days, 146097)
      d1 == RepairedRem(days, 146097)
      c  == d1 \div 36524
      d2 == d1 - 36524 * c
      q  == Capped(d2 \div 1461, 25)
      d3 == d2 - 1461 * q
      y  == Capped(d3 \div 365, 4)
  IN  [years |-> y + 4 * q + 100 * c + 400 * qc, days |-> d3 - 365 * y]

(* Days since 2000-03-01 into years and days: cycles of 400, 100, 4 and 1  *)
(* years.  (A q of 25 cannot occur; the code has the test.)                *)
Cycles(days) ==
  LET qc == RepairedDiv(days, 146097)
      d1 == RepairedRem(days, 146097)
      c  == Capped(d1 \div 36524, 4)
      d2 == d1 - 36524 * c
      q  == Capped(d2 \div 1461, 25)
      d3 == d2 - 1461 * q
      y  == Capped(d3 \div 365, 4)
  IN  [years |-> y + 4 * q + 100 * c + 400 * qc, days |-> d3 - 365 * y]

(* The loop over the months, and January and February moved to the next year. *)
MonthsAndDays(c) ==
  LET months == CHOOSE m \in 0 .. 11 : FromMarch[m + 1] <= c.days /\ c.days < FromMarch[m + 2]
  IN  [year  |-> 2000 + c.years + (IF months >= 10 THEN 1 ELSE 0),
       month |-> months + 3 - (IF months >= 10 THEN 12 ELSE 0),
       day   |-> c.days - FromMarch[months + 1] + 1]

(* The day number and the rest. *)
DayNumber(seconds)   == RepairedDiv(seconds, SecondsPerDay)
SecondOfDay(seconds) == RepairedRem(seconds, SecondsPerDay)

(* 2000-03-01 in days since 1970: LEAPOCH *)
Leapoch == 11017

DateOf(days) == MonthsAndDays(Cycles(days - Leapoch))

OnDate(date, second, nanos) ==
  [year |-> date.year, month |-> date.month, day |-> date.day,
   hour   |-> second \div SecondsPerHour,
   minute |-> (second \div SecondsPerMinute) % MinutesPerHour,
   second |-> second % SecondsPerMinute,
   nanos  |-> nanos]

(* DateTime::from(Timestamp) *)
DateTimeFrom(t) ==
  LET n == TS!Normalized(t)
  IN  OnDate(DateOf(DayNumber(n.seconds)), SecondOfDay(n.seconds), n.nanos)

-----------------------------------------------------------------------------
(* DateTime::is_valid and Timestamp::try_from(DateTime) *)

Fields(t) == <<t.year, t.month, t.day, t.hour, t.minute, t.second, t.nanos>>

(* The derived order of DateTime: field by field. *)
NotAfter(t, u) ==
  \/ Fields(t) = Fields(u)
  \/ \E i \in 1 .. 7 : /\ Fields(t)[i] < Fields(u)[i]
                       /\ \A j \in 1 .. i - 1 : Fields(t)[j] = Fields(u)[j]

(* The literals DateTime::MIN and MAX, which test_min_max ties to the ends *)
(* of the i64 range.                                                       *)
MinDateTime == DateTimeFrom(TS!Earliest)
MaxDateTime == DateTimeFrom(TS!Latest)

(* Mutant: a day is compared with the end of its month only. *)
IsValidDayZero(t) ==
  /\ NotAfter(MinDateTime, t) /\ NotAfter(t, MaxDateTime)
  /\ t.month \in 1 .. 12
  /\ t.day <= DaysInMonth(t.year, t.month)
  /\ t.hour < HoursPerDay /\ t.minute < MinutesPerHour /\ t.second < SecondsPerMinute
  /\ t.nanos < NanosPerSecond

IsValid(t) ==
  /\ NotAfter(MinDateTime, t) /\ NotAfter(t, MaxDateTime)
  /\ t.month \in 1 .. 12
  /\ 0 < t.day /\ t.day <= DaysInMonth(t.year, t.month)
  /\ t.hour < HoursPerDay /\ t.minute < MinutesPerHour /\ t.second < SecondsPerMinute
  /\ t.nanos < NanosPerSecond

TimestampOf(t) == [seconds |-> DateTimeToSeconds(t), nanos |-> t.nanos]

-----------------------------------------------------------------------------
(* Text: the fields a text holds, with the number of digits where it matters *)

NoFraction == [present |-> FALSE, digits |-> 0, value |-> 0]
NoOffset   == [form |-> "none", hour |-> 0, minute |-> 0]
Zulu       == [form |-> "Z", hour |-> 0, minute |-> 0]

(* The subseconds as nothing, millis, micros or nanos. *)
Subseconds(nanos) ==
  IF nanos = 0 THEN NoFraction
  ELSE LET groups == IF nanos % (DigitBase ^ (2 * GroupDigits)) = 0 THEN 1
                     ELSE IF nanos % (DigitBase ^ GroupDigits) = 0 THEN 2 ELSE 3
       IN  [present |-> TRUE, digits |-> groups * GroupDigits,
            value |-> nanos \div (DigitBase ^ (NanoDigits - (groups * GroupDigits)))]

(* Mutant: five digits without a sign. *)
YearTextUnsigned(year) ==
  [sign |-> IF year < 0 THEN "-" ELSE "",
   year |-> IF year < 0 THEN -year ELSE year,
   digits |-> IF year > 9999 \/ year < -9999 THEN 5 ELSE 4]

(* A year has at least four digits; one with more, or a negative one, a sign. *)
YearText(year) ==
  [sign |-> IF year > 9999 THEN "+" ELSE IF year < 0 THEN "-" ELSE "",
   year |-> IF year < 0 THEN -year ELSE year,
   digits |-> IF year > 9999 \/ year < -9999 THEN 5 ELSE 4]

(* <DateTime as Display>::fmt *)
TextOf(t) ==
  [year |-> YearText(t.year), month |-> t.month, day |-> t.day, timed |-> TRUE,
   hour |-> t.hour, minute |-> t.minute, second |-> t.second,
   fraction |-> Subseconds(t.nanos), offset |-> Zulu]

(* parse_date's three forms of a year. *)
YearParses(y) ==
  CASE y.sign = "+" -> y.digits >= 5
    [] y.sign = "-" -> y.digits >= 4
    [] OTHER        -> y.digits = 4

YearIn(y) == IF y.sign = "-" THEN -y.year ELSE y.year

(* parse_nanos: digits beyond the nanoseconds are dropped. *)
FractionParses(f) == f.present => f.digits > 0

NanosIn(f) ==
  IF ~ f.present THEN 0
  ELSE IF f.digits > NanoDigits THEN f.value \div (DigitBase ^ (f.digits - NanoDigits))
  ELSE f.value * (DigitBase ^ (NanoDigits - f.digits))

(* parse_offset *)
OffsetParses(o) == o.hour < HoursPerDay /\ o.minute < MinutesPerHour

(* Mutant: the minutes of a negative offset are added. *)
OffsetMinutesPositive(o) ==
  IF o.form = "-" THEN SecondsPerMinute * o.minute - SecondsPerHour * o.hour
  ELSE SecondsPerHour * o.hour + SecondsPerMinute * o.minute

OffsetIn(o) ==
  IF o.form = "-" THEN -(SecondsPerHour * o.hour + SecondsPerMinute * o.minute)
  ELSE SecondsPerHour * o.hour + SecondsPerMinute * o.minute

(* A leap second is rolled back to the second before it. *)
DateTimeIn(x) ==
  [year |-> YearIn(x.year), month |-> x.month, day |-> x.day,
   hour |-> IF x.timed THEN x.hour ELSE 0,
   minute |-> IF x.timed THEN x.minute ELSE 0,
   second |-> IF ~ x.timed THEN 0
              ELSE IF x.second = SecondsPerMinute THEN SecondsPerMinute - 1 ELSE x.second,
   nanos |-> IF x.timed THEN NanosIn(x.fraction) ELSE 0]

(* parse_timestamp: is the text a timestamp, and which one. *)
Parses(x) ==
  /\ YearParses(x.year)
  /\ x.timed => FractionParses(x.fraction) /\ OffsetParses(x.offset)
  /\ IsValid(DateTimeIn(x))
  /\ x.timed => FitsSeconds(DateTimeToSeconds(DateTimeIn(x)) - OffsetIn(x.offset))

ParsedFrom(x) ==
  LET t == TimestampOf(DateTimeIn(x))
  IN  IF x.timed THEN [t EXCEPT !.seconds = t.seconds - OffsetIn(x.offset)] ELSE t

-----------------------------------------------------------------------------
(* Inputs: values at the date the clock shows *)

At(second, nanos) == [seconds |-> SecondsPerDay * day + second, nanos |-> nanos]
SampleSeconds     == {0, SecondsPerMinute - 1, SecondsPerHour, SecondsPerDay - 1}

(* What other producers write: an offset, a leap second, more digits than  *)
(* a nanosecond has, or the date alone.                                    *)
Offsets == {NoOffset, Zulu}
             \union [form : {"+", "-"}, hour : {0, 1, HoursPerDay - 1, HoursPerDay},
                     minute : {0, MinutesPerHour - 1, MinutesPerHour}]
Fractions == {NoFraction, [present |-> TRUE, digits |-> 0, value |-> 0],
              [present |-> TRUE, digits |-> 1, value |-> DigitBase - 1],
              [present |-> TRUE, digits |-> NanoDigits + 1, value |-> DigitBase * NanosPerSecond - 1]}

TextsOf(c) ==
  { [year |-> YearText(c.year), month |-> c.month, day |-> c.day, timed |-> timed,
     hour |-> h, minute |-> 0, second |-> s, fraction |-> f, offset |-> o] :
      timed \in BOOLEAN, h \in {0, HoursPerDay - 1}, s \in {0, SecondsPerMinute},
      f \in Fractions, o \in Offsets }

(* The numbers of date_time_nanos: the ends of their ranges and beyond. *)
AskedMonths == {0, civil.month, 13}
AskedDays   == {0, 1, 28, 29, 30, 31, 32}
AskedHours  == {0, HoursPerDay - 1, HoursPerDay}
AskedNanos  == {0, NanosPerSecond - 1, NanosPerSecond}

NoText == [TextOf(OnDate(NewYear(0), 0, 0)) EXCEPT !.offset = NoOffset]

-----------------------------------------------------------------------------
(* Actions *)

Init ==
  /\ day = 0
  /\ civil = NewYear(1970)
  /\ moment = [seconds |-> 0, nanos |-> 0]
  /\ text = NoText
  /\ reply = "none"

Silent ==
  /\ moment' = [seconds |-> 0, nanos |-> 0]
  /\ text' = NoText
  /\ reply' = "none"

(* The reference clock: a day passes, or a whole year in either direction. *)
Tick ==
  /\ civil.year \in Watched
  /\ civil' = NextDay(civil)
  /\ day' = day + 1
  /\ Silent

SkipYear ==
  /\ civil = NewYear(civil.year) /\ civil.year < LastYear
  /\ civil' = NewYear(civil.year + 1)
  /\ day' = day + YearLength(civil.year)
  /\ Silent

SkipBack ==
  /\ civil = NewYear(civil.year) /\ civil.year > FirstYear
  /\ civil' = NewYear(civil.year - 1)
  /\ day' = day - YearLength(civil.year - 1)
  /\ Silent

Sampled ==
  /\ reply = "none"
  /\ civil.year \in Watched /\ <<civil.month, civil.day>> \in SampleDays
  /\ UNCHANGED <<day, civil>>

(* <Timestamp as Display>::fmt, of a value that need not be normalized. *)
Display ==
  /\ Sampled
  /\ \E s \in SampleSeconds, n \in SampleNanos :
       /\ FitsSeconds(At(s, n).seconds)
       /\ moment' = At(s, n)
       /\ text' = TextOf(DateTimeFrom(At(s, n)))
  /\ reply' = "text"

(* <Timestamp as FromStr>::from_str *)
FromStr ==
  /\ Sampled
  /\ \E x \in TextsOf(civil) :
       /\ text' = x
       /\ IF Parses(x) THEN moment' = ParsedFrom(x) /\ reply' = "parsed"
          ELSE UNCHANGED moment /\ reply' = "parse failure"

(* Timestamp::date_time_nanos: the caller's numbers, valid or not.  The    *)
(* refused ones are left as a text, to be looked at.                       *)
DateTimeNanos ==
  /\ Sampled
  /\ \E month \in AskedMonths, d \in AskedDays, hour \in AskedHours, nanos \in AskedNanos :
       LET t == [year |-> civil.year, month |-> month, day |-> d, hour |-> hour,
                 minute |-> 0, second |-> 0, nanos |-> nanos]
       IN  /\ text' = [NoText EXCEPT !.month = month, !.day = d, !.hour = hour,
                                     !.fraction.value = nanos]
           /\ IF IsValid(t) THEN moment' = TimestampOf(t) /\ reply' = "dated"
              ELSE UNCHANGED moment /\ reply' = "invalid date"

Next == Tick \/ SkipYear \/ SkipBack \/ Display \/ FromStr \/ DateTimeNanos

Spec == Init /\ [][Next]_vars

-----------------------------------------------------------------------------
(* Properties *)

(* year_to_seconds: the year that starts here is as long as the Gregorian  *)
(* rule says, through the fast path, the centuries and the cycles of 400.  *)
YearsHaveTheirLength ==
  LET year == civil.year
  IN  /\ YearToDays(year).leap = Gregorian(year)
      /\ YearToDays(year + 1).days - YearToDays(year).days = YearLength(year)

Shown(second) == OnDate(civil, second, 0)

(* Both directions agree with the clock: for every second of the day in    *)
(* range, the ends of i64 included, DateTime::from(Timestamp) shows what   *)
(* the clock shows, a valid date, and date_time_to_seconds finds the       *)
(* seconds of that date again.                                             *)
CalendarMatchesClock ==
  \A s \in 0 .. SecondsPerDay - 1 :
    FitsSeconds(At(s, 0).seconds) =>
      /\ DateTimeFrom(At(s, 0)) = Shown(s)
      /\ IsValid(Shown(s))
      /\ DateTimeToSeconds(Shown(s)) = At(s, 0).seconds

(* What Display writes, FromStr reads back as the same moment, normalized. *)
TextRoundTrips ==
  reply = "text" => Parses(text) /\ ParsedFrom(text) = TS!Normalized(moment)

(* What a text says: its local time, its moment, and the last whole        *)
(* nanosecond before its fraction.                                         *)
Local(x) == IF x.timed THEN SecondsPerHour * x.hour
                              + (IF x.second = 0 THEN 0 ELSE SecondsPerMinute - 1)
            ELSE 0
Denoted(x) ==
  SecondsPerDay * day + Local(x)
    - (IF ~ x.timed THEN 0
       ELSE (IF x.offset.form = "-" THEN -1 ELSE 1)
              * (SecondsPerHour * x.offset.hour + SecondsPerMinute * x.offset.minute))

WholeNanos(f, nanos) ==
  LET unit == DigitBase ^ f.digits
  IN  /\ nanos * unit <= f.value * NanosPerSecond
      /\ f.value * NanosPerSecond < nanos * unit + unit

(* FromStr accepts a text exactly when its fraction has digits, its offset *)
(* is less than a day, and its local time and its moment are both in range *)
(* (is_valid looks at the local time); it is then read as the moment its   *)
(* local time and offset say, digits beyond the nanoseconds dropped.       *)
ParsesLocalTime ==
  reply \in {"parsed", "parse failure"} =>
    LET f == text.fraction
    IN  /\ (reply = "parsed") <=>
             /\ FitsSeconds(SecondsPerDay * day + Local(text)) /\ FitsSeconds(Denoted(text))
             /\ text.timed => /\ f.present => f.digits > 0
                              /\ text.offset.hour < HoursPerDay /\ text.offset.minute < MinutesPerHour
        /\ reply = "parsed" =>
             /\ moment.seconds = Denoted(text)
             /\ IF text.timed /\ f.present THEN WholeNanos(f, moment.nanos) ELSE moment.nanos = 0

(* The numbers the caller gave are a date and a time of the wall calendar. *)
OnTheCalendar(x) ==
  /\ x.month \in 1 .. 12 /\ x.day \in 1 .. MonthLength(civil.year, x.month)
  /\ x.hour \in 0 .. HoursPerDay - 1 /\ x.fraction.value \in 0 .. NanosPerSecond - 1

(* date_time_nanos accepts a date exactly when the wall calendar has it    *)
(* and its second is in range, and makes that very moment of it.           *)
OnlyCalendarDates ==
  reply \in {"dated", "invalid date"} =>
    LET second == SecondsPerDay * (day + text.day - civil.day) + SecondsPerHour * text.hour
    IN  /\ (reply = "dated") <=> OnTheCalendar(text) /\ FitsSeconds(second)
        /\ reply = "dated" => moment = [seconds |-> second, nanos |-> text.fraction.value]

=============================================================================
