--------------------------- MODULE Calendar_proofs ---------------------------
(***************************************************************************)
(* Proofs about Calendar, for every length of a minute, an hour and a day  *)
(* and every range of seconds: the two directions of the calendar agree    *)
(* with the reference clock on every day there is, the days TLC does not   *)
(* visit included.                                                         *)
(*                                                                         *)
(* The provers know no induction, so both directions are compared with one *)
(* closed form, StartOf: the code's cases are shown to compute it, and the *)
(* clock to keep it.                                                       *)
(***************************************************************************)
EXTENDS Calendar, SecondsNanos_proofs

-----------------------------------------------------------------------------
(* Years *)

(* The leap days of the years before this one, back to year 1. *)
LeapDaysBefore(year) == ((year - 1) \div 4) - ((year - 1) \div 100) + ((year - 1) \div 400)

(* The first of January of a year, in days since 1970-01-01. *)
StartOf(year) == 365 * (year - 1970) + LeapDaysBefore(year) - 477

(* A place in the cycle of 400 years, and the leap days before it. *)
LeapPlace(rem) == rem % 4 = 0 /\ (rem % 100 # 0 \/ rem = 0)

LeapsIn(rem) == IF rem = 0 THEN 0 ELSE (rem \div 4) - (rem \div 100)

(* The fast path, written out. *)
LEMMA RecentYearShape ==
  ASSUME NEW y \in Int
  PROVE  /\ RecentYear(y).days = 365 * (y - 70) + (((y - 68) \div 4) - (IF (y - 68) % 4 = 0 THEN 1 ELSE 0))
         /\ RecentYear(y).leap <=> (y - 68) % 4 = 0
         /\ RecentYear(y).leap \in BOOLEAN
BY DEF RecentYear

(* The fast path computes the start of a year and the Gregorian rule. *)
LEMMA RecentYearFacts ==
  ASSUME NEW year \in 1901 .. 2038
  PROVE  /\ RecentYear(year - 1900).days = StartOf(year)
         /\ RecentYear(year - 1900).leap <=> Gregorian(year)
         /\ RecentYear(year - 1900).leap \in BOOLEAN
<1>1. PICK y \in Int : y = year - 1900
  OBVIOUS
<1>2. (y - 68) % 4 = 0 <=> Gregorian(year)
  BY <1>1 DEF Gregorian
<1>3. 365 * (y - 70) + (((y - 68) \div 4) - (IF (y - 68) % 4 = 0 THEN 1 ELSE 0)) = StartOf(year)
  BY <1>1 DEF StartOf, LeapDaysBefore
<1> QED
  BY <1>1, <1>2, <1>3, RecentYearShape


(* The centuries of a cycle count their leap days. *)
LEMMA CenturyYearFacts ==
  ASSUME NEW rem \in 0 .. 399
  PROVE  /\ CenturyYear(rem).leap = LeapPlace(rem)
         /\ CenturyYear(rem).leaps = LeapsIn(rem)
<1>1. PICK c \in 0 .. 3, r \in 0 .. 99 : c = rem \div 100 /\ r = rem - 100 * c
  OBVIOUS
<1>0. LeapPlace(rem) \in BOOLEAN BY DEF LeapPlace
<1>2. CASE rem = 0
  <2>1. LeapPlace(rem) /\ LeapsIn(rem) = 0
    BY <1>2 DEF LeapPlace, LeapsIn
  <2>2. CenturyYear(rem).leap = TRUE /\ CenturyYear(rem).leaps = 0
    BY <1>2, Zenon DEF CenturyYear
  <2> QED BY <1>0, <2>1, <2>2, Zenon
<1>3. CASE rem # 0 /\ r = 0
  <2>1. ~LeapPlace(rem) /\ LeapsIn(rem) = 24 * c
    BY <1>1, <1>3 DEF LeapPlace, LeapsIn
  <2>2. CenturyYear(rem).leap = FALSE /\ CenturyYear(rem).leaps = 24 * c
    BY <1>1, <1>3, Zenon DEF CenturyYear
  <2> QED BY <1>0, <2>1, <2>2, Zenon
<1>4. CASE rem # 0 /\ r # 0
  <2>1. (LeapPlace(rem) <=> r % 4 = 0) /\ LeapsIn(rem) = (r \div 4) + 24 * c
    BY <1>1, <1>4 DEF LeapPlace, LeapsIn
  <2>2. CenturyYear(rem).leap = (r % 4 = 0) /\ CenturyYear(rem).leaps = (r \div 4) + 24 * c
    BY <1>1, <1>4, Zenon DEF CenturyYear
  <2> QED BY <1>0, <2>1, <2>2, Zenon
<1> QED
  BY <1>2, <1>3, <1>4, Zenon

(* The slow path does too, before 2000 and after. *)
LEMMA AnyYearFacts ==
  ASSUME NEW year \in Int, NEW y \in Int, y = year - 1900
  PROVE  /\ AnyYear(y).days = StartOf(year)
         /\ AnyYear(y).leap = Gregorian(year)
<1>1. PICK k \in Int : k = y - 100
  OBVIOUS
<1>2. PICK q \in Int, r \in 0 .. 399 : q = k \div 400 /\ r = k % 400
  <2>1. k \div 400 \in Int /\ k % 400 \in 0 .. 399
    OBVIOUS
  <2> QED
    BY <2>1
<1>3. r \in Int /\ k = 400 * q + r /\ k = year - 2000 /\ year = 2000 + 400 * q + r
  BY <1>1, <1>2
<1>4. q = RepairedDiv(k, 400) /\ r = RepairedRem(k, 400)
  BY <1>2 DEF RepairedDiv, RepairedRem, TruncRem, TruncDiv
<1>5. /\ AnyYear(y).leap = CenturyYear(r).leap
      /\ AnyYear(y).days = 365 * k + (CenturyYear(r).leaps + 97 * q - (IF CenturyYear(r).leap THEN 1 ELSE 0))
                    + 10957 + 1
  BY <1>1, <1>4 DEF AnyYear
<1>6. CenturyYear(r).leap = LeapPlace(r) /\ CenturyYear(r).leaps = LeapsIn(r)
  BY CenturyYearFacts, Z3
<1>7. LeapPlace(r) <=> Gregorian(year)
  BY <1>3 DEF LeapPlace, Gregorian
<1>8. 365 * k + LeapsIn(r) + 97 * q - (IF LeapPlace(r) THEN 1 ELSE 0) + 10957 + 1 = StartOf(year)
  <2>3. CASE r = 0
    <3>1. /\ (year - 1) \div 400 = 4 + q
          /\ (year - 1) \div 100 = 19 + 4 * q
          /\ (year - 1) \div 4 = 499 + 100 * q
      BY <1>3, <2>3
    <3>2. LeapPlace(r) /\ LeapsIn(r) = 0
      BY <2>3 DEF LeapPlace, LeapsIn
    <3> QED
      BY <1>3, <2>3, <3>1, <3>2 DEF StartOf, LeapDaysBefore
  <2>4. CASE r # 0
    <3>1. /\ (year - 1) \div 400 = 5 + q
          /\ (year - 1) \div 100 = 20 + 4 * q + ((r - 1) \div 100)
          /\ (year - 1) \div 4 = 500 + 100 * q + ((r - 1) \div 4)
      BY <1>3, <2>4
    <3>2. ((r - 1) \div 4) - ((r - 1) \div 100) = LeapsIn(r) - (IF LeapPlace(r) THEN 1 ELSE 0)
      BY <2>4 DEF LeapsIn, LeapPlace
    <3>3. LeapsIn(r) \in Int /\ (r - 1) \div 4 \in Int /\ (r - 1) \div 100 \in Int
      BY DEF LeapsIn
    <3> QED
      BY <1>3, <3>1, <3>2, <3>3 DEF StartOf, LeapDaysBefore
  <2> QED
    BY <2>3, <2>4
<1>9. LeapPlace(r) \in BOOLEAN /\ Gregorian(year) \in BOOLEAN
  BY DEF LeapPlace, Gregorian
<1>10. LeapsIn(r) \in Int /\ StartOf(year) \in Int
  BY DEF LeapsIn, StartOf, LeapDaysBefore
<1>11. AnyYear(y).days = StartOf(year)
  BY <1>5, <1>6, <1>8, <1>10
<1>12. AnyYear(y).leap = Gregorian(year)
  BY <1>5, <1>6, <1>7, <1>9
<1> QED
  BY <1>11, <1>12

(* year_to_seconds: when a year starts and whether it is a leap year. *)
LEMMA YearToDaysFacts ==
  ASSUME NEW year \in Int
  PROVE  /\ YearToDays(year).days = StartOf(year)
         /\ YearToDays(year).leap = Gregorian(year)
<1>1. CASE year \in 1901 .. 2038
  <2>1. YearToDays(year) = RecentYear(year - 1900)
    BY <1>1 DEF YearToDays
  <2>2. Gregorian(year) \in BOOLEAN
    BY DEF Gregorian
  <2> QED
    BY <1>1, <2>1, <2>2, RecentYearFacts
<1>2. CASE year \notin 1901 .. 2038
  <2>1. YearToDays(year) = AnyYear(year - 1900)
    BY <1>2 DEF YearToDays
  <2>2. /\ AnyYear(year - 1900).days = StartOf(year)
        /\ AnyYear(year - 1900).leap = Gregorian(year)
    BY AnyYearFacts
  <2> QED
    BY <2>1, <2>2
<1> QED
  BY <1>1, <1>2

(* A year starts when the one before it is over. *)
LEMMA NextStart ==
  ASSUME NEW year \in Int
  PROVE  StartOf(year) \in Int /\ StartOf(year + 1) = StartOf(year) + YearLength(year)
<1>1. /\ year \div 4 = ((year - 1) \div 4) + (IF year % 4 = 0 THEN 1 ELSE 0)
      /\ year \div 100 = ((year - 1) \div 100) + (IF year % 100 = 0 THEN 1 ELSE 0)
      /\ year \div 400 = ((year - 1) \div 400) + (IF year % 400 = 0 THEN 1 ELSE 0)
  OBVIOUS
<1>2. (year % 400 = 0 => year % 100 = 0) /\ (year % 100 = 0 => year % 4 = 0)
  OBVIOUS
<1>3. year + 1 - 1 = year
  OBVIOUS
<1> QED
  BY <1>1, <1>2, <1>3 DEF StartOf, LeapDaysBefore, YearLength, Gregorian

-----------------------------------------------------------------------------
(* Dates and the days they are *)

Dates == [year : Int, month : 1 .. 12, day : 1 .. 31]

(* A date the wall calendar has. *)
ValidDate(c) == c \in Dates /\ c.day <= MonthLength(c.year, c.month)

(* The day of a date, in days since 1970-01-01. *)
DayOf(c) == StartOf(c.year) + MonthToDays(c.month, Gregorian(c.year)) + c.day - 1

(* The months follow each other and fill the year. *)
LEMMA MonthFacts ==
  ASSUME NEW year \in Int, NEW month \in 1 .. 12
  PROVE  /\ MonthToDays(month, Gregorian(year)) \in Int
         /\ MonthLength(year, month) \in 28 .. 31
         /\ MonthToDays(1, Gregorian(year)) = 0
         /\ month < 12 => MonthToDays(month + 1, Gregorian(year))
                            = MonthToDays(month, Gregorian(year)) + MonthLength(year, month)
         /\ MonthToDays(12, Gregorian(year)) + MonthLength(year, 12) = YearLength(year)
<1> USE DEF MonthToDays, MonthLength, DaysThroughMonth, YearLength
<1>1. CASE Gregorian(year)
  BY <1>1
<1>2. CASE ~ Gregorian(year)
  BY <1>2
<1> QED
  BY <1>1, <1>2

(* A later month of the year starts after an earlier one has ended. *)
LEMMA MonthsInOrder ==
  ASSUME NEW year \in Int, NEW month \in 1 .. 12, NEW later \in 1 .. 12, month < later
  PROVE  MonthToDays(month, Gregorian(year)) + MonthLength(year, month)
           <= MonthToDays(later, Gregorian(year))
<1> USE DEF MonthToDays, MonthLength, DaysThroughMonth
<1>1. CASE Gregorian(year)
  BY <1>1
<1>2. CASE ~ Gregorian(year)
  BY <1>2
<1> QED
  BY <1>1, <1>2

(* A year ends before a later one starts. *)
LEMMA YearsInOrder ==
  ASSUME NEW year \in Int, NEW later \in Int, year < later
  PROVE  StartOf(year) + YearLength(year) <= StartOf(later)
<1>1. StartOf(year + 1) = StartOf(year) + YearLength(year)
  BY NextStart
<1>2. CASE later = year + 1
  BY <1>1, <1>2, NextStart
<1>3. CASE later > year + 1
  <2>1. PICK n \in Int, a \in Int : a = year /\ later = a + n + 1 /\ n >= 1
    BY <1>3
  <2>2. /\ (a + n) \div 4 >= a \div 4
        /\ (a + n) \div 400 >= a \div 400
        /\ (a + n) \div 100 <= (a \div 100) + n
    BY <2>1
  <2>3. year + 1 - 1 = a /\ later - 1 = a + n
    BY <2>1
  <2>4. StartOf(year + 1) <= StartOf(later)
    BY <2>1, <2>2, <2>3 DEF StartOf, LeapDaysBefore
  <2> QED
    BY <1>1, <2>4
<1> QED
  BY <1>2, <1>3

(* A date lies in its year. *)
LEMMA DayInYear ==
  ASSUME NEW c, ValidDate(c)
  PROVE  /\ c.year \in Int /\ c.month \in 1 .. 12 /\ c.day \in 1 .. 31
         /\ c = [year |-> c.year, month |-> c.month, day |-> c.day]
         /\ DayOf(c) \in Int
         /\ StartOf(c.year) <= DayOf(c) /\ DayOf(c) < StartOf(c.year) + YearLength(c.year)
<1>1. /\ c.year \in Int /\ c.month \in 1 .. 12 /\ c.day \in 1 .. 31
      /\ c = [year |-> c.year, month |-> c.month, day |-> c.day]
      /\ c.day <= MonthLength(c.year, c.month)
  BY DEF ValidDate, Dates
<1>2. PICK y \in Int, m \in 1 .. 12, d \in 1 .. 31 : y = c.year /\ m = c.month /\ d = c.day
  BY <1>1
<1>3. StartOf(y) \in Int /\ YearLength(y) \in Int
  BY NextStart DEF YearLength
<1>4. /\ MonthToDays(m, Gregorian(y)) >= 0
      /\ MonthToDays(m, Gregorian(y)) + MonthLength(y, m) <= YearLength(y)
      /\ MonthToDays(m, Gregorian(y)) \in Int /\ MonthLength(y, m) \in Int
  <2> USE DEF MonthToDays, MonthLength, DaysThroughMonth, YearLength
  <2>1. CASE Gregorian(y)
    BY <2>1
  <2>2. CASE ~ Gregorian(y)
    BY <2>2
  <2> QED
    BY <2>1, <2>2
<1> QED
  BY <1>1, <1>2, <1>3, <1>4 DEF DayOf

(* The derived order of the date fields. *)
Before(c, d) ==
  \/ c.year < d.year
  \/ c.year = d.year /\ c.month < d.month
  \/ c.year = d.year /\ c.month = d.month /\ c.day < d.day

(* The order of the dates is the order of their days. *)
LEMMA DaysInOrder ==
  ASSUME NEW c, NEW d, ValidDate(c), ValidDate(d), Before(c, d)
  PROVE  DayOf(c) < DayOf(d)
<1>1. /\ c.year \in Int /\ c.month \in 1 .. 12 /\ c.day \in 1 .. 31
      /\ d.year \in Int /\ d.month \in 1 .. 12 /\ d.day \in 1 .. 31
      /\ c.day <= MonthLength(c.year, c.month)
  BY DEF ValidDate, Dates
<1>2. CASE c.year < d.year
  <2>1. DayOf(c) < StartOf(c.year) + YearLength(c.year) /\ StartOf(d.year) <= DayOf(d)
        /\ DayOf(c) \in Int /\ DayOf(d) \in Int
    BY DayInYear
  <2>2. StartOf(c.year) + YearLength(c.year) <= StartOf(d.year)
    BY <1>1, <1>2, YearsInOrder
  <2>3. StartOf(c.year) \in Int /\ YearLength(c.year) \in Int /\ StartOf(d.year) \in Int
    BY <1>1, NextStart DEF YearLength
  <2> QED
    BY <2>1, <2>2, <2>3
<1>3. CASE c.year = d.year /\ c.month < d.month
  <2>1. MonthToDays(c.month, Gregorian(c.year)) + MonthLength(c.year, c.month)
          <= MonthToDays(d.month, Gregorian(c.year))
    BY <1>1, <1>3, MonthsInOrder
  <2>2. /\ MonthToDays(c.month, Gregorian(c.year)) \in Int
        /\ MonthToDays(d.month, Gregorian(c.year)) \in Int
        /\ MonthLength(c.year, c.month) \in 28 .. 31
    BY <1>1, MonthFacts, Zenon
  <2>3. StartOf(c.year) \in Int
    BY <1>1, NextStart
  <2> QED
    BY <1>1, <1>3, <2>1, <2>2, <2>3 DEF DayOf
<1>4. CASE c.year = d.year /\ c.month = d.month /\ c.day < d.day
  <2>2. MonthToDays(c.month, Gregorian(c.year)) \in Int
    BY <1>1, MonthFacts, Zenon
  <2>3. StartOf(c.year) \in Int
    BY <1>1, NextStart
  <2> QED
    BY <1>1, <1>4, <2>2, <2>3 DEF DayOf
<1> QED
  BY <1>2, <1>3, <1>4 DEF Before

(* No two dates are one day. *)
LEMMA OneDateOfDay ==
  ASSUME NEW c, NEW d, ValidDate(c), ValidDate(d), DayOf(c) = DayOf(d)
  PROVE  c = d
<1>1. DayOf(c) \in Int
  BY DayInYear
<1>2. ~ Before(c, d) /\ ~ Before(d, c)
  BY <1>1, DaysInOrder
<1>3. c \in Dates /\ d \in Dates
  BY DEF ValidDate
<1> QED
  BY <1>2, <1>3 DEF Before, Dates

(* The page of the wall calendar is turned by one day. *)
LEMMA NextDayFacts ==
  ASSUME NEW c, ValidDate(c)
  PROVE  ValidDate(NextDay(c)) /\ DayOf(NextDay(c)) = DayOf(c) + 1
<1>1. PICK y \in Int, m \in 1 .. 12, d \in 1 .. 31 :
        c = [year |-> y, month |-> m, day |-> d] /\ d <= MonthLength(y, m)
  BY DEF ValidDate, Dates
<1>2. /\ StartOf(y) \in Int /\ StartOf(y + 1) = StartOf(y) + YearLength(y)
      /\ MonthToDays(m, Gregorian(y)) \in Int /\ MonthLength(y, m) \in 28 .. 31
      /\ MonthToDays(1, Gregorian(y + 1)) = 0
      /\ m < 12 => MonthToDays(m + 1, Gregorian(y)) = MonthToDays(m, Gregorian(y)) + MonthLength(y, m)
      /\ MonthToDays(12, Gregorian(y)) + MonthLength(y, 12) = YearLength(y)
  <2>1. y + 1 \in Int
    OBVIOUS
  <2> QED
    BY <2>1, NextStart, MonthFacts
<1>3. CASE d < MonthLength(y, m)
  <2>1. NextDay(c) = [year |-> y, month |-> m, day |-> d + 1]
    BY <1>1, <1>3 DEF NextDay
  <2> QED
    BY <1>1, <1>2, <1>3, <2>1 DEF ValidDate, Dates, DayOf
<1>4. CASE ~ (d < MonthLength(y, m)) /\ m < 12
  <2>1. d = MonthLength(y, m)
    BY <1>1, <1>2, <1>4
  <2>3. NextDay(c) = [c EXCEPT !.month = c.month + 1, !.day = 1]
    BY <1>1, <1>4 DEF NextDay
  <2>4. NextDay(c) = [year |-> y, month |-> m + 1, day |-> 1]
    BY <1>1, <2>3
  <2>2. m + 1 \in 1 .. 12 /\ MonthLength(y, m + 1) >= 1
    BY <1>4 DEF MonthLength
  <2> QED
    BY <1>1, <1>2, <1>4, <2>1, <2>2, <2>4 DEF ValidDate, Dates, DayOf
<1>5. CASE ~ (d < MonthLength(y, m)) /\ m = 12
  <2>1. NextDay(c) = [year |-> y + 1, month |-> 1, day |-> 1] /\ d = MonthLength(y, m)
    BY <1>1, <1>2, <1>5 DEF NextDay
  <2>2. y + 1 \in Int /\ MonthLength(y + 1, 1) >= 1
    BY DEF MonthLength
  <2> QED
    BY <1>1, <1>2, <1>5, <2>1, <2>2 DEF ValidDate, Dates, DayOf
<1> QED
  BY <1>3, <1>4, <1>5

(* A year of the clock starts with its first of January. *)
LEMMA NewYearFacts ==
  ASSUME NEW year \in Int
  PROVE  ValidDate(NewYear(year)) /\ DayOf(NewYear(year)) = StartOf(year)
<1>1. MonthLength(year, 1) \in 28 .. 31 /\ MonthToDays(1, Gregorian(year)) = 0 /\ StartOf(year) \in Int
  BY MonthFacts, NextStart
<1> QED
  BY <1>1 DEF ValidDate, Dates, DayOf, NewYear

-----------------------------------------------------------------------------
(* From days to dates *)

(* The cycles of 400, 100, 4 and 1 years, counted from the first of March  *)
(* of 2000, find a year that starts in March and a day of it: 366 days     *)
(* only when its last month, February, is the one of a leap year.          *)
LEMMA CyclesFacts ==
  ASSUME NEW e \in Int
  PROVE  LET years == Cycles(e).years
             days  == Cycles(e).days
         IN  /\ years \in Int /\ days \in Nat /\ days <= 365
             /\ e = 365 * years + (years \div 4) - (years \div 100) + (years \div 400) + days
             /\ days = 365 => Gregorian(2001 + years)
<1> DEFINE qc == RepairedDiv(e, 146097)
           d1 == RepairedRem(e, 146097)
           c  == Capped(d1 \div 36524, 4)
           d2 == d1 - 36524 * c
           q  == Capped(d2 \div 1461, 25)
           d3 == d2 - 1461 * q
           y  == Capped(d3 \div 365, 4)
           d  == d3 - 365 * y
           years == y + 4 * q + 100 * c + 400 * qc
<1>1. Cycles(e).years = years /\ Cycles(e).days = d
  BY SMT DEF Cycles
<1>2. qc \in Int /\ d1 \in Nat /\ d1 < 146097 /\ e = 146097 * qc + d1
  BY SMT DEF RepairedDiv, RepairedRem, TruncDiv, TruncRem
<1> HIDE DEF qc, d1
<1>3. c \in 0 .. 3 /\ d2 \in Nat /\ d2 <= 36524 /\ (d2 = 36524 => c = 3) /\ d1 = 36524 * c + d2
  BY <1>2, SMT DEF Capped
<1> HIDE DEF c, d2
<1>4. q \in 0 .. 24 /\ d3 \in Nat /\ d3 < 1461 /\ d2 = 1461 * q + d3
  BY <1>3, SMT DEF Capped
<1> HIDE DEF q, d3
<1>5. y \in 0 .. 3 /\ d \in Nat /\ d <= 365 /\ (d = 365 => y = 3) /\ d3 = 365 * y + d
  BY <1>4, SMT DEF Capped
<1> HIDE DEF y, d
<1>6. e = 146097 * qc + 36524 * c + 1461 * q + 365 * y + d
  BY <1>2, <1>3, <1>4, <1>5, SMT
<1>7. d = 365 => y = 3 /\ (q = 24 => c = 3)
  BY <1>2, <1>3, <1>4, <1>5, SMT
<1>8. years \in Int /\ years \div 4 = q + 25 * c + 100 * qc /\ years \div 100 = c + 4 * qc /\ years \div 400 = qc
  BY <1>2, <1>3, <1>4, <1>5, SMT
<1>9. e = 365 * years + (years \div 4) - (years \div 100) + (years \div 400) + d
  BY <1>2, <1>3, <1>4, <1>5, <1>6, <1>8, SMT
<1>10. ASSUME d = 365 PROVE Gregorian(2001 + years)
  <2>1. 2001 + years = 4 * (501 + q + 25 * c + 100 * qc) /\ (q = 24 => c = 3)
    BY <1>2, <1>3, <1>4, <1>5, <1>7, <1>10, SMT
  <2>2. (2001 + years) % 4 = 0
    BY <1>2, <1>3, <1>4, <2>1, SMT
  <2>3. CASE q = 24
    <3>1. 2001 + years = 400 * (qc + 6)
      BY <1>2, <1>3, <2>1, <2>3, SMT
    <3>2. (2001 + years) % 400 = 0
      BY <1>2, <3>1, SMT
    <3> QED
      BY <2>2, <3>2, SMT DEF Gregorian
  <2>4. CASE q # 24
    <3>1. 2001 + years = 100 * (20 + c + 4 * qc) + 4 * (q + 1) /\ 4 * (q + 1) \in 1 .. 99
      BY <1>2, <1>3, <1>4, <2>1, <2>4, SMT
    <3>2. (2001 + years) % 100 # 0
      BY <1>2, <1>3, <1>4, <3>1, SMT
    <3> QED
      BY <2>2, <3>2, SMT DEF Gregorian
  <2> QED
    BY <2>3, <2>4
<1> HIDE DEF years
<1> QED
  BY <1>1, <1>5, <1>8, <1>9, <1>10, SMT

(* The loop over the months ends in the month of the day. *)
LEMMA MonthOfDay ==
  ASSUME NEW c, NEW years \in Int, NEW days \in Nat, c.years = years, c.days = days, days <= 365
  PROVE  \E m \in 0 .. 11 :
           /\ FromMarch[m + 1] <= days /\ days < FromMarch[m + 2]
           /\ MonthsAndDays(c) =
                [year  |-> 2000 + years + (IF m >= 10 THEN 1 ELSE 0),
                 month |-> m + 3 - (IF m >= 10 THEN 12 ELSE 0),
                 day   |-> days - FromMarch[m + 1] + 1]
<1> DEFINE months == CHOOSE m \in 0 .. 11 : FromMarch[m + 1] <= c.days /\ c.days < FromMarch[m + 2]
<1>2. \E m \in 0 .. 11 : FromMarch[m + 1] <= days /\ days < FromMarch[m + 2]
  <2>1. \/ FromMarch[1] <= days /\ days < FromMarch[2]
        \/ FromMarch[2] <= days /\ days < FromMarch[3]
        \/ FromMarch[3] <= days /\ days < FromMarch[4]
        \/ FromMarch[4] <= days /\ days < FromMarch[5]
        \/ FromMarch[5] <= days /\ days < FromMarch[6]
        \/ FromMarch[6] <= days /\ days < FromMarch[7]
        \/ FromMarch[7] <= days /\ days < FromMarch[8]
        \/ FromMarch[8] <= days /\ days < FromMarch[9]
        \/ FromMarch[9] <= days /\ days < FromMarch[10]
        \/ FromMarch[10] <= days /\ days < FromMarch[11]
        \/ FromMarch[11] <= days /\ days < FromMarch[12]
        \/ FromMarch[12] <= days /\ days < FromMarch[13]
    BY SMT DEF FromMarch
  <2> QED
    BY <2>1, SMT
<1>3. months \in 0 .. 11 /\ FromMarch[months + 1] <= days /\ days < FromMarch[months + 2]
  BY <1>2, Zenon
<1>4. MonthsAndDays(c) = [year  |-> 2000 + years + (IF months >= 10 THEN 1 ELSE 0),
                          month |-> months + 3 - (IF months >= 10 THEN 12 ELSE 0),
                          day   |-> days - FromMarch[months + 1] + 1]
  BY SMT DEF MonthsAndDays
<1> HIDE DEF months
<1> QED
  BY <1>3, <1>4, SMT

(* DateTime::from finds a date the calendar has, the date of that day. *)
LEMMA DateOfFacts ==
  ASSUME NEW n \in Int
  PROVE  ValidDate(DateOf(n)) /\ DayOf(DateOf(n)) = n
<1>1. PICK years \in Int, days \in Nat :
           /\ Cycles(n - Leapoch).years = years /\ Cycles(n - Leapoch).days = days
           /\ n - Leapoch = 365 * years + (years \div 4) - (years \div 100) + (years \div 400) + days
           /\ days <= 365
           /\ days = 365 => Gregorian(2001 + years)
  <2>1. n - Leapoch \in Int
    BY SMT DEF Leapoch
  <2> QED
    BY <2>1, CyclesFacts, SMT
<1>2. PICK m \in 0 .. 11 :
           /\ FromMarch[m + 1] <= days /\ days < FromMarch[m + 2]
           /\ DateOf(n) =
                [year  |-> 2000 + years + (IF m >= 10 THEN 1 ELSE 0),
                 month |-> m + 3 - (IF m >= 10 THEN 12 ELSE 0),
                 day   |-> days - FromMarch[m + 1] + 1]
  BY <1>1, MonthOfDay, SMT DEF DateOf
<1>3. PICK y \in Int : y = 2000 + years
  BY SMT
<1>4. /\ StartOf(y) \in Int /\ StartOf(y + 1) = StartOf(y) + YearLength(y)
      /\ StartOf(y + 1) = n - days + 306
  <2>1. StartOf(y) \in Int /\ StartOf(y + 1) = StartOf(y) + YearLength(y)
    BY NextStart, SMT
  <2>2. /\ y \div 4 = 500 + (years \div 4)
        /\ y \div 100 = 20 + (years \div 100)
        /\ y \div 400 = 5 + (years \div 400)
        /\ y + 1 - 1 = y
    BY <1>3, SMT
  <2>3. StartOf(y + 1) = 365 * (y + 1 - 1970) + (y \div 4) - (y \div 100) + (y \div 400) - 477
    BY <2>2, SMT DEF StartOf, LeapDaysBefore
  <2> QED
    BY <1>1, <1>3, <2>1, <2>2, <2>3, SMT DEF Leapoch
<1>5. CASE m < 10
  <2>1. PICK f \in Int : f = FromMarch[m + 1] /\ f <= days /\ days < FromMarch[m + 2]
    BY <1>2, SMT DEF FromMarch
  <2>2. DateOf(n) = [year |-> y, month |-> m + 3, day |-> days - f + 1]
    BY <1>2, <1>3, <1>5, <2>1, SMT
  <2>3. m + 3 \in 1 .. 12 /\ days - f + 1 \in 1 .. 31 /\ days - f + 1 <= MonthLength(y, m + 3)
    BY <1>5, <2>1, SMT DEF FromMarch, MonthLength
  <2>4. MonthToDays(m + 3, Gregorian(y)) = f + 59 + (YearLength(y) - 365)
    BY <1>5, <2>1, SMT DEF FromMarch, MonthToDays, DaysThroughMonth, YearLength
  <2>5. ValidDate(DateOf(n))
    BY <2>2, <2>3, SMT DEF ValidDate, Dates
  <2>6. YearLength(y) \in Int
    BY SMT DEF YearLength
  <2>7. StartOf(y) + MonthToDays(m + 3, Gregorian(y)) + (days - f + 1) - 1 = n
    BY <1>4, <2>4, <2>6, SMT
  <2> QED
    BY <2>2, <2>5, <2>7, SMT DEF DayOf
<1>6. CASE m >= 10
  <2>1. PICK f \in Int : f = FromMarch[m + 1] /\ f <= days /\ days < FromMarch[m + 2]
    BY <1>2, SMT DEF FromMarch
  <2>2. DateOf(n) = [year |-> y + 1, month |-> m - 9, day |-> days - f + 1]
    BY <1>2, <1>3, <1>6, <2>1, SMT
  <2>3. days = 365 => Gregorian(y + 1)
    <3>1. 2001 + years = y + 1
      BY <1>3, SMT
    <3> QED
      BY <1>1, <3>1, SMT
  <2>4. m - 9 \in 1 .. 12 /\ days - f + 1 \in 1 .. 31 /\ days - f + 1 <= MonthLength(y + 1, m - 9)
    BY <1>6, <2>1, <2>3, SMT DEF FromMarch, MonthLength
  <2>5. MonthToDays(m - 9, Gregorian(y + 1)) = f - 306
    BY <1>6, <2>1, SMT DEF FromMarch, MonthToDays, DaysThroughMonth
  <2>6. ValidDate(DateOf(n))
    BY <2>2, <2>4, SMT DEF ValidDate, Dates
  <2>7. StartOf(y + 1) + MonthToDays(m - 9, Gregorian(y + 1)) + (days - f + 1) - 1 = n
    BY <1>4, <2>5, SMT
  <2> QED
    BY <2>2, <2>6, <2>7, SMT DEF DayOf
<1> QED
  BY <1>5, <1>6, SMT

(* The date the clock shows is the one the code finds. *)
LEMMA DateOfDay ==
  ASSUME NEW c, ValidDate(c)
  PROVE  DateOf(DayOf(c)) = c
<1>1. DayOf(c) \in Int
  BY DayInYear, SMT
<1>2. ValidDate(DateOf(DayOf(c))) /\ DayOf(DateOf(DayOf(c))) = DayOf(c)
  BY <1>1, DateOfFacts, SMT
<1> QED
  BY <1>2, OneDateOfDay, SMT

-----------------------------------------------------------------------------
(* The time of day *)

(* The units of the clock are positive. *)
LEMMA UnitFacts ==
  /\ SecondsPerMinute \in Nat \ {0} /\ MinutesPerHour \in Nat \ {0} /\ HoursPerDay \in Nat \ {0}
  /\ SecondsPerHour \in Nat \ {0} /\ SecondsPerDay \in Nat \ {0}
  /\ SecondsPerHour = SecondsPerMinute * MinutesPerHour
  /\ SecondsPerDay = SecondsPerHour * HoursPerDay
<1>1. SecondsPerMinute * MinutesPerHour \in Nat \ {0}
  BY ClockAssumption, Z3
<1> QED
  BY <1>1, ClockAssumption DEF SecondsPerHour, SecondsPerDay

(* A natural number, divided. *)
LEMMA Divided ==
  ASSUME NEW a \in Nat, NEW b \in Nat \ {0}
  PROVE  a \div b \in Nat /\ a % b \in 0 .. b - 1 /\ a = b * (a \div b) + (a % b)
OBVIOUS

(* Units of units. *)
LEMMA Distributed ==
  ASSUME NEW a \in Int, NEW b \in Int, NEW c \in Int, NEW d \in Int
  PROVE  a * (b * c + d) = (a * b) * c + a * d
BY Z3

(* A product grows with its factor. *)
LEMMA Product ==
  ASSUME NEW a \in Int, NEW c \in Int, NEW b \in Nat \ {0}, a < c
  PROVE  b * a + b <= b * c
<1>1. b * (c - a) >= b /\ b * (c - a) = b * c - b * a
  BY Z3
<1>2. b * a \in Int /\ b * c \in Int /\ b * (c - a) \in Int
  OBVIOUS
<1> QED
  BY <1>1, <1>2

(* A number has one quotient and one rest. *)
LEMMA OneDivision ==
  ASSUME NEW b \in Nat \ {0}, NEW q \in Int, NEW p \in Int, NEW r \in Int, NEW s \in Int,
         0 <= r, r < b, 0 <= s, s < b, b * q + r = b * p + s
  PROVE  q = p /\ r = s
<1>1. b * q \in Int /\ b * p \in Int
  OBVIOUS
<1>2. CASE q < p
  <2>1. b * q + b <= b * p
    BY <1>2, Product
  <2> QED
    BY <1>1, <2>1
<1>3. CASE p < q
  <2>1. b * p + b <= b * q
    BY <1>3, Product
  <2> QED
    BY <1>1, <2>1
<1>4. CASE p = q
  BY <1>1, <1>4
<1> QED
  BY <1>2, <1>3, <1>4

(* A division repaired by hand is the division that rounds down. *)
LEMMA RepairedDivision ==
  ASSUME NEW a \in Int, NEW b \in Nat \ {0}
  PROVE  /\ RepairedDiv(a, b) \in Int /\ RepairedRem(a, b) \in 0 .. b - 1
         /\ a = b * RepairedDiv(a, b) + RepairedRem(a, b)
<1>1. CASE a >= 0
  <2>0. a \in Nat
    BY <1>1
  <2>1. a \div b \in Nat /\ a % b \in 0 .. b - 1 /\ a = b * (a \div b) + (a % b)
    BY <2>0, Divided, Zenon
  <2>2. PICK q \in Nat, r \in 0 .. b - 1 : q = a \div b /\ a = b * q + r
    BY <2>1
  <2>3. TruncDiv(a, b) = q /\ TruncRem(a, b) = r
    BY <1>1, <2>2 DEF TruncDiv, TruncRem
  <2>4. RepairedDiv(a, b) = q /\ RepairedRem(a, b) = r
    BY <2>2, <2>3 DEF RepairedDiv, RepairedRem
  <2>5. q \in Int /\ r \in 0 .. b - 1 /\ a = b * q + r
    BY <2>2
  <2> QED
    BY <2>4, <2>5, Zenon
<1>2. CASE a < 0
  <2>1. PICK q \in Nat, r \in 0 .. b - 1 : q = (-a) \div b /\ -a = b * q + r
    <3>1. -a \in Nat
      BY <1>2
    <3>2. (-a) \div b \in Nat /\ (-a) % b \in 0 .. b - 1 /\ -a = b * ((-a) \div b) + ((-a) % b)
      BY <3>1, Divided
    <3> QED
      BY <3>2
  <2>2. b * q \in Int /\ b * (-q) = -(b * q) /\ b * (-q - 1) = -(b * q) - b
    BY Z3
  <2>3. TruncDiv(a, b) = -q /\ TruncRem(a, b) = -r
    BY <1>2, <2>1, <2>2 DEF TruncDiv, TruncRem
  <2>4. CASE r = 0
    <3>1. RepairedDiv(a, b) = -q /\ RepairedRem(a, b) = 0
      BY <2>3, <2>4 DEF RepairedDiv, RepairedRem
    <3> QED
      BY <2>1, <2>2, <2>4, <3>1
  <2>5. CASE r # 0
    <3>1. RepairedDiv(a, b) = -q - 1 /\ RepairedRem(a, b) = b - r
      BY <2>3, <2>5 DEF RepairedDiv, RepairedRem
    <3> QED
      BY <2>1, <2>2, <2>5, <3>1
  <2> QED
    BY <2>4, <2>5
<1> QED
  BY <1>1, <1>2

(* The seconds of a day: which day, and which second of it. *)
LEMMA DayAndSecond ==
  ASSUME NEW d \in Int, NEW s \in 0 .. SecondsPerDay - 1
  PROVE  /\ SecondsPerDay * d + s \in Int
         /\ DayNumber(SecondsPerDay * d + s) = d
         /\ SecondOfDay(SecondsPerDay * d + s) = s
<1>1. SecondsPerDay \in Nat \ {0}
  BY UnitFacts
<1>2. SecondsPerDay * d + s \in Int
  BY <1>1
<1>3. PICK q \in Int, r \in 0 .. SecondsPerDay - 1 :
        /\ q = DayNumber(SecondsPerDay * d + s) /\ r = SecondOfDay(SecondsPerDay * d + s)
        /\ SecondsPerDay * d + s = SecondsPerDay * q + r
  BY <1>1, <1>2, RepairedDivision DEF DayNumber, SecondOfDay
<1>4. q = d /\ r = s
  BY <1>1, <1>3, OneDivision
<1> QED
  BY <1>2, <1>3, <1>4

(* The hands of the clock at a second of the day. *)
HourOf(s)   == s \div SecondsPerHour
MinuteOf(s) == (s \div SecondsPerMinute) % MinutesPerHour
SecondOf(s) == s % SecondsPerMinute

(* They are in range and tell the second. *)
LEMMA HourMinuteSecond ==
  ASSUME NEW s \in 0 .. SecondsPerDay - 1
  PROVE  /\ HourOf(s) \in 0 .. HoursPerDay - 1
         /\ MinuteOf(s) \in 0 .. MinutesPerHour - 1
         /\ SecondOf(s) \in 0 .. SecondsPerMinute - 1
         /\ s = SecondsPerHour * HourOf(s) + SecondsPerMinute * MinuteOf(s) + SecondOf(s)
         /\ s = SecondsPerMinute * (MinutesPerHour * HourOf(s) + MinuteOf(s)) + SecondOf(s)
<1> USE UnitFacts
<1>1. s \in Nat /\ s < SecondsPerDay
  OBVIOUS
<1>2. PICK q \in Nat, r \in 0 .. SecondsPerMinute - 1 :
        q = s \div SecondsPerMinute /\ r = s % SecondsPerMinute /\ s = SecondsPerMinute * q + r
  BY <1>1, Divided
<1>3. PICK h \in Nat, m \in 0 .. MinutesPerHour - 1 :
        m = q % MinutesPerHour /\ q = MinutesPerHour * h + m
  <2>1. /\ q \div MinutesPerHour \in Nat /\ q % MinutesPerHour \in 0 .. MinutesPerHour - 1
        /\ q = MinutesPerHour * (q \div MinutesPerHour) + (q % MinutesPerHour)
    BY Divided, Zenon
  <2> QED
    BY <2>1
<1>4. PICK g \in Nat, t \in 0 .. SecondsPerHour - 1 : g = s \div SecondsPerHour /\ s = SecondsPerHour * g + t
  BY <1>1, Divided
<1>5. s = SecondsPerHour * h + (SecondsPerMinute * m + r)
  <2>1. SecondsPerMinute * (MinutesPerHour * h + m) = (SecondsPerMinute * MinutesPerHour) * h + SecondsPerMinute * m
    BY Distributed
  <2>2. s = (SecondsPerHour * h + SecondsPerMinute * m) + r
    BY <1>2, <1>3, <2>1
  <2>3. SecondsPerHour * h \in Int /\ SecondsPerMinute * m \in Int
    OBVIOUS
  <2> QED
    BY <2>2, <2>3
<1>6. SecondsPerMinute * m + r \in Nat /\ SecondsPerMinute * m + r < SecondsPerHour
  <2>1. SecondsPerMinute * m + SecondsPerMinute <= SecondsPerMinute * MinutesPerHour
    BY Product
  <2>2. SecondsPerMinute * m \in Nat
    BY Z3
  <2> QED
    BY <1>2, <2>1, <2>2
<1>7. g = h
  <2>1. PICK u \in Int : u = SecondsPerMinute * m + r /\ 0 <= u /\ u < SecondsPerHour
    BY <1>6
  <2>2. SecondsPerHour * g + t = SecondsPerHour * h + u
    BY <1>4, <1>5, <2>1, Zenon
  <2>3. 0 <= t /\ t < SecondsPerHour /\ t \in Int /\ g \in Int /\ h \in Int
    OBVIOUS
  <2> QED
    BY <2>1, <2>2, <2>3, OneDivision
<1>8. h < HoursPerDay
  <2>1. CASE h >= HoursPerDay
    <3>1. SecondsPerHour * HoursPerDay <= SecondsPerHour * h
      BY <2>1, Z3
    <3>2. SecondsPerHour * h \in Int
      OBVIOUS
    <3> QED
      BY <1>1, <1>5, <1>6, <3>1, <3>2
  <2> QED
    BY <2>1
<1>9. /\ HourOf(s) = h /\ MinuteOf(s) = m /\ SecondOf(s) = r
      /\ s = SecondsPerMinute * (MinutesPerHour * h + m) + r
  BY <1>2, <1>3, <1>4, <1>7, Zenon DEF HourOf, MinuteOf, SecondOf
<1>10. s = SecondsPerHour * h + SecondsPerMinute * m + r
  <2>1. SecondsPerHour * h \in Int /\ SecondsPerMinute * m \in Int
    OBVIOUS
  <2> QED
    BY <1>5, <2>1
<1>11. h \in 0 .. HoursPerDay - 1
  BY <1>8
<1> QED
  BY <1>9, <1>10, <1>11, Zenon

-----------------------------------------------------------------------------
(* Dates with a time of day *)

(* The quotient decides which of two numbers is less, then the rest. *)
LEMMA DivisionInOrder ==
  ASSUME NEW b \in Nat \ {0}, NEW q \in Int, NEW p \in Int, NEW r \in Int, NEW s \in Int,
         0 <= r, r < b, 0 <= s, s < b, b * q + r < b * p + s
  PROVE  q < p \/ (q = p /\ r < s)
<1>1. b * q \in Int /\ b * p \in Int
  OBVIOUS
<1>2. CASE p < q
  <2>1. b * p + b <= b * q
    BY <1>2, Product
  <2> QED
    BY <1>1, <2>1
<1>3. CASE p = q
  BY <1>1, <1>3
<1> QED
  BY <1>2, <1>3

(* The order of the seconds of a day is the order of the clock's hands. *)
LEMMA HandsInOrder ==
  ASSUME NEW s \in 0 .. SecondsPerDay - 1, NEW t \in 0 .. SecondsPerDay - 1, s < t
  PROVE  \/ HourOf(s) < HourOf(t)
         \/ HourOf(s) = HourOf(t) /\ MinuteOf(s) < MinuteOf(t)
         \/ HourOf(s) = HourOf(t) /\ MinuteOf(s) = MinuteOf(t) /\ SecondOf(s) < SecondOf(t)
<1> USE UnitFacts
<1>1. /\ HourOf(s) \in Int /\ MinuteOf(s) \in Int /\ 0 <= MinuteOf(s) /\ MinuteOf(s) < MinutesPerHour
      /\ SecondOf(s) \in Int /\ 0 <= SecondOf(s) /\ SecondOf(s) < SecondsPerMinute
      /\ s = SecondsPerMinute * (MinutesPerHour * HourOf(s) + MinuteOf(s)) + SecondOf(s)
  BY HourMinuteSecond
<1>2. /\ HourOf(t) \in Int /\ MinuteOf(t) \in Int /\ 0 <= MinuteOf(t) /\ MinuteOf(t) < MinutesPerHour
      /\ SecondOf(t) \in Int /\ 0 <= SecondOf(t) /\ SecondOf(t) < SecondsPerMinute
      /\ t = SecondsPerMinute * (MinutesPerHour * HourOf(t) + MinuteOf(t)) + SecondOf(t)
  BY HourMinuteSecond
<1>3. PICK q \in Int, p \in Int : /\ q = MinutesPerHour * HourOf(s) + MinuteOf(s)
                                /\ p = MinutesPerHour * HourOf(t) + MinuteOf(t)
  BY <1>1, <1>2
<1>4. SecondsPerMinute * q + SecondOf(s) < SecondsPerMinute * p + SecondOf(t)
  BY <1>1, <1>2, <1>3, Zenon
<1>5. q < p \/ (q = p /\ SecondOf(s) < SecondOf(t))
  BY <1>1, <1>2, <1>4, DivisionInOrder
<1>6. CASE q < p
  <2>1. MinutesPerHour * HourOf(s) + MinuteOf(s) < MinutesPerHour * HourOf(t) + MinuteOf(t)
    BY <1>3, <1>6, Zenon
  <2> QED
    BY <1>1, <1>2, <2>1, DivisionInOrder
<1>7. CASE q = p /\ SecondOf(s) < SecondOf(t)
  <2>1. MinutesPerHour * HourOf(s) + MinuteOf(s) = MinutesPerHour * HourOf(t) + MinuteOf(t)
    BY <1>3, <1>7, Zenon
  <2>2. HourOf(s) = HourOf(t) /\ MinuteOf(s) = MinuteOf(t)
    <3>1. PICK h \in Int, m \in Int, k \in Int, n \in Int :
            h = HourOf(s) /\ m = MinuteOf(s) /\ k = HourOf(t) /\ n = MinuteOf(t)
      BY <1>1, <1>2
    <3>2. /\ MinutesPerHour * h + m = MinutesPerHour * k + n
          /\ 0 <= m /\ m < MinutesPerHour /\ 0 <= n /\ n < MinutesPerHour
      BY <1>1, <1>2, <2>1, <3>1, Zenon
    <3>3. h = k /\ m = n
      BY <3>2, OneDivision
    <3> QED
      BY <3>1, <3>3
  <2> QED
    BY <1>7, <2>2
<1> QED
  BY <1>5, <1>6, <1>7

(* The derived order of DateTime, for values of the calendar. *)
LEMMA MomentsInOrder ==
  ASSUME NEW c, NEW e, ValidDate(c), ValidDate(e),
         NEW s \in 0 .. SecondsPerDay - 1, NEW t \in 0 .. SecondsPerDay - 1,
         NEW a \in Int, NEW b \in Int,
         \/ DayOf(c) < DayOf(e)
         \/ DayOf(c) = DayOf(e) /\ s < t
         \/ DayOf(c) = DayOf(e) /\ s = t /\ a <= b
  PROVE  NotAfter(OnDate(c, s, a), OnDate(e, t, b))
<1> DEFINE f == Fields(OnDate(c, s, a))
           g == Fields(OnDate(e, t, b))
<1>1. /\ f[1] = c.year /\ f[2] = c.month /\ f[3] = c.day
      /\ f[4] = HourOf(s) /\ f[5] = MinuteOf(s) /\ f[6] = SecondOf(s) /\ f[7] = a
  BY DEF Fields, OnDate, HourOf, MinuteOf, SecondOf
<1>2. /\ g[1] = e.year /\ g[2] = e.month /\ g[3] = e.day
      /\ g[4] = HourOf(t) /\ g[5] = MinuteOf(t) /\ g[6] = SecondOf(t) /\ g[7] = b
  BY DEF Fields, OnDate, HourOf, MinuteOf, SecondOf
<1>3. s = t /\ c = e /\ a = b => f = g
  OBVIOUS
<1> HIDE DEF f, g
<1>4. \/ f = g
      \/ f[1] < g[1]
      \/ f[1] = g[1] /\ f[2] < g[2]
      \/ f[1] = g[1] /\ f[2] = g[2] /\ f[3] < g[3]
      \/ f[1] = g[1] /\ f[2] = g[2] /\ f[3] = g[3] /\ f[4] < g[4]
      \/ f[1] = g[1] /\ f[2] = g[2] /\ f[3] = g[3] /\ f[4] = g[4] /\ f[5] < g[5]
      \/ f[1] = g[1] /\ f[2] = g[2] /\ f[3] = g[3] /\ f[4] = g[4] /\ f[5] = g[5] /\ f[6] < g[6]
      \/ f[1] = g[1] /\ f[2] = g[2] /\ f[3] = g[3] /\ f[4] = g[4] /\ f[5] = g[5] /\ f[6] = g[6] /\ f[7] < g[7]
  <2>1. CASE DayOf(c) < DayOf(e)
    <3>1. DayOf(c) \in Int /\ DayOf(e) \in Int
      BY DayInYear
    <3>2. c # e /\ ~ Before(e, c)
      BY <2>1, <3>1, DaysInOrder
    <3>3. c \in Dates /\ e \in Dates
      BY DEF ValidDate
    <3>4. Before(c, e)
      BY <3>2, <3>3 DEF Before, Dates
    <3> QED
      BY <1>1, <1>2, <3>4, Zenon DEF Before
  <2>2. CASE DayOf(c) = DayOf(e)
    <3>1. c = e
      BY <2>2, OneDateOfDay
    <3>2. DayOf(c) \in Int
      BY DayInYear
    <3>3. CASE s < t
      BY <1>1, <1>2, <3>1, <3>3, HandsInOrder, Zenon
    <3>4. CASE s = t /\ a < b
      BY <1>1, <1>2, <3>1, <3>4, Zenon
    <3>5. CASE s = t /\ a = b
      BY <1>3, <3>1, <3>5, Zenon
    <3>6. s < t \/ (s = t /\ a < b) \/ (s = t /\ a = b)
      BY <2>2, <3>2
    <3> QED
      BY <3>3, <3>4, <3>5, <3>6, Zenon
  <2> QED
    BY <2>1, <2>2
<1>5. CASE f = g
  BY <1>5 DEF NotAfter, f, g
<1>6. ASSUME NEW i \in 1 .. 7, f[i] < g[i], \A j \in 1 .. i - 1 : f[j] = g[j]
      PROVE  NotAfter(OnDate(c, s, a), OnDate(e, t, b))
  BY <1>6, Zenon DEF NotAfter, f, g
<1> QED
  <2>1. \/ f = g
        \/ \E i \in 1 .. 7 : f[i] < g[i] /\ \A j \in 1 .. i - 1 : f[j] = g[j]
    BY <1>4
  <2> QED
    BY <1>5, <1>6, <2>1

(* The two tables of the lengths of the months agree. *)
LEMMA DaysInMonthFacts ==
  ASSUME NEW year \in Int, NEW month \in 1 .. 12
  PROVE  DaysInMonth(year, month) = MonthLength(year, month)
<1>1. YearToDays(year).leap = Gregorian(year)
  BY YearToDaysFacts
<1>2. CASE Gregorian(year)
  BY <1>1, <1>2 DEF DaysInMonth, MonthLength
<1>3. CASE ~ Gregorian(year)
  BY <1>1, <1>3 DEF DaysInMonth, MonthLength
<1> QED
  BY <1>2, <1>3

(* date_time_to_seconds counts the seconds of a date and a time. *)
LEMMA SecondsOfDate ==
  ASSUME NEW c, ValidDate(c), NEW s \in 0 .. SecondsPerDay - 1, NEW a
  PROVE  DateTimeToSeconds(OnDate(c, s, a)) = SecondsPerDay * DayOf(c) + s
<1> USE UnitFacts
<1>1. PICK y \in Int, m \in 1 .. 12, d \in 1 .. 31 : y = c.year /\ m = c.month /\ d = c.day
  BY DayInYear
<1>2. YearToDays(y).days = StartOf(y) /\ YearToDays(y).leap = Gregorian(y)
  BY YearToDaysFacts
<1>3. StartOf(y) + MonthToDays(m, Gregorian(y)) + d - 1 = DayOf(c) /\ DayOf(c) \in Int
  BY <1>1, DayInYear DEF DayOf
<1>4. /\ HourOf(s) \in Int /\ MinuteOf(s) \in Int /\ SecondOf(s) \in Int
      /\ s = SecondsPerHour * HourOf(s) + SecondsPerMinute * MinuteOf(s) + SecondOf(s)
  BY HourMinuteSecond
<1>5. OnDate(c, s, a) = [year |-> y, month |-> m, day |-> d, hour |-> HourOf(s), minute |-> MinuteOf(s),
                         second |-> SecondOf(s), nanos |-> a]
  BY <1>1, Zenon DEF OnDate, HourOf, MinuteOf, SecondOf
<1>6. DateTimeToSeconds(OnDate(c, s, a)) =
        SecondsPerDay * (YearToDays(y).days + MonthToDays(m, YearToDays(y).leap) + d - 1)
          + SecondsPerHour * HourOf(s) + SecondsPerMinute * MinuteOf(s) + SecondOf(s)
  BY <1>5 DEF DateTimeToSeconds
<1>7. DateTimeToSeconds(OnDate(c, s, a)) =
        SecondsPerDay * DayOf(c) + SecondsPerHour * HourOf(s) + SecondsPerMinute * MinuteOf(s) + SecondOf(s)
  BY <1>2, <1>3, <1>6, Zenon
<1>8. PICK u \in Int, v \in Int, w \in Int :
        u = SecondsPerDay * DayOf(c) /\ v = SecondsPerHour * HourOf(s) /\ w = SecondsPerMinute * MinuteOf(s)
  BY <1>3, <1>4
<1>9. DateTimeToSeconds(OnDate(c, s, a)) = u + v + w + SecondOf(s) /\ s = v + w + SecondOf(s)
  BY <1>4, <1>7, <1>8, Zenon
<1>10. u + v + w + SecondOf(s) = u + (v + w + SecondOf(s))
  BY <1>4
<1> QED
  BY <1>8, <1>9, <1>10, Zenon

-----------------------------------------------------------------------------
(* From timestamps to dates *)

(* A canonical value, and what normalize makes of a message. *)
Canonicals == [seconds : Seconds, nanos : 0 .. NanosMax]

(* The integers of the instance are those of this module. *)
LEMMA SameIntegers ==
  /\ TS!Earliest = [seconds |-> MinSeconds, nanos |-> 0]
  /\ TS!Latest = [seconds |-> MaxSeconds, nanos |-> NanosMax]
  /\ \A n : TS!FitsSeconds(n) <=> FitsSeconds(n)
  /\ \A n : TS!Quotient(n) = Quotient(n) /\ TS!Remainder(n) = Remainder(n)
<1>1. TS!Earliest = [seconds |-> MinSeconds, nanos |-> 0]
  BY Zenon DEF TS!Earliest, TS!MinSeconds, MinSeconds
<1>2. TS!Latest = [seconds |-> MaxSeconds, nanos |-> NanosMax]
  BY Zenon DEF TS!Latest, TS!NanosMax, NanosMax
<1>3. ASSUME NEW n PROVE TS!FitsSeconds(n) <=> FitsSeconds(n)
  BY Zenon DEF TS!FitsSeconds, TS!Seconds, TS!MinSeconds, FitsSeconds, Seconds, MinSeconds
<1>4. ASSUME NEW n PROVE TS!Quotient(n) = Quotient(n) /\ TS!Remainder(n) = Remainder(n)
  BY Zenon DEF TS!Quotient, TS!Remainder, Quotient, Remainder
<1> QED
  BY <1>1, <1>2, <1>3, <1>4, Zenon

(* A canonical value stays what it is. *)
LEMMA NormalizedStays ==
  ASSUME NEW t \in Canonicals
  PROVE  TS!Normalized(t) = t
<1>1. t.nanos \in Int /\ t.nanos >= 0 /\ t.nanos < NanosPerSecond
  BY ConstantFacts DEF Canonicals, NanosMax
<1>2. TS!CarrySeconds(t) = t
  BY <1>1, ConstantFacts DEF TS!CarrySeconds
<1> QED
  BY <1>1, <1>2 DEF TS!Normalized, TS!BorrowSecond

(* Every message is normalized to one. *)
LEMMA NormalizedIsCanonical ==
  ASSUME NEW t \in Values
  PROVE  TS!Normalized(t) \in Canonicals
<1>1. t \in [seconds : Seconds, nanos : Int] /\ t.nanos \in Int /\ t.seconds \in Int
  BY ConstantFacts DEF Values, Nanos, Seconds, MinNanos, MinSeconds
<1>2. PICK c : /\ c = TS!CarrySeconds(t)
               /\ c \in [seconds : Seconds, nanos : Int]
               /\ -NanosPerSecond < c.nanos /\ c.nanos < NanosPerSecond
  <2> DEFINE c == TS!CarrySeconds(t)
  <2>1. CASE -NanosPerSecond < t.nanos /\ t.nanos < NanosPerSecond
    <3>1. c = t
      BY <2>1 DEF TS!CarrySeconds
    <3> QED
      BY <1>1, <2>1, <3>1
  <2>2. CASE /\ ~ (-NanosPerSecond < t.nanos /\ t.nanos < NanosPerSecond)
             /\ FitsSeconds(t.seconds + Quotient(t.nanos))
    <3>1. c = [seconds |-> t.seconds + Quotient(t.nanos), nanos |-> Remainder(t.nanos)]
      BY <2>2, SameIntegers DEF TS!CarrySeconds
    <3> QED
      BY <1>1, <2>2, <3>1, QuotientFacts DEF FitsSeconds
  <2>3. CASE /\ ~ (-NanosPerSecond < t.nanos /\ t.nanos < NanosPerSecond)
             /\ ~ FitsSeconds(t.seconds + Quotient(t.nanos))
    <3>1. c = TS!Earliest \/ c = TS!Latest
      BY <2>3, SameIntegers DEF TS!CarrySeconds
    <3> QED
      BY <3>1, ConstantFacts, SameIntegers DEF NanosMax, Seconds, MinSeconds
  <2> QED
    BY <2>1, <2>2, <2>3
<1>3. TS!Normalized(t) = TS!BorrowSecond(c)
  BY <1>2 DEF TS!Normalized
<1>4. c.seconds \in Seconds /\ c.nanos \in Int /\ c = [seconds |-> c.seconds, nanos |-> c.nanos]
  BY <1>2
<1>5. CASE c.nanos >= 0
  BY <1>2, <1>3, <1>4, <1>5, ConstantFacts DEF TS!BorrowSecond, Canonicals, NanosMax
<1>6. CASE c.nanos < 0 /\ FitsSeconds(c.seconds - 1)
  BY <1>2, <1>3, <1>4, <1>6, ConstantFacts, SameIntegers DEF TS!BorrowSecond, Canonicals, NanosMax, FitsSeconds
<1>7. CASE c.nanos < 0 /\ ~ FitsSeconds(c.seconds - 1)
  BY <1>2, <1>3, <1>4, <1>7, ConstantFacts, SameIntegers
     DEF TS!BorrowSecond, Canonicals, NanosMax, Seconds, MinSeconds
<1> QED
  BY <1>4, <1>5, <1>6, <1>7

(* DateTime::from of a canonical value: the date of its day, the hands at  *)
(* its second.                                                             *)
LEMMA DateTimeFromFacts ==
  ASSUME NEW t \in Canonicals
  PROVE  \E c : \E s \in 0 .. SecondsPerDay - 1 :
           /\ ValidDate(c)
           /\ t.seconds = SecondsPerDay * DayOf(c) + s
           /\ DateTimeFrom(t) = OnDate(c, s, t.nanos)
<1>1. t.seconds \in Int
  BY ConstantFacts DEF Canonicals, Seconds, MinSeconds
<1>2. PICK d \in Int, s \in 0 .. SecondsPerDay - 1 :
        d = DayNumber(t.seconds) /\ s = SecondOfDay(t.seconds) /\ t.seconds = SecondsPerDay * d + s
  <2>1. /\ DayNumber(t.seconds) \in Int /\ SecondOfDay(t.seconds) \in 0 .. SecondsPerDay - 1
        /\ t.seconds = SecondsPerDay * DayNumber(t.seconds) + SecondOfDay(t.seconds)
    BY <1>1, UnitFacts, RepairedDivision, Zenon DEF DayNumber, SecondOfDay
  <2> QED
    BY <2>1, Zenon
<1>3. ValidDate(DateOf(d)) /\ DayOf(DateOf(d)) = d
  BY DateOfFacts
<1>4. DateTimeFrom(t) = OnDate(DateOf(d), s, t.nanos)
  BY <1>2, NormalizedStays, Zenon DEF DateTimeFrom
<1> QED
  BY <1>2, <1>3, <1>4, Zenon

(* and of the seconds of a day and a date. *)
LEMMA DateTimeFromDate ==
  ASSUME NEW c, ValidDate(c), NEW s \in 0 .. SecondsPerDay - 1, NEW a \in 0 .. NanosMax,
         FitsSeconds(SecondsPerDay * DayOf(c) + s)
  PROVE  DateTimeFrom([seconds |-> SecondsPerDay * DayOf(c) + s, nanos |-> a]) = OnDate(c, s, a)
<1> DEFINE t == [seconds |-> SecondsPerDay * DayOf(c) + s, nanos |-> a]
<1>1. t \in Canonicals /\ t.seconds = SecondsPerDay * DayOf(c) + s /\ t.nanos = a
  BY DEF Canonicals, FitsSeconds
<1>2. DayOf(c) \in Int
  BY DayInYear
<1>3. DayNumber(t.seconds) = DayOf(c) /\ SecondOfDay(t.seconds) = s
  BY <1>1, <1>2, DayAndSecond, Zenon
<1>4. DateOf(DayOf(c)) = c
  BY DateOfDay
<1>5. TS!Normalized(t) = t
  BY <1>1, NormalizedStays
<1> QED
  BY <1>1, <1>3, <1>4, <1>5, Zenon DEF DateTimeFrom

(* An earlier second is on an earlier day, or earlier that day. *)
LEMMA SecondsInOrder ==
  ASSUME NEW d \in Int, NEW e \in Int, NEW s \in 0 .. SecondsPerDay - 1, NEW t \in 0 .. SecondsPerDay - 1,
         SecondsPerDay * d + s <= SecondsPerDay * e + t
  PROVE  d < e \/ (d = e /\ s < t) \/ (d = e /\ s = t)
<1>1. SecondsPerDay \in Nat \ {0}
  BY UnitFacts
<1>2. SecondsPerDay * d \in Int /\ SecondsPerDay * e \in Int
  BY <1>1
<1>3. CASE e < d
  <2>1. SecondsPerDay * e + SecondsPerDay <= SecondsPerDay * d
    BY <1>1, <1>3, Product
  <2> QED
    BY <1>1, <1>2, <2>1
<1>4. CASE d = e
  BY <1>2, <1>4
<1> QED
  BY <1>3, <1>4

(* The first moment of the range is a date and a time of the calendar. *)
LEMMA FirstMoment ==
  \E c : \E s \in 0 .. SecondsPerDay - 1 :
    /\ ValidDate(c) /\ MinSeconds = SecondsPerDay * DayOf(c) + s
    /\ MinDateTime = OnDate(c, s, 0)
<1>1. TS!Earliest \in Canonicals
  BY ConstantFacts, SameIntegers DEF Canonicals, NanosMax, Seconds, MinSeconds
<1>2. TS!Earliest.seconds = MinSeconds /\ TS!Earliest.nanos = 0
  BY SameIntegers
<1> QED
  BY <1>1, <1>2, DateTimeFromFacts, Zenon DEF MinDateTime

(* and so is the last. *)
LEMMA LastMoment ==
  \E c : \E s \in 0 .. SecondsPerDay - 1 :
    /\ ValidDate(c) /\ MaxSeconds = SecondsPerDay * DayOf(c) + s
    /\ MaxDateTime = OnDate(c, s, NanosMax)
<1>1. TS!Latest \in Canonicals
  BY ConstantFacts, SameIntegers DEF Canonicals, NanosMax, Seconds, MinSeconds
<1>2. TS!Latest.seconds = MaxSeconds /\ TS!Latest.nanos = NanosMax
  BY SameIntegers
<1> QED
  BY <1>1, <1>2, DateTimeFromFacts, Zenon DEF MaxDateTime

(* The range of the dates is the range of the seconds. *)
LEMMA DatesInRange ==
  ASSUME NEW c, ValidDate(c), NEW s \in 0 .. SecondsPerDay - 1, NEW a \in 0 .. NanosMax,
         FitsSeconds(SecondsPerDay * DayOf(c) + s)
  PROVE  /\ NotAfter(MinDateTime, OnDate(c, s, a))
         /\ NotAfter(OnDate(c, s, a), MaxDateTime)
<1>2. PICK lo : \E l \in 0 .. SecondsPerDay - 1 :
        /\ ValidDate(lo) /\ MinSeconds = SecondsPerDay * DayOf(lo) + l
        /\ MinDateTime = OnDate(lo, l, 0)
  BY FirstMoment, Zenon
<1>3. PICK l \in 0 .. SecondsPerDay - 1 :
        /\ ValidDate(lo) /\ MinSeconds = SecondsPerDay * DayOf(lo) + l
        /\ MinDateTime = OnDate(lo, l, 0)
  BY <1>2
<1>4. PICK hi : \E h \in 0 .. SecondsPerDay - 1 :
        /\ ValidDate(hi) /\ MaxSeconds = SecondsPerDay * DayOf(hi) + h
        /\ MaxDateTime = OnDate(hi, h, NanosMax)
  BY LastMoment, Zenon
<1>5. PICK h \in 0 .. SecondsPerDay - 1 :
        /\ ValidDate(hi) /\ MaxSeconds = SecondsPerDay * DayOf(hi) + h
        /\ MaxDateTime = OnDate(hi, h, NanosMax)
  BY <1>4
<1>6. DayOf(lo) \in Int /\ DayOf(c) \in Int /\ DayOf(hi) \in Int
  BY <1>3, <1>5, DayInYear
<1>7. NanosMax \in Int /\ a \in Int /\ 0 <= a /\ a <= NanosMax
  BY ConstantFacts DEF NanosMax
<1>8. /\ SecondsPerDay * DayOf(lo) + l <= SecondsPerDay * DayOf(c) + s
      /\ SecondsPerDay * DayOf(c) + s <= SecondsPerDay * DayOf(hi) + h
  <2>1. MinSeconds <= SecondsPerDay * DayOf(c) + s /\ SecondsPerDay * DayOf(c) + s <= MaxSeconds
    BY ConstantFacts DEF FitsSeconds, Seconds, MinSeconds
  <2> QED
    BY <1>3, <1>5, <2>1, Zenon
<1>9. NotAfter(MinDateTime, OnDate(c, s, a))
  <2>1. \/ DayOf(lo) < DayOf(c) \/ (DayOf(lo) = DayOf(c) /\ l < s) \/ (DayOf(lo) = DayOf(c) /\ l = s)
    BY <1>6, <1>8, SecondsInOrder
  <2>2. NotAfter(OnDate(lo, l, 0), OnDate(c, s, a))
    BY <1>3, <1>7, <2>1, MomentsInOrder
  <2> QED
    BY <1>3, <2>2, Zenon
<1>10. NotAfter(OnDate(c, s, a), MaxDateTime)
  <2>1. \/ DayOf(c) < DayOf(hi) \/ (DayOf(c) = DayOf(hi) /\ s < h) \/ (DayOf(c) = DayOf(hi) /\ s = h)
    BY <1>6, <1>8, SecondsInOrder
  <2>2. NotAfter(OnDate(c, s, a), OnDate(hi, h, NanosMax))
    BY <1>5, <1>7, <2>1, MomentsInOrder
  <2> QED
    BY <1>5, <2>2, Zenon
<1> QED
  BY <1>9, <1>10

(* is_valid accepts every moment of the calendar in that range. *)
LEMMA CalendarDatesAreValid ==
  ASSUME NEW c, ValidDate(c), NEW s \in 0 .. SecondsPerDay - 1, NEW a \in 0 .. NanosMax,
         FitsSeconds(SecondsPerDay * DayOf(c) + s)
  PROVE  IsValid(OnDate(c, s, a))
<1>1. PICK y \in Int, m \in 1 .. 12, d \in 1 .. 31 :
        y = c.year /\ m = c.month /\ d = c.day /\ d <= MonthLength(y, m)
  BY DEF ValidDate, Dates
<1>2. /\ HourOf(s) < HoursPerDay /\ MinuteOf(s) < MinutesPerHour /\ SecondOf(s) < SecondsPerMinute
  <2>1. /\ HourOf(s) \in 0 .. HoursPerDay - 1 /\ MinuteOf(s) \in 0 .. MinutesPerHour - 1
        /\ SecondOf(s) \in 0 .. SecondsPerMinute - 1
    BY HourMinuteSecond
  <2> QED
    BY <2>1, UnitFacts
<1>3. a < NanosPerSecond
  BY ConstantFacts DEF NanosMax
<1>4. d <= DaysInMonth(y, m) /\ 0 < d
  BY <1>1, DaysInMonthFacts
<1>5. OnDate(c, s, a) = [year |-> y, month |-> m, day |-> d, hour |-> HourOf(s), minute |-> MinuteOf(s),
                         second |-> SecondOf(s), nanos |-> a]
  BY <1>1, Zenon DEF OnDate, HourOf, MinuteOf, SecondOf
<1> QED
  BY <1>2, <1>3, <1>4, <1>5, DatesInRange DEF IsValid

(* Two dates neither of which is after the other have the same fields. *)
LEMMA NeitherAfter ==
  ASSUME NEW x, NEW y, NotAfter(x, y), NotAfter(y, x),
         \A i \in 1 .. 7 : Fields(x)[i] \in Int /\ Fields(y)[i] \in Int
  PROVE  Fields(x) = Fields(y)
<1> DEFINE f == Fields(x)
           g == Fields(y)
<1>1. \A i \in 1 .. 7 : f[i] \in Int /\ g[i] \in Int
  OBVIOUS
<1>2. f = g \/ \E i \in 1 .. 7 : f[i] < g[i] /\ \A j \in 1 .. i - 1 : f[j] = g[j]
  BY Zenon DEF NotAfter
<1>3. g = f \/ \E i \in 1 .. 7 : g[i] < f[i] /\ \A j \in 1 .. i - 1 : g[j] = f[j]
  BY Zenon DEF NotAfter
<1> HIDE DEF f, g
<1>4. ASSUME NEW i \in 1 .. 7, f[i] < g[i], \A j \in 1 .. i - 1 : f[j] = g[j],
             NEW k \in 1 .. 7, g[k] < f[k], \A j \in 1 .. k - 1 : g[j] = f[j]
      PROVE  FALSE
  <2>1. CASE i < k
    <3>1. g[i] = f[i] /\ f[i] \in Int
      BY <1>1, <1>4, <2>1
    <3> QED
      BY <1>4, <3>1
  <2>2. CASE k < i
    <3>1. f[k] = g[k] /\ f[k] \in Int
      BY <1>1, <1>4, <2>2
    <3> QED
      BY <1>4, <3>1
  <2>3. CASE i = k
    BY <1>1, <1>4, <2>3
  <2> QED
    BY <2>1, <2>2, <2>3
<1>5. f = g
  BY <1>2, <1>3, <1>4
<1> QED
  BY <1>5 DEF f, g

(* The order of DateTime is the order of the seconds. *)
LEMMA SecondsFollowDates ==
  ASSUME NEW c, NEW e, ValidDate(c), ValidDate(e),
         NEW s \in 0 .. SecondsPerDay - 1, NEW t \in 0 .. SecondsPerDay - 1,
         NEW a \in Int, NEW b \in Int,
         NotAfter(OnDate(c, s, a), OnDate(e, t, b))
  PROVE  SecondsPerDay * DayOf(c) + s <= SecondsPerDay * DayOf(e) + t
<1>1. DayOf(c) \in Int /\ DayOf(e) \in Int /\ SecondsPerDay \in Nat \ {0}
  BY DayInYear, UnitFacts
<1>2. SecondsPerDay * DayOf(c) \in Int /\ SecondsPerDay * DayOf(e) \in Int /\ s \in Int /\ t \in Int
  BY <1>1
<1> SUFFICES ASSUME SecondsPerDay * DayOf(e) + t < SecondsPerDay * DayOf(c) + s
             PROVE  FALSE
  BY <1>2
<1>3. DayOf(e) < DayOf(c) \/ (DayOf(e) = DayOf(c) /\ t < s)
  <2>1. SecondsPerDay * DayOf(e) + t <= SecondsPerDay * DayOf(c) + s
    BY <1>2
  <2>2. \/ DayOf(e) < DayOf(c) \/ (DayOf(e) = DayOf(c) /\ t < s)
        \/ (DayOf(e) = DayOf(c) /\ t = s)
    BY <1>1, <2>1, SecondsInOrder
  <2>3. ~ (DayOf(e) = DayOf(c) /\ t = s)
    BY <1>2
  <2> QED
    BY <2>2, <2>3, Zenon
<1>4. NotAfter(OnDate(e, t, b), OnDate(c, s, a))
  BY <1>3, MomentsInOrder
<1> DEFINE f == Fields(OnDate(c, s, a))
           g == Fields(OnDate(e, t, b))
<1>5. /\ f[1] = c.year /\ f[2] = c.month /\ f[3] = c.day
      /\ f[4] = HourOf(s) /\ f[5] = MinuteOf(s) /\ f[6] = SecondOf(s) /\ f[7] = a
  BY DEF Fields, OnDate, HourOf, MinuteOf, SecondOf
<1>6. /\ g[1] = e.year /\ g[2] = e.month /\ g[3] = e.day
      /\ g[4] = HourOf(t) /\ g[5] = MinuteOf(t) /\ g[6] = SecondOf(t) /\ g[7] = b
  BY DEF Fields, OnDate, HourOf, MinuteOf, SecondOf
<1>7. /\ c.year \in Int /\ c.month \in Int /\ c.day \in Int
      /\ e.year \in Int /\ e.month \in Int /\ e.day \in Int
      /\ c = [year |-> c.year, month |-> c.month, day |-> c.day]
      /\ e = [year |-> e.year, month |-> e.month, day |-> e.day]
  BY DayInYear
<1>8. /\ HourOf(s) \in Int /\ MinuteOf(s) \in Int /\ SecondOf(s) \in Int
      /\ HourOf(t) \in Int /\ MinuteOf(t) \in Int /\ SecondOf(t) \in Int
      /\ s = SecondsPerHour * HourOf(s) + SecondsPerMinute * MinuteOf(s) + SecondOf(s)
      /\ t = SecondsPerHour * HourOf(t) + SecondsPerMinute * MinuteOf(t) + SecondOf(t)
  BY HourMinuteSecond
<1> HIDE DEF f, g
<1>9. \A i \in 1 .. 7 : f[i] \in Int /\ g[i] \in Int
  BY <1>5, <1>6, <1>7, <1>8
<1>10. f = g
  <2>1. \A i \in 1 .. 7 : Fields(OnDate(c, s, a))[i] \in Int /\ Fields(OnDate(e, t, b))[i] \in Int
    BY <1>9, Zenon DEF f, g
  <2> QED
    BY <1>4, <2>1, NeitherAfter, Zenon DEF f, g
<1>11. c = e /\ s = t
  <2>1. HourOf(s) = HourOf(t) /\ MinuteOf(s) = MinuteOf(t) /\ SecondOf(s) = SecondOf(t)
        /\ c.year = e.year /\ c.month = e.month /\ c.day = e.day
    BY <1>5, <1>6, <1>10, Zenon
  <2> QED
    BY <1>7, <1>8, <2>1, Zenon
<1> QED
  BY <1>2, <1>11

(* and nothing but them: what is_valid accepts is in the range of i64. *)
LEMMA ValidDatesFit ==
  ASSUME NEW c, ValidDate(c), NEW s \in 0 .. SecondsPerDay - 1, NEW a \in 0 .. NanosMax,
         IsValid(OnDate(c, s, a))
  PROVE  FitsSeconds(SecondsPerDay * DayOf(c) + s)
<1>1. NotAfter(MinDateTime, OnDate(c, s, a)) /\ NotAfter(OnDate(c, s, a), MaxDateTime)
  BY Zenon DEF IsValid
<1>2. a \in Int /\ NanosMax \in Int
  BY ConstantFacts DEF NanosMax
<1>3. MinSeconds <= SecondsPerDay * DayOf(c) + s
  <2>1. PICK lo : \E l \in 0 .. SecondsPerDay - 1 :
          /\ ValidDate(lo) /\ MinSeconds = SecondsPerDay * DayOf(lo) + l
          /\ MinDateTime = OnDate(lo, l, 0)
    BY FirstMoment, Zenon
  <2>2. PICK l \in 0 .. SecondsPerDay - 1 :
          /\ ValidDate(lo) /\ MinSeconds = SecondsPerDay * DayOf(lo) + l
          /\ MinDateTime = OnDate(lo, l, 0)
    BY <2>1
  <2>3. NotAfter(OnDate(lo, l, 0), OnDate(c, s, a)) /\ 0 \in Int
    BY <1>1, <2>2
  <2>4. SecondsPerDay * DayOf(lo) + l <= SecondsPerDay * DayOf(c) + s
    BY <1>2, <2>2, <2>3, SecondsFollowDates
  <2> QED
    BY <2>2, <2>4, Zenon
<1>4. SecondsPerDay * DayOf(c) + s <= MaxSeconds
  <2>1. PICK hi : \E h \in 0 .. SecondsPerDay - 1 :
          /\ ValidDate(hi) /\ MaxSeconds = SecondsPerDay * DayOf(hi) + h
          /\ MaxDateTime = OnDate(hi, h, NanosMax)
    BY LastMoment, Zenon
  <2>2. PICK h \in 0 .. SecondsPerDay - 1 :
          /\ ValidDate(hi) /\ MaxSeconds = SecondsPerDay * DayOf(hi) + h
          /\ MaxDateTime = OnDate(hi, h, NanosMax)
    BY <2>1
  <2>3. NotAfter(OnDate(c, s, a), OnDate(hi, h, NanosMax))
    BY <1>1, <2>2, Zenon
  <2>4. SecondsPerDay * DayOf(c) + s <= SecondsPerDay * DayOf(hi) + h
    BY <1>2, <2>2, <2>3, SecondsFollowDates
  <2> QED
    BY <2>2, <2>4, Zenon
<1>5. SecondsPerDay * DayOf(c) + s \in Int
  <2>1. DayOf(c) \in Int /\ SecondsPerDay \in Nat
    BY DayInYear, UnitFacts
  <2>2. SecondsPerDay * DayOf(c) \in Int
    BY <2>1
  <2> QED
    BY <2>2
<1> QED
  BY <1>3, <1>4, <1>5, ConstantFacts DEF FitsSeconds, Seconds, MinSeconds

-----------------------------------------------------------------------------
(* The invariant *)

(* The clock shows a date the calendar has, the date of its day. *)
ClockInv == ValidDate(civil) /\ day = DayOf(civil)

(* What Display, FromStr and date_time_nanos leave behind at that date. *)
Displayed ==
  \E s \in SampleSeconds, n \in SampleNanos :
    /\ FitsSeconds(At(s, n).seconds)
    /\ moment = At(s, n)
    /\ text = TextOf(DateTimeFrom(At(s, n)))

ParsedOrNot ==
  \E x \in TextsOf(civil) :
    /\ text = x
    /\ \/ reply = "parsed" /\ Parses(x) /\ moment = ParsedFrom(x)
       \/ reply = "parse failure" /\ ~ Parses(x)

Asked(month, d, hour, nanos) ==
  [year |-> civil.year, month |-> month, day |-> d, hour |-> hour,
   minute |-> 0, second |-> 0, nanos |-> nanos]

Answered(month, d, hour, nanos) ==
  /\ text = [NoText EXCEPT !.month = month, !.day = d, !.hour = hour, !.fraction.value = nanos]
  /\ \/ /\ reply = "dated"
        /\ IsValid(Asked(month, d, hour, nanos))
        /\ moment = TimestampOf(Asked(month, d, hour, nanos))
     \/ reply = "invalid date" /\ ~ IsValid(Asked(month, d, hour, nanos))

DatedOrNot ==
  \E month \in AskedMonths, d \in AskedDays,
     hour \in AskedHours, nanos \in AskedNanos :
    Answered(month, d, hour, nanos)

ReplyInv ==
  \/ reply = "none"
  \/ reply = "text" /\ Displayed
  \/ ParsedOrNot
  \/ DatedOrNot

(* The inductive invariant. *)
IInv == ClockInv /\ ReplyInv

(* A year's length is a number of days. *)
LEMMA YearLengthIsInt ==
  ASSUME NEW year \in Int
  PROVE  YearLength(year) \in Int
BY DEF YearLength

(* The clock starts on the first of January 1970. *)
LEMMA InitClock ==
  Init => IInv
<1> SUFFICES ASSUME Init PROVE IInv
  OBVIOUS
<1>1. ValidDate(NewYear(1970)) /\ DayOf(NewYear(1970)) = StartOf(1970)
  BY NewYearFacts
<1>2. StartOf(1970) = 0
  BY DEF StartOf, LeapDaysBefore
<1>3. ClockInv
  BY <1>1, <1>2, SMT DEF Init, ClockInv
<1> QED
  BY <1>3 DEF Init, IInv, ReplyInv

(* Every step of the clock shows the date of the day it counts. *)
LEMMA ClockKept ==
  ASSUME ClockInv, Next
  PROVE  ClockInv'
<1> USE DEF ClockInv
<1>1. ASSUME Tick PROVE ClockInv'
  BY <1>1, NextDayFacts DEF Tick
<1>2. ASSUME SkipYear PROVE ClockInv'
  <2>1. PICK y \in Int : civil = NewYear(y) /\ y = civil.year
    BY <1>2, DayInYear DEF SkipYear
  <2>2. civil' = NewYear(y + 1) /\ day' = day + YearLength(y) /\ y + 1 \in Int
    BY <1>2, <2>1 DEF SkipYear
  <2>3. /\ DayOf(NewYear(y)) = StartOf(y)
        /\ ValidDate(NewYear(y + 1)) /\ DayOf(NewYear(y + 1)) = StartOf(y + 1)
    BY <2>2, NewYearFacts
  <2>4. StartOf(y + 1) = StartOf(y) + YearLength(y)
    BY NextStart
  <2> QED
    BY <2>1, <2>2, <2>3, <2>4
<1>3. ASSUME SkipBack PROVE ClockInv'
  <2>1. PICK y \in Int, z \in Int : civil = NewYear(y) /\ y = civil.year /\ z = y - 1 /\ y = z + 1
    BY <1>3, DayInYear DEF SkipBack
  <2>2. civil' = NewYear(z) /\ day' = day - YearLength(z)
    BY <1>3, <2>1 DEF SkipBack
  <2>3. /\ DayOf(NewYear(y)) = StartOf(y)
        /\ ValidDate(NewYear(z)) /\ DayOf(NewYear(z)) = StartOf(z)
    BY NewYearFacts
  <2>4. StartOf(y) = StartOf(z) + YearLength(z) /\ StartOf(z) \in Int /\ YearLength(z) \in Int
    BY <2>1, NextStart, YearLengthIsInt
  <2>5. day = StartOf(z) + YearLength(z)
    BY <2>1, <2>3, <2>4
  <2>6. day' = StartOf(z)
    BY <2>2, <2>4, <2>5
  <2> QED
    BY <2>2, <2>3, <2>6
<1>4. ASSUME Display \/ FromStr \/ DateTimeNanos PROVE ClockInv'
  <2>1. Sampled
    BY <1>4, Zenon DEF Display, FromStr, DateTimeNanos
  <2>2. day' = day /\ civil' = civil
    BY <2>1, SMT DEF Sampled
  <2> QED
    BY <2>2
<1> QED
  BY <1>1, <1>2, <1>3, <1>4 DEF Next

(* Every call leaves its result at the date the clock shows. *)
LEMMA ReplyKept ==
  ASSUME ReplyInv, Next
  PROVE  ReplyInv'
<1>1. ASSUME Tick \/ SkipYear \/ SkipBack PROVE ReplyInv'
  BY <1>1 DEF Tick, SkipYear, SkipBack, Silent, ReplyInv
<1>2. ASSUME Display PROVE ReplyInv'
  BY <1>2 DEF Display, Sampled, Displayed, At, ReplyInv
<1>3. ASSUME FromStr PROVE ReplyInv'
  <2>1. civil' = civil
    <3>1. Sampled
      BY <1>3, Zenon DEF FromStr
    <3> QED
      BY <3>1, SMT DEF Sampled
  <2>2. PICK x \in TextsOf(civil) :
          /\ text' = x
          /\ IF Parses(x) THEN moment' = ParsedFrom(x) /\ reply' = "parsed"
             ELSE UNCHANGED moment /\ reply' = "parse failure"
    BY <1>3, Zenon DEF FromStr
  <2>3. \/ reply' = "parsed" /\ Parses(x) /\ moment' = ParsedFrom(x)
        \/ reply' = "parse failure" /\ ~ Parses(x)
    BY <2>2, Zenon
  <2>4. ParsedOrNot'
    BY <2>1, <2>2, <2>3, Zenon DEF ParsedOrNot
  <2> QED
    BY <2>4 DEF ReplyInv
<1>4. ASSUME DateTimeNanos PROVE ReplyInv'
  <2>1. civil' = civil
    <3>1. Sampled
      BY <1>4, Zenon DEF DateTimeNanos
    <3> QED
      BY <3>1, SMT DEF Sampled
  <2>2. PICK month \in AskedMonths, d \in AskedDays,
             hour \in AskedHours, nanos \in AskedNanos :
          /\ text' = [NoText EXCEPT !.month = month, !.day = d, !.hour = hour, !.fraction.value = nanos]
          /\ IF IsValid(Asked(month, d, hour, nanos))
             THEN moment' = TimestampOf(Asked(month, d, hour, nanos)) /\ reply' = "dated"
             ELSE UNCHANGED moment /\ reply' = "invalid date"
    BY <1>4, Zenon DEF DateTimeNanos, Asked
  <2>3. \/ /\ reply' = "dated"
           /\ IsValid(Asked(month, d, hour, nanos))
           /\ moment' = TimestampOf(Asked(month, d, hour, nanos))
        \/ reply' = "invalid date" /\ ~ IsValid(Asked(month, d, hour, nanos))
    BY <2>2, Zenon
  <2>4. civil'.year = civil.year /\ civil'.month = civil.month
    BY <2>1
  <2>5. DatedOrNot'
    <3>1. month \in AskedMonths'
      BY <2>4 DEF AskedMonths
    <3>2. PICK t : t = Asked(month, d, hour, nanos) /\ t = Asked(month, d, hour, nanos)'
      BY <2>4, Zenon DEF Asked
    <3>3. \/ reply' = "dated" /\ IsValid(t) /\ moment' = TimestampOf(t)
          \/ reply' = "invalid date" /\ ~ IsValid(t)
      BY <2>3, <3>2, Zenon
    <3>4. (\/ reply = "dated" /\ IsValid(t) /\ moment = TimestampOf(t)
           \/ reply = "invalid date" /\ ~ IsValid(t))'
      BY <3>3, Zenon
    <3>5. (\/ /\ reply = "dated"
              /\ IsValid(Asked(month, d, hour, nanos))
              /\ moment = TimestampOf(Asked(month, d, hour, nanos))
           \/ reply = "invalid date" /\ ~ IsValid(Asked(month, d, hour, nanos)))'
      BY <3>2, <3>4, Zenon
    <3>6. Answered(month, d, hour, nanos)'
      BY <2>2, <3>5, Zenon DEF Answered
    <3> QED
      BY <3>1, <3>6, SMT DEF DatedOrNot
  <2> QED
    BY <2>5 DEF ReplyInv
<1> QED
  BY <1>1, <1>2, <1>3, <1>4 DEF Next

(* The invariant holds in every state. *)
THEOREM InvariantHolds == Spec => []IInv
<1>1. Init => IInv
  BY InitClock
<1>2. IInv /\ [Next]_vars => IInv'
  <2>1. ASSUME IInv, Next PROVE IInv'
    BY <2>1, ClockKept, ReplyKept DEF IInv
  <2>2. ASSUME IInv, UNCHANGED vars PROVE IInv'
    <3>1. day' = day /\ civil' = civil /\ moment' = moment /\ text' = text /\ reply' = reply
      BY <2>2 DEF vars
    <3>2. ClockInv'
      BY <2>2, <3>1 DEF IInv, ClockInv
    <3>3. /\ Displayed' <=> Displayed
          /\ ParsedOrNot' <=> ParsedOrNot
          /\ DatedOrNot' <=> DatedOrNot
      BY <3>1 DEF Displayed, ParsedOrNot, DatedOrNot, Answered, Asked, At, AskedMonths
    <3> QED
      BY <2>2, <3>1, <3>2, <3>3 DEF IInv, ReplyInv
  <2> QED
    BY <2>1, <2>2
<1> QED
  BY <1>1, <1>2, PTL DEF Spec

-----------------------------------------------------------------------------
(* The properties of the clock *)

(* year_to_seconds gives every year the start and the length of the        *)
(* Gregorian calendar, through each of its cases.                          *)
THEOREM YearsExact == Spec => []YearsHaveTheirLength
<1>1. IInv => YearsHaveTheirLength
  <2> SUFFICES ASSUME IInv PROVE YearsHaveTheirLength
    OBVIOUS
  <2>1. PICK y \in Int : y = civil.year
    BY DayInYear DEF IInv, ClockInv
  <2>2. y + 1 \in Int /\ YearToDays(y).days = StartOf(y) /\ YearToDays(y).leap = Gregorian(y)
    BY YearToDaysFacts
  <2>3. YearToDays(y + 1).days = StartOf(y + 1)
    BY <2>2, YearToDaysFacts
  <2>4. StartOf(y) \in Int /\ StartOf(y + 1) = StartOf(y) + YearLength(y) /\ YearLength(y) \in Int
    BY NextStart, YearLengthIsInt
  <2>5. YearToDays(y + 1).days - YearToDays(y).days = YearLength(y)
    BY <2>2, <2>3, <2>4
  <2> QED
    BY <2>1, <2>2, <2>5, Zenon DEF YearsHaveTheirLength
<1> QED
  BY <1>1, InvariantHolds, PTL

(* DateTime::from(Timestamp) and date_time_to_seconds agree with the wall  *)
(* calendar on every second of the range, and every date they show is      *)
(* valid.                                                                  *)
THEOREM CalendarExact == Spec => []CalendarMatchesClock
<1>1. IInv => CalendarMatchesClock
  <2> SUFFICES ASSUME IInv, NEW s \in 0 .. SecondsPerDay - 1, FitsSeconds(At(s, 0).seconds)
               PROVE  /\ DateTimeFrom(At(s, 0)) = Shown(s)
                      /\ IsValid(Shown(s))
                      /\ DateTimeToSeconds(Shown(s)) = At(s, 0).seconds
    BY DEF CalendarMatchesClock
  <2>1. ValidDate(civil) /\ day = DayOf(civil)
    BY DEF IInv, ClockInv
  <2>2. At(s, 0) = [seconds |-> SecondsPerDay * DayOf(civil) + s, nanos |-> 0]
        /\ At(s, 0).seconds = SecondsPerDay * DayOf(civil) + s
    BY <2>1 DEF At
  <2>3. 0 \in 0 .. NanosMax
    BY ConstantFacts DEF NanosMax
  <2>4. FitsSeconds(SecondsPerDay * DayOf(civil) + s)
    BY <2>2
  <2>5. DateTimeFrom(At(s, 0)) = OnDate(civil, s, 0)
    BY <2>1, <2>2, <2>3, <2>4, DateTimeFromDate, Zenon
  <2>6. IsValid(OnDate(civil, s, 0))
    BY <2>1, <2>3, <2>4, CalendarDatesAreValid, Zenon
  <2>7. DateTimeToSeconds(OnDate(civil, s, 0)) = At(s, 0).seconds
    BY <2>1, <2>2, SecondsOfDate, Zenon
  <2> QED
    BY <2>5, <2>6, <2>7, Zenon DEF Shown
<1> QED
  BY <1>1, InvariantHolds, PTL

(* The hands of a clock that shows a full hour and some seconds.           *)
LEMMA HandsAt ==
  ASSUME NEW h \in 0 .. HoursPerDay - 1, NEW r \in 0 .. SecondsPerMinute - 1
  PROVE  /\ SecondsPerHour * h + r \in 0 .. SecondsPerDay - 1
         /\ HourOf(SecondsPerHour * h + r) = h
         /\ MinuteOf(SecondsPerHour * h + r) = 0
         /\ SecondOf(SecondsPerHour * h + r) = r
<1>1. PICK hour \in Nat \ {0}, minute \in Nat \ {0} :
        /\ hour = SecondsPerHour /\ minute = SecondsPerMinute
  BY UnitFacts
<1>2. minute \in Int /\ hour = minute * MinutesPerHour /\ SecondsPerDay = hour * HoursPerDay
      /\ HoursPerDay \in Nat \ {0} /\ MinutesPerHour \in Nat \ {0} /\ SecondsPerDay \in Nat \ {0}
  BY <1>1, UnitFacts
<1>3. hour * h + hour <= hour * HoursPerDay
  BY <1>1, <1>2, Product
<1>4. minute * 0 + minute <= minute * MinutesPerHour /\ minute * 0 = 0
  BY <1>1, <1>2, Product
<1>5. hour * h \in Nat
  BY <1>1
<1>6. PICK s \in Nat : s = hour * h + r /\ s \in 0 .. SecondsPerDay - 1
  BY <1>1, <1>2, <1>3, <1>4, <1>5
<1>7. PICK H \in Nat, M \in Nat, S \in Nat :
        /\ H = HourOf(s) /\ M = MinuteOf(s) /\ S = SecondOf(s)
        /\ M \in 0 .. MinutesPerHour - 1 /\ S \in 0 .. minute - 1
        /\ s = hour * H + minute * M + S
  <2>1. /\ HourOf(s) \in 0 .. HoursPerDay - 1
        /\ MinuteOf(s) \in 0 .. MinutesPerHour - 1
        /\ SecondOf(s) \in 0 .. SecondsPerMinute - 1
        /\ s = SecondsPerHour * HourOf(s) + SecondsPerMinute * MinuteOf(s) + SecondOf(s)
    BY <1>6, HourMinuteSecond
  <2>2. HourOf(s) \in Nat /\ MinuteOf(s) \in Nat /\ SecondOf(s) \in Nat
    BY <2>1, UnitFacts
  <2> QED
    BY <1>1, <2>1, <2>2, Zenon
<1>8. minute * M + minute <= hour /\ minute * M \in Nat /\ hour * H \in Nat
  BY <1>1, <1>2, <1>7, Product
<1>9. PICK x \in Nat : x = minute * M + S /\ x < hour
  BY <1>1, <1>7, <1>8
<1>10. hour * h + r = hour * H + x
  BY <1>6, <1>7, <1>8, <1>9
<1>11. h \in Int /\ H \in Int /\ r \in Int /\ 0 <= r /\ r < hour
  BY <1>1, <1>2, <1>4
<1>12. h = H /\ r = x
  <2>1. x \in Int /\ 0 <= x /\ x < hour /\ hour \in Nat \ {0}
    BY <1>1, <1>9
  <2> QED
    BY <1>10, <1>11, <2>1, OneDivision, Zenon
<1>13. minute * 0 + r = minute * M + S /\ r < minute
  BY <1>1, <1>4, <1>9, <1>12
<1>14. M = 0 /\ r = S
  BY <1>1, <1>7, <1>11, <1>13, OneDivision
<1> QED
  BY <1>1, <1>6, <1>7, <1>12, <1>14

(* A full hour of a day of the month that the clock shows.                 *)
LEMMA DayOfMonth ==
  ASSUME NEW c, ValidDate(c), NEW d \in Nat \ {0}, d <= MonthLength(c.year, c.month),
         NEW h \in 0 .. HoursPerDay - 1, NEW a
  PROVE  LET e == [year |-> c.year, month |-> c.month, day |-> d]
         IN  /\ ValidDate(e)
             /\ DayOf(e) = DayOf(c) + d - c.day
             /\ SecondsPerHour * h \in 0 .. SecondsPerDay - 1
             /\ OnDate(e, SecondsPerHour * h, a) =
                   [year |-> c.year, month |-> c.month, day |-> d, hour |-> h,
                    minute |-> 0, second |-> 0, nanos |-> a]
<1> DEFINE e == [year |-> c.year, month |-> c.month, day |-> d]
<1>1. c.year \in Int /\ c.month \in 1 .. 12 /\ c.day \in Int
  BY DayInYear
<1>2. MonthLength(c.year, c.month) \in 28 .. 31 /\ MonthToDays(c.month, Gregorian(c.year)) \in Int
  BY <1>1, MonthFacts
<1>3. e.year = c.year /\ e.month = c.month /\ e.day = d
  OBVIOUS
<1>4. ValidDate(e)
  BY <1>1, <1>2 DEF ValidDate, Dates
<1>5. StartOf(c.year) \in Int
  BY <1>1, NextStart
<1>6. DayOf(e) = DayOf(c) + d - c.day
  BY <1>1, <1>2, <1>3, <1>5 DEF DayOf
<1>7. PICK s : s = SecondsPerHour * h
  OBVIOUS
<1>8. s \in 0 .. SecondsPerDay - 1 /\ HourOf(s) = h /\ MinuteOf(s) = 0 /\ SecondOf(s) = 0
  <2>1. 0 \in 0 .. SecondsPerMinute - 1 /\ SecondsPerHour * h + 0 = SecondsPerHour * h
    BY UnitFacts
  <2>2. SecondsPerHour * h + 0 = s
    BY <1>7, <2>1, Zenon
  <2> QED
    BY <2>1, <2>2, HandsAt, Zenon
<1>9. OnDate(e, s, a) = [year |-> c.year, month |-> c.month, day |-> d, hour |-> h,
                         minute |-> 0, second |-> 0, nanos |-> a]
  BY <1>3, <1>8, Zenon DEF OnDate, HourOf, MinuteOf, SecondOf
<1> QED
  BY <1>4, <1>6, <1>7, <1>8, <1>9, Zenon

(* What a refused date leaves of the caller's numbers.                     *)
LEMMA AnsweredFields ==
  ASSUME NEW month, NEW d, NEW hour, NEW nanos, Answered(month, d, hour, nanos)
  PROVE  /\ text.month = month /\ text.day = d /\ text.hour = hour
         /\ text.fraction.value = nanos
<1>1. OnDate(NewYear(0), 0, 0).nanos = 0
  BY DEF OnDate
<1>2. Subseconds(0) = NoFraction
  BY Zenon DEF Subseconds
<1>3. NoText.fraction = NoFraction
  BY <1>1, <1>2 DEF NoText, TextOf
<1>4. [NoFraction EXCEPT !.value = nanos].value = nanos
  BY DEF NoFraction
<1>5. text = [NoText EXCEPT !.month = month, !.day = d, !.hour = hour, !.fraction.value = nanos]
  BY Zenon DEF Answered
<1>6. text.month = month /\ text.day = d /\ text.hour = hour
      /\ text.fraction = [NoText.fraction EXCEPT !.value = nanos]
  BY <1>5 DEF NoText, TextOf
<1> QED
  BY <1>3, <1>4, <1>6

(* A date is accepted exactly when the wall calendar has it and its second *)
(* is in range, and the moment made of it is that second and those nanos.  *)
THEOREM DatesExact == Spec => []OnlyCalendarDates
<1>1. ASSUME IInv, NEW month \in AskedMonths, NEW d \in AskedDays,
             NEW hour \in AskedHours, NEW nanos \in AskedNanos,
             Answered(month, d, hour, nanos)
      PROVE  OnlyCalendarDates
  <2>1. ValidDate(civil) /\ day = DayOf(civil)
    BY <1>1 DEF IInv, ClockInv
  <2>2. civil.year \in Int /\ civil.month \in 1 .. 12 /\ civil.day \in Int /\ day \in Int
    BY <2>1, DayInYear
  <2>3. /\ text.month = month /\ text.day = d /\ text.hour = hour
        /\ text.fraction.value = nanos
    BY <1>1, AnsweredFields
  <2>4. HoursPerDay \in Nat \ {0} /\ NanosPerSecond \in Nat \ {0}
    BY UnitFacts, ConstantFacts
  <2>5. d \in Nat /\ hour \in Nat /\ nanos \in Nat /\ (month \in 1 .. 12 => month = civil.month)
    BY <1>1, <2>2, <2>4 DEF AskedMonths, AskedDays, AskedHours, AskedNanos
  <2>6. PICK t : t = Asked(month, d, hour, nanos)
    OBVIOUS
  <2>7. PICK second : second = SecondsPerDay * (day + d - civil.day) + SecondsPerHour * hour
    OBVIOUS
  <2>8. PICK there \in BOOLEAN :
          there <=> /\ month \in 1 .. 12 /\ 0 < d /\ d <= MonthLength(civil.year, month)
                    /\ hour < HoursPerDay /\ nanos < NanosPerSecond
    OBVIOUS
  <2>9. OnTheCalendar(text) <=> there
    <3>1. month \in 1 .. 12 => MonthLength(civil.year, month) \in 28 .. 31
      BY <2>2, MonthFacts
    <3>2. OnTheCalendar(text) <=>
            /\ month \in 1 .. 12 /\ d \in 1 .. MonthLength(civil.year, month)
            /\ hour \in 0 .. HoursPerDay - 1 /\ nanos \in 0 .. NanosPerSecond - 1
      BY <2>3, Zenon DEF OnTheCalendar
    <3> QED
      BY <2>4, <2>5, <2>8, <3>1, <3>2
  <2>10. ASSUME there
         PROVE  /\ DateTimeToSeconds(t) = second
                /\ IsValid(t) <=> FitsSeconds(second)
    <3>1. /\ month = civil.month /\ d \in Nat \ {0} /\ d <= MonthLength(civil.year, civil.month)
          /\ hour \in 0 .. HoursPerDay - 1 /\ nanos \in 0 .. NanosMax
      BY <2>4, <2>5, <2>8, <2>10 DEF NanosMax
    <3>2. PICK e : /\ ValidDate(e) /\ DayOf(e) = day + d - civil.day
                   /\ SecondsPerHour * hour \in 0 .. SecondsPerDay - 1
                   /\ t = OnDate(e, SecondsPerHour * hour, nanos)
      <4> DEFINE e == [year |-> civil.year, month |-> civil.month, day |-> d]
      <4>1. /\ ValidDate(e)
            /\ DayOf(e) = DayOf(civil) + d - civil.day
            /\ SecondsPerHour * hour \in 0 .. SecondsPerDay - 1
            /\ OnDate(e, SecondsPerHour * hour, nanos) =
                  [year |-> civil.year, month |-> civil.month, day |-> d, hour |-> hour,
                   minute |-> 0, second |-> 0, nanos |-> nanos]
        BY <2>1, <3>1, DayOfMonth
      <4>2. t = OnDate(e, SecondsPerHour * hour, nanos)
        BY <2>6, <3>1, <4>1, Zenon DEF Asked
      <4> HIDE DEF e
      <4> QED
        BY <2>1, <4>1, <4>2, Zenon
    <3>3. PICK s \in 0 .. SecondsPerDay - 1 : s = SecondsPerHour * hour
      BY <3>2
    <3>4. second = SecondsPerDay * DayOf(e) + s /\ t = OnDate(e, s, nanos)
      BY <2>7, <3>2, <3>3, Zenon
    <3>5. DateTimeToSeconds(t) = second
      BY <3>2, <3>4, SecondsOfDate, Zenon
    <3>6. FitsSeconds(second) => IsValid(t)
      BY <3>1, <3>2, <3>4, CalendarDatesAreValid, Zenon
    <3>7. IsValid(t) => FitsSeconds(second)
      BY <3>1, <3>2, <3>4, ValidDatesFit, Zenon
    <3> QED
      BY <3>5, <3>6, <3>7, Zenon
  <2>11. IsValid(t) => there
    <3>1. SUFFICES ASSUME IsValid(t) PROVE there
      OBVIOUS
    <3>2. /\ month \in 1 .. 12 /\ 0 < d /\ d <= DaysInMonth(civil.year, month)
          /\ hour < HoursPerDay /\ nanos < NanosPerSecond
      BY <2>6, <3>1 DEF IsValid, Asked
    <3>3. DaysInMonth(civil.year, month) = MonthLength(civil.year, month)
      BY <2>2, <3>2, DaysInMonthFacts
    <3> QED
      BY <2>8, <3>2, <3>3, Zenon
  <2>12. IsValid(t) <=> OnTheCalendar(text) /\ FitsSeconds(second)
    BY <2>9, <2>10, <2>11, Zenon
  <2>13. (reply = "dated" /\ IsValid(t) /\ moment = TimestampOf(t)) \/ (reply = "invalid date" /\ ~ IsValid(t))
    BY <1>1, <2>6, Zenon DEF Answered
  <2>14. (reply = "dated") <=> IsValid(t)
    BY <2>13, Zenon
  <2>15. ASSUME reply = "dated"
         PROVE  moment = [seconds |-> second, nanos |-> text.fraction.value]
    <3>1. IsValid(t) /\ moment = TimestampOf(t)
      BY <2>13, <2>14, <2>15, Zenon
    <3>2. DateTimeToSeconds(t) = second
      BY <2>10, <2>11, <3>1, Zenon
    <3>3. t.nanos = text.fraction.value
      BY <2>3, <2>6 DEF Asked
    <3> QED
      BY <3>1, <3>2, <3>3, Zenon DEF TimestampOf
  <2>16. second = SecondsPerDay * (day + text.day - civil.day) + SecondsPerHour * text.hour
    BY <2>3, <2>7, Zenon
  <2> QED
    BY <2>12, <2>14, <2>15, <2>16, Zenon DEF OnlyCalendarDates
<1>2. IInv => OnlyCalendarDates
  <2> SUFFICES ASSUME IInv PROVE OnlyCalendarDates
    OBVIOUS
  <2>1. CASE reply \in {"none", "text"} \/ ParsedOrNot
    <3>1. ParsedOrNot => reply = "parsed" \/ reply = "parse failure"
      BY Zenon DEF ParsedOrNot
    <3>2. reply # "dated" /\ reply # "invalid date"
      BY <2>1, <3>1, Zenon
    <3> QED
      BY <3>2, Zenon DEF OnlyCalendarDates
  <2>2. CASE DatedOrNot
    <3>1. PICK month \in AskedMonths, d \in AskedDays,
               hour \in AskedHours, nanos \in AskedNanos :
            Answered(month, d, hour, nanos)
      BY <2>2, SMT DEF DatedOrNot
    <3> QED
      BY <1>1, <3>1, SMT
  <2> QED
    BY <2>1, <2>2 DEF IInv, ReplyInv
<1> QED
  BY <1>2, InvariantHolds, PTL

-----------------------------------------------------------------------------
(* Text *)

(* The powers of the digit base in use: a digit, a group, two groups.      *)
LEMMA PowerFacts ==
  /\ DigitBase \in Nat \ {0} /\ DigitBase > 1 /\ GroupDigits \in Nat \ {0}
  /\ NanoDigits \in Nat \ {0} /\ NanoDigits = 3 * GroupDigits
  /\ \A k \in 0 .. NanoDigits : DigitBase ^ k \in Nat \ {0}
  /\ DigitBase ^ 0 = 1 /\ DigitBase ^ 1 = DigitBase
  /\ NanosPerSecond = DigitBase ^ NanoDigits
  /\ NanosPerSecond = DigitBase * DigitBase ^ (NanoDigits - 1)
  /\ DigitBase ^ (NanoDigits + 1) = DigitBase * NanosPerSecond
<1>1. DigitBase \in Nat \ {0} /\ DigitBase > 1 /\ GroupDigits \in Nat \ {0}
  BY DigitsAssumption
<1>2. NanoDigits \in Nat \ {0} /\ NanoDigits = 3 * GroupDigits
  BY <1>1 DEF NanoDigits
<1>3. \A k \in 0 .. NanoDigits : DigitBase ^ k \in Nat \ {0}
                                 /\ DigitBase ^ (k + 1) = DigitBase * DigitBase ^ k
  BY PowersAssumption
<1>4. DigitBase ^ 0 = 1
  BY PowersAssumption
<1>5. 0 \in 0 .. NanoDigits /\ 0 + 1 = 1 /\ NanoDigits - 1 \in 0 .. NanoDigits
      /\ (NanoDigits - 1) + 1 = NanoDigits
  BY <1>2
<1>6. DigitBase ^ (0 + 1) = DigitBase * DigitBase ^ 0
  BY <1>3, <1>5
<1>7. DigitBase * 1 = DigitBase
  BY <1>1
<1>8. DigitBase ^ 1 = DigitBase
  BY <1>4, <1>5, <1>6, <1>7, Zenon
<1>9. DigitBase ^ ((NanoDigits - 1) + 1) = DigitBase * DigitBase ^ (NanoDigits - 1)
  BY <1>3, <1>5
<1>10. DigitBase ^ NanoDigits = DigitBase * DigitBase ^ (NanoDigits - 1)
  BY <1>5, <1>9, Zenon
<1>11. NanosPerSecond = DigitBase ^ NanoDigits
  BY DigitsAssumption
<1>12. DigitBase ^ (NanoDigits + 1) = DigitBase * NanosPerSecond
  <2>1. NanoDigits \in 0 .. NanoDigits
    BY <1>2
  <2> QED
    BY <1>3, <1>11, <2>1, Zenon
<1> QED
  BY <1>1, <1>2, <1>3, <1>4, <1>8, <1>10, <1>11, <1>12, Zenon

(* A fraction of a second in groups of digits reads back as the nanos.     *)
LEMMA SubsecondsRead ==
  ASSUME NEW a \in 0 .. NanosMax
  PROVE  FractionParses(Subseconds(a)) /\ NanosIn(Subseconds(a)) = a
<1>1. CASE a = 0
  <2>1. Subseconds(a) = NoFraction
    BY <1>1, Zenon DEF Subseconds
  <2>2. ~ NoFraction.present
    BY Zenon DEF NoFraction
  <2> QED
    BY <1>1, <2>1, <2>2, Zenon DEF FractionParses, NanosIn
<1>2. CASE a # 0
  <2>1. a \in Nat
    BY ConstantFacts DEF NanosMax
  <2>2. PICK groups \in {1, 2, 3} :
          /\ groups = 1 => a % (DigitBase ^ (2 * GroupDigits)) = 0
          /\ groups = 2 => a % (DigitBase ^ GroupDigits) = 0
          /\ Subseconds(a) = [present |-> TRUE, digits |-> groups * GroupDigits,
                              value |-> a \div (DigitBase ^ (NanoDigits - (groups * GroupDigits)))]
    <3> DEFINE g == IF a % (DigitBase ^ (2 * GroupDigits)) = 0 THEN 1
                    ELSE IF a % (DigitBase ^ GroupDigits) = 0 THEN 2 ELSE 3
    <3>1. Subseconds(a) = [present |-> TRUE, digits |-> g * GroupDigits,
                           value |-> a \div (DigitBase ^ (NanoDigits - (g * GroupDigits)))]
      BY <1>2, Zenon DEF Subseconds
    <3>2. g \in {1, 2, 3}
      OBVIOUS
    <3>3. /\ g = 1 => a % (DigitBase ^ (2 * GroupDigits)) = 0
          /\ g = 2 => a % (DigitBase ^ GroupDigits) = 0
      OBVIOUS
    <3> HIDE DEF g
    <3> QED
      BY <3>1, <3>2, <3>3
  <2>3. PICK e \in 0 .. NanoDigits : e = NanoDigits - (groups * GroupDigits)
    <3>1. GroupDigits \in Nat \ {0} /\ NanoDigits = 3 * GroupDigits
      BY PowerFacts
    <3>2. groups * GroupDigits \in Nat /\ groups * GroupDigits <= NanoDigits
      BY <2>2, <3>1
    <3> QED
      BY <3>1, <3>2
  <2>4. PICK p \in Nat \ {0} : p = DigitBase ^ e
    BY <2>3, PowerFacts
  <2>5. a % p = 0
    <3>1. CASE groups = 1
      <4>1. e = 2 * GroupDigits
        BY <2>3, <3>1, PowerFacts
      <4> QED
        BY <2>2, <2>4, <3>1, <4>1, Zenon
    <3>2. CASE groups = 2
      <4>1. e = GroupDigits
        BY <2>3, <3>2, PowerFacts
      <4> QED
        BY <2>2, <2>4, <3>2, <4>1, Zenon
    <3>3. CASE groups = 3
      <4>1. e = 0
        BY <2>3, <3>3, PowerFacts
      <4>2. p = 1
        BY <2>4, <4>1, PowerFacts
      <4> QED
        BY <2>1, <4>2
    <3> QED
      BY <2>2, <3>1, <3>2, <3>3
  <2>6. a = p * (a \div p) + (a % p) /\ a \div p \in Nat
    <3>1. p \in Nat \ {0}
      BY <2>4
    <3> QED
      BY <2>1, <3>1, Divided
  <2>7. (a \div p) * p = a
    <3>1. PICK q \in Nat : q = a \div p
      BY <2>6
    <3>2. a = p * q + (a % p)
      BY <2>6, <3>1
    <3>3. q * p = a
      BY <2>4, <2>5, <3>1, <3>2
    <3> QED
      BY <3>1, <3>3, Zenon
  <2>8. /\ Subseconds(a).present
        /\ Subseconds(a).digits = groups * GroupDigits
        /\ Subseconds(a).value = a \div p
    <3>1. a \div p = a \div (DigitBase ^ (NanoDigits - (groups * GroupDigits)))
      BY <2>3, <2>4, Zenon
    <3>2. PICK digits, v :
            /\ digits = groups * GroupDigits
            /\ v = a \div (DigitBase ^ (NanoDigits - (groups * GroupDigits)))
      OBVIOUS
    <3>3. PICK f : f = Subseconds(a) /\ f = [present |-> TRUE, digits |-> digits, value |-> v]
      BY <2>2, <3>2, Zenon
    <3>4. f.present /\ f.digits = digits /\ f.value = v
      BY <3>3, SMT
    <3> QED
      BY <3>1, <3>2, <3>3, <3>4, Zenon
  <2>9. groups * GroupDigits > 0 /\ ~ (groups * GroupDigits > NanoDigits)
    BY <2>2, PowerFacts
  <2>10. FractionParses(Subseconds(a))
    BY <2>8, <2>9, Zenon DEF FractionParses
  <2>11. NanosIn(Subseconds(a)) = (a \div p) * (DigitBase ^ (NanoDigits - groups * GroupDigits))
    BY <2>8, <2>9, Zenon DEF NanosIn
  <2> QED
    BY <2>3, <2>4, <2>7, <2>10, <2>11, Zenon
<1> QED
  BY <1>1, <1>2

(* The digits of other producers are a number of whole nanos. *)
LEMMA FractionFacts ==
  ASSUME NEW f \in Fractions, FractionParses(f)
  PROVE  /\ NanosIn(f) \in 0 .. NanosMax
         /\ IF f.present THEN WholeNanos(f, NanosIn(f)) ELSE NanosIn(f) = 0
<1>1. /\ NanosPerSecond \in Nat \ {0}
      /\ \A n \in Nat : n < NanosPerSecond => n \in 0 .. NanosMax
  BY ConstantFacts DEF NanosMax
<1>2. CASE f = NoFraction
  <2>1. ~ f.present
    BY <1>2, Zenon DEF NoFraction
  <2>2. NanosIn(f) = 0
    BY <2>1, Zenon DEF NanosIn
  <2>3. NanosIn(f) \in 0 .. NanosMax
    BY <1>1, <2>2
  <2> QED
    BY <2>1, <2>2, <2>3, Zenon
<1>3. CASE f = [present |-> TRUE, digits |-> 0, value |-> 0]
  <2>1. f.present /\ f.digits = 0
    BY <1>3, Zenon
  <2> QED
    BY <2>1 DEF FractionParses
<1>4. CASE f = [present |-> TRUE, digits |-> 1, value |-> DigitBase - 1]
  <2>1. f.present /\ f.digits = 1 /\ f.value = DigitBase - 1
    BY <1>4, Zenon
  <2>2. ~ (1 > NanoDigits) /\ 1 > 0
    BY PowerFacts
  <2>3. NanosIn(f) = (DigitBase - 1) * (DigitBase ^ (NanoDigits - 1))
    BY <2>1, <2>2, Zenon DEF NanosIn
  <2>4. NanoDigits - 1 \in 0 .. NanoDigits
    BY PowerFacts
  <2>5. PICK p \in Nat \ {0}, b \in Nat \ {0} :
          p = DigitBase ^ (NanoDigits - 1) /\ b = DigitBase /\ NanosPerSecond = b * p
    BY <2>4, PowerFacts
  <2>6. (b - 1) * p = b * p - p /\ b * p >= p
    BY <2>5
  <2>7. NanosIn(f) = NanosPerSecond - p /\ NanosPerSecond >= p
    BY <2>3, <2>5, <2>6, Zenon
  <2>8. WholeNanos(f, NanosIn(f))
    <3>1. DigitBase ^ f.digits = b
      BY <2>1, <2>5, PowerFacts, Zenon
    <3>2. PICK n \in Nat : n = b * p
      BY <2>5
    <3>3. NanosIn(f) = n - p /\ NanosPerSecond = n /\ f.value = b - 1
      BY <2>1, <2>5, <2>7, <3>2, Zenon
    <3>4. (n - p) * b = n * b - n /\ (b - 1) * n = n * b - n
      BY <2>5, <3>2, Z3
    <3>5. n * b \in Int /\ b > 0 /\ b \in Int /\ n \in Int
      BY <2>5, <3>2
    <3>6. /\ (n - p) * b <= (b - 1) * n
          /\ (b - 1) * n < (n - p) * b + b
      BY <3>4, <3>5
    <3> QED
      BY <3>1, <3>3, <3>6, Zenon DEF WholeNanos
  <2>9. NanosPerSecond - p \in Nat /\ NanosPerSecond - p < NanosPerSecond
    <3>1. p \in Nat \ {0}
      BY <2>5
    <3> QED
      BY <1>1, <2>7, <3>1
  <2> QED
    BY <1>1, <2>1, <2>7, <2>8, <2>9, Zenon
<1>5. CASE f = [present |-> TRUE, digits |-> NanoDigits + 1, value |-> DigitBase * NanosPerSecond - 1]
  <2>1. f.present /\ f.digits = NanoDigits + 1 /\ f.value = DigitBase * NanosPerSecond - 1
    BY <1>5, Zenon
  <2>2. NanoDigits + 1 > NanoDigits /\ NanoDigits + 1 > 0 /\ (NanoDigits + 1) - NanoDigits = 1
    BY PowerFacts
  <2>3. NanosIn(f) = (DigitBase * NanosPerSecond - 1) \div DigitBase
    <3>1. NanosIn(f) = f.value \div (DigitBase ^ (f.digits - NanoDigits))
      BY <2>1, <2>2, Zenon DEF NanosIn
    <3>2. DigitBase ^ 1 = DigitBase
      BY PowerFacts
    <3> QED
      BY <2>1, <2>2, <3>1, <3>2, Zenon
  <2>4. PICK b \in Nat \ {0}, n \in Nat \ {0} : b = DigitBase /\ n = NanosPerSecond
    BY <1>1, PowerFacts
  <2>5. PICK v \in Nat : v = b * n - 1
    BY <2>4
  <2>6. v \div b \in Nat /\ v % b \in 0 .. b - 1 /\ v = b * (v \div b) + (v % b)
    <3>1. b \in Nat \ {0} /\ v \in Nat
      BY <2>4, <2>5
    <3> QED
      BY <3>1, Divided
  <2>7. b * (n - 1) = b * n - b
    BY <2>4
  <2>8. PICK q \in Int, r \in Int, m \in Int, z \in Int :
          q = v \div b /\ r = v % b /\ m = n - 1 /\ z = b - 1 /\ 0 <= r /\ r < b /\ 0 <= z /\ z < b
    BY <2>4, <2>6
  <2>9. b * m + z = b * q + r
    BY <2>4, <2>5, <2>6, <2>7, <2>8
  <2>10. m = q
    <3>1. /\ b \in Nat \ {0} /\ q \in Int /\ r \in Int /\ m \in Int /\ z \in Int
          /\ 0 <= r /\ r < b /\ 0 <= z /\ z < b
      BY <2>4, <2>8
    <3> QED
      BY <2>9, <3>1, OneDivision, Zenon
  <2>11. NanosIn(f) = n - 1
    BY <2>3, <2>4, <2>5, <2>8, <2>10, Zenon
  <2>12. WholeNanos(f, NanosIn(f))
    <3>1. PICK u \in Nat : u = b * n
      BY <2>4
    <3>2. /\ DigitBase ^ f.digits = u /\ NanosPerSecond = n
          /\ f.value = u - 1 /\ NanosIn(f) = n - 1
      BY <2>1, <2>4, <2>11, <3>1, PowerFacts, Zenon
    <3>3. n <= u
      BY <2>4, <3>1, Z3
    <3>4. (n - 1) * u = n * u - u /\ (u - 1) * n = n * u - n
      BY <2>4, <3>1, Z3
    <3>5. n * u \in Int /\ n > 0 /\ n \in Int /\ u \in Int
      BY <2>4, <3>1
    <3>6. /\ (n - 1) * u <= (u - 1) * n
          /\ (u - 1) * n < (n - 1) * u + u
      BY <3>3, <3>4, <3>5
    <3> QED
      BY <3>2, <3>6, Zenon DEF WholeNanos
  <2>13. n - 1 \in Nat /\ n - 1 < NanosPerSecond
    <3>1. n \in Nat \ {0} /\ n = NanosPerSecond
      BY <2>4
    <3> QED
      BY <3>1
  <2> QED
    BY <1>1, <2>1, <2>11, <2>12, <2>13, Zenon
<1> QED
  BY <1>2, <1>3, <1>4, <1>5, Zenon DEF Fractions

(* A year reads back as it was written.                                    *)
LEMMA YearRead ==
  ASSUME NEW year \in Int
  PROVE  YearParses(YearText(year)) /\ YearIn(YearText(year)) = year
BY SMT DEF YearParses, YearText, YearIn

(* A text of a date and a time of day is a timestamp exactly when its      *)
(* fraction and its offset are ones and its moment is in the range.        *)
LEMMA ParsedDate ==
  ASSUME NEW c, ValidDate(c), NEW s \in 0 .. SecondsPerDay - 1, NEW a,
         NEW x, x.year = YearText(c.year), DateTimeIn(x) = OnDate(c, s, a)
  PROVE  LET local == SecondsPerDay * DayOf(c) + s
         IN  /\ ParsedFrom(x).seconds = (IF x.timed THEN local - OffsetIn(x.offset) ELSE local)
             /\ ParsedFrom(x).nanos = a
             /\ a \in 0 .. NanosMax =>
                  (Parses(x) <=>
                     /\ FitsSeconds(local)
                     /\ x.timed => /\ FractionParses(x.fraction) /\ OffsetParses(x.offset)
                                   /\ FitsSeconds(local - OffsetIn(x.offset)))
<1> DEFINE local == SecondsPerDay * DayOf(c) + s
<1>1. DateTimeToSeconds(DateTimeIn(x)) = local
  BY SecondsOfDate, Zenon
<1>2. TimestampOf(DateTimeIn(x)) = [seconds |-> local, nanos |-> a]
  <2>1. OnDate(c, s, a).nanos = a
    BY DEF OnDate
  <2> QED
    BY <1>1, <2>1, Zenon DEF TimestampOf
<1>3. YearParses(x.year)
  <2>1. c.year \in Int
    BY DayInYear
  <2> QED
    BY <2>1, YearRead
<1>4. a \in 0 .. NanosMax => (FitsSeconds(local) <=> IsValid(DateTimeIn(x)))
  BY CalendarDatesAreValid, ValidDatesFit, Zenon
<1> HIDE DEF local
<1>5. /\ ParsedFrom(x).seconds = (IF x.timed THEN local - OffsetIn(x.offset) ELSE local)
      /\ ParsedFrom(x).nanos = a
  <2> DEFINE off == OffsetIn(x.offset)
  <2>1. ParsedFrom(x) = IF x.timed THEN [[seconds |-> local, nanos |-> a] EXCEPT !.seconds = local - off]
                        ELSE [seconds |-> local, nanos |-> a]
    <3>1. [seconds |-> local, nanos |-> a].seconds = local
      OBVIOUS
    <3> QED
      BY <1>2, <3>1, Zenon DEF ParsedFrom
  <2> HIDE DEF off
  <2>2. CASE x.timed
    <3>1. ParsedFrom(x) = [[seconds |-> local, nanos |-> a] EXCEPT !.seconds = local - off]
      BY <2>1, <2>2, Zenon
    <3>2. ParsedFrom(x).seconds = local - off /\ ParsedFrom(x).nanos = a
      BY <3>1
    <3> QED
      BY <2>2, <3>2, Zenon DEF off
  <2>3. CASE ~ x.timed
    <3>1. ParsedFrom(x) = [seconds |-> local, nanos |-> a]
      BY <2>1, <2>3, Zenon
    <3>2. ParsedFrom(x).seconds = local /\ ParsedFrom(x).nanos = a
      BY <3>1
    <3> QED
      BY <2>3, <3>2, Zenon
  <2> QED
    BY <2>2, <2>3
<1>6. a \in 0 .. NanosMax =>
        (Parses(x) <=>
           /\ FitsSeconds(local)
           /\ x.timed => /\ FractionParses(x.fraction) /\ OffsetParses(x.offset)
                         /\ FitsSeconds(local - OffsetIn(x.offset)))
  BY <1>1, <1>3, <1>4, Zenon DEF Parses
<1> QED
  BY <1>5, <1>6, Zenon DEF local

(* What Display writes of a date reads back as that date.                  *)
LEMMA TextRead ==
  ASSUME NEW c, ValidDate(c), NEW s \in 0 .. SecondsPerDay - 1, NEW a \in 0 .. NanosMax,
         NEW x, x = TextOf(OnDate(c, s, a))
  PROVE  /\ x.year = YearText(c.year) /\ x.timed
         /\ FractionParses(x.fraction)
         /\ x.offset = Zulu
         /\ DateTimeIn(x) = OnDate(c, s, a)
<1>1. PICK t : t = OnDate(c, s, a)
  OBVIOUS
<1>2. /\ t.year = c.year /\ t.month = c.month /\ t.day = c.day
      /\ t.hour = HourOf(s) /\ t.minute = MinuteOf(s) /\ t.second = SecondOf(s) /\ t.nanos = a
      /\ t = [year |-> t.year, month |-> t.month, day |-> t.day, hour |-> t.hour,
              minute |-> t.minute, second |-> t.second, nanos |-> t.nanos]
  BY <1>1 DEF OnDate, HourOf, MinuteOf, SecondOf
<1>3. PICK f, y : f = Subseconds(a) /\ y = YearText(c.year)
  OBVIOUS
<1>4. x = [year |-> y, month |-> t.month, day |-> t.day, timed |-> TRUE,
           hour |-> t.hour, minute |-> t.minute, second |-> t.second,
           fraction |-> f, offset |-> Zulu]
  BY <1>1, <1>2, <1>3, Zenon DEF TextOf
<1>5. /\ x.year = y /\ x.month = t.month /\ x.day = t.day /\ x.timed
      /\ x.hour = t.hour /\ x.minute = t.minute /\ x.second = t.second
      /\ x.fraction = f /\ x.offset = Zulu
  BY <1>4, SMT
<1>6. FractionParses(f) /\ NanosIn(f) = a
  BY <1>3, SubsecondsRead, Zenon
<1>7. YearIn(y) = c.year
  <2>1. c.year \in Int
    BY DayInYear
  <2> QED
    BY <1>3, <2>1, YearRead, Zenon
<1>8. t.second # SecondsPerMinute
  <2>1. SecondOf(s) \in 0 .. SecondsPerMinute - 1 /\ SecondsPerMinute \in Nat
    BY HourMinuteSecond, UnitFacts
  <2> QED
    BY <1>2, <2>1
<1>9. DateTimeIn(x) = [year |-> t.year, month |-> t.month, day |-> t.day, hour |-> t.hour,
                       minute |-> t.minute, second |-> t.second, nanos |-> t.nanos]
  <2>1. YearIn(x.year) = t.year /\ NanosIn(x.fraction) = t.nanos
    BY <1>2, <1>5, <1>6, <1>7, Zenon
  <2> QED
    BY <1>5, <1>8, <2>1, Zenon DEF DateTimeIn
<1>10. DateTimeIn(x) = t
  BY <1>2, <1>9, Zenon
<1> QED
  BY <1>1, <1>3, <1>5, <1>6, <1>10, Zenon

(* What Display writes, FromStr reads back as the same moment, normalized. *)
THEOREM TextExact == Spec => []TextRoundTrips
<1>1. ASSUME IInv, reply = "text"
      PROVE  Parses(text) /\ ParsedFrom(text) = TS!Normalized(moment)
  <2>1. Displayed
    <3>1. (DatedOrNot => reply = "dated" \/ reply = "invalid date")
          /\ (ParsedOrNot => reply = "parsed" \/ reply = "parse failure")
      <4>1. ASSUME DatedOrNot PROVE reply = "dated" \/ reply = "invalid date"
        <5>1. PICK month \in AskedMonths, d \in AskedDays,
                   hour \in AskedHours, nanos \in AskedNanos :
                Answered(month, d, hour, nanos)
          BY <4>1, SMT DEF DatedOrNot
        <5> QED
          BY <5>1, Zenon DEF Answered
      <4>2. ParsedOrNot => reply = "parsed" \/ reply = "parse failure"
        BY Zenon DEF ParsedOrNot
      <4> QED
        BY <4>1, <4>2, Zenon
    <3> QED
      BY <1>1, <3>1, Zenon DEF IInv, ReplyInv
  <2>2. ValidDate(civil) /\ day = DayOf(civil) /\ day \in Int
    BY <1>1, DayInYear DEF IInv, ClockInv
  <2>3. PICK s \in SampleSeconds, n \in SampleNanos :
          /\ FitsSeconds(At(s, n).seconds)
          /\ moment = At(s, n)
          /\ text = TextOf(DateTimeFrom(At(s, n)))
    BY <2>1, Zenon DEF Displayed
  <2>4. moment \in Values
    <3>1. s \in Int /\ SecondsPerDay * day + s \in Int /\ n \in Nanos
      BY <2>2, UnitFacts, YearsAssumption DEF SampleSeconds
    <3> QED
      BY <2>3, <3>1, ConstantFacts DEF At, FitsSeconds, Values, Seconds
  <2>5. PICK N \in Canonicals : N = TS!Normalized(moment)
    BY <2>4, NormalizedIsCanonical
  <2>6. TS!Normalized(N) = N
    BY NormalizedStays
  <2>7. DateTimeFrom(moment) = DateTimeFrom(N)
    BY <2>5, <2>6, Zenon DEF DateTimeFrom
  <2>0. PICK c : \E z \in 0 .. SecondsPerDay - 1 :
          /\ ValidDate(c)
          /\ N.seconds = SecondsPerDay * DayOf(c) + z
          /\ DateTimeFrom(N) = OnDate(c, z, N.nanos)
    BY DateTimeFromFacts
  <2>8. PICK z \in 0 .. SecondsPerDay - 1 :
          /\ ValidDate(c)
          /\ N.seconds = SecondsPerDay * DayOf(c) + z
          /\ DateTimeFrom(N) = OnDate(c, z, N.nanos)
    BY <2>0, Zenon
  <2>9. N.nanos \in 0 .. NanosMax /\ FitsSeconds(N.seconds) /\ N = [seconds |-> N.seconds, nanos |-> N.nanos]
        /\ N.seconds \in Int
    BY ConstantFacts DEF Canonicals, FitsSeconds, Seconds, MinSeconds
  <2>10. text = TextOf(OnDate(c, z, N.nanos))
    BY <2>3, <2>7, <2>8, Zenon
  <2>11. /\ text.year = YearText(c.year) /\ text.timed
         /\ FractionParses(text.fraction)
         /\ text.offset = Zulu
         /\ DateTimeIn(text) = OnDate(c, z, N.nanos)
    <3>1. ValidDate(c) /\ N.nanos \in 0 .. NanosMax
      BY <2>8, <2>9, Zenon
    <3> QED
      BY <2>10, <3>1, TextRead
  <2>12. OffsetParses(Zulu) /\ OffsetIn(Zulu) = 0
    BY UnitFacts DEF OffsetParses, OffsetIn, Zulu
  <2>13. N.seconds - OffsetIn(text.offset) = N.seconds
    BY <2>9, <2>11, <2>12
  <2>14. Parses(text) /\ ParsedFrom(text).seconds = N.seconds /\ ParsedFrom(text).nanos = N.nanos
    <3>1. PICK local, a : local = N.seconds /\ a = N.nanos
      OBVIOUS
    <3>2. /\ ValidDate(c) /\ text.year = YearText(c.year) /\ DateTimeIn(text) = OnDate(c, z, a)
          /\ SecondsPerDay * DayOf(c) + z = local
      BY <2>8, <2>11, <3>1, Zenon
    <3>3. /\ ParsedFrom(text).seconds = (IF text.timed THEN local - OffsetIn(text.offset) ELSE local)
          /\ ParsedFrom(text).nanos = a
          /\ a \in 0 .. NanosMax =>
               (Parses(text) <=>
                  /\ FitsSeconds(local)
                  /\ text.timed => /\ FractionParses(text.fraction) /\ OffsetParses(text.offset)
                                   /\ FitsSeconds(local - OffsetIn(text.offset)))
      <4> DEFINE sum == SecondsPerDay * DayOf(c) + z
      <4>1. /\ ParsedFrom(text).seconds = (IF text.timed THEN sum - OffsetIn(text.offset) ELSE sum)
            /\ ParsedFrom(text).nanos = a
            /\ a \in 0 .. NanosMax =>
                 (Parses(text) <=>
                    /\ FitsSeconds(sum)
                    /\ text.timed => /\ FractionParses(text.fraction) /\ OffsetParses(text.offset)
                                     /\ FitsSeconds(sum - OffsetIn(text.offset)))
        <5>1. ValidDate(c) /\ text.year = YearText(c.year) /\ DateTimeIn(text) = OnDate(c, z, a)
          BY <3>2, Zenon
        <5> QED
          BY <5>1, ParsedDate
      <4>2. sum = local
        BY <3>2, Zenon
      <4> HIDE DEF sum
      <4> QED
        BY <4>1, <4>2, Zenon
    <3>4. /\ a \in 0 .. NanosMax /\ FitsSeconds(local) /\ text.timed
          /\ FractionParses(text.fraction) /\ OffsetParses(text.offset)
          /\ local - OffsetIn(text.offset) = local
      BY <2>9, <2>11, <2>12, <2>13, <3>1, Zenon
    <3>5. FitsSeconds(local - OffsetIn(text.offset))
      BY <3>4, Zenon
    <3>6. Parses(text)
      BY <3>3, <3>4, <3>5, Zenon
    <3>7. ParsedFrom(text).seconds = local
      BY <3>3, <3>4, Zenon
    <3> QED
      BY <3>1, <3>3, <3>6, <3>7, Zenon
  <2>15. ParsedFrom(text) = [seconds |-> ParsedFrom(text).seconds, nanos |-> ParsedFrom(text).nanos]
    BY DEF ParsedFrom, TimestampOf
  <2> QED
    BY <2>5, <2>9, <2>14, <2>15, Zenon
<1>2. IInv => TextRoundTrips
  BY <1>1, Zenon DEF TextRoundTrips
<1> QED
  BY <1>2, InvariantHolds, PTL

(* The inputs of the parser that the run takes are dates of the clock.     *)
LEMMA LocalRead ==
  ASSUME NEW c, ValidDate(c), NEW x \in TextsOf(c)
  PROVE  /\ x.year = YearText(c.year) /\ x.fraction \in Fractions /\ x.offset \in Offsets
         /\ Local(x) \in 0 .. SecondsPerDay - 1
         /\ DateTimeIn(x) = OnDate(c, Local(x), IF x.timed THEN NanosIn(x.fraction) ELSE 0)
<1>1. PICK timed \in BOOLEAN, h \in {0, HoursPerDay - 1}, s \in {0, SecondsPerMinute},
           f \in Fractions, o \in Offsets :
        x = [year |-> YearText(c.year), month |-> c.month, day |-> c.day, timed |-> timed,
             hour |-> h, minute |-> 0, second |-> s, fraction |-> f, offset |-> o]
  BY SMT DEF TextsOf
<1>2. PICK y : y = YearText(c.year)
  OBVIOUS
<1>3. /\ x.year = y /\ x.month = c.month /\ x.day = c.day /\ x.timed = timed
      /\ x.hour = h /\ x.minute = 0 /\ x.second = s /\ x.fraction = f /\ x.offset = o
  BY <1>1, <1>2
<1>4. YearIn(y) = c.year
  <2>1. c.year \in Int
    BY DayInYear
  <2> QED
    BY <1>2, <2>1, YearRead, Zenon
<1>5. PICK H \in 0 .. HoursPerDay - 1, R \in 0 .. SecondsPerMinute - 1 :
        /\ H = (IF timed THEN h ELSE 0)
        /\ R = (IF ~ timed THEN 0 ELSE IF s = SecondsPerMinute THEN SecondsPerMinute - 1 ELSE s)
  <2>1. SecondsPerMinute \in Nat \ {0} /\ HoursPerDay \in Nat \ {0}
    BY UnitFacts
  <2> QED
    BY <1>1, <2>1
<1>6. PICK a : a = IF timed THEN NanosIn(f) ELSE 0
  OBVIOUS
<1>7. DateTimeIn(x) = [year |-> c.year, month |-> c.month, day |-> c.day, hour |-> H,
                       minute |-> 0, second |-> R, nanos |-> a]
  <2>1. (IF timed THEN 0 ELSE 0) = 0
    OBVIOUS
  <2> QED
    BY <1>3, <1>4, <1>5, <1>6, <2>1, Zenon DEF DateTimeIn
<1>8. Local(x) = SecondsPerHour * H + R
  <2>1. SecondsPerMinute # 0 /\ SecondsPerHour \in Int /\ SecondsPerMinute \in Int
    BY UnitFacts
  <2>2. CASE timed
    <3>1. R = (IF s = 0 THEN 0 ELSE SecondsPerMinute - 1)
      BY <1>1, <1>5, <2>1, <2>2
    <3> QED
      BY <1>3, <1>5, <2>2, <3>1, Zenon DEF Local
  <2>3. CASE ~ timed
    <3>1. Local(x) = 0
      BY <1>3, <2>3, Zenon DEF Local
    <3>2. SecondsPerHour * 0 + 0 = 0 /\ H = 0 /\ R = 0
      BY <1>5, <2>1, <2>3
    <3> QED
      BY <3>1, <3>2, Zenon
  <2> QED
    BY <2>2, <2>3
<1>9. PICK l : l = Local(x) /\ l = SecondsPerHour * H + R
  BY <1>8
<1>10. /\ l \in 0 .. SecondsPerDay - 1
       /\ HourOf(l) = H /\ MinuteOf(l) = 0 /\ SecondOf(l) = R
  BY <1>9, HandsAt, Zenon
<1>11. OnDate(c, l, a) = [year |-> c.year, month |-> c.month, day |-> c.day, hour |-> H,
                          minute |-> 0, second |-> R, nanos |-> a]
  BY <1>10, Zenon DEF OnDate, HourOf, MinuteOf, SecondOf
<1>12. (IF x.timed THEN NanosIn(x.fraction) ELSE 0) = a
  BY <1>3, <1>6, Zenon
<1> QED
  BY <1>1, <1>2, <1>3, <1>7, <1>9, <1>10, <1>11, <1>12, Zenon

(* The offsets the run takes.                                              *)
LEMMA OffsetFacts ==
  ASSUME NEW o \in Offsets
  PROVE  /\ OffsetIn(o) \in Int
         /\ OffsetIn(o) = (IF o.form = "-" THEN -1 ELSE 1)
                            * (SecondsPerHour * o.hour + SecondsPerMinute * o.minute)
<1>1. /\ SecondsPerHour \in Nat /\ SecondsPerMinute \in Nat
      /\ HoursPerDay \in Nat \ {0} /\ MinutesPerHour \in Nat \ {0}
  BY UnitFacts
<1>2. /\ o.hour \in {0, 1, HoursPerDay - 1, HoursPerDay}
      /\ o.minute \in {0, MinutesPerHour - 1, MinutesPerHour}
  BY DEF Offsets, NoOffset, Zulu
<1>3. PICK n \in Int : n = SecondsPerHour * o.hour + SecondsPerMinute * o.minute
  BY <1>1, <1>2
<1>4. OffsetIn(o) = (IF o.form = "-" THEN -n ELSE n)
  BY <1>3, Zenon DEF OffsetIn
<1>5. -n = (-1) * n /\ n = 1 * n
  OBVIOUS
<1> QED
  BY <1>3, <1>4, <1>5

(* A text is accepted exactly when its fraction and its offset are ones    *)
(* and its local time and its moment are in range, and is read as the      *)
(* moment its local time, its offset and its fraction say.                 *)
THEOREM LocalTimeExact == Spec => []ParsesLocalTime
<1>1. ASSUME IInv, NEW x \in TextsOf(civil), text = x,
             \/ reply = "parsed" /\ Parses(x) /\ moment = ParsedFrom(x)
             \/ reply = "parse failure" /\ ~ Parses(x)
      PROVE  ParsesLocalTime
  <2>0. ValidDate(civil) /\ day = DayOf(civil)
    BY <1>1, Zenon DEF IInv, ClockInv
  <2>1. ValidDate(civil) /\ day = DayOf(civil) /\ day \in Int
    BY <2>0, DayInYear
  <2>a. PICK a : a = (IF x.timed THEN NanosIn(x.fraction) ELSE 0)
    OBVIOUS
  <2>2. PICK l \in 0 .. SecondsPerDay - 1 :
          /\ l = Local(x)
          /\ x.year = YearText(civil.year) /\ x.fraction \in Fractions /\ x.offset \in Offsets
          /\ DateTimeIn(x) = OnDate(civil, l, a)
    BY <2>1, <2>a, LocalRead, Zenon
  <2>3. PICK local \in Int : local = SecondsPerDay * day + l
    BY <2>1, UnitFacts
  <2>4. SecondsPerDay * DayOf(civil) + l = local
    BY <2>1, <2>3, Zenon
  <2>5. OffsetIn(x.offset) \in Int
        /\ OffsetIn(x.offset) = (IF x.offset.form = "-" THEN -1 ELSE 1)
                                  * (SecondsPerHour * x.offset.hour + SecondsPerMinute * x.offset.minute)
    BY <2>2, OffsetFacts, Zenon
  <2>b. SecondsPerDay * day \in Int /\ Local(x) \in Int /\ SecondsPerDay * day + Local(x) = local
    <3>1. SecondsPerDay * day \in Int /\ l \in Int
      BY <2>1, UnitFacts
    <3> QED
      BY <2>2, <2>3, <3>1, Zenon
  <2>6. Denoted(x) = (IF x.timed THEN local - OffsetIn(x.offset) ELSE local)
    <3>1. CASE x.timed
      <4>1. Denoted(x) = local - OffsetIn(x.offset)
        <5>1. Denoted(x) = SecondsPerDay * day + (Local(x) - OffsetIn(x.offset))
          BY <2>5, <3>1, Zenon DEF Denoted
        <5> QED
          BY <2>b, <2>5, <5>1
      <4> QED
        BY <3>1, <4>1, Zenon
    <3>2. CASE ~ x.timed
      <4>1. Denoted(x) = local - 0
        <5>1. Denoted(x) = SecondsPerDay * day + (Local(x) - 0)
          BY <3>2, Zenon DEF Denoted
        <5> QED
          BY <2>b, <5>1
      <4>2. local - 0 = local
        OBVIOUS
      <4> QED
        BY <3>2, <4>1, <4>2, Zenon
    <3> QED
      BY <3>1, <3>2
  <2>7. /\ ParsedFrom(x).seconds = Denoted(x) /\ ParsedFrom(x).nanos = a
        /\ a \in 0 .. NanosMax =>
             (Parses(x) <=>
                /\ FitsSeconds(local)
                /\ x.timed => /\ FractionParses(x.fraction) /\ OffsetParses(x.offset)
                              /\ FitsSeconds(local - OffsetIn(x.offset)))
    <3>1. PICK c : c = civil
      OBVIOUS
    <3>2. /\ ValidDate(c) /\ x.year = YearText(c.year) /\ DateTimeIn(x) = OnDate(c, l, a)
          /\ SecondsPerDay * DayOf(c) + l = local
      BY <2>1, <2>2, <2>4, <3>1, Zenon
    <3> DEFINE sum == SecondsPerDay * DayOf(c) + l
    <3>3. /\ ParsedFrom(x).seconds = (IF x.timed THEN sum - OffsetIn(x.offset) ELSE sum)
          /\ ParsedFrom(x).nanos = a
          /\ a \in 0 .. NanosMax =>
               (Parses(x) <=>
                  /\ FitsSeconds(sum)
                  /\ x.timed => /\ FractionParses(x.fraction) /\ OffsetParses(x.offset)
                                /\ FitsSeconds(sum - OffsetIn(x.offset)))
      <4>1. ValidDate(c) /\ x.year = YearText(c.year) /\ DateTimeIn(x) = OnDate(c, l, a)
        BY <3>2, Zenon
      <4> QED
        BY <4>1, ParsedDate
    <3>4. sum = local
      BY <3>2, Zenon
    <3> HIDE DEF sum
    <3> QED
      BY <2>6, <3>3, <3>4, Zenon
  <2>8. FractionParses(x.fraction) \/ ~ x.timed =>
          /\ a \in 0 .. NanosMax
          /\ IF x.timed /\ x.fraction.present THEN WholeNanos(x.fraction, a) ELSE a = 0
    <3>1. 0 \in 0 .. NanosMax
      BY ConstantFacts DEF NanosMax
    <3>2. CASE x.timed
      BY <2>2, <2>a, <3>2, FractionFacts, Zenon
    <3>3. CASE ~ x.timed
      BY <2>a, <3>1, <3>3, Zenon
    <3> QED
      BY <3>2, <3>3
  <2>9. Parses(x) <=>
          /\ FitsSeconds(local) /\ FitsSeconds(Denoted(x))
          /\ x.timed => FractionParses(x.fraction) /\ OffsetParses(x.offset)
    <3>1. CASE FractionParses(x.fraction) \/ ~ x.timed
      BY <2>6, <2>7, <2>8, <3>1, Zenon
    <3>2. CASE ~ FractionParses(x.fraction) /\ x.timed
      <4>1. ~ Parses(x)
        BY <3>2, Zenon DEF Parses
      <4> QED
        BY <3>2, <4>1, Zenon
    <3> QED
      BY <3>1, <3>2, Zenon
  <2>10. (reply = "parsed") <=> Parses(x)
    BY <1>1, Zenon
  <2>11. (reply = "parsed") <=>
           /\ FitsSeconds(SecondsPerDay * day + Local(text)) /\ FitsSeconds(Denoted(text))
           /\ text.timed => /\ text.fraction.present => text.fraction.digits > 0
                            /\ text.offset.hour < HoursPerDay /\ text.offset.minute < MinutesPerHour
    BY <1>1, <2>b, <2>9, <2>10, Zenon DEF FractionParses, OffsetParses
  <2>12. ASSUME reply = "parsed"
         PROVE  /\ moment.seconds = Denoted(text)
                /\ IF text.timed /\ text.fraction.present THEN WholeNanos(text.fraction, moment.nanos)
                   ELSE moment.nanos = 0
    <3>1. Parses(x) /\ moment = ParsedFrom(x)
      BY <1>1, <2>10, <2>12, Zenon
    <3>2. FractionParses(x.fraction) \/ ~ x.timed
      BY <2>9, <3>1, Zenon
    <3>3. moment.seconds = Denoted(text) /\ moment.nanos = a
      BY <1>1, <2>7, <3>1, Zenon
    <3> QED
      BY <1>1, <2>8, <3>2, <3>3, Zenon
  <2> QED
    BY <2>11, <2>12, Zenon DEF ParsesLocalTime
<1>2. IInv => ParsesLocalTime
  <2> SUFFICES ASSUME IInv PROVE ParsesLocalTime
    OBVIOUS
  <2>1. CASE ParsedOrNot
    BY <1>1, <2>1, Zenon DEF ParsedOrNot
  <2>2. CASE DatedOrNot \/ reply = "none" \/ reply = "text"
    <3>1. ASSUME DatedOrNot PROVE reply = "dated" \/ reply = "invalid date"
      <4>1. PICK month \in AskedMonths, d \in AskedDays,
                 hour \in AskedHours, nanos \in AskedNanos :
              Answered(month, d, hour, nanos)
        BY <3>1, SMT DEF DatedOrNot
      <4> QED
        BY <4>1, Zenon DEF Answered
    <3>2. reply # "parsed" /\ reply # "parse failure"
      BY <2>2, <3>1, Zenon
    <3> QED
      BY <3>2, Zenon DEF ParsesLocalTime
  <2> QED
    BY <2>1, <2>2 DEF IInv, ReplyInv
<1> QED
  BY <1>2, InvariantHolds, PTL

=============================================================================
