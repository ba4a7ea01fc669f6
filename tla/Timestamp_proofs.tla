------------------------- MODULE Timestamp_proofs -------------------------
(***************************************************************************)
(* For every i64/i32-like range: Timestamp::normalize keeps the moment     *)
(* exactly or takes the nearest one, and so do the conversions that start  *)
(* with it.                                                                *)
(***************************************************************************)
EXTENDS Timestamp, SecondsNanos_proofs

(* Whole seconds are carried exactly, or the value saturates on the side   *)
(* the span lies on.                                                       *)
LEMMA CarrySecondsFacts ==
  ASSUME NEW t \in Values
  PROVE  LET c == CarrySeconds(t)
         IN  /\ c \in Values
             /\ -NanosPerSecond < c.nanos /\ c.nanos < NanosPerSecond
             /\ \/ Instant(c) = Instant(t)
                \/ c = Earliest /\ Instant(t) < Instant(Earliest)
                \/ c = Latest /\ Instant(t) > Instant(Latest)
<1> DEFINE s == t.seconds
           n == t.nanos
           q == Quotient(n)
           r == Remainder(n)
<1>1. /\ s \in Int /\ MinSeconds <= s /\ s <= MaxSeconds
      /\ n \in Int /\ MinNanos <= n /\ n <= MaxNanos
      /\ t = [seconds |-> s, nanos |-> n]
  BY ConstantFacts DEF Values, Seconds, Nanos, MinSeconds, MinNanos
<1>2. /\ q \in Int /\ r \in Int
      /\ -NanosPerSecond < r /\ r < NanosPerSecond
      /\ n >= 0 => q >= 0 /\ r >= 0
      /\ n <= 0 => q <= 0 /\ r <= 0
      /\ n = NanosPerSecond * q + r
  BY <1>1, QuotientFacts
<1>3. CASE -NanosPerSecond < n /\ n < NanosPerSecond
  BY <1>3 DEF CarrySeconds
<1>4. CASE ~ (-NanosPerSecond < n /\ n < NanosPerSecond) /\ s + q \in Seconds
  <2>1. CarrySeconds(t) = [seconds |-> s + q, nanos |-> r]
    BY <1>4 DEF CarrySeconds, FitsSeconds
  <2>2. r \in Nanos
    BY <1>2, ConstantFacts DEF Nanos, MinNanos
  <2>3. NanosPerSecond * (s + q) + r = NanosPerSecond * s + n
    BY <1>1, <1>2, Regroup
  <2> QED
    BY <1>2, <1>4, <2>1, <2>2, <2>3 DEF Values, Instant
<1>5. CASE ~ (-NanosPerSecond < n /\ n < NanosPerSecond) /\ s + q \notin Seconds /\ n < 0
  <2>1. CarrySeconds(t) = Earliest
    BY <1>5 DEF CarrySeconds, FitsSeconds
  <2>2. s + q <= MinSeconds - 1
    BY <1>1, <1>2, <1>5, ConstantFacts DEF Seconds, MinSeconds
  <2>3. NanosPerSecond * (s + q) <= NanosPerSecond * (MinSeconds - 1)
    BY <1>1, <1>2, <2>2, ConstantFacts, Scale DEF MinSeconds
  <2>4. NanosPerSecond * (s + q) + r = NanosPerSecond * s + n
    BY <1>1, <1>2, Regroup
  <2>5. NanosPerSecond * (MinSeconds - 1) = NanosPerSecond * MinSeconds - NanosPerSecond
    BY ConstantFacts, Z3 DEF MinSeconds
  <2>6. Instant(t) < Instant(Earliest)
    BY <1>1, <1>2, <1>5, <2>3, <2>4, <2>5, ConstantFacts
       DEF Instant, Earliest, NanosMax, MinSeconds
  <2>7. Earliest \in Values /\ Earliest.nanos = 0
    BY ConstantFacts DEF Earliest, Values, Seconds, Nanos, MinSeconds, MinNanos, NanosMax
  <2> QED
    BY <2>1, <2>6, <2>7, ConstantFacts DEF NanosMax
<1>6. CASE ~ (-NanosPerSecond < n /\ n < NanosPerSecond) /\ s + q \notin Seconds /\ ~ (n < 0)
  <2>1. CarrySeconds(t) = Latest
    BY <1>6 DEF CarrySeconds, FitsSeconds
  <2>2. MaxSeconds + 1 <= s + q
    BY <1>1, <1>2, <1>6, ConstantFacts DEF Seconds, MinSeconds
  <2>3. NanosPerSecond * (MaxSeconds + 1) <= NanosPerSecond * (s + q)
    BY <1>1, <1>2, <2>2, ConstantFacts, Scale
  <2>4. NanosPerSecond * (s + q) + r = NanosPerSecond * s + n
    BY <1>1, <1>2, Regroup
  <2>5. NanosPerSecond * (MaxSeconds + 1) = NanosPerSecond * MaxSeconds + NanosPerSecond
    BY ConstantFacts, Z3
  <2>6. Instant(t) > Instant(Latest)
    BY <1>1, <1>2, <1>6, <2>3, <2>4, <2>5, ConstantFacts
       DEF Instant, Latest, NanosMax
  <2>7. Latest \in Values /\ Latest.nanos = NanosMax
    BY ConstantFacts DEF Latest, Values, Seconds, Nanos, MinSeconds, MinNanos, NanosMax
  <2> QED
    BY <2>1, <2>6, <2>7, ConstantFacts DEF NanosMax
<1> QED
  BY <1>3, <1>4, <1>5, <1>6

(* A value whose nanos are in range is made canonical: exactly, or by      *)
(* saturation when the second to borrow is not there.                      *)
LEMMA BorrowSecondFacts ==
  ASSUME NEW c \in Values, -NanosPerSecond < c.nanos, c.nanos < NanosPerSecond
  PROVE  LET b == BorrowSecond(c)
         IN  /\ b \in Values
             /\ Canonical(b)
             /\ \/ Instant(b) = Instant(c)
                \/ b = Earliest /\ Instant(c) < Instant(Earliest)
             /\ c.nanos >= 0 => b = c
<1> DEFINE s == c.seconds
           n == c.nanos
<1>1. /\ s \in Int /\ MinSeconds <= s /\ s <= MaxSeconds
      /\ n \in Int /\ MinNanos <= n /\ n <= MaxNanos
      /\ c = [seconds |-> s, nanos |-> n]
  BY ConstantFacts DEF Values, Seconds, Nanos, MinSeconds, MinNanos
<1>2. CASE n >= 0
  BY <1>1, <1>2 DEF BorrowSecond, Canonical
<1>3. CASE n < 0 /\ s - 1 \in Seconds
  <2>1. BorrowSecond(c) = [seconds |-> s - 1, nanos |-> n + NanosPerSecond]
    BY <1>1, <1>3 DEF BorrowSecond, FitsSeconds
  <2>2. n + NanosPerSecond \in Nanos
    BY <1>1, <1>3, ConstantFacts DEF Nanos, MinNanos
  <2>3. NanosPerSecond * (s - 1) = NanosPerSecond * s - NanosPerSecond
    BY <1>1, ConstantFacts, Z3
  <2> QED
    BY <1>1, <1>3, <2>1, <2>2, <2>3, ConstantFacts DEF Values, Canonical, Instant
<1>4. CASE n < 0 /\ s - 1 \notin Seconds
  <2>1. BorrowSecond(c) = Earliest
    BY <1>1, <1>4 DEF BorrowSecond, FitsSeconds
  <2>2. s = MinSeconds
    BY <1>1, <1>4, ConstantFacts DEF Seconds, MinSeconds
  <2>3. NanosPerSecond * MinSeconds \in Int
    BY ConstantFacts DEF MinSeconds
  <2>4. Instant(c) < Instant(Earliest)
    BY <1>1, <1>4, <2>2, <2>3 DEF Instant, Earliest
  <2>5. Earliest \in Values /\ Canonical(Earliest)
    BY ConstantFacts DEF Earliest, Values, Seconds, Nanos, MinSeconds, MinNanos, Canonical
  <2> QED
    BY <1>1, <1>4, <2>1, <2>4, <2>5
<1> QED
  BY <1>1, <1>2, <1>3, <1>4

(* Canonical values span exactly Earliest to Latest. *)
LEMMA CanonicalRange ==
  ASSUME NEW a \in Values, Canonical(a)
  PROVE  /\ Clamp(Instant(a)) = Instant(a)
         /\ Instant(a) \in Int
<1> DEFINE s == a.seconds
           n == a.nanos
<1>1. /\ s \in Int /\ MinSeconds <= s /\ s <= MaxSeconds
      /\ n \in Int /\ 0 <= n /\ n < NanosPerSecond
  BY ConstantFacts DEF Values, Seconds, Nanos, MinSeconds, MinNanos, Canonical
<1>2. NanosPerSecond * MinSeconds <= NanosPerSecond * s
  BY <1>1, ConstantFacts, Scale DEF MinSeconds
<1>3. NanosPerSecond * s <= NanosPerSecond * MaxSeconds
  BY <1>1, ConstantFacts, Scale
<1>4. Instant(Earliest) <= Instant(a) /\ Instant(a) <= Instant(Latest)
  BY <1>1, <1>2, <1>3, ConstantFacts DEF Instant, Earliest, Latest, NanosMax, MinSeconds
<1>5. Instant(Earliest) \in Int /\ Instant(a) \in Int /\ Instant(Latest) \in Int
  BY <1>1, ConstantFacts DEF Instant, Earliest, Latest, NanosMax, MinSeconds
<1> QED
  BY <1>4, <1>5 DEF Clamp

(* normalize, for every message. *)
LEMMA NormalizedFacts ==
  ASSUME NEW t \in Values
  PROVE  /\ Normalized(t) \in Values
         /\ Canonical(Normalized(t))
         /\ Instant(Normalized(t)) = Clamp(Instant(t))
<1> DEFINE c == CarrySeconds(t)
           b == BorrowSecond(c)
<1>1. /\ c \in Values
      /\ -NanosPerSecond < c.nanos /\ c.nanos < NanosPerSecond
      /\ \/ Instant(c) = Instant(t)
         \/ c = Earliest /\ Instant(t) < Instant(Earliest)
         \/ c = Latest /\ Instant(t) > Instant(Latest)
  BY CarrySecondsFacts
<1>2. /\ b \in Values /\ Canonical(b)
      /\ \/ Instant(b) = Instant(c)
         \/ b = Earliest /\ Instant(c) < Instant(Earliest)
      /\ c.nanos >= 0 => b = c
  BY <1>1, BorrowSecondFacts
<1>3. Clamp(Instant(b)) = Instant(b)
  BY <1>2, CanonicalRange
<1>4. /\ Instant(Earliest) \in Int /\ Instant(Latest) \in Int
      /\ Instant(t) \in Int /\ Instant(c) \in Int
      /\ Instant(Earliest) < Instant(Latest)
  <2>1. NanosPerSecond * MinSeconds <= NanosPerSecond * MaxSeconds
    BY ConstantFacts, Scale DEF MinSeconds
  <2>2. /\ t.seconds \in Int /\ t.nanos \in Int
        /\ c.seconds \in Int /\ c.nanos \in Int
    BY <1>1, ConstantFacts DEF Values, Seconds, Nanos, MinSeconds, MinNanos
  <2> QED
    BY <2>1, <2>2, ConstantFacts DEF Instant, Earliest, Latest, NanosMax, MinSeconds
<1>5. Earliest.nanos >= 0 /\ Latest.nanos >= 0
  BY ConstantFacts DEF Earliest, Latest, NanosMax
<1>6. Instant(b) = Clamp(Instant(t))
  BY <1>1, <1>2, <1>3, <1>4, <1>5 DEF Clamp
<1> QED
  BY <1>2, <1>6 DEF Normalized

(* Counting back from the epoch and taking a SystemTime apart are inverse, *)
(* wherever the seconds do not overflow on the way.                        *)
LEMMA FromSystemFacts ==
  ASSUME NEW u \in SystemTimes
  PROVE  FromSystem(u) = u
<1>1. /\ u \in Values /\ u.seconds \in Int
      /\ u.nanos \in Int /\ 0 <= u.nanos /\ u.nanos < NanosPerSecond
      /\ u = [seconds |-> u.seconds, nanos |-> u.nanos]
  BY ConstantFacts DEF SystemTimes, Values, Seconds, Nanos, MinSeconds, MinNanos, Canonical
<1>2. CASE u.seconds >= 0
  BY <1>2 DEF FromSystem
<1>3. CASE u.seconds < 0 /\ u.nanos = 0
  <2>1. UntilEpoch(u) = [seconds |-> -u.seconds, nanos |-> 0]
    BY <1>3 DEF UntilEpoch
  <2>2. BeforeEpoch(UntilEpoch(u)) = [seconds |-> -(-u.seconds), nanos |-> 0]
    BY <2>1 DEF BeforeEpoch
  <2> QED
    BY <1>1, <1>3, <2>2 DEF FromSystem
<1>4. CASE u.seconds < 0 /\ u.nanos # 0
  <2>1. UntilEpoch(u) = [seconds |-> -u.seconds - 1, nanos |-> NanosPerSecond - u.nanos]
    BY <1>4 DEF UntilEpoch
  <2>2. NanosPerSecond - u.nanos # 0
    BY <1>1, ConstantFacts
  <2>3. BeforeEpoch(UntilEpoch(u)) =
          [seconds |-> -(-u.seconds - 1) - 1,
           nanos |-> NanosPerSecond - (NanosPerSecond - u.nanos)]
    BY <2>1, <2>2 DEF BeforeEpoch
  <2> QED
    BY <1>1, <1>4, <2>3, ConstantFacts DEF FromSystem
<1> QED
  BY <1>1, <1>2, <1>3, <1>4

-----------------------------------------------------------------------------
(* Theorems *)

(* Every call leaves a message and a SystemTime of their types. *)
THEOREM TypeCorrect == Spec => []TypeOK
<1>1. Init => TypeOK
  BY ConstantFacts
     DEF Init, TypeOK, SystemTimes, Values, Seconds, Nanos, MinSeconds, MinNanos,
         Canonical, Replies
<1>2. TypeOK /\ [Next]_vars => TypeOK'
  <2> SUFFICES ASSUME TypeOK, [Next]_vars PROVE TypeOK'
    OBVIOUS
  <2>1. Normalized(timestamp) \in SystemTimes /\ Normalized(timestamp) \in Values
    BY NormalizedFacts DEF TypeOK, SystemTimes
  <2>2. CASE Normalize
    BY <2>1, <2>2 DEF TypeOK, Normalize, Replies
  <2>3. CASE TryNormalize
    BY <2>1, <2>3 DEF TypeOK, TryNormalize, Replies
  <2>4. CASE FromSystemTime
    <3>1. PICK t \in SystemTimes :
            /\ system' = t
            /\ IF t.seconds < 0 /\ ~ FitsSeconds(UntilEpoch(t).seconds)
               THEN reply' = "panic" /\ UNCHANGED timestamp
               ELSE reply' = "ok" /\ timestamp' = FromSystem(t)
      BY <2>4 DEF FromSystemTime
    <3>2. FromSystem(t) \in Values
      BY FromSystemFacts DEF SystemTimes
    <3> QED
      BY <3>1, <3>2 DEF TypeOK, Replies
  <2>5. CASE IntoSystemTime
    BY <2>1, <2>5 DEF TypeOK, IntoSystemTime, Replies
  <2>6. CASE UNCHANGED vars
    BY <2>6 DEF vars, TypeOK
  <2> QED
    BY <2>2, <2>3, <2>4, <2>5, <2>6 DEF Next
<1> QED
  BY <1>1, <1>2, PTL DEF Spec

(* normalize keeps the moment or takes the nearest one, at every width.    *)
THEOREM NormalizeExact == Spec => NormalizesExactly
<1>1. TypeOK /\ [Next]_vars =>
        [Normalize => /\ Canonical(timestamp')
                      /\ Instant(timestamp') = Clamp(Instant(timestamp))]_vars
  BY NormalizedFacts DEF TypeOK, Normalize
<1> QED
  BY <1>1, TypeCorrect, PTL DEF Spec, NormalizesExactly

(* Timestamp to SystemTime and back is normalize, at every width. *)
THEOREM SystemTimeRoundTrip == Spec => IntoSystemTimeRoundTrips
<1>1. TypeOK /\ [Next]_vars =>
        [IntoSystemTime /\ reply' = "ok" =>
           /\ Instant(system') = Clamp(Instant(timestamp))
           /\ FromSystem(system') = Normalized(timestamp)]_vars
  <2> SUFFICES ASSUME TypeOK, IntoSystemTime, reply' = "ok"
               PROVE  /\ Instant(system') = Clamp(Instant(timestamp))
                      /\ FromSystem(system') = Normalized(timestamp)
    OBVIOUS
  <2>1. system' = Normalized(timestamp)
    BY DEF IntoSystemTime
  <2>2. Normalized(timestamp) \in SystemTimes
    BY NormalizedFacts DEF TypeOK, SystemTimes
  <2> QED
    BY <2>1, <2>2, NormalizedFacts, FromSystemFacts DEF TypeOK
<1> QED
  BY <1>1, TypeCorrect, PTL DEF Spec, IntoSystemTimeRoundTrips

(* A canonical value with its seconds inside the range lies strictly       *)
(* inside it: only the ends are the nearest value of something else.       *)
LEMMA InsideRange ==
  ASSUME NEW a \in Values, Canonical(a), a.seconds \notin {MinSeconds, MaxSeconds}
  PROVE  Instant(Earliest) < Instant(a) /\ Instant(a) < Instant(Latest)
<1> DEFINE s == a.seconds
           n == a.nanos
<1>1. /\ s \in Int /\ MinSeconds + 1 <= s /\ s + 1 <= MaxSeconds
      /\ n \in Int /\ 0 <= n /\ n < NanosPerSecond
  BY ConstantFacts DEF Values, Seconds, Nanos, MinSeconds, MinNanos, Canonical
<1>2. NanosPerSecond * (MinSeconds + 1) <= NanosPerSecond * s
  BY <1>1, ConstantFacts, Scale DEF MinSeconds
<1>3. NanosPerSecond * (s + 1) <= NanosPerSecond * MaxSeconds
  BY <1>1, ConstantFacts, Scale
<1>4. /\ NanosPerSecond * (MinSeconds + 1) = NanosPerSecond * MinSeconds + NanosPerSecond
      /\ NanosPerSecond * (s + 1) = NanosPerSecond * s + NanosPerSecond
  BY <1>1, ConstantFacts, Z3 DEF MinSeconds
<1>5. /\ NanosPerSecond * MinSeconds \in Int /\ NanosPerSecond * s \in Int
      /\ NanosPerSecond * MaxSeconds \in Int
  BY <1>1, ConstantFacts DEF MinSeconds
<1> QED
  BY <1>1, <1>2, <1>3, <1>4, <1>5, ConstantFacts DEF Instant, Earliest, Latest, NanosMax

(* try_normalize answers Ok with the moment it was given, at every width:  *)
(* its test, made after the fact, misses no saturation but those of values *)
(* that sat at an end of the range before.                                 *)
THEOREM TryNormalizeExact == Spec => TryNormalizeKeepsMoment
<1>1. ASSUME TypeOK, TryNormalize, timestamp.seconds \notin {MinSeconds, MaxSeconds}
      PROVE  IF reply' = "ok" THEN Instant(timestamp') = Instant(timestamp)
             ELSE timestamp' = timestamp
  <2> DEFINE after == Normalized(timestamp)
  <2>1. after \in Values /\ Canonical(after) /\ Instant(after) = Clamp(Instant(timestamp))
    BY <1>1, NormalizedFacts DEF TypeOK
  <2> HIDE DEF after
  <2>2. CASE Overflowed(timestamp, after)
    BY <1>1, <2>2 DEF TryNormalize, after
  <2>3. CASE ~ Overflowed(timestamp, after)
    <3>1. reply' = "ok" /\ timestamp' = after
      BY <1>1, <2>3 DEF TryNormalize, after
    <3>2. after.seconds \notin {MinSeconds, MaxSeconds}
      BY <1>1, <2>3 DEF Overflowed
    <3>3. Instant(Earliest) < Instant(after) /\ Instant(after) < Instant(Latest)
      BY <2>1, <3>2, InsideRange
    <3>4. /\ Instant(Earliest) \in Int /\ Instant(Latest) \in Int
          /\ Instant(after) \in Int /\ Instant(timestamp) \in Int
      BY <1>1, <2>1, ConstantFacts
         DEF TypeOK, Values, Seconds, Nanos, MinSeconds, MinNanos, Instant, Earliest, Latest, NanosMax
    <3>5. Instant(after) = Instant(timestamp)
      BY <2>1, <3>3, <3>4 DEF Clamp
    <3> QED
      BY <3>1, <3>5
  <2> QED
    BY <2>2, <2>3
<1>2. TypeOK /\ [Next]_vars =>
        [TryNormalize /\ timestamp.seconds \notin {MinSeconds, MaxSeconds} =>
           IF reply' = "ok" THEN Instant(timestamp') = Instant(timestamp)
           ELSE timestamp' = timestamp]_vars
  BY <1>1
<1> QED
  BY <1>2, TypeCorrect, PTL DEF Spec, TryNormalizeKeepsMoment

(* A SystemTime becomes a Timestamp of the same moment, on both sides of   *)
(* the epoch and at every width.                                           *)
THEOREM FromSystemExact == Spec => FromSystemTimeExact
<1>1. ASSUME FromSystemTime, reply' = "ok"
      PROVE  Instant(timestamp') = Instant(system')
  <2>1. PICK t \in SystemTimes :
          /\ system' = t
          /\ IF t.seconds < 0 /\ ~ FitsSeconds(UntilEpoch(t).seconds)
             THEN reply' = "panic" /\ UNCHANGED timestamp
             ELSE reply' = "ok" /\ timestamp' = FromSystem(t)
    BY <1>1 DEF FromSystemTime
  <2>2. timestamp' = FromSystem(t)
    BY <1>1, <2>1
  <2> QED
    BY <2>1, <2>2, FromSystemFacts
<1>2. [Next]_vars => [FromSystemTime /\ reply' = "ok" => Instant(timestamp') = Instant(system')]_vars
  BY <1>1
<1> QED
  BY <1>2, PTL DEF Spec, FromSystemTimeExact

=============================================================================
