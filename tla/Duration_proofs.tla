-------------------------- MODULE Duration_proofs --------------------------
(***************************************************************************)
(* For every i64/i32-like range: the messages stay in their types, and     *)
(* Duration::normalize keeps the span exactly or takes the nearest one.    *)
(***************************************************************************)
EXTENDS Duration, SecondsNanos_proofs

(* Whole seconds are carried exactly, or the value saturates on the side   *)
(* the span lies on.                                                       *)
LEMMA CarrySecondsFacts ==
  ASSUME NEW d \in Values
  PROVE  LET c == CarrySeconds(d)
         IN  /\ c \in Values
             /\ -NanosPerSecond < c.nanos /\ c.nanos < NanosPerSecond
             /\ \/ Instant(c) = Instant(d)
                \/ c = Least /\ Instant(d) < Instant(Least)
                \/ c = Greatest /\ Instant(d) > Instant(Greatest)
<1> DEFINE s == d.seconds
           n == d.nanos
           q == Quotient(n)
           r == Remainder(n)
<1>1. /\ s \in Int /\ MinSeconds <= s /\ s <= MaxSeconds
      /\ n \in Int /\ MinNanos <= n /\ n <= MaxNanos
      /\ d = [seconds |-> s, nanos |-> n]
  BY ConstantFacts DEF Values, Seconds, Nanos, MinSeconds, MinNanos
<1>2. /\ q \in Int /\ r \in Int
      /\ -NanosPerSecond < r /\ r < NanosPerSecond
      /\ n >= 0 => q >= 0 /\ r >= 0
      /\ n <= 0 => q <= 0 /\ r <= 0
      /\ n = NanosPerSecond * q + r
  BY <1>1, QuotientFacts
<1>3. CASE -NanosPerSecond < n /\ n < NanosPerSecond
  BY <1>3 DEF CarrySeconds
<1>4. CASE ~ (-NanosPerSecond < n /\ n < NanosPerSecond) /\ s + q \in Seconds
  <2>1. CarrySeconds(d) = [seconds |-> s + q, nanos |-> r]
    BY <1>4 DEF CarrySeconds, FitsSeconds
  <2>2. r \in Nanos
    BY <1>2, ConstantFacts DEF Nanos, MinNanos
  <2>3. NanosPerSecond * (s + q) + r = NanosPerSecond * s + n
    BY <1>1, <1>2, Regroup
  <2> QED
    BY <1>2, <1>4, <2>1, <2>2, <2>3 DEF Values, Instant
<1>5. CASE ~ (-NanosPerSecond < n /\ n < NanosPerSecond) /\ s + q \notin Seconds /\ n < 0
  <2>1. CarrySeconds(d) = Least
    BY <1>5 DEF CarrySeconds, FitsSeconds
  <2>2. s + q <= MinSeconds - 1
    BY <1>1, <1>2, <1>5, ConstantFacts DEF Seconds, MinSeconds
  <2>3. NanosPerSecond * (s + q) <= NanosPerSecond * (MinSeconds - 1)
    BY <1>1, <1>2, <2>2, ConstantFacts, Scale DEF MinSeconds
  <2>4. NanosPerSecond * (s + q) + r = NanosPerSecond * s + n
    BY <1>1, <1>2, Regroup
  <2>5. NanosPerSecond * (MinSeconds - 1) = NanosPerSecond * MinSeconds - NanosPerSecond
    BY ConstantFacts, Z3 DEF MinSeconds
  <2>6. Instant(d) < Instant(Least)
    BY <1>1, <1>2, <1>5, <2>3, <2>4, <2>5, ConstantFacts
       DEF Instant, Least, NanosMax, MinSeconds
  <2>7. Least \in Values /\ Least.nanos = -NanosMax
    BY ConstantFacts DEF Least, Values, Seconds, Nanos, MinSeconds, MinNanos, NanosMax
  <2> QED
    BY <2>1, <2>6, <2>7, ConstantFacts DEF NanosMax
<1>6. CASE ~ (-NanosPerSecond < n /\ n < NanosPerSecond) /\ s + q \notin Seconds /\ ~ (n < 0)
  <2>1. CarrySeconds(d) = Greatest
    BY <1>6 DEF CarrySeconds, FitsSeconds
  <2>2. MaxSeconds + 1 <= s + q
    BY <1>1, <1>2, <1>6, ConstantFacts DEF Seconds, MinSeconds
  <2>3. NanosPerSecond * (MaxSeconds + 1) <= NanosPerSecond * (s + q)
    BY <1>1, <1>2, <2>2, ConstantFacts, Scale
  <2>4. NanosPerSecond * (s + q) + r = NanosPerSecond * s + n
    BY <1>1, <1>2, Regroup
  <2>5. NanosPerSecond * (MaxSeconds + 1) = NanosPerSecond * MaxSeconds + NanosPerSecond
    BY ConstantFacts, Z3
  <2>6. Instant(d) > Instant(Greatest)
    BY <1>1, <1>2, <1>6, <2>3, <2>4, <2>5, ConstantFacts
       DEF Instant, Greatest, NanosMax
  <2>7. Greatest \in Values /\ Greatest.nanos = NanosMax
    BY ConstantFacts DEF Greatest, Values, Seconds, Nanos, MinSeconds, MinNanos, NanosMax
  <2> QED
    BY <2>1, <2>6, <2>7, ConstantFacts DEF NanosMax
<1> QED
  BY <1>3, <1>4, <1>5, <1>6

(* A value whose nanos are in range is made canonical without a change of  *)
(* the span and without an overflow.                                       *)
LEMMA AgreeSignsFacts ==
  ASSUME NEW c \in Values, -NanosPerSecond < c.nanos, c.nanos < NanosPerSecond
  PROVE  LET a == AgreeSigns(c)
         IN  /\ a \in Values
             /\ Canonical(a)
             /\ Instant(a) = Instant(c)
<1> DEFINE s == c.seconds
           n == c.nanos
<1>1. /\ s \in Int /\ MinSeconds <= s /\ s <= MaxSeconds
      /\ n \in Int /\ MinNanos <= n /\ n <= MaxNanos
      /\ c = [seconds |-> s, nanos |-> n]
  BY ConstantFacts DEF Values, Seconds, Nanos, MinSeconds, MinNanos
<1>2. CASE s < 0 /\ n > 0
  <2>1. AgreeSigns(c) = [seconds |-> s + 1, nanos |-> n - NanosPerSecond]
    BY <1>2 DEF AgreeSigns
  <2>2. s + 1 \in Seconds /\ n - NanosPerSecond \in Nanos
    BY <1>1, <1>2, ConstantFacts DEF Seconds, Nanos, MinSeconds, MinNanos
  <2>3. NanosPerSecond * (s + 1) = NanosPerSecond * s + NanosPerSecond
    BY <1>1, ConstantFacts, Z3
  <2> QED
    BY <1>1, <1>2, <2>1, <2>2, <2>3, ConstantFacts DEF Values, Canonical, Instant
<1>3. CASE s > 0 /\ n < 0
  <2>1. AgreeSigns(c) = [seconds |-> s - 1, nanos |-> n + NanosPerSecond]
    BY <1>1, <1>3 DEF AgreeSigns
  <2>2. s - 1 \in Seconds /\ n + NanosPerSecond \in Nanos
    BY <1>1, <1>3, ConstantFacts DEF Seconds, Nanos, MinSeconds, MinNanos
  <2>3. NanosPerSecond * (s - 1) = NanosPerSecond * s - NanosPerSecond
    BY <1>1, ConstantFacts, Z3
  <2> QED
    BY <1>1, <1>3, <2>1, <2>2, <2>3, ConstantFacts DEF Values, Canonical, Instant
<1>4. CASE ~ (s < 0 /\ n > 0) /\ ~ (s > 0 /\ n < 0)
  BY <1>4 DEF AgreeSigns, Canonical
<1> QED
  BY <1>2, <1>3, <1>4

(* Canonical values span exactly Least to Greatest. *)
LEMMA CanonicalRange ==
  ASSUME NEW a \in Values, Canonical(a)
  PROVE  Clamp(Instant(a)) = Instant(a)
<1> DEFINE s == a.seconds
           n == a.nanos
<1>1. /\ s \in Int /\ MinSeconds <= s /\ s <= MaxSeconds
      /\ n \in Int /\ -NanosPerSecond < n /\ n < NanosPerSecond
  BY ConstantFacts DEF Values, Seconds, Nanos, MinSeconds, MinNanos, Canonical
<1>2. NanosPerSecond * MinSeconds <= NanosPerSecond * s
  BY <1>1, ConstantFacts, Scale DEF MinSeconds
<1>3. NanosPerSecond * s <= NanosPerSecond * MaxSeconds
  BY <1>1, ConstantFacts, Scale
<1>4. Instant(Least) <= Instant(a) /\ Instant(a) <= Instant(Greatest)
  BY <1>1, <1>2, <1>3, ConstantFacts DEF Instant, Least, Greatest, NanosMax, MinSeconds
<1>5. Instant(Least) \in Int /\ Instant(a) \in Int /\ Instant(Greatest) \in Int
  BY <1>1, ConstantFacts DEF Instant, Least, Greatest, NanosMax, MinSeconds
<1> QED
  BY <1>4, <1>5 DEF Clamp

(* normalize, for every message. *)
LEMMA NormalizedFacts ==
  ASSUME NEW d \in Values
  PROVE  /\ Normalized(d) \in Values
         /\ Canonical(Normalized(d))
         /\ Instant(Normalized(d)) = Clamp(Instant(d))
<1> DEFINE c == CarrySeconds(d)
           a == AgreeSigns(c)
<1>1. /\ c \in Values
      /\ -NanosPerSecond < c.nanos /\ c.nanos < NanosPerSecond
      /\ \/ Instant(c) = Instant(d)
         \/ c = Least /\ Instant(d) < Instant(Least)
         \/ c = Greatest /\ Instant(d) > Instant(Greatest)
  BY CarrySecondsFacts
<1>2. a \in Values /\ Canonical(a) /\ Instant(a) = Instant(c)
  BY <1>1, AgreeSignsFacts
<1>3. Clamp(Instant(a)) = Instant(a)
  BY <1>2, CanonicalRange
<1>4. /\ Instant(Least) \in Int /\ Instant(Greatest) \in Int /\ Instant(d) \in Int
      /\ Instant(Least) < Instant(Greatest)
  <2>1. NanosPerSecond * MinSeconds <= NanosPerSecond * MaxSeconds
    BY ConstantFacts, Scale DEF MinSeconds
  <2>2. d.seconds \in Int /\ d.nanos \in Int
    BY ConstantFacts DEF Values, Seconds, Nanos, MinSeconds, MinNanos
  <2> QED
    BY <2>1, <2>2, ConstantFacts DEF Instant, Least, Greatest, NanosMax, MinSeconds
<1>5. Instant(a) = Clamp(Instant(d))
  BY <1>1, <1>2, <1>3, <1>4 DEF Clamp
<1> QED
  BY <1>2, <1>5 DEF Normalized

(* The sign of a span is the sign of either field of its canonical value. *)
LEMMA SignOfInstant ==
  ASSUME NEW a \in Values, Canonical(a)
  PROVE  /\ a.seconds >= 0 /\ a.nanos >= 0 => Instant(a) >= 0
         /\ ~ (a.seconds >= 0 /\ a.nanos >= 0) => Instant(a) < 0
         /\ Instant([seconds |-> -a.seconds, nanos |-> -a.nanos]) = -Instant(a)
<1> DEFINE s == a.seconds
           n == a.nanos
<1>1. /\ s \in Int /\ n \in Int
      /\ -NanosPerSecond < n /\ n < NanosPerSecond
      /\ ~ (s < 0 /\ n > 0) /\ ~ (s > 0 /\ n < 0)
  BY ConstantFacts DEF Values, Seconds, Nanos, MinSeconds, MinNanos, Canonical
<1>2. NanosPerSecond * 0 = 0 /\ NanosPerSecond * (-1) = -NanosPerSecond
  BY ConstantFacts, Z3
<1>3. s >= 0 => NanosPerSecond * s >= 0
  BY <1>1, <1>2, Scale
<1>4. s < 0 => NanosPerSecond * s <= -NanosPerSecond
  <2>1. s < 0 => s <= -1
    BY <1>1
  <2> QED
    BY <1>1, <1>2, <2>1, Scale
<1>5. NanosPerSecond * (-s) = -(NanosPerSecond * s)
  BY <1>1, ConstantFacts, Z3
<1>6. s = 0 => NanosPerSecond * s = 0
  BY <1>2
<1>7. NanosPerSecond * s \in Int
  BY <1>1, ConstantFacts
<1>8. Instant([seconds |-> -s, nanos |-> -n]) = -Instant(a)
  BY <1>1, <1>5, <1>7, ConstantFacts DEF Instant
<1>9. ~ (s >= 0 /\ n >= 0) => NanosPerSecond * s + n < 0
  BY <1>1, <1>4, <1>6, <1>7, ConstantFacts
<1>10. s >= 0 /\ n >= 0 => NanosPerSecond * s + n >= 0
  BY <1>1, <1>3, <1>7
<1> QED
  BY <1>8, <1>9, <1>10 DEF Instant

-----------------------------------------------------------------------------
(* Theorems *)

(* Every call leaves a message, a std duration and a text of their types.  *)
THEOREM TypeCorrect == Spec => []TypeOK
<1>1. Init => TypeOK
  BY ConstantFacts
     DEF Init, TypeOK, Zero, StdDurations, Texts, Garbled, Replies, NanosMax
<1>2. TypeOK /\ [Next]_vars => TypeOK'
  <2> SUFFICES ASSUME TypeOK, [Next]_vars PROVE TypeOK'
    OBVIOUS
  <2>1. CASE Normalize
    BY <2>1, NormalizedFacts DEF TypeOK, Normalize, Replies
  <2>2. CASE FromStd
    <3>1. PICK d \in StdDurations :
            /\ std' = d
            /\ IF d.seconds > MaxSeconds
               THEN reply' = "out of range" /\ UNCHANGED duration
               ELSE reply' = "ok" /\ duration' = Normalized(d)
            /\ UNCHANGED text
      BY <2>2 DEF FromStd
    <3>2. d.seconds <= MaxSeconds => d \in Values
      BY ConstantFacts
         DEF StdDurations, Values, Seconds, Nanos, MinSeconds, MinNanos, NanosMax
    <3>3. d.seconds \in Int
      BY ConstantFacts DEF StdDurations
    <3>4. CASE d.seconds > MaxSeconds
      BY <3>1, <3>4 DEF TypeOK, Replies
    <3>5. CASE ~ (d.seconds > MaxSeconds)
      <4>1. d \in Values
        BY <3>2, <3>3, <3>5, ConstantFacts
      <4> QED
        BY <3>1, <3>5, <4>1, NormalizedFacts DEF TypeOK, Replies
    <3> QED
      BY <3>4, <3>5
  <2>3. CASE IntoStd
    <3> DEFINE d == Normalized(duration)
    <3>1. d \in Values /\ Canonical(d)
      BY NormalizedFacts DEF TypeOK
    <3>2. /\ d.seconds \in Int /\ MinSeconds <= d.seconds /\ d.seconds <= MaxSeconds
          /\ d.nanos \in Int
          /\ d = [seconds |-> d.seconds, nanos |-> d.nanos]
      BY <3>1, ConstantFacts DEF Values, Seconds, Nanos, MinSeconds, MinNanos
    <3>3. d.seconds >= 0 /\ d.nanos >= 0 => d \in StdDurations
      BY <3>1, <3>2, ConstantFacts DEF StdDurations, NanosMax, Canonical
    <3>4. ~ (d.seconds >= 0 /\ d.nanos >= 0) =>
            [seconds |-> -d.seconds, nanos |-> -d.nanos] \in StdDurations
      BY <3>1, <3>2, ConstantFacts DEF StdDurations, NanosMax, Canonical, MinSeconds
    <3> QED
      BY <2>3, <3>3, <3>4 DEF IntoStd, TypeOK, Replies
  <2>4. CASE Display
    <3> DEFINE d == Normalized(duration)
               negative == duration.seconds < 0 \/ duration.nanos < 0
               t == [negative |-> negative, seconds |-> Absolute(d.seconds),
                     nanos |-> Absolute(d.nanos)]
    <3>1. d \in Values /\ Canonical(d)
      BY NormalizedFacts DEF TypeOK
    <3>2. /\ d.seconds \in Int /\ MinSeconds <= d.seconds /\ d.seconds <= MaxSeconds
          /\ d.nanos \in Int
      BY <3>1, ConstantFacts DEF Values, Seconds, Nanos, MinSeconds, MinNanos
    <3>3. Absolute(d.seconds) \in 0 .. MaxSeconds + 1 /\ Absolute(d.nanos) \in 0 .. NanosMax
      BY <3>1, <3>2, ConstantFacts DEF Absolute, Canonical, NanosMax, MinSeconds
    <3>4. t \in Texts
      BY <3>3 DEF Texts
    <3> QED
      BY <2>4, <3>4 DEF Display, TypeOK, Replies
  <2>5. CASE Parse
    <3>1. PICK t \in Texts \union {Garbled} :
            /\ text' = t
            /\ IF t # Garbled /\ t.seconds <= MaxSeconds
               THEN reply' = "ok" /\ duration' = Signed(t)
               ELSE reply' = "parse failure" /\ UNCHANGED duration
            /\ UNCHANGED std
      BY <2>5 DEF Parse
    <3>2. t # Garbled /\ t.seconds <= MaxSeconds => Signed(t) \in Values
      BY ConstantFacts
         DEF Texts, Signed, Values, Seconds, Nanos, MinSeconds, MinNanos, NanosMax
    <3> QED
      BY <3>1, <3>2 DEF TypeOK, Replies
  <2>6. CASE UNCHANGED vars
    BY <2>6 DEF vars, TypeOK
  <2> QED
    BY <2>1, <2>2, <2>3, <2>4, <2>5, <2>6 DEF Next
<1> QED
  BY <1>1, <1>2, PTL DEF Spec

(* normalize keeps the span or takes the nearest one, at every width.      *)
THEOREM NormalizeExact == Spec => NormalizesExactly
<1>1. TypeOK /\ [Next]_vars =>
        [Normalize => /\ Canonical(duration')
                      /\ Instant(duration') = Clamp(Instant(duration))]_vars
  BY NormalizedFacts DEF TypeOK, Normalize
<1> QED
  BY <1>1, TypeCorrect, PTL DEF Spec, NormalizesExactly

(* The answer of a conversion to std is the magnitude of the span, given   *)
(* as a value or as an error by its sign, at every width.                  *)
THEOREM StdMagnitude == Spec => StdHoldsMagnitude
<1>1. TypeOK /\ [Next]_vars =>
        [IntoStd =>
           LET span == Clamp(Instant(duration))
           IN  /\ reply' = "ok"       => span >= 0 /\ Instant(std') = span
               /\ reply' = "negative" => span < 0 /\ Instant(std') = -span]_vars
  <2> SUFFICES ASSUME TypeOK, IntoStd
               PROVE  LET span == Clamp(Instant(duration))
                      IN  /\ reply' = "ok"       => span >= 0 /\ Instant(std') = span
                          /\ reply' = "negative" => span < 0 /\ Instant(std') = -span
    OBVIOUS
  <2> DEFINE d == Normalized(duration)
  <2>1. d \in Values /\ Canonical(d) /\ Instant(d) = Clamp(Instant(duration))
    BY NormalizedFacts DEF TypeOK
  <2>2. reply' = "ok" => std' = d /\ d.seconds >= 0 /\ d.nanos >= 0
    BY DEF IntoStd
  <2>3. reply' = "negative" => /\ std' = [seconds |-> -d.seconds, nanos |-> -d.nanos]
                               /\ ~ (d.seconds >= 0 /\ d.nanos >= 0)
    BY DEF IntoStd
  <2> QED
    BY <2>1, <2>2, <2>3, SignOfInstant
<1> QED
  BY <1>1, TypeCorrect, PTL DEF Spec, StdHoldsMagnitude

(* The fields of a message are integers. *)
LEMMA FieldsAreInts ==
  ASSUME NEW d \in Values
  PROVE  /\ d.seconds \in Int /\ MinSeconds <= d.seconds /\ d.seconds <= MaxSeconds
         /\ d.nanos \in Int
         /\ d = [seconds |-> d.seconds, nanos |-> d.nanos]
  BY ConstantFacts DEF Values, Seconds, Nanos, MinSeconds, MinNanos

(* normalize leaves a canonical value alone.                               *)
LEMMA CanonicalIsFixed ==
  ASSUME NEW d \in Values, Canonical(d)
  PROVE  Normalized(d) = d
<1>1. CarrySeconds(d) = d
  BY DEF CarrySeconds, Canonical
<1>2. AgreeSigns(d) = d
  BY DEF AgreeSigns, Canonical
<1> QED
  BY <1>1, <1>2 DEF Normalized

(* A std duration that is not too long becomes the same span, at every     *)
(* width.                                                                  *)
THEOREM StdExact == Spec => StdRoundTrips
<1>1. ASSUME FromStd, reply' = "ok"
      PROVE  Instant(duration') = Instant(std') /\ Canonical(duration')
  <2>1. PICK d \in StdDurations :
          /\ std' = d
          /\ IF d.seconds > MaxSeconds
             THEN reply' = "out of range" /\ UNCHANGED duration
             ELSE reply' = "ok" /\ duration' = Normalized(d)
    BY <1>1 DEF FromStd
  <2>2. ~ (d.seconds > MaxSeconds) /\ duration' = Normalized(d)
    BY <1>1, <2>1
  <2>3. /\ d.seconds \in Int /\ 0 <= d.seconds /\ d.seconds <= MaxSeconds
        /\ d.nanos \in Int /\ 0 <= d.nanos /\ d.nanos < NanosPerSecond
    BY <2>2, ConstantFacts DEF StdDurations, NanosMax
  <2>4. d \in Values
    BY <2>3, ConstantFacts DEF StdDurations, Values, Seconds, Nanos, MinSeconds, MinNanos
  <2>5. Canonical(d)
    BY <2>3, ConstantFacts DEF Canonical
  <2> QED
    BY <2>1, <2>2, <2>4, <2>5, CanonicalIsFixed
<1>2. [Next]_vars => [FromStd /\ reply' = "ok" => Instant(duration') = Instant(std') /\ Canonical(duration')]_vars
  BY <1>1
<1> QED
  BY <1>2, PTL DEF Spec, StdRoundTrips

(* What Display prints of a canonical duration is read back as that        *)
(* duration, and FromStr answers canonical ones only, at every width.      *)
THEOREM TextExact == Spec => TextRoundTrips
<1>1. ASSUME TypeOK, Display, Canonical(duration), duration.seconds # MinSeconds
      PROVE  Signed(text') = duration
  <2> DEFINE s == duration.seconds
             n == duration.nanos
             negative == s < 0 \/ n < 0
  <2>1. Normalized(duration) = duration
    BY <1>1, CanonicalIsFixed DEF TypeOK
  <2>2. text' = [negative |-> negative, seconds |-> Absolute(s), nanos |-> Absolute(n)]
    BY <1>1, <2>1 DEF Display
  <2>3. s \in Int /\ n \in Int /\ duration = [seconds |-> s, nanos |-> n]
    BY <1>1, FieldsAreInts DEF TypeOK
  <2>4. CASE negative
    <3>1. s <= 0 /\ n <= 0
      BY <1>1, <2>3, <2>4 DEF Canonical
    <3>2. Signed(text') = [seconds |-> -Absolute(s), nanos |-> -Absolute(n)]
      BY <2>2, <2>4 DEF Signed
    <3>3. -Absolute(s) = s /\ -Absolute(n) = n
      BY <2>3, <3>1 DEF Absolute
    <3> QED
      BY <2>3, <3>2, <3>3
  <2>5. CASE ~ negative
    <3>1. Signed(text') = [seconds |-> Absolute(s), nanos |-> Absolute(n)]
      BY <2>2, <2>5 DEF Signed
    <3>2. Absolute(s) = s /\ Absolute(n) = n
      BY <2>5 DEF Absolute
    <3> QED
      BY <2>3, <3>1, <3>2
  <2> QED
    BY <2>4, <2>5
<1>2. ASSUME Parse, reply' = "ok"
      PROVE  Canonical(duration')
  <2>1. PICK t \in Texts \union {Garbled} :
          IF t # Garbled /\ t.seconds <= MaxSeconds
          THEN reply' = "ok" /\ duration' = Signed(t)
          ELSE reply' = "parse failure" /\ UNCHANGED duration
    BY <1>2 DEF Parse
  <2>2. t \in Texts /\ duration' = Signed(t)
    BY <1>2, <2>1
  <2>3. /\ t.seconds \in Int /\ 0 <= t.seconds
        /\ t.nanos \in Int /\ 0 <= t.nanos /\ t.nanos < NanosPerSecond
    BY <2>2, ConstantFacts DEF Texts, NanosMax
  <2>4. CASE t.negative
    <3>1. duration' = [seconds |-> -t.seconds, nanos |-> -t.nanos]
      BY <2>2, <2>4 DEF Signed
    <3> QED
      BY <2>3, <3>1, ConstantFacts DEF Canonical
  <2>5. CASE ~ t.negative
    <3>1. duration' = [seconds |-> t.seconds, nanos |-> t.nanos]
      BY <2>2, <2>5 DEF Signed
    <3> QED
      BY <2>3, <3>1, ConstantFacts DEF Canonical
  <2> QED
    BY <2>4, <2>5
<1>3. TypeOK /\ [Next]_vars =>
        [/\ Display /\ Canonical(duration) /\ duration.seconds # MinSeconds
              => Signed(text') = duration
         /\ Parse /\ reply' = "ok" => Canonical(duration')]_vars
  BY <1>1, <1>2
<1> QED
  BY <1>3, TypeCorrect, PTL DEF Spec, TextRoundTrips

=============================================================================
