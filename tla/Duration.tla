------------------------------ MODULE Duration ------------------------------
(***************************************************************************)
(* google.protobuf.Duration in defiant-types: normalize, the conversions   *)
(* from and to std::time::Duration, Display and FromStr.  The variables    *)
(* are the message and the two things it is converted to and from; one     *)
(* action is one call.                                                     *)
(***************************************************************************)
EXTENDS SecondsNanos

VARIABLES
  duration,  (* the message                                                *)
  std,       (* a core::time::Duration: u64 seconds, nanos < NanosPerSecond *)
  text,      (* a printed duration: a sign and two numbers                 *)
  reply      (* how the last call ended                                    *)

vars == <<duration, std, text, reply>>

(* u64::MAX *)
StdDurations == [seconds : 0 .. 2 * MaxSeconds + 1, nanos : 0 .. NanosMax]

(* The digits of a printed number are unsigned; Garbled is "--<seconds>s". *)
Texts   == [negative : BOOLEAN, seconds : 0 .. MaxSeconds + 1, nanos : 0 .. NanosMax]
Garbled == [negative |-> TRUE, seconds |-> MinSeconds, nanos |-> 0]

Replies == {"none", "ok", "out of range", "negative", "parse failure", "panic"}

TypeOK ==
  /\ duration \in Values
  /\ std \in StdDurations
  /\ text \in Texts \union {Garbled}
  /\ reply \in Replies

Zero == [seconds |-> 0, nanos |-> 0]

Init ==
  /\ duration \in Values
  /\ std = Zero
  /\ text = [negative |-> FALSE, seconds |-> 0, nanos |-> 0]
  /\ reply = "none"

-----------------------------------------------------------------------------
(* normalize *)

Least    == [seconds |-> MinSeconds, nanos |-> -NanosMax]
Greatest == [seconds |-> MaxSeconds, nanos |-> NanosMax]

(* Mutant: the sum is not checked. *)
CarrySecondsUnchecked(d) ==
  IF -NanosPerSecond < d.nanos /\ d.nanos < NanosPerSecond THEN d
  ELSE [seconds |-> d.seconds + Quotient(d.nanos), nanos |-> Remainder(d.nanos)]

(* Mutant: a positive value keeps negative nanos. *)
AgreeSignsBelowZero(d) ==
  IF d.seconds < 0 /\ d.nanos > 0
  THEN [seconds |-> d.seconds + 1, nanos |-> d.nanos - NanosPerSecond]
  ELSE d

(* Whole seconds leave nanos, or the value saturates. *)
CarrySeconds(d) ==
  LET carried == d.seconds + Quotient(d.nanos)
  IN  IF -NanosPerSecond < d.nanos /\ d.nanos < NanosPerSecond THEN d
      ELSE IF FitsSeconds(carried)
      THEN [seconds |-> carried, nanos |-> Remainder(d.nanos)]
      ELSE IF d.nanos < 0 THEN Least ELSE Greatest

(* nanos takes the sign of seconds.  Neither step can leave an i64: the    *)
(* seconds move towards zero, and the code's two overflow arms are dead.   *)
AgreeSigns(d) ==
  IF d.seconds < 0 /\ d.nanos > 0
  THEN [seconds |-> d.seconds + 1, nanos |-> d.nanos - NanosPerSecond]
  ELSE IF d.seconds > 0 /\ d.nanos < 0
  THEN [seconds |-> d.seconds - 1, nanos |-> d.nanos + NanosPerSecond]
  ELSE d

Normalized(d) == AgreeSigns(CarrySeconds(d))

Normalize ==
  /\ duration' = Normalized(duration)
  /\ reply' = "none"
  /\ UNCHANGED <<std, text>>

-----------------------------------------------------------------------------
(* core::time::Duration *)

(* Mutant: the seconds are cast to an i64. *)
FromStdCast ==
  \E d \in StdDurations :
    /\ std' = d
    /\ reply' = "ok"
    /\ duration' = [d EXCEPT !.seconds = IF d.seconds > MaxSeconds
                                         THEN d.seconds + 2 * MinSeconds ELSE d.seconds]
    /\ UNCHANGED text

(* Duration::try_from(std), for any std the caller has. *)
FromStd ==
  \E d \in StdDurations :
    /\ std' = d
    /\ IF d.seconds > MaxSeconds
       THEN reply' = "out of range" /\ UNCHANGED duration
       ELSE reply' = "ok" /\ duration' = Normalized(d)
    /\ UNCHANGED text

(* Mutant: a negative duration is recognised by its seconds alone. *)
IntoStdBySeconds ==
  LET d == Normalized(duration)
  IN  /\ \/ /\ d.seconds >= 0
            /\ std' = [seconds |-> d.seconds, nanos |-> IF d.nanos < 0 THEN -d.nanos ELSE d.nanos]
            /\ reply' = "ok"
         \/ /\ d.seconds < 0
            /\ std' = [seconds |-> -d.seconds, nanos |-> -d.nanos]
            /\ reply' = "negative"
      /\ UNCHANGED <<duration, text>>

(* std::time::Duration::try_from(duration).  Negating i64::MIN panics in a *)
(* build with overflow checks and wraps in one without, where `as u64`     *)
(* turns it into the right magnitude.  The message is Copy and stays.      *)
IntoStd ==
  LET d == Normalized(duration)
  IN  /\ \/ /\ d.seconds >= 0 /\ d.nanos >= 0
            /\ std' = d
            /\ reply' = "ok"
         \/ /\ ~ (d.seconds >= 0 /\ d.nanos >= 0)
            /\ std' = [seconds |-> -d.seconds, nanos |-> -d.nanos]
            /\ reply' = "negative"
         \/ /\ d.seconds = MinSeconds
            /\ reply' = "panic"
            /\ UNCHANGED std
      /\ UNCHANGED <<duration, text>>

-----------------------------------------------------------------------------
(* Display and FromStr *)

Absolute(n) == IF n < 0 THEN -n ELSE n

(* Display::fmt.  The numbers are the normalized ones, the sign is that of *)
(* the fields as they were; three, six or nine decimals lose nothing.      *)
(* i64::MIN.abs() panics, or wraps and prints its own sign.                *)
Display ==
  LET d == Normalized(duration)
      negative == duration.seconds < 0 \/ duration.nanos < 0
  IN  /\ \/ /\ d.seconds # MinSeconds
            /\ text' = [negative |-> negative, seconds |-> Absolute(d.seconds),
                        nanos |-> Absolute(d.nanos)]
            /\ reply' = "ok"
         \/ /\ d.seconds = MinSeconds
            /\ text' = Garbled
            /\ reply' = "ok"
         \/ /\ d.seconds = MinSeconds
            /\ reply' = "panic"
            /\ UNCHANGED text
      /\ UNCHANGED <<duration, std>>

(* Mutant: the sign reaches the seconds only. *)
SignedWholeOnly(t) ==
  [seconds |-> IF t.negative THEN -t.seconds ELSE t.seconds, nanos |-> t.nanos]

Signed(t) ==
  IF t.negative THEN [seconds |-> -t.seconds, nanos |-> -t.nanos]
  ELSE [seconds |-> t.seconds, nanos |-> t.nanos]

(* datetime::parse_duration on any text: the digits must be an i64 before  *)
(* the sign is applied.                                                    *)
Parse ==
  \E t \in Texts \union {Garbled} :
    /\ text' = t
    /\ IF t # Garbled /\ t.seconds <= MaxSeconds
       THEN reply' = "ok" /\ duration' = Signed(t)
       ELSE reply' = "parse failure" /\ UNCHANGED duration
    /\ UNCHANGED std

Next == Normalize \/ FromStd \/ IntoStd \/ Display \/ Parse

Spec == Init /\ [][Next]_vars

-----------------------------------------------------------------------------
(* Properties *)

Canonical(d) ==
  /\ -NanosPerSecond < d.nanos /\ d.nanos < NanosPerSecond
  /\ ~ (d.seconds < 0 /\ d.nanos > 0)
  /\ ~ (d.seconds > 0 /\ d.nanos < 0)

(* The nearest span a canonical Duration can hold. *)
Clamp(t) ==
  IF t < Instant(Least) THEN Instant(Least)
  ELSE IF t > Instant(Greatest) THEN Instant(Greatest) ELSE t

(* normalize keeps the span exactly whenever a canonical value holds it    *)
(* (also where the two fields overflow in opposite directions), takes the  *)
(* nearest one otherwise, and leaves a canonical value.                    *)
NormalizesExactly ==
  [][Normalize => /\ Canonical(duration')
                  /\ Instant(duration') = Clamp(Instant(duration))]_vars

(* A conversion to std answers with the magnitude of the span, as a value  *)
(* or in the NegativeDuration error, and with the right one of the two,    *)
(* for every message, normalized or not.                                   *)
StdHoldsMagnitude ==
  [][IntoStd =>
       LET span == Clamp(Instant(duration))
       IN  /\ reply' = "ok"       => span >= 0 /\ Instant(std') = span
           /\ reply' = "negative" => span < 0 /\ Instant(std') = -span]_vars

(* Every std duration short enough for an i64 of seconds survives the way  *)
(* into the message and, as long as the message is not touched, back.      *)
StdRoundTrips ==
  [][FromStd /\ reply' = "ok" => Instant(duration') = Instant(std') /\ Canonical(duration')]_vars

(* What is printed of a canonical duration parses back to that duration,   *)
(* i64::MIN seconds excepted, and whatever parses is canonical, also below *)
(* one second, where the sign is carried by nanos alone.                   *)
TextRoundTrips ==
  [][/\ Display /\ Canonical(duration) /\ duration.seconds # MinSeconds
         => Signed(text') = duration
     /\ Parse /\ reply' = "ok" => Canonical(duration')]_vars

=============================================================================
