----------------------------- MODULE Timestamp ------------------------------
(***************************************************************************)
(* google.protobuf.Timestamp in defiant-types: normalize, try_normalize    *)
(* and the conversions from and to std::time::SystemTime.  The variables   *)
(* are the message and the SystemTime it is converted to and from; one     *)
(* action is one call.                                                     *)
(***************************************************************************)
EXTENDS SecondsNanos

VARIABLES
  timestamp,  (* the message                                               *)
  system,     (* a SystemTime                                              *)
  reply       (* how the last call ended                                   *)

vars == <<timestamp, system, reply>>

Canonical(t) == 0 <= t.nanos /\ t.nanos < NanosPerSecond

(* std::time::SystemTime on a 64-bit Unix: an i64 of seconds since the     *)
(* epoch and the nanoseconds that follow them.                             *)
SystemTimes == { t \in Values : Canonical(t) }

Replies == {"none", "ok", "overflow", "out of system range", "panic"}

TypeOK ==
  /\ timestamp \in Values
  /\ system \in SystemTimes
  /\ reply \in Replies

Init ==
  /\ timestamp \in Values
  /\ system = [seconds |-> 0, nanos |-> 0]
  /\ reply = "none"

-----------------------------------------------------------------------------
(* normalize *)

Earliest == [seconds |-> MinSeconds, nanos |-> 0]
Latest   == [seconds |-> MaxSeconds, nanos |-> NanosMax]

(* Mutant: the sum is not checked. *)
CarrySecondsUnchecked(t) ==
  IF -NanosPerSecond < t.nanos /\ t.nanos < NanosPerSecond THEN t
  ELSE [seconds |-> t.seconds + Quotient(t.nanos), nanos |-> Remainder(t.nanos)]

(* Whole seconds leave nanos, or the value saturates. *)
CarrySeconds(t) ==
  LET carried == t.seconds + Quotient(t.nanos)
  IN  IF -NanosPerSecond < t.nanos /\ t.nanos < NanosPerSecond THEN t
      ELSE IF FitsSeconds(carried)
      THEN [seconds |-> carried, nanos |-> Remainder(t.nanos)]
      ELSE IF t.nanos < 0 THEN Earliest ELSE Latest

(* Mutant: no test of the overflow of seconds - 1. *)
BorrowSecondUnchecked(t) ==
  IF t.nanos >= 0 THEN t
  ELSE [seconds |-> IF t.seconds = MinSeconds THEN MaxSeconds ELSE t.seconds - 1,
        nanos |-> t.nanos + NanosPerSecond]

(* nanos count forward: a negative rest borrows a second. *)
BorrowSecond(t) ==
  IF t.nanos >= 0 THEN t
  ELSE IF FitsSeconds(t.seconds - 1)
  THEN [seconds |-> t.seconds - 1, nanos |-> t.nanos + NanosPerSecond]
  ELSE Earliest

Normalized(t) == BorrowSecond(CarrySeconds(t))

Normalize ==
  /\ timestamp' = Normalized(timestamp)
  /\ reply' = "none"
  /\ UNCHANGED system

(* Mutant: the lower end is forgotten. *)
OverflowedAbove(before, after) ==
  after.seconds = MaxSeconds /\ after.seconds # before.seconds

(* try_normalize's test of an overflow that has already happened. *)
Overflowed(before, after) ==
  after.seconds \in {MinSeconds, MaxSeconds} /\ after.seconds # before.seconds

TryNormalize ==
  LET after == Normalized(timestamp)
  IN  /\ IF Overflowed(timestamp, after)
         THEN reply' = "overflow" /\ UNCHANGED timestamp
         ELSE reply' = "ok" /\ timestamp' = after
      /\ UNCHANGED system

-----------------------------------------------------------------------------
(* SystemTime *)

(* SystemTime::duration_since(UNIX_EPOCH), where its error holds the time  *)
(* that is missing to the epoch.                                           *)
UntilEpoch(t) ==
  IF t.nanos = 0 THEN [seconds |-> -t.seconds, nanos |-> 0]
  ELSE [seconds |-> -t.seconds - 1, nanos |-> NanosPerSecond - t.nanos]

(* Mutant: no second is borrowed for the nanos. *)
BeforeEpochSameSecond(missing) ==
  [seconds |-> -missing.seconds, nanos |-> (NanosPerSecond - missing.nanos) % NanosPerSecond]

BeforeEpoch(missing) ==
  IF missing.nanos = 0 THEN [seconds |-> -missing.seconds, nanos |-> 0]
  ELSE [seconds |-> -missing.seconds - 1, nanos |-> NanosPerSecond - missing.nanos]

(* Timestamp::from; before the epoch the number of seconds to it is        *)
(* unwrapped from its conversion to an i64.                                *)
FromSystem(t) == IF t.seconds >= 0 THEN t ELSE BeforeEpoch(UntilEpoch(t))

FromSystemTime ==
  \E t \in SystemTimes :
    /\ system' = t
    /\ IF t.seconds < 0 /\ ~ FitsSeconds(UntilEpoch(t).seconds)
       THEN reply' = "panic" /\ UNCHANGED timestamp
       ELSE reply' = "ok" /\ timestamp' = FromSystem(t)

(* SystemTime::try_from(timestamp): the seconds are added to or taken from *)
(* the epoch, then the nanos are added.  The message is Copy and stays.    *)
IntoSystemTime ==
  LET t == Normalized(timestamp)
  IN  /\ IF t.seconds >= 0 \/ FitsSeconds(-t.seconds)
         THEN reply' = "ok" /\ system' = t
         ELSE reply' = "out of system range" /\ UNCHANGED system
      /\ UNCHANGED timestamp

Next == Normalize \/ TryNormalize \/ FromSystemTime \/ IntoSystemTime

Spec == Init /\ [][Next]_vars

-----------------------------------------------------------------------------
(* Properties *)

Clamp(t) ==
  IF t < Instant(Earliest) THEN Instant(Earliest)
  ELSE IF t > Instant(Latest) THEN Instant(Latest) ELSE t

Representable(t) == Clamp(Instant(t)) = Instant(t)

(* normalize keeps the moment exactly whenever a canonical value holds it, *)
(* takes the nearest one otherwise, and leaves a canonical value.          *)
NormalizesExactly ==
  [][Normalize => /\ Canonical(timestamp')
                  /\ Instant(timestamp') = Clamp(Instant(timestamp))]_vars

(* Unless its seconds sit at an end of the range already, try_normalize    *)
(* never answers Ok with another moment than it was given, and its error   *)
(* leaves the message as it was.                                           *)
TryNormalizeKeepsMoment ==
  [][TryNormalize /\ timestamp.seconds \notin {MinSeconds, MaxSeconds} =>
       IF reply' = "ok" THEN Instant(timestamp') = Instant(timestamp)
       ELSE timestamp' = timestamp]_vars

(* A timestamp that became a SystemTime is that moment, and comes back as  *)
(* itself, normalized: the harness check_timestamp_roundtrip_via_system_time. *)
IntoSystemTimeRoundTrips ==
  [][IntoSystemTime /\ reply' = "ok" =>
       /\ Instant(system') = Clamp(Instant(timestamp))
       /\ FromSystem(system') = Normalized(timestamp)]_vars

(* A SystemTime that became a Timestamp is the same moment, before the     *)
(* epoch and after it.                                                     *)
FromSystemTimeExact ==
  [][FromSystemTime /\ reply' = "ok" => Instant(timestamp') = Instant(system')]_vars

=============================================================================
