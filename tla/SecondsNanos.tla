---------------------------- MODULE SecondsNanos ----------------------------
(***************************************************************************)
(* The integers the two time messages of defiant-types are made of, scaled *)
(* down: an i64 of seconds, an i32 of nanoseconds and the number of        *)
(* nanoseconds in a second.  Only the order of magnitude matters to the    *)
(* code: an i32 holds a few seconds' worth of nanoseconds, an i64 far more *)
(* seconds than that.                                                      *)
(***************************************************************************)
EXTENDS Integers

CONSTANTS
  NanosPerSecond,  (* 1_000_000_000 *)
  MaxSeconds,      (* i64::MAX      *)
  MaxNanos         (* i32::MAX      *)

ASSUME NanosPerSecondAssumption == NanosPerSecond \in Nat /\ NanosPerSecond > 1
ASSUME MaxNanosAssumption       == MaxNanos \in Nat /\ MaxNanos >= NanosPerSecond
ASSUME MaxSecondsAssumption     == MaxSeconds \in Nat /\ MaxSeconds > MaxNanos \div NanosPerSecond

NanosMax   == NanosPerSecond - 1
MinSeconds == -MaxSeconds - 1
MinNanos   == -MaxNanos - 1

Seconds == MinSeconds .. MaxSeconds
Nanos   == MinNanos .. MaxNanos

(* What a Duration or a Timestamp message may hold. *)
Values == [seconds : Seconds, nanos : Nanos]

(* Rust's / and % on an i32: towards zero. *)
Quotient(n)  == IF n >= 0 THEN n \div NanosPerSecond ELSE -((-n) \div NanosPerSecond)
Remainder(n) == n - NanosPerSecond * Quotient(n)

(* i64::checked_add, checked_sub, checked_neg return None off this range. *)
FitsSeconds(s) == s \in Seconds

(* The moment or span a value stands for, in nanoseconds. *)
Instant(v) == NanosPerSecond * v.seconds + v.nanos

=============================================================================
