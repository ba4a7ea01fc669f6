------------------------- MODULE SecondsNanos_proofs -------------------------
(***************************************************************************)
(* Arithmetic shared by the proofs about Duration and Timestamp: division  *)
(* towards zero, and how far a second moves an instant.                    *)
(***************************************************************************)
EXTENDS SecondsNanos, TLAPS

(* The constants as numbers. *)
LEMMA ConstantFacts ==
  /\ NanosPerSecond \in Int /\ NanosPerSecond > 1
  /\ MaxSeconds \in Int /\ MaxSeconds >= 0
  /\ MaxNanos \in Int /\ MaxNanos >= NanosPerSecond
BY NanosPerSecondAssumption, MaxNanosAssumption, MaxSecondsAssumption

(* Division of a natural number. *)
LEMMA NaturalDivision ==
  ASSUME NEW n \in Nat
  PROVE  /\ n \div NanosPerSecond \in Nat
         /\ n - NanosPerSecond * (n \div NanosPerSecond) \in 0 .. NanosPerSecond - 1
BY NanosPerSecondAssumption, Z3

(* Rust's division: the quotient and the rest rebuild the number and have  *)
(* its sign.                                                               *)
LEMMA QuotientFacts ==
  ASSUME NEW n \in Int
  PROVE  /\ Quotient(n) \in Int
         /\ Remainder(n) \in Int
         /\ -NanosPerSecond < Remainder(n) /\ Remainder(n) < NanosPerSecond
         /\ n >= 0 => Quotient(n) >= 0 /\ Remainder(n) >= 0
         /\ n <= 0 => Quotient(n) <= 0 /\ Remainder(n) <= 0
         /\ n = NanosPerSecond * Quotient(n) + Remainder(n)
<1>1. CASE n >= 0
  <2>1. n \in Nat
    BY <1>1
  <2> QED
    BY <1>1, <2>1, NaturalDivision, ConstantFacts DEF Quotient, Remainder
<1>2. CASE n < 0
  <2>1. -n \in Nat
    BY <1>2
  <2> QED
    BY <1>2, <2>1, NaturalDivision, ConstantFacts DEF Quotient, Remainder
<1> QED
  BY <1>1, <1>2

(* Multiplying by a positive number keeps the order. *)
LEMMA Scale ==
  ASSUME NEW a \in Int, NEW b \in Int, a <= b
  PROVE  NanosPerSecond * a <= NanosPerSecond * b
BY ConstantFacts, Z3

(* Moving seconds between the fields keeps the instant. *)
LEMMA Regroup ==
  ASSUME NEW s \in Int, NEW q \in Int, NEW r \in Int
  PROVE  NanosPerSecond * (s + q) + r = NanosPerSecond * s + (NanosPerSecond * q + r)
BY ConstantFacts, Z3

=============================================================================
