---------------------------- MODULE Varint_proofs ----------------------------
(***************************************************************************)
(* What the runs of Varint show for three digits of three bits, proved for *)
(* every width, every length of a piece and every cut of the buffer: the   *)
(* unchecked reads of the unrolled decoder stay in the chunk it was given, *)
(* both decoders read exactly what the buffer says, what is written is     *)
(* read back, and the formula for the length is exact.                     *)
(*                                                                         *)
(* The argument: the bytes passed so far all went on, so the first byte    *)
(* that stops is the one ahead; the value, with the piece that is still    *)
(* being added up, is the sum of the digits passed; and an encoder keeps   *)
(* the digits written plus what is left equal to what it was given.        *)
(***************************************************************************)
EXTENDS Varint, WellFoundedInduction, TLAPS

(* Induction *)

(* A nonempty set of natural numbers has a least element. *)
LEMMA LeastElement ==
  ASSUME NEW S \in SUBSET Nat, S # {}
  PROVE  \E x \in S : \A y \in S : x <= y
<1> DEFINE R == OpToRel(<, Nat)
<1>1. IsWellFoundedOn(R, Nat)
  BY NatLessThanWellFounded
<1>2. \A x, y \in Nat : <<y, x>> \in R <=> y < x
  BY DEF OpToRel
<1> HIDE DEF R
<1>3. PICK x \in S : \A y \in S : ~ (<<y, x>> \in R)
  BY <1>1, WFMin, Zenon
<1>4. ASSUME NEW y \in S
      PROVE  x <= y
  <2>1. x \in Nat /\ y \in Nat
    OBVIOUS
  <2>2. ~ (y < x)
    BY <1>2, <1>3, <2>1, Zenon
  <2>3. QED BY <2>1, <2>2
<1>5. QED BY <1>4

(* Induction, with the numbers a claim holds for as a set: the provers take *)
(* no operator for the claim.                                              *)
LEMMA Induction ==
  ASSUME NEW S, 0 \in S, NEW N \in Nat, \A n \in Nat : n < N /\ n \in S => n + 1 \in S
  PROVE  \A n \in 0 .. N : n \in S
<1> DEFINE T == { n \in 0 .. N : n \notin S }
<1> SUFFICES ASSUME T # {} PROVE FALSE
  OBVIOUS
<1>1. T \in SUBSET Nat
  OBVIOUS
<1>2. PICK x \in T : \A y \in T : x <= y
  BY <1>1, LeastElement
<1>3. x \in Nat /\ x <= N /\ x \notin S /\ x # 0
  BY <1>2
<1>4. x - 1 \in 0 .. N /\ ~ (x <= x - 1) /\ x - 1 \in Nat /\ x - 1 < N /\ (x - 1) + 1 = x
  BY <1>3
<1>5. x - 1 \notin T
  BY <1>2, <1>4
<1>6. x - 1 \in S
  BY <1>4, <1>5
<1> QED
  BY <1>3, <1>4, <1>6

(* The digit that byte i adds, and the sums it is added to. *)
Digit(b, i) == (b[i] % Continue) * Place(i)
Sums(b, f, n) == f = [i \in 0 .. n |-> IF i = 0 THEN 0 ELSE f[i - 1] + Digit(b, i)]

(* There is one such function for every length, *)
LEMMA SumsExist ==
  ASSUME NEW b, NEW N \in Nat
  PROVE  \E f : Sums(b, f, N)
<1> DEFINE S == { n \in Nat : \E f : Sums(b, f, n) }
<1>1. 0 \in S
  <2> DEFINE f == [i \in 0 .. 0 |-> 0]
  <2>1. f = [i \in 0 .. 0 |-> IF i = 0 THEN 0 ELSE f[i - 1] + Digit(b, i)]
    OBVIOUS
  <2>2. Sums(b, f, 0)
    BY <2>1, Zenon DEF Sums
  <2> HIDE DEF f
  <2> QED
    BY <2>2
<1>2. ASSUME NEW n \in Nat, n \in S PROVE n + 1 \in S
  <2>1. PICK g : Sums(b, g, n)
    BY <1>2
  <2> DEFINE f == [i \in 0 .. n + 1 |-> IF i = n + 1 THEN g[n] + Digit(b, n + 1) ELSE g[i]]
  <2>2. \A i \in 0 .. n : g[i] = IF i = 0 THEN 0 ELSE g[i - 1] + Digit(b, i)
    BY <2>1, Zenon DEF Sums
  <2>3. \A i \in 0 .. n + 1 : f[i] = IF i = 0 THEN 0 ELSE f[i - 1] + Digit(b, i)
    <3> SUFFICES ASSUME NEW i \in 0 .. n + 1
                 PROVE  f[i] = IF i = 0 THEN 0 ELSE f[i - 1] + Digit(b, i)
      OBVIOUS
    <3>1. CASE i = n + 1
      <4>1. i - 1 = n /\ n \in 0 .. n + 1 /\ n # n + 1 /\ i # 0 /\ n + 1 \in 0 .. n + 1
        BY <3>1
      <4>2. f[i] = g[n] + Digit(b, n + 1) /\ f[n] = g[n]
        BY <3>1, <4>1, Zenon
      <4> HIDE DEF f
      <4> QED
        BY <3>1, <4>1, <4>2, Zenon
    <3>2. CASE i # n + 1
      <4>1. i \in 0 .. n /\ (i = 0 \/ (i - 1 \in 0 .. n + 1 /\ i - 1 # n + 1))
        BY <3>2
      <4>2. f[i] = g[i] /\ (i = 0 \/ f[i - 1] = g[i - 1])
        BY <3>2, <4>1, Zenon
      <4> HIDE DEF f
      <4> QED
        BY <2>2, <4>1, <4>2, Zenon
    <3> QED
      BY <3>1, <3>2
  <2>4. f = [i \in 0 .. n + 1 |-> f[i]]
    OBVIOUS
  <2> HIDE DEF f
  <2>5. f = [i \in 0 .. n + 1 |-> IF i = 0 THEN 0 ELSE f[i - 1] + Digit(b, i)]
    BY <2>3, <2>4, Zenon
  <2>6. Sums(b, f, n + 1)
    BY <2>5, Zenon DEF Sums
  <2> QED
    BY <2>6
<1>3. \A n \in Nat : n < N /\ n \in S => n + 1 \in S
  BY <1>2
<1> HIDE DEF S
<1>4. N \in S
  BY <1>1, <1>3, Induction
<1> QED
  BY <1>4 DEF S

(* and they agree where they are defined. *)
LEMMA SumsAgree ==
  ASSUME NEW b, NEW f, NEW g, NEW N \in Nat, NEW M \in Nat, N <= M, Sums(b, f, N), Sums(b, g, M)
  PROVE  \A i \in 0 .. N : f[i] = g[i]
<1> DEFINE S == { n \in Nat : n <= N => f[n] = g[n] }
<1>1. /\ \A i \in 0 .. N : f[i] = IF i = 0 THEN 0 ELSE f[i - 1] + Digit(b, i)
      /\ \A i \in 0 .. M : g[i] = IF i = 0 THEN 0 ELSE g[i - 1] + Digit(b, i)
  BY Zenon DEF Sums
<1>2. 0 \in S
  <2>1. 0 \in 0 .. N /\ 0 \in 0 .. M
    OBVIOUS
  <2> QED
    BY <1>1, <2>1
<1>3. ASSUME NEW n \in Nat, n < N, n \in S PROVE n + 1 \in S
  <2>1. n + 1 \in 0 .. N /\ n + 1 \in 0 .. M /\ n + 1 # 0 /\ (n + 1) - 1 = n
    BY <1>3
  <2>2. f[n + 1] = f[n] + Digit(b, n + 1) /\ g[n + 1] = g[n] + Digit(b, n + 1)
    BY <1>1, <2>1, Zenon
  <2>3. f[n] = g[n]
    BY <1>3
  <2> QED
    BY <2>2, <2>3
<1>4. \A n \in Nat : n < N /\ n \in S => n + 1 \in S
  BY <1>3
<1> HIDE DEF S
<1>5. \A n \in 0 .. N : n \in S
  BY <1>2, <1>4, Induction
<1> QED
  BY <1>5 DEF S

(* What the digits up to a byte add up to. *)
LEMMA SumFacts ==
  ASSUME NEW b
  PROVE  /\ Sum(b, 0) = 0
         /\ \A n \in Nat : Sum(b, n + 1) = Sum(b, n) + Digit(b, n + 1)
<1> DEFINE F(n) == CHOOSE f : Sums(b, f, n)
<1>1. \A n \in Nat : Sums(b, F(n), n)
  BY SumsExist, Zenon
<1>2. \A n \in Nat : Sum(b, n) = F(n)[n]
  <2> TAKE n \in Nat
  <2>1. Sum(b, n) = (CHOOSE f : f = [i \in 0 .. n |-> IF i = 0 THEN 0
                                       ELSE f[i - 1] + (b[i] % Continue) * Place(i)])[n]
    BY Zenon DEF Sum
  <2> QED
    BY <2>1, Zenon DEF Sums, Digit
<1> HIDE DEF F
<1>3. Sum(b, 0) = 0
  <2>1. 0 \in 0 .. 0 /\ 0 \in Nat
    OBVIOUS
  <2>2. F(0)[0] = 0
    BY <1>1, <2>1, Zenon DEF Sums
  <2> QED
    BY <1>2, <2>1, <2>2, Zenon
<1>4. ASSUME NEW n \in Nat PROVE Sum(b, n + 1) = Sum(b, n) + Digit(b, n + 1)
  <2>1. n + 1 \in Nat /\ n <= n + 1 /\ n + 1 \in 0 .. n + 1 /\ n + 1 # 0 /\ (n + 1) - 1 = n /\ n \in 0 .. n
    OBVIOUS
  <2>2. F(n + 1)[n + 1] = F(n + 1)[n] + Digit(b, n + 1)
    <3>1. Sums(b, F(n + 1), n + 1)
      BY <1>1, <2>1, Zenon
    <3>2. \A i \in 0 .. n + 1 : F(n + 1)[i] = IF i = 0 THEN 0 ELSE F(n + 1)[i - 1] + Digit(b, i)
      BY <3>1, Zenon DEF Sums
    <3> QED
      BY <2>1, <3>2, Zenon
  <2>3. F(n)[n] = F(n + 1)[n]
    <3>1. Sums(b, F(n), n) /\ Sums(b, F(n + 1), n + 1)
      BY <1>1, <2>1, Zenon
    <3> QED
      BY <2>1, <3>1, SumsAgree
  <2> QED
    BY <1>2, <2>1, <2>2, <2>3, Zenon
<1> QED
  BY <1>3, <1>4

-----------------------------------------------------------------------------
(* Powers *)

(* The powers of two in use, as a sequence of numbers. *)
Exponents == 0 .. Bits * MaxBytes + 1
Powers    == [n \in Exponents |-> 2 ^ n]

(* What the assumption says of them. *)
LEMMA PowersFacts ==
  /\ Bits * MaxBytes \in Nat
  /\ Powers[0] = 1
  /\ \A n \in Exponents : Powers[n] = 2 ^ n /\ Powers[n] \in Nat \ {0}
  /\ \A n \in Nat : n <= Bits * MaxBytes => Powers[n + 1] = 2 * Powers[n]
<1>1. PICK N \in Nat : N = Bits * MaxBytes
  <2>1. Bits * MaxBytes \in Nat
    BY BitsAssumption, BytesAssumption, Z3
  <2> QED
    BY <2>1
<1>2. \A n \in 0 .. N + 1 : Powers[n] = 2 ^ n
  BY <1>1, Zenon DEF Powers, Exponents
<1>3. \A n \in 0 .. N : 2 ^ n \in Nat /\ 2 ^ (n + 1) = 2 * 2 ^ n
  BY <1>1, PowersAssumption, Zenon
<1>4. Powers[0] = 1
  <2>1. 0 \in 0 .. N + 1
    OBVIOUS
  <2> QED
    BY <1>2, <2>1, PowersAssumption, Zenon
<1>5. ASSUME NEW n \in Nat, n <= N PROVE Powers[n + 1] = 2 * Powers[n] /\ Powers[n] \in Nat
  <2>1. n \in 0 .. N /\ n \in 0 .. N + 1 /\ n + 1 \in 0 .. N + 1
    BY <1>5
  <2> QED
    BY <1>2, <1>3, <2>1, Zenon
<1> DEFINE S == { n \in Nat : Powers[n] \in Nat \ {0} }
<1>6. \A n \in 0 .. N + 1 : n \in S
  <2>1. 0 \in S
    BY <1>4
  <2>2. \A n \in Nat : n < N + 1 /\ n \in S => n + 1 \in S
    BY <1>5
  <2>3. N + 1 \in Nat
    OBVIOUS
  <2> HIDE DEF S
  <2> QED
    BY <2>1, <2>2, <2>3, Induction
<1> QED
  BY <1>1, <1>2, <1>4, <1>5, <1>6 DEF Exponents

(* Powers of two multiply by adding their exponents. *)
LEMMA PowersAdd ==
  ASSUME NEW i \in Nat, NEW j \in Nat, i + j \in Exponents
  PROVE  Powers[i + j] = Powers[i] * Powers[j]
<1>1. PICK N \in Nat : N = Bits * MaxBytes
  BY PowersFacts
<1>2. i + j <= N + 1
  BY <1>1 DEF Exponents
<1> DEFINE S == { n \in Nat : Powers[i + n] = Powers[i] * Powers[n] }
<1>3. i \in Exponents /\ Powers[i] \in Nat
  <2>1. i \in Exponents
    BY <1>1, <1>2 DEF Exponents
  <2> QED
    BY <2>1, PowersFacts
<1>4. 0 \in S
  BY <1>3, PowersFacts
<1>5. ASSUME NEW n \in Nat, n < j, n \in S PROVE n + 1 \in S
  <2>1. i + n <= N /\ n <= N /\ i + n \in Nat /\ i + (n + 1) = (i + n) + 1
    BY <1>2, <1>5
  <2>2. Powers[(i + n) + 1] = 2 * Powers[i + n] /\ Powers[n + 1] = 2 * Powers[n]
    BY <1>1, <2>1, PowersFacts
  <2>3. Powers[n] \in Nat
    <3>1. n \in Exponents
      BY <1>1, <2>1 DEF Exponents
    <3> QED
      BY <3>1, PowersFacts
  <2>4. Powers[i + n] = Powers[i] * Powers[n]
    BY <1>5
  <2>5. 2 * (Powers[i] * Powers[n]) = Powers[i] * (2 * Powers[n])
    BY <1>3, <2>3, Z3
  <2>6. Powers[i + (n + 1)] = Powers[i] * Powers[n + 1]
    BY <2>1, <2>2, <2>4, <2>5, Zenon
  <2> QED
    BY <2>6
<1>6. \A n \in Nat : n < j /\ n \in S => n + 1 \in S
  BY <1>5
<1> HIDE DEF S
<1>7. j \in S
  <2>1. \A n \in 0 .. j : n \in S
    BY <1>4, <1>6, Induction
  <2> QED
    BY <2>1
<1> QED
  BY <1>7 DEF S

(* What a digit counts. *)
LEMMA PlaceFacts ==
  /\ Continue \in Nat /\ Continue >= 4
  /\ \A i \in 1 .. MaxBytes + 1 : Place(i) \in Nat \ {0}
  /\ Place(1) = 1
  /\ \A i \in 1 .. MaxBytes : Place(i + 1) = Continue * Place(i)
  /\ \A i \in 1 .. MaxBytes : \A k \in 1 .. i : Place(i) = Place((i - k) + 1) * Place(k)
  /\ Word = 2 * Place(MaxBytes)
<1>1. PICK N \in Nat : N = Bits * MaxBytes
  BY PowersFacts
<1>2. Bits \in Nat /\ Bits >= 2 /\ MaxBytes \in Nat /\ MaxBytes >= 2
  BY BitsAssumption, BytesAssumption
<1>3. ASSUME NEW i \in 1 .. MaxBytes + 1
      PROVE  Bits * (i - 1) \in Exponents /\ Bits * (i - 1) \in Nat /\ Bits * (i - 1) <= N
             /\ Place(i) = Powers[Bits * (i - 1)]
  <2>1. Bits * (i - 1) \in Nat /\ Bits * (i - 1) <= Bits * MaxBytes
    <3>1. PICK a \in Nat, c \in Nat : a = i - 1 /\ MaxBytes = a + c
      BY <1>2
    <3>2. Bits * (a + c) = Bits * a + Bits * c /\ Bits * a \in Nat /\ Bits * c \in Nat
      BY <1>2, Z3
    <3> QED
      BY <3>1, <3>2
  <2>2. Bits * (i - 1) \in Exponents /\ Bits * (i - 1) <= N
    BY <1>1, <2>1 DEF Exponents
  <2> QED
    BY <2>1, <2>2, PowersFacts, Zenon DEF Place
<1>4. ASSUME NEW i \in 1 .. MaxBytes + 1 PROVE Place(i) \in Nat \ {0}
  BY <1>3, PowersFacts
<1>5. Place(1) = 1
  <2>1. 1 \in 1 .. MaxBytes + 1 /\ Bits * (1 - 1) = 0
    BY <1>2
  <2>2. Place(1) = Powers[Bits * (1 - 1)]
    BY <1>3, <2>1
  <2> QED
    BY <2>1, <2>2, PowersFacts, Zenon
<1>6. Continue = Powers[Bits] /\ Continue = Place(2) /\ Bits \in Exponents
  <2>1. 2 \in 1 .. MaxBytes + 1 /\ Bits * (2 - 1) = Bits
    BY <1>2
  <2>2. Place(2) = Powers[Bits * (2 - 1)] /\ Bits * (2 - 1) \in Exponents
    BY <1>3, <2>1
  <2>3. Place(2) = Powers[Bits] /\ Bits \in Exponents
    BY <2>1, <2>2, Zenon
  <2> QED
    BY <2>3, PowersFacts, Zenon DEF Continue
<1>7. Continue \in Nat /\ Continue >= 4
  <2>1. PICK k \in Nat : Bits = k + 2
    <3>1. Bits - 2 \in Nat /\ Bits = (Bits - 2) + 2
      BY <1>2
    <3> QED
      BY <3>1
  <2>2. Bits <= N
    <3>1. 2 \in 1 .. MaxBytes + 1 /\ Bits * (2 - 1) = Bits
      BY <1>2
    <3> QED
      BY <1>3, <3>1, Zenon
  <2>3. k <= N /\ k + 1 <= N /\ k \in Exponents /\ k + 1 \in Nat /\ (k + 1) + 1 = k + 2
    BY <1>1, <2>1, <2>2 DEF Exponents
  <2>4. Powers[k] \in Nat \ {0} /\ Powers[k + 1] = 2 * Powers[k] /\ Powers[(k + 1) + 1] = 2 * Powers[k + 1]
    BY <1>1, <2>3, PowersFacts
  <2>5. Continue = 2 * (2 * Powers[k])
    BY <1>6, <2>1, <2>3, <2>4, Zenon
  <2> QED
    BY <2>4, <2>5
<1>8. ASSUME NEW i \in 1 .. MaxBytes, NEW k \in 1 .. i
      PROVE  Place(i) = Place((i - k) + 1) * Place(k)
  <2>1. PICK a \in Nat, c \in Nat : a = i - k /\ c = k - 1 /\ a + c = i - 1 /\ ((i - k) + 1) - 1 = a
    OBVIOUS
  <2>2. i \in 1 .. MaxBytes + 1 /\ k \in 1 .. MaxBytes + 1 /\ (i - k) + 1 \in 1 .. MaxBytes + 1
    BY <1>2
  <2>3. /\ Place(i) = Powers[Bits * (a + c)] /\ Bits * (a + c) \in Exponents
        /\ Place((i - k) + 1) = Powers[Bits * a] /\ Bits * a \in Nat
        /\ Place(k) = Powers[Bits * c] /\ Bits * c \in Nat
    BY <1>3, <2>1, <2>2, Zenon
  <2>4. Bits * (a + c) = Bits * a + Bits * c
    BY <1>2, Z3
  <2>5. Powers[Bits * a + Bits * c] = Powers[Bits * a] * Powers[Bits * c]
    BY <2>3, <2>4, PowersAdd, Zenon
  <2> QED
    BY <2>3, <2>4, <2>5, Zenon
<1>9. ASSUME NEW i \in 1 .. MaxBytes PROVE Place(i + 1) = Continue * Place(i)
  <2>1. PICK a \in Nat : a = i - 1 /\ i = a + 1 /\ (i + 1) - 1 = a + 1
    OBVIOUS
  <2>2. i \in 1 .. MaxBytes + 1 /\ i + 1 \in 1 .. MaxBytes + 1
    BY <1>2
  <2>3. /\ Place(i) = Powers[Bits * a] /\ Bits * a \in Nat
        /\ Place(i + 1) = Powers[Bits * (a + 1)] /\ Bits * (a + 1) \in Exponents
    BY <1>3, <2>1, <2>2, Zenon
  <2>4. Bits * (a + 1) = Bits + Bits * a
    BY <1>2, Z3
  <2>5. Powers[Bits + Bits * a] = Powers[Bits] * Powers[Bits * a]
    BY <1>2, <2>3, <2>4, PowersAdd, Zenon
  <2> QED
    BY <1>6, <2>3, <2>4, <2>5, Zenon
<1>10. Word = 2 * Place(MaxBytes)
  <2>1. MaxBytes \in 1 .. MaxBytes + 1
    BY <1>2
  <2>2. PICK n \in Nat : n = Bits * (MaxBytes - 1) /\ n \in Exponents /\ n <= N /\ Place(MaxBytes) = Powers[n]
    BY <1>3, <2>1
  <2>3. Powers[n + 1] = 2 * Powers[n] /\ n + 1 \in Exponents
    BY <1>1, <2>2, PowersFacts DEF Exponents
  <2>4. Powers[n + 1] = 2 ^ (n + 1)
    BY <2>3, PowersFacts
  <2> QED
    BY <2>2, <2>3, <2>4, Zenon DEF Word
<1> QED
  BY <1>4, <1>5, <1>7, <1>8, <1>9, <1>10

-----------------------------------------------------------------------------
(* Division *)

(* A natural number, divided. *)
LEMMA Divided ==
  ASSUME NEW a \in Nat, NEW b \in Nat \ {0}
  PROVE  a \div b \in Nat /\ a % b \in 0 .. b - 1 /\ a = b * (a \div b) + (a % b)
OBVIOUS

(* A product grows with its factor. *)
LEMMA Product ==
  ASSUME NEW a \in Nat, NEW c \in Nat, NEW b \in Nat, a <= c
  PROVE  b * a \in Nat /\ b * c \in Nat /\ b * a <= b * c /\ (a < c => b * a + b <= b * c)
<1>1. PICK d \in Nat : c = a + d
  <2>1. c - a \in Nat /\ c = a + (c - a)
    OBVIOUS
  <2> QED
    BY <2>1
<1>2. b * a \in Nat /\ b * d \in Nat /\ b * c = b * a + b * d /\ (d > 0 => b * d >= b)
  BY <1>1, Z3
<1> QED
  BY <1>1, <1>2

(* A number has one quotient and one rest. *)
LEMMA OneDivision ==
  ASSUME NEW a \in Nat, NEW b \in Nat \ {0}, NEW q \in Nat, NEW r \in Nat, r < b, a = b * q + r
  PROVE  a \div b = q /\ a % b = r
<1>1. PICK p \in Nat, s \in Nat : p = a \div b /\ s = a % b /\ s < b /\ a = b * p + s
  BY Divided
<1>2. b * p \in Nat /\ b * q \in Nat
  BY Product
<1>3. ~ (p < q)
  <2> SUFFICES ASSUME p < q PROVE FALSE
    OBVIOUS
  <2>1. b * p + b <= b * q
    BY Product
  <2> QED
    BY <1>1, <1>2, <2>1
<1>4. ~ (q < p)
  <2> SUFFICES ASSUME q < p PROVE FALSE
    OBVIOUS
  <2>1. b * q + b <= b * p
    BY Product
  <2> QED
    BY <1>1, <1>2, <2>1
<1>5. p = q
  BY <1>3, <1>4
<1>6. r = s
  BY <1>1, <1>2, <1>5
<1> QED
  BY <1>1, <1>5, <1>6

-----------------------------------------------------------------------------
(* Sums of digits *)

(* What a byte adds. *)
LEMMA DigitFacts ==
  ASSUME NEW b, NEW i \in 1 .. MaxBytes, b[i] \in Bytes
  PROVE  /\ Digit(b, i) \in Nat /\ Digit(b, i) + Place(i) <= Place(i + 1)
         /\ b[i] < Continue => Digit(b, i) = b[i] * Place(i)
         /\ ~ (b[i] < Continue) => b[i] - Continue \in Nat /\ Digit(b, i) = (b[i] - Continue) * Place(i)
<1>1. PICK c \in Nat \ {0}, x \in Nat, p \in Nat \ {0} :
        c = Continue /\ x = b[i] /\ p = Place(i) /\ x < 2 * c
  <2>1. i \in 1 .. MaxBytes + 1
    BY BytesAssumption
  <2>2. Place(i) \in Nat \ {0} /\ Continue \in Nat \ {0}
    BY <2>1, PlaceFacts
  <2>3. b[i] \in Nat /\ b[i] < 2 * Continue
    BY <2>2 DEF Bytes
  <2> QED
    BY <2>2, <2>3
<1>2. PICK r \in Nat : r = x % c /\ r < c /\ (x < c => r = x) /\ (~ (x < c) => r = x - c)
  <2>1. CASE x < c
    <3>1. x = c * 0 + x
      OBVIOUS
    <3>2. x % c = x
      BY <2>1, <3>1, OneDivision
    <3> QED
      BY <2>1, <3>2
  <2>2. CASE ~ (x < c)
    <3>1. PICK y \in Nat : y = x - c /\ y < c /\ x = c * 1 + y
      BY <1>1, <2>2
    <3>2. x % c = y
      BY <3>1, OneDivision
    <3> QED
      BY <2>2, <3>1, <3>2
  <2> QED
    BY <2>1, <2>2
<1>3. Digit(b, i) = r * p
  BY <1>1, <1>2, Zenon DEF Digit
<1>4. Place(i + 1) = c * p
  BY <1>1, PlaceFacts
<1>5. r * p \in Nat /\ r * p + p <= c * p
  <2>1. p * r \in Nat /\ p * c \in Nat /\ p * r + p <= p * c
    BY <1>2, Product
  <2>2. p * r = r * p /\ p * c = c * p
    OBVIOUS
  <2> QED
    BY <2>1, <2>2
<1> QED
  BY <1>1, <1>2, <1>3, <1>4, <1>5

(* The digits before a place add up to less than it counts. *)
LEMMA SumBounds ==
  ASSUME NEW b, NEW N \in Nat, N <= MaxBytes, \A i \in 1 .. N : b[i] \in Bytes
  PROVE  \A n \in 0 .. N : Sum(b, n) \in Nat /\ Sum(b, n) < Place(n + 1)
<1> DEFINE S == { n \in Nat : Sum(b, n) \in Nat /\ Sum(b, n) < Place(n + 1) }
<1>1. 0 \in S
  <2>1. 0 + 1 = 1 /\ Sum(b, 0) = 0 /\ Place(1) = 1
    BY SumFacts, PlaceFacts
  <2> QED
    BY <2>1
<1>2. ASSUME NEW n \in Nat, n < N, n \in S PROVE n + 1 \in S
  <2>1. n + 1 \in 1 .. MaxBytes /\ n + 1 \in 1 .. N
    BY <1>2, BytesAssumption
  <2>2. Sum(b, n) \in Nat /\ Sum(b, n) < Place(n + 1) /\ Sum(b, n + 1) = Sum(b, n) + Digit(b, n + 1)
    BY <1>2, SumFacts
  <2>3. Digit(b, n + 1) \in Nat /\ Digit(b, n + 1) + Place(n + 1) <= Place((n + 1) + 1)
    BY <2>1, DigitFacts
  <2>4. Place(n + 1) \in Nat /\ Place((n + 1) + 1) \in Nat
    <3>1. n + 1 \in 1 .. MaxBytes + 1 /\ (n + 1) + 1 \in 1 .. MaxBytes + 1
      BY <2>1, BytesAssumption
    <3> QED
      BY <3>1, PlaceFacts
  <2>5. Sum(b, n + 1) \in Nat /\ Sum(b, n + 1) < Place((n + 1) + 1)
    BY <2>2, <2>3, <2>4
  <2> QED
    BY <2>5
<1>3. \A n \in Nat : n < N /\ n \in S => n + 1 \in S
  BY <1>2
<1> HIDE DEF S
<1>4. \A n \in 0 .. N : n \in S
  BY <1>1, <1>3, Induction
<1> QED
  BY <1>4 DEF S

(* Bytes further on do not matter. *)
LEMMA SumSame ==
  ASSUME NEW b, NEW c, NEW N \in Nat, \A i \in 1 .. N : b[i] = c[i]
  PROVE  \A n \in 0 .. N : Sum(b, n) = Sum(c, n)
<1> DEFINE S == { n \in Nat : Sum(b, n) = Sum(c, n) }
<1>1. 0 \in S
  BY SumFacts
<1>2. ASSUME NEW n \in Nat, n < N, n \in S PROVE n + 1 \in S
  <2>1. b[n + 1] = c[n + 1]
    BY <1>2
  <2>2. Digit(b, n + 1) = Digit(c, n + 1)
    BY <2>1, Zenon DEF Digit
  <2>3. Sum(b, n + 1) = Sum(b, n) + Digit(b, n + 1) /\ Sum(c, n + 1) = Sum(c, n) + Digit(c, n + 1)
    BY SumFacts
  <2>4. Sum(b, n) = Sum(c, n)
    BY <1>2
  <2>5. Sum(b, n + 1) = Sum(c, n + 1)
    BY <2>2, <2>3, <2>4, Zenon
  <2> QED
    BY <2>5
<1>3. \A n \in Nat : n < N /\ n \in S => n + 1 \in S
  BY <1>2
<1> HIDE DEF S
<1>4. \A n \in 0 .. N : n \in S
  BY <1>1, <1>3, Induction
<1> QED
  BY <1>4 DEF S

(* The last place counts most. *)
LEMMA PlaceGrows ==
  ASSUME NEW n \in 1 .. MaxBytes
  PROVE  Place(n) \in Nat \ {0} /\ Place(n) <= Place(MaxBytes) /\ Place(MaxBytes) \in Nat \ {0}
<1>1. MaxBytes \in 1 .. MaxBytes /\ (MaxBytes - n) + 1 \in 1 .. MaxBytes + 1 /\ n \in 1 .. MaxBytes + 1
      /\ MaxBytes \in 1 .. MaxBytes + 1
  BY BytesAssumption
<1>2. PICK f \in Nat \ {0}, p \in Nat \ {0} :
        f = Place((MaxBytes - n) + 1) /\ p = Place(n) /\ Place(MaxBytes) = f * p
  BY <1>1, PlaceFacts
<1>3. p * 1 = p /\ p * 1 <= p * f /\ p * f = f * p
  BY Product
<1>4. Place(MaxBytes) \in Nat \ {0}
  BY <1>1, PlaceFacts
<1> QED
  BY <1>2, <1>3, <1>4

(* Bytes that stop before the last place, or in it with a small one, hold  *)
(* an integer of the width. *)
LEMMA SumFits ==
  ASSUME NEW b, NEW d \in 1 .. MaxBytes, \A i \in 1 .. d : b[i] \in Bytes,
         b[d] < Continue, d < MaxBytes \/ b[d] < LastStop
  PROVE  Sum(b, d) \in Nat /\ Sum(b, d) < Word
<1>1. Place(MaxBytes) \in Nat \ {0} /\ Word = 2 * Place(MaxBytes)
  BY PlaceGrows, PlaceFacts
<1>2. d \in Nat /\ d <= MaxBytes /\ d \in 0 .. d
  OBVIOUS
<1>3. Sum(b, d) \in Nat /\ Sum(b, d) < Place(d + 1)
  BY <1>2, SumBounds
<1>4. CASE d < MaxBytes
  <2>1. d + 1 \in 1 .. MaxBytes
    BY <1>4, BytesAssumption
  <2>2. Place(d + 1) \in Nat /\ Place(d + 1) <= Place(MaxBytes)
    BY <2>1, PlaceGrows
  <2> QED
    BY <1>1, <1>3, <2>2
<1>5. CASE d = MaxBytes /\ b[d] < LastStop
  <2>1. PICK e \in Nat : e = d - 1 /\ d = e + 1 /\ e \in 0 .. d
    OBVIOUS
  <2>2. Sum(b, e) \in Nat /\ Sum(b, e) < Place(MaxBytes)
    BY <1>2, <1>5, <2>1, SumBounds
  <2>3. Sum(b, d) = Sum(b, e) + Digit(b, d)
    BY <2>1, SumFacts
  <2>4. b[d] \in {0, 1}
    <3>1. b[d] \in Bytes /\ Bytes \subseteq Nat
      BY <1>2, PlaceFacts DEF Bytes
    <3>2. PICK x \in Nat : x = b[d]
      BY <3>1
    <3>3. x < 2
      BY <1>5, <3>2 DEF LastStop
    <3>4. x \in {0, 1}
      BY <3>3
    <3> QED
      BY <3>2, <3>4
  <2>5. Digit(b, d) = b[d] * Place(MaxBytes)
    BY <1>5, <2>4, DigitFacts
  <2>6. Digit(b, d) = 0 \/ Digit(b, d) = Place(MaxBytes)
    BY <1>1, <2>4, <2>5
  <2> QED
    BY <1>1, <1>3, <2>2, <2>3, <2>6
<1>6. d < MaxBytes \/ (d = MaxBytes /\ b[d] < LastStop)
  BY <1>2, BytesAssumption
<1> QED
  BY <1>4, <1>5, <1>6

(* Others do not. *)
LEMMA SumOverflows ==
  ASSUME NEW b, \A i \in 1 .. MaxBytes : b[i] \in Bytes,
         b[MaxBytes] < Continue, ~ (b[MaxBytes] < LastStop)
  PROVE  ~ (Sum(b, MaxBytes) < Word)
<1>1. MaxBytes \in 1 .. MaxBytes /\ MaxBytes \in Nat
  BY BytesAssumption
<1>2. Place(MaxBytes) \in Nat \ {0} /\ Word = 2 * Place(MaxBytes)
  BY <1>1, PlaceGrows, PlaceFacts
<1>3. PICK e \in Nat : e = MaxBytes - 1 /\ MaxBytes = e + 1 /\ e \in 0 .. MaxBytes
  BY <1>1, BytesAssumption
<1>4. Sum(b, e) \in Nat
  BY <1>1, <1>3, SumBounds
<1>5. Sum(b, MaxBytes) = Sum(b, e) + Digit(b, MaxBytes)
  BY <1>3, SumFacts
<1>6. b[MaxBytes] \in Nat /\ b[MaxBytes] >= 2
  BY <1>1, PlaceFacts DEF Bytes, LastStop
<1>7. Digit(b, MaxBytes) = b[MaxBytes] * Place(MaxBytes)
  BY <1>1, DigitFacts
<1>8. Place(MaxBytes) * 2 <= Place(MaxBytes) * b[MaxBytes] /\ Place(MaxBytes) * b[MaxBytes] \in Nat
  BY <1>2, <1>6, Product
<1>9. Place(MaxBytes) * b[MaxBytes] = b[MaxBytes] * Place(MaxBytes)
  BY <1>2, <1>6
<1>10. Digit(b, MaxBytes) \in Nat /\ Word <= Digit(b, MaxBytes) /\ Word \in Nat
  BY <1>2, <1>7, <1>8, <1>9
<1> QED
  BY <1>4, <1>5, <1>10

-----------------------------------------------------------------------------
(* What a buffer says *)

(* The first n bytes go on. *)
Goes(b, n) == \A i \in 1 .. n : ~ (b[i] < Continue)

(* A byte that stops after bytes that go on ends the integer. *)
LEMMA Stopped ==
  ASSUME buffer \in Seq(Bytes), NEW d \in 1 .. Len(buffer), Goes(buffer, d - 1), buffer[d] < Continue
  PROVE  Stops # {} /\ First = d /\ Meaning = Sum(buffer, d)
<1>1. d \in Stops /\ Stops \subseteq Nat
  BY DEF Stops
<1>2. \A j \in Stops : d <= j
  <2> SUFFICES ASSUME NEW j \in Stops, ~ (d <= j) PROVE FALSE
    OBVIOUS
  <2>1. j \in 1 .. d - 1 /\ buffer[j] < Continue
    BY DEF Stops
  <2> QED
    BY <2>1 DEF Goes
<1>3. \A i \in Stops : (\A j \in Stops : i <= j) => i = d
  <2> TAKE i \in Stops
  <2> HAVE \A j \in Stops : i <= j
  <2>1. i <= d /\ d <= i /\ i \in Nat /\ d \in Nat
    BY <1>1, <1>2
  <2> QED
    BY <2>1
<1>4. First = d
  BY <1>1, <1>2, <1>3, Zenon DEF First
<1> QED
  BY <1>1, <1>4, Zenon DEF Meaning

(* Bytes that go on to their end, or past the longest varint, hold none. *)
LEMMA NeverStops ==
  ASSUME buffer \in Seq(Bytes), NEW n \in Nat, n <= Len(buffer), Goes(buffer, n),
         n = Len(buffer) \/ n >= MaxBytes
  PROVE  ~ Sound
<1> SUFFICES ASSUME Sound PROVE FALSE
  OBVIOUS
<1>1. Stops \in SUBSET Nat /\ Stops # {} /\ First <= MaxBytes
  BY DEF Stops, Sound
<1>2. \E x \in Stops : \A y \in Stops : x <= y
  BY <1>1, LeastElement
<1>3. First \in Stops
  BY <1>2, Zenon DEF First
<1>4. PICK f \in 1 .. Len(buffer) : f = First /\ buffer[f] < Continue
  BY <1>3 DEF Stops
<1>5. Len(buffer) \in Nat /\ f <= MaxBytes /\ MaxBytes \in Nat
  BY <1>1, <1>4, BytesAssumption
<1>6. f \in 1 .. n
  BY <1>5
<1> QED
  BY <1>4, <1>6 DEF Goes

(* A varint that a decoder takes. *)
LEMMA Accepted ==
  ASSUME buffer \in Seq(Bytes), NEW d \in 1 .. Len(buffer), d <= MaxBytes,
         Goes(buffer, d - 1), buffer[d] < Continue, d < MaxBytes \/ buffer[d] < LastStop
  PROVE  Sound /\ Meaning = Sum(buffer, d) /\ First = d /\ Sum(buffer, d) \in Nat
<1>1. d \in 1 .. MaxBytes
  BY BytesAssumption
<1>2. \A i \in 1 .. d : buffer[i] \in Bytes
  OBVIOUS
<1>3. Sum(buffer, d) \in Nat /\ Sum(buffer, d) < Word
  BY <1>1, <1>2, SumFits
<1>4. Stops # {} /\ First = d /\ Meaning = Sum(buffer, d)
  BY Stopped
<1> QED
  BY <1>3, <1>4 DEF Sound

(* A varint whose last digit is too large. *)
LEMMA Rejected ==
  ASSUME buffer \in Seq(Bytes), MaxBytes \in 1 .. Len(buffer), Goes(buffer, MaxBytes - 1),
         buffer[MaxBytes] < Continue, ~ (buffer[MaxBytes] < LastStop)
  PROVE  ~ Sound
<1>1. \A i \in 1 .. MaxBytes : buffer[i] \in Bytes
  BY BytesAssumption
<1>2. ~ (Sum(buffer, MaxBytes) < Word)
  BY <1>1, SumOverflows
<1>3. Meaning = Sum(buffer, MaxBytes)
  BY Stopped
<1> QED
  BY <1>2, <1>3 DEF Sound

(* Where a piece begins. *)
PieceHead(d) == d - ((d - 1) % PieceLen)

(* A piece goes on until it is full; it has at most PieceLen digits. *)
LEMMA PieceHeads ==
  ASSUME NEW d \in Nat \ {0}
  PROVE  /\ PieceHead(d) \in 1 .. d /\ (d - PieceHead(d)) + 1 <= PieceLen
         /\ d % PieceLen = 0 => PieceHead(d + 1) = d + 1
         /\ d % PieceLen # 0 => PieceHead(d + 1) = PieceHead(d)
<1>1. PICK p \in Nat \ {0} : p = PieceLen
  BY PieceAssumption
<1>2. PICK e \in Nat : e = d - 1 /\ d = e + 1 /\ (d + 1) - 1 = d
  OBVIOUS
<1>3. PICK q \in Nat, r \in Nat : q = e \div p /\ r = e % p /\ r < p /\ e = p * q + r
  BY Divided
<1>4. p * q \in Nat
  BY Product
<1>5. CASE r + 1 < p
  <2>1. d = p * q + (r + 1) /\ r + 1 \in Nat
    BY <1>2, <1>3, <1>4
  <2>2. d % p = r + 1
    BY <1>5, <2>1, OneDivision
  <2> QED
    BY <1>1, <1>2, <1>3, <1>4, <2>2 DEF PieceHead
<1>6. CASE r + 1 = p
  <2>1. p * (q + 1) = p * q + p /\ q + 1 \in Nat
    BY Z3
  <2>2. d = p * (q + 1) + 0
    BY <1>2, <1>3, <1>4, <1>6, <2>1
  <2>3. d % p = 0
    BY <2>1, <2>2, OneDivision
  <2> QED
    BY <1>1, <1>2, <1>3, <1>4, <2>3 DEF PieceHead
<1> QED
  BY <1>3, <1>5, <1>6

-----------------------------------------------------------------------------
(* The inductive invariant *)

TypeOK ==
  /\ buffer \in Seq(Bytes)
  /\ chunk \in 0 .. Len(buffer)
  /\ phase # "encode" /\ chunk = 0 => buffer = << >>
  /\ digit \in Nat \ {0} /\ value \in Nat /\ part \in Nat
  /\ original \in -1 .. Word - 1
  /\ phase \in {"encode", "start", "slice", "slow", "ok", "invalid"}

WritingInv ==
  phase = "encode" =>
    /\ original # -1 /\ digit = 1 /\ part = 0 /\ read = 0
    /\ Goes(buffer, Len(buffer))
    /\ Len(buffer) < MaxBytes
    /\ original = Sum(buffer, Len(buffer)) + value * Place(Len(buffer) + 1)
    /\ buffer # << >> => value > 0

WrittenInv ==
  original # -1 /\ phase # "encode" =>
    /\ Len(buffer) \in 1 .. MaxBytes
    /\ Goes(buffer, Len(buffer) - 1) /\ buffer[Len(buffer)] < Continue
    /\ original = Sum(buffer, Len(buffer))
    /\ Len(buffer) > 1 => buffer[Len(buffer)] > 0

StartInv == phase = "start" => digit = 1 /\ part = 0 /\ value = 0 /\ read = 0

SliceInv ==
  phase = "slice" =>
    /\ digit \in 1 .. MaxBytes /\ digit <= chunk /\ (chunk > MaxBytes \/ buffer[chunk] < Continue)
    /\ Goes(buffer, digit - 1)
    /\ value + part * Place(PieceHead(digit)) = Sum(buffer, digit - 1)
    /\ part < Place((digit - PieceHead(digit)) + 1)

SlowInv ==
  phase = "slow" =>
    /\ digit \in 1 .. MaxBytes + 1 /\ digit - 1 <= Len(buffer)
    /\ Goes(buffer, digit - 1)
    /\ digit <= MaxBytes => value = Sum(buffer, digit - 1)

IInv == TypeOK /\ WritingInv /\ WrittenInv /\ StartInv /\ SliceInv /\ SlowInv /\ DecodesWhatItSays

(* The sizes of an integer and of a digit. *)
LEMMA WordFacts == Word \in Nat /\ Word > 0 /\ Continue \in Nat /\ Continue >= 4 /\ Continue < Word
<1>1. 1 \in 1 .. MaxBytes /\ MaxBytes \in 1 .. MaxBytes + 1 /\ 2 \in 1 .. MaxBytes /\ 1 + 1 = 2
  BY BytesAssumption
<1>2. Place(1) = 1 /\ Place(1 + 1) = Continue * Place(1) /\ Continue \in Nat /\ Continue >= 4
  BY <1>1, PlaceFacts
<1>3. Place(2) <= Place(MaxBytes) /\ Place(MaxBytes) \in Nat \ {0}
  BY <1>1, PlaceGrows
<1>4. Word = 2 * Place(MaxBytes)
  BY PlaceFacts
<1> QED
  BY <1>1, <1>2, <1>3, <1>4

(* What a byte is. *)
LEMMA Bytewise == Bytes \subseteq Nat /\ (\A x \in Bytes : x < 2 * Continue)
                  /\ (\A x \in Nat : x < 2 * Continue => x \in Bytes)
BY WordFacts DEF Bytes

-----------------------------------------------------------------------------

(* An integer to write, or a buffer from anywhere. *)
LEMMA Initially == Init => IInv
<1> SUFFICES ASSUME Init PROVE IInv
  OBVIOUS
<1>1. CASE phase = "encode" /\ original \in 0 .. Word - 1 /\ value = original /\ buffer = << >> /\ chunk = 0
  <2>1. digit = 1 /\ part = 0 /\ read = 0
    BY DEF Init
  <2>2. original \in Nat /\ original # -1 /\ original \in -1 .. Word - 1
    BY <1>1, WordFacts
  <2>3. buffer \in Seq(Bytes) /\ Len(buffer) = 0
    BY <1>1
  <2>4. TypeOK
    BY <1>1, <2>1, <2>2, <2>3 DEF TypeOK
  <2>5. Sum(buffer, 0) = 0 /\ Place(0 + 1) = 1
    BY SumFacts, PlaceFacts
  <2>6. Goes(buffer, 0)
    BY DEF Goes
  <2>7. WritingInv
    BY <1>1, <2>1, <2>2, <2>3, <2>5, <2>6, BytesAssumption DEF WritingInv
  <2> QED
    BY <1>1, <2>4, <2>7 DEF IInv, WrittenInv, StartInv, SliceInv, SlowInv, DecodesWhatItSays
<1>2. CASE phase = "start" /\ original = -1 /\ value = 0 /\ buffer \in Buffers /\ chunk \in FirstChunks(buffer)
  <2>1. digit = 1 /\ part = 0 /\ read = 0
    BY DEF Init
  <2>2. buffer \in Seq(Bytes)
    BY <1>2, LenAssumption DEF Buffers
  <2>3. chunk \in 0 .. Len(buffer) /\ (chunk = 0 => buffer = << >>)
    BY <1>2, <2>2 DEF FirstChunks
  <2>4. TypeOK
    BY <1>2, <2>1, <2>2, <2>3, WordFacts DEF TypeOK
  <2> QED
    BY <1>2, <2>1, <2>4 DEF IInv, WritingInv, WrittenInv, StartInv, SliceInv, SlowInv, DecodesWhatItSays
<1> QED
  BY <1>1, <1>2 DEF Init

(* A loop turn that writes the last byte. *)
LEMMA LastByteWritten ==
  ASSUME IInv, EncodeByte, value < Continue
  PROVE  IInv'
<1>1. PICK l \in Nat : l = Len(buffer) /\ l < MaxBytes /\ l + 1 \in 1 .. MaxBytes /\ l \in 0 .. l
  <2>1. Len(buffer) \in Nat /\ Len(buffer) < MaxBytes
    BY DEF IInv, TypeOK, EncodeByte
  <2> QED
    BY <2>1, BytesAssumption
<1>2. buffer \in Seq(Bytes) /\ value \in Nat /\ value \in Bytes /\ phase = "encode"
  BY Bytewise, WordFacts DEF IInv, TypeOK, EncodeByte
<1>3. buffer' = Append(buffer, value) /\ phase' = "start" /\ value' = 0 /\ chunk' \in FirstChunks(buffer')
      /\ original' = original /\ digit' = digit /\ part' = part /\ read' = read
  BY DEF EncodeByte
<1>4. /\ buffer' \in Seq(Bytes) /\ Len(buffer') = l + 1 /\ buffer'[l + 1] = value
      /\ \A i \in 1 .. l : buffer'[i] = buffer[i]
  BY <1>1, <1>2, <1>3
<1>5. digit = 1 /\ part = 0 /\ read = 0 /\ original # -1 /\ original \in -1 .. Word - 1 /\ Goes(buffer, l)
      /\ original = Sum(buffer, l) + value * Place(l + 1) /\ (l > 0 => value > 0)
  BY <1>1, <1>2 DEF IInv, TypeOK, WritingInv
<1>6. chunk' \in 0 .. Len(buffer') /\ (chunk' = 0 => buffer' = << >>)
  BY <1>3, <1>4 DEF FirstChunks
<1>7. TypeOK'
  BY <1>3, <1>4, <1>5, <1>6 DEF TypeOK
<1>8. Sum(buffer', l) = Sum(buffer, l)
  <2>1. \A n \in 0 .. l : Sum(buffer', n) = Sum(buffer, n)
    BY <1>4, SumSame
  <2> QED
    BY <1>1, <2>1
<1>9. Digit(buffer', l + 1) = value * Place(l + 1)
  <2>1. buffer'[l + 1] \in Bytes /\ buffer'[l + 1] < Continue
    BY <1>2, <1>4
  <2>2. Digit(buffer', l + 1) = buffer'[l + 1] * Place(l + 1)
    BY <1>1, <2>1, DigitFacts
  <2> QED
    BY <1>4, <2>2
<1>10. Sum(buffer', l + 1) = Sum(buffer', l) + Digit(buffer', l + 1)
  BY SumFacts
<1>11. original' = Sum(buffer', Len(buffer'))
  BY <1>3, <1>4, <1>5, <1>8, <1>9, <1>10
<1>12. Goes(buffer', Len(buffer') - 1)
  <2>1. Len(buffer') - 1 = l
    BY <1>4
  <2>2. Goes(buffer', l)
    BY <1>4, <1>5 DEF Goes
  <2> QED
    BY <2>1, <2>2
<1>13. WrittenInv'
  <2>1. Len(buffer') \in 1 .. MaxBytes /\ buffer'[Len(buffer')] < Continue
    BY <1>1, <1>4
  <2>2. Len(buffer') > 1 => buffer'[Len(buffer')] > 0
    BY <1>4, <1>5
  <2> QED
    BY <1>11, <1>12, <2>1, <2>2 DEF WrittenInv
<1>14. StartInv'
  BY <1>3, <1>5 DEF StartInv
<1> QED
  BY <1>3, <1>7, <1>13, <1>14 DEF IInv, WritingInv, SliceInv, SlowInv, DecodesWhatItSays

(* What the digits of a division are worth. *)
LEMMA Shifted ==
  ASSUME NEW s \in Nat, NEW r \in Nat, NEW q \in Nat, NEW c \in Nat, NEW p \in Nat
  PROVE  s + (c * q + r) * p = (s + r * p) + q * (c * p)
BY Z3

(* A loop turn that leaves something to write. *)
LEMMA ByteWritten ==
  ASSUME IInv, EncodeByte, ~ (value < Continue)
  PROVE  IInv'
<1>1. PICK l \in Nat : l = Len(buffer) /\ l < MaxBytes /\ l + 1 \in 1 .. MaxBytes /\ l \in 0 .. l
                       /\ l + 1 \in 1 .. MaxBytes + 1 /\ (l + 1) + 1 \in 1 .. MaxBytes + 1
  <2>1. Len(buffer) \in Nat /\ Len(buffer) < MaxBytes
    BY DEF IInv, TypeOK, EncodeByte
  <2> QED
    BY <2>1, BytesAssumption
<1>2. buffer \in Seq(Bytes) /\ value \in Nat /\ phase = "encode"
  BY DEF IInv, TypeOK, EncodeByte
<1>3. PICK c \in Nat \ {0}, q \in Nat, r \in Nat :
        /\ c = Continue /\ q = value \div Continue /\ r = value % Continue /\ r < c /\ value = c * q + r
  <2>1. Continue \in Nat \ {0}
    BY WordFacts
  <2> QED
    BY <1>2, <2>1, Divided
<1>4. buffer' = Append(buffer, r + c) /\ phase' = phase /\ value' = q /\ chunk' = chunk
      /\ original' = original /\ digit' = digit /\ part' = part /\ read' = read
  BY <1>3 DEF EncodeByte
<1>5. r + c \in Bytes /\ r + c \in Nat
  BY <1>3, Bytewise
<1>6. /\ buffer' \in Seq(Bytes) /\ Len(buffer') = l + 1 /\ buffer'[l + 1] = r + c
      /\ \A i \in 1 .. l : buffer'[i] = buffer[i]
  BY <1>1, <1>2, <1>4, <1>5
<1>7. digit = 1 /\ part = 0 /\ read = 0 /\ original # -1 /\ original \in -1 .. Word - 1 /\ Goes(buffer, l)
      /\ original = Sum(buffer, l) + value * Place(l + 1)
  BY <1>1, <1>2 DEF IInv, TypeOK, WritingInv
<1>8. q > 0
  <2>1. q = 0 => c * q = 0
    BY <1>3
  <2> QED
    BY <1>2, <1>3, <2>1
<1>9. TypeOK'
  <2>1. chunk \in 0 .. Len(buffer)
    BY DEF IInv, TypeOK
  <2>2. chunk' \in 0 .. Len(buffer')
    BY <1>1, <1>4, <1>6, <2>1
  <2> QED
    BY <1>2, <1>3, <1>4, <1>6, <1>7, <2>2 DEF TypeOK
<1>10. PICK p \in Nat \ {0} : p = Place(l + 1) /\ Place((l + 1) + 1) = c * p
  BY <1>1, <1>3, PlaceFacts
<1>11. PICK s \in Nat : s = Sum(buffer, l) /\ s = Sum(buffer', l)
  <2>1. \A n \in 0 .. l : Sum(buffer', n) = Sum(buffer, n)
    BY <1>6, SumSame
  <2>2. l <= MaxBytes /\ \A i \in 1 .. l : buffer[i] \in Bytes
    BY <1>1, <1>2, BytesAssumption
  <2>3. Sum(buffer, l) \in Nat
    BY <1>1, <2>2, SumBounds
  <2> QED
    BY <1>1, <2>1, <2>3
<1>12. Digit(buffer', l + 1) = r * p
  <2>1. buffer'[l + 1] \in Bytes /\ ~ (buffer'[l + 1] < Continue) /\ buffer'[l + 1] - Continue = r
    BY <1>3, <1>5, <1>6
  <2>2. Digit(buffer', l + 1) = (buffer'[l + 1] - Continue) * Place(l + 1)
    BY <1>1, <2>1, DigitFacts
  <2> QED
    BY <1>10, <2>1, <2>2
<1>13. Sum(buffer', l + 1) = s + r * p
  BY <1>11, <1>12, SumFacts
<1>14. original = s + value * p /\ original = s + (c * q + r) * p
  BY <1>3, <1>7, <1>10, <1>11, Zenon
<1>15. original' = Sum(buffer', Len(buffer')) + value' * Place(Len(buffer') + 1)
  <2>1. s + (c * q + r) * p = (s + r * p) + q * (c * p)
    BY Shifted
  <2>2. Sum(buffer', Len(buffer')) = s + r * p /\ Place(Len(buffer') + 1) = c * p
    BY <1>6, <1>10, <1>13
  <2> QED
    BY <1>4, <1>14, <2>1, <2>2, Zenon
<1>16. Goes(buffer', Len(buffer'))
  <2> SUFFICES ASSUME NEW i \in 1 .. l + 1 PROVE ~ (buffer'[i] < Continue)
    BY <1>6 DEF Goes
  <2>1. CASE i \in 1 .. l
    BY <2>1, <1>6, <1>7 DEF Goes
  <2>2. CASE i = l + 1
    BY <2>2, <1>3, <1>6
  <2> QED
    BY <1>1, <2>1, <2>2
<1>17. Len(buffer') < MaxBytes
  <2> SUFFICES ASSUME l + 1 = MaxBytes PROVE FALSE
    BY <1>1, <1>6, BytesAssumption
  <2>1. p = Place(MaxBytes) /\ Word = 2 * p
    BY <1>10, PlaceFacts
  <2>2. p * 2 <= p * value /\ p * value = value * p /\ value * p \in Nat
    <3>1. 2 <= value
      BY <1>2, <1>3, WordFacts
    <3>2. p * 2 <= p * value
      BY <1>2, <1>10, <3>1, Product
    <3> QED
      BY <1>2, <1>10, <3>2, Z3
  <2>3. original < Word
    BY <1>7, WordFacts
  <2> QED
    BY <1>10, <1>11, <1>14, <2>1, <2>2, <2>3
<1>18. WritingInv'
  BY <1>4, <1>7, <1>8, <1>15, <1>16, <1>17 DEF WritingInv
<1> QED
  BY <1>2, <1>4, <1>9, <1>18 DEF IInv, WrittenInv, StartInv, SliceInv, SlowInv, DecodesWhatItSays

-----------------------------------------------------------------------------
(* The decoders *)

(* What a step of a decoder cannot disturb. *)
LEMMA BufferKept ==
  ASSUME IInv, phase # "encode", UNCHANGED <<original, buffer, chunk>>,
         phase' \in {"slice", "slow", "ok", "invalid"},
         digit' \in Nat \ {0}, value' \in Nat, part' \in Nat
  PROVE  TypeOK' /\ WritingInv' /\ WrittenInv' /\ StartInv'
<1>1. TypeOK'
  BY DEF IInv, TypeOK
<1>2. WrittenInv'
  BY DEF IInv, WrittenInv, Goes
<1> QED
  BY <1>1, <1>2 DEF WritingInv, StartInv

(* A decoder ends with what it says. *)
LEMMA Ended ==
  ASSUME IInv, phase # "encode", UNCHANGED <<original, buffer, chunk>>,
         \/ /\ phase' = "ok" /\ value' \in Nat
            /\ Sound /\ value' = Meaning /\ read' = First /\ UNCHANGED <<part, digit>>
         \/ phase' = "invalid" /\ ~ Sound /\ UNCHANGED <<value, part, digit>>
  PROVE  IInv'
<1>1. phase' \in {"ok", "invalid"} /\ digit' \in Nat \ {0} /\ value' \in Nat /\ part' \in Nat
  BY DEF IInv, TypeOK
<1>2. TypeOK' /\ WritingInv' /\ WrittenInv' /\ StartInv'
  BY <1>1, BufferKept
<1>3. SliceInv' /\ SlowInv'
  BY <1>1 DEF SliceInv, SlowInv
<1>4. (Sound' <=> Sound) /\ Meaning' = Meaning /\ First' = First
  BY DEF Sound, Meaning, First, Stops
<1>5. DecodesWhatItSays'
  BY <1>4 DEF DecodesWhatItSays
<1> QED
  BY <1>2, <1>3, <1>5 DEF IInv

(* decode_varint: no byte, one byte, or the choice of a decoder. *)
LEMMA Begun ==
  ASSUME IInv, DecodeVarint
  PROVE  IInv'
<1>1. phase = "start" /\ UNCHANGED <<original, buffer, chunk>>
  BY DEF DecodeVarint
<1>2. digit = 1 /\ part = 0 /\ value = 0 /\ read = 0 /\ buffer \in Seq(Bytes) /\ chunk \in 0 .. Len(buffer)
      /\ (chunk = 0 => buffer = << >>) /\ Len(buffer) \in Nat
  BY <1>1 DEF IInv, TypeOK, StartInv
<1>3. Goes(buffer, 0) /\ 1 \in 1 .. MaxBytes /\ 1 < MaxBytes /\ 1 <= MaxBytes
  BY BytesAssumption DEF Goes
<1>4. CASE chunk = 0
  <2>1. phase' = "invalid" /\ UNCHANGED <<value, part, digit>>
    BY <1>4 DEF DecodeVarint, Invalid
  <2>2. Len(buffer) = 0
    BY <1>2, <1>4
  <2>3. ~ Sound
    BY <1>2, <1>3, <2>2, NeverStops
  <2> QED
    BY <1>1, <2>1, <2>3, Ended
<1>5. CASE chunk # 0 /\ buffer[1] < Continue
  <2>1. phase' = "ok" /\ value' = buffer[1] /\ read' = 1 /\ UNCHANGED <<part, digit>>
    BY <1>5 DEF DecodeVarint, Ok
  <2>2. 1 \in 1 .. Len(buffer) /\ 1 - 1 = 0
    BY <1>2, <1>5
  <2>3. Sound /\ Meaning = Sum(buffer, 1) /\ First = 1 /\ Sum(buffer, 1) \in Nat
    BY <1>2, <1>3, <1>5, <2>2, Accepted
  <2>4. buffer[1] \in Bytes /\ buffer[1] \in Nat
    <3>1. buffer[1] \in Bytes
      BY <1>2, <2>2
    <3> QED
      BY <3>1, Bytewise, Zenon
  <2>5. Digit(buffer, 1) = buffer[1] * Place(1)
    BY <1>3, <1>5, <2>4, DigitFacts
  <2>6. Sum(buffer, 0 + 1) = Sum(buffer, 0) + Digit(buffer, 0 + 1) /\ Sum(buffer, 0) = 0 /\ 0 + 1 = 1
    BY SumFacts
  <2>7. value' = Meaning /\ value' \in Nat
    BY <2>1, <2>3, <2>4, <2>5, <2>6, PlaceFacts
  <2> QED
    BY <1>1, <2>1, <2>3, <2>7, Ended
<1>6. CASE chunk # 0 /\ ~ (buffer[1] < Continue)
  <2>1. phase' = (IF FitsSlice THEN "slice" ELSE "slow") /\ UNCHANGED <<value, part, digit, read>>
    BY <1>6 DEF DecodeVarint
  <2>2. TypeOK' /\ WritingInv' /\ WrittenInv' /\ StartInv'
    <3>1. phase' \in {"slice", "slow", "ok", "invalid"} /\ digit' \in Nat \ {0} /\ value' \in Nat /\ part' \in Nat
      BY <1>2, <2>1
    <3> QED
      BY <1>1, <3>1, BufferKept
  <2>3. Sum(buffer, 0) = 0 /\ 1 - 1 = 0
    BY SumFacts
  <2>4. /\ value + part * Place(PieceHead(digit)) = Sum(buffer, digit - 1)
        /\ part < Place((digit - PieceHead(digit)) + 1)
    <3>1. PieceHead(1) \in 1 .. 1 /\ Place(1) = 1
      BY PieceHeads, PlaceFacts
    <3>2. PieceHead(digit) = 1 /\ (digit - PieceHead(digit)) + 1 = 1
      BY <1>2, <3>1
    <3> QED
      BY <1>2, <2>3, <3>1, <3>2
  <2>5. phase' = "slice" => FitsSlice
    BY <2>1
  <2>6. chunk >= 1
    BY <1>2, <1>6
  <2>7. /\ (value + part * Place(PieceHead(digit)) = Sum(buffer, digit - 1))'
        /\ (part < Place((digit - PieceHead(digit)) + 1))'
    BY <1>1, <2>1, <2>4 DEF PieceHead
  <2>8. Goes(buffer', digit' - 1)
    BY <1>1, <1>2, <1>3, <2>1, <2>3
  <2>9. SliceInv'
    BY <1>1, <1>2, <1>3, <2>1, <2>5, <2>6, <2>7, <2>8 DEF SliceInv, FitsSlice
  <2>10. SlowInv'
    <3>1. value' = Sum(buffer', digit' - 1)
      BY <1>1, <1>2, <2>1, <2>3
    <3>2. digit' \in 1 .. MaxBytes + 1 /\ digit' - 1 <= Len(buffer')
      BY <1>1, <1>2, <1>3, <2>1, BytesAssumption
    <3> QED
      BY <2>8, <3>1, <3>2 DEF SlowInv
  <2>11. DecodesWhatItSays'
    BY <2>1 DEF DecodesWhatItSays
  <2> QED
    BY <2>2, <2>9, <2>10, <2>11 DEF IInv
<1> QED
  BY <1>4, <1>5, <1>6

(* The arithmetic of a piece. *)
LEMMA Pieces ==
  ASSUME NEW v \in Nat, NEW p \in Nat, NEW x \in Nat, NEW r \in Nat, NEW h \in Nat
  PROVE  /\ v + (p + x * r) * h = (v + p * h) + x * (r * h)
         /\ \A c \in Nat : \A y \in Nat : x = y + c => (p + x * r) - c * r = p + y * r /\ p + y * r \in Nat
         /\ p + x * r \in Nat /\ v + (p + x * r) * h \in Nat
<1>1. v + (p + x * r) * h = (v + p * h) + x * (r * h)
  BY Z3
<1>2. x * r \in Nat
  BY Z3
<1>3. p + x * r \in Nat
  BY <1>2
<1>4. v + (p + x * r) * h \in Nat
  <2>1. PICK z \in Nat : z = p + x * r
    BY <1>3
  <2>2. z * h \in Nat
    BY Z3
  <2>3. v + z * h \in Nat
    BY <2>2
  <2> QED
    BY <2>1, <2>3, Zenon
<1>5. ASSUME NEW c \in Nat, NEW y \in Nat, x = y + c
      PROVE  (p + x * r) - c * r = p + y * r /\ p + y * r \in Nat
  <2>1. y * r \in Nat /\ c * r \in Nat /\ (y + c) * r = y * r + c * r
    BY Z3
  <2>2. x * r = (y + c) * r
    BY <1>5, Zenon
  <2> QED
    BY <2>1, <2>2
<1> QED
  BY <1>1, <1>3, <1>4, <1>5

(* decode_varint_slice: the digit is added to the piece, and a full piece  *)
(* to the value.                                                           *)
LEMMA SliceStep ==
  ASSUME IInv, DecodeVarintSlice
  PROVE  IInv'
<1>1. phase = "slice" /\ UNCHANGED <<original, buffer, chunk>>
  BY DEF DecodeVarintSlice
<1>2. PICK d \in 1 .. MaxBytes : d = digit
  BY <1>1 DEF IInv, SliceInv
<1>3. /\ buffer \in Seq(Bytes) /\ chunk \in 0 .. Len(buffer) /\ d <= chunk /\ Len(buffer) \in Nat
      /\ chunk > MaxBytes \/ buffer[chunk] < Continue
      /\ Goes(buffer, d - 1) /\ value + part * Place(PieceHead(d)) = Sum(buffer, d - 1)
      /\ value \in Nat /\ part \in Nat
  BY <1>1, <1>2 DEF IInv, TypeOK, SliceInv
<1>4. d \in 1 .. Len(buffer) /\ d \in Nat /\ d <= MaxBytes /\ MaxBytes \in Nat
  BY <1>2, <1>3, BytesAssumption
<1>5. PICK x \in Nat : x = buffer[d] /\ x \in Bytes
  <2>1. buffer[d] \in Bytes
    BY <1>3, <1>4
  <2> QED
    BY <2>1, Bytewise, Zenon
<1>6. PICK k \in 1 .. d : k = PieceHead(d)
  BY <1>4, PieceHeads
<1>7. (d - k) + 1 \in 1 .. MaxBytes + 1 /\ k \in 1 .. MaxBytes + 1
  BY <1>4, <1>6
<1>8. PICK r \in Nat, h \in Nat : r = Place((d - k) + 1) /\ h = Place(k) /\ Place(d) = r * h
  <2>1. Place(d) = Place((d - k) + 1) * Place(k)
    BY <1>2, <1>6, PlaceFacts
  <2>2. Place((d - k) + 1) \in Nat /\ Place(k) \in Nat
    BY <1>7, PlaceFacts
  <2> QED
    BY <2>1, <2>2
<1>9. PICK v \in Nat, p \in Nat : v = value /\ p = part /\ v + p * h = Sum(buffer, d - 1) /\ p < r
  <2>1. part < Place((d - PieceHead(d)) + 1)
    BY <1>1, <1>2 DEF IInv, SliceInv
  <2> QED
    BY <1>3, <1>6, <1>8, <2>1
<1>10. Sum(buffer, d) = Sum(buffer, d - 1) + Digit(buffer, d)
  <2>1. d - 1 \in Nat /\ (d - 1) + 1 = d
    BY <1>4
  <2> QED
    BY <2>1, SumFacts
<1>11. PieceStart = k /\ Place(digit - PieceStart + 1) = r /\ Place(PieceStart) = h
  BY <1>2, <1>6, <1>8 DEF PieceStart, PieceHead
<1>12. CASE x < Stop
  <2>1. x < Continue /\ (d < MaxBytes \/ x < LastStop)
    BY <1>2, <1>4, <1>12, WordFacts DEF Stop, LastStop
  <2>2. phase' = "ok" /\ value' = v + (p + x * r) * h /\ read' = d /\ UNCHANGED <<part, digit>>
    BY <1>2, <1>5, <1>9, <1>11, <1>12 DEF DecodeVarintSlice, Ok
  <2>3. Digit(buffer, d) = x * (r * h)
    BY <1>2, <1>5, <1>8, <2>1, DigitFacts
  <2>4. v + (p + x * r) * h = (v + p * h) + x * (r * h) /\ v + (p + x * r) * h \in Nat
    BY Pieces
  <2>5. value' = Sum(buffer, d) /\ value' \in Nat
    BY <1>9, <1>10, <2>2, <2>3, <2>4
  <2>6. Sound /\ Meaning = Sum(buffer, d) /\ First = d
    BY <1>3, <1>4, <1>5, <2>1, Accepted
  <2> QED
    BY <1>1, <2>2, <2>5, <2>6, Ended
<1>13. CASE ~ (x < Stop) /\ d = MaxBytes
  <2>1. phase' = "invalid" /\ UNCHANGED <<value, part, digit>>
    BY <1>2, <1>5, <1>13 DEF DecodeVarintSlice, Invalid
  <2>2. ~ (x < LastStop)
    BY <1>2, <1>13 DEF Stop
  <2>3. ~ Sound
    <3>1. CASE x < Continue
      BY <1>3, <1>4, <1>5, <1>13, <2>2, <3>1, Rejected
    <3>2. CASE ~ (x < Continue)
      <4>1. Goes(buffer, d)
        <5> SUFFICES ASSUME NEW i \in 1 .. d PROVE ~ (buffer[i] < Continue)
          BY DEF Goes
        <5>1. i = d \/ i \in 1 .. d - 1
          BY <1>4
        <5> QED
          BY <1>3, <1>5, <3>2, <5>1 DEF Goes
      <4> QED
        BY <1>3, <1>4, <1>13, <4>1, NeverStops
    <3> QED
      BY <3>1, <3>2
  <2> QED
    BY <1>1, <2>1, <2>3, Ended
<1>14. CASE ~ (x < Stop) /\ d # MaxBytes
  <2>1. PICK y \in Nat, c \in Nat : c = Continue /\ y = x - c /\ x = y + c /\ ~ (x < c)
    BY <1>2, <1>5, <1>14, WordFacts DEF Stop
  <2>2. phase' = "slice" /\ digit' = d + 1 /\ read' = read
        /\ value' = (IF d % PieceLen = 0 THEN v + ((p + x * r) - c * r) * h ELSE v)
        /\ part' = (IF d % PieceLen = 0 THEN 0 ELSE (p + x * r) - c * r)
    BY <1>2, <1>5, <1>9, <1>11, <1>14, <2>1 DEF DecodeVarintSlice, WithoutBit
  <2>3. (p + x * r) - c * r = p + y * r /\ p + y * r \in Nat
    BY <2>1, Pieces
  <2>4. v + (p + y * r) * h = (v + p * h) + y * (r * h) /\ v + (p + y * r) * h \in Nat
    BY Pieces
  <2>5. Digit(buffer, d) = y * (r * h)
    BY <1>2, <1>5, <1>8, <2>1, DigitFacts
  <2>6. Sum(buffer, d) = v + (p + y * r) * h
    BY <1>9, <1>10, <2>4, <2>5
  <2>7. d + 1 \in 1 .. MaxBytes /\ (d + 1) - 1 = d /\ d + 1 \in Nat \ {0} /\ d \in Nat \ {0}
    BY <1>4, <1>14
  <2>13. (d - k) + 1 \in 1 .. MaxBytes /\ Place(((d - k) + 1) + 1) = c * r /\ p + y * r < c * r
    <3>1. (d - k) + 1 \in 1 .. MaxBytes
      BY <1>4, <1>6
    <3>2. Place(((d - k) + 1) + 1) = c * r
      BY <1>8, <2>1, <3>1, PlaceFacts
    <3>3. y < c
      BY <1>5, <2>1, Bytewise
    <3>4. r * y + r <= r * c /\ r * y = y * r /\ r * c = c * r
      <4>1. r * y + r <= r * c
        BY <3>3, Product
      <4> QED
        BY <4>1, Z3
    <3> QED
      BY <1>9, <2>3, <3>1, <3>2, <3>4
  <2>8. /\ value' \in Nat /\ part' \in Nat /\ value' + part' * Place(PieceHead(d + 1)) = Sum(buffer, d)
        /\ part' < Place(((d + 1) - PieceHead(d + 1)) + 1)
    <3>1. CASE d % PieceLen = 0
      <4>1. value' = v + (p + y * r) * h /\ part' = 0
        BY <2>2, <2>3, <3>1
      <4>2. PieceHead(d + 1) = d + 1 /\ d + 1 \in 1 .. MaxBytes + 1
        BY <1>4, <2>7, <3>1, PieceHeads
      <4>3. PICK z \in Nat : z = Place(PieceHead(d + 1))
        BY <4>2, PlaceFacts
      <4>4. ((d + 1) - PieceHead(d + 1)) + 1 = 1
        BY <2>7, <4>2
      <4> QED
        BY <2>4, <2>6, <4>1, <4>3, <4>4, PlaceFacts
    <3>2. CASE d % PieceLen # 0
      <4>1. value' = v /\ part' = p + y * r
        BY <2>2, <2>3, <3>2
      <4>2. PieceHead(d + 1) = k
        BY <1>6, <2>7, <3>2, PieceHeads
      <4>3. ((d + 1) - PieceHead(d + 1)) + 1 = ((d - k) + 1) + 1
        BY <1>4, <4>2
      <4> QED
        BY <1>8, <2>3, <2>6, <2>13, <4>1, <4>2, <4>3
    <3> QED
      BY <3>1, <3>2
  <2>9. Goes(buffer, d)
    <3> SUFFICES ASSUME NEW i \in 1 .. d PROVE ~ (buffer[i] < Continue)
      BY DEF Goes
    <3>1. i = d \/ i \in 1 .. d - 1
      BY <1>4
    <3> QED
      BY <1>3, <1>5, <2>1, <3>1 DEF Goes
  <2>10. d + 1 <= chunk
    <3> SUFFICES ASSUME chunk = d PROVE FALSE
      BY <1>3, <1>4
    <3> QED
      BY <1>3, <1>4, <1>5, <2>1
  <2>11. TypeOK' /\ WritingInv' /\ WrittenInv' /\ StartInv'
    BY <1>1, <2>2, <2>7, <2>8, BufferKept
  <2>12. SliceInv'
    <3>1. /\ (value + part * Place(PieceHead(digit)) = Sum(buffer, digit - 1))'
          /\ (part < Place((digit - PieceHead(digit)) + 1))'
      BY <1>1, <2>2, <2>7, <2>8 DEF PieceHead
    <3>2. Goes(buffer', digit' - 1)
      BY <1>1, <2>2, <2>7, <2>9
    <3>3. digit' \in 1 .. MaxBytes /\ digit' <= chunk' /\ (chunk' > MaxBytes \/ buffer'[chunk'] < Continue)
      BY <1>1, <1>3, <2>2, <2>7, <2>10
    <3> QED
      BY <3>1, <3>2, <3>3 DEF SliceInv
  <2> QED
    BY <2>2, <2>11, <2>12 DEF IInv, SlowInv, DecodesWhatItSays
<1> QED
  BY <1>12, <1>13, <1>14

(* A number below the width is what is kept of it. *)
LEMMA Kept == \A n \in Nat : n < Word => n % Word = n
BY WordFacts

(* decode_varint_slow: below the width nothing is shifted out. *)
LEMMA SlowStep ==
  ASSUME IInv, DecodeVarintSlow
  PROVE  IInv'
<1>1. phase = "slow" /\ UNCHANGED <<original, buffer, chunk>>
  BY DEF DecodeVarintSlow
<1>2. PICK d \in 1 .. MaxBytes + 1 : d = digit
  BY <1>1 DEF IInv, SlowInv
<1>3. /\ buffer \in Seq(Bytes) /\ d - 1 <= Len(buffer) /\ Len(buffer) \in Nat
      /\ Goes(buffer, d - 1) /\ (d <= MaxBytes => value = Sum(buffer, d - 1))
      /\ value \in Nat /\ part \in Nat /\ d \in Nat \ {0} /\ MaxBytes \in Nat
  BY <1>1, <1>2, BytesAssumption DEF IInv, TypeOK, SlowInv
<1>4. CASE d > MaxBytes \/ d > Len(buffer)
  <2>1. phase' = "invalid" /\ UNCHANGED <<value, part, digit>>
    BY <1>2, <1>4 DEF DecodeVarintSlow, Invalid
  <2>2. d - 1 \in Nat /\ (d - 1 = Len(buffer) \/ d - 1 >= MaxBytes)
    BY <1>3, <1>4
  <2>3. ~ Sound
    BY <1>3, <2>2, NeverStops
  <2> QED
    BY <1>1, <2>1, <2>3, Ended
<1>5. CASE ~ (d > MaxBytes \/ d > Len(buffer))
  <2>1. d \in 1 .. Len(buffer) /\ d <= MaxBytes /\ d \in 1 .. MaxBytes /\ d \in 0 .. d
    BY <1>3, <1>5
  <2>2. PICK x \in Nat : x = buffer[d] /\ x \in Bytes
    <3>1. buffer[d] \in Bytes
      BY <1>3, <2>1
    <3> QED
      BY <3>1, Bytewise, Zenon
  <2>3. PICK s \in Nat : s = Sum(buffer, d)
    <3>1. \A i \in 1 .. d : buffer[i] \in Bytes
      BY <1>3, <2>1
    <3>2. Sum(buffer, d) \in Nat
      BY <1>3, <2>1, <3>1, SumBounds
    <3> QED
      BY <3>2
  <2>4. value + (buffer[digit] % Continue) * Place(digit) = s
    <3>1. d - 1 \in Nat /\ (d - 1) + 1 = d
      BY <1>3
    <3>2. s = Sum(buffer, d - 1) + Digit(buffer, d)
      BY <2>3, <3>1, SumFacts
    <3>3. value = Sum(buffer, d - 1) /\ Digit(buffer, d) = (buffer[d] % Continue) * Place(d)
      BY <1>3, <2>1, Zenon DEF Digit
    <3> QED
      BY <1>2, <3>2, <3>3, Zenon
  <2>5. PICK n \in Nat : n = s % Word /\ (s < Word => n = s)
    <3>1. s % Word \in Nat
      BY WordFacts
    <3> QED
      BY <3>1, Kept
  <2>6. CASE ~ (x < Continue)
    <3>1. value' = n /\ digit' = d + 1 /\ UNCHANGED <<phase, part, read>>
      BY <1>2, <1>5, <2>2, <2>4, <2>5, <2>6, WordFacts DEF DecodeVarintSlow
    <3>2. d + 1 \in 1 .. MaxBytes + 1 /\ (d + 1) - 1 = d /\ d + 1 \in Nat \ {0} /\ d <= Len(buffer)
      BY <1>3, <2>1
    <3>3. Goes(buffer, d)
      <4> SUFFICES ASSUME NEW i \in 1 .. d PROVE ~ (buffer[i] < Continue)
        BY DEF Goes
      <4>1. i = d \/ i \in 1 .. d - 1
        BY <1>3
      <4> QED
        BY <1>3, <2>2, <2>6, <4>1 DEF Goes
    <3>4. d + 1 <= MaxBytes => n = Sum(buffer, d)
      <4> SUFFICES ASSUME d + 1 <= MaxBytes PROVE s < Word
        BY <2>3, <2>5
      <4>1. d + 1 \in 1 .. MaxBytes /\ MaxBytes \in 1 .. MaxBytes + 1
        BY <1>3, <2>1
      <4>2. \A i \in 1 .. d : buffer[i] \in Bytes
        BY <1>3, <2>1
      <4>3. Sum(buffer, d) < Place(d + 1)
        BY <1>3, <2>1, <4>2, SumBounds
      <4>4. Place(d + 1) \in Nat /\ Place(d + 1) <= Place(MaxBytes) /\ Place(MaxBytes) \in Nat
        BY <4>1, PlaceGrows
      <4>5. Word = 2 * Place(MaxBytes)
        BY PlaceFacts
      <4> QED
        BY <2>3, <4>3, <4>4, <4>5
    <3>5. TypeOK' /\ WritingInv' /\ WrittenInv' /\ StartInv'
      BY <1>1, <1>3, <3>1, <3>2, BufferKept
    <3>6. SlowInv'
      <4>1. digit' \in 1 .. MaxBytes + 1 /\ digit' - 1 = d /\ buffer' = buffer
        BY <1>1, <3>1, <3>2
      <4>2. digit' <= MaxBytes => value' = Sum(buffer', digit' - 1)
        BY <3>1, <3>4, <4>1
      <4> QED
        BY <3>2, <3>3, <4>1, <4>2 DEF SlowInv
    <3> QED
      BY <1>1, <3>1, <3>5, <3>6 DEF IInv, SliceInv, DecodesWhatItSays
  <2>7. CASE x < Continue /\ d = MaxBytes /\ ~ (x < LastStop)
    <3>1. phase' = "invalid" /\ UNCHANGED <<value, part, digit>>
      BY <1>2, <1>5, <2>2, <2>7, WordFacts DEF DecodeVarintSlow, Invalid, LastStop
    <3>2. ~ Sound
      BY <1>3, <2>1, <2>2, <2>7, Rejected
    <3> QED
      BY <1>1, <3>1, <3>2, Ended
  <2>8. CASE x < Continue /\ (d < MaxBytes \/ x < LastStop)
    <3>1. phase' = "ok" /\ value' = n /\ read' = d /\ UNCHANGED <<part, digit>>
      BY <1>2, <1>3, <1>5, <2>2, <2>4, <2>5, <2>8, WordFacts DEF DecodeVarintSlow, Ok, LastStop
    <3>2. Sound /\ Meaning = Sum(buffer, d) /\ First = d
      BY <1>3, <2>1, <2>2, <2>8, Accepted
    <3>3. n = s
      BY <2>3, <2>5, <3>2 DEF Sound
    <3> QED
      BY <1>1, <2>3, <3>1, <3>2, <3>3, Ended
  <2> QED
    BY <1>3, <2>1, <2>6, <2>7, <2>8
<1> QED
  BY <1>4, <1>5

(* The invariant is inductive. *)
LEMMA Preserved == IInv /\ [Next]_vars => IInv'
<1> SUFFICES ASSUME IInv, [Next]_vars PROVE IInv'
  OBVIOUS
<1>1. CASE EncodeByte
  BY <1>1, LastByteWritten, ByteWritten
<1>2. CASE UNCHANGED vars
  BY <1>2 DEF vars, IInv, TypeOK, WritingInv, WrittenInv, StartInv, SliceInv, SlowInv, DecodesWhatItSays,
              Goes, PieceHead, Sound, Meaning, First, Stops
<1> QED
  BY <1>1, <1>2, Begun, SliceStep, SlowStep DEF Next

(* What was written is an integer of the width, in as many bytes. *)
LEMMA RoundTripsFollow == IInv => RoundTrips
<1> SUFFICES ASSUME IInv, original # -1, phase \in {"ok", "invalid"}
             PROVE  phase = "ok" /\ value = original /\ read = Len(buffer)
  BY DEF RoundTrips
<1>1. PICK l \in Nat : l = Len(buffer) /\ l \in 1 .. MaxBytes /\ l \in 1 .. Len(buffer) /\ l <= MaxBytes
  BY BytesAssumption DEF IInv, TypeOK, WrittenInv
<1>2. buffer \in Seq(Bytes) /\ Goes(buffer, l - 1) /\ buffer[l] < Continue /\ original = Sum(buffer, l)
      /\ original < Word
  BY <1>1, WordFacts DEF IInv, TypeOK, WrittenInv
<1>3. l < MaxBytes \/ buffer[l] < LastStop
  <2> SUFFICES ASSUME l = MaxBytes, ~ (buffer[MaxBytes] < LastStop) PROVE FALSE
    BY <1>1, BytesAssumption
  <2>1. \A i \in 1 .. MaxBytes : buffer[i] \in Bytes
    BY <1>1, <1>2
  <2> QED
    BY <1>2, <2>1, SumOverflows
<1>4. Sound /\ Meaning = Sum(buffer, l) /\ First = l
  BY <1>1, <1>2, <1>3, Accepted
<1> QED
  BY <1>1, <1>2, <1>4 DEF IInv, DecodesWhatItSays

-----------------------------------------------------------------------------
(* encoded_len_varint *)

(* A larger exponent, a larger power. *)
LEMMA PowersGrow ==
  ASSUME NEW i \in Exponents, NEW j \in Exponents, i <= j
  PROVE  Powers[i] \in Nat \ {0} /\ Powers[j] \in Nat \ {0} /\ Powers[i] <= Powers[j]
<1>1. i \in Nat /\ j \in Nat
  BY PowersFacts DEF Exponents
<1>2. PICK d \in Nat : i + d = j /\ d <= j
  <2>1. j - i \in Nat /\ i + (j - i) = j /\ j - i <= j
    BY <1>1
  <2> QED
    BY <2>1
<1>3. d \in Exponents
  BY <1>1, <1>2, PowersFacts DEF Exponents
<1>4. PICK p \in Nat \ {0}, q \in Nat \ {0} : p = Powers[i] /\ q = Powers[d] /\ Powers[j] \in Nat \ {0}
  BY <1>3, PowersFacts
<1>5. Powers[i + d] = Powers[i] * Powers[d]
  BY <1>1, <1>2, PowersAdd
<1>6. p * 1 <= p * q /\ p * 1 = p
  BY Product
<1>7. Powers[j] = p * q
  BY <1>2, <1>4, <1>5
<1> QED
  BY <1>4, <1>6, <1>7

(* A positive integer of the width has a logarithm. *)
LEMMA Log2Facts ==
  ASSUME NEW w \in Nat \ {0}, w < Word
  PROVE  /\ Log2(w) \in 0 .. Bits * (MaxBytes - 1)
         /\ Powers[Log2(w)] <= w /\ w < Powers[Log2(w) + 1]
<1>1. PICK m \in Nat : m = Bits * (MaxBytes - 1) /\ m + 1 <= Bits * MaxBytes
  <2>1. PICK e \in Nat, b \in Nat : e = MaxBytes - 1 /\ MaxBytes = e + 1 /\ b = Bits /\ b >= 2
    BY BytesAssumption, BitsAssumption
  <2>2. b * e \in Nat /\ b * (e + 1) = b * e + b
    BY Z3
  <2>3. Bits * (MaxBytes - 1) = b * e /\ Bits * MaxBytes = b * (e + 1)
    BY <2>1, Zenon
  <2> QED
    BY <2>1, <2>2, <2>3
<1>2. \A n \in 0 .. m + 1 : n \in Exponents /\ Powers[n] = 2 ^ n /\ Powers[n] \in Nat
  BY <1>1, PowersFacts DEF Exponents
<1>3. Word = Powers[m + 1]
  <2>1. Word = 2 ^ (m + 1)
    BY <1>1, Zenon DEF Word
  <2>2. m + 1 \in 0 .. m + 1
    OBVIOUS
  <2> QED
    BY <1>2, <2>1, <2>2, Zenon
<1> DEFINE S == { n \in 0 .. m + 1 : w < Powers[n] }
<1>4. S \in SUBSET Nat /\ m + 1 \in S
  BY <1>1, <1>3
<1>5. PICK n \in S : \A y \in S : n <= y
  BY <1>4, LeastElement
<1>6. n # 0
  BY <1>5, PowersFacts
<1>7. PICK k \in 0 .. m : n = k + 1
  <2>1. n - 1 \in 0 .. m /\ n = (n - 1) + 1
    BY <1>5, <1>6
  <2> QED
    BY <2>1
<1>8. w < Powers[k + 1]
  BY <1>5, <1>7
<1>9. Powers[k] <= w
  <2> SUFFICES ASSUME ~ (Powers[k] <= w) PROVE FALSE
    OBVIOUS
  <2>1. k \in 0 .. m + 1 /\ Powers[k] \in Nat
    BY <1>2
  <2>2. k \in S
    BY <2>1
  <2>3. k + 1 <= k
    BY <1>5, <1>7, <2>2
  <2> QED
    BY <2>3
<1> HIDE DEF S
<1>10. \A j \in 0 .. m : Powers[j] = 2 ^ j /\ Powers[j + 1] = 2 ^ (j + 1)
  <2> TAKE j \in 0 .. m
  <2>1. j \in 0 .. m + 1 /\ j + 1 \in 0 .. m + 1
    OBVIOUS
  <2> QED
    BY <1>2, <2>1, Zenon
<1>11. 2 ^ k <= w /\ w < 2 ^ (k + 1)
  BY <1>8, <1>9, <1>10, Zenon
<1>12. PICK l : l = Log2(w) /\ l \in 0 .. m /\ 2 ^ l <= w /\ w < 2 ^ (l + 1)
  BY <1>1, <1>11, Zenon DEF Log2
<1> QED
  BY <1>1, <1>10, <1>12, Zenon

(* The factor that is rounded down is enough for the logarithms there are. *)
LEMMA LengthCountsDigits ==
  ASSUME NEW k \in 0 .. 63
  PROVE  LenOfLog2(k) = k \div Bits + 1
<1>1. PICK b \in Nat \ {0}, m \in Nat : b = Bits /\ m = 64 \div Bits /\ b * m = 63
  <2>1. Bits \in Nat \ {0} /\ 64 % Bits = 1
    BY BitsAssumption, RoundAssumption
  <2>2. 64 \div Bits \in Nat /\ 64 = Bits * (64 \div Bits) + (64 % Bits)
    BY <2>1, Divided
  <2> QED
    BY <2>1, <2>2
<1>2. PICK q \in Nat, r \in Nat : q = k \div b /\ r = k % b /\ r < b /\ k = b * q + r
  BY Divided
<1>3. q <= m
  <2> SUFFICES ASSUME m < q PROVE FALSE
    OBVIOUS
  <2>1. b * m + b <= b * q /\ b * q \in Nat
    BY Product
  <2> QED
    BY <1>1, <1>2, <2>1
<1>4. k * m = 63 * q + r * m
  <2>1. (b * q + r) * m = (b * m) * q + r * m
    BY Z3
  <2> QED
    BY <1>1, <1>2, <2>1
<1>5. PICK s \in Nat : s = r * m + m /\ s <= 63 /\ m <= s
  <2>1. m * (r + 1) <= m * b /\ m * (r + 1) \in Nat /\ m * r \in Nat /\ r + 1 \in Nat
    <3>1. r + 1 \in Nat /\ r + 1 <= b
      BY <1>2
    <3>2. m * (r + 1) <= m * b /\ m * (r + 1) \in Nat
      BY <3>1, Product
    <3>3. m * r \in Nat
      BY Z3
    <3> QED
      BY <3>1, <3>2, <3>3
  <2>2. m * (r + 1) = r * m + m /\ m * b = b * m /\ m * r = r * m
    BY Z3
  <2> QED
    BY <1>1, <2>1, <2>2
<1>6. PICK d \in Nat : d = s - q /\ s = d + q /\ d <= 63
  BY <1>3, <1>5
<1>7. (k * m + 64 + m) = 64 * (q + 1) + d
  BY <1>2, <1>4, <1>5, <1>6
<1>8. (k * m + 64 + m) \div 64 = q + 1
  <2>1. q + 1 \in Nat /\ d < 64 /\ 64 \in Nat \ {0}
    BY <1>6
  <2>2. 64 * (q + 1) + d \in Nat
    OBVIOUS
  <2> QED
    BY <1>7, <2>1, <2>2, OneDivision
<1> QED
  BY <1>1, <1>2, <1>8 DEF LenOfLog2

(* The last digit is not zero, so the logarithm lies between the places.   *)
LEMMA LengthFollows == IInv => LengthIsExact
<1> SUFFICES ASSUME IInv, original # -1, phase # "encode"
             PROVE  Len(buffer) = EncodedLenVarint(original)
  BY DEF LengthIsExact
<1>1. PICK l \in Nat : l = Len(buffer) /\ l \in 1 .. MaxBytes /\ l \in 1 .. Len(buffer)
  BY BytesAssumption DEF IInv, TypeOK, WrittenInv
<1>2. buffer \in Seq(Bytes) /\ buffer[l] < Continue /\ original = Sum(buffer, l) /\ original < Word
      /\ original \in Nat /\ (l > 1 => buffer[l] > 0)
  BY <1>1, WordFacts DEF IInv, TypeOK, WrittenInv
<1>3. \A i \in 1 .. l : buffer[i] \in Bytes
  BY <1>1, <1>2
<1>4. l \in 1 .. MaxBytes + 1 /\ l + 1 \in 1 .. MaxBytes + 1 /\ MaxBytes \in Nat /\ l <= MaxBytes /\ l \in 0 .. l
  BY <1>1, BytesAssumption
<1>5. original < Place(l + 1)
  BY <1>2, <1>3, <1>4, SumBounds
<1>6. PICK w \in Nat \ {0} : w = (IF original = 0 THEN 1 ELSE original) /\ w < Word
  BY <1>2, WordFacts
<1>7. PICK p \in Nat \ {0}, c \in Nat : p = Place(l) /\ c = Continue /\ c >= 4 /\ Place(l + 1) = c * p
  BY <1>1, <1>4, PlaceFacts
<1>8. w < Place(l + 1)
  <2>1. p * 4 <= p * c /\ p * c = c * p /\ c * p \in Nat
    <3>1. p * 4 <= p * c
      BY <1>7, Product
    <3> QED
      BY <3>1, Z3
  <2> QED
    BY <1>5, <1>6, <1>7, <2>1
<1>9. p <= w
  <2>1. CASE l = 1
    BY <1>6, <1>7, <2>1, PlaceFacts
  <2>2. CASE l > 1
    <3>1. PICK e \in Nat : e + 1 = l /\ e \in 0 .. l
      <4>1. l - 1 \in Nat /\ (l - 1) + 1 = l /\ l - 1 \in 0 .. l
        BY <2>2
      <4> QED
        BY <4>1
    <3>2. Sum(buffer, e) \in Nat /\ Sum(buffer, l) = Sum(buffer, e) + Digit(buffer, l)
      <4>1. Sum(buffer, e) \in Nat
        BY <1>3, <1>4, <3>1, SumBounds
      <4>2. Sum(buffer, e + 1) = Sum(buffer, e) + Digit(buffer, e + 1)
        BY SumFacts
      <4> QED
        BY <3>1, <4>1, <4>2
    <3>3. PICK x \in Nat : x = buffer[l] /\ 1 <= x
      <4>1. buffer[l] \in Bytes
        BY <1>1, <1>3
      <4>2. buffer[l] \in Nat
        BY <4>1, Bytewise, Zenon
      <4> QED
        BY <1>2, <2>2, <4>2
    <3>4. Digit(buffer, l) = x * p
      <4>1. buffer[l] \in Bytes
        BY <1>1, <1>3
      <4> QED
        BY <1>1, <1>2, <1>7, <3>3, <4>1, DigitFacts
    <3>5. p * 1 <= p * x /\ p * x = x * p /\ p * 1 = p /\ x * p \in Nat
      <4>1. p * 1 <= p * x
        BY <3>3, Product
      <4> QED
        BY <4>1, Z3
    <3>6. p <= original
      BY <1>2, <3>2, <3>4, <3>5
    <3> QED
      BY <1>2, <1>6, <1>7, <3>6
  <2> QED
    BY <1>1, <2>1, <2>2
<1>10. PICK k \in 0 .. Bits * (MaxBytes - 1) : k = Log2(w) /\ Powers[k] <= w /\ w < Powers[k + 1]
  BY <1>6, Log2Facts
<1>11. PICK b \in Nat, e \in Nat : b = Bits /\ b >= 2 /\ e = l - 1 /\ l = e + 1
  <2>1. l - 1 \in Nat /\ l = (l - 1) + 1 /\ Bits \in Nat /\ Bits >= 2
    BY <1>1, BitsAssumption
  <2> QED
    BY <2>1
<1>12. /\ b * e \in Nat /\ b * l \in Nat /\ b * l = b * e + b /\ b * l <= Bits * MaxBytes
       /\ Bits * (l - 1) = b * e /\ Bits * ((l + 1) - 1) = b * l
       /\ b * e \in Exponents /\ b * l \in Exponents
  <2>1. b * e \in Nat /\ b * (e + 1) = b * e + b
    BY Z3
  <2>2. b * l \in Nat /\ b * l <= b * MaxBytes
    BY <1>4, Product
  <2>3. Bits * (l - 1) = b * e
    BY <1>11, Zenon
  <2>4. (l + 1) - 1 = l
    OBVIOUS
  <2>5. Bits * ((l + 1) - 1) = b * l
    BY <1>11, <2>4, Zenon
  <2>6. b * l = b * e + b
    BY <1>11, <2>1, Zenon
  <2>7. b * MaxBytes = Bits * MaxBytes
    BY <1>11, Zenon
  <2> QED
    BY <1>11, <2>1, <2>2, <2>3, <2>5, <2>6, <2>7, PowersFacts DEF Exponents
<1>13. Place(l) = Powers[b * e] /\ Place(l + 1) = Powers[b * l]
  BY <1>12, PowersFacts, Zenon DEF Place
<1>14. PICK m \in Nat : m = Bits * (MaxBytes - 1) /\ m < 64 /\ m + 1 <= Bits * MaxBytes
  <2>1. PICK z \in Nat : z = MaxBytes - 1 /\ MaxBytes = z + 1
    BY BytesAssumption
  <2>2. b * z \in Nat /\ b * (z + 1) = b * z + b
    BY Z3
  <2>3. Bits * (MaxBytes - 1) = b * z /\ Bits * MaxBytes = b * (z + 1)
    BY <1>11, <2>1, Zenon
  <2> QED
    BY <1>11, <2>2, <2>3, WidthAssumption
<1>15. k \in Nat /\ k <= 63 /\ k \in Exponents /\ k + 1 \in Exponents
  <2>1. k \in 0 .. m
    BY <1>10, <1>14, Zenon
  <2>2. PICK x \in Nat : x = Bits * MaxBytes
    BY PowersFacts
  <2>3. k \in 0 .. x + 1 /\ k + 1 \in 0 .. x + 1 /\ k <= 63 /\ k \in Nat
    BY <1>14, <2>1, <2>2
  <2> QED
    BY <2>2, <2>3 DEF Exponents
<1>16. k < b * l
  <2> SUFFICES ASSUME ~ (k < b * l) PROVE FALSE
    OBVIOUS
  <2>1. b * l <= k
    BY <1>12, <1>15
  <2>2. Powers[b * l] \in Nat \ {0} /\ Powers[k] \in Nat \ {0} /\ Powers[b * l] <= Powers[k]
    BY <1>12, <1>15, <2>1, PowersGrow
  <2> QED
    BY <1>8, <1>10, <1>13, <2>2
<1>17. b * e <= k
  <2> SUFFICES ASSUME ~ (b * e <= k) PROVE FALSE
    OBVIOUS
  <2>1. k + 1 <= b * e
    BY <1>12, <1>15
  <2>2. Powers[k + 1] \in Nat \ {0} /\ Powers[b * e] \in Nat \ {0} /\ Powers[k + 1] <= Powers[b * e]
    BY <1>12, <1>15, <2>1, PowersGrow
  <2> QED
    BY <1>7, <1>9, <1>10, <1>13, <2>2
<1>18. k \div b = e
  <2>1. PICK r \in Nat : k = b * e + r /\ r < b
    <3>1. k - b * e \in Nat /\ k = b * e + (k - b * e) /\ k - b * e < b
      BY <1>12, <1>15, <1>16, <1>17
    <3> QED
      BY <3>1
  <2> QED
    BY <1>11, <1>15, <2>1, OneDivision
<1>19. LenOfLog2(k) = k \div Bits + 1
  BY <1>15, LengthCountsDigits
<1>20. LenOfLog2(k) = l
  BY <1>11, <1>18, <1>19
<1> QED
  BY <1>1, <1>6, <1>10, <1>20 DEF EncodedLenVarint

-----------------------------------------------------------------------------

(* decode_varint_slice: no get_unchecked leaves the chunk. *)
THEOREM UncheckedReadsStayInBounds == Spec => []StaysInBounds
<1>1. Init => IInv
  BY Initially
<1>2. IInv /\ [Next]_vars => IInv'
  BY Preserved
<1>3. IInv => StaysInBounds
  BY DEF IInv, SliceInv, StaysInBounds
<1> QED
  BY <1>1, <1>2, <1>3, PTL DEF Spec

(* The pieces are u32, and so is the sum a step adds up before it takes    *)
(* the continuation bit off: for four digits of seven bits below 2^29.     *)
PartFits ==
  phase = "slice" => part + buffer[digit] * Place(digit - PieceStart + 1) < 2 * Place(PieceLen + 1)

(* The piece holds the digits before this one, the byte less than two. *)
LEMMA PartFitsFollows ==
  ASSUME IInv, PieceLen <= MaxBytes
  PROVE  PartFits
<1> SUFFICES ASSUME phase = "slice"
             PROVE  part + buffer[digit] * Place(digit - PieceStart + 1) < 2 * Place(PieceLen + 1)
  BY DEF PartFits
<1>1. PICK d \in 1 .. MaxBytes : d = digit /\ d \in Nat \ {0}
  BY DEF IInv, TypeOK, SliceInv
<1>2. PICK k \in 1 .. d : k = PieceHead(d) /\ (d - k) + 1 <= PieceLen
  BY <1>1, PieceHeads
<1>3. PICK e \in 1 .. MaxBytes : e = (d - k) + 1 /\ e <= PieceLen
  BY <1>1, <1>2, BytesAssumption
<1>4. e \in 1 .. MaxBytes + 1 /\ PieceLen \in 1 .. MaxBytes /\ (PieceLen - e) + 1 \in 1 .. MaxBytes + 1
  BY <1>3, PieceAssumption, BytesAssumption
<1>5. PICK r \in Nat, c \in Nat, x \in Nat : r = Place(e) /\ c = Continue /\ x = buffer[d] /\ x < 2 * c
  <2>1. buffer \in Seq(Bytes) /\ d \in 1 .. Len(buffer)
    BY <1>1 DEF IInv, TypeOK, SliceInv
  <2>2. buffer[d] \in Bytes
    BY <2>1
  <2>3. buffer[d] \in Nat /\ buffer[d] < 2 * Continue
    BY <2>2, Bytewise, Zenon
  <2> QED
    BY <1>4, <2>3, PlaceFacts, WordFacts
<1>6. part \in Nat /\ part < r
  BY <1>1, <1>2, <1>3, <1>5 DEF IInv, TypeOK, SliceInv
<1>7. part + x * r < 2 * (c * r) /\ c * r \in Nat
  <2>1. r * x + r <= r * (2 * c)
    BY <1>5, Product
  <2>2. r * x = x * r /\ r * (2 * c) = 2 * (c * r) /\ c * r \in Nat /\ x * r \in Nat
    BY Z3
  <2> QED
    BY <1>6, <2>1, <2>2
<1>8. c * r <= Place(PieceLen + 1) /\ Place(PieceLen + 1) \in Nat
  <2>1. PICK f \in Nat \ {0}, q \in Nat : f = Place((PieceLen - e) + 1) /\ q = Place(PieceLen) /\ q = f * r
    <3>1. Place((PieceLen - e) + 1) \in Nat \ {0}
      BY <1>4, PlaceFacts
    <3>2. Place(PieceLen) \in Nat
      BY <1>4, PlaceGrows
    <3>3. e \in 1 .. PieceLen
      BY <1>3, <1>4
    <3>4. Place(PieceLen) = Place((PieceLen - e) + 1) * Place(e)
      BY <1>4, <3>3, PlaceFacts
    <3> QED
      BY <1>5, <3>1, <3>2, <3>4
  <2>2. r * 1 <= r * f /\ r * f = f * r /\ r * 1 = r
    <3>1. r * 1 <= r * f
      BY <2>1, Product
    <3> QED
      BY <3>1, Z3
  <2>3. c * r <= c * q /\ c * q \in Nat
    <3>1. r <= q
      BY <2>1, <2>2
    <3> QED
      BY <3>1, Product
  <2>4. Place(PieceLen + 1) = c * q
    BY <1>4, <1>5, <2>1, PlaceFacts
  <2> QED
    BY <2>3, <2>4
<1>9. digit - PieceStart + 1 = e
  BY <1>1, <1>2, <1>3 DEF PieceStart, PieceHead
<1>10. part + buffer[digit] * Place(digit - PieceStart + 1) = part + x * r
  BY <1>1, <1>5, <1>9, Zenon
<1>11. PICK s \in Nat, z \in Nat : s = part + x * r /\ z = c * r /\ s < 2 * z /\ z <= Place(PieceLen + 1)
  <2>1. x * r \in Nat
    BY Z3
  <2>2. part + x * r \in Nat
    BY <1>6, <2>1
  <2> QED
    BY <1>7, <1>8, <2>2
<1>12. s < 2 * Place(PieceLen + 1)
  BY <1>8, <1>11
<1> QED
  BY <1>10, <1>11, <1>12, Zenon

(* decode_varint_slice: the additions and shifts of its u32 pieces never   *)
(* overflow.                                                               *)
THEOREM PiecesNeverOverflow == ASSUME PieceLen <= MaxBytes PROVE Spec => []PartFits
<1>1. Init => IInv
  BY Initially
<1>2. IInv /\ [Next]_vars => IInv'
  BY Preserved
<1>3. IInv => PartFits
  BY PartFitsFollows
<1> QED
  BY <1>1, <1>2, <1>3, PTL DEF Spec

(* decode_varint: a buffer is accepted exactly when it holds an integer of *)
(* the width, which is then the value, with as many bytes read as say it.  *)
THEOREM DecodersAgree == Spec => []DecodesWhatItSays
<1>1. Init => IInv
  BY Initially
<1>2. IInv /\ [Next]_vars => IInv'
  BY Preserved
<1>3. IInv => DecodesWhatItSays
  BY DEF IInv
<1> QED
  BY <1>1, <1>2, <1>3, PTL DEF Spec

(* encode_varint, then decode_varint, gives the integer back, whatever the *)
(* decoder and the cut of the buffer.                                      *)
THEOREM WrittenIsReadBack == Spec => []RoundTrips
<1>1. Init => IInv
  BY Initially
<1>2. IInv /\ [Next]_vars => IInv'
  BY Preserved
<1>3. IInv => RoundTrips
  BY RoundTripsFollow
<1> QED
  BY <1>1, <1>2, <1>3, PTL DEF Spec

(* encoded_len_varint: the formula over the logarithm is the number of     *)
(* bytes that encode_varint writes.                                        *)
THEOREM LengthExact == Spec => []LengthIsExact
<1>1. Init => IInv
  BY Initially
<1>2. IInv /\ [Next]_vars => IInv'
  BY Preserved
<1>3. IInv => LengthIsExact
  BY LengthFollows
<1> QED
  BY <1>1, <1>2, <1>3, PTL DEF Spec

=============================================================================
