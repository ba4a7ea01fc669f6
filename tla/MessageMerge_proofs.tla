------------------------ MODULE MessageMerge_proofs -------------------------
(***************************************************************************)
(* What a builder holds is what the occurrences it was given mean, for     *)
(* every set of fields, every range of scalars and every number of tokens. *)
(* The meaning is defined on sequences (Where, Flat, Trails, SinceSwitch,  *)
(* SortedByKey), so the first part of the module says how each of them     *)
(* grows by one element; the second part relates the builder and the open  *)
(* message to the log, and shows that every step keeps that.  The third    *)
(* measures encodings, and the last reads them: what an encoding is merged *)
(* as is what the view holds, so that it decodes to the same view.         *)
(***************************************************************************)
EXTENDS MessageMerge, FiniteSetTheorems, SequenceTheorems, WellFoundedInduction, TLAPS

-----------------------------------------------------------------------------
(* Sequences, by induction on their length *)

(* A nonempty set of natural numbers has a least element. *)
LEMMA LeastElement ==
  ASSUME NEW S \in SUBSET Nat, S # {}
  PROVE  \E x \in S : \A y \in S : x <= y
<1> DEFINE R == OpToRel(<, Nat)
<1>1. IsWellFoundedOn(R, Nat)
  BY NatLessThanWellFounded
<1>2. \A x, y \in Nat : <<y, x>> \in R <=> y < x
  BY DEF OpToRel
<1> HIDE DEF R
<1>3. PICK x \in S : \A y \in S : ~ (<<y, x>> \in R)
  BY <1>1, WFMin, Zenon
<1>4. ASSUME NEW y \in S
      PROVE  x <= y
  <2>1. x \in Nat /\ y \in Nat
    OBVIOUS
  <2>2. ~ (y < x)
    BY <1>2, <1>3, <2>1, Zenon
  <2>3. QED BY <2>1, <2>2
<1>5. QED BY <1>4

(* Induction, with the numbers a claim holds for as a set: the provers take *)
(* no operator for the claim.                                              *)
LEMMA Induction ==
  ASSUME NEW S, 0 \in S, NEW N \in Nat, \A n \in Nat : n < N /\ n \in S => n + 1 \in S
  PROVE  \A n \in 0 .. N : n \in S
<1> DEFINE T == { n \in 0 .. N : n \notin S }
<1> SUFFICES ASSUME T # {} PROVE FALSE
  OBVIOUS
<1>1. T \in SUBSET Nat
  OBVIOUS
<1>2. PICK x \in T : \A y \in T : x <= y
  BY <1>1, LeastElement
<1>3. x \in Nat /\ x <= N /\ x \notin S /\ x # 0
  BY <1>2
<1>4. x - 1 \in 0 .. N /\ ~ (x <= x - 1) /\ x - 1 \in Nat /\ x - 1 < N /\ (x - 1) + 1 = x
  BY <1>3
<1>5. x - 1 \notin T
  BY <1>2, <1>4
<1>6. x - 1 \in S
  BY <1>4, <1>5
<1> QED
  BY <1>3, <1>4, <1>6

(* A set that holds the empty sequence and grows with its sequences. *)
LEMMA SeqInduction ==
  ASSUME NEW S, NEW P, << >> \in P, \A s \in Seq(S) : \A e \in S : s \in P => Append(s, e) \in P
  PROVE  \A s \in Seq(S) : s \in P
<1> TAKE s \in Seq(S)
<1> DEFINE T == { n \in Nat : n <= Len(s) => SubSeq(s, 1, n) \in P }
<1>1. Len(s) \in Nat
  BY LenProperties
<1>2. 0 \in T
  <2>1. SubSeq(s, 1, 0) = << >>
    BY SubSeqEmpty
  <2> QED
    BY <2>1
<1>3. ASSUME NEW n \in Nat, n < Len(s), n \in T PROVE n + 1 \in T
  <2>1. n <= Len(s) /\ SubSeq(s, 1, n) \in P
    BY <1>1, <1>3
  <2>2. s[n + 1] \in S /\ \A i \in 1 .. n : s[i] \in S
    BY <1>1, <1>3
  <2>3. SubSeq(s, 1, n) \in Seq(S)
    BY <2>2, SubSeqProperties
  <2>4. SubSeq(s, 1, n + 1) = SubSeq(s, 1, n) \o << s[n + 1] >>
    <3>1. 1 \in 1 .. Len(s) /\ n + 1 \in 1 .. Len(s) /\ (n + 1) - 1 = n
      BY <1>1, <1>3
    <3>2. SubSeq(s, 1, n + 1) = SubSeq(s, 1, (n + 1) - 1) \o << s[n + 1] >>
      BY <3>1, SubSeqRecursiveSecond
    <3> QED
      BY <3>1, <3>2
  <2>5. SubSeq(s, 1, n + 1) = Append(SubSeq(s, 1, n), s[n + 1])
    BY <2>2, <2>3, <2>4, AppendIsConcat
  <2>6. SubSeq(s, 1, n + 1) \in P
    BY <2>1, <2>2, <2>3, <2>5, Zenon
  <2> QED
    BY <2>6
<1>4. \A n \in Nat : n < Len(s) /\ n \in T => n + 1 \in T
  BY <1>3
<1>5. Len(s) \in 0 .. Len(s) /\ Len(s) <= Len(s)
  BY <1>1
<1>6. SubSeq(s, 1, Len(s)) = s
  BY SubSeqFull
<1>7. Len(s) \in T => SubSeq(s, 1, Len(s)) \in P
  BY <1>5
<1> HIDE DEF T
<1>8. Len(s) \in T
  BY <1>1, <1>2, <1>4, <1>5, Induction
<1> QED
  BY <1>6, <1>7, <1>8

(* A function defined by what it is at zero and by a step. *)
Steps(f, N, a, G) == f = [i \in 0 .. N |-> IF i = 0 THEN a ELSE G[<<i, f[i - 1]>>]]

(* A function defined that way exists, and has its type. *)
LEMMA Recursion ==
  ASSUME NEW N \in Nat, NEW T, NEW a \in T, NEW G \in [(1 .. N) \X T -> T]
  PROVE  \E f \in [0 .. N -> T] : Steps(f, N, a, G)
<1> DEFINE S == { n \in Nat : n <= N => \E f \in [0 .. n -> T] : Steps(f, n, a, G) }
<1>1. 0 \in S
  <2> DEFINE f == [i \in 0 .. 0 |-> a]
  <2>1. f \in [0 .. 0 -> T]
    OBVIOUS
  <2>2. \A i \in 0 .. 0 : i = 0
    OBVIOUS
  <2>3. f = [i \in 0 .. 0 |-> IF i = 0 THEN a ELSE G[<<i, f[i - 1]>>]]
    BY <2>2, Zenon
  <2> QED
    BY <2>1, <2>3, Zenon DEF Steps
<1>2. ASSUME NEW n \in Nat, n < N, n \in S PROVE n + 1 \in S
  <2>1. n <= N
    BY <1>2
  <2>2. PICK f \in [0 .. n -> T] : Steps(f, n, a, G)
    BY <1>2, <2>1
  <2>3. f = [i \in 0 .. n |-> IF i = 0 THEN a ELSE G[<<i, f[i - 1]>>]]
    BY <2>2 DEF Steps
  <2>4. f[n] \in T /\ n + 1 \in 1 .. N
    BY <1>2
  <2>5. PICK x \in T : x = G[<<n + 1, f[n]>>]
    BY <2>4
  <2> DEFINE g == [i \in 0 .. n + 1 |-> IF i = n + 1 THEN x ELSE f[i]]
  <2>6. g \in [0 .. n + 1 -> T]
    OBVIOUS
  <2>7. ASSUME NEW i \in 0 .. n + 1
        PROVE  g[i] = IF i = 0 THEN a ELSE G[<<i, g[i - 1]>>]
    <3>1. CASE i = n + 1
      <4>1. i # 0 /\ i - 1 = n /\ i - 1 \in 0 .. n + 1 /\ i - 1 # n + 1
        BY <3>1
      <4>2. g[i] = x /\ g[i - 1] = f[n]
        BY <3>1, <4>1
      <4> QED
        BY <2>5, <3>1, <4>1, <4>2
    <3>2. CASE i \in 0 .. n
      <4>1. i # n + 1 /\ g[i] = f[i]
        BY <3>2
      <4>2. CASE i = 0
        BY <2>3, <3>2, <4>1, <4>2
      <4>3. CASE i # 0
        <5>1. i - 1 \in 0 .. n + 1 /\ i - 1 # n + 1
          BY <3>2, <4>3
        <5>2. g[i - 1] = f[i - 1]
          BY <5>1
        <5> QED
          BY <2>3, <3>2, <4>1, <4>3, <5>2
      <4> QED
        BY <4>2, <4>3
    <3> QED
      BY <3>1, <3>2
  <2>8. Steps(g, n + 1, a, G)
    BY <2>7, Zenon DEF Steps
  <2> HIDE DEF g
  <2> QED
    BY <2>6, <2>8
<1>3. \A n \in Nat : n < N /\ n \in S => n + 1 \in S
  BY <1>2
<1>4. N \in 0 .. N /\ N <= N
  OBVIOUS
<1>5. N \in S => \E f \in [0 .. N -> T] : Steps(f, N, a, G)
  BY <1>4
<1> HIDE DEF S
<1> QED
  BY <1>1, <1>3, <1>4, <1>5, Induction

(* How a sequence is sifted, element by element. *)
Sifts(f, s, part, values) ==
  f = [i \in 0 .. Len(s) |->
         IF i = 0 THEN << >>
         ELSE IF s[i][part] \in values THEN Append(f[i - 1], s[i]) ELSE f[i - 1]]

(* There is a function that sifts a sequence: Where is defined by one. *)
LEMMA SiftsExist ==
  ASSUME NEW S, NEW s \in Seq(S), NEW part, NEW values
  PROVE  \E f \in [0 .. Len(s) -> Seq(S)] : Sifts(f, s, part, values)
<1>1. Len(s) \in Nat
  BY LenProperties
<1> DEFINE G == [p \in (1 .. Len(s)) \X Seq(S) |->
                   IF s[p[1]][part] \in values THEN Append(p[2], s[p[1]]) ELSE p[2]]
<1>2. G \in [(1 .. Len(s)) \X Seq(S) -> Seq(S)]
  <2> SUFFICES ASSUME NEW i \in 1 .. Len(s), NEW t \in Seq(S)
               PROVE  (IF s[i][part] \in values THEN Append(t, s[i]) ELSE t) \in Seq(S)
    OBVIOUS
  <2>1. s[i] \in S
    BY ElementOfSeq
  <2> QED
    BY <2>1, AppendProperties
<1>3. << >> \in Seq(S)
  BY EmptySeq
<1>4. \A i \in 1 .. Len(s) : \A t \in Seq(S) :
        G[<<i, t>>] = IF s[i][part] \in values THEN Append(t, s[i]) ELSE t
  OBVIOUS
<1> HIDE DEF G
<1>5. PICK f \in [0 .. Len(s) -> Seq(S)] : Steps(f, Len(s), << >>, G)
  BY <1>1, <1>2, <1>3, Recursion
<1>6. f = [i \in 0 .. Len(s) |-> IF i = 0 THEN << >> ELSE G[<<i, f[i - 1]>>]]
  BY <1>5, Zenon DEF Steps
<1>7. ASSUME NEW i \in 0 .. Len(s)
      PROVE  f[i] = IF i = 0 THEN << >>
                    ELSE IF s[i][part] \in values THEN Append(f[i - 1], s[i]) ELSE f[i - 1]
  <2>1. CASE i = 0
    BY <1>6, <2>1
  <2>2. CASE i # 0
    <3>1. i \in 1 .. Len(s) /\ i - 1 \in 0 .. Len(s)
      BY <1>1, <2>2
    <3>2. f[i - 1] \in Seq(S)
      BY <3>1
    <3>3. f[i] = G[<<i, f[i - 1]>>]
      BY <1>6, <2>2, Zenon
    <3> QED
      BY <1>4, <2>2, <3>1, <3>2, <3>3, Zenon
  <2> QED
    BY <2>1, <2>2
<1>8. f = [i \in 0 .. Len(s) |-> f[i]]
  OBVIOUS
<1>9. Sifts(f, s, part, values)
  BY <1>7, <1>8, Zenon DEF Sifts
<1> QED
  BY <1>9

(* The same, with what is sifted out of the first n elements. *)
Sifted(f, s, part, values) ==
  /\ Where(s, part, values) = f[Len(s)]
  /\ f[0] = << >>
  /\ \A n \in Nat : n < Len(s) =>
       f[n + 1] = IF s[n + 1][part] \in values THEN Append(f[n], s[n + 1]) ELSE f[n]

(* Where, one element at a time: what it keeps of the first n elements. *)
LEMMA WhereSteps ==
  ASSUME NEW S, NEW s \in Seq(S), NEW part, NEW values
  PROVE  \E f \in [0 .. Len(s) -> Seq(S)] : Sifted(f, s, part, values)
<1>1. Len(s) \in Nat /\ Len(s) \in 0 .. Len(s)
  BY LenProperties
<1> DEFINE F == CHOOSE f : Sifts(f, s, part, values)
<1>2. Sifts(F, s, part, values)
  BY SiftsExist, Zenon
<1>3. Where(s, part, values) = F[Len(s)]
  BY Zenon DEF Where, Sifts
<1> HIDE DEF F
<1>4. F = [i \in 0 .. Len(s) |->
             IF i = 0 THEN << >>
             ELSE IF s[i][part] \in values THEN Append(F[i - 1], s[i]) ELSE F[i - 1]]
  BY <1>2, Zenon DEF Sifts
<1>5. F[0] = << >>
  BY <1>1, <1>4
<1>6. ASSUME NEW n \in Nat, n < Len(s)
      PROVE  F[n + 1] = IF s[n + 1][part] \in values THEN Append(F[n], s[n + 1]) ELSE F[n]
  <2>1. n + 1 \in 0 .. Len(s) /\ n + 1 # 0 /\ (n + 1) - 1 = n
    BY <1>1, <1>6
  <2>2. F[n + 1] = IF n + 1 = 0 THEN << >>
                   ELSE IF s[n + 1][part] \in values THEN Append(F[(n + 1) - 1], s[n + 1]) ELSE F[(n + 1) - 1]
    BY <1>4, <2>1, Zenon
  <2> QED
    BY <2>1, <2>2, Zenon
<1> DEFINE T == { n \in Nat : F[n] \in Seq(S) }
<1>7. 0 \in T
  BY <1>5, EmptySeq
<1>8. ASSUME NEW n \in Nat, n < Len(s), n \in T PROVE n + 1 \in T
  <2>1. F[n] \in Seq(S) /\ s[n + 1] \in S
    BY <1>1, <1>8
  <2>2. Append(F[n], s[n + 1]) \in Seq(S)
    BY <2>1, AppendProperties
  <2>3. F[n + 1] \in Seq(S)
    BY <1>6, <1>8, <2>1, <2>2, Zenon
  <2> QED
    BY <2>3
<1>9. \A n \in Nat : n < Len(s) /\ n \in T => n + 1 \in T
  BY <1>8
<1>10. \A n \in 0 .. Len(s) : n \in T => F[n] \in Seq(S)
  OBVIOUS
<1> HIDE DEF T
<1>11. \A n \in 0 .. Len(s) : n \in T
  BY <1>1, <1>7, <1>9, Induction
<1>12. \A n \in 0 .. Len(s) : F[n] \in Seq(S)
  BY <1>10, <1>11, Zenon
<1>13. F = [i \in 0 .. Len(s) |-> F[i]]
  <2>1. DOMAIN F = 0 .. Len(s)
    BY <1>4
  <2>2. \E g : F = [i \in 0 .. Len(s) |-> g[i]]
    BY <1>4, <2>1
  <2> QED
    BY <2>1, <2>2
<1>14. F \in [0 .. Len(s) -> Seq(S)]
  BY <1>12, <1>13, Zenon
<1> QED
  BY <1>3, <1>5, <1>6, <1>14 DEF Sifted

(* Where looks at the elements one by one. *)
LEMMA WhereFacts ==
  ASSUME NEW S, NEW s \in Seq(S), NEW part, NEW values
  PROVE  /\ Where(<< >>, part, values) = << >>
         /\ Where(s, part, values) \in Seq(S)
         /\ \A e \in S : Where(Append(s, e), part, values) =
              IF e[part] \in values THEN Append(Where(s, part, values), e) ELSE Where(s, part, values)
<1>1. Len(s) \in Nat /\ Len(s) \in 0 .. Len(s)
  BY LenProperties
<1>2. Where(<< >>, part, values) = << >>
  <2>1. << >> \in Seq(S) /\ Len(<< >>) = 0
    BY EmptySeq
  <2>2. PICK z \in Seq(S) : z = << >>
    BY <2>1
  <2>3. PICK f \in [0 .. Len(z) -> Seq(S)] : Sifted(f, z, part, values)
    BY WhereSteps
  <2>4. Where(z, part, values) = f[Len(z)] /\ f[0] = << >>
    BY <2>3, Zenon DEF Sifted
  <2> QED
    BY <2>1, <2>2, <2>4
<1>3. PICK f \in [0 .. Len(s) -> Seq(S)] : Sifted(f, s, part, values)
  BY WhereSteps
<1>4. ASSUME NEW e \in S
      PROVE  Where(Append(s, e), part, values) =
               IF e[part] \in values THEN Append(Where(s, part, values), e) ELSE Where(s, part, values)
  <2>1. PICK u \in Seq(S) : u = Append(s, e) /\ Len(u) = Len(s) + 1
                            /\ (\A i \in 1 .. Len(s) : u[i] = s[i]) /\ u[Len(s) + 1] = e
    BY AppendProperties
  <2>2. PICK g \in [0 .. Len(u) -> Seq(S)] : Sifted(g, u, part, values)
    BY WhereSteps
  <2> DEFINE T == { n \in Nat : g[n] = f[n] }
  <2>3. 0 \in T
    BY <1>3, <2>2 DEF Sifted
  <2>4. ASSUME NEW n \in Nat, n < Len(s), n \in T PROVE n + 1 \in T
    <3>1. n < Len(u) /\ n + 1 \in 1 .. Len(s)
      BY <1>1, <2>1, <2>4
    <3>2. u[n + 1] = s[n + 1] /\ g[n] = f[n]
      BY <2>1, <2>4, <3>1
    <3>3. g[n + 1] = IF u[n + 1][part] \in values THEN Append(g[n], u[n + 1]) ELSE g[n]
      BY <2>2, <3>1 DEF Sifted
    <3>4. f[n + 1] = IF s[n + 1][part] \in values THEN Append(f[n], s[n + 1]) ELSE f[n]
      BY <1>3, <2>4 DEF Sifted
    <3>5. g[n + 1] = f[n + 1]
      BY <3>2, <3>3, <3>4
    <3> QED
      BY <3>5
  <2>5. \A n \in Nat : n < Len(s) /\ n \in T => n + 1 \in T
    BY <2>4
  <2>6. Len(s) \in T => g[Len(s)] = f[Len(s)]
    OBVIOUS
  <2> HIDE DEF T
  <2>7. Len(s) \in T
    BY <1>1, <2>3, <2>5, Induction
  <2>8. Len(s) < Len(u)
    BY <1>1, <2>1
  <2>9. g[Len(s) + 1] = IF u[Len(s) + 1][part] \in values THEN Append(g[Len(s)], u[Len(s) + 1]) ELSE g[Len(s)]
    BY <1>1, <2>2, <2>8 DEF Sifted
  <2> QED
    <3>1. Where(u, part, values) = g[Len(s) + 1] /\ Where(s, part, values) = f[Len(s)]
      BY <1>3, <2>1, <2>2 DEF Sifted
    <3> QED
      BY <2>1, <2>6, <2>7, <2>9, <3>1, Zenon
<1>5. Where(s, part, values) \in Seq(S)
  BY <1>1, <1>3 DEF Sifted
<1> QED
  BY <1>2, <1>4, <1>5

(* Sifting what was sifted. *)
LEMMA WhereWhere ==
  ASSUME NEW S, NEW part, NEW A, NEW B
  PROVE  \A s \in Seq(S) : Where(Where(s, part, A), part, B) = Where(s, part, A \cap B)
<1> DEFINE P == { s \in Seq(S) : Where(Where(s, part, A), part, B) = Where(s, part, A \cap B) }
<1>1. << >> \in P
  <2>1. << >> \in Seq(S)
    BY EmptySeq
  <2>2. \A V : Where(<< >>, part, V) = << >>
    BY <2>1, WhereFacts
  <2> QED
    BY <2>1, <2>2, Zenon
<1>2. ASSUME NEW s \in Seq(S), NEW e \in S, s \in P PROVE Append(s, e) \in P
  <2>1. Append(s, e) \in Seq(S)
    BY AppendProperties
  <2>2. PICK w \in Seq(S) : w = Where(s, part, A)
    BY WhereFacts
  <2>3. Where(Append(s, e), part, A) = IF e[part] \in A THEN Append(w, e) ELSE w
    BY <2>2, WhereFacts
  <2>4. Where(Append(w, e), part, B) = IF e[part] \in B THEN Append(Where(w, part, B), e) ELSE Where(w, part, B)
    BY WhereFacts
  <2>5. Where(Append(s, e), part, A \cap B) =
          IF e[part] \in A \cap B THEN Append(Where(s, part, A \cap B), e) ELSE Where(s, part, A \cap B)
    BY WhereFacts
  <2>6. Where(w, part, B) = Where(s, part, A \cap B)
    BY <1>2, <2>2
  <2>7. Where(Where(Append(s, e), part, A), part, B) = Where(Append(s, e), part, A \cap B)
    BY <2>2, <2>3, <2>4, <2>5, <2>6
  <2> QED
    BY <2>1, <2>7
<1>3. \A s \in Seq(S) : \A e \in S : s \in P => Append(s, e) \in P
  BY <1>2
<1>4. \A s \in P : Where(Where(s, part, A), part, B) = Where(s, part, A \cap B)
  OBVIOUS
<1> HIDE DEF P
<1>5. \A s \in Seq(S) : s \in P
  BY <1>1, <1>3, SeqInduction
<1> QED
  BY <1>4, <1>5

(* Nothing is sifted by no value. *)
LEMMA WhereNone ==
  ASSUME NEW S, NEW part
  PROVE  \A s \in Seq(S) : Where(s, part, {}) = << >>
<1> DEFINE P == { s \in Seq(S) : Where(s, part, {}) = << >> }
<1>1. << >> \in P
  <2>1. << >> \in Seq(S)
    BY EmptySeq
  <2>2. Where(<< >>, part, {}) = << >>
    BY <2>1, WhereFacts
  <2> QED
    BY <2>1, <2>2, Zenon
<1>2. ASSUME NEW s \in Seq(S), NEW e \in S, s \in P PROVE Append(s, e) \in P
  <2>1. Append(s, e) \in Seq(S)
    BY AppendProperties
  <2>2. Where(Append(s, e), part, {}) = IF e[part] \in {} THEN Append(Where(s, part, {}), e) ELSE Where(s, part, {})
    BY WhereFacts
  <2>3. Where(Append(s, e), part, {}) = << >>
    BY <1>2, <2>2
  <2> QED
    BY <2>1, <2>3
<1>3. \A s \in Seq(S) : \A e \in S : s \in P => Append(s, e) \in P
  BY <1>2
<1>4. \A s \in P : Where(s, part, {}) = << >>
  OBVIOUS
<1> HIDE DEF P
<1>5. \A s \in Seq(S) : s \in P
  BY <1>1, <1>3, SeqInduction
<1> QED
  BY <1>4, <1>5

(* How sequences are put together, one after the other. *)
Joins(f, s) == f = [i \in 0 .. Len(s) |-> IF i = 0 THEN << >> ELSE f[i - 1] \o s[i]]

(* The same, with the joins of the first n sequences. *)
Joined(f, s) ==
  /\ Flat(s) = f[Len(s)]
  /\ f[0] = << >>
  /\ \A n \in Nat : n < Len(s) => f[n + 1] = f[n] \o s[n + 1]

(* There is a function that puts sequences together: Flat is defined by *)
(* one.                                                                 *)
LEMMA JoinsExist ==
  ASSUME NEW S, NEW s \in Seq(Seq(S))
  PROVE  \E f \in [0 .. Len(s) -> Seq(S)] : Joins(f, s)
<1>1. Len(s) \in Nat
  BY LenProperties
<1> DEFINE G == [p \in (1 .. Len(s)) \X Seq(S) |-> p[2] \o s[p[1]]]
<1>2. G \in [(1 .. Len(s)) \X Seq(S) -> Seq(S)]
  <2> SUFFICES ASSUME NEW i \in 1 .. Len(s), NEW t \in Seq(S)
               PROVE  t \o s[i] \in Seq(S)
    OBVIOUS
  <2>1. s[i] \in Seq(S)
    BY ElementOfSeq
  <2> QED
    BY <2>1, ConcatProperties
<1>3. << >> \in Seq(S)
  BY EmptySeq
<1>4. \A i \in 1 .. Len(s) : \A t \in Seq(S) : G[<<i, t>>] = t \o s[i]
  OBVIOUS
<1> HIDE DEF G
<1>5. PICK f \in [0 .. Len(s) -> Seq(S)] : Steps(f, Len(s), << >>, G)
  BY <1>1, <1>2, <1>3, Recursion
<1>6. f = [i \in 0 .. Len(s) |-> IF i = 0 THEN << >> ELSE G[<<i, f[i - 1]>>]]
  BY <1>5, Zenon DEF Steps
<1>7. ASSUME NEW i \in 0 .. Len(s)
      PROVE  f[i] = IF i = 0 THEN << >> ELSE f[i - 1] \o s[i]
  <2>1. CASE i = 0
    BY <1>6, <2>1
  <2>2. CASE i # 0
    <3>1. i \in 1 .. Len(s) /\ i - 1 \in 0 .. Len(s)
      BY <1>1, <2>2
    <3>2. f[i - 1] \in Seq(S)
      BY <3>1
    <3>3. f[i] = G[<<i, f[i - 1]>>]
      BY <1>6, <2>2, Zenon
    <3> QED
      BY <1>4, <2>2, <3>1, <3>2, <3>3, Zenon
  <2> QED
    BY <2>1, <2>2
<1>8. f = [i \in 0 .. Len(s) |-> f[i]]
  OBVIOUS
<1>9. Joins(f, s)
  BY <1>7, <1>8, Zenon DEF Joins
<1> QED
  BY <1>9

(* Flat, one sequence at a time: what it makes of the first n of them. *)
LEMMA FlatSteps ==
  ASSUME NEW S, NEW s \in Seq(Seq(S))
  PROVE  \E f \in [0 .. Len(s) -> Seq(S)] : Joined(f, s)
<1>1. Len(s) \in Nat /\ Len(s) \in 0 .. Len(s)
  BY LenProperties
<1> DEFINE F == CHOOSE f : Joins(f, s)
<1>2. Joins(F, s)
  BY JoinsExist, Zenon
<1>3. Flat(s) = F[Len(s)]
  BY Zenon DEF Flat, Joins
<1> HIDE DEF F
<1>4. F = [i \in 0 .. Len(s) |-> IF i = 0 THEN << >> ELSE F[i - 1] \o s[i]]
  BY <1>2, Zenon DEF Joins
<1>5. F[0] = << >>
  BY <1>1, <1>4
<1>6. ASSUME NEW n \in Nat, n < Len(s)
      PROVE  F[n + 1] = F[n] \o s[n + 1]
  <2>1. n + 1 \in 0 .. Len(s) /\ n + 1 # 0 /\ (n + 1) - 1 = n
    BY <1>1, <1>6
  <2>2. F[n + 1] = IF n + 1 = 0 THEN << >> ELSE F[(n + 1) - 1] \o s[n + 1]
    BY <1>4, <2>1, Zenon
  <2> QED
    BY <2>1, <2>2, Zenon
<1> DEFINE T == { n \in Nat : F[n] \in Seq(S) }
<1>7. 0 \in T
  BY <1>5, EmptySeq
<1>8. ASSUME NEW n \in Nat, n < Len(s), n \in T PROVE n + 1 \in T
  <2>1. F[n] \in Seq(S) /\ s[n + 1] \in Seq(S)
    BY <1>1, <1>8
  <2>2. F[n] \o s[n + 1] \in Seq(S)
    BY <2>1, ConcatProperties
  <2>3. F[n + 1] \in Seq(S)
    BY <1>6, <1>8, <2>2, Zenon
  <2> QED
    BY <2>3
<1>9. \A n \in Nat : n < Len(s) /\ n \in T => n + 1 \in T
  BY <1>8
<1>10. \A n \in 0 .. Len(s) : n \in T => F[n] \in Seq(S)
  OBVIOUS
<1> HIDE DEF T
<1>11. \A n \in 0 .. Len(s) : n \in T
  BY <1>1, <1>7, <1>9, Induction
<1>12. \A n \in 0 .. Len(s) : F[n] \in Seq(S)
  BY <1>10, <1>11, Zenon
<1>13. F = [i \in 0 .. Len(s) |-> F[i]]
  <2>1. DOMAIN F = 0 .. Len(s)
    BY <1>4
  <2>2. \E g : F = [i \in 0 .. Len(s) |-> g[i]]
    BY <1>4, <2>1
  <2> QED
    BY <2>1, <2>2
<1>14. F \in [0 .. Len(s) -> Seq(S)]
  BY <1>12, <1>13, Zenon
<1> QED
  BY <1>3, <1>5, <1>6, <1>14 DEF Joined

(* Flat of nothing, and of one sequence more. *)
LEMMA FlatFacts ==
  ASSUME NEW S, NEW s \in Seq(Seq(S))
  PROVE  /\ Flat(<< >>) = << >>
         /\ Flat(s) \in Seq(S)
         /\ \A e \in Seq(S) : Flat(Append(s, e)) = Flat(s) \o e
<1>1. Len(s) \in Nat /\ Len(s) \in 0 .. Len(s)
  BY LenProperties
<1>2. Flat(<< >>) = << >>
  <2>1. << >> \in Seq(Seq(S)) /\ Len(<< >>) = 0
    BY EmptySeq
  <2>2. PICK z \in Seq(Seq(S)) : z = << >>
    BY <2>1
  <2>3. PICK f \in [0 .. Len(z) -> Seq(S)] : Joined(f, z)
    BY FlatSteps
  <2>4. Flat(z) = f[Len(z)] /\ f[0] = << >>
    BY <2>3, Zenon DEF Joined
  <2> QED
    BY <2>1, <2>2, <2>4
<1>3. PICK f \in [0 .. Len(s) -> Seq(S)] : Joined(f, s)
  BY FlatSteps
<1>4. ASSUME NEW e \in Seq(S)
      PROVE  Flat(Append(s, e)) = Flat(s) \o e
  <2>1. PICK u \in Seq(Seq(S)) : u = Append(s, e) /\ Len(u) = Len(s) + 1
                            /\ (\A i \in 1 .. Len(s) : u[i] = s[i]) /\ u[Len(s) + 1] = e
    BY AppendProperties
  <2>2. PICK g \in [0 .. Len(u) -> Seq(S)] : Joined(g, u)
    BY FlatSteps
  <2> DEFINE T == { n \in Nat : g[n] = f[n] }
  <2>3. 0 \in T
    BY <1>3, <2>2 DEF Joined
  <2>4. ASSUME NEW n \in Nat, n < Len(s), n \in T PROVE n + 1 \in T
    <3>1. n < Len(u) /\ n + 1 \in 1 .. Len(s)
      BY <1>1, <2>1, <2>4
    <3>2. u[n + 1] = s[n + 1] /\ g[n] = f[n]
      BY <2>1, <2>4, <3>1
    <3>3. g[n + 1] = g[n] \o u[n + 1]
      BY <2>2, <3>1, Zenon DEF Joined
    <3>4. f[n + 1] = f[n] \o s[n + 1]
      BY <1>3, <2>4, Zenon DEF Joined
    <3>5. g[n + 1] = f[n + 1]
      BY <3>2, <3>3, <3>4, Zenon
    <3> QED
      BY <3>5
  <2>5. \A n \in Nat : n < Len(s) /\ n \in T => n + 1 \in T
    BY <2>4
  <2>6. Len(s) \in T => g[Len(s)] = f[Len(s)]
    OBVIOUS
  <2> HIDE DEF T
  <2>7. Len(s) \in T
    BY <1>1, <2>3, <2>5, Induction
  <2>8. Len(s) < Len(u)
    BY <1>1, <2>1
  <2>9. g[Len(s) + 1] = g[Len(s)] \o u[Len(s) + 1]
    BY <1>1, <2>2, <2>8, Zenon DEF Joined
  <2>10. Flat(u) = g[Len(u)] /\ Flat(s) = f[Len(s)]
    BY <1>3, <2>2, Zenon DEF Joined
  <2> QED
    BY <2>1, <2>6, <2>7, <2>9, <2>10, Zenon
<1>5. Flat(s) \in Seq(S)
  BY <1>1, <1>3 DEF Joined
<1> QED
  BY <1>2, <1>4, <1>5

(* Mapping a longer sequence. *)
TrailOf(s) == [i \in DOMAIN s |-> s[i].trail]

(* The settings of all occurrences, with one occurrence more. *)
LEMMA TrailsFacts ==
  ASSUME NEW S, NEW Occ, \A o \in Occ : o.trail \in Seq(S), NEW s \in Seq(Occ)
  PROVE  /\ Trails(<< >>) = << >>
         /\ Trails(s) \in Seq(S)
         /\ \A o \in Occ : Trails(Append(s, o)) = Trails(s) \o o.trail
<1>1. Len(s) \in Nat /\ DOMAIN s = 1 .. Len(s)
  BY LenProperties
<1>2. Trails(<< >>) = << >>
  <2>1. TrailOf(<< >>) = << >>
    BY DEF TrailOf
  <2>2. << >> \in Seq(Seq(S))
    BY EmptySeq
  <2>3. Flat(<< >>) = << >>
    BY <2>2, FlatFacts
  <2> QED
    BY <2>1, <2>3, Zenon DEF Trails, TrailOf
<1>3. TrailOf(s) \in Seq(Seq(S)) /\ Len(TrailOf(s)) = Len(s) /\ \A i \in 1 .. Len(s) : TrailOf(s)[i] = s[i].trail
  BY <1>1, Z3 DEF TrailOf
<1>4. ASSUME NEW o \in Occ PROVE Trails(Append(s, o)) = Trails(s) \o o.trail
  <2>1. PICK u \in Seq(Occ) : u = Append(s, o) /\ Len(u) = Len(s) + 1
                            /\ (\A i \in 1 .. Len(s) : u[i] = s[i]) /\ u[Len(s) + 1] = o
    BY AppendProperties
  <2>2. DOMAIN u = 1 .. Len(u)
    BY LenProperties
  <2>3. Append(TrailOf(s), o.trail) = TrailOf(u)
    BY <1>1, <1>3, <2>1, <2>2 DEF TrailOf
  <2>4. Flat(Append(TrailOf(s), o.trail)) = Flat(TrailOf(s)) \o o.trail
    BY <1>3, FlatFacts
  <2> QED
    BY <2>1, <2>3, <2>4, Zenon DEF Trails, TrailOf
<1>5. Flat(TrailOf(s)) \in Seq(S)
  BY <1>3, FlatFacts
<1> QED
  BY <1>2, <1>4, <1>5, Zenon DEF Trails, TrailOf

-----------------------------------------------------------------------------
(* Sorting *)

(* The order of a stable sort by key, and what is ahead of an entry in it. *)
Before(m, j, i) == m[j].key < m[i].key \/ (m[j].key = m[i].key /\ j < i)
Ahead(m, i)     == { j \in DOMAIN m : Before(m, j, i) }

(* A place for every entry and an entry for every place. *)
LEMMA RankFacts ==
  ASSUME NEW E, \A e \in E : e.key \in Int, NEW m \in Seq(E)
  PROVE  /\ \A i \in 1 .. Len(m) : Rank(m, i) \in 1 .. Len(m)
         /\ \A i, j \in 1 .. Len(m) : Before(m, i, j) => Rank(m, i) < Rank(m, j)
         /\ \A i, j \in 1 .. Len(m) : Rank(m, i) = Rank(m, j) => i = j
         /\ \A p \in 1 .. Len(m) : \E i \in 1 .. Len(m) : Rank(m, i) = p
<1>1. PICK n \in Nat : n = Len(m) /\ DOMAIN m = 1 .. n
  BY LenProperties
<1>2. \A i \in 1 .. n : m[i].key \in Int
  BY <1>1
<1>3. IsFiniteSet(1 .. n) /\ Cardinality(1 .. n) = n
  BY FS_Interval
<1>4. \A i \in 1 .. n : /\ Ahead(m, i) \subseteq 1 .. n /\ i \notin Ahead(m, i)
                        /\ Rank(m, i) = 1 + Cardinality(Ahead(m, i))
  BY <1>1, <1>2 DEF Ahead, Before, Rank
<1>5. \A i \in 1 .. n : IsFiniteSet(Ahead(m, i)) /\ Cardinality(Ahead(m, i)) \in Nat
  <2> TAKE i \in 1 .. n
  <2>1. IsFiniteSet(Ahead(m, i))
    BY <1>3, <1>4, FS_Subset
  <2> QED
    BY <2>1, FS_CardinalityType
<1>6. ASSUME NEW i \in 1 .. n PROVE Rank(m, i) \in 1 .. n
  <2>1. Ahead(m, i) \in SUBSET ((1 .. n) \ {i})
    BY <1>4
  <2>2. IsFiniteSet((1 .. n) \ {i}) /\ Cardinality((1 .. n) \ {i}) = n - 1
    BY <1>3, FS_RemoveElement
  <2>3. Cardinality(Ahead(m, i)) <= n - 1
    BY <2>1, <2>2, FS_Subset
  <2> QED
    BY <1>4, <1>5, <2>3
<1>7. ASSUME NEW i \in 1 .. n, NEW j \in 1 .. n, Before(m, i, j) PROVE Rank(m, i) < Rank(m, j)
  <2>1. \A k \in 1 .. n : Before(m, k, i) => Before(m, k, j)
    BY <1>2, <1>7 DEF Before
  <2>2. Ahead(m, i) \cup {i} \in SUBSET Ahead(m, j)
    BY <1>1, <1>7, <2>1 DEF Ahead
  <2>3. Cardinality(Ahead(m, i) \cup {i}) = Cardinality(Ahead(m, i)) + 1
    BY <1>4, <1>5, FS_AddElement
  <2>4. Cardinality(Ahead(m, i) \cup {i}) <= Cardinality(Ahead(m, j))
    BY <1>5, <2>2, FS_Subset
  <2> QED
    BY <1>4, <1>5, <2>3, <2>4
<1>8. ASSUME NEW i \in 1 .. n, NEW j \in 1 .. n, Rank(m, i) = Rank(m, j) PROVE i = j
  <2>1. i = j \/ Before(m, i, j) \/ Before(m, j, i)
    BY <1>2 DEF Before
  <2>2. Rank(m, i) \in Int
    BY <1>6
  <2> QED
    BY <1>7, <1>8, <2>1, <2>2
<1> DEFINE f == [i \in 1 .. n |-> Rank(m, i)]
<1>9. f \in Injection(1 .. n, 1 .. n)
  <2>1. f \in [1 .. n -> 1 .. n]
    BY <1>6
  <2>2. \A a, b \in 1 .. n : f[a] = f[b] => a = b
    BY <1>8
  <2> HIDE DEF f
  <2> QED
    BY <2>1, <2>2 DEF Injection, IsInjective
<1>10. \A i \in 1 .. n : f[i] = Rank(m, i)
  OBVIOUS
<1> HIDE DEF f
<1>11. f \in Surjection(1 .. n, 1 .. n)
  BY <1>3, <1>9, FS_Injection
<1>12. ASSUME NEW p \in 1 .. n PROVE \E i \in 1 .. n : Rank(m, i) = p
  <2>1. PICK i \in 1 .. n : f[i] = p
    BY <1>11, Zenon DEF Surjection
  <2> QED
    BY <1>10, <2>1, Zenon
<1> QED
  BY <1>1, <1>6, <1>7, <1>8, <1>12

(* What sorting permutes. *)
Origin(m) == [p \in DOMAIN m |-> CHOOSE i \in DOMAIN m : Rank(m, i) = p]

(* Sorting is a permutation, and in the order of Before. *)
LEMMA SortFacts ==
  ASSUME NEW E, \A e \in E : e.key \in Int, NEW m \in Seq(E)
  PROVE  /\ SortedByKey(m) \in Seq(E) /\ Len(SortedByKey(m)) = Len(m)
         /\ Origin(m) \in [1 .. Len(m) -> 1 .. Len(m)]
         /\ \A p \in 1 .. Len(m) : SortedByKey(m)[p] = m[Origin(m)[p]]
         /\ \A i \in 1 .. Len(m) : \E p \in 1 .. Len(m) : Origin(m)[p] = i
         /\ \A p, q \in 1 .. Len(m) : p < q => Before(m, Origin(m)[p], Origin(m)[q])
<1>1. PICK n \in Nat : n = Len(m) /\ DOMAIN m = 1 .. n
  BY LenProperties
<1>2. /\ \A i \in 1 .. n : Rank(m, i) \in 1 .. n
      /\ \A i, j \in 1 .. n : Before(m, i, j) => Rank(m, i) < Rank(m, j)
      /\ \A i, j \in 1 .. n : Rank(m, i) = Rank(m, j) => i = j
      /\ \A p \in 1 .. n : \E i \in 1 .. n : Rank(m, i) = p
  BY <1>1, RankFacts
<1>3. \A p \in DOMAIN m : Origin(m)[p] = CHOOSE i \in DOMAIN m : Rank(m, i) = p
  BY Zenon DEF Origin
<1>4. \A p \in 1 .. n : Origin(m)[p] \in 1 .. n /\ Rank(m, Origin(m)[p]) = p
  <2>1. \A p \in DOMAIN m : \E i \in DOMAIN m : Rank(m, i) = p
    BY <1>1, <1>2
  <2>2. \A p \in DOMAIN m : Origin(m)[p] \in DOMAIN m /\ Rank(m, Origin(m)[p]) = p
    BY <1>3, <2>1, Zenon
  <2> QED
    BY <1>1, <2>2
<1>5. Origin(m) \in [1 .. n -> 1 .. n]
  <2>1. Origin(m) = [p \in DOMAIN m |-> Origin(m)[p]]
    BY DEF Origin
  <2> QED
    BY <1>1, <1>4, <2>1
<1>6. SortedByKey(m) = [p \in 1 .. n |-> m[Origin(m)[p]]]
  <2>1. \A p \in DOMAIN m : SortedByKey(m)[p] = m[CHOOSE i \in DOMAIN m : Rank(m, i) = p]
    BY Zenon DEF SortedByKey
  <2>2. \A p \in DOMAIN m : SortedByKey(m)[p] = m[Origin(m)[p]]
    BY <1>3, <2>1, Zenon
  <2>3. SortedByKey(m) = [p \in DOMAIN m |-> SortedByKey(m)[p]]
    BY DEF SortedByKey
  <2> QED
    BY <1>1, <2>2, <2>3
<1>7. \A p \in 1 .. n : m[Origin(m)[p]] \in E
  BY <1>1, <1>4
<1>8. SortedByKey(m) \in Seq(E) /\ Len(SortedByKey(m)) = n /\ \A p \in 1 .. n : SortedByKey(m)[p] = m[Origin(m)[p]]
  BY <1>6, <1>7, Z3
<1>9. ASSUME NEW i \in 1 .. n PROVE \E p \in 1 .. n : Origin(m)[p] = i
  <2>1. Rank(m, i) \in 1 .. n
    BY <1>2
  <2>2. Origin(m)[Rank(m, i)] = i
    BY <1>2, <1>4, <2>1
  <2> QED
    BY <2>1, <2>2
<1>10. \A i \in 1 .. n : m[i].key \in Int
  BY <1>1
<1>11. ASSUME NEW p \in 1 .. n, NEW q \in 1 .. n, p < q
       PROVE  Before(m, Origin(m)[p], Origin(m)[q])
  <2>1. PICK i \in 1 .. n, j \in 1 .. n : i = Origin(m)[p] /\ j = Origin(m)[q] /\ Rank(m, i) = p /\ Rank(m, j) = q
    BY <1>4
  <2>2. i = j \/ Before(m, i, j) \/ Before(m, j, i)
    BY <1>10 DEF Before
  <2>3. ~ (Rank(m, j) < Rank(m, i)) /\ Rank(m, i) # Rank(m, j)
    BY <1>11, <2>1
  <2> QED
    BY <1>2, <2>1, <2>2, <2>3
<1> QED
  BY <1>1, <1>5, <1>8, <1>9, <1>11

(* The elements that are sifted out of the first n. *)
Matches(s, part, values, n) == { j \in 1 .. n : s[j][part] \in values }

(* They keep their order. *)
Placed(s, part, values) ==
  /\ Len(Where(s, part, values)) = Cardinality(Matches(s, part, values, Len(s)))
  /\ \A i \in Matches(s, part, values, Len(s)) :
       Where(s, part, values)[Cardinality(Matches(s, part, values, i))] = s[i]
  /\ \A x \in 1 .. Len(Where(s, part, values)) :
       \E i \in Matches(s, part, values, Len(s)) : Cardinality(Matches(s, part, values, i)) = x

(* The elements that match, one element more at a time. *)
Counted(s, part, values, n) ==
  /\ IsFiniteSet(Matches(s, part, values, n))
  /\ Cardinality(Matches(s, part, values, n)) \in Nat
  /\ Cardinality(Matches(s, part, values, n) \cup {n + 1}) = Cardinality(Matches(s, part, values, n)) + 1
  /\ Matches(s, part, values, n + 1) =
       IF s[n + 1][part] \in values THEN Matches(s, part, values, n) \cup {n + 1}
       ELSE Matches(s, part, values, n)

(* The elements that match, of the first n and of one more. *)
LEMMA MatchesFacts ==
  ASSUME NEW s, NEW part, NEW values, NEW n \in Nat
  PROVE  Counted(s, part, values, n)
<1>1. IsFiniteSet(1 .. n) /\ Matches(s, part, values, n) \in SUBSET (1 .. n)
  BY FS_Interval DEF Matches
<1>2. IsFiniteSet(Matches(s, part, values, n))
  BY <1>1, FS_Subset
<1>3. Cardinality(Matches(s, part, values, n)) \in Nat
  BY <1>2, FS_CardinalityType
<1>4. Matches(s, part, values, n + 1) =
        IF s[n + 1][part] \in values THEN Matches(s, part, values, n) \cup {n + 1}
        ELSE Matches(s, part, values, n)
  <2>1. 1 .. n + 1 = (1 .. n) \cup {n + 1}
    OBVIOUS
  <2> QED
    BY <2>1, Zenon DEF Matches
<1>5. n + 1 \notin Matches(s, part, values, n)
  BY <1>1
<1>6. Cardinality(Matches(s, part, values, n) \cup {n + 1}) = Cardinality(Matches(s, part, values, n)) + 1
  BY <1>2, <1>5, FS_AddElement
<1> QED
  BY <1>2, <1>3, <1>4, <1>6, Zenon DEF Counted

(* Where numbers the matching elements in their order. *)
LEMMA WherePlaces ==
  ASSUME NEW S, NEW part, NEW values
  PROVE  \A s \in Seq(S) : Placed(s, part, values)
<1> DEFINE P == { s \in Seq(S) : Placed(s, part, values) }
<1>1. << >> \in P
  <2>1. << >> \in Seq(S) /\ Len(<< >>) = 0
    BY EmptySeq
  <2>2. Where(<< >>, part, values) = << >>
    BY <2>1, WhereFacts
  <2>3. Matches(<< >>, part, values, 0) = {}
    BY DEF Matches
  <2>4. Placed(<< >>, part, values)
    BY <2>1, <2>2, <2>3, FS_EmptySet DEF Placed
  <2> QED
    BY <2>1, <2>4
<1>2. ASSUME NEW s \in Seq(S), NEW e \in S, s \in P PROVE Append(s, e) \in P
  <2>1. PICK n \in Nat : n = Len(s)
    BY LenProperties
  <2>2. PICK u \in Seq(S) : u = Append(s, e) /\ Len(u) = n + 1 /\ (\A i \in 1 .. n : u[i] = s[i]) /\ u[n + 1] = e
    BY <2>1, AppendProperties
  <2>3. PICK w \in Seq(S), k \in Nat : w = Where(s, part, values) /\ k = Len(w)
    BY WhereFacts, LenProperties
  <2>4. Where(u, part, values) = IF e[part] \in values THEN Append(w, e) ELSE w
    BY <2>2, <2>3, WhereFacts
  <2>5. \A i \in 0 .. n : Matches(u, part, values, i) = Matches(s, part, values, i)
    <3> TAKE i \in 0 .. n
    <3>1. \A j \in 1 .. i : u[j] = s[j]
      BY <2>2
    <3> QED
      BY <3>1, Zenon DEF Matches
  <2>6. Placed(s, part, values)
    BY <1>2
  <2>7. /\ k = Cardinality(Matches(s, part, values, n))
        /\ \A i \in Matches(s, part, values, n) : w[Cardinality(Matches(s, part, values, i))] = s[i]
        /\ \A x \in 1 .. k :
             \E i \in Matches(s, part, values, n) : Cardinality(Matches(s, part, values, i)) = x
    BY <2>1, <2>3, <2>6, Zenon DEF Placed
  <2>8. /\ Matches(u, part, values, n) = Matches(s, part, values, n) /\ Matches(s, part, values, n) \subseteq 1 .. n
        /\ \A i \in Matches(s, part, values, n) :
              Matches(u, part, values, i) = Matches(s, part, values, i) /\ u[i] = s[i]
    <3>1. Matches(s, part, values, n) \subseteq 1 .. n
      BY DEF Matches
    <3>2. n \in 0 .. n /\ \A i \in 1 .. n : i \in 0 .. n
      OBVIOUS
    <3> QED
      BY <2>2, <2>5, <3>1, <3>2, Zenon
  <2>9. Counted(u, part, values, n)
    BY MatchesFacts
  <2>10. CASE e[part] \in values
    <3>1. PICK v \in Seq(S) : v = Append(w, e) /\ Len(v) = k + 1
                              /\ (\A x \in 1 .. k : v[x] = w[x]) /\ v[k + 1] = e
      BY <2>3, AppendProperties
    <3> USE <2>4, <2>10
    <3>0. v = Where(u, part, values)
      BY <3>1
    <3>2. Matches(u, part, values, n + 1) = Matches(s, part, values, n) \cup {n + 1}
      BY <2>2, <2>8, <2>9, <2>10 DEF Counted
    <3>3. Cardinality(Matches(u, part, values, n + 1)) = k + 1
      BY <2>2, <2>7, <2>8, <2>9, <2>10 DEF Counted
    <3>4. ASSUME NEW i \in Matches(s, part, values, n)
          PROVE  /\ Cardinality(Matches(u, part, values, i)) \in 1 .. k
                 /\ v[Cardinality(Matches(u, part, values, i))] = u[i]
      <4>1. i \in 1 .. n /\ Matches(u, part, values, i) = Matches(s, part, values, i) /\ u[i] = s[i]
        BY <2>8
      <4>2. i \in Matches(s, part, values, i) /\ Matches(s, part, values, i) \in SUBSET Matches(s, part, values, n)
        BY <4>1, <3>4 DEF Matches
      <4>3. IsFiniteSet(Matches(s, part, values, n)) /\ IsFiniteSet(Matches(s, part, values, i))
            /\ Cardinality(Matches(s, part, values, i)) \in Nat
        <5>1. i \in Nat
          BY <4>1
        <5> QED
          BY <5>1, <2>1, MatchesFacts, Zenon DEF Counted
      <4>4. Cardinality(Matches(s, part, values, i)) <= k
        BY <2>7, <4>2, <4>3, FS_Subset
      <4>5. Cardinality(Matches(s, part, values, i)) # 0
        BY <4>2, <4>3, FS_EmptySet
      <4>6. Cardinality(Matches(s, part, values, i)) \in 1 .. k
        BY <4>3, <4>4, <4>5
      <4> QED
        BY <2>7, <3>1, <4>1, <4>6
    <3>5. \A i \in Matches(u, part, values, n + 1) : v[Cardinality(Matches(u, part, values, i))] = u[i]
      BY <2>2, <3>1, <3>2, <3>3, <3>4
    <3>6. ASSUME NEW x \in 1 .. k + 1
          PROVE  \E i \in Matches(u, part, values, n + 1) : Cardinality(Matches(u, part, values, i)) = x
      <4>1. CASE x = k + 1
        BY <3>2, <3>3, <4>1
      <4>2. CASE x \in 1 .. k
        <5>1. PICK i \in Matches(s, part, values, n) : Cardinality(Matches(s, part, values, i)) = x
          BY <2>7, <4>2, Zenon
        <5>2. Matches(u, part, values, i) = Matches(s, part, values, i) /\ i \in Matches(u, part, values, n + 1)
          BY <2>8, <3>2
        <5> QED
          BY <5>1, <5>2, Zenon
      <4> QED
        BY <4>1, <4>2
    <3>7. Placed(u, part, values)
      BY <2>2, <3>1, <3>0, <3>3, <3>5, <3>6, Zenon DEF Placed
    <3> QED
      BY <2>2, <3>7
  <2>11. CASE e[part] \notin values
    <3>1. Matches(u, part, values, n + 1) = Matches(s, part, values, n) /\ Where(u, part, values) = w
      BY <2>2, <2>4, <2>8, <2>9, <2>11 DEF Counted
    <3>3. Matches(u, part, values, Len(u)) = Matches(s, part, values, n)
      BY <2>2, <3>1, Zenon
    <3>4. Len(Where(u, part, values)) = k /\ k = Cardinality(Matches(s, part, values, n))
      BY <2>3, <2>7, <3>1, Zenon
    <3>5. \A i \in Matches(s, part, values, n) :
            Where(u, part, values)[Cardinality(Matches(u, part, values, i))] = u[i]
      BY <2>7, <2>8, <3>1, Zenon
    <3>6. \A x \in 1 .. k :
            \E i \in Matches(s, part, values, n) : Cardinality(Matches(u, part, values, i)) = x
      BY <2>7, <2>8, Zenon
    <3>2. Placed(u, part, values)
      BY <3>3, <3>4, <3>5, <3>6, Zenon DEF Placed
    <3> QED
      BY <2>2, <3>2
  <2> QED
    BY <2>10, <2>11
<1>3. \A s \in Seq(S) : \A e \in S : s \in P => Append(s, e) \in P
  BY <1>2
<1>4. \A s \in P : Placed(s, part, values)
  OBVIOUS
<1> HIDE DEF P
<1>5. \A s \in Seq(S) : s \in P
  BY <1>1, <1>3, SeqInduction
<1> QED
  BY <1>4, <1>5

(* A map from one finite set onto another that tells all elements apart.   *)
LEMMA SameSize ==
  ASSUME NEW A, NEW B, IsFiniteSet(A), NEW f \in [A -> B],
         \A x, y \in A : f[x] = f[y] => x = y,
         \A b \in B : \E a \in A : f[a] = b
  PROVE  Cardinality(B) = Cardinality(A)
<1>1. f \in Injection(A, B)
  BY DEF Injection, IsInjective
<1>2. f \in Surjection(A, B)
  BY DEF Surjection
<1>3. ExistsBijection(A, B)
  BY <1>1, <1>2 DEF ExistsBijection, Bijection
<1> QED
  BY <1>3, FS_Bijection

(* The sort is stable: the entries of a key keep their order. *)
LEMMA SortKeepsValues ==
  ASSUME NEW E, \A e \in E : e.key \in Int, NEW m \in Seq(E), NEW k
  PROVE  ValuesOf(SortedByKey(m), k) = ValuesOf(m, k)
<1>1. PICK n \in Nat : n = Len(m)
  BY LenProperties
<1>2. PICK s \in Seq(E) : s = SortedByKey(m) /\ Len(s) = n
  BY <1>1, SortFacts
<1>3. PICK o \in [1 .. n -> 1 .. n] : o = Origin(m)
  BY <1>1, SortFacts
<1>4. /\ \A p \in 1 .. n : s[p] = m[o[p]]
      /\ \A i \in 1 .. n : \E p \in 1 .. n : o[p] = i
      /\ \A p, q \in 1 .. n : p < q => Before(m, o[p], o[q])
  <2>1. \A p \in 1 .. n : SortedByKey(m)[p] = m[Origin(m)[p]]
    BY <1>1, SortFacts
  <2>2. \A i \in 1 .. n : \E p \in 1 .. n : Origin(m)[p] = i
    BY <1>1, SortFacts
  <2>3. \A p, q \in 1 .. n : p < q => Before(m, Origin(m)[p], Origin(m)[q])
    BY <1>1, SortFacts
  <2> QED
    BY <1>2, <1>3, <2>1, <2>2, <2>3, Zenon
<1>5. \A i \in 1 .. n : m[i] \in E /\ m[i].key \in Int
  BY <1>1
<1> DEFINE A(i) == Matches(s, "key", {k}, i)
           B(i) == Matches(m, "key", {k}, i)
<1>6. /\ \A i \in 0 .. n : \A j : j \in A(i) <=> j \in 1 .. i /\ s[j].key = k
      /\ \A i \in 0 .. n : \A j : j \in B(i) <=> j \in 1 .. i /\ m[j].key = k
  BY DEF Matches
<1>7. \A i \in 0 .. n : IsFiniteSet(A(i))
  <2> TAKE i \in 0 .. n
  <2>1. i \in Nat
    OBVIOUS
  <2>2. Counted(s, "key", {k}, i)
    BY <2>1, MatchesFacts, Zenon
  <2> QED
    BY <2>2, Zenon DEF Counted
<1> HIDE DEF A, B
<1>0. n \in 0 .. n /\ \A i \in 1 .. n : i \in 0 .. n /\ o[i] \in 0 .. n
  OBVIOUS
<1>8. \A p \in A(n) : p \in 1 .. n /\ o[p] \in B(n)
  <2> SUFFICES ASSUME NEW p \in A(n) PROVE p \in 1 .. n /\ o[p] \in B(n)
    OBVIOUS
  <2>1. p \in 1 .. n /\ s[p].key = k
    BY <1>0, <1>6, Zenon
  <2>2. o[p] \in 1 .. n
    BY <2>1
  <2>3. m[o[p]].key = k
    BY <1>4, <2>1, Zenon
  <2> QED
    BY <1>0, <1>6, <2>1, <2>2, <2>3, Zenon
<1>9. \A p, q \in A(n) : p < q => o[p] < o[q]
  <2> SUFFICES ASSUME NEW p \in A(n), NEW q \in A(n), p < q PROVE o[p] < o[q]
    OBVIOUS
  <2>1. p \in 1 .. n /\ q \in 1 .. n /\ s[p].key = k /\ s[q].key = k
    BY <1>0, <1>6, Zenon
  <2>2. PICK i \in 1 .. n, j \in 1 .. n : i = o[p] /\ j = o[q]
    BY <2>1
  <2>3. m[i].key = k /\ m[j].key = k
    BY <1>4, <2>1, <2>2, Zenon
  <2>4. Before(m, i, j)
    BY <1>4, <2>1, <2>2
  <2>5. ~ (m[i].key < m[j].key)
    <3>1. PICK a \in Int : a = m[i].key
      BY <1>5
    <3>2. a = m[j].key /\ ~ (a < a)
      BY <2>3, <3>1
    <3> QED
      BY <3>1, <3>2, Zenon
  <2> QED
    BY <2>2, <2>4, <2>5 DEF Before
<1>21. \A p, q \in A(n) : o[p] = o[q] => p = q
  <2> SUFFICES ASSUME NEW p \in A(n), NEW q \in A(n), o[p] = o[q] PROVE p = q
    OBVIOUS
  <2>1. p \in 1 .. n /\ q \in 1 .. n
    BY <1>8, Zenon
  <2>2. PICK i \in 1 .. n : i = o[p] /\ i = o[q]
    BY <2>1
  <2>3. (p < q => i < i) /\ (q < p => i < i)
    BY <1>9, <2>2, Zenon
  <2> QED
    BY <2>1, <2>2, <2>3
<1>10. \A q \in B(n) : \E p \in A(n) : o[p] = q
  <2> SUFFICES ASSUME NEW q \in B(n) PROVE \E p \in A(n) : o[p] = q
    OBVIOUS
  <2>1. q \in 1 .. n /\ m[q].key = k
    BY <1>0, <1>6
  <2>2. PICK p \in 1 .. n : o[p] = q
    BY <1>0, <1>4, <2>1
  <2> QED
    BY <1>0, <1>4, <1>6, <2>1, <2>2
<1>11. ASSUME NEW i \in A(n) PROVE Cardinality(A(i)) = Cardinality(B(o[i]))
  <2>1. i \in 1 .. n /\ o[i] \in 1 .. n /\ o[i] \in B(n)
    BY <1>0, <1>6, <1>8
  <2>2. \A p \in A(i) : p \in A(n) /\ o[p] \in B(o[i])
    <3> SUFFICES ASSUME NEW p \in A(i) PROVE p \in A(n) /\ o[p] \in B(o[i])
      OBVIOUS
    <3>1. p \in A(n) /\ p \in 1 .. n /\ (p < i \/ p = i)
      <4>1. p \in 1 .. i /\ s[p].key = k
        BY <1>0, <1>6, <2>1, Zenon
      <4>2. p \in 1 .. n /\ (p < i \/ p = i)
        BY <2>1, <4>1
      <4> QED
        BY <1>0, <1>6, <4>1, <4>2, Zenon
    <3>2. o[p] \in B(n) /\ (o[p] < o[i] \/ o[p] = o[i])
      BY <1>0, <1>8, <1>9, <3>1
    <3> QED
      <4>1. o[p] \in 1 .. n /\ m[o[p]].key = k
        BY <1>0, <1>6, <3>2, Zenon
      <4>2. o[p] \in 1 .. o[i]
        <5>1. PICK a \in 1 .. n, b \in 1 .. n : a = o[p] /\ b = o[i]
          BY <2>1, <4>1
        <5>2. a < b \/ a = b
          BY <3>2, <5>1, Zenon
        <5>3. a \in 1 .. b
          BY <5>2
        <5> QED
          BY <5>1, <5>3, Zenon
      <4> QED
        BY <1>0, <1>6, <2>1, <3>1, <4>1, <4>2, Zenon
  <2>3. \A q \in B(o[i]) : \E p \in A(i) : o[p] = q
    <3> SUFFICES ASSUME NEW q \in B(o[i]) PROVE \E p \in A(i) : o[p] = q
      OBVIOUS
    <3>1. q \in B(n) /\ q <= o[i] /\ q \in 1 .. n
      <4>1. q \in 1 .. o[i] /\ m[q].key = k
        BY <1>0, <1>6, <2>1, Zenon
      <4>2. q \in 1 .. n /\ q <= o[i]
        BY <2>1, <4>1
      <4> QED
        BY <1>0, <1>6, <4>1, <4>2, Zenon
    <3>2. PICK p \in A(n) : o[p] = q
      BY <1>10, <3>1
    <3>3. p \in 1 .. n /\ ~ (i < p)
      <4>1. p \in 1 .. n
        BY <1>8, <3>2, Zenon
      <4>2. i < p => o[i] < o[p]
        BY <1>9, <3>2, Zenon
      <4> QED
        BY <2>1, <3>1, <3>2, <4>1, <4>2
    <3> QED
      <4>1. p \in 1 .. i
        BY <2>1, <3>3
      <4>2. s[p].key = k
        BY <1>0, <1>6, <3>2, Zenon
      <4> QED
        BY <1>0, <1>6, <2>1, <3>2, <4>1, <4>2, Zenon
  <2> DEFINE f == [p \in A(i) |-> o[p]]
  <2>4. f \in [A(i) -> B(o[i])]
    BY <2>2
  <2>5. \A p, q \in A(i) : f[p] = f[q] => p = q
    BY <1>21, <2>2
  <2>6. \A b \in B(o[i]) : \E a \in A(i) : f[a] = b
    BY <2>3
  <2>7. IsFiniteSet(A(i))
    BY <1>0, <1>7, <2>1
  <2> HIDE DEF f
  <2> QED
    BY <2>4, <2>5, <2>6, <2>7, SameSize
<1>12. Cardinality(A(n)) = Cardinality(B(n))
  <2> DEFINE f == [p \in A(n) |-> o[p]]
  <2>1. f \in [A(n) -> B(n)]
    BY <1>0, <1>8
  <2>2. \A p, q \in A(n) : f[p] = f[q] => p = q
    BY <1>21
  <2>3. \A b \in B(n) : \E a \in A(n) : f[a] = b
    BY <1>10
  <2>4. IsFiniteSet(A(n))
    BY <1>0, <1>7
  <2> HIDE DEF f
  <2> QED
    BY <2>1, <2>2, <2>3, <2>4, SameSize
<1>13. Placed(s, "key", {k}) /\ Placed(m, "key", {k})
  BY WherePlaces
<1>14. PICK v \in Seq(E) : v = ValuesOf(s, k)
  BY WhereFacts DEF ValuesOf
<1>15. PICK w \in Seq(E) : w = ValuesOf(m, k)
  BY WhereFacts DEF ValuesOf
<1>16. /\ Len(v) = Cardinality(A(n))
       /\ \A i \in A(n) : v[Cardinality(A(i))] = s[i]
       /\ \A x \in 1 .. Len(v) : \E i \in A(n) : Cardinality(A(i)) = x
  BY <1>2, <1>13, <1>14, Zenon DEF Placed, ValuesOf, A, B
<1>17. /\ Len(w) = Cardinality(B(n))
       /\ \A i \in B(n) : w[Cardinality(B(i))] = m[i]
  BY <1>0, <1>1, <1>13, <1>15, Zenon DEF Placed, ValuesOf, A, B
<1>18. Len(v) = Len(w)
  BY <1>12, <1>16, <1>17
<1>19. ASSUME NEW x \in 1 .. Len(v) PROVE v[x] = w[x]
  <2>1. PICK i \in A(n) : Cardinality(A(i)) = x
    BY <1>16, Zenon
  <2>2. i \in 1 .. n /\ o[i] \in B(n) /\ Cardinality(B(o[i])) = x
    BY <1>0, <1>8, <1>11, <2>1
  <2>3. v[x] = s[i] /\ w[x] = m[o[i]]
    BY <1>16, <1>17, <2>1, <2>2
  <2> QED
    BY <1>0, <1>4, <2>2, <2>3
<1>20. v = w
  BY <1>18, <1>19, SeqEqual
<1> QED
  BY <1>2, <1>14, <1>15, <1>20

-----------------------------------------------------------------------------
(* What occurrences mean *)

(* The types of what was set, and of what is built from it. *)
SetT   == [field : {"plain", "opt", "key", "value"}, value : Scalars]
(* Option<T>, a sequence of at most one T. *)
Options(S) == {<< >>} \union { <<x>> : x \in S }

(* The types of a nested message, of a map entry and of an occurrence. *)
ChildT == [plain : Scalars, opt : Options(Scalars)]
PairT  == [key : Scalars, value : Scalars]
Occ    == [field : AllFields, value : Scalars, trail : Seq(SetT)]

(* What the last of some records says. *)
LEMMA LastFacts ==
  ASSUME NEW S, NEW s \in Seq(S), NEW e \in S, NEW d
  PROVE  /\ LastOr(<< >>, d) = d
         /\ LastOr(Append(s, e), d) = e.value
         /\ LastIfAny(<< >>) = << >>
         /\ LastIfAny(Append(s, e)) = <<e.value>>
<1>1. Append(s, e) # << >> /\ Append(s, e)[Len(Append(s, e))] = e
  <2>1. Len(s) \in Nat /\ Append(s, e) \in Seq(S) /\ Len(Append(s, e)) = Len(s) + 1 /\ Append(s, e)[Len(s) + 1] = e
    BY LenProperties, AppendProperties
  <2> QED
    BY <2>1, EmptySeq
<1> QED
  BY <1>1, Zenon DEF LastOr, LastIfAny

(* The last value that was set, or the default, has its type. *)
LEMMA LastTyped ==
  ASSUME NEW S, \A e \in S : e.value \in Scalars, NEW s \in Seq(S), NEW d \in Scalars
  PROVE  /\ LastOr(s, d) \in Scalars
         /\ LastIfAny(s) \in Options(Scalars)
<1>1. CASE s = << >>
  BY <1>1 DEF LastOr, LastIfAny, Options
<1>2. CASE s # << >>
  <2>1. s[Len(s)] \in S
    BY <1>2, LenProperties, EmptySeq
  <2> QED
    BY <1>2, <2>1 DEF LastOr, LastIfAny, Options
<1> QED
  BY <1>1, <1>2

(* What was set of one field, in a trail with one setting more. *)
LEMMA OfFacts ==
  ASSUME NEW t \in Seq(SetT), NEW e \in SetT, NEW f
  PROVE  /\ Of(<< >>, f) = << >>
         /\ Of(t, f) \in Seq(SetT)
         /\ e.field = f => Of(Append(t, e), f) = Append(Of(t, f), e)
         /\ e.field # f => Of(Append(t, e), f) = Of(t, f)
<1>1. Where(Append(t, e), "field", {f}) =
        IF e.field \in {f} THEN Append(Where(t, "field", {f}), e) ELSE Where(t, "field", {f})
  <2>1. PICK part : part = "field"
    OBVIOUS
  <2>2. Where(Append(t, e), part, {f}) =
          IF e[part] \in {f} THEN Append(Where(t, part, {f}), e) ELSE Where(t, part, {f})
    BY WhereFacts
  <2> QED
    BY <2>1, <2>2
<1>2. Where(<< >>, "field", {f}) = << >> /\ Where(t, "field", {f}) \in Seq(SetT)
  BY WhereFacts
<1> QED
  BY <1>1, <1>2 DEF Of

(* What has been set in a nested message. *)
LEMMA ChildFacts ==
  ASSUME NEW t \in Seq(SetT), NEW e \in SetT
  PROVE  /\ ChildOf(<< >>) = NewChild
         /\ ChildOf(t) \in ChildT
         /\ e.field = "plain" => ChildOf(Append(t, e)) = [ChildOf(t) EXCEPT !.plain = e.value]
         /\ e.field = "opt" => ChildOf(Append(t, e)) = [ChildOf(t) EXCEPT !.opt = <<e.value>>]
<1>1. \A f : Of(<< >>, f) = << >> /\ Of(t, f) \in Seq(SetT)
  BY OfFacts
<1>2. \A d : LastOr(<< >>, d) = d /\ LastIfAny(<< >>) = << >>
  BY LastFacts
<1>3. ChildOf(<< >>) = NewChild
  BY <1>1, <1>2, Zenon DEF ChildOf, NewChild
<1>4. LastOr(Of(t, "plain"), 0) \in Scalars /\ LastIfAny(Of(t, "opt")) \in Options(Scalars)
  <2>1. \A x \in SetT : x.value \in Scalars
    BY DEF SetT
  <2>2. 0 \in Scalars
    BY ScalarAssumption DEF Scalars
  <2> QED
    BY <1>1, <2>1, <2>2, LastTyped
<1>5. ChildOf(t) \in ChildT
  BY <1>4 DEF ChildOf, ChildT
<1>6. ASSUME e.field = "plain" PROVE ChildOf(Append(t, e)) = [ChildOf(t) EXCEPT !.plain = e.value]
  <2>1. Of(Append(t, e), "plain") = Append(Of(t, "plain"), e) /\ Of(Append(t, e), "opt") = Of(t, "opt")
    BY <1>6, OfFacts
  <2>2. LastOr(Append(Of(t, "plain"), e), 0) = e.value
    BY <1>1, LastFacts
  <2>3. PICK p, q : p = LastOr(Of(t, "plain"), 0) /\ q = LastIfAny(Of(t, "opt"))
    OBVIOUS
  <2>4. ChildOf(t) = [plain |-> p, opt |-> q]
    BY <2>3, Zenon DEF ChildOf
  <2>5. ChildOf(Append(t, e)) = [plain |-> e.value, opt |-> q]
    BY <2>1, <2>2, <2>3, Zenon DEF ChildOf
  <2> QED
    BY <2>4, <2>5
<1>7. ASSUME e.field = "opt" PROVE ChildOf(Append(t, e)) = [ChildOf(t) EXCEPT !.opt = <<e.value>>]
  <2>1. Of(Append(t, e), "opt") = Append(Of(t, "opt"), e) /\ Of(Append(t, e), "plain") = Of(t, "plain")
    BY <1>7, OfFacts
  <2>2. LastIfAny(Append(Of(t, "opt"), e)) = <<e.value>>
    BY <1>1, LastFacts
  <2>3. PICK p, q : p = LastOr(Of(t, "plain"), 0) /\ q = LastIfAny(Of(t, "opt"))
    OBVIOUS
  <2>4. ChildOf(t) = [plain |-> p, opt |-> q]
    BY <2>3, Zenon DEF ChildOf
  <2>5. ChildOf(Append(t, e)) = [plain |-> p, opt |-> <<e.value>>]
    BY <2>1, <2>2, <2>3, Zenon DEF ChildOf
  <2> QED
    BY <2>4, <2>5
<1> QED
  BY <1>3, <1>5, <1>6, <1>7

(* What has been set in a map entry, with one setting more. *)
LEMMA PairFacts ==
  ASSUME NEW t \in Seq(SetT), NEW e \in SetT
  PROVE  /\ PairOf(<< >>) = NoFrame.pair
         /\ PairOf(t) \in PairT
         /\ e.field = "key" => PairOf(Append(t, e)) = [PairOf(t) EXCEPT !.key = e.value]
         /\ e.field = "value" => PairOf(Append(t, e)) = [PairOf(t) EXCEPT !.value = e.value]
<1>1. \A f : Of(<< >>, f) = << >> /\ Of(t, f) \in Seq(SetT)
  BY OfFacts
<1>2. \A d : LastOr(<< >>, d) = d
  BY LastFacts
<1>3. PairOf(<< >>) = NoFrame.pair
  BY <1>1, <1>2 DEF PairOf, NoFrame
<1>4. LastOr(Of(t, "key"), 0) \in Scalars /\ LastOr(Of(t, "value"), 0) \in Scalars
  <2>1. \A x \in SetT : x.value \in Scalars
    BY DEF SetT
  <2>2. 0 \in Scalars
    BY ScalarAssumption DEF Scalars
  <2> QED
    BY <1>1, <2>1, <2>2, LastTyped
<1>5. PairOf(t) \in PairT
  BY <1>4 DEF PairOf, PairT
<1>6. ASSUME e.field = "key" PROVE PairOf(Append(t, e)) = [PairOf(t) EXCEPT !.key = e.value]
  <2>1. Of(Append(t, e), "key") = Append(Of(t, "key"), e) /\ Of(Append(t, e), "value") = Of(t, "value")
    BY <1>6, OfFacts
  <2>2. LastOr(Append(Of(t, "key"), e), 0) = e.value
    BY <1>1, LastFacts
  <2>3. PICK p, q : p = LastOr(Of(t, "key"), 0) /\ q = LastOr(Of(t, "value"), 0)
    OBVIOUS
  <2>4. PairOf(t) = [key |-> p, value |-> q]
    BY <2>3, Zenon DEF PairOf
  <2>5. PairOf(Append(t, e)) = [key |-> e.value, value |-> q]
    BY <2>1, <2>2, <2>3, Zenon DEF PairOf
  <2> QED
    BY <2>4, <2>5
<1>7. ASSUME e.field = "value" PROVE PairOf(Append(t, e)) = [PairOf(t) EXCEPT !.value = e.value]
  <2>1. Of(Append(t, e), "value") = Append(Of(t, "value"), e) /\ Of(Append(t, e), "key") = Of(t, "key")
    BY <1>7, OfFacts
  <2>2. LastOr(Append(Of(t, "value"), e), 0) = e.value
    BY <1>1, LastFacts
  <2>3. PICK p, q : p = LastOr(Of(t, "key"), 0) /\ q = LastOr(Of(t, "value"), 0)
    OBVIOUS
  <2>4. PairOf(t) = [key |-> p, value |-> q]
    BY <2>3, Zenon DEF PairOf
  <2>5. PairOf(Append(t, e)) = [key |-> p, value |-> e.value]
    BY <2>1, <2>2, <2>3, Zenon DEF PairOf
  <2> QED
    BY <2>4, <2>5
<1> QED
  BY <1>3, <1>5, <1>6, <1>7

(* The sequences of values, messages and pairs that occurrences stand for. *)
ValuesIn(s) == [i \in DOMAIN s |-> s[i].value]
ItemsIn(s)  == [i \in DOMAIN s |-> ChildOf(s[i].trail)]
PairsIn(s)  == [i \in DOMAIN s |-> PairOf(s[i].trail)]

(* One occurrence more is one value, one message or one pair more. *)
LEMMA MapFacts ==
  ASSUME NEW s \in Seq(Occ), NEW o \in Occ
  PROVE  /\ ValuesIn(<< >>) = << >> /\ ValuesIn(s) \in Seq(Scalars)
         /\ ValuesIn(Append(s, o)) = Append(ValuesIn(s), o.value)
         /\ ItemsIn(<< >>) = << >> /\ ItemsIn(s) \in Seq(ChildT)
         /\ ItemsIn(Append(s, o)) = Append(ItemsIn(s), ChildOf(o.trail))
         /\ PairsIn(<< >>) = << >> /\ PairsIn(s) \in Seq(PairT)
         /\ PairsIn(Append(s, o)) = Append(PairsIn(s), PairOf(o.trail))
<1>1. PICK n \in Nat : n = Len(s) /\ DOMAIN s = 1 .. n
  BY LenProperties
<1>2. PICK u \in Seq(Occ) : u = Append(s, o) /\ Len(u) = n + 1
                            /\ (\A i \in 1 .. n : u[i] = s[i]) /\ u[n + 1] = o
  BY <1>1, AppendProperties
<1>3. DOMAIN u = 1 .. n + 1
  BY <1>2, LenProperties
<1>4. \A i \in 1 .. n : s[i].value \in Scalars /\ s[i].trail \in Seq(SetT)
  <2>1. \A i \in 1 .. n : s[i] \in Occ
    BY <1>1
  <2> QED
    BY <2>1 DEF Occ
<1>5. \A i \in 1 .. n : ChildOf(s[i].trail) \in ChildT /\ PairOf(s[i].trail) \in PairT
  <2>1. [field |-> "key", value |-> 0] \in SetT
    BY ScalarAssumption DEF SetT, Scalars
  <2> QED
    BY <1>4, <2>1, ChildFacts, PairFacts
<1>6. ValuesIn(<< >>) = << >> /\ ItemsIn(<< >>) = << >> /\ PairsIn(<< >>) = << >>
  BY DEF ValuesIn, ItemsIn, PairsIn
<1>7. ValuesIn(s) \in Seq(Scalars) /\ Append(ValuesIn(s), o.value) = ValuesIn(u)
  <2>0. ValuesIn(s) \in Seq(Scalars) /\ Len(ValuesIn(s)) = n /\ \A i \in 1 .. n : ValuesIn(s)[i] = s[i].value
    BY <1>1, <1>4, Z3 DEF ValuesIn
  <2>1. PICK v \in Seq(Scalars) : v = ValuesIn(s) /\ Len(v) = n /\ \A i \in 1 .. n : v[i] = s[i].value
    BY <2>0
  <2>2. ValuesIn(u) = [i \in 1 .. n + 1 |-> u[i].value]
    BY <1>3 DEF ValuesIn
  <2> QED
    BY <1>2, <2>1, <2>2
<1>8. ItemsIn(s) \in Seq(ChildT) /\ Append(ItemsIn(s), ChildOf(o.trail)) = ItemsIn(u)
  <2>0. ItemsIn(s) \in Seq(ChildT) /\ Len(ItemsIn(s)) = n /\ \A i \in 1 .. n : ItemsIn(s)[i] = ChildOf(s[i].trail)
    BY <1>1, <1>5, Z3 DEF ItemsIn
  <2>1. PICK v \in Seq(ChildT) : v = ItemsIn(s) /\ Len(v) = n /\ \A i \in 1 .. n : v[i] = ChildOf(s[i].trail)
    BY <2>0
  <2>2. ItemsIn(u) = [i \in 1 .. n + 1 |-> ChildOf(u[i].trail)]
    BY <1>3 DEF ItemsIn
  <2> QED
    BY <1>2, <2>1, <2>2
<1>9. PairsIn(s) \in Seq(PairT) /\ Append(PairsIn(s), PairOf(o.trail)) = PairsIn(u)
  <2>0. PairsIn(s) \in Seq(PairT) /\ Len(PairsIn(s)) = n /\ \A i \in 1 .. n : PairsIn(s)[i] = PairOf(s[i].trail)
    BY <1>1, <1>5, Z3 DEF PairsIn
  <2>1. PICK v \in Seq(PairT) : v = PairsIn(s) /\ Len(v) = n /\ \A i \in 1 .. n : v[i] = PairOf(s[i].trail)
    BY <2>0
  <2>2. PairsIn(u) = [i \in 1 .. n + 1 |-> PairOf(u[i].trail)]
    BY <1>3 DEF PairsIn
  <2> QED
    BY <1>2, <2>1, <2>2
<1> QED
  BY <1>2, <1>6, <1>7, <1>8, <1>9

(* A bounded, nonempty set of natural numbers has a greatest element. *)
LEMMA GreatestElement ==
  ASSUME NEW N \in Nat, NEW S \in SUBSET (0 .. N), S # {}
  PROVE  \E x \in S : \A y \in S : y <= x
<1> DEFINE T == { N - x : x \in S }
<1>1. T \in SUBSET Nat /\ T # {}
  <2>1. \A x \in S : N - x \in Nat
    OBVIOUS
  <2>2. PICK z : z \in S
    OBVIOUS
  <2>3. N - z \in T
    BY <2>2
  <2>4. T \in SUBSET Nat
    BY <2>1
  <2> QED
    BY <2>3, <2>4
<1>2. PICK t \in T : \A y \in T : t <= y
  BY <1>1, LeastElement
<1>3. PICK x \in S : t = N - x
  OBVIOUS
<1>4. \A y \in S : N - x <= N - y
  BY <1>2, <1>3
<1> QED
  BY <1>4

(* Where the last run of equal fields starts. *)
RunFrom(s, c) ==
  /\ c \in 0 .. Len(s) - 1
  /\ c = 0 \/ s[c].field # s[Len(s)].field
  /\ \A i \in c + 1 .. Len(s) : s[i].field = s[Len(s)].field

(* SinceSwitch is the last run of equal fields. *)
LEMMA SwitchFacts ==
  ASSUME NEW S, NEW s \in Seq(S), s # << >>
  PROVE  \E c \in Nat : SinceSwitch(s) = SubSeq(s, 1 + c, Len(s)) /\ RunFrom(s, c)
<1>1. PICK n \in Nat : n = Len(s) /\ DOMAIN s = 1 .. n /\ n # 0
  BY LenProperties, EmptySeq
<1> DEFINE W == {0} \union { i \in DOMAIN s : s[i].field # s[Len(s)].field }
<1>2. W \in SUBSET (0 .. n - 1) /\ n - 1 \in Nat /\ 0 \in W
  BY <1>1
<1>3. \E x \in W : \A y \in W : y <= x
  BY <1>2, GreatestElement
<1>4. PICK c \in W : /\ \A y \in W : y <= c
                     /\ SinceSwitch(s) = SubSeq(s, 1 + c, Len(s))
  <2> DEFINE C == CHOOSE i \in W : \A j \in W : j <= i
  <2>1. C \in W /\ \A y \in W : y <= C
    BY <1>3, Zenon
  <2>2. SinceSwitch(s) = SubSeq(s, 1 + C, Len(s))
    BY Zenon DEF SinceSwitch
  <2> QED
    BY <2>1, <2>2, Zenon
<1>5. c \in 0 .. n - 1 /\ (c = 0 \/ s[c].field # s[Len(s)].field)
  BY <1>2
<1>6. \A i \in c + 1 .. n : s[i].field = s[Len(s)].field
  <2> SUFFICES ASSUME NEW i \in c + 1 .. n, s[i].field # s[Len(s)].field PROVE FALSE
    OBVIOUS
  <2>1. i \in 1 .. n /\ ~ (i <= c)
    BY <1>5
  <2>2. i \in W
    BY <1>1, <2>1
  <2> QED
    BY <1>4, <2>1, <2>2
<1> QED
  <2>1. RunFrom(s, c)
    BY <1>1, <1>5, <1>6 DEF RunFrom
  <2>2. c \in Nat
    BY <1>5
  <2> QED
    BY <1>4, <2>1, <2>2, Zenon

(* The last run goes on, or a new one starts. *)
LEMMA SwitchGrows ==
  ASSUME NEW S, NEW s \in Seq(S), NEW o \in S
  PROVE  /\ s = << >> => SinceSwitch(Append(s, o)) = <<o>>
         /\ s # << >> /\ s[Len(s)].field # o.field => SinceSwitch(Append(s, o)) = <<o>>
         /\ s # << >> /\ s[Len(s)].field = o.field =>
              /\ SinceSwitch(s) \in Seq(S)
              /\ SinceSwitch(Append(s, o)) = Append(SinceSwitch(s), o)
<1>1. PICK n \in Nat : n = Len(s) /\ DOMAIN s = 1 .. n /\ (s = << >> => n = 0) /\ (s # << >> => n # 0)
  BY LenProperties, EmptySeq
<1>2. PICK u \in Seq(S) : u = Append(s, o) /\ Len(u) = n + 1
                          /\ (\A i \in 1 .. n : u[i] = s[i]) /\ u[n + 1] = o
  <2>1. n = Len(s)
    BY <1>1
  <2> QED
    BY <2>1, AppendProperties
<1>3. u # << >>
  BY <1>2, EmptySeq
<1>4. PICK d \in Nat : SinceSwitch(u) = SubSeq(u, 1 + d, Len(u)) /\ RunFrom(u, d)
  BY <1>3, SwitchFacts
<1>5. /\ d \in 0 .. n
      /\ d = 0 \/ u[d].field # o.field
      /\ \A i \in d + 1 .. n + 1 : u[i].field = o.field
  BY <1>2, <1>4 DEF RunFrom
<1>6. ASSUME d = n PROVE SinceSwitch(u) = <<o>>
  <2>1. SubSeq(u, n + 1, n + 1) = <<o>>
    <3>1. \A i \in n + 1 .. n + 1 : u[i] \in S
      BY <1>2
    <3>2. SubSeq(u, n + 1, n + 1) \in Seq(S) /\ Len(SubSeq(u, n + 1, n + 1)) = 1
          /\ SubSeq(u, n + 1, n + 1)[1] = u[n + 1]
      BY <3>1, SubSeqProperties
    <3>3. <<o>> \in Seq(S) /\ Len(<<o>>) = 1 /\ <<o>>[1] = o
      OBVIOUS
    <3>4. \A i \in 1 .. 1 : SubSeq(u, n + 1, n + 1)[i] = <<o>>[i]
      BY <1>2, <3>2, <3>3
    <3> QED
      BY <3>2, <3>3, <3>4, SeqEqual
  <2> QED
    BY <1>2, <1>4, <1>6, <2>1
<1>7. CASE s = << >>
  BY <1>1, <1>2, <1>5, <1>6, <1>7
<1>8. CASE s # << >> /\ s[Len(s)].field # o.field
  <2>1. n \in 1 .. n /\ u[n].field # o.field
    BY <1>1, <1>2, <1>8
  <2>2. d = n
    BY <1>5, <2>1
  <2> QED
    BY <1>2, <1>6, <1>8, <2>2
<1>9. CASE s # << >> /\ s[Len(s)].field = o.field
  <2>1. PICK c \in Nat : SinceSwitch(s) = SubSeq(s, 1 + c, Len(s)) /\ RunFrom(s, c)
    BY <1>9, SwitchFacts
  <2>2. /\ c \in 0 .. n - 1
        /\ c = 0 \/ s[c].field # o.field
        /\ \A i \in c + 1 .. n : s[i].field = o.field
    BY <1>1, <1>9, <2>1 DEF RunFrom
  <2>3. c = d
    <3>1. ~ (c < d)
      <4> SUFFICES ASSUME c < d PROVE FALSE
        OBVIOUS
      <4>1. d \in 1 .. n /\ d \in c + 1 .. n
        BY <1>5, <2>2
      <4> QED
        BY <1>2, <1>5, <2>2, <4>1
    <3>2. ~ (d < c)
      <4> SUFFICES ASSUME d < c PROVE FALSE
        OBVIOUS
      <4>1. c \in 1 .. n /\ c \in d + 1 .. n + 1
        BY <1>5, <2>2
      <4> QED
        BY <1>2, <1>5, <2>2, <4>1
    <3> QED
      BY <3>1, <3>2
  <2>4. PICK k \in Nat : k = n - c
    BY <2>2
  <2>5. PICK r \in Seq(S) : r = SubSeq(s, 1 + c, n) /\ Len(r) = k /\ \A i \in 1 .. k : r[i] = s[c + i]
    <3>1. \A i \in 1 + c .. n : s[i] \in S
      BY <1>1
    <3>2. 1 + c \in Int /\ n \in Int /\ 1 + c <= n /\ n - (1 + c) + 1 = k
      BY <2>2, <2>4
    <3>3. /\ SubSeq(s, 1 + c, n) \in Seq(S)
          /\ Len(SubSeq(s, 1 + c, n)) = n - (1 + c) + 1
          /\ \A i \in 1 .. n - (1 + c) + 1 : SubSeq(s, 1 + c, n)[i] = s[(1 + c) + i - 1]
      BY <3>1, <3>2, SubSeqProperties
    <3>4. \A i \in 1 .. k : (1 + c) + i - 1 = c + i
      OBVIOUS
    <3>5. SubSeq(s, 1 + c, n) \in Seq(S) /\ Len(SubSeq(s, 1 + c, n)) = k
      BY <3>2, <3>3, Zenon
    <3>6. \A i \in 1 .. k : SubSeq(s, 1 + c, n)[i] = s[c + i]
      BY <3>2, <3>3, <3>4, Zenon
    <3> QED
      BY <3>5, <3>6, Zenon
  <2>6. PICK w \in Seq(S) : w = SubSeq(u, 1 + c, n + 1) /\ Len(w) = k + 1 /\ \A i \in 1 .. k + 1 : w[i] = u[c + i]
    <3>1. \A i \in 1 + c .. n + 1 : u[i] \in S
      BY <1>2
    <3>2. 1 + c \in Int /\ n + 1 \in Int /\ 1 + c <= n + 1 /\ (n + 1) - (1 + c) + 1 = k + 1
      BY <2>2, <2>4
    <3>3. /\ SubSeq(u, 1 + c, n + 1) \in Seq(S)
          /\ Len(SubSeq(u, 1 + c, n + 1)) = (n + 1) - (1 + c) + 1
          /\ \A i \in 1 .. (n + 1) - (1 + c) + 1 : SubSeq(u, 1 + c, n + 1)[i] = u[(1 + c) + i - 1]
      BY <3>1, <3>2, SubSeqProperties
    <3>4. \A i \in 1 .. k + 1 : (1 + c) + i - 1 = c + i
      OBVIOUS
    <3>5. SubSeq(u, 1 + c, n + 1) \in Seq(S) /\ Len(SubSeq(u, 1 + c, n + 1)) = k + 1
      BY <3>2, <3>3, Zenon
    <3>6. \A i \in 1 .. k + 1 : SubSeq(u, 1 + c, n + 1)[i] = u[c + i]
      BY <3>2, <3>3, <3>4, Zenon
    <3> QED
      BY <3>5, <3>6, Zenon
  <2>7. PICK v \in Seq(S) : v = Append(r, o) /\ Len(v) = k + 1 /\ (\A i \in 1 .. k : v[i] = r[i]) /\ v[k + 1] = o
    <3>1. r \in Seq(S) /\ Len(r) = k
      BY <2>5
    <3> QED
      BY <3>1, AppendProperties
  <2>8. \A i \in 1 .. Len(v) : v[i] = w[i]
    <3> SUFFICES ASSUME NEW i \in 1 .. k + 1 PROVE v[i] = w[i]
      BY <2>7
    <3>1. CASE i = k + 1
      <4>1. c + i = n + 1
        BY <2>4, <3>1
      <4> QED
        BY <1>2, <2>6, <2>7, <3>1, <4>1
    <3>2. CASE i \in 1 .. k
      <4>1. c + i \in 1 .. n
        BY <2>2, <2>4, <3>2
      <4> QED
        <5>1. u[c + i] = s[c + i]
          BY <1>2, <4>1, Zenon
        <5>2. v[i] = r[i] /\ r[i] = s[c + i]
          BY <2>5, <2>7, <3>2, Zenon
        <5>3. w[i] = u[c + i]
          BY <2>6, Zenon
        <5> QED
          BY <5>1, <5>2, <5>3, Zenon
    <3> QED
      BY <3>1, <3>2
  <2>9. v = w
    BY <2>6, <2>7, <2>8, SeqEqual
  <2>10. SinceSwitch(s) = r /\ SinceSwitch(u) = w
    BY <1>1, <1>2, <1>4, <2>1, <2>3, <2>5, <2>6, Zenon
  <2> QED
    BY <1>2, <1>9, <2>5, <2>7, <2>9, <2>10, Zenon
<1> QED
  BY <1>7, <1>8, <1>9

-----------------------------------------------------------------------------
(* What one more occurrence does to a builder *)

(* The variants of the oneof. *)
OneOf == {"number", "message", "group"}

(* The occurrences of some fields. *)
Those(l, fields) == Where(l, "field", fields)

(* What the next occurrence of a nested message is merged into. *)
Base(field, l) ==
  IF field \in {"must", "child"} THEN Trails(Those(l, {field}))
  ELSE IF field \in OneOf /\ Those(l, OneOf) # << >> /\ Those(l, OneOf)[Len(Those(l, OneOf))].field = field
       THEN Trails(SinceSwitch(Those(l, OneOf)))
  ELSE << >>

(* A builder b holds, field by field, what the occurrences l mean. *)
PlainIs(b, l, e) == b.plain = LastOr(Those(l, {"plain"}), New(e).plain)
OptIs(b, l)      == b.opt = LastIfAny(Those(l, {"opt"}))
ListIs(b, l)     == b.list = ValuesIn(Those(l, {"list"}))
MustIs(b, l)     == b.must = ChildOf(Trails(Those(l, {"must"})))
ChildIs(b, l)    == b.child = IF Those(l, {"child"}) = << >> THEN << >>
                              ELSE <<ChildOf(Trails(Those(l, {"child"})))>>
ItemIs(b, l)     == b.item = ItemsIn(Those(l, {"item"}))
ChoiceIs(b, l)   == /\ b.choice = ChoiceOf(Those(l, OneOf))
                    /\ b.choice.variant = "number" => b.choice.message = NewChild
MapIs(b, l)      == \A k \in Scalars : ValuesOf(b.map, k) = ValuesOf(PairsIn(Those(l, {"entry"})), k)

(* All but the optional message, which a merge takes out of the builder.   *)
OthersAre(b, l, e) ==
  PlainIs(b, l, e) /\ OptIs(b, l) /\ ListIs(b, l) /\ MustIs(b, l) /\ ItemIs(b, l)
  /\ ChoiceIs(b, l) /\ MapIs(b, l)

(* c is b after one more occurrence.                                       *)
Merges(b, c, l, o) ==
  /\ c.plain = IF o.field = "plain" THEN o.value ELSE b.plain
  /\ c.opt   = IF o.field = "opt" THEN <<o.value>> ELSE b.opt
  /\ c.list  = IF o.field = "list" THEN Append(b.list, o.value) ELSE b.list
  /\ c.must  = IF o.field = "must" THEN ChildOf(Base("must", l) \o o.trail) ELSE b.must
  /\ c.child = IF o.field = "child" THEN <<ChildOf(Base("child", l) \o o.trail)>> ELSE b.child
  /\ c.item  = IF o.field = "item" THEN Append(b.item, ChildOf(o.trail)) ELSE b.item
  /\ o.field \notin OneOf => c.choice = b.choice
  /\ o.field = "number" => /\ o.trail = << >>
                           /\ c.choice = [variant |-> "number", number |-> o.value, message |-> NewChild]
  /\ o.field \in {"message", "group"} =>
       /\ o.value = 0
       /\ c.choice = [variant |-> o.field, number |-> 0, message |-> ChildOf(Base(o.field, l) \o o.trail)]
  /\ c.map   = IF o.field = "entry" THEN Append(b.map, PairOf(o.trail)) ELSE b.map

(* The occurrences of some fields, with one occurrence more. *)
LEMMA ThoseFacts ==
  ASSUME NEW l \in Seq(Occ), NEW o \in Occ, NEW fields
  PROVE  /\ Those(<< >>, fields) = << >>
         /\ Those(l, fields) \in Seq(Occ)
         /\ o.field \in fields => Those(Append(l, o), fields) = Append(Those(l, fields), o)
         /\ o.field \notin fields => Those(Append(l, o), fields) = Those(l, fields)
<1>1. PICK part : part = "field"
  OBVIOUS
<1>2. Where(Append(l, o), part, fields) =
        IF o[part] \in fields THEN Append(Where(l, part, fields), o) ELSE Where(l, part, fields)
  BY WhereFacts
<1>3. Where(<< >>, "field", fields) = << >> /\ Where(l, "field", fields) \in Seq(Occ)
  BY WhereFacts
<1> QED
  BY <1>1, <1>2, <1>3 DEF Those

(* The settings within the occurrences of some fields, with one more. *)
LEMMA OccTrails ==
  ASSUME NEW s \in Seq(Occ), NEW o \in Occ
  PROVE  /\ Trails(<< >>) = << >> /\ Trails(s) \in Seq(SetT)
         /\ Trails(Append(s, o)) = Trails(s) \o o.trail
<1>1. \A x \in Occ : x.trail \in Seq(SetT)
  BY DEF Occ
<1> QED
  BY <1>1, TrailsFacts

(* What a nested message is merged into has its type. *)
LEMMA BaseTyped ==
  ASSUME NEW l \in Seq(Occ), NEW f
  PROVE  Base(f, l) \in Seq(SetT)
<1>0. PICK o \in Occ : o = [field |-> "plain", value |-> 0, trail |-> << >>]
  <2>1. 0 \in Scalars /\ << >> \in Seq(SetT)
    BY ScalarAssumption, EmptySeq DEF Scalars
  <2> QED
    BY <2>1 DEF Occ, AllFields
<1>1. \A F : Those(l, F) \in Seq(Occ)
  BY <1>0, ThoseFacts
<1>2. \A s \in Seq(Occ) : Trails(s) \in Seq(SetT)
  BY <1>0, OccTrails
<1>3. PICK s \in Seq(Occ) : s = Those(l, OneOf)
  BY <1>1
<1>4. ASSUME s # << >> PROVE SinceSwitch(s) \in Seq(Occ)
  <2>1. s[Len(s)] \in Occ
    BY <1>4, LenProperties, EmptySeq
  <2> QED
    BY <1>4, <2>1, SwitchGrows
<1>5. << >> \in Seq(SetT)
  BY EmptySeq
<1> QED
  BY <1>1, <1>2, <1>3, <1>4, <1>5, Zenon DEF Base

(* What a oneof is after one occurrence more of a variant: a message of *)
(* the variant it has is merged into, any other variant starts anew.    *)
LEMMA ChoiceGrows ==
  ASSUME NEW l \in Seq(Occ), NEW o \in Occ, o.field \in OneOf
  PROVE  ChoiceOf(Those(Append(l, o), OneOf)) =
           [variant |-> o.field, number |-> o.value, message |-> ChildOf(Base(o.field, l) \o o.trail)]
<1>1. PICK s \in Seq(Occ) : s = Those(l, OneOf) /\ Those(Append(l, o), OneOf) = Append(s, o)
  BY ThoseFacts
<1>2. PICK u \in Seq(Occ) : u = Append(s, o) /\ u # << >> /\ u[Len(u)] = o
  <2>1. Len(s) \in Nat /\ Append(s, o) \in Seq(Occ) /\ Len(Append(s, o)) = Len(s) + 1 /\ Append(s, o)[Len(s) + 1] = o
    BY LenProperties, AppendProperties
  <2>2. Append(s, o) # << >> /\ Append(s, o)[Len(Append(s, o))] = o
    BY <2>1, EmptySeq
  <2> QED
    BY <2>1, <2>2
<1>3. Trails(SinceSwitch(u)) = Base(o.field, l) \o o.trail
  <2>1. << >> \in Seq(Occ) /\ Append(<< >>, o) = <<o>>
    BY EmptySeq
  <2>2. Trails(<<o>>) = << >> \o o.trail
    <3>1. Trails(Append(<< >>, o)) = Trails(<< >>) \o o.trail
      BY <2>1, OccTrails
    <3>2. Trails(<< >>) = << >>
      BY <2>1, OccTrails
    <3> QED
      BY <2>1, <3>1, <3>2, Zenon
  <2>3. o.field \notin {"must", "child"}
    BY DEF OneOf
  <2>4. CASE s = << >>
    <3>1. SinceSwitch(u) = <<o>>
      BY <1>2, <2>4, SwitchGrows
    <3>2. Base(o.field, l) = << >>
      BY <1>1, <2>3, <2>4, Zenon DEF Base
    <3> QED
      BY <2>2, <3>1, <3>2, Zenon
  <2>5. CASE s # << >> /\ s[Len(s)].field # o.field
    <3>1. SinceSwitch(u) = <<o>>
      BY <1>2, <2>5, SwitchGrows
    <3>2. Base(o.field, l) = << >>
      BY <1>1, <2>3, <2>5, Zenon DEF Base
    <3> QED
      BY <2>2, <3>1, <3>2, Zenon
  <2>6. CASE s # << >> /\ s[Len(s)].field = o.field
    <3>1. SinceSwitch(s) \in Seq(Occ) /\ SinceSwitch(u) = Append(SinceSwitch(s), o)
      BY <1>2, <2>6, SwitchGrows
    <3>2. Base(o.field, l) = Trails(SinceSwitch(s))
      BY <1>1, <2>3, <2>6, Zenon DEF Base
    <3>3. Trails(Append(SinceSwitch(s), o)) = Trails(SinceSwitch(s)) \o o.trail
      BY <3>1, OccTrails
    <3> QED
      BY <3>1, <3>2, <3>3, Zenon
  <2> QED
    BY <2>4, <2>5, <2>6
<1> QED
  BY <1>1, <1>2, <1>3, Zenon DEF ChoiceOf

(* One more occurrence changes the field it is of, and no other. *)
LEMMA MergeOne ==
  ASSUME NEW l \in Seq(Occ), NEW o \in Occ, NEW b, NEW c, NEW e,
         b.map \in Seq(PairT), OthersAre(b, l, e), o.field # "child" => ChildIs(b, l),
         Merges(b, c, l, o)
  PROVE  OthersAre(c, Append(l, o), e) /\ ChildIs(c, Append(l, o))
<1>1. PICK k \in Seq(Occ) : k = Append(l, o)
  BY AppendProperties
<1>2. \A F : o.field \in F => Those(k, F) = Append(Those(l, F), o)
  BY <1>1, ThoseFacts
<1>3. \A F : o.field \notin F => Those(k, F) = Those(l, F)
  BY <1>1, ThoseFacts
<1>4. \A F : Those(l, F) \in Seq(Occ)
  BY ThoseFacts
<1>5. PlainIs(c, k, e)
  <2>1. CASE o.field = "plain"
    <3>1. Those(k, {"plain"}) = Append(Those(l, {"plain"}), o)
      BY <1>2, <2>1
    <3>2. \A d : LastOr(Append(Those(l, {"plain"}), o), d) = o.value
      <4>1. Those(l, {"plain"}) \in Seq(Occ)
        BY <1>4
      <4> QED
        BY <4>1, LastFacts, Zenon
    <3> QED
      BY <2>1, <3>1, <3>2, Zenon DEF PlainIs, Merges
  <2>2. CASE o.field # "plain"
    <3>1. Those(k, {"plain"}) = Those(l, {"plain"})
      BY <1>3, <2>2
    <3> QED
      BY <2>2, <3>1, Zenon DEF PlainIs, Merges, OthersAre
  <2> QED
    BY <2>1, <2>2
<1>6. OptIs(c, k)
  <2>1. CASE o.field = "opt"
    <3>1. Those(k, {"opt"}) = Append(Those(l, {"opt"}), o)
      BY <1>2, <2>1
    <3>2. LastIfAny(Append(Those(l, {"opt"}), o)) = <<o.value>>
      <4>1. Those(l, {"opt"}) \in Seq(Occ)
        BY <1>4
      <4> QED
        BY <4>1, LastFacts, Zenon
    <3> QED
      BY <2>1, <3>1, <3>2, Zenon DEF OptIs, Merges
  <2>2. CASE o.field # "opt"
    <3>1. Those(k, {"opt"}) = Those(l, {"opt"})
      BY <1>3, <2>2
    <3> QED
      BY <2>2, <3>1, Zenon DEF OptIs, Merges, OthersAre
  <2> QED
    BY <2>1, <2>2
<1>7. ListIs(c, k)
  <2>1. CASE o.field = "list"
    <3>1. Those(k, {"list"}) = Append(Those(l, {"list"}), o)
      BY <1>2, <2>1
    <3>2. ValuesIn(Append(Those(l, {"list"}), o)) = Append(ValuesIn(Those(l, {"list"})), o.value)
      BY <1>4, MapFacts
    <3> QED
      BY <2>1, <3>1, <3>2, Zenon DEF ListIs, Merges, OthersAre
  <2>2. CASE o.field # "list"
    <3>1. Those(k, {"list"}) = Those(l, {"list"})
      BY <1>3, <2>2
    <3> QED
      BY <2>2, <3>1, Zenon DEF ListIs, Merges, OthersAre
  <2> QED
    BY <2>1, <2>2
<1>8. MustIs(c, k)
  <2>1. CASE o.field = "must"
    <3>1. Those(k, {"must"}) = Append(Those(l, {"must"}), o)
      BY <1>2, <2>1
    <3>2. Trails(Append(Those(l, {"must"}), o)) = Trails(Those(l, {"must"})) \o o.trail
      BY <1>4, OccTrails
    <3>3. Base("must", l) = Trails(Those(l, {"must"}))
      BY DEF Base
    <3> QED
      BY <2>1, <3>1, <3>2, <3>3, Zenon DEF MustIs, Merges
  <2>2. CASE o.field # "must"
    <3>1. Those(k, {"must"}) = Those(l, {"must"})
      BY <1>3, <2>2
    <3> QED
      BY <2>2, <3>1, Zenon DEF MustIs, Merges, OthersAre
  <2> QED
    BY <2>1, <2>2
<1>9. ChildIs(c, k)
  <2>1. CASE o.field = "child"
    <3>1. Those(k, {"child"}) = Append(Those(l, {"child"}), o)
      BY <1>2, <2>1
    <3>2. Trails(Append(Those(l, {"child"}), o)) = Trails(Those(l, {"child"})) \o o.trail
      BY <1>4, OccTrails
    <3>3. Base("child", l) = Trails(Those(l, {"child"}))
      BY DEF Base
    <3>4. Append(Those(l, {"child"}), o) # << >>
      <4>1. PICK s \in Seq(Occ) : s = Those(l, {"child"})
        BY <1>4
      <4>2. Len(s) \in Nat /\ Append(s, o) \in Seq(Occ) /\ Len(Append(s, o)) = Len(s) + 1
        BY LenProperties, AppendProperties
      <4> QED
        BY <4>1, <4>2, EmptySeq
    <3> QED
      BY <2>1, <3>1, <3>2, <3>3, <3>4, Zenon DEF ChildIs, Merges
  <2>2. CASE o.field # "child"
    <3>1. Those(k, {"child"}) = Those(l, {"child"})
      BY <1>3, <2>2
    <3> QED
      BY <2>2, <3>1, Zenon DEF ChildIs, Merges
  <2> QED
    BY <2>1, <2>2
<1>10. ItemIs(c, k)
  <2>1. CASE o.field = "item"
    <3>1. Those(k, {"item"}) = Append(Those(l, {"item"}), o)
      BY <1>2, <2>1
    <3>2. ItemsIn(Append(Those(l, {"item"}), o)) = Append(ItemsIn(Those(l, {"item"})), ChildOf(o.trail))
      BY <1>4, MapFacts
    <3> QED
      BY <2>1, <3>1, <3>2, Zenon DEF ItemIs, Merges, OthersAre
  <2>2. CASE o.field # "item"
    <3>1. Those(k, {"item"}) = Those(l, {"item"})
      BY <1>3, <2>2
    <3> QED
      BY <2>2, <3>1, Zenon DEF ItemIs, Merges, OthersAre
  <2> QED
    BY <2>1, <2>2
<1>11. ChoiceIs(c, k)
  <2>1. CASE o.field = "number"
    <3>1. o.field \in OneOf
      BY <2>1 DEF OneOf
    <3>2. ChoiceOf(Those(k, OneOf)) =
            [variant |-> o.field, number |-> o.value, message |-> ChildOf(Base(o.field, l) \o o.trail)]
      BY <1>1, <3>1, ChoiceGrows
    <3>3. Base(o.field, l) \in Seq(SetT) /\ o.trail = << >>
      BY <2>1, BaseTyped DEF Merges
    <3>4. Base(o.field, l) \o o.trail = Base(o.field, l)
      BY <3>3, ConcatEmptySeq
    <3>5. ChildOf(Base(o.field, l)) = NewChild
      <4>1. PICK s \in Seq(Occ) : s = Those(l, OneOf)
        BY <1>4
      <4>2. CASE s # << >> /\ s[Len(s)].field = o.field
        <5>1. b.choice = ChoiceOf(s) /\ (b.choice.variant = "number" => b.choice.message = NewChild)
          BY <4>1 DEF OthersAre, ChoiceIs
        <5>2. ChoiceOf(s) = [variant |-> s[Len(s)].field, number |-> s[Len(s)].value,
                             message |-> ChildOf(Trails(SinceSwitch(s)))]
          BY <4>2, Zenon DEF ChoiceOf
        <5>3. ChildOf(Trails(SinceSwitch(s))) = NewChild
          BY <2>1, <4>2, <5>1, <5>2
        <5>4. Base(o.field, l) = Trails(SinceSwitch(s))
          BY <2>1, <3>1, <4>1, <4>2 DEF Base
        <5> QED
          BY <5>3, <5>4, Zenon
      <4>3. CASE ~ (s # << >> /\ s[Len(s)].field = o.field)
        <5>1. Base(o.field, l) = << >>
          BY <2>1, <4>1, <4>3 DEF Base
        <5>2. << >> \in Seq(SetT) /\ [field |-> "key", value |-> 0] \in SetT
          BY ScalarAssumption, EmptySeq DEF SetT, Scalars
        <5>3. ChildOf(<< >>) = NewChild
          BY <5>2, ChildFacts
        <5> QED
          BY <5>1, <5>3, Zenon
      <4> QED
        BY <4>2, <4>3
    <3>6. c.choice = [variant |-> "number", number |-> o.value, message |-> NewChild]
      BY <2>1 DEF Merges
    <3> QED
      <4>1. c.choice = ChoiceOf(Those(k, OneOf))
        BY <2>1, <3>2, <3>4, <3>5, <3>6, Zenon
      <4>2. c.choice.message = NewChild
        BY <3>6
      <4> QED
        BY <4>1, <4>2 DEF ChoiceIs
  <2>2. CASE o.field \in {"message", "group"}
    <3>1. o.field \in OneOf /\ o.field # "number"
      BY <2>2 DEF OneOf
    <3>2. ChoiceOf(Those(k, OneOf)) =
            [variant |-> o.field, number |-> o.value, message |-> ChildOf(Base(o.field, l) \o o.trail)]
      BY <1>1, <3>1, ChoiceGrows
    <3>3. o.value = 0 /\ c.choice = [variant |-> o.field, number |-> 0, message |-> ChildOf(Base(o.field, l) \o o.trail)]
      BY <2>2, Zenon DEF Merges
    <3> QED
      BY <3>1, <3>2, <3>3 DEF ChoiceIs
  <2>3. CASE o.field \notin OneOf
    <3>1. Those(k, OneOf) = Those(l, OneOf)
      BY <1>3, <2>3
    <3> QED
      BY <2>3, <3>1, Zenon DEF ChoiceIs, Merges, OthersAre
  <2> QED
    BY <2>1, <2>2, <2>3 DEF OneOf
<1>12. MapIs(c, k)
  <2>1. CASE o.field = "entry"
    <3>1. Those(k, {"entry"}) = Append(Those(l, {"entry"}), o)
      BY <1>2, <2>1
    <3>2. PICK p \in Seq(PairT), x \in PairT :
            p = PairsIn(Those(l, {"entry"})) /\ x = PairOf(o.trail) /\ PairsIn(Append(Those(l, {"entry"}), o)) = Append(p, x)
      <4>1. o.trail \in Seq(SetT) /\ [field |-> "key", value |-> 0] \in SetT
        BY ScalarAssumption DEF Occ, SetT, Scalars
      <4>2. PairOf(o.trail) \in PairT
        BY <4>1, PairFacts
      <4> QED
        BY <1>4, <4>2, MapFacts
    <3>3. c.map = Append(b.map, x)
      BY <2>1, <3>2 DEF Merges
    <3> SUFFICES ASSUME NEW v \in Scalars PROVE ValuesOf(c.map, v) = ValuesOf(PairsIn(Those(k, {"entry"})), v)
      BY Zenon DEF MapIs
    <3>4. ValuesOf(b.map, v) = ValuesOf(p, v)
      BY <3>2, Zenon DEF OthersAre, MapIs
    <3>5. PICK part, vs, q : part = "key" /\ vs = {v} /\ q = b.map
      OBVIOUS
    <3>6. q \in Seq(PairT)
      BY <3>5
    <3>7. Where(Append(q, x), part, vs) =
            IF x[part] \in vs THEN Append(Where(q, part, vs), x) ELSE Where(q, part, vs)
      BY <3>6, WhereFacts
    <3>8. Where(Append(p, x), part, vs) =
            IF x[part] \in vs THEN Append(Where(p, part, vs), x) ELSE Where(p, part, vs)
      BY WhereFacts
    <3>9. Where(q, part, vs) = Where(p, part, vs)
      BY <3>4, <3>5, Zenon DEF ValuesOf
    <3>10. Where(Append(q, x), part, vs) = Where(Append(p, x), part, vs)
      BY <3>7, <3>8, <3>9
    <3> QED
      BY <3>1, <3>2, <3>3, <3>5, <3>10, Zenon DEF ValuesOf
  <2>2. CASE o.field # "entry"
    <3>1. Those(k, {"entry"}) = Those(l, {"entry"})
      BY <1>3, <2>2
    <3> QED
      BY <2>2, <3>1, Zenon DEF MapIs, Merges, OthersAre
  <2> QED
    BY <2>1, <2>2
<1> QED
  BY <1>1, <1>5, <1>6, <1>7, <1>8, <1>9, <1>10, <1>11, <1>12 DEF OthersAre

-----------------------------------------------------------------------------
(* The invariant, and the steps that keep it *)

(* The types of the choice, of a builder and of a frame. *)
ChoiceT  == [variant : {"unset"} \union OneOf, number : Scalars, message : ChildT]
BuilderT == [plain : Scalars, opt : Options(Scalars), list : Seq(Scalars), must : ChildT, child : Options(ChildT),
             item : Seq(ChildT), choice : ChoiceT, map : Seq(PairT)]
FrameT   == [field : NestedFields \union {"entry", "list", "none"}, built : ChildT, pair : PairT, trail : Seq(SetT)]

(* In ascending order of the keys. *)
Sorted(m) == \A p, q \in 1 .. Len(m) : p < q => m[p].key <= m[q].key

(* The inductive invariant of both inputs: the builder holds what it was given,  *)
(* what is open holds what it will add to that, an optional message is out *)
(* of the builder while it is open, and a frozen view is sorted.           *)
MergeInv ==
  /\ builder \in BuilderT /\ frame \in FrameT /\ log \in Seq(Occ)
  /\ OthersAre(builder, log, entry)
  /\ frame.field # "child" => ChildIs(builder, log)
  /\ frame.field = "child" => builder.child = << >>
  /\ frame.field \in NestedFields => frame.built = ChildOf(Base(frame.field, log) \o frame.trail)
  /\ frame.field = "entry" => frame.pair = PairOf(frame.trail)
  /\ result # "merging" => Outside
  /\ result = "frozen" => Sorted(builder.map) /\ (phase = "first" => view = builder)
  /\ view \in BuilderT

(* Defaults and empty sequences have the types they are used with. *)
LEMMA Basics ==
  /\ 0 \in Scalars /\ << >> \in Seq(SetT) /\ NewChild \in ChildT
  /\ NoFrame \in FrameT /\ NoFrame.field = "none" /\ NoFrame.trail = << >>
  /\ NoFrame.built = ChildOf(<< >>) /\ NoFrame.pair = PairOf(<< >>)
  /\ \A S : << >> \in Options(S) /\ \A x \in S : <<x>> \in Options(S)
<1>1. 0 \in Scalars /\ << >> \in Seq(SetT)
  BY ScalarAssumption, EmptySeq DEF Scalars
<1>2. \A S : << >> \in Options(S) /\ \A x \in S : <<x>> \in Options(S)
  BY DEF Options
<1>3. NewChild \in ChildT
  BY <1>1, <1>2 DEF NewChild, ChildT
<1>4. NoFrame \in FrameT /\ NoFrame.field = "none" /\ NoFrame.trail = << >> /\ NoFrame.built = NewChild
  BY <1>1, <1>3 DEF NoFrame, FrameT, PairT
<1>5. [field |-> "key", value |-> 0] \in SetT
  BY <1>1 DEF SetT
<1>6. ChildOf(<< >>) = NewChild /\ PairOf(<< >>) = NoFrame.pair
  BY <1>1, <1>5, ChildFacts, PairFacts
<1> QED
  BY <1>1, <1>2, <1>3, <1>4, <1>6

(* The variant of a choice is the field that was last given. *)
LEMMA VariantOnly ==
  \A f, x : /\ [Unset EXCEPT !.variant = f, !.number = x] = [variant |-> f, number |-> x, message |-> NewChild]
           /\ [Unset EXCEPT !.variant = f, !.message = x] = [variant |-> f, number |-> 0, message |-> x]
<1> TAKE f, x
<1>1. PICK m : m = NewChild
  OBVIOUS
<1>2. PICK r : r = [variant |-> f, number |-> 0, message |-> m]
  OBVIOUS
<1>3. r = [[variant |-> "unset", number |-> 0, message |-> m] EXCEPT !.variant = f]
  BY <1>2
<1>4. /\ [r EXCEPT !.number = x] = [variant |-> f, number |-> x, message |-> m]
      /\ [r EXCEPT !.message = x] = [variant |-> f, number |-> 0, message |-> x]
  BY <1>2
<1>5. \A u : /\ [u EXCEPT !.variant = f, !.number = x] = [[u EXCEPT !.variant = f] EXCEPT !.number = x]
            /\ [u EXCEPT !.variant = f, !.message = x] = [[u EXCEPT !.variant = f] EXCEPT !.message = x]
  OBVIOUS
<1>6. Unset = [variant |-> "unset", number |-> 0, message |-> m]
  BY <1>1, Zenon DEF Unset
<1> QED
  BY <1>1, <1>3, <1>4, <1>5, <1>6, Zenon

(* What an occurrence that is not part of an open message does. *)
LEMMA OccurrenceKeeps ==
  ASSUME MergeInv, NEW o \in Occ, log' = Append(log, o), builder' \in BuilderT,
         Merges(builder, builder', log, o), o.field # "child" => frame.field # "child",
         frame' \in FrameT, frame'.field \in {"none", "list"},
         result' = "merging" \/ (result' = "failed" /\ frame'.field = "none"), entry' = entry, view' = view
  PROVE  MergeInv'
<1>1. log \in Seq(Occ) /\ OthersAre(builder, log, entry) /\ builder.map \in Seq(PairT)
  BY DEF MergeInv, BuilderT
<1>2. o.field # "child" => ChildIs(builder, log)
  BY DEF MergeInv
<1>3. OthersAre(builder', log', entry') /\ ChildIs(builder', log')
  BY <1>1, <1>2, MergeOne, Zenon
<1>4. log' \in Seq(Occ)
  BY <1>1, AppendProperties
<1>5. frame'.field \notin NestedFields /\ frame'.field # "entry" /\ frame'.field # "child"
  BY DEF NestedFields
<1>6. result' # "frozen" /\ (result' # "merging" => frame'.field = "none")
  OBVIOUS
<1> QED
  BY <1>3, <1>4, <1>5, <1>6 DEF MergeInv, Outside

(* Plain: the last value of a plain field is the one it has. *)
LEMMA PlainKeeps ==
  ASSUME MergeInv, MergePlain PROVE MergeInv'
<1>1. PICK v \in Scalars : /\ Outside /\ Take("set", "plain", v) /\ Logged("plain", v, << >>)
                           /\ builder' = [builder EXCEPT !.plain = v] /\ frame' = frame /\ result' = result
  BY DEF MergePlain
<1>2. PICK o \in Occ : o = [field |-> "plain", value |-> v, trail |-> << >>]
  BY Basics DEF Occ, AllFields
<1>3. log' = Append(log, o)
  BY <1>1, <1>2 DEF Logged, Occurrence
<1>4. builder \in BuilderT /\ frame \in FrameT
  BY DEF MergeInv
<1>5. builder' \in BuilderT
  BY <1>1, <1>4 DEF BuilderT
<1>6. Merges(builder, builder', log, o)
  BY <1>1, <1>2, <1>4 DEF Merges, BuilderT, OneOf
<1>7. result' = "merging" /\ entry' = entry /\ view' = view /\ frame'.field = "none"
  BY <1>1 DEF Take, Outside
<1> QED
  BY <1>1, <1>2, <1>3, <1>4, <1>5, <1>6, <1>7, OccurrenceKeeps

(* Optional: the same, of a field that can be absent. *)
LEMMA OptionalKeeps ==
  ASSUME MergeInv, MergeOptional PROVE MergeInv'
<1>1. PICK v \in Scalars : /\ Outside /\ Take("set", "opt", v) /\ Logged("opt", v, << >>)
                           /\ builder' = [builder EXCEPT !.opt = <<v>>] /\ frame' = frame /\ result' = result
  BY DEF MergeOptional
<1>2. PICK o \in Occ : o = [field |-> "opt", value |-> v, trail |-> << >>]
  BY Basics DEF Occ, AllFields
<1>3. log' = Append(log, o)
  BY <1>1, <1>2 DEF Logged, Occurrence
<1>4. builder \in BuilderT /\ frame \in FrameT
  BY DEF MergeInv
<1>5. builder' \in BuilderT
  BY <1>1, <1>4, Basics DEF BuilderT
<1>6. Merges(builder, builder', log, o)
  BY <1>1, <1>2, <1>4 DEF Merges, BuilderT, OneOf
<1>7. result' = "merging" /\ entry' = entry /\ view' = view /\ frame'.field = "none"
  BY <1>1 DEF Take, Outside
<1> QED
  BY <1>1, <1>2, <1>3, <1>4, <1>5, <1>6, <1>7, OccurrenceKeeps

(* Element: one value more of a repeated field. *)
LEMMA ElementKeeps ==
  ASSUME MergeInv, MergeElement PROVE MergeInv'
<1>1. PICK v \in Scalars : /\ frame.field = "list" /\ Take("set", "list", v) /\ Logged("list", v, << >>)
                           /\ builder' = [builder EXCEPT !.list = Append(@, v)] /\ frame' = frame /\ result' = result
  BY DEF MergeElement, Inside
<1>2. PICK o \in Occ : o = [field |-> "list", value |-> v, trail |-> << >>]
  BY Basics DEF Occ, AllFields
<1>3. log' = Append(log, o)
  BY <1>1, <1>2 DEF Logged, Occurrence
<1>4. builder \in BuilderT /\ frame \in FrameT
  BY DEF MergeInv
<1>5. builder' \in BuilderT
  BY <1>1, <1>4, AppendProperties DEF BuilderT
<1>6. Merges(builder, builder', log, o)
  BY <1>1, <1>2, <1>4 DEF Merges, BuilderT, OneOf
<1>7. result' = "merging" /\ entry' = entry /\ view' = view
  BY <1>1 DEF Take
<1> QED
  BY <1>1, <1>2, <1>3, <1>4, <1>5, <1>6, <1>7, OccurrenceKeeps

(* Number: a scalar variant of a oneof replaces what it was. *)
LEMMA NumberKeeps ==
  ASSUME MergeInv, MergeNumber PROVE MergeInv'
<1>1. PICK v \in Scalars : /\ Outside /\ Take("set", "number", v) /\ Logged("number", v, << >>)
                           /\ builder' = [builder EXCEPT !.choice = [Unset EXCEPT !.variant = "number", !.number = v]]
                           /\ frame' = frame /\ result' = result
  BY DEF MergeNumber
<1>2. PICK o \in Occ : o = [field |-> "number", value |-> v, trail |-> << >>]
  BY Basics DEF Occ, AllFields
<1>3. log' = Append(log, o)
  BY <1>1, <1>2 DEF Logged, Occurrence
<1>4. builder \in BuilderT /\ frame \in FrameT
  BY DEF MergeInv
<1>0. [Unset EXCEPT !.variant = "number", !.number = v] = [variant |-> "number", number |-> v, message |-> NewChild]
  BY VariantOnly
<1>5. builder' \in BuilderT
  <2>1. [variant |-> "number", number |-> v, message |-> NewChild] \in ChoiceT
    BY Basics DEF ChoiceT, OneOf
  <2> QED
    BY <1>1, <1>4, <1>0, <2>1 DEF BuilderT
<1>6. Merges(builder, builder', log, o)
  BY <1>1, <1>2, <1>4, <1>0 DEF Merges, BuilderT, OneOf
<1>7. result' = "merging" /\ entry' = entry /\ view' = view /\ frame'.field = "none"
  BY <1>1 DEF Take, Outside
<1> QED
  BY <1>1, <1>2, <1>3, <1>4, <1>5, <1>6, <1>7, OccurrenceKeeps

(* Close: the end of a nested message makes an occurrence of it. *)
LEMMA CloseKeeps ==
  ASSUME MergeInv, Close PROVE MergeInv'
<1> DEFINE f == frame.field
<1>1. /\ f # "none" /\ Take("close", f, 0) /\ builder' = Stored(builder, frame) /\ frame' = NoFrame /\ result' = result
      /\ f = "list" => log' = log
      /\ f # "list" => log' = Append(log, Occurrence(f, 0, frame.trail))
  BY DEF Close, Outside, Logged
<1>2. result' = "merging" /\ entry' = entry /\ view' = view /\ f \in Fields \union {"plain", "opt", "key", "value"}
  BY <1>1 DEF Take
<1>3. builder \in BuilderT /\ frame \in FrameT /\ f \in NestedFields \union {"entry", "list"} /\ frame.trail \in Seq(SetT) /\ frame.built \in ChildT
      /\ frame.pair \in PairT
  BY <1>1 DEF MergeInv, FrameT
<1>4. NoFrame \in FrameT /\ NoFrame.field = "none"
  BY Basics
<1>5. CASE f = "list"
  <2>1. builder' = builder /\ log' = log
    BY <1>1, <1>5 DEF Stored
  <2> QED
    BY <1>1, <1>2, <1>4, <1>5, <2>1 DEF MergeInv, Outside, NestedFields
<1>6. CASE f # "list"
  <2>1. PICK o \in Occ : o = [field |-> f, value |-> 0, trail |-> frame.trail]
    BY <1>3, Basics DEF Occ, AllFields
  <2>2. log' = Append(log, o)
    BY <1>1, <1>6, <2>1 DEF Occurrence
  <2>3. f \in NestedFields => frame.built = ChildOf(Base(f, log) \o o.trail)
    BY <2>1 DEF MergeInv
  <2>4. Base("item", log) \o o.trail = o.trail
    <3>1. Base("item", log) = << >>
      BY DEF Base, OneOf
    <3> QED
      BY <1>3, <2>1, <3>1, ConcatEmptySeq
  <2>5. builder' \in BuilderT /\ Merges(builder, builder', log, o)
    <3>1. CASE f = "must"
      <4>1. builder' = [builder EXCEPT !.must = frame.built]
        BY <1>1, <3>1 DEF Stored
      <4> QED
        BY <1>3, <2>1, <2>3, <3>1, <4>1 DEF BuilderT, Merges, OneOf, NestedFields
    <3>2. CASE f = "child"
      <4>1. builder' = [builder EXCEPT !.child = <<frame.built>>]
        BY <1>1, <3>2 DEF Stored
      <4>2. <<frame.built>> \in Options(ChildT)
        BY <1>3, Basics
      <4> QED
        BY <1>3, <2>1, <2>3, <3>2, <4>1, <4>2 DEF BuilderT, Merges, OneOf, NestedFields
    <3>3. CASE f = "item"
      <4>1. builder' = [builder EXCEPT !.item = Append(@, frame.built)]
        BY <1>1, <3>3 DEF Stored
      <4>2. builder.item \in Seq(ChildT) /\ Append(builder.item, frame.built) \in Seq(ChildT)
        BY <1>3, AppendProperties DEF BuilderT
      <4>3. frame.built = ChildOf(o.trail)
        BY <2>3, <2>4, <3>3 DEF NestedFields
      <4> QED
        BY <1>3, <2>1, <3>3, <4>1, <4>2, <4>3 DEF BuilderT, Merges, OneOf
    <3>4. CASE f = "entry"
      <4>1. builder' = [builder EXCEPT !.map = Append(@, frame.pair)]
        BY <1>1, <3>4 DEF Stored
      <4>2. builder.map \in Seq(PairT) /\ Append(builder.map, frame.pair) \in Seq(PairT)
        BY <1>3, AppendProperties DEF BuilderT
      <4>3. frame.pair = PairOf(o.trail)
        BY <2>1, <3>4 DEF MergeInv
      <4> QED
        BY <1>3, <2>1, <3>4, <4>1, <4>2, <4>3 DEF BuilderT, Merges, OneOf
    <3>5. CASE f \in {"message", "group"}
      <4>1. builder' = [builder EXCEPT !.choice = [Unset EXCEPT !.variant = f, !.message = frame.built]]
        BY <1>1, <3>5 DEF Stored
      <4>2. [Unset EXCEPT !.variant = f, !.message = frame.built] = [variant |-> f, number |-> 0, message |-> frame.built]
        BY VariantOnly
      <4>3. [variant |-> f, number |-> 0, message |-> frame.built] \in ChoiceT
        BY <1>3, <3>5, Basics DEF ChoiceT, OneOf
      <4> QED
        BY <1>3, <2>1, <2>3, <3>5, <4>1, <4>2, <4>3 DEF BuilderT, Merges, OneOf, NestedFields
    <3> QED
      BY <1>3, <1>6, <3>1, <3>2, <3>3, <3>4, <3>5 DEF NestedFields
  <2> QED
    BY <1>1, <1>2, <1>3, <1>4, <2>1, <2>2, <2>5, OccurrenceKeeps
<1> QED
  BY <1>5, <1>6

(* What is opened starts from what it will be added to.                    *)
LEMMA OpenKeeps ==
  ASSUME MergeInv, Outside, NEW f \in NestedFields \union {"entry", "list"}, NEW b \in ChildT,
         frame' = [NoFrame EXCEPT !.field = f, !.built = b],
         f \in NestedFields => b = ChildOf(Base(f, log)),
         builder' \in BuilderT, OthersAre(builder', log, entry),
         f = "child" => builder'.child = << >>, f # "child" => builder' = builder,
         log' = log, entry' = entry, view' = view, result' = "merging"
  PROVE  MergeInv'
<1>1. frame' = [field |-> f, built |-> b, pair |-> NoFrame.pair, trail |-> << >>]
  BY DEF NoFrame
<1>2. frame' \in FrameT
  BY <1>1, Basics DEF FrameT, NoFrame, PairT
<1>3. frame'.field = f /\ frame'.built = b /\ frame'.trail = << >> /\ frame'.pair = PairOf(<< >>)
  BY <1>1, Basics
<1>4. log \in Seq(Occ) /\ ChildIs(builder, log)
  BY DEF MergeInv, Outside
<1>5. Base(f, log) \o << >> = Base(f, log)
  BY <1>4, BaseTyped, ConcatEmptySeq
<1>6. f \in NestedFields => frame'.built = ChildOf(Base(f, log) \o frame'.trail)
  BY <1>3, <1>5
<1> QED
  BY <1>2, <1>3, <1>4, <1>6 DEF MergeInv

(* OpenNew: items and entries start from nothing, whatever was given *)
(* before.                                                           *)
LEMMA OpenNewKeeps ==
  ASSUME MergeInv, OpenNew PROVE MergeInv'
<1>1. PICK f \in {"item", "entry", "list"} :
        /\ Outside /\ Take("open", f, 0) /\ frame' = [NoFrame EXCEPT !.field = f]
        /\ builder' = builder /\ result' = result /\ log' = log
  BY DEF OpenNew
<1>2. result' = "merging" /\ entry' = entry /\ view' = view
  BY <1>1 DEF Take
<1>3. frame' = [NoFrame EXCEPT !.field = f, !.built = NewChild]
  <2>1. PICK c : c = NewChild
    OBVIOUS
  <2>2. PICK p : p = [key |-> 0, value |-> 0]
    OBVIOUS
  <2>3. NoFrame = [field |-> "none", built |-> c, pair |-> p, trail |-> << >>]
    BY <2>1, <2>2, Zenon DEF NoFrame
  <2>4. [NoFrame EXCEPT !.field = f] = [field |-> f, built |-> c, pair |-> p, trail |-> << >>]
    <3>1. \A t : [[field |-> "none", built |-> c, pair |-> p, trail |-> t] EXCEPT !.field = f]
                  = [field |-> f, built |-> c, pair |-> p, trail |-> t]
      OBVIOUS
    <3> QED
      BY <2>3, <3>1, Zenon
  <2>5. [NoFrame EXCEPT !.field = f, !.built = c] = [field |-> f, built |-> c, pair |-> p, trail |-> << >>]
    <3>1. \A t : [[field |-> f, built |-> c, pair |-> p, trail |-> t] EXCEPT !.built = c]
                  = [field |-> f, built |-> c, pair |-> p, trail |-> t]
      OBVIOUS
    <3>2. \A u : [u EXCEPT !.field = f, !.built = c] = [[u EXCEPT !.field = f] EXCEPT !.built = c]
      OBVIOUS
    <3> QED
      BY <2>4, <3>1, <3>2, Zenon
  <2> QED
    BY <1>1, <2>1, <2>4, <2>5, Zenon
<1>4. f \in NestedFields => NewChild = ChildOf(Base(f, log))
  <2>1. Base("item", log) = << >>
    BY DEF Base, OneOf
  <2> QED
    BY <2>1, Basics DEF NestedFields, NoFrame
<1>5. builder \in BuilderT /\ OthersAre(builder, log, entry)
  BY DEF MergeInv
<1>6. f \in NestedFields \union {"entry", "list"} /\ f # "child"
  BY DEF NestedFields
<1> QED
  BY <1>1, <1>2, <1>3, <1>4, <1>5, <1>6, Basics, OpenKeeps

(* OpenRequired: a required message is merged into. *)
LEMMA OpenRequiredKeeps ==
  ASSUME MergeInv, OpenRequired, Target = "builder" PROVE MergeInv'
<1>1. /\ Outside /\ Take("open", "must", 0) /\ frame' = [NoFrame EXCEPT !.field = "must", !.built = builder.must]
      /\ builder' = builder /\ result' = result /\ log' = log
  BY DEF OpenRequired
<1>2. result' = "merging" /\ entry' = entry /\ view' = view
  BY <1>1 DEF Take
<1>3. builder \in BuilderT /\ OthersAre(builder, log, entry) /\ builder.must \in ChildT
  BY DEF MergeInv, BuilderT
<1>4. builder.must = ChildOf(Base("must", log))
  BY <1>3 DEF OthersAre, MustIs, Base
<1>5. "must" \in NestedFields \union {"entry", "list"}
  BY DEF NestedFields
<1> QED
  BY <1>1, <1>2, <1>3, <1>4, <1>5, OpenKeeps

(* OpenChild: an optional message is taken out of the builder, thawed and *)
(* merged into.                                                           *)
LEMMA OpenChildKeeps ==
  ASSUME MergeInv, OpenChild, Target = "builder" PROVE MergeInv'
<1>1. /\ Outside /\ Take("open", "child", 0) /\ result' = result /\ log' = log
      /\ builder.child # << >> => /\ frame' = [NoFrame EXCEPT !.field = "child", !.built = Head(builder.child)]
                                  /\ builder' = [builder EXCEPT !.child = << >>]
      /\ builder.child = << >> => frame' = [NoFrame EXCEPT !.field = "child"] /\ builder' = builder
  BY DEF OpenChild
<1>2. result' = "merging" /\ entry' = entry /\ view' = view
  BY <1>1 DEF Take
<1>3. builder \in BuilderT /\ OthersAre(builder, log, entry) /\ ChildIs(builder, log)
  BY <1>1 DEF MergeInv, Outside
<1>4. "child" \in NestedFields \union {"entry", "list"}
  BY DEF NestedFields
<1>5. Base("child", log) = Trails(Those(log, {"child"}))
  BY DEF Base
<1>6. PICK b : b = ChildOf(Base("child", log)) /\ b \in ChildT
  <2>1. [field |-> "key", value |-> 0] \in SetT
    BY Basics DEF SetT
  <2>2. Base("child", log) \in Seq(SetT)
    BY BaseTyped DEF MergeInv
  <2> QED
    BY <2>1, <2>2, ChildFacts
<1>7. CASE builder.child # << >>
  <2>1. Head(builder.child) = b
    <3>1. builder.child = <<b>>
      BY <1>3, <1>5, <1>6, <1>7, Zenon DEF ChildIs
    <3> QED
      BY <3>1
  <2>2. builder' \in BuilderT /\ builder'.child = << >>
    BY <1>1, <1>3, <1>7, Basics DEF BuilderT
  <2>3. OthersAre(builder', log, entry)
    <3>1. /\ builder'.plain = builder.plain /\ builder'.opt = builder.opt /\ builder'.list = builder.list
          /\ builder'.must = builder.must /\ builder'.item = builder.item /\ builder'.choice = builder.choice
          /\ builder'.map = builder.map
      BY <1>1, <1>3, <1>7 DEF BuilderT
    <3> QED
      BY <1>3, <3>1, Zenon DEF OthersAre, PlainIs, OptIs, ListIs, MustIs, ItemIs, ChoiceIs, MapIs
  <2> QED
    BY <1>1, <1>2, <1>4, <1>6, <1>7, <2>1, <2>2, <2>3, OpenKeeps
<1>8. CASE builder.child = << >>
  <2>1. Those(log, {"child"}) = << >>
    BY <1>3, <1>8 DEF ChildIs
  <2>2. Base("child", log) = << >>
    <3>1. << >> \in Seq(Occ)
      BY EmptySeq
    <3>2. [field |-> "plain", value |-> 0, trail |-> << >>] \in Occ
      BY Basics DEF Occ, AllFields
    <3>3. Trails(<< >>) = << >>
      BY <3>1, <3>2, OccTrails
    <3> QED
      BY <1>5, <2>1, <3>3, Zenon
  <2>3. b = NewChild
    BY <1>6, <2>2, Basics DEF NoFrame
  <2>4. frame' = [NoFrame EXCEPT !.field = "child", !.built = b]
    BY <1>1, <1>8, <2>3 DEF NoFrame
  <2> QED
    BY <1>1, <1>2, <1>3, <1>4, <1>6, <1>8, <2>4, OpenKeeps
<1> QED
  BY <1>7, <1>8

(* OpenVariant: a message variant of a oneof is merged into if it is the *)
(* current one.                                                          *)
LEMMA OpenVariantKeeps ==
  ASSUME MergeInv, OpenVariant PROVE MergeInv'
<1>1. PICK f \in {"message", "group"} :
        /\ Outside /\ Take("open", f, 0)
        /\ frame' = [NoFrame EXCEPT !.field = f, !.built = IF builder.choice.variant = f
                                                           THEN builder.choice.message ELSE NewChild]
        /\ builder' = builder /\ result' = result /\ log' = log
  BY DEF OpenVariant
<1>2. result' = "merging" /\ entry' = entry /\ view' = view
  BY <1>1 DEF Take
<1>3. builder \in BuilderT /\ OthersAre(builder, log, entry) /\ builder.choice.message \in ChildT
  BY DEF MergeInv, BuilderT, ChoiceT
<1>4. PICK b \in ChildT : b = IF builder.choice.variant = f THEN builder.choice.message ELSE NewChild
  BY <1>3, Basics
<1>5. f \in NestedFields \union {"entry", "list"} /\ f # "child" /\ f \in OneOf /\ f \notin {"must", "child"}
  BY DEF NestedFields, OneOf
<1>6. b = ChildOf(Base(f, log))
  <2>1. PICK s : s = Those(log, OneOf)
    OBVIOUS
  <2>2. builder.choice = ChoiceOf(s)
    BY <1>3, <2>1 DEF OthersAre, ChoiceIs
  <2>3. CASE s = << >>
    <3>1. builder.choice.variant = "unset"
      BY <2>2, <2>3 DEF ChoiceOf, Unset
    <3>2. Base(f, log) = << >>
      BY <1>5, <2>1, <2>3, Zenon DEF Base
    <3> QED
      BY <1>4, <3>1, <3>2, Basics DEF NoFrame
  <2>4. CASE s # << >>
    <3>1. builder.choice = [variant |-> s[Len(s)].field, number |-> s[Len(s)].value,
                            message |-> ChildOf(Trails(SinceSwitch(s)))]
      BY <2>2, <2>4, Zenon DEF ChoiceOf
    <3>2. CASE s[Len(s)].field = f
      <4>1. Base(f, log) = Trails(SinceSwitch(s))
        BY <1>5, <2>1, <2>4, <3>2, Zenon DEF Base
      <4> QED
        BY <1>4, <3>1, <3>2, <4>1
    <3>3. CASE s[Len(s)].field # f
      <4>1. Base(f, log) = << >>
        BY <1>5, <2>1, <2>4, <3>3, Zenon DEF Base
      <4> QED
        BY <1>4, <3>1, <3>3, <4>1, Basics DEF NoFrame
    <3> QED
      BY <3>2, <3>3
  <2> QED
    BY <2>3, <2>4
<1>7. frame' = [NoFrame EXCEPT !.field = f, !.built = b]
  BY <1>1, <1>4, Zenon
<1> QED
  BY <1>1, <1>2, <1>3, <1>5, <1>6, <1>7, OpenKeeps

(* Fields within a nested message: the frame holds what it started from *)
(* and what was set since.                                              *)
LEMMA NestedKeeps ==
  ASSUME MergeInv, MergeNested PROVE MergeInv'
<1>1. PICK f \in {"plain", "opt"}, v \in Scalars :
        /\ Inside(NestedFields) /\ Take("set", f, v)
        /\ frame' = [frame EXCEPT !.built = [@ EXCEPT ![f] = IF f = "plain" THEN v ELSE <<v>>],
                                  !.trail = Append(@, [field |-> f, value |-> v])]
        /\ builder' = builder /\ result' = result /\ log' = log
  BY DEF MergeNested
<1>2. result' = "merging" /\ entry' = entry /\ view' = view
  BY <1>1 DEF Take
<1>3. frame \in FrameT /\ frame.field \in NestedFields /\ frame.built \in ChildT /\ frame.trail \in Seq(SetT)
      /\ log \in Seq(Occ) /\ frame.pair \in PairT
  BY <1>1 DEF MergeInv, FrameT, Inside
<1>4. PICK e \in SetT : e = [field |-> f, value |-> v]
  BY DEF SetT
<1>5. PICK n \in ChildT : n = [frame.built EXCEPT ![f] = IF f = "plain" THEN v ELSE <<v>>]
  <2>1. [frame.built EXCEPT !.plain = v] \in ChildT
    BY <1>3 DEF ChildT
  <2>2. [frame.built EXCEPT !.opt = <<v>>] \in ChildT
    BY <1>3, Basics DEF ChildT
  <2>3. CASE f = "plain"
    BY <2>1, <2>3
  <2>4. CASE f = "opt"
    BY <2>2, <2>4
  <2> QED
    BY <2>3, <2>4
<1>6. PICK t \in Seq(SetT) : t = Append(frame.trail, e)
  BY <1>3, AppendProperties
<1>7. frame'.field = frame.field /\ frame'.built = n /\ frame'.trail = t /\ frame' \in FrameT
  BY <1>1, <1>3, <1>4, <1>5, <1>6 DEF FrameT
<1>8. n = ChildOf(Base(frame.field, log) \o t)
  <2>1. PICK c \in Seq(SetT) : c = Base(frame.field, log)
    BY <1>3, BaseTyped
  <2>2. PICK d \in Seq(SetT) : d = c \o frame.trail
    BY <1>3, <2>1, ConcatProperties
  <2>3. c \o t = Append(d, e)
    <3>1. PICK s \in Seq(SetT), x \in SetT : s = frame.trail /\ x = e
      BY <1>3
    <3>2. c \o Append(s, x) = Append(c \o s, x)
      OBVIOUS
    <3> QED
      BY <1>6, <2>2, <3>1, <3>2, Zenon
  <2>4. frame.built = ChildOf(d)
    BY <1>3, <2>1, <2>2 DEF MergeInv
  <2>5. CASE f = "plain"
    <3>1. ChildOf(Append(d, e)) = [ChildOf(d) EXCEPT !.plain = e.value]
      BY <1>4, <2>5, ChildFacts
    <3>2. n = [frame.built EXCEPT !.plain = v] /\ e.value = v
      BY <1>4, <1>5, <2>5
    <3> QED
      BY <2>1, <2>3, <2>4, <3>1, <3>2, Zenon
  <2>6. CASE f = "opt"
    <3>1. ChildOf(Append(d, e)) = [ChildOf(d) EXCEPT !.opt = <<e.value>>]
      BY <1>4, <2>6, ChildFacts
    <3>2. n = [frame.built EXCEPT !.opt = <<v>>] /\ e.value = v
      BY <1>4, <1>5, <2>6
    <3> QED
      BY <2>1, <2>3, <2>4, <3>1, <3>2, Zenon
  <2> QED
    BY <2>5, <2>6
<1>9. frame.field # "entry"
  BY <1>3 DEF NestedFields
<1> QED
  BY <1>1, <1>2, <1>3, <1>7, <1>8, <1>9 DEF MergeInv

(* Key and value of a map entry, in any order and any number. *)
LEMMA PairKeeps ==
  ASSUME MergeInv, MergePair PROVE MergeInv'
<1>1. PICK f \in {"key", "value"}, v \in Scalars :
        /\ Inside({"entry"}) /\ Take("set", f, v)
        /\ frame' = [frame EXCEPT !.pair = [@ EXCEPT ![f] = v],
                                  !.trail = Append(@, [field |-> f, value |-> v])]
        /\ builder' = builder /\ result' = result /\ log' = log
  BY DEF MergePair
<1>2. result' = "merging" /\ entry' = entry /\ view' = view
  BY <1>1 DEF Take
<1>3. frame \in FrameT /\ frame.field = "entry" /\ frame.built \in ChildT /\ frame.trail \in Seq(SetT)
      /\ frame.pair \in PairT /\ frame.pair = PairOf(frame.trail)
  BY <1>1 DEF MergeInv, FrameT, Inside
<1>4. PICK e \in SetT : e = [field |-> f, value |-> v]
  BY DEF SetT
<1>5. PICK n \in PairT : n = [frame.pair EXCEPT ![f] = v]
  BY <1>3 DEF PairT
<1>6. PICK t \in Seq(SetT) : t = Append(frame.trail, e)
  BY <1>3, AppendProperties
<1>7. frame'.field = frame.field /\ frame'.pair = n /\ frame'.trail = t /\ frame' \in FrameT
  BY <1>1, <1>3, <1>4, <1>5, <1>6 DEF FrameT
<1>8. n = PairOf(t)
  <2>1. CASE f = "key"
    <3>1. PairOf(t) = [PairOf(frame.trail) EXCEPT !.key = e.value]
      BY <1>3, <1>4, <1>6, <2>1, PairFacts
    <3>2. n = [frame.pair EXCEPT !.key = v] /\ e.value = v
      BY <1>4, <1>5, <2>1
    <3> QED
      BY <1>3, <3>1, <3>2, Zenon
  <2>2. CASE f = "value"
    <3>1. PairOf(t) = [PairOf(frame.trail) EXCEPT !.value = e.value]
      BY <1>3, <1>4, <1>6, <2>2, PairFacts
    <3>2. n = [frame.pair EXCEPT !.value = v] /\ e.value = v
      BY <1>4, <1>5, <2>2
    <3> QED
      BY <1>3, <3>1, <3>2, Zenon
  <2> QED
    BY <2>1, <2>2
<1>9. frame.field \notin NestedFields /\ frame.field # "child"
  BY <1>3 DEF NestedFields
<1> QED
  BY <1>1, <1>2, <1>3, <1>7, <1>8, <1>9 DEF MergeInv

(* What is given up with an optional message is every occurrence of it.    *)
LEMMA WithoutChild ==
  ASSUME NEW l \in Seq(Occ), NEW k, k = Where(l, "field", AllFields \ {"child"})
  PROVE  /\ k \in Seq(Occ) /\ Those(k, {"child"}) = << >>
         /\ \A F \in SUBSET (AllFields \ {"child"}) : Those(k, F) = Those(l, F)
<1> DEFINE A == AllFields \ {"child"}
<1>1. k \in Seq(Occ)
  BY WhereFacts
<1>2. \A F : Where(Where(l, "field", A), "field", F) = Where(l, "field", A \cap F)
  BY WhereWhere
<1> HIDE DEF A
<1>3. \A F : Those(k, F) = Where(l, "field", A \cap F)
  BY <1>2, Zenon DEF Those, A
<1>4. A \cap {"child"} = {}
  BY DEF A
<1>5. Where(l, "field", {}) = << >>
  BY WhereNone
<1>6. \A F \in SUBSET A : A \cap F = F
  OBVIOUS
<1> QED
  BY <1>1, <1>3, <1>4, <1>5, <1>6, Zenon DEF Those, A

(* Malformed: a nested message that fails takes with it what the arm had *)
(* taken out of the builder.                                             *)
LEMMA MalformedKeeps ==
  ASSUME MergeInv, Malformed, Target = "builder" PROVE MergeInv'
<1>1. result' = "failed" /\ frame' = NoFrame /\ entry' = entry /\ view' = view /\ NoFrame \in FrameT /\ NoFrame.field = "none"
  BY Basics DEF Malformed
<1>2. builder \in BuilderT /\ log \in Seq(Occ) /\ OthersAre(builder, log, entry)
  BY DEF MergeInv
<1>3. CASE builder' = builder /\ frame.field = "child" /\ log' = Without("child")
  <2>1. /\ log' \in Seq(Occ) /\ Those(log', {"child"}) = << >>
        /\ \A F \in SUBSET (AllFields \ {"child"}) : Those(log', F) = Those(log, F)
    BY <1>2, <1>3, WithoutChild DEF Without
  <2>2. /\ Those(log', {"plain"}) = Those(log, {"plain"}) /\ Those(log', {"opt"}) = Those(log, {"opt"})
        /\ Those(log', {"list"}) = Those(log, {"list"}) /\ Those(log', {"must"}) = Those(log, {"must"})
        /\ Those(log', {"item"}) = Those(log, {"item"}) /\ Those(log', {"entry"}) = Those(log, {"entry"})
        /\ Those(log', OneOf) = Those(log, OneOf)
    <3>1. {{"plain"}, {"opt"}, {"list"}, {"must"}, {"item"}, {"entry"}, OneOf} \subseteq SUBSET (AllFields \ {"child"})
      BY DEF AllFields, NestedFields, OneOf
    <3> QED
      BY <2>1, <3>1
  <2>3. OthersAre(builder, log', entry)
    BY <1>2, <2>2, Zenon DEF OthersAre, PlainIs, OptIs, ListIs, MustIs, ItemIs, ChoiceIs, MapIs
  <2>4. ChildIs(builder, log')
    BY <1>3, <2>1, Zenon DEF MergeInv, ChildIs
  <2>5. "none" \notin NestedFields
    BY DEF NestedFields
  <2> QED
    BY <1>1, <1>2, <1>3, <2>1, <2>3, <2>4, <2>5 DEF MergeInv, Outside
<1>4. CASE builder' = builder /\ frame.field # "child" /\ log' = log
  <2>1. "none" \notin NestedFields
    BY DEF NestedFields
  <2>2. ChildIs(builder, log)
    BY <1>4 DEF MergeInv
  <2> QED
    BY <1>1, <1>2, <1>4, <2>1, <2>2 DEF MergeInv, Outside
<1>5. CASE Outside /\ builder' = [builder EXCEPT !.opt = <<0>>] /\ Logged("opt", 0, << >>)
  <2>1. PICK o \in Occ : o = [field |-> "opt", value |-> 0, trail |-> << >>]
    BY Basics DEF Occ, AllFields
  <2>2. log' = Append(log, o)
    BY <1>5, <2>1 DEF Logged, Occurrence
  <2>3. builder' \in BuilderT
    BY <1>2, <1>5, Basics DEF BuilderT
  <2>4. Merges(builder, builder', log, o)
    BY <1>2, <1>5, <2>1 DEF Merges, BuilderT, OneOf
  <2> QED
    BY <1>1, <1>5, <2>1, <2>2, <2>3, <2>4, OccurrenceKeeps DEF Outside
<1> QED
  BY <1>3, <1>4, <1>5 DEF Malformed

(* Freeze: sorting the entries keeps the values of every key in order. *)
LEMMA FreezeKeeps ==
  ASSUME MergeInv, Freeze PROVE MergeInv'
<1>1. /\ Outside /\ result' = "frozen" /\ builder' = Frozen(builder) /\ phase' = phase
      /\ view' = IF phase = "first" THEN builder' ELSE view
      /\ entry' = entry /\ frame' = frame /\ log' = log
  BY DEF Freeze
<1>2. builder \in BuilderT /\ frame \in FrameT /\ log \in Seq(Occ) /\ OthersAre(builder, log, entry)
      /\ ChildIs(builder, log) /\ builder.map \in Seq(PairT)
  BY <1>1 DEF MergeInv, Outside, BuilderT
<1>3. \A x \in PairT : x.key \in Int
  BY ScalarAssumption DEF PairT, Scalars
<1>4. PICK m \in Seq(PairT) : m = SortedByKey(builder.map)
  BY <1>2, <1>3, SortFacts
<1>5. builder' = [builder EXCEPT !.map = m]
  BY <1>1, <1>4 DEF Frozen
<1>6. /\ builder' \in BuilderT
      /\ builder'.plain = builder.plain /\ builder'.opt = builder.opt /\ builder'.list = builder.list
      /\ builder'.must = builder.must /\ builder'.item = builder.item /\ builder'.choice = builder.choice
      /\ builder'.map = m /\ builder'.child = builder.child
  BY <1>2, <1>5 DEF BuilderT
<1>7. MapIs(builder', log)
  <2>1. \A k : ValuesOf(m, k) = ValuesOf(builder.map, k)
    BY <1>2, <1>3, <1>4, SortKeepsValues
  <2> QED
    BY <1>2, <1>6, <2>1, Zenon DEF MapIs, OthersAre
<1>8. OthersAre(builder', log, entry) /\ ChildIs(builder', log)
  BY <1>2, <1>6, <1>7, Zenon DEF OthersAre, PlainIs, OptIs, ListIs, MustIs, ItemIs, ChoiceIs, ChildIs
<1>9. Sorted(m)
  <2>1. PICK b \in Seq(PairT), n \in Nat : b = builder.map /\ n = Len(b)
    BY <1>2, LenProperties
  <2>2. /\ Len(m) = n
        /\ Origin(b) \in [1 .. n -> 1 .. n]
        /\ \A p \in 1 .. n : m[p] = b[Origin(b)[p]]
    BY <1>3, <1>4, <2>1, SortFacts
  <2>3. \A p, q \in 1 .. n : p < q => Before(b, Origin(b)[p], Origin(b)[q])
    BY <1>3, <2>1, SortFacts
  <2> SUFFICES ASSUME NEW p \in 1 .. n, NEW q \in 1 .. n, p < q PROVE m[p].key <= m[q].key
    BY <2>2 DEF Sorted
  <2>4. PICK i \in 1 .. n, j \in 1 .. n : i = Origin(b)[p] /\ j = Origin(b)[q]
    BY <2>2
  <2>5. Before(b, i, j) /\ m[p] = b[i] /\ m[q] = b[j]
    BY <2>2, <2>3, <2>4
  <2>6. b[i].key \in Int /\ b[j].key \in Int
    BY <1>3, <2>1
  <2>7. b[i].key <= b[j].key
    BY <2>5, <2>6 DEF Before
  <2> QED
    BY <2>5, <2>7, Zenon
<1>10. Sorted(builder'.map) /\ (phase' = "first" => view' = builder') /\ view' \in BuilderT
  BY <1>1, <1>6, <1>9 DEF MergeInv
<1>11. "none" \notin NestedFields /\ frame.field = "none"
  BY <1>1 DEF NestedFields, Outside
<1> QED
  BY <1>1, <1>2, <1>6, <1>8, <1>10, <1>11 DEF MergeInv, Outside

(* A new builder, which was given nothing, holds nothing. *)
LEMMA NewIs ==
  ASSUME NEW e
  PROVE  New(e) \in BuilderT /\ OthersAre(New(e), << >>, e) /\ ChildIs(New(e), << >>)
<1>1. PICK l \in Seq(Occ) : l = << >>
  BY EmptySeq
<1>2. PICK p \in Scalars : p = New(e).plain
  BY DefaultAssumption, Basics DEF New, Scalars
<1>3. PICK b : b = New(e)
  OBVIOUS
<1>4. b = [plain |-> p, opt |-> << >>, list |-> << >>, must |-> NewChild, child |-> << >>, item |-> << >>,
           choice |-> Unset, map |-> << >>]
  BY <1>2, <1>3 DEF New
<1>5. Unset \in ChoiceT /\ Unset.variant = "unset"
  BY Basics DEF Unset, ChoiceT
<1>6. b \in BuilderT
  <2>1. << >> \in Seq(Scalars) /\ << >> \in Seq(ChildT) /\ << >> \in Seq(PairT)
    BY EmptySeq
  <2> QED
    BY <1>4, <1>5, <2>1, Basics DEF BuilderT
<1>7. PICK o \in Occ : o = [field |-> "plain", value |-> 0, trail |-> << >>]
  BY Basics DEF Occ, AllFields
<1>8. \A F : Those(l, F) = << >>
  BY <1>1, <1>7, ThoseFacts
<1>9. /\ \A d : LastOr(<< >>, d) = d
      /\ LastIfAny(<< >>) = << >>
  BY DEF LastOr, LastIfAny
<1>10. ValuesIn(<< >>) = << >> /\ ItemsIn(<< >>) = << >> /\ PairsIn(<< >>) = << >> /\ Trails(<< >>) = << >>
  BY <1>1, <1>7, MapFacts, OccTrails
<1>11. ChildOf(<< >>) = NewChild
  BY Basics DEF NoFrame
<1>12. PlainIs(b, l, e)
  BY <1>3, <1>8, <1>9, Zenon DEF PlainIs
<1>13. OptIs(b, l) /\ ListIs(b, l) /\ MustIs(b, l) /\ ItemIs(b, l) /\ ChildIs(b, l)
  BY <1>4, <1>8, <1>9, <1>10, <1>11 DEF OptIs, ListIs, MustIs, ItemIs, ChildIs
<1>14. ChoiceIs(b, l)
  BY <1>4, <1>5, <1>8 DEF ChoiceIs, ChoiceOf
<1>15. MapIs(b, l)
  BY <1>4, <1>8, <1>10 DEF MapIs
<1> QED
  BY <1>1, <1>3, <1>6, <1>12, <1>13, <1>14, <1>15 DEF OthersAre

(* The invariant holds at first. *)
LEMMA InitInv ==
  ASSUME Init PROVE MergeInv
<1>1. builder = New(entry) /\ frame = NoFrame /\ log = << >> /\ result = "merging" /\ view = New(entry)
  BY DEF Init
<1>2. log \in Seq(Occ) /\ frame \in FrameT /\ frame.field = "none" /\ "none" \notin NestedFields
  BY <1>1, EmptySeq, Basics DEF NestedFields
<1> QED
  BY <1>1, <1>2, NewIs DEF MergeInv, Outside

(* Encode: the second input starts with a new builder. *)
LEMMA EncodeKeeps ==
  ASSUME MergeInv, Encode PROVE MergeInv'
<1>1. /\ builder' = New(entry) /\ log' = << >> /\ result' = "merging" /\ entry' = entry
      /\ frame' = frame /\ view' = view
  BY DEF Encode
<1>2. frame.field = "none" /\ frame \in FrameT /\ view \in BuilderT
  BY DEF Encode, MergeInv, Outside
<1>3. log' \in Seq(Occ) /\ "none" \notin NestedFields
  BY <1>1, EmptySeq DEF NestedFields
<1> QED
  BY <1>1, <1>2, <1>3, NewIs DEF MergeInv, Outside

(* Every step keeps the invariant. *)
LEMMA StepInv ==
  ASSUME MergeInv, [Next]_vars, Target = "builder" PROVE MergeInv'
<1>1. CASE UNCHANGED vars
  BY <1>1 DEF MergeInv, vars, Outside
<1>2. CASE WrongWireType
  <2>1. PICK f : Take("group", f, 0)
    BY <1>2 DEF WrongWireType
  <2>2. Outside /\ result' = "failed" /\ builder' = builder /\ frame' = frame /\ log' = log /\ entry' = entry /\ view' = view
    BY <1>2, <2>1 DEF WrongWireType, Take
  <2> QED
    BY <2>2 DEF MergeInv, Outside
<1>3. CASE MergeAgain
  BY <1>3 DEF MergeAgain, MergeInv, Outside
<1>4. CASE CopyToBuilder
  BY <1>4 DEF CopyToBuilder, MergeInv, Outside
<1> QED
  BY <1>1, <1>2, <1>3, <1>4, PlainKeeps, OptionalKeeps, ElementKeeps, NumberKeeps, OpenNewKeeps, OpenChildKeeps,
     OpenRequiredKeeps, OpenVariantKeeps, NestedKeeps, PairKeeps, CloseKeeps, MalformedKeeps, FreezeKeeps, EncodeKeeps DEF Next

(* The invariant holds of every merge, of the second input too.            *)
LEMMA Invariance ==
  ASSUME Target = "builder"
  PROVE  Spec => []MergeInv
<1>1. Init => MergeInv
  BY InitInv
<1>2. MergeInv /\ [Next]_vars => MergeInv'
  BY StepInv
<1> QED
  BY <1>1, <1>2, PTL DEF Spec

(* Whatever is given to a merge, in whatever order, interleaved and cut  *)
(* short: the builder holds the meaning of the occurrences it was given. *)
(* That is MergesOccurrences of a merge into a builder; a merge into a   *)
(* view is the subject of MergeClaims.                                   *)
THEOREM WhatWasGivenIsHeld ==
  ASSUME Target = "builder"
  PROVE  Spec => []MergesOccurrences
<1>1. MergeInv => MergesOccurrences
  <2> SUFFICES ASSUME MergeInv, Outside, phase = "first" PROVE MergesOccurrences
    BY DEF MergesOccurrences
  <2>1. OthersAre(builder, log, entry) /\ ChildIs(builder, log)
    BY DEF MergeInv, Outside
  <2>2. \A F : Given(F) = Those(log, F)
    BY DEF Given, Those
  <2>3. Pairs = PairsIn(Those(log, {"entry"}))
    BY <2>2 DEF Pairs, PairsIn
  <2> QED
    BY <2>1, <2>2, <2>3 DEF MergesOccurrences, OthersAre, PlainIs, OptIs, ListIs, MustIs, ChildIs, ItemIs, ChoiceIs, MapIs,
       ValuesIn, ItemsIn, OneOf
<1> QED
  BY <1>1, Invariance, PTL

-----------------------------------------------------------------------------
(* Lookups in a frozen map *)

(* The window of a search. *)
WindowT(n) == [lo : 1 .. n + 1, hi : 1 .. n + 1, found : 0 .. n]

(* After t turns the window holds every entry of the key, or one was hit.  *)
Searched(m, key, w, t) ==
  /\ w.found # 0 => m[w.found].key = key
  /\ w.found = 0 => /\ \A i \in 1 .. Len(m) : i < w.lo => m[i].key < key
                    /\ \A i \in 1 .. Len(m) : w.hi <= i => key < m[i].key
                    /\ w.hi - w.lo <= Len(m) - t

(* One turn of the search keeps the window around the entries of the key, *)
(* and makes it smaller.                                                  *)
LEMMA NarrowedFacts ==
  ASSUME NEW E, \A e \in E : e.key \in Int, NEW m \in Seq(E), NEW key \in Int, NEW w \in WindowT(Len(m))
  PROVE  /\ Narrowed(m, key, w) \in WindowT(Len(m))
         /\ \A t \in Nat : Sorted(m) /\ t < Len(m) /\ Searched(m, key, w, t) => Searched(m, key, Narrowed(m, key, w), t + 1)
<1>1. PICK n \in Nat : n = Len(m)
  BY LenProperties
<1>2. \A i \in 1 .. n : m[i].key \in Int
  BY <1>1
<1>3. PICK lo \in 1 .. n + 1, hi \in 1 .. n + 1, found \in 0 .. n : w = [lo |-> lo, hi |-> hi, found |-> found]
  BY <1>1 DEF WindowT
<1>4. CASE found # 0 \/ lo >= hi
  <2>1. Narrowed(m, key, w) = w
    BY <1>3, <1>4 DEF Narrowed
  <2>2. w.lo = lo /\ w.hi = hi /\ w.found = found
    BY <1>3
  <2>3. \A t \in Nat : t < n /\ Searched(m, key, w, t) => Searched(m, key, w, t + 1)
    BY <1>1, <1>4, <2>2 DEF Searched
  <2> QED
    BY <1>1, <2>1, <2>3
<1>5. CASE found = 0 /\ lo < hi
  <2>1. PICK mid \in 1 .. n : mid = (lo + hi) \div 2 /\ lo <= mid /\ mid < hi
    <3>1. (lo + hi) \div 2 \in Int /\ lo <= (lo + hi) \div 2 /\ (lo + hi) \div 2 < hi
      BY <1>5
    <3> QED
      BY <3>1
  <2>2. PICK x : /\ x = Narrowed(m, key, w)
                 /\ m[mid].key = key => x = [lo |-> lo, hi |-> hi, found |-> mid]
                 /\ m[mid].key < key => x = [lo |-> mid + 1, hi |-> hi, found |-> 0]
                 /\ m[mid].key > key => x = [lo |-> lo, hi |-> mid, found |-> 0]
    <3>1. w.lo = lo /\ w.hi = hi /\ w.found = 0 /\ ~ (lo >= hi)
      BY <1>3, <1>5
    <3>2. Narrowed(m, key, w) =
            IF m[mid].key = key THEN [w EXCEPT !.found = mid]
            ELSE IF m[mid].key < key THEN [w EXCEPT !.lo = mid + 1]
            ELSE [w EXCEPT !.hi = mid]
      BY <2>1, <3>1, Zenon DEF Narrowed
    <3>3. m[mid].key \in Int
      BY <1>2
    <3>4. /\ [w EXCEPT !.found = mid] = [lo |-> lo, hi |-> hi, found |-> mid]
          /\ [w EXCEPT !.lo = mid + 1] = [lo |-> mid + 1, hi |-> hi, found |-> 0]
          /\ [w EXCEPT !.hi = mid] = [lo |-> lo, hi |-> mid, found |-> 0]
      BY <1>3, <1>5
    <3> QED
      BY <3>2, <3>3, <3>4
  <2>3. m[mid].key \in Int
    BY <1>2
  <2>4. x \in WindowT(n)
    <3>1. CASE m[mid].key = key
      <4>1. x = [lo |-> lo, hi |-> hi, found |-> mid] /\ mid \in 0 .. n
        BY <2>2, <3>1
      <4> QED
        BY <4>1 DEF WindowT
    <3>2. CASE m[mid].key < key
      <4>1. mid + 1 \in 1 .. n + 1
        BY <2>1
      <4> QED
        BY <1>5, <2>2, <3>2, <4>1 DEF WindowT
    <3>3. CASE m[mid].key > key
      <4>1. mid \in 1 .. n + 1
        BY <2>1
      <4> QED
        BY <1>5, <2>2, <3>3, <4>1 DEF WindowT
    <3> QED
      BY <2>3, <3>1, <3>2, <3>3
  <2>5. ASSUME NEW t \in Nat, Sorted(m), t < n, Searched(m, key, w, t) PROVE Searched(m, key, x, t + 1)
    <3>1. /\ \A i \in 1 .. n : i < lo => m[i].key < key
          /\ \A i \in 1 .. n : hi <= i => key < m[i].key
          /\ hi - lo <= n - t
      BY <1>1, <1>3, <1>5, <2>5 DEF Searched
    <3>2. \A i, j \in 1 .. n : i < j => m[i].key <= m[j].key
      BY <1>1, <2>5 DEF Sorted
    <3>3. CASE m[mid].key = key
      BY <2>1, <2>2, <3>3 DEF Searched
    <3>4. CASE m[mid].key < key
      <4>1. x.lo = mid + 1 /\ x.hi = hi /\ x.found = 0
        BY <2>2, <3>4
      <4>2. \A i \in 1 .. n : i < mid + 1 => m[i].key < key
        <5> SUFFICES ASSUME NEW i \in 1 .. n, i < mid + 1 PROVE m[i].key < key
          OBVIOUS
        <5>1. i = mid \/ m[i].key <= m[mid].key
          BY <3>2
        <5> QED
          BY <1>2, <3>4, <5>1
      <4>3. hi - (mid + 1) <= n - (t + 1)
        BY <2>1, <3>1
      <4> QED
        BY <1>1, <3>1, <4>1, <4>2, <4>3 DEF Searched
    <3>5. CASE m[mid].key > key
      <4>1. x.lo = lo /\ x.hi = mid /\ x.found = 0
        BY <2>2, <3>5
      <4>2. \A i \in 1 .. n : mid <= i => key < m[i].key
        <5> SUFFICES ASSUME NEW i \in 1 .. n, mid <= i PROVE key < m[i].key
          OBVIOUS
        <5>1. i = mid \/ m[mid].key <= m[i].key
          BY <3>2
        <5> QED
          BY <1>2, <3>5, <5>1
      <4>3. mid - lo <= n - (t + 1)
        BY <2>1, <3>1
      <4> QED
        BY <1>1, <3>1, <4>1, <4>2, <4>3 DEF Searched
    <3> QED
      BY <2>3, <3>3, <3>4, <3>5
  <2> QED
    BY <1>1, <2>2, <2>4, <2>5
<1> QED
  BY <1>4, <1>5

(* The turns of a search. *)
Windows(f, m, key) ==
  f = [n \in 0 .. Len(m) |-> IF n = 0 THEN [lo |-> 1, hi |-> Len(m) + 1, found |-> 0]
                             ELSE Narrowed(m, key, f[n - 1])]

(* In a sorted map the search finds an entry of the key, if there is one. *)
LEMMA SearchFacts ==
  ASSUME NEW E, \A e \in E : e.key \in Int, NEW m \in Seq(E), NEW key \in Int, Sorted(m)
  PROVE  /\ BinarySearch(m, key) # 0 => BinarySearch(m, key) \in 1 .. Len(m) /\ m[BinarySearch(m, key)].key = key
         /\ BinarySearch(m, key) = 0 => \A i \in 1 .. Len(m) : m[i].key # key
<1>1. PICK n \in Nat : n = Len(m)
  BY LenProperties
<1> DEFINE T == WindowT(n)
           a == [lo |-> 1, hi |-> n + 1, found |-> 0]
           G == [p \in (1 .. n) \X T |-> Narrowed(m, key, p[2])]
<1>2. a \in T
  BY DEF WindowT
<1>3. \A w \in T : Narrowed(m, key, w) \in T
  BY <1>1, NarrowedFacts
<1>4. G \in [(1 .. n) \X T -> T]
  BY <1>3
<1>5. \A i \in 1 .. n : \A w \in T : G[<<i, w>>] = Narrowed(m, key, w)
  OBVIOUS
<1> HIDE DEF G, T, a
<1>6. PICK f \in [0 .. n -> T] : Steps(f, n, a, G)
  BY <1>2, <1>4, Recursion
<1>7. Windows(f, m, key)
  <2>1. f = [i \in 0 .. n |-> IF i = 0 THEN a ELSE G[<<i, f[i - 1]>>]]
    BY <1>6, Zenon DEF Steps
  <2>2. ASSUME NEW i \in 0 .. n
        PROVE  f[i] = IF i = 0 THEN a ELSE Narrowed(m, key, f[i - 1])
    <3>1. CASE i = 0
      BY <2>1, <3>1
    <3>2. CASE i # 0
      <4>1. i \in 1 .. n /\ i - 1 \in 0 .. n
        BY <3>2
      <4>2. f[i - 1] \in T
        BY <4>1
      <4>3. f[i] = G[<<i, f[i - 1]>>]
        BY <2>1, <3>2, Zenon
      <4> QED
        BY <1>5, <3>2, <4>1, <4>2, <4>3, Zenon
    <3> QED
      BY <3>1, <3>2
  <2>3. f = [i \in 0 .. n |-> f[i]]
    OBVIOUS
  <2>4. f = [i \in 0 .. n |-> IF i = 0 THEN a ELSE Narrowed(m, key, f[i - 1])]
    BY <2>2, <2>3, Zenon
  <2> QED
    BY <1>1, <2>4, Zenon DEF Windows, a
<1> DEFINE F == CHOOSE g : Windows(g, m, key)
<1>8. Windows(F, m, key)
  BY <1>7, Zenon
<1>9. BinarySearch(m, key) = F[n].found
  BY <1>1, Zenon DEF BinarySearch, Windows
<1> HIDE DEF F
<1>10. F = [i \in 0 .. n |-> IF i = 0 THEN a ELSE Narrowed(m, key, F[i - 1])]
  BY <1>1, <1>8, Zenon DEF Windows, a
<1> DEFINE S == { t \in Nat : F[t] \in T /\ Searched(m, key, F[t], t) }
<1>11. 0 \in S
  <2>1. F[0] = a
    BY <1>10
  <2>2. Searched(m, key, a, 0)
    BY <1>1 DEF Searched, a
  <2> QED
    BY <1>2, <2>1, <2>2
<1>12. ASSUME NEW t \in Nat, t < n, t \in S PROVE t + 1 \in S
  <2>1. t + 1 \in 0 .. n /\ t + 1 # 0 /\ (t + 1) - 1 = t
    BY <1>12
  <2>2. F[t + 1] = Narrowed(m, key, F[t])
    <3>1. F[t + 1] = IF t + 1 = 0 THEN a ELSE Narrowed(m, key, F[(t + 1) - 1])
      BY <1>10, <2>1, Zenon
    <3> QED
      BY <2>1, <3>1, Zenon
  <2>3. PICK w \in T : w = F[t] /\ Searched(m, key, w, t)
    BY <1>12
  <2>4. Narrowed(m, key, w) \in T /\ Searched(m, key, Narrowed(m, key, w), t + 1)
    BY <1>1, <1>12, <2>3, NarrowedFacts DEF T
  <2> QED
    BY <2>2, <2>3, <2>4
<1>13. \A t \in Nat : t < n /\ t \in S => t + 1 \in S
  BY <1>12
<1>14. n \in S => F[n] \in T /\ Searched(m, key, F[n], n)
  OBVIOUS
<1> HIDE DEF S
<1>15. n \in S
  <2>1. \A t \in 0 .. n : t \in S
    BY <1>11, <1>13, Induction
  <2> QED
    BY <2>1
<1>16. PICK w \in T : w = F[n] /\ Searched(m, key, w, n)
  BY <1>14, <1>15
<1>17. w.lo \in 1 .. n + 1 /\ w.hi \in 1 .. n + 1 /\ w.found \in 0 .. n
  BY DEF T, WindowT
<1>18. ASSUME w.found = 0, NEW i \in 1 .. n PROVE m[i].key # key
  <2>1. m[i].key \in Int
    BY <1>1
  <2>2. i < w.lo \/ w.hi <= i
    BY <1>1, <1>16, <1>17, <1>18 DEF Searched
  <2> QED
    BY <1>1, <1>16, <1>18, <2>1, <2>2 DEF Searched
<1> QED
  BY <1>1, <1>9, <1>16, <1>17, <1>18 DEF Searched

(* A frozen map finds a key if and only if it was given, and answers one  *)
(* of the values given for it: the merge arms, the sort of freeze and the *)
(* search of ArenaMap together (LookupsFindEntries).                      *)
THEOREM LookupsFindWhatWasGiven ==
  ASSUME Target = "builder"
  PROVE  Spec => []LookupsFindEntries
<1>1. MergeInv => LookupsFindEntries
  <2> SUFFICES ASSUME MergeInv, result = "frozen", phase = "first", NEW k \in Scalars, NEW given, given = ValuesOf(Pairs, k)
               PROVE  IF ContainsKey(view.map, k)
                      THEN \E i \in DOMAIN given : given[i].value = Get(view.map, k)
                      ELSE given = << >>
    BY DEF LookupsFindEntries
  <2>1. PICK m \in Seq(PairT) : m = view.map /\ m = builder.map
    BY DEF MergeInv, BuilderT
  <2>2. Sorted(m)
    BY <2>1 DEF MergeInv
  <2>3. given = ValuesOf(m, k)
    <3>1. Pairs = PairsIn(Those(log, {"entry"}))
      BY DEF Pairs, PairsIn, Given, Those
    <3> QED
      BY <2>1, <3>1, Zenon DEF MergeInv, OthersAre, MapIs
  <2>4. PICK n \in Nat : n = Len(m)
    BY LenProperties
  <2>5. (\A x \in PairT : x.key \in Int) /\ k \in Int
    BY ScalarAssumption DEF PairT, Scalars
  <2>6. PICK b : /\ b = BinarySearch(m, k)
                 /\ b # 0 => b \in 1 .. n /\ m[b].key = k
                 /\ b = 0 => \A i \in 1 .. n : m[i].key # k
    BY <2>2, <2>4, <2>5, SearchFacts
  <2> DEFINE M(i) == Matches(m, "key", {k}, i)
  <2>7. /\ given \in Seq(PairT) /\ Len(given) = Cardinality(M(n))
        /\ \A i \in M(n) : given[Cardinality(M(i))] = m[i]
    <3>1. Placed(m, "key", {k})
      BY WherePlaces
    <3>2. given \in Seq(PairT)
      BY <2>3, WhereFacts DEF ValuesOf
    <3> QED
      BY <2>3, <2>4, <3>1, <3>2, Zenon DEF Placed, ValuesOf
  <2>8. \A i \in 0 .. n : \A j : j \in M(i) <=> j \in 1 .. i /\ m[j].key = k
    BY DEF Matches
  <2>9. \A i \in Nat : IsFiniteSet(M(i)) /\ Cardinality(M(i)) \in Nat
    <3> SUFFICES ASSUME NEW i \in Nat PROVE IsFiniteSet(M(i)) /\ Cardinality(M(i)) \in Nat
      OBVIOUS
    <3>1. Counted(m, "key", {k}, i)
      BY MatchesFacts, Zenon
    <3> QED
      BY <3>1, Zenon DEF Counted
  <2> HIDE DEF M
  <2>10. CASE b = 0
    <3>1. M(n) = {}
      BY <2>6, <2>8, <2>10
    <3>2. Len(given) = 0
      BY <2>7, <3>1, FS_EmptySet
    <3>3. given = << >>
      BY <2>7, <3>2, EmptySeq
    <3> QED
      BY <2>1, <2>6, <2>10, <3>3 DEF ContainsKey
  <2>11. CASE b # 0
    <3>1. b \in 1 .. n /\ b \in M(n) /\ b \in M(b) /\ b \in Nat
      BY <2>6, <2>8, <2>11
    <3>2. M(b) \in SUBSET M(n)
      BY <2>8, <3>1
    <3>3. Cardinality(M(b)) <= Cardinality(M(n))
      BY <2>9, <3>2, FS_Subset
    <3>4. Cardinality(M(b)) # 0
      BY <2>9, <3>1, FS_EmptySet
    <3>5. PICK c \in Nat : c = Cardinality(M(b)) /\ c \in 1 .. Len(given)
      BY <2>7, <2>9, <3>1, <3>3, <3>4
    <3>6. c \in DOMAIN given /\ given[c] = m[b]
      BY <2>7, <3>1, <3>5, LenProperties
    <3>7. Get(view.map, k) = m[b].value /\ ContainsKey(view.map, k)
      BY <2>1, <2>6, <2>11 DEF Get, ContainsKey
    <3> QED
      BY <3>6, <3>7
  <2> QED
    BY <2>10, <2>11
<1> QED
  BY <1>1, Invariance, PTL

-----------------------------------------------------------------------------
(* The length of an encoding *)

(* How numbers are added up, one after the other. *)
Adds(f, s) == f = [i \in 0 .. Len(s) |-> IF i = 0 THEN 0 ELSE f[i - 1] + s[i]]

Added(f, s) ==
  /\ Total(s) = f[Len(s)]
  /\ f[0] = 0
  /\ \A n \in Nat : n < Len(s) => f[n + 1] = f[n] + s[n + 1]

(* There is a function that adds a sequence up: Total is defined by one. *)
LEMMA AddsExist ==
  ASSUME NEW s \in Seq(Nat)
  PROVE  \E f \in [0 .. Len(s) -> Nat] : Adds(f, s)
<1>1. Len(s) \in Nat
  BY LenProperties
<1> DEFINE G == [p \in (1 .. Len(s)) \X Nat |-> p[2] + s[p[1]]]
<1>2. G \in [(1 .. Len(s)) \X Nat -> Nat]
  <2> SUFFICES ASSUME NEW i \in 1 .. Len(s), NEW t \in Nat
               PROVE  t + s[i] \in Nat
    OBVIOUS
  <2>1. s[i] \in Nat
    BY ElementOfSeq
  <2> QED
    BY <2>1
<1>3. 0 \in Nat
  OBVIOUS
<1>4. \A i \in 1 .. Len(s) : \A t \in Nat : G[<<i, t>>] = t + s[i]
  OBVIOUS
<1> HIDE DEF G
<1>5. PICK f \in [0 .. Len(s) -> Nat] : Steps(f, Len(s), 0, G)
  BY <1>1, <1>2, <1>3, Recursion
<1>6. f = [i \in 0 .. Len(s) |-> IF i = 0 THEN 0 ELSE G[<<i, f[i - 1]>>]]
  BY <1>5, Zenon DEF Steps
<1>7. ASSUME NEW i \in 0 .. Len(s)
      PROVE  f[i] = IF i = 0 THEN 0 ELSE f[i - 1] + s[i]
  <2>1. CASE i = 0
    BY <1>6, <2>1
  <2>2. CASE i # 0
    <3>1. i \in 1 .. Len(s) /\ i - 1 \in 0 .. Len(s)
      BY <1>1, <2>2
    <3>2. f[i - 1] \in Nat
      BY <3>1
    <3>3. f[i] = G[<<i, f[i - 1]>>]
      BY <1>6, <2>2, Zenon
    <3> QED
      BY <1>4, <2>2, <3>1, <3>2, <3>3, Zenon
  <2> QED
    BY <2>1, <2>2
<1>8. f = [i \in 0 .. Len(s) |-> f[i]]
  OBVIOUS
<1>9. Adds(f, s)
  BY <1>7, <1>8, Zenon DEF Adds
<1> QED
  BY <1>9

(* Total, one number at a time. *)
LEMMA TotalSteps ==
  ASSUME NEW s \in Seq(Nat)
  PROVE  \E f \in [0 .. Len(s) -> Nat] : Added(f, s)
<1>1. Len(s) \in Nat /\ Len(s) \in 0 .. Len(s)
  BY LenProperties
<1> DEFINE F == CHOOSE f : Adds(f, s)
<1>2. Adds(F, s)
  BY AddsExist, Zenon
<1>3. Total(s) = F[Len(s)]
  BY Zenon DEF Total, Adds
<1> HIDE DEF F
<1>4. F = [i \in 0 .. Len(s) |-> IF i = 0 THEN 0 ELSE F[i - 1] + s[i]]
  BY <1>2, Zenon DEF Adds
<1>5. F[0] = 0
  BY <1>1, <1>4
<1>6. ASSUME NEW n \in Nat, n < Len(s)
      PROVE  F[n + 1] = F[n] + s[n + 1]
  <2>1. n + 1 \in 0 .. Len(s) /\ n + 1 # 0 /\ (n + 1) - 1 = n
    BY <1>1, <1>6
  <2>2. F[n + 1] = IF n + 1 = 0 THEN 0 ELSE F[(n + 1) - 1] + s[n + 1]
    BY <1>4, <2>1, Zenon
  <2> QED
    BY <2>1, <2>2, Zenon
<1> DEFINE T == { n \in Nat : F[n] \in Nat }
<1>7. 0 \in T
  BY <1>5
<1>8. ASSUME NEW n \in Nat, n < Len(s), n \in T PROVE n + 1 \in T
  <2>1. F[n] \in Nat /\ s[n + 1] \in Nat
    BY <1>1, <1>8
  <2>2. F[n] + s[n + 1] \in Nat
    BY <2>1
  <2>3. F[n + 1] \in Nat
    BY <1>6, <1>8, <2>2, Zenon
  <2> QED
    BY <2>3
<1>9. \A n \in Nat : n < Len(s) /\ n \in T => n + 1 \in T
  BY <1>8
<1>10. \A n \in 0 .. Len(s) : n \in T => F[n] \in Nat
  OBVIOUS
<1> HIDE DEF T
<1>11. \A n \in 0 .. Len(s) : n \in T
  BY <1>1, <1>7, <1>9, Induction
<1>12. \A n \in 0 .. Len(s) : F[n] \in Nat
  BY <1>10, <1>11, Zenon
<1>13. F = [i \in 0 .. Len(s) |-> F[i]]
  <2>1. DOMAIN F = 0 .. Len(s)
    BY <1>4
  <2>2. \E g : F = [i \in 0 .. Len(s) |-> g[i]]
    BY <1>4, <2>1
  <2> QED
    BY <2>1, <2>2
<1>14. F \in [0 .. Len(s) -> Nat]
  BY <1>12, <1>13, Zenon
<1> QED
  BY <1>3, <1>5, <1>6, <1>14 DEF Added

(* The total of nothing, and of one number more. *)
LEMMA TotalFacts ==
  ASSUME NEW s \in Seq(Nat)
  PROVE  /\ Total(<< >>) = 0
         /\ Total(s) \in Nat
         /\ \A e \in Nat : Total(Append(s, e)) = Total(s) + e
<1>1. Len(s) \in Nat /\ Len(s) \in 0 .. Len(s)
  BY LenProperties
<1>2. Total(<< >>) = 0
  <2>1. << >> \in Seq(Nat) /\ Len(<< >>) = 0
    BY EmptySeq
  <2>2. PICK z \in Seq(Nat) : z = << >>
    BY <2>1
  <2>3. PICK f \in [0 .. Len(z) -> Nat] : Added(f, z)
    BY TotalSteps
  <2>4. Total(z) = f[Len(z)] /\ f[0] = 0
    BY <2>3, Zenon DEF Added
  <2> QED
    BY <2>1, <2>2, <2>4
<1>3. PICK f \in [0 .. Len(s) -> Nat] : Added(f, s)
  BY TotalSteps
<1>4. ASSUME NEW e \in Nat
      PROVE  Total(Append(s, e)) = Total(s) + e
  <2>1. PICK u \in Seq(Nat) : u = Append(s, e) /\ Len(u) = Len(s) + 1
                            /\ (\A i \in 1 .. Len(s) : u[i] = s[i]) /\ u[Len(s) + 1] = e
    BY AppendProperties
  <2>2. PICK g \in [0 .. Len(u) -> Nat] : Added(g, u)
    BY TotalSteps
  <2> DEFINE T == { n \in Nat : g[n] = f[n] }
  <2>3. 0 \in T
    BY <1>3, <2>2 DEF Added
  <2>4. ASSUME NEW n \in Nat, n < Len(s), n \in T PROVE n + 1 \in T
    <3>1. n < Len(u) /\ n + 1 \in 1 .. Len(s)
      BY <1>1, <2>1, <2>4
    <3>2. u[n + 1] = s[n + 1] /\ g[n] = f[n]
      BY <2>1, <2>4, <3>1
    <3>3. g[n + 1] = g[n] + u[n + 1]
      BY <2>2, <3>1, Zenon DEF Added
    <3>4. f[n + 1] = f[n] + s[n + 1]
      BY <1>3, <2>4, Zenon DEF Added
    <3>5. g[n + 1] = f[n + 1]
      BY <3>2, <3>3, <3>4, Zenon
    <3> QED
      BY <3>5
  <2>5. \A n \in Nat : n < Len(s) /\ n \in T => n + 1 \in T
    BY <2>4
  <2>6. Len(s) \in T => g[Len(s)] = f[Len(s)]
    OBVIOUS
  <2> HIDE DEF T
  <2>7. Len(s) \in T
    BY <1>1, <2>3, <2>5, Induction
  <2>8. Len(s) < Len(u)
    BY <1>1, <2>1
  <2>9. g[Len(s) + 1] = g[Len(s)] + u[Len(s) + 1]
    BY <1>1, <2>2, <2>8, Zenon DEF Added
  <2>10. Total(u) = g[Len(u)] /\ Total(s) = f[Len(s)]
    BY <1>3, <2>2, Zenon DEF Added
  <2> QED
    BY <2>1, <2>6, <2>7, <2>9, <2>10, Zenon
<1>5. Total(s) \in Nat
  BY <1>1, <1>3 DEF Added
<1> QED
  BY <1>2, <1>4, <1>5

(* The tokens of an encoding. *)
TokenT == [op : {"set", "open", "close", "group"}, field : AllFields \union {"key", "value"}, value : Nat]

(* The length of each token. *)
LensOf(s) == [i \in DOMAIN s |-> TokenLen(s[i])]

(* The length of a token is a number. *)
LEMMA TokenLenType == \A t \in TokenT : TokenLen(t) \in Nat
<1> TAKE t \in TokenT
<1>1. PICK v \in Nat : v = t.value
  BY DEF TokenT
<1>2. KeyLen + LenLen(v) \in Nat /\ KeyLen \in Nat /\ ScalarLen(v) \in Nat /\ KeyLen + ScalarLen(v) \in Nat
  BY DEF KeyLen, LenLen, ScalarLen
<1> QED
  BY <1>1, <1>2, Zenon DEF TokenLen

(* The bytes of nothing, and of one token more. *)
LEMMA BytesFacts ==
  ASSUME NEW s \in Seq(TokenT)
  PROVE  /\ Bytes(<< >>) = 0
         /\ Bytes(s) \in Nat
         /\ \A t \in TokenT : Bytes(Append(s, t)) = Bytes(s) + TokenLen(t)
<1>1. Len(s) \in Nat /\ DOMAIN s = 1 .. Len(s)
  BY LenProperties
<1>2. Bytes(<< >>) = 0
  <2>1. LensOf(<< >>) = << >>
    BY DEF LensOf
  <2>2. << >> \in Seq(Nat)
    BY EmptySeq
  <2>3. Total(<< >>) = 0
    BY <2>2, TotalFacts
  <2> QED
    BY <2>1, <2>3, Zenon DEF Bytes, LensOf
<1>3. LensOf(s) \in Seq(Nat) /\ Len(LensOf(s)) = Len(s) /\ \A i \in 1 .. Len(s) : LensOf(s)[i] = TokenLen(s[i])
  <2>1. \A i \in 1 .. Len(s) : TokenLen(s[i]) \in Nat
    BY <1>1, TokenLenType
  <2> QED
    BY <1>1, <2>1, Z3 DEF LensOf
<1>4. ASSUME NEW t \in TokenT PROVE Bytes(Append(s, t)) = Bytes(s) + TokenLen(t)
  <2>1. PICK u \in Seq(TokenT) : u = Append(s, t) /\ Len(u) = Len(s) + 1
                              /\ (\A i \in 1 .. Len(s) : u[i] = s[i]) /\ u[Len(s) + 1] = t
    BY AppendProperties
  <2>2. DOMAIN u = 1 .. Len(u)
    BY LenProperties
  <2>3. TokenLen(t) \in Nat
    BY TokenLenType
  <2>4. Append(LensOf(s), TokenLen(t)) = LensOf(u)
    BY <1>1, <1>3, <2>1, <2>2 DEF LensOf
  <2>5. Total(Append(LensOf(s), TokenLen(t))) = Total(LensOf(s)) + TokenLen(t)
    BY <1>3, <2>3, TotalFacts
  <2> QED
    BY <2>1, <2>4, <2>5, Zenon DEF Bytes, LensOf
<1>5. Total(LensOf(s)) \in Nat
  BY <1>3, TotalFacts
<1> QED
  BY <1>2, <1>4, <1>5, Zenon DEF Bytes, LensOf

(* The bytes of two sequences of tokens. *)
LEMMA BytesOfConcat ==
  ASSUME NEW s \in Seq(TokenT), NEW t \in Seq(TokenT)
  PROVE  Bytes(s \o t) = Bytes(s) + Bytes(t)
<1> DEFINE P == { w \in Seq(TokenT) : Bytes(s \o w) = Bytes(s) + Bytes(w) }
<1>1. << >> \in P
  <2>1. << >> \in Seq(TokenT) /\ s \o << >> = s
    BY EmptySeq, ConcatEmptySeq
  <2>2. Bytes(<< >>) = 0 /\ Bytes(s) \in Nat
    BY BytesFacts
  <2>3. Bytes(s) + 0 = Bytes(s)
    BY <2>2
  <2> QED
    BY <2>1, <2>2, <2>3, Zenon
<1>2. ASSUME NEW w \in Seq(TokenT), NEW e \in TokenT, w \in P PROVE Append(w, e) \in P
  <2>1. PICK u \in Seq(TokenT) : u = s \o w
    BY ConcatProperties
  <2>2. s \o Append(w, e) = Append(u, e)
    BY <2>1
  <2>3. Append(w, e) \in Seq(TokenT)
    BY AppendProperties
  <2>4. Bytes(Append(u, e)) = Bytes(u) + TokenLen(e) /\ Bytes(Append(w, e)) = Bytes(w) + TokenLen(e)
    BY BytesFacts
  <2>5. Bytes(u) = Bytes(s) + Bytes(w)
    BY <1>2, <2>1
  <2>6. Bytes(s) \in Nat /\ Bytes(w) \in Nat /\ TokenLen(e) \in Nat
    BY BytesFacts, TokenLenType
  <2>7. (Bytes(s) + Bytes(w)) + TokenLen(e) = Bytes(s) + (Bytes(w) + TokenLen(e))
    BY <2>6
  <2> QED
    BY <2>2, <2>3, <2>4, <2>5, <2>7, Zenon
<1>3. \A w \in Seq(TokenT) : \A e \in TokenT : w \in P => Append(w, e) \in P
  BY <1>2
<1>4. \A w \in P : Bytes(s \o w) = Bytes(s) + Bytes(w)
  OBVIOUS
<1> HIDE DEF P
<1>5. \A w \in Seq(TokenT) : w \in P
  BY <1>1, <1>3, SeqInduction
<1> QED
  BY <1>4, <1>5

(* j ends what i opens. *)
Ends(w, i, j) == w[j].op = "close" /\ \A k \in i + 1 .. j - 1 : w[k].op # "close"

(* w is n bytes long, and so is what its lengths delimit. *)
Sized(w, n) ==
  /\ w \in Seq(TokenT) /\ Bytes(w) = n
  /\ \A i \in 1 .. Len(w) : w[i].op = "open" =>
       \E j \in i + 1 .. Len(w) : Ends(w, i, j) /\ w[i].value = Bytes(SubSeq(w, i + 1, j - 1))

(* What is put together is as long as its parts. *)
LEMMA SizedConcat ==
  ASSUME NEW u, NEW w, NEW m, NEW n, Sized(u, m), Sized(w, n)
  PROVE  Sized(u \o w, m + n)
<1>1. PICK a \in Seq(TokenT), b \in Seq(TokenT) : a = u /\ b = w
  BY DEF Sized
<1>2. PICK x \in Nat, y \in Nat : x = Len(a) /\ y = Len(b)
  BY LenProperties
<1>3. PICK c \in Seq(TokenT) : /\ c = a \o b /\ Len(c) = x + y
                               /\ \A i \in 1 .. x : c[i] = a[i]
                               /\ \A i \in 1 .. y : c[x + i] = b[i]
  <2>1. /\ a \o b \in Seq(TokenT) /\ Len(a \o b) = x + y
        /\ \A i \in 1 .. x + y : (a \o b)[i] = IF i <= x THEN a[i] ELSE b[i - x]
    BY <1>2, ConcatProperties
  <2>2. \A i \in 1 .. x : (a \o b)[i] = a[i]
    BY <2>1
  <2>3. \A i \in 1 .. y : (a \o b)[x + i] = b[i]
    <3> TAKE i \in 1 .. y
    <3>1. x + i \in 1 .. x + y /\ ~ (x + i <= x) /\ (x + i) - x = i
      OBVIOUS
    <3> QED
      BY <2>1, <3>1
  <2> QED
    BY <2>1, <2>2, <2>3, Zenon
<1>4. Bytes(c) = m + n
  BY <1>1, <1>3, BytesOfConcat DEF Sized
<1>5. ASSUME NEW i \in 1 .. Len(c), c[i].op = "open"
      PROVE  \E j \in i + 1 .. Len(c) : Ends(c, i, j) /\ c[i].value = Bytes(SubSeq(c, i + 1, j - 1))
  <2>1. CASE i \in 1 .. x
    <3>1. a[i] = c[i]
      BY <1>3, <2>1
    <3>2. PICK j \in i + 1 .. x : Ends(a, i, j) /\ a[i].value = Bytes(SubSeq(a, i + 1, j - 1))
      BY <1>1, <1>2, <1>5, <2>1, <3>1 DEF Sized
    <3>3. j \in i + 1 .. Len(c) /\ j \in 1 .. x /\ \A k \in i + 1 .. j - 1 : k \in 1 .. x
      BY <1>3, <2>1
    <3>4. Ends(c, i, j)
      BY <1>3, <3>2, <3>3, Zenon DEF Ends
    <3>5. SubSeq(c, i + 1, j - 1) = SubSeq(a, i + 1, j - 1)
      <4>1. CASE i + 1 <= j - 1
        <5>1. i + 1 \in 1 .. Len(a) /\ j - 1 \in 1 .. Len(a)
          BY <1>2, <2>1, <4>1
        <5> QED
          BY <1>3, <5>1, SubSeqOfConcat1
      <4>2. CASE j - 1 < i + 1
        <5>1. i + 1 \in Int /\ j - 1 \in Int
          BY <2>1
        <5> QED
          BY <4>2, <5>1, SubSeqEmpty
      <4> QED
        BY <4>1, <4>2
    <3> QED
      BY <3>1, <3>2, <3>3, <3>4, <3>5, Zenon
  <2>2. CASE i \in x + 1 .. x + y
    <3>1. PICK h \in 1 .. y : i = x + h
      <4>1. i - x \in 1 .. y /\ i = x + (i - x)
        BY <2>2
      <4> QED
        BY <4>1
    <3>2. b[h] = c[i]
      BY <1>3, <3>1
    <3>3. PICK l \in h + 1 .. y : Ends(b, h, l) /\ b[h].value = Bytes(SubSeq(b, h + 1, l - 1))
      BY <1>1, <1>2, <1>5, <3>1, <3>2 DEF Sized
    <3>4. PICK j \in i + 1 .. Len(c) : j = x + l
      BY <1>3, <3>1
    <3>5. \A k \in i + 1 .. j - 1 : k - x \in h + 1 .. l - 1 /\ k - x \in 1 .. y /\ k = x + (k - x)
      BY <3>1, <3>4
    <3>6. \A k \in i + 1 .. j - 1 : c[k] = b[k - x]
      BY <1>3, <3>5
    <3>7. c[j] = b[l]
      BY <1>3, <3>4
    <3>8. Ends(c, i, j)
      BY <3>3, <3>5, <3>6, <3>7, Zenon DEF Ends
    <3>9. SubSeq(c, i + 1, j - 1) = SubSeq(b, h + 1, l - 1)
      <4>1. CASE h + 1 <= l - 1
        <5>1. /\ i + 1 \in Len(a) + 1 .. Len(a) + Len(b) /\ j - 1 \in Len(a) + 1 .. Len(a) + Len(b)
              /\ (i + 1) - Len(a) = h + 1 /\ (j - 1) - Len(a) = l - 1
          BY <1>2, <3>1, <3>4, <4>1
        <5>2. SubSeq(a \o b, i + 1, j - 1) = SubSeq(b, (i + 1) - Len(a), (j - 1) - Len(a))
          BY <5>1, SubSeqOfConcat2
        <5> QED
          BY <1>3, <5>1, <5>2, Zenon
      <4>2. CASE l - 1 < h + 1
        <5>1. i + 1 \in Int /\ j - 1 \in Int /\ h + 1 \in Int /\ l - 1 \in Int /\ j - 1 < i + 1
          BY <3>1, <3>4, <4>2
        <5>2. SubSeq(c, i + 1, j - 1) = << >> /\ SubSeq(b, h + 1, l - 1) = << >>
          BY <4>2, <5>1, SubSeqEmpty
        <5> QED
          BY <5>2
      <4> QED
        BY <4>1, <4>2
    <3> QED
      BY <3>2, <3>3, <3>8, <3>9, Zenon
  <2> QED
    BY <1>3, <2>1, <2>2
<1> QED
  BY <1>1, <1>3, <1>4, <1>5 DEF Sized

(* Nothing is no bytes long, and tokens that open nothing have no length to keep. *)
LEMMA SizedFlatTokens ==
  ASSUME NEW w \in Seq(TokenT), \A i \in 1 .. Len(w) : w[i].op # "open"
  PROVE  Sized(w, Bytes(w))
BY DEF Sized

(* A sequence of such parts. *)
LEMMA SizedFlat ==
  ASSUME NEW s \in Seq(Seq(TokenT)), NEW l \in Seq(Nat), Len(l) = Len(s),
         \A i \in 1 .. Len(s) : Sized(s[i], l[i])
  PROVE  Sized(Flat(s), Total(l))
<1>1. PICK n \in Nat : n = Len(s)
  BY LenProperties
<1>2. PICK f : Joined(f, s)
  BY FlatSteps
<1>3. PICK g \in [0 .. n -> Nat] : Added(g, l)
  BY <1>1, TotalSteps
<1> DEFINE T == { k \in Nat : Sized(f[k], g[k]) }
<1>4. 0 \in T
  <2>1. << >> \in Seq(TokenT) /\ Len(<< >>) = 0
    BY EmptySeq
  <2>2. Bytes(<< >>) = 0
    BY <2>1, BytesFacts
  <2>3. Sized(<< >>, 0)
    BY <2>1, <2>2 DEF Sized
  <2>4. f[0] = << >> /\ g[0] = 0
    BY <1>2, <1>3, Zenon DEF Joined, Added
  <2> QED
    BY <2>3, <2>4
<1>5. \A k \in Nat : k < n /\ k \in T => k + 1 \in T
  <2> SUFFICES ASSUME NEW k \in Nat, k < n, k \in T PROVE k + 1 \in T
    BY Zenon
  <2>1. f[k + 1] = f[k] \o s[k + 1] /\ g[k + 1] = g[k] + l[k + 1]
    BY <1>1, <1>2, <1>3, Zenon DEF Joined, Added
  <2>2. Sized(f[k], g[k])
    OBVIOUS
  <2>3. k + 1 \in 1 .. Len(s)
    BY <1>1
  <2>4. Sized(s[k + 1], l[k + 1])
    BY <2>3, Zenon
  <2>5. Sized(f[k] \o s[k + 1], g[k] + l[k + 1])
    BY <2>2, <2>4, SizedConcat
  <2>6. Sized(f[k + 1], g[k + 1])
    BY <2>1, <2>5, Zenon
  <2> QED
    BY <2>6
<1>6. n \in T => Sized(f[n], g[n])
  OBVIOUS
<1> HIDE DEF T
<1>7. n \in 0 .. n
  OBVIOUS
<1>8. n \in T
  BY <1>4, <1>5, <1>7, Induction
<1>9. Flat(s) = f[n] /\ Total(l) = g[n]
  BY <1>1, <1>2, <1>3, Zenon DEF Joined, Added
<1> QED
  BY <1>6, <1>8, <1>9, Zenon

(* Tokens that only set something, n bytes of them. *)
Inner(w, n) == w \in Seq(TokenT) /\ Bytes(w) = n /\ \A i \in 1 .. Len(w) : w[i].op = "set"

(* The bytes of one token. *)
LEMMA BytesOfOne ==
  ASSUME NEW t \in TokenT
  PROVE  <<t>> \in Seq(TokenT) /\ Len(<<t>>) = 1 /\ <<t>>[1] = t /\ Bytes(<<t>>) = TokenLen(t)
<1>1. << >> \in Seq(TokenT)
  BY EmptySeq
<1>2. Append(<< >>, t) = <<t>> /\ <<t>> \in Seq(TokenT) /\ Len(<<t>>) = 1 /\ <<t>>[1] = t
  OBVIOUS
<1>3. Bytes(Append(<< >>, t)) = Bytes(<< >>) + TokenLen(t) /\ Bytes(<< >>) = 0
  BY <1>1, BytesFacts
<1>4. 0 + TokenLen(t) = TokenLen(t)
  BY TokenLenType
<1> QED
  BY <1>2, <1>3, <1>4, Zenon

(* Neither nothing nor more of such tokens opens anything. *)
LEMMA InnerNothing == Inner(<< >>, 0)
<1>1. << >> \in Seq(TokenT) /\ Len(<< >>) = 0
  BY EmptySeq
<1>2. Bytes(<< >>) = 0
  BY <1>1, BytesFacts
<1> QED
  BY <1>1, <1>2 DEF Inner

(* Two runs of such tokens are one. *)
LEMMA InnerConcat ==
  ASSUME NEW u, NEW w, NEW m, NEW n, Inner(u, m), Inner(w, n)
  PROVE  Inner(u \o w, m + n)
<1>1. PICK a \in Seq(TokenT), b \in Seq(TokenT) : a = u /\ b = w
  BY DEF Inner
<1>2. PICK x \in Nat, y \in Nat : x = Len(a) /\ y = Len(b)
  BY LenProperties
<1>3. /\ a \o b \in Seq(TokenT) /\ Len(a \o b) = x + y
      /\ \A i \in 1 .. x + y : (a \o b)[i] = IF i <= x THEN a[i] ELSE b[i - x]
  BY <1>2, ConcatProperties
<1>4. \A i \in 1 .. x + y : (i <= x /\ i \in 1 .. x) \/ (~ (i <= x) /\ i - x \in 1 .. y)
  OBVIOUS
<1>5. (\A i \in 1 .. x : a[i].op = "set") /\ (\A i \in 1 .. y : b[i].op = "set")
  BY <1>1, <1>2 DEF Inner
<1>6. \A i \in 1 .. x + y : (a \o b)[i].op = "set"
  BY <1>3, <1>4, <1>5, Zenon
<1>7. Bytes(a \o b) = m + n
  BY <1>1, BytesOfConcat DEF Inner
<1> QED
  BY <1>1, <1>3, <1>6, <1>7 DEF Inner

(* Such tokens have no lengths to be wrong. *)
LEMMA InnerIsSized ==
  ASSUME NEW w, NEW n, Inner(w, n)
  PROVE  Sized(w, n)
BY DEF Inner, Sized

(* The parts of a token. *)
LEMMA TokenIs ==
  ASSUME NEW p \in {"set", "open", "close", "group"}, NEW f \in AllFields \union {"key", "value"}, NEW v \in Nat
  PROVE  \E t \in TokenT : t = Token(p, f, v) /\ t.op = p /\ t.field = f /\ t.value = v
<1>1. Token(p, f, v) \in TokenT
  BY DEF TokenT, Token
<1>2. Token(p, f, v).op = p /\ Token(p, f, v).field = f /\ Token(p, f, v).value = v
  BY DEF Token
<1> QED
  BY <1>1, <1>2

(* A token that sets a scalar, which may be left out. *)
LEMMA InnerOne ==
  ASSUME NEW f \in AllFields \union {"key", "value"}, f # "list", NEW v \in Nat
  PROVE  Inner(<<Token("set", f, v)>>, KeyLen + ScalarLen(v))
<1>1. PICK t \in TokenT : t = Token("set", f, v) /\ t.op = "set" /\ t.field = f /\ t.value = v
  BY TokenIs
<1>2. TokenLen(t) = KeyLen + ScalarLen(v)
  BY <1>1 DEF TokenLen
<1> QED
  BY <1>1, <1>2, BytesOfOne DEF Inner

(* A scalar that is left out if it is the default. *)
LEMMA SetUnlessInner ==
  ASSUME NEW f \in {"plain", "key", "value"}, NEW v \in Nat, NEW d \in Nat
  PROVE  Inner(SetUnless(f, v, d), IF v = d THEN 0 ELSE KeyLen + ScalarLen(v))
<1>1. Inner(<<Token("set", f, v)>>, KeyLen + ScalarLen(v))
  BY InnerOne DEF AllFields
<1> QED
  BY <1>1, InnerNothing DEF SetUnless

(* A scalar with explicit presence. *)
LEMMA OptionSetInner ==
  ASSUME NEW o \in Options(Scalars)
  PROVE  Inner(OptionSet("opt", o), IF o # << >> THEN KeyLen + ScalarLen(Head(o)) ELSE 0)
<1>1. CASE o = << >>
  <2>1. OptionSet("opt", o) = << >>
    BY <1>1 DEF OptionSet
  <2> QED
    BY <1>1, <2>1, InnerNothing
<1>2. CASE o # << >>
  <2>1. PICK v \in Scalars : o = <<v>>
    BY <1>2 DEF Options
  <2>2. v \in Nat
    BY ScalarAssumption DEF Scalars
  <2>3. Head(o) = v /\ o # << >>
    BY <2>1
  <2>4. OptionSet("opt", o) = <<Token("set", "opt", v)>>
    BY <2>1 DEF OptionSet
  <2>5. Inner(<<Token("set", "opt", v)>>, KeyLen + ScalarLen(v))
    BY <2>2, InnerOne DEF AllFields
  <2> QED
    BY <2>3, <2>4, <2>5, Zenon
<1> QED
  BY <1>1, <1>2

(* encode_raw and encoded_len of a nested message and of a map entry. *)
LEMMA ChildInner ==
  ASSUME NEW c \in ChildT
  PROVE  Inner(EncodeChild(c), ChildLen(c)) /\ ChildLen(c) \in Nat
<1>1. PICK v \in Nat, o \in Options(Scalars) : v = c.plain /\ o = c.opt
  BY ScalarAssumption DEF ChildT, Scalars
<1>2. PICK m : m = IF v = 0 THEN 0 ELSE KeyLen + ScalarLen(v)
  OBVIOUS
<1>3. PICK n : n = IF o # << >> THEN KeyLen + ScalarLen(Head(o)) ELSE 0
  OBVIOUS
<1>4. ChildLen(c) = m + n
  BY <1>1, <1>2, <1>3 DEF ChildLen
<1>5. Inner(SetUnless("plain", v, 0), m)
  BY <1>2, SetUnlessInner
<1>6. Inner(OptionSet("opt", o), n)
  BY <1>3, OptionSetInner, Zenon
<1>7. Inner(EncodeChild(c), m + n)
  BY <1>1, <1>5, <1>6, InnerConcat, Zenon DEF EncodeChild
<1>8. EncodeChild(c) \in Seq(TokenT) /\ Bytes(EncodeChild(c)) = m + n
  BY <1>7 DEF Inner
<1>9. m + n \in Nat
  BY <1>8, BytesFacts
<1> QED
  BY <1>4, <1>7, <1>9

(* The same of a key and a value. *)
LEMMA PairInner ==
  ASSUME NEW e \in PairT
  PROVE  Inner(SetUnless("key", e.key, 0) \o SetUnless("value", e.value, 0), PairLen(e)) /\ PairLen(e) \in Nat
<1>1. PICK k \in Nat, v \in Nat : k = e.key /\ v = e.value
  BY ScalarAssumption DEF PairT, Scalars
<1>2. PICK m : m = IF k = 0 THEN 0 ELSE KeyLen + ScalarLen(k)
  OBVIOUS
<1>3. PICK n : n = IF v = 0 THEN 0 ELSE KeyLen + ScalarLen(v)
  OBVIOUS
<1>4. PairLen(e) = m + n
  BY <1>1, <1>2, <1>3 DEF PairLen
<1>5. Inner(SetUnless("key", k, 0), m) /\ Inner(SetUnless("value", v, 0), n)
  BY <1>2, <1>3, SetUnlessInner
<1>6. Inner(SetUnless("key", k, 0) \o SetUnless("value", v, 0), m + n)
  BY <1>5, InnerConcat
<1>8. /\ SetUnless("key", k, 0) \o SetUnless("value", v, 0) \in Seq(TokenT)
      /\ Bytes(SetUnless("key", k, 0) \o SetUnless("value", v, 0)) = m + n
  BY <1>6 DEF Inner
<1>9. m + n \in Nat
  BY <1>8, BytesFacts
<1> QED
  BY <1>1, <1>4, <1>6, <1>9, Zenon

(* Between a length and its end. *)
LEMMA DelimitedSized ==
  ASSUME NEW f \in AllFields, f # "group", NEW w, NEW n \in Nat, Inner(w, n)
  PROVE  Sized(<<Token("open", f, n)>> \o w \o <<Token("close", f, 0)>>, Delimited(n))
<1>1. PICK o \in TokenT : o = Token("open", f, n) /\ o.op = "open" /\ o.field = f /\ o.value = n
  BY TokenIs
<1>2. PICK c \in TokenT : c = Token("close", f, 0) /\ c.op = "close" /\ c.field = f /\ c.value = 0
  BY TokenIs
<1>3. PICK b \in Seq(TokenT), x \in Nat : b = w /\ x = Len(b) /\ Bytes(b) = n /\ \A i \in 1 .. x : b[i].op = "set"
  BY LenProperties DEF Inner
<1>13. <<o>> \in Seq(TokenT) /\ <<c>> \in Seq(TokenT) /\ Bytes(<<o>>) = TokenLen(o) /\ Bytes(<<c>>) = TokenLen(c)
  BY BytesOfOne
<1>4. PICK u \in Seq(TokenT) : u = <<o>> \o b
  BY <1>13, ConcatProperties
<1>5. PICK v \in Seq(TokenT) : v = u \o <<c>>
  BY <1>13, ConcatProperties
<1>6. Len(v) = x + 2 /\ v[1] = o /\ v[x + 2] = c /\ \A i \in 1 .. x : v[i + 1] = b[i]
  BY <1>3, <1>4, <1>5
<1>7. Bytes(v) = Delimited(n)
  <2>1. Bytes(u) = TokenLen(o) + n /\ Bytes(v) = Bytes(u) + TokenLen(c)
    <3>1. Bytes(<<o>> \o b) = Bytes(<<o>>) + Bytes(b) /\ Bytes(u \o <<c>>) = Bytes(u) + Bytes(<<c>>)
      BY <1>13, BytesOfConcat
    <3> QED
      BY <1>3, <1>4, <1>5, <1>13, <3>1, Zenon
  <2>2. TokenLen(o) = KeyLen + LenLen(n) /\ TokenLen(c) = 0
    BY <1>1, <1>2 DEF TokenLen
  <2>3. KeyLen + LenLen(n) + n \in Nat
    BY DEF KeyLen, LenLen
  <2>4. (KeyLen + LenLen(n) + n) + 0 = KeyLen + LenLen(n) + n
    BY <2>3
  <2> QED
    BY <2>1, <2>2, <2>4, Zenon DEF Delimited
<1>8. Ends(v, 1, x + 2)
  <2>1. \A k \in 1 + 1 .. (x + 2) - 1 : k - 1 \in 1 .. x /\ v[k] = b[k - 1]
    <3> TAKE k \in 1 + 1 .. (x + 2) - 1
    <3>1. k - 1 \in 1 .. x /\ (k - 1) + 1 = k
      OBVIOUS
    <3> QED
      BY <1>6, <3>1
  <2>2. \A k \in 1 + 1 .. (x + 2) - 1 : v[k].op = "set"
    BY <1>3, <2>1, Zenon
  <2>3. \A k \in 1 + 1 .. (x + 2) - 1 : v[k].op # "close"
    BY <2>2
  <2> QED
    BY <1>2, <1>6, <2>3 DEF Ends
<1>9. v[1].value = Bytes(SubSeq(v, 1 + 1, (x + 2) - 1))
  <2>1. \A i \in 2 .. x + 1 : v[i] \in TokenT
    BY <1>6
  <2>2. PICK s \in Seq(TokenT) : s = SubSeq(v, 2, x + 1) /\ Len(s) = x /\ \A i \in 1 .. x : s[i] = v[2 + i - 1]
    <3>1. /\ SubSeq(v, 2, x + 1) \in Seq(TokenT)
          /\ Len(SubSeq(v, 2, x + 1)) = IF 2 <= x + 1 THEN (x + 1) - 2 + 1 ELSE 0
          /\ \A i \in 1 .. (x + 1) - 2 + 1 : SubSeq(v, 2, x + 1)[i] = v[2 + i - 1]
      BY <2>1, SubSeqProperties
    <3>2. (IF 2 <= x + 1 THEN (x + 1) - 2 + 1 ELSE 0) = x /\ (x + 1) - 2 + 1 = x
      OBVIOUS
    <3> QED
      BY <3>1, <3>2, Zenon
  <2>3. \A i \in 1 .. x : s[i] = b[i]
    <3> TAKE i \in 1 .. x
    <3>1. 2 + i - 1 = i + 1
      OBVIOUS
    <3> QED
      BY <1>6, <2>2, <3>1
  <2>4. s = b
    BY <1>3, <2>2, <2>3, SeqEqual
  <2>5. 1 + 1 = 2 /\ (x + 2) - 1 = x + 1
    OBVIOUS
  <2> QED
    BY <1>1, <1>3, <1>6, <2>2, <2>4, <2>5, Zenon
<1>10. ASSUME NEW i \in 1 .. Len(v), v[i].op = "open" PROVE i = 1
  <2>1. CASE i = 1
    BY <2>1
  <2>2. CASE i = x + 2
    BY <1>2, <1>6, <1>10, <2>2
  <2>3. CASE i \in 2 .. x + 1
    <3>1. i - 1 \in 1 .. x /\ (i - 1) + 1 = i
      BY <2>3
    <3>2. v[i] = b[i - 1]
      BY <1>6, <3>1
    <3> QED
      BY <1>3, <1>10, <3>1, <3>2
  <2> QED
    BY <1>6, <2>1, <2>2, <2>3
<1>11. x + 2 \in 1 + 1 .. Len(v)
  BY <1>6
<1>12. Sized(v, Delimited(n))
  BY <1>7, <1>8, <1>9, <1>10, <1>11, Zenon DEF Sized
<1> QED
  BY <1>1, <1>2, <1>3, <1>4, <1>5, <1>12, Zenon

(* A nested message. *)
LEMMA NestedSized ==
  ASSUME NEW f \in AllFields, f # "group", NEW c \in ChildT
  PROVE  Sized(EncodeNested(f, c), Delimited(ChildLen(c)))
<1>1. PICK n \in Nat : n = ChildLen(c) /\ Inner(EncodeChild(c), n)
  BY ChildInner
<1> QED
  BY <1>1, DelimitedSized DEF EncodeNested

(* A map entry. *)
LEMMA PairSized ==
  ASSUME NEW e \in PairT
  PROVE  Sized(EncodePair(e), Delimited(PairLen(e)))
<1>1. PICK a \in Seq(TokenT), b \in Seq(TokenT) : a = SetUnless("key", e.key, 0) /\ b = SetUnless("value", e.value, 0)
  BY SetUnlessInner, ScalarAssumption DEF Inner, PairT, Scalars
<1>2. PICK n \in Nat : n = PairLen(e) /\ Inner(a \o b, n)
  BY <1>1, PairInner, Zenon
<1>3. Sized(<<Token("open", "entry", n)>> \o (a \o b) \o <<Token("close", "entry", 0)>>, Delimited(n))
  BY <1>2, DelimitedSized DEF AllFields
<1>4. Token("open", "entry", n) \in TokenT
  BY DEF TokenT, Token, AllFields
<1>5. <<Token("open", "entry", n)>> \o (a \o b) = (<<Token("open", "entry", n)>> \o a) \o b
  BY <1>4, ConcatAssociative
<1> QED
  BY <1>1, <1>2, <1>3, <1>5, Zenon DEF EncodePair

(* With a key each. *)
Keyed(s) == [i \in DOMAIN s |-> KeyLen + s[i]]

(* The keys of repeated messages are counted apart from what they are keys of. *)
LEMMA KeyedTotal ==
  ASSUME NEW s \in Seq(Nat)
  PROVE  Keyed(s) \in Seq(Nat) /\ Len(Keyed(s)) = Len(s) /\ Total(Keyed(s)) = KeyLen * Len(s) + Total(s)
<1> DEFINE P == { w \in Seq(Nat) : /\ Keyed(w) \in Seq(Nat) /\ Len(Keyed(w)) = Len(w)
                                   /\ Total(Keyed(w)) = KeyLen * Len(w) + Total(w) }
<1>1. << >> \in P
  <2>1. << >> \in Seq(Nat) /\ Len(<< >>) = 0 /\ Keyed(<< >>) = << >>
    BY EmptySeq DEF Keyed
  <2>2. Total(<< >>) = 0
    BY <2>1, TotalFacts
  <2>3. KeyLen * 0 + 0 = 0
    BY DEF KeyLen
  <2> QED
    BY <2>1, <2>2, <2>3
<1>2. \A w \in Seq(Nat) : \A n \in Nat : w \in P => Append(w, n) \in P
  <2> SUFFICES ASSUME NEW w \in Seq(Nat), NEW n \in Nat, w \in P PROVE Append(w, n) \in P
    BY Zenon
  <2>1. PICK x \in Nat, k \in Seq(Nat) : x = Len(w) /\ k = Keyed(w) /\ Len(k) = x /\ Total(k) = KeyLen * x + Total(w)
    BY LenProperties
  <2>2. PICK u \in Seq(Nat) : u = Append(w, n) /\ Len(u) = x + 1 /\ (\A i \in 1 .. x : u[i] = w[i]) /\ u[x + 1] = n
    <3>1. /\ Append(w, n) \in Seq(Nat) /\ Len(Append(w, n)) = Len(w) + 1
          /\ \A i \in 1 .. Len(w) : Append(w, n)[i] = w[i]
          /\ Append(w, n)[Len(w) + 1] = n
      BY AppendProperties
    <3> QED
      BY <2>1, <3>1, Zenon
  <2>3. KeyLen = 1 /\ KeyLen + n \in Nat
    BY DEF KeyLen
  <2>4. Keyed(u) = Append(k, KeyLen + n)
    <3>1. DOMAIN u = 1 .. x + 1 /\ DOMAIN w = 1 .. x
      BY <2>1, <2>2, LenProperties
    <3>2. \A i \in 1 .. x : k[i] = KeyLen + w[i]
      BY <2>1, <3>1 DEF Keyed
    <3> QED
      BY <2>1, <2>2, <2>3, <3>1, <3>2 DEF Keyed
  <2>5. Append(k, KeyLen + n) \in Seq(Nat) /\ Len(Append(k, KeyLen + n)) = x + 1
    BY <2>1, <2>3, AppendProperties
  <2>6. Total(Append(k, KeyLen + n)) = Total(k) + (KeyLen + n) /\ Total(u) = Total(w) + n /\ Total(w) \in Nat
    BY <2>2, <2>3, TotalFacts
  <2>7. (KeyLen * x + Total(w)) + (KeyLen + n) = KeyLen * (x + 1) + (Total(w) + n)
    BY <2>3, <2>6
  <2>8. Total(Keyed(u)) = KeyLen * Len(u) + Total(u)
    BY <2>1, <2>2, <2>4, <2>6, <2>7, Zenon
  <2>9. Keyed(u) \in Seq(Nat) /\ Len(Keyed(u)) = Len(u)
    BY <2>2, <2>4, <2>5, Zenon
  <2> QED
    BY <2>2, <2>8, <2>9
<1>3. \A w \in P : Keyed(w) \in Seq(Nat) /\ Len(Keyed(w)) = Len(w) /\ Total(Keyed(w)) = KeyLen * Len(w) + Total(w)
  OBVIOUS
<1> HIDE DEF P
<1>4. \A w \in Seq(Nat) : w \in P
  BY <1>1, <1>2, SeqInduction
<1> QED
  BY <1>3, <1>4

(* A length prefix and what it is the length of. *)
Prefixed(n) == LenLen(n) + n

(* A length and its key. *)
LEMMA PrefixedFacts ==
  ASSUME NEW n \in Nat
  PROVE  Prefixed(n) \in Nat /\ Delimited(n) = KeyLen + Prefixed(n)
BY DEF Prefixed, Delimited, KeyLen, LenLen

(* Repeated messages, and the entries of a map. *)
LEMMA ItemsSized ==
  ASSUME NEW m \in Seq(ChildT)
  PROVE  Sized(Flat([i \in DOMAIN m |-> EncodeNested("item", m[i])]), ItemsLen(m))
<1>1. PICK n \in Nat : n = Len(m) /\ DOMAIN m = 1 .. n
  BY LenProperties
<1>2. \A i \in 1 .. n : m[i] \in ChildT
  BY <1>1
<1>3. \A i \in 1 .. n : ChildLen(m[i]) \in Nat /\ Sized(EncodeNested("item", m[i]), Delimited(ChildLen(m[i])))
  BY <1>2, ChildInner, NestedSized DEF AllFields, NestedFields
<1>4. \A i \in 1 .. n : Prefixed(ChildLen(m[i])) \in Nat
                        /\ Delimited(ChildLen(m[i])) = KeyLen + Prefixed(ChildLen(m[i]))
  BY <1>3, PrefixedFacts
<1>5. PICK l \in Seq(Nat) : /\ l = [i \in DOMAIN m |-> LenLen(ChildLen(m[i])) + ChildLen(m[i])]
                            /\ Len(l) = n /\ \A i \in 1 .. n : l[i] = Prefixed(ChildLen(m[i]))
  <2>1. PICK l : l = [i \in 1 .. n |-> Prefixed(ChildLen(m[i]))]
    OBVIOUS
  <2>2. l \in Seq(Nat) /\ Len(l) = n /\ \A i \in 1 .. n : l[i] = Prefixed(ChildLen(m[i]))
    BY <1>4, <2>1
  <2>3. l = [i \in DOMAIN m |-> LenLen(ChildLen(m[i])) + ChildLen(m[i])]
    BY <1>1, <2>1, Zenon DEF Prefixed
  <2> QED
    BY <2>2, <2>3
<1>6. PICK s \in Seq(Seq(TokenT)) : /\ s = [i \in DOMAIN m |-> EncodeNested("item", m[i])]
                                    /\ Len(s) = n /\ \A i \in 1 .. n : s[i] = EncodeNested("item", m[i])
  <2>1. \A i \in 1 .. n : EncodeNested("item", m[i]) \in Seq(TokenT)
    BY <1>3, Zenon DEF Sized
  <2>2. PICK s : s = [i \in 1 .. n |-> EncodeNested("item", m[i])]
    OBVIOUS
  <2>3. s \in Seq(Seq(TokenT)) /\ Len(s) = n /\ \A i \in 1 .. n : s[i] = EncodeNested("item", m[i])
    BY <2>1, <2>2
  <2>4. s = [i \in DOMAIN m |-> EncodeNested("item", m[i])]
    BY <1>1, <2>2, Zenon
  <2> QED
    BY <2>3, <2>4
<1>7. /\ Keyed(l) \in Seq(Nat) /\ Len(Keyed(l)) = n /\ \A i \in 1 .. n : Keyed(l)[i] = KeyLen + l[i]
      /\ Total(Keyed(l)) = KeyLen * n + Total(l)
  <2>1. Keyed(l) \in Seq(Nat) /\ Len(Keyed(l)) = n /\ Total(Keyed(l)) = KeyLen * n + Total(l)
    BY <1>5, KeyedTotal
  <2>2. \A i \in 1 .. n : Keyed(l)[i] = KeyLen + l[i]
    BY <1>5 DEF Keyed
  <2> QED
    BY <2>1, <2>2
<1>8. \A i \in 1 .. n : Sized(s[i], Keyed(l)[i])
  BY <1>3, <1>4, <1>5, <1>6, <1>7, Zenon
<1>9. Sized(Flat(s), Total(Keyed(l)))
  BY <1>6, <1>7, <1>8, SizedFlat
<1>10. ItemsLen(m) = KeyLen * n + Total(l)
  BY <1>1, <1>5, Zenon DEF ItemsLen
<1> QED
  BY <1>6, <1>7, <1>9, <1>10, Zenon

(* The entries of a map. *)
LEMMA MapSized ==
  ASSUME NEW m \in Seq(PairT)
  PROVE  Sized(Flat([i \in DOMAIN m |-> EncodePair(m[i])]), MapLen(m))
<1>1. PICK n \in Nat : n = Len(m) /\ DOMAIN m = 1 .. n
  BY LenProperties
<1>2. \A i \in 1 .. n : m[i] \in PairT
  BY <1>1
<1>3. \A i \in 1 .. n : PairLen(m[i]) \in Nat /\ Sized(EncodePair(m[i]), Delimited(PairLen(m[i])))
  BY <1>2, PairInner, PairSized
<1>4. \A i \in 1 .. n : Prefixed(PairLen(m[i])) \in Nat
                        /\ Delimited(PairLen(m[i])) = KeyLen + Prefixed(PairLen(m[i]))
  BY <1>3, PrefixedFacts
<1>5. PICK l \in Seq(Nat) : /\ l = [i \in DOMAIN m |-> LenLen(PairLen(m[i])) + PairLen(m[i])]
                            /\ Len(l) = n /\ \A i \in 1 .. n : l[i] = Prefixed(PairLen(m[i]))
  <2>1. PICK l : l = [i \in 1 .. n |-> Prefixed(PairLen(m[i]))]
    OBVIOUS
  <2>2. l \in Seq(Nat) /\ Len(l) = n /\ \A i \in 1 .. n : l[i] = Prefixed(PairLen(m[i]))
    BY <1>4, <2>1
  <2>3. l = [i \in DOMAIN m |-> LenLen(PairLen(m[i])) + PairLen(m[i])]
    BY <1>1, <2>1, Zenon DEF Prefixed
  <2> QED
    BY <2>2, <2>3
<1>6. PICK s \in Seq(Seq(TokenT)) : /\ s = [i \in DOMAIN m |-> EncodePair(m[i])]
                                    /\ Len(s) = n /\ \A i \in 1 .. n : s[i] = EncodePair(m[i])
  <2>1. \A i \in 1 .. n : EncodePair(m[i]) \in Seq(TokenT)
    BY <1>3, Zenon DEF Sized
  <2>2. PICK s : s = [i \in 1 .. n |-> EncodePair(m[i])]
    OBVIOUS
  <2>3. s \in Seq(Seq(TokenT)) /\ Len(s) = n /\ \A i \in 1 .. n : s[i] = EncodePair(m[i])
    BY <2>1, <2>2
  <2>4. s = [i \in DOMAIN m |-> EncodePair(m[i])]
    BY <1>1, <2>2, Zenon
  <2> QED
    BY <2>3, <2>4
<1>7. /\ Keyed(l) \in Seq(Nat) /\ Len(Keyed(l)) = n /\ \A i \in 1 .. n : Keyed(l)[i] = KeyLen + l[i]
      /\ Total(Keyed(l)) = KeyLen * n + Total(l)
  <2>1. Keyed(l) \in Seq(Nat) /\ Len(Keyed(l)) = n /\ Total(Keyed(l)) = KeyLen * n + Total(l)
    BY <1>5, KeyedTotal
  <2>2. \A i \in 1 .. n : Keyed(l)[i] = KeyLen + l[i]
    BY <1>5 DEF Keyed
  <2> QED
    BY <2>1, <2>2
<1>8. \A i \in 1 .. n : Sized(s[i], Keyed(l)[i])
  BY <1>3, <1>4, <1>5, <1>6, <1>7, Zenon
<1>9. Sized(Flat(s), Total(Keyed(l)))
  BY <1>6, <1>7, <1>8, SizedFlat
<1>10. MapLen(m) = KeyLen * n + Total(l)
  BY <1>1, <1>5, Zenon DEF MapLen
<1> QED
  BY <1>6, <1>7, <1>9, <1>10, Zenon

(* An optional message. *)
LEMMA OptionSized ==
  ASSUME NEW o \in Options(ChildT)
  PROVE  Sized(Flat([i \in DOMAIN o |-> EncodeNested("child", o[i])]),
               IF o # << >> THEN Delimited(ChildLen(Head(o))) ELSE 0)
<1>1. << >> \in Seq(Seq(TokenT)) /\ Flat(<< >>) = << >>
  BY EmptySeq, FlatFacts
<1>2. CASE o = << >>
  <2>1. [i \in DOMAIN o |-> EncodeNested("child", o[i])] = << >>
    BY <1>2
  <2> QED
    BY <1>1, <1>2, <2>1, InnerNothing, InnerIsSized, Zenon
<1>3. CASE o # << >>
  <2>1. PICK c \in ChildT : o = <<c>>
    BY <1>3 DEF Options
  <2>2. PICK w : w = EncodeNested("child", c) /\ Sized(w, Delimited(ChildLen(c)))
    BY NestedSized DEF AllFields, NestedFields
  <2>3. w \in Seq(TokenT)
    BY <2>2 DEF Sized
  <2>4. [i \in DOMAIN o |-> EncodeNested("child", o[i])] = <<w>>
    BY <2>1, <2>2
  <2>5. Append(<< >>, w) = <<w>>
    BY <2>3
  <2>6. Flat(Append(<< >>, w)) = << >> \o w
    BY <1>1, <2>3, FlatFacts
  <2>7. << >> \o w = w
    BY <2>3, ConcatEmptySeq
  <2>8. Head(o) = c
    BY <2>1
  <2> QED
    BY <1>3, <2>2, <2>4, <2>5, <2>6, <2>7, <2>8, Zenon
<1> QED
  BY <1>2, <1>3

(* A packed run. *)
LEMMA PackedSized ==
  ASSUME NEW m \in Seq(Scalars)
  PROVE  Sized(EncodePacked(m),
               IF m # << >> THEN Delimited(Total([i \in DOMAIN m |-> ScalarLen(m[i])])) ELSE 0)
<1>1. CASE m = << >>
  BY <1>1, InnerNothing, InnerIsSized DEF EncodePacked
<1>2. CASE m # << >>
  <2>1. PICK n \in Nat : n = Len(m) /\ DOMAIN m = 1 .. n /\ \A i \in 1 .. n : m[i] \in Nat
    BY LenProperties, ScalarAssumption DEF Scalars
  <2>2. \A i \in 1 .. n : Token("set", "list", m[i]) \in TokenT
    BY <2>1 DEF TokenT, Token, AllFields
  <2>3. PICK w \in Seq(TokenT) : /\ w = [i \in DOMAIN m |-> Token("set", "list", m[i])] /\ Len(w) = n
                                 /\ DOMAIN w = DOMAIN m /\ \A i \in 1 .. n : w[i] = Token("set", "list", m[i])
    <3>1. PICK w : w = [i \in 1 .. n |-> Token("set", "list", m[i])]
      OBVIOUS
    <3>2. w \in Seq(TokenT) /\ Len(w) = n /\ DOMAIN w = 1 .. n /\ \A i \in 1 .. n : w[i] = Token("set", "list", m[i])
      BY <2>2, <3>1
    <3>3. w = [i \in DOMAIN m |-> Token("set", "list", m[i])]
      BY <2>1, <3>1, Zenon
    <3> QED
      BY <2>1, <3>2, <3>3, Zenon
  <2>4. \A i \in 1 .. n : w[i].op = "set" /\ TokenLen(w[i]) = ScalarLen(m[i])
    <3> TAKE i \in 1 .. n
    <3>1. w[i].op = "set" /\ w[i].field = "list" /\ w[i].value = m[i]
      BY <2>3 DEF Token
    <3> QED
      BY <3>1 DEF TokenLen
  <2>5. Bytes(w) = Total([i \in DOMAIN m |-> ScalarLen(m[i])])
    <3>1. [i \in DOMAIN w |-> TokenLen(w[i])] = [i \in DOMAIN m |-> ScalarLen(m[i])]
      BY <2>1, <2>3, <2>4, Zenon
    <3> QED
      BY <3>1, Zenon DEF Bytes
  <2>6. Bytes(w) \in Nat
    BY BytesFacts
  <2>7. Inner(w, Bytes(w))
    BY <2>3, <2>4 DEF Inner
  <2>8. Sized(<<Token("open", "list", Bytes(w))>> \o w \o <<Token("close", "list", 0)>>, Delimited(Bytes(w)))
    BY <2>6, <2>7, DelimitedSized DEF AllFields
  <2> QED
    BY <1>2, <2>3, <2>5, <2>8, Zenon DEF EncodePacked
<1> QED
  BY <1>1, <1>2

(* A oneof. *)
LEMMA ChoiceSized ==
  ASSUME NEW c \in ChoiceT
  PROVE  Sized(EncodeChoice(c), ChoiceLen(c))
<1>1. c.variant \in {"unset", "number", "message", "group"} /\ c.number \in Nat /\ c.message \in ChildT
  BY ScalarAssumption DEF ChoiceT, OneOf, Scalars
<1>2. CASE c.variant = "unset"
  BY <1>2, InnerNothing, InnerIsSized DEF EncodeChoice, ChoiceLen
<1>3. CASE c.variant = "number"
  <2>1. Inner(<<Token("set", "number", c.number)>>, KeyLen + ScalarLen(c.number))
    BY <1>1, InnerOne DEF AllFields
  <2> QED
    BY <1>3, <2>1, InnerIsSized DEF EncodeChoice, ChoiceLen
<1>4. CASE c.variant = "message"
  <2>1. Sized(EncodeNested("message", c.message), Delimited(ChildLen(c.message)))
    BY <1>1, NestedSized DEF AllFields, NestedFields
  <2> QED
    BY <1>4, <2>1 DEF EncodeChoice, ChoiceLen
<1>5. CASE c.variant = "group"
  <2>1. PICK w \in Seq(TokenT), n \in Nat :
          w = EncodeChild(c.message) /\ n = ChildLen(c.message) /\ Sized(w, n)
    <3>1. Inner(EncodeChild(c.message), ChildLen(c.message)) /\ ChildLen(c.message) \in Nat
      BY <1>1, ChildInner
    <3> QED
      BY <3>1, InnerIsSized DEF Inner
  <2>2. PICK o \in TokenT : o = Token("group", "group", 0) /\ o.op = "group"
    BY TokenIs DEF AllFields, NestedFields
  <2>3. PICK e \in TokenT : e = Token("close", "group", 0) /\ e.op = "close" /\ e.field = "group"
    BY TokenIs DEF AllFields, NestedFields
  <2>4. TokenLen(o) = KeyLen /\ TokenLen(e) = KeyLen
    BY <2>2, <2>3 DEF TokenLen
  <2>5. Sized(<<o>>, KeyLen) /\ Sized(<<e>>, KeyLen)
    BY <2>2, <2>3, <2>4, BytesOfOne DEF Sized
  <2>6. Sized(<<o>> \o w, KeyLen + n)
    BY <2>1, <2>5, SizedConcat
  <2>7. Sized(<<o>> \o w \o <<e>>, (KeyLen + n) + KeyLen)
    BY <2>5, <2>6, SizedConcat
  <2>8. (KeyLen + n) + KeyLen = 2 * KeyLen + n
    BY DEF KeyLen
  <2>9. EncodeChoice(c) = <<o>> \o w \o <<e>> /\ ChoiceLen(c) = 2 * KeyLen + n
    BY <1>5, <2>1, <2>2, <2>3 DEF EncodeChoice, ChoiceLen
  <2> QED
    BY <2>7, <2>8, <2>9, Zenon
<1> QED
  BY <1>1, <1>2, <1>3, <1>4, <1>5

(* encode_raw writes what encoded_len says. *)
LEMMA EncodeSized ==
  ASSUME NEW m \in BuilderT
  PROVE  Sized(EncodeRaw(m), EncodedLen(m))
<1>1. /\ m.plain \in Nat /\ m.opt \in Options(Scalars) /\ m.list \in Seq(Scalars) /\ m.must \in ChildT
      /\ m.child \in Options(ChildT) /\ m.item \in Seq(ChildT) /\ m.choice \in ChoiceT /\ m.map \in Seq(PairT)
  BY ScalarAssumption DEF BuilderT, Scalars
<1>2. PlainDefault \in Nat
  BY ScalarAssumption, DefaultAssumption
<1>3. PICK w1, n1 : w1 = SetUnless("plain", m.plain, PlainDefault) /\ Sized(w1, n1)
                    /\ n1 = IF m.plain # PlainDefault THEN KeyLen + ScalarLen(m.plain) ELSE 0
  <2>1. Sized(SetUnless("plain", m.plain, PlainDefault),
              IF m.plain = PlainDefault THEN 0 ELSE KeyLen + ScalarLen(m.plain))
    BY <1>1, <1>2, SetUnlessInner, InnerIsSized
  <2> QED
    BY <2>1
<1>4. PICK w2, n2 : w2 = OptionSet("opt", m.opt) /\ Sized(w2, n2)
                    /\ n2 = IF m.opt # << >> THEN KeyLen + ScalarLen(Head(m.opt)) ELSE 0
  BY <1>1, OptionSetInner, InnerIsSized, Zenon
<1>5. PICK w3, n3 : w3 = EncodePacked(m.list) /\ Sized(w3, n3)
                    /\ n3 = IF m.list # << >>
                            THEN Delimited(Total([i \in DOMAIN m.list |-> ScalarLen(m.list[i])])) ELSE 0
  BY <1>1, PackedSized, Zenon
<1>6. PICK w4, n4 : w4 = (IF "must" \in Fields THEN EncodeNested("must", m.must) ELSE << >>) /\ Sized(w4, n4)
                    /\ n4 = IF "must" \in Fields THEN Delimited(ChildLen(m.must)) ELSE 0
  <2>1. Sized(EncodeNested("must", m.must), Delimited(ChildLen(m.must)))
    BY <1>1, NestedSized DEF AllFields, NestedFields
  <2> QED
    BY <2>1, InnerNothing, InnerIsSized
<1>7. PICK w5, n5 : w5 = Flat([i \in DOMAIN m.child |-> EncodeNested("child", m.child[i])]) /\ Sized(w5, n5)
                    /\ n5 = IF m.child # << >> THEN Delimited(ChildLen(Head(m.child))) ELSE 0
  BY <1>1, OptionSized, Zenon
<1>8. PICK w6, n6 : w6 = Flat([i \in DOMAIN m.item |-> EncodeNested("item", m.item[i])]) /\ Sized(w6, n6)
                    /\ n6 = ItemsLen(m.item)
  BY <1>1, ItemsSized, Zenon
<1>9. PICK w7, n7 : w7 = EncodeChoice(m.choice) /\ Sized(w7, n7) /\ n7 = ChoiceLen(m.choice)
  BY <1>1, ChoiceSized, Zenon
<1>10. PICK w8, n8 : w8 = Flat([i \in DOMAIN m.map |-> EncodePair(m.map[i])]) /\ Sized(w8, n8) /\ n8 = MapLen(m.map)
  BY <1>1, MapSized, Zenon
<1>11. EncodeRaw(m) = w1 \o w2 \o w3 \o w4 \o w5 \o w6 \o w7 \o w8
  BY <1>3, <1>4, <1>5, <1>6, <1>7, <1>8, <1>9, <1>10, Zenon DEF EncodeRaw
<1>12. EncodedLen(m) = n1 + n2 + n3 + n4 + n5 + n6 + n7 + n8
  BY <1>3, <1>4, <1>5, <1>6, <1>7, <1>8, <1>9, <1>10, Zenon DEF EncodedLen
<1>13. Sized(w1 \o w2, n1 + n2)
  BY <1>3, <1>4, SizedConcat
<1>14. Sized(w1 \o w2 \o w3, n1 + n2 + n3)
  BY <1>5, <1>13, SizedConcat
<1>15. Sized(w1 \o w2 \o w3 \o w4, n1 + n2 + n3 + n4)
  BY <1>6, <1>14, SizedConcat
<1>16. Sized(w1 \o w2 \o w3 \o w4 \o w5, n1 + n2 + n3 + n4 + n5)
  BY <1>7, <1>15, SizedConcat
<1>17. Sized(w1 \o w2 \o w3 \o w4 \o w5 \o w6, n1 + n2 + n3 + n4 + n5 + n6)
  BY <1>8, <1>16, SizedConcat
<1>18. Sized(w1 \o w2 \o w3 \o w4 \o w5 \o w6 \o w7, n1 + n2 + n3 + n4 + n5 + n6 + n7)
  BY <1>9, <1>17, SizedConcat
<1>19. Sized(w1 \o w2 \o w3 \o w4 \o w5 \o w6 \o w7 \o w8, n1 + n2 + n3 + n4 + n5 + n6 + n7 + n8)
  BY <1>10, <1>18, SizedConcat
<1> QED
  BY <1>11, <1>12, <1>19, Zenon

(* encoded_len is the number of bytes that encode_raw writes, and every *)
(* length prefix the number of bytes up to the end of what it delimits, *)
(* for every view a merge can be frozen to (LengthsAreExact).           *)
THEOREM EncodedLenIsExact ==
  ASSUME Target = "builder"
  PROVE  Spec => []LengthsAreExact
<1>1. MergeInv => LengthsAreExact
  <2> SUFFICES ASSUME MergeInv PROVE LengthsAreExact
    OBVIOUS
  <2> DEFINE w == EncodeRaw(builder)
             close(i) == CHOOSE j \in i + 1 .. Len(w) :
                           w[j].op = "close" /\ \A k \in i + 1 .. j - 1 : w[k].op # "close"
  <2>1. builder \in BuilderT
    BY DEF MergeInv
  <2>2. Sized(w, EncodedLen(builder))
    BY <2>1, EncodeSized
  <2>3. PICK x \in Nat : x = Len(w) /\ DOMAIN w = 1 .. x
    BY <2>2, LenProperties DEF Sized
  <2>4. ASSUME NEW i \in DOMAIN w, w[i].op = "open"
        PROVE  w[i].value = Bytes(SubSeq(w, i + 1, close(i) - 1))
    <3>1. PICK j \in i + 1 .. x : Ends(w, i, j) /\ w[i].value = Bytes(SubSeq(w, i + 1, j - 1))
      BY <2>2, <2>3, <2>4 DEF Sized
    <3>2. PICK h \in i + 1 .. x : h = close(i) /\ Ends(w, i, h)
      BY <2>3, <3>1, Zenon DEF Ends
    <3>3. i \in Nat
      BY <2>3
    <3>4. ~ (h < j)
      <4>1. h < j => h \in i + 1 .. j - 1
        BY <3>3
      <4> QED
        BY <3>1, <3>2, <4>1, Zenon DEF Ends
    <3>5. ~ (j < h)
      <4>1. j < h => j \in i + 1 .. h - 1
        BY <3>3
      <4> QED
        BY <3>1, <3>2, <4>1, Zenon DEF Ends
    <3>6. h = j
      BY <3>3, <3>4, <3>5
    <3> QED
      BY <3>1, <3>2, <3>6, Zenon
  <2>5. Bytes(w) = EncodedLen(builder)
    BY <2>2 DEF Sized
  <2> QED
    BY <2>4, <2>5, Zenon DEF LengthsAreExact
<1> QED
  BY <1>1, Invariance, PTL

-----------------------------------------------------------------------------
(* Reading an input as occurrences *)

(* What merge_field does with one token, as far as the encoding of a view *)
(* is concerned: to the log, to the field that is open ("failed" after an *)
(* error) and to the settings read in it.                                 *)
After(s, t) ==
  IF t.op = "group" \/ s.field = "failed" THEN [s EXCEPT !.field = "failed"]
  ELSE IF t.op = "open" THEN [s EXCEPT !.field = t.field]
  ELSE IF t.op = "set" THEN
         IF s.field \in NestedFields \union {"entry"}
         THEN [s EXCEPT !.trail = Append(@, [field |-> t.field, value |-> t.value])]
         ELSE [s EXCEPT !.log = Append(@, Occurrence(t.field, t.value, << >>))]
  ELSE [log |-> IF s.field = "list" THEN s.log ELSE Append(s.log, Occurrence(s.field, 0, s.trail)),
        field |-> "none", trail |-> << >>]

(* The same for an input. *)
Reading(s, w) ==
  LET read[i \in 0 .. Len(w)] == IF i = 0 THEN s ELSE After(read[i - 1], w[i])
  IN  read[Len(w)]

(* The types of a reader.  They are looser than those of a log, since a *)
(* token may name a field the type does not have.                       *)
PlaceT == AllFields \union {"key", "value", "none", "failed"}
LooseSet == [field : AllFields \union {"key", "value"}, value : Nat]
LooseOcc == [field : PlaceT, value : Nat, trail : Seq(LooseSet)]
ReaderT  == [log : Seq(LooseOcc), field : PlaceT, trail : Seq(LooseSet)]

(* One token leads from a state of the reader to a state of the reader. *)
LEMMA AfterType ==
  ASSUME NEW s \in ReaderT, NEW t \in TokenT
  PROVE  After(s, t) \in ReaderT
<1>1. PICK l \in Seq(LooseOcc), f \in PlaceT, r \in Seq(LooseSet) :
        s = [log |-> l, field |-> f, trail |-> r]
  BY DEF ReaderT
<1>2. PICK g \in AllFields \union {"key", "value"}, v \in Nat : g = t.field /\ v = t.value
  BY DEF TokenT
<1>3. [s EXCEPT !.field = "failed"] \in ReaderT /\ [s EXCEPT !.field = g] \in ReaderT
  BY <1>1, <1>2 DEF ReaderT, PlaceT
<1>4. [s EXCEPT !.trail = Append(@, [field |-> g, value |-> v])] \in ReaderT
  <2>1. Append(r, [field |-> g, value |-> v]) \in Seq(LooseSet)
    BY <1>1, <1>2, AppendProperties DEF LooseSet
  <2>2. \A x : [s EXCEPT !.trail = x] = [log |-> l, field |-> f, trail |-> x]
    BY <1>1
  <2>3. s.trail = r
    BY <1>1
  <2> QED
    BY <1>1, <2>1, <2>2, <2>3 DEF ReaderT
<1>5. [s EXCEPT !.log = Append(@, Occurrence(g, v, << >>))] \in ReaderT
  <2>0. << >> \in Seq(LooseSet)
    BY EmptySeq
  <2>1. Occurrence(g, v, << >>) \in LooseOcc
    BY <1>1, <1>2, <2>0 DEF LooseOcc, Occurrence, PlaceT
  <2>2. Append(l, Occurrence(g, v, << >>)) \in Seq(LooseOcc)
    BY <2>1, AppendProperties
  <2>3. \A x : [s EXCEPT !.log = x] = [log |-> x, field |-> f, trail |-> r]
    BY <1>1
  <2>4. s.log = l
    BY <1>1
  <2> QED
    BY <1>1, <2>2, <2>3, <2>4 DEF ReaderT
<1>6. [log |-> IF s.field = "list" THEN s.log ELSE Append(s.log, Occurrence(s.field, 0, s.trail)),
        field |-> "none", trail |-> << >>] \in ReaderT
  <2>0. << >> \in Seq(LooseSet)
    BY EmptySeq
  <2>1. Occurrence(f, 0, r) \in LooseOcc
    BY <1>1, <1>2, <2>0 DEF LooseOcc, Occurrence, PlaceT
  <2>2. PICK k \in Seq(LooseOcc) : k = IF f = "list" THEN l ELSE Append(l, Occurrence(f, 0, r))
    BY <2>1, AppendProperties
  <2>3. [log |-> k, field |-> "none", trail |-> << >>] \in ReaderT
    BY <2>0 DEF ReaderT, PlaceT
  <2> QED
    BY <1>1, <2>2, <2>3
<1> QED
  BY <1>2, <1>3, <1>4, <1>5, <1>6, Zenon DEF After

(* A function that reads an input, one token at a time. *)
Reads(f, s, w) == f = [i \in 0 .. Len(w) |-> IF i = 0 THEN s ELSE After(f[i - 1], w[i])]

(* The same, with what was read of the first n tokens. *)
ReadFrom(f, s, w) ==
  /\ Reading(s, w) = f[Len(w)]
  /\ f[0] = s
  /\ \A n \in Nat : n < Len(w) => f[n + 1] = After(f[n], w[n + 1])

(* There is a function that reads a sequence of tokens: Reading is defined *)
(* by one.                                                                 *)
LEMMA ReadsExist ==
  ASSUME NEW s \in ReaderT, NEW w \in Seq(TokenT)
  PROVE  \E f \in [0 .. Len(w) -> ReaderT] : Reads(f, s, w)
<1>1. Len(w) \in Nat
  BY LenProperties
<1> DEFINE G == [p \in (1 .. Len(w)) \X ReaderT |-> After(p[2], w[p[1]])]
<1>2. G \in [(1 .. Len(w)) \X ReaderT -> ReaderT]
  <2> SUFFICES ASSUME NEW p \in (1 .. Len(w)) \X ReaderT
               PROVE  After(p[2], w[p[1]]) \in ReaderT
    BY Zenon
  <2>1. p[1] \in 1 .. Len(w) /\ p[2] \in ReaderT
    OBVIOUS
  <2>2. w[p[1]] \in TokenT
    BY <2>1, ElementOfSeq
  <2> QED
    BY <2>1, <2>2, AfterType
<1>4. \A i \in 1 .. Len(w) : \A t \in ReaderT : G[<<i, t>>] = After(t, w[i])
  OBVIOUS
<1> HIDE DEF G
<1>5. PICK f \in [0 .. Len(w) -> ReaderT] : Steps(f, Len(w), s, G)
  BY <1>1, <1>2, Recursion
<1>6. f = [i \in 0 .. Len(w) |-> IF i = 0 THEN s ELSE G[<<i, f[i - 1]>>]]
  BY <1>5, Zenon DEF Steps
<1>7. ASSUME NEW i \in 0 .. Len(w)
      PROVE  f[i] = IF i = 0 THEN s ELSE After(f[i - 1], w[i])
  <2>1. CASE i = 0
    BY <1>6, <2>1
  <2>2. CASE i # 0
    <3>1. i \in 1 .. Len(w) /\ i - 1 \in 0 .. Len(w)
      BY <1>1, <2>2
    <3>2. f[i - 1] \in ReaderT
      BY <3>1
    <3>3. f[i] = G[<<i, f[i - 1]>>]
      BY <1>6, <2>2, Zenon
    <3> QED
      BY <1>4, <2>2, <3>1, <3>2, <3>3, Zenon
  <2> QED
    BY <2>1, <2>2
<1>8. f = [i \in 0 .. Len(w) |-> f[i]]
  OBVIOUS
<1>9. Reads(f, s, w)
  BY <1>7, <1>8, Zenon DEF Reads
<1> QED
  BY <1>9

(* Reading, one token at a time. *)
LEMMA ReadSteps ==
  ASSUME NEW s \in ReaderT, NEW w \in Seq(TokenT)
  PROVE  \E f \in [0 .. Len(w) -> ReaderT] : ReadFrom(f, s, w)
<1>1. Len(w) \in Nat /\ Len(w) \in 0 .. Len(w)
  BY LenProperties
<1> DEFINE F == CHOOSE f : Reads(f, s, w)
<1>2. Reads(F, s, w)
  BY ReadsExist, Zenon
<1>3. Reading(s, w) = F[Len(w)]
  BY Zenon DEF Reading, Reads
<1> HIDE DEF F
<1>4. F = [i \in 0 .. Len(w) |-> IF i = 0 THEN s ELSE After(F[i - 1], w[i])]
  BY <1>2, Zenon DEF Reads
<1>5. F[0] = s
  BY <1>1, <1>4
<1>6. ASSUME NEW n \in Nat, n < Len(w)
      PROVE  F[n + 1] = After(F[n], w[n + 1])
  <2>1. n + 1 \in 0 .. Len(w) /\ n + 1 # 0 /\ (n + 1) - 1 = n
    BY <1>1, <1>6
  <2>2. F[n + 1] = IF n + 1 = 0 THEN s ELSE After(F[(n + 1) - 1], w[n + 1])
    BY <1>4, <2>1, Zenon
  <2> QED
    BY <2>1, <2>2, Zenon
<1> DEFINE T == { n \in Nat : F[n] \in ReaderT }
<1>7. 0 \in T
  BY <1>5
<1>8. ASSUME NEW n \in Nat, n < Len(w), n \in T PROVE n + 1 \in T
  <2>1. F[n] \in ReaderT /\ w[n + 1] \in TokenT
    BY <1>1, <1>8
  <2>2. After(F[n], w[n + 1]) \in ReaderT
    BY <2>1, AfterType
  <2>3. F[n + 1] \in ReaderT
    BY <1>6, <1>8, <2>2, Zenon
  <2> QED
    BY <2>3
<1>9. \A n \in Nat : n < Len(w) /\ n \in T => n + 1 \in T
  BY <1>8
<1>10. \A n \in 0 .. Len(w) : n \in T => F[n] \in ReaderT
  OBVIOUS
<1> HIDE DEF T
<1>11. \A n \in 0 .. Len(w) : n \in T
  BY <1>1, <1>7, <1>9, Induction
<1>12. \A n \in 0 .. Len(w) : F[n] \in ReaderT
  BY <1>10, <1>11, Zenon
<1>13. F = [i \in 0 .. Len(w) |-> F[i]]
  <2>1. DOMAIN F = 0 .. Len(w)
    BY <1>4, Zenon
  <2> QED
    BY <1>4, <2>1
<1>14. F \in [0 .. Len(w) -> ReaderT]
  BY <1>12, <1>13, Zenon
<1> QED
  BY <1>3, <1>5, <1>6, <1>14 DEF ReadFrom

(* Reading nothing, and one token more. *)
LEMMA ReadingFacts ==
  ASSUME NEW s \in ReaderT, NEW w \in Seq(TokenT)
  PROVE  /\ Reading(s, << >>) = s
         /\ Reading(s, w) \in ReaderT
         /\ \A t \in TokenT : Reading(s, Append(w, t)) = After(Reading(s, w), t)
<1>1. Len(w) \in Nat /\ Len(w) \in 0 .. Len(w)
  BY LenProperties
<1>2. Reading(s, << >>) = s
  <2>1. << >> \in Seq(TokenT) /\ Len(<< >>) = 0
    BY EmptySeq
  <2>2. PICK z \in Seq(TokenT) : z = << >>
    BY <2>1
  <2>3. PICK f \in [0 .. Len(z) -> ReaderT] : ReadFrom(f, s, z)
    BY ReadSteps
  <2>4. Reading(s, z) = f[Len(z)] /\ f[0] = s
    BY <2>3, Zenon DEF ReadFrom
  <2> QED
    BY <2>1, <2>2, <2>4
<1>3. PICK f \in [0 .. Len(w) -> ReaderT] : ReadFrom(f, s, w)
  BY ReadSteps
<1>4. ASSUME NEW t \in TokenT
      PROVE  Reading(s, Append(w, t)) = After(Reading(s, w), t)
  <2>1. PICK u \in Seq(TokenT) : u = Append(w, t) /\ Len(u) = Len(w) + 1
                            /\ (\A i \in 1 .. Len(w) : u[i] = w[i]) /\ u[Len(w) + 1] = t
    BY AppendProperties
  <2>2. PICK g \in [0 .. Len(u) -> ReaderT] : ReadFrom(g, s, u)
    BY ReadSteps
  <2> DEFINE T == { n \in Nat : g[n] = f[n] }
  <2>3. 0 \in T
    <3>1. g[0] = f[0]
      BY <1>3, <2>2, Zenon DEF ReadFrom
    <3> QED
      BY <3>1
  <2>4. ASSUME NEW n \in Nat, n < Len(w), n \in T PROVE n + 1 \in T
    <3>1. n < Len(u) /\ n + 1 \in 1 .. Len(w)
      BY <1>1, <2>1, <2>4
    <3>2. u[n + 1] = w[n + 1] /\ g[n] = f[n]
      BY <2>1, <2>4, <3>1
    <3>3. g[n + 1] = After(g[n], u[n + 1])
      BY <2>2, <3>1, Zenon DEF ReadFrom
    <3>4. f[n + 1] = After(f[n], w[n + 1])
      BY <1>3, <2>4, Zenon DEF ReadFrom
    <3>5. g[n + 1] = f[n + 1]
      BY <3>2, <3>3, <3>4, Zenon
    <3> QED
      BY <3>5
  <2>5. \A n \in Nat : n < Len(w) /\ n \in T => n + 1 \in T
    BY <2>4
  <2>6. Len(w) \in T => g[Len(w)] = f[Len(w)]
    OBVIOUS
  <2> HIDE DEF T
  <2>7. Len(w) \in T
    BY <1>1, <2>3, <2>5, Induction
  <2>8. Len(w) < Len(u)
    BY <1>1, <2>1
  <2>9. g[Len(w) + 1] = After(g[Len(w)], u[Len(w) + 1])
    BY <1>1, <2>2, <2>8, Zenon DEF ReadFrom
  <2>10. Reading(s, u) = g[Len(u)] /\ Reading(s, w) = f[Len(w)]
    BY <1>3, <2>2, Zenon DEF ReadFrom
  <2> QED
    BY <2>1, <2>6, <2>7, <2>9, <2>10, Zenon
<1>5. Reading(s, w) \in ReaderT
  <2>1. Reading(s, w) = f[Len(w)]
    BY <1>3, Zenon DEF ReadFrom
  <2> QED
    BY <1>1, <2>1
<1> QED
  BY <1>2, <1>4, <1>5

(* Reading two inputs one after the other is reading them in one. *)
LEMMA ReadingConcat ==
  ASSUME NEW s \in ReaderT, NEW u \in Seq(TokenT), NEW w \in Seq(TokenT)
  PROVE  Reading(s, u \o w) = Reading(Reading(s, u), w)
<1> DEFINE P == { x \in Seq(TokenT) : Reading(s, u \o x) = Reading(Reading(s, u), x) }
<1>1. Reading(s, u) \in ReaderT
  BY ReadingFacts
<1>2. << >> \in P
  <2>1. << >> \in Seq(TokenT) /\ u \o << >> = u
    BY EmptySeq, ConcatEmptySeq
  <2>2. Reading(Reading(s, u), << >>) = Reading(s, u)
    BY <1>1, <2>1, ReadingFacts
  <2> QED
    BY <2>1, <2>2
<1>3. \A x \in Seq(TokenT) : \A t \in TokenT : x \in P => Append(x, t) \in P
  <2> SUFFICES ASSUME NEW x \in Seq(TokenT), NEW t \in TokenT, x \in P PROVE Append(x, t) \in P
    BY Zenon
  <2>1. Append(x, t) \in Seq(TokenT) /\ u \o x \in Seq(TokenT)
    BY AppendProperties, ConcatProperties
  <2>2. u \o Append(x, t) = Append(u \o x, t)
    OBVIOUS
  <2>3. Reading(s, Append(u \o x, t)) = After(Reading(s, u \o x), t)
    BY <2>1, ReadingFacts
  <2>4. Reading(Reading(s, u), Append(x, t)) = After(Reading(Reading(s, u), x), t)
    BY <1>1, ReadingFacts
  <2> QED
    BY <2>1, <2>2, <2>3, <2>4
<1> HIDE DEF P
<1>4. w \in P
  BY <1>2, <1>3, SeqInduction
<1> QED
  BY <1>4 DEF P

(* Reading the first token, then the others. *)
LEMMA ReadingFirst ==
  ASSUME NEW s \in ReaderT, NEW t \in TokenT, NEW w \in Seq(TokenT)
  PROVE  Reading(s, <<t>>) = After(s, t) /\ Reading(s, <<t>> \o w) = Reading(After(s, t), w)
<1>1. << >> \in Seq(TokenT) /\ <<t>> \in Seq(TokenT) /\ Append(<< >>, t) = <<t>>
  OBVIOUS
<1>2. Reading(s, Append(<< >>, t)) = After(Reading(s, << >>), t) /\ Reading(s, << >>) = s
  BY <1>1, ReadingFacts
<1>3. Reading(s, <<t>> \o w) = Reading(Reading(s, <<t>>), w)
  BY <1>1, ReadingConcat
<1> QED
  BY <1>1, <1>2, <1>3, Zenon

(* A reader with this log, this field open and these settings read in it. *)
Reader(l, f, r) == [log |-> l, field |-> f, trail |-> r]

(* What a scalar stands for: a setting of what is open, or an occurrence. *)
SettingOf(t) == [field |-> t.field, value |-> t.value]
Settings(w)  == [i \in DOMAIN w |-> SettingOf(w[i])]
ShownOf(t)   == Occurrence(t.field, t.value, << >>)
Shown(w)     == [i \in DOMAIN w |-> ShownOf(w[i])]

(* A state of the reader, and one part of it replaced. *)
LEMMA ReaderFacts ==
  ASSUME NEW l \in Seq(LooseOcc), NEW f \in PlaceT, NEW r \in Seq(LooseSet)
  PROVE  \E s \in ReaderT : /\ s = Reader(l, f, r) /\ s.field = f /\ s.log = l /\ s.trail = r
                            /\ \A x : [s EXCEPT !.field = x] = Reader(l, x, r)
                            /\ \A x : [s EXCEPT !.trail = x] = Reader(l, f, x)
                            /\ \A x : [s EXCEPT !.log = x] = Reader(x, f, r)
<1>1. PICK s : s = Reader(l, f, r)
  OBVIOUS
<1>2. s = [log |-> l, field |-> f, trail |-> r]
  BY <1>1 DEF Reader
<1>3. s \in ReaderT /\ s.field = f /\ s.log = l /\ s.trail = r
  BY <1>2 DEF ReaderT
<1>4. /\ \A x : [s EXCEPT !.field = x] = Reader(l, x, r)
      /\ \A x : [s EXCEPT !.trail = x] = Reader(l, f, x)
      /\ \A x : [s EXCEPT !.log = x] = Reader(x, f, r)
  BY <1>2 DEF Reader
<1> QED
  BY <1>1, <1>3, <1>4

(* A group key makes the merge fail, and a failed merge goes on failing. *)
LEMMA AfterGroup ==
  ASSUME NEW l \in Seq(LooseOcc), NEW f \in PlaceT,
         NEW r \in Seq(LooseSet), NEW t, t.op = "group" \/ f = "failed"
  PROVE  After(Reader(l, f, r), t) = Reader(l, "failed", r)
<1>1. PICK s \in ReaderT : s = Reader(l, f, r) /\ s.field = f /\ \A x : [s EXCEPT !.field = x] = Reader(l, x, r)
  BY ReaderFacts
<1>2. After(s, t) = [s EXCEPT !.field = "failed"]
  BY <1>1, Zenon DEF After
<1> QED
  BY <1>1, <1>2, Zenon

(* A key and a length open a field. *)
LEMMA AfterOpen ==
  ASSUME NEW l \in Seq(LooseOcc), NEW t, t.op = "open"
  PROVE  After(Reader(l, "none", << >>), t) = Reader(l, t.field, << >>)
<1>1. << >> \in Seq(LooseSet) /\ "none" \in PlaceT
  BY EmptySeq DEF PlaceT
<1>0. PICK f \in PlaceT, r \in Seq(LooseSet) : f = "none" /\ r = << >>
  BY <1>1
<1>b. PICK s \in ReaderT : s = Reader(l, f, r) /\ s.field = f /\ \A x : [s EXCEPT !.field = x] = Reader(l, x, r)
  BY ReaderFacts
<1>2. /\ s = Reader(l, "none", << >>) /\ s.field = "none"
      /\ \A x : [s EXCEPT !.field = x] = Reader(l, x, << >>)
  BY <1>0, <1>b, Zenon
<1>3. "none" # "failed" /\ t.op # "group"
  OBVIOUS
<1>4. After(s, t) = [s EXCEPT !.field = t.field]
  BY <1>2, <1>3, Zenon DEF After
<1> QED
  BY <1>2, <1>4, Zenon

(* Fields within which a scalar is a setting: messages and map entries. *)
Nests(f) == f \in NestedFields \union {"entry"}

(* A scalar is a setting of what is open, or an occurrence of its own. *)
LEMMA AfterSet ==
  ASSUME NEW l \in Seq(LooseOcc), NEW f \in PlaceT, f # "failed",
         NEW r \in Seq(LooseSet), NEW t, t.op = "set"
  PROVE  /\ Nests(f) => After(Reader(l, f, r), t) = Reader(l, f, Append(r, SettingOf(t)))
         /\ ~ Nests(f) => After(Reader(l, f, r), t) = Reader(Append(l, ShownOf(t)), f, r)
<1>1. t.op # "group" /\ t.op # "open"
  OBVIOUS
<1>3. PICK s \in ReaderT : /\ s = Reader(l, f, r) /\ s.field = f /\ s.log = l /\ s.trail = r
                           /\ \A x : [s EXCEPT !.trail = x] = Reader(l, f, x)
                           /\ \A x : [s EXCEPT !.log = x] = Reader(x, f, r)
  BY ReaderFacts
<1>4. After(s, t) = IF Nests(f)
                    THEN [s EXCEPT !.trail = Append(s.trail, SettingOf(t))]
                    ELSE [s EXCEPT !.log = Append(s.log, ShownOf(t))]
  BY <1>1, <1>3, Zenon DEF After, SettingOf, ShownOf, Nests
<1> QED
  BY <1>3, <1>4, Zenon

(* A token takes the reader from one state to another. *)
Moves(s, t, q) == After(s, t) = q

(* AfterSet of a field that nests, as a move of the reader. *)
LEMMA SettingRead ==
  ASSUME NEW l \in Seq(LooseOcc), NEW f \in PlaceT, f # "failed", Nests(f),
         NEW r \in Seq(LooseSet), NEW t, t.op = "set"
  PROVE  Moves(Reader(l, f, r), t, Reader(l, f, Append(r, SettingOf(t))))
<1>1. PICK x : x = Reader(l, f, Append(r, SettingOf(t)))
  OBVIOUS
<1>2. After(Reader(l, f, r), t) = x
  BY <1>1, AfterSet
<1> QED
  BY <1>1, <1>2, Zenon DEF Moves

(* AfterSet of any other place, as a move of the reader. *)
LEMMA ShownRead ==
  ASSUME NEW l \in Seq(LooseOcc), NEW f \in PlaceT, f # "failed", ~ Nests(f),
         NEW r \in Seq(LooseSet), NEW t, t.op = "set"
  PROVE  Moves(Reader(l, f, r), t, Reader(Append(l, ShownOf(t)), f, r))
<1>1. PICK x : x = Reader(Append(l, ShownOf(t)), f, r)
  OBVIOUS
<1>2. After(Reader(l, f, r), t) = x
  BY <1>1, AfterSet
<1> QED
  BY <1>1, <1>2, Zenon DEF Moves

(* The end of a delimited field makes an occurrence of it, with the   *)
(* settings read since.  The elements of a packed run are occurrences *)
(* already.                                                           *)
LEMMA AfterClose ==
  ASSUME NEW l \in Seq(LooseOcc), NEW f \in AllFields, NEW r \in Seq(LooseSet), NEW t, t.op = "close"
  PROVE  /\ f = "list" => After(Reader(l, f, r), t) = Reader(l, "none", << >>)
         /\ f # "list" => After(Reader(l, f, r), t) = Reader(Append(l, Occurrence(f, 0, r)), "none", << >>)
<1>1. f \in PlaceT /\ t.op # "group" /\ t.op # "open" /\ t.op # "set"
  BY DEF PlaceT
<1>2. f # "failed"
  BY DEF AllFields, NestedFields
<1>3. PICK s \in ReaderT : s = Reader(l, f, r) /\ s.field = f /\ s.log = l /\ s.trail = r
  BY <1>1, ReaderFacts
<1>4. After(s, t) = Reader(IF f = "list" THEN l ELSE Append(l, Occurrence(f, 0, r)), "none", << >>)
  BY <1>1, <1>2, <1>3, Zenon DEF After, Reader
<1> QED
  BY <1>3, <1>4, Zenon

(* AfterClose of a packed run, as a move of the reader. *)
LEMMA ListClosed ==
  ASSUME NEW l \in Seq(LooseOcc), NEW r \in Seq(LooseSet), NEW t, t.op = "close"
  PROVE  Moves(Reader(l, "list", r), t, Reader(l, "none", << >>))
<1>1. PICK x : x = Reader(l, "none", << >>)
  OBVIOUS
<1>2. PICK f \in AllFields : f = "list"
  BY DEF AllFields
<1>3. After(Reader(l, f, r), t) = x
  BY <1>1, <1>2, AfterClose
<1> QED
  BY <1>1, <1>2, <1>3, Zenon DEF Moves

(* AfterClose of any other field, as a move of the reader. *)
LEMMA MessageClosed ==
  ASSUME NEW l \in Seq(LooseOcc), NEW f \in AllFields, f # "list", NEW r \in Seq(LooseSet), NEW t, t.op = "close"
  PROVE  Moves(Reader(l, f, r), t, Reader(Append(l, Occurrence(f, 0, r)), "none", << >>))
<1>1. PICK x : x = Reader(Append(l, Occurrence(f, 0, r)), "none", << >>)
  OBVIOUS
<1>3. After(Reader(l, f, r), t) = x
  BY <1>1, AfterClose
<1> QED
  BY <1>1, <1>3, Zenon DEF Moves

(* Something appended to the second of two sequences. *)
LEMMA AppendConcat ==
  ASSUME NEW S, NEW a \in Seq(S), NEW b \in Seq(S), NEW e \in S
  PROVE  a \o Append(b, e) = Append(a \o b, e)
OBVIOUS

(* A token that is a scalar. *)
SetTokenT == { t \in TokenT : t.op = "set" }

(* A function applied to every element, with one element more. *)
LEMMA MapAppend ==
  ASSUME NEW S, NEW T, NEW g \in [S -> T], NEW w \in Seq(S), NEW t \in S
  PROVE  /\ [i \in DOMAIN << >> |-> g[<< >>[i]]] = << >>
         /\ [i \in DOMAIN w |-> g[w[i]]] \in Seq(T)
         /\ [i \in DOMAIN Append(w, t) |-> g[Append(w, t)[i]]] = Append([i \in DOMAIN w |-> g[w[i]]], g[t])
<1>1. PICK n \in Nat : n = Len(w) /\ DOMAIN w = 1 .. n
  BY LenProperties
<1>2. PICK u \in Seq(S) : u = Append(w, t) /\ Len(u) = n + 1
                            /\ (\A i \in 1 .. n : u[i] = w[i]) /\ u[n + 1] = t
  BY <1>1, AppendProperties
<1>6. DOMAIN u = 1 .. n + 1
  BY <1>2, LenProperties
<1>3. PICK v \in Seq(T) : /\ v = [i \in DOMAIN w |-> g[w[i]]] /\ Len(v) = n
                          /\ \A i \in 1 .. n : v[i] = g[w[i]]
  <2>1. \A i \in 1 .. n : g[w[i]] \in T
    BY <1>1
  <2>2. PICK v : v = [i \in 1 .. n |-> g[w[i]]]
    OBVIOUS
  <2>3. v \in Seq(T) /\ Len(v) = n /\ \A i \in 1 .. n : v[i] = g[w[i]]
    BY <2>1, <2>2
  <2> QED
    BY <1>1, <2>2, <2>3, Zenon
<1>4. g[t] \in T
  OBVIOUS
<1>5. [i \in DOMAIN u |-> g[u[i]]] = Append(v, g[t])
  BY <1>2, <1>3, <1>4, <1>6
<1> QED
  BY <1>2, <1>3, <1>5

(* The settings and the occurrences that tokens stand for, with one token *)
(* more.                                                                  *)
LEMMA SettingsFacts ==
  ASSUME NEW w \in Seq(SetTokenT), NEW t \in SetTokenT
  PROVE  /\ Settings(<< >>) = << >> /\ Shown(<< >>) = << >>
         /\ Settings(w) \in Seq(LooseSet) /\ Shown(w) \in Seq(LooseOcc)
         /\ SettingOf(t) \in LooseSet /\ ShownOf(t) \in LooseOcc
         /\ Settings(Append(w, t)) = Append(Settings(w), SettingOf(t))
         /\ Shown(Append(w, t)) = Append(Shown(w), ShownOf(t))
<1>1. \A x \in SetTokenT : SettingOf(x) \in LooseSet /\ ShownOf(x) \in LooseOcc
  <2>1. << >> \in Seq(LooseSet)
    BY EmptySeq
  <2> QED
    BY <2>1 DEF SetTokenT, TokenT, SettingOf, LooseSet, Occurrence, LooseOcc, ShownOf, PlaceT
<1>2. Settings(<< >>) = << >> /\ Shown(<< >>) = << >>
  BY DEF Settings, Shown
<1>3. PICK g \in [SetTokenT -> LooseSet] : \A x \in SetTokenT : g[x] = SettingOf(x)
  <2> DEFINE g == [x \in SetTokenT |-> SettingOf(x)]
  <2>1. g \in [SetTokenT -> LooseSet] /\ \A x \in SetTokenT : g[x] = SettingOf(x)
    BY <1>1
  <2> QED
    BY <2>1
<1>4. PICK h \in [SetTokenT -> LooseOcc] : \A x \in SetTokenT : h[x] = ShownOf(x)
  <2> DEFINE h == [x \in SetTokenT |-> ShownOf(x)]
  <2>1. h \in [SetTokenT -> LooseOcc] /\ \A x \in SetTokenT : h[x] = ShownOf(x)
    BY <1>1
  <2> QED
    BY <2>1
<1>5. Append(w, t) \in Seq(SetTokenT)
  BY AppendProperties
<1>6. \A y \in Seq(SetTokenT) : /\ Settings(y) = [i \in DOMAIN y |-> g[y[i]]]
                                /\ Shown(y) = [i \in DOMAIN y |-> h[y[i]]]
  <2> TAKE y \in Seq(SetTokenT)
  <2>1. \A i \in DOMAIN y : y[i] \in SetTokenT
    BY LenProperties
  <2>2. \A i \in DOMAIN y : g[y[i]] = SettingOf(y[i]) /\ h[y[i]] = ShownOf(y[i])
    BY <1>3, <1>4, <2>1, Zenon
  <2> QED
    BY <2>2, Zenon DEF Settings, Shown
<1>7. /\ [i \in DOMAIN w |-> g[w[i]]] \in Seq(LooseSet)
      /\ [i \in DOMAIN Append(w, t) |-> g[Append(w, t)[i]]] = Append([i \in DOMAIN w |-> g[w[i]]], g[t])
  BY MapAppend
<1>8. /\ [i \in DOMAIN w |-> h[w[i]]] \in Seq(LooseOcc)
      /\ [i \in DOMAIN Append(w, t) |-> h[Append(w, t)[i]]] = Append([i \in DOMAIN w |-> h[w[i]]], h[t])
  BY MapAppend
<1> QED
  BY <1>1, <1>2, <1>3, <1>4, <1>5, <1>6, <1>7, <1>8, Zenon

(* Tokens that are all scalars, by their type. *)
LEMMA InnerType ==
  ASSUME NEW w, NEW n, Inner(w, n)
  PROVE  w \in Seq(SetTokenT) /\ w \in Seq(TokenT)
<1>1. w \in Seq(TokenT) /\ \A i \in 1 .. Len(w) : w[i].op = "set"
  BY DEF Inner
<1>2. PICK m \in Nat : m = Len(w) /\ DOMAIN w = 1 .. m
  BY <1>1, LenProperties
<1>3. \A i \in 1 .. m : w[i] \in SetTokenT
  BY <1>1, <1>2 DEF SetTokenT
<1>4. w = [i \in 1 .. m |-> w[i]]
  BY <1>1, <1>2
<1> QED
  BY <1>1, <1>3, <1>4

(* Scalars read one after the other: settings of what is open, or *)
(* occurrences.                                                   *)
LEMMA ReadingSets ==
  ASSUME NEW l \in Seq(LooseOcc), NEW f \in PlaceT, f # "failed",
         NEW r \in Seq(LooseSet), NEW w \in Seq(SetTokenT)
  PROVE  /\ w \in Seq(TokenT)
         /\ Nests(f) => Reading(Reader(l, f, r), w) = Reader(l, f, r \o Settings(w))
         /\ ~ Nests(f) => Reading(Reader(l, f, r), w) = Reader(l \o Shown(w), f, r)
<1> DEFINE P == { x \in Seq(TokenT) : x \in Seq(SetTokenT) /\ Reading(Reader(l, f, r), x) =
                    IF Nests(f) THEN Reader(l, f, r \o Settings(x)) ELSE Reader(l \o Shown(x), f, r) }
<1>0. Reader(l, f, r) \in ReaderT
  BY DEF Reader, ReaderT
<1>1. << >> \in P
  <2>1. << >> \in Seq(TokenT) /\ << >> \in Seq(SetTokenT)
    BY EmptySeq
  <2>2. Reading(Reader(l, f, r), << >>) = Reader(l, f, r)
    BY <1>0, <2>1, ReadingFacts
  <2>3. Settings(<< >>) = << >> /\ Shown(<< >>) = << >>
    BY DEF Settings, Shown
  <2>4. l \o << >> = l /\ r \o << >> = r
    BY ConcatEmptySeq
  <2> QED
    BY <2>1, <2>2, <2>3, <2>4
<1>2. \A x \in Seq(SetTokenT) : \A t \in SetTokenT : x \in P => Append(x, t) \in P
  <2> SUFFICES ASSUME NEW x \in Seq(SetTokenT), NEW t \in SetTokenT, x \in P PROVE Append(x, t) \in P
    BY Zenon
  <2>1. t \in TokenT /\ t.op = "set" /\ x \in Seq(TokenT)
    BY DEF SetTokenT
  <2>2. Append(x, t) \in Seq(TokenT) /\ Append(x, t) \in Seq(SetTokenT)
    BY <2>1, AppendProperties
  <2>3. /\ Settings(x) \in Seq(LooseSet) /\ Shown(x) \in Seq(LooseOcc)
        /\ SettingOf(t) \in LooseSet /\ ShownOf(t) \in LooseOcc
        /\ Settings(Append(x, t)) = Append(Settings(x), SettingOf(t))
        /\ Shown(Append(x, t)) = Append(Shown(x), ShownOf(t))
    BY SettingsFacts
  <2>4. Reading(Reader(l, f, r), Append(x, t)) = After(Reading(Reader(l, f, r), x), t)
    BY <1>0, <2>1, ReadingFacts
  <2>5. CASE Nests(f)
    <3>1. PICK q \in Seq(LooseSet) : q = r \o Settings(x)
      BY <2>3, ConcatProperties
    <3>2. Reading(Reader(l, f, r), x) = Reader(l, f, q)
      BY <2>5, <3>1
    <3>3. After(Reader(l, f, q), t) = Reader(l, f, Append(q, SettingOf(t)))
      BY <2>1, <2>5, SettingRead, Zenon DEF Moves
    <3>4. Append(q, SettingOf(t)) = r \o Append(Settings(x), SettingOf(t))
      <4>1. PICK y \in Seq(LooseSet), z \in LooseSet : y = Settings(x) /\ z = SettingOf(t)
        BY <2>3
      <4>2. r \o Append(y, z) = Append(r \o y, z)
        BY ONLY r \in Seq(LooseSet), y \in Seq(LooseSet), z \in LooseSet, AppendConcat, SMT
      <4> QED
        BY <3>1, <4>1, <4>2, Zenon
    <3> QED
      BY <2>2, <2>3, <2>4, <2>5, <3>2, <3>3, <3>4
  <2>6. CASE ~ Nests(f)
    <3>1. PICK q \in Seq(LooseOcc) : q = l \o Shown(x)
      BY <2>3, ConcatProperties
    <3>2. Reading(Reader(l, f, r), x) = Reader(q, f, r)
      BY <2>6, <3>1
    <3>3. After(Reader(q, f, r), t) = Reader(Append(q, ShownOf(t)), f, r)
      <4>1. PICK k \in Seq(LooseOcc) : k = q
        BY <3>1
      <4>2. After(Reader(k, f, r), t) = Reader(Append(k, ShownOf(t)), f, r)
        BY <2>1, <2>6, ShownRead, Zenon DEF Moves
      <4> QED
        BY <2>6, <4>1, <4>2, Zenon
    <3>4. Append(q, ShownOf(t)) = l \o Append(Shown(x), ShownOf(t))
      <4>1. PICK y \in Seq(LooseOcc), z \in LooseOcc : y = Shown(x) /\ z = ShownOf(t)
        BY <2>3
      <4>2. l \o Append(y, z) = Append(l \o y, z)
        BY ONLY l \in Seq(LooseOcc), y \in Seq(LooseOcc), z \in LooseOcc, AppendConcat, SMT
      <4> QED
        BY <3>1, <4>1, <4>2, Zenon
    <3> QED
      BY <2>2, <2>3, <2>4, <2>6, <3>2, <3>3, <3>4
  <2> QED
    BY <2>5, <2>6
<1> HIDE DEF P
<1>3. w \in P
  BY <1>1, <1>2, SeqInduction
<1> QED
  BY <1>3 DEF P

-----------------------------------------------------------------------------
(* The occurrences an encoding tells of *)

(* Merging w gives the builder the occurrences o, whatever it was given *)
(* before, and leaves nothing open.                                     *)
Tells(w, o) ==
  /\ w \in Seq(TokenT) /\ o \in Seq(LooseOcc)
  /\ \A l \in Seq(LooseOcc) : Reading(Reader(l, "none", << >>), w) = Reader(l \o o, "none", << >>)

(* A reader with nothing open. *)
LEMMA IdleReader ==
  \A l \in Seq(LooseOcc) : Reader(l, "none", << >>) \in ReaderT
<1>1. << >> \in Seq(LooseSet)
  BY EmptySeq
<1> QED
  BY <1>1 DEF Reader, ReaderT, PlaceT

(* The settings and the occurrences that tokens stand for have their *)
(* types.                                                            *)
LEMMA SettingsTyped ==
  ASSUME NEW w \in Seq(SetTokenT)
  PROVE  Settings(w) \in Seq(LooseSet) /\ Shown(w) \in Seq(LooseOcc)
<1>1. "set" \in {"set", "open", "close", "group"} /\ "plain" \in AllFields \union {"key", "value"} /\ 0 \in Nat
  BY DEF AllFields
<1>2. PICK t \in TokenT : t = Token("set", "plain", 0) /\ t.op = "set"
  BY <1>1, TokenIs
<1>3. t \in SetTokenT
  BY <1>2 DEF SetTokenT
<1> QED
  BY <1>3, SettingsFacts

(* No tokens tell of no occurrence. *)
LEMMA TellsNothing == Tells(<< >>, << >>)
<1>1. << >> \in Seq(TokenT) /\ << >> \in Seq(LooseOcc)
  BY EmptySeq
<1>2. ASSUME NEW l \in Seq(LooseOcc)
      PROVE  Reading(Reader(l, "none", << >>), << >>) = Reader(l \o << >>, "none", << >>)
  <2>1. Reading(Reader(l, "none", << >>), << >>) = Reader(l, "none", << >>)
    BY <1>1, IdleReader, ReadingFacts
  <2>2. l \o << >> = l
    BY ConcatEmptySeq
  <2> QED
    BY <2>1, <2>2
<1> QED
  BY <1>1, <1>2 DEF Tells

(* Equality, as a predicate that can be matched. *)
Same(a, b) == a = b

(* Occurrences put together in either order of the joins. *)
LEMMA LooseConcat ==
  ASSUME NEW a \in Seq(LooseOcc), NEW b \in Seq(LooseOcc), NEW c \in Seq(LooseOcc)
  PROVE  Same((a \o b) \o c, a \o (b \o c))
<1>1. (a \o b) \o c = a \o (b \o c)
  BY ConcatAssociative
<1> QED
  BY <1>1, Zenon DEF Same

(* Two encodings one after the other tell of the occurrences of both. *)
LEMMA TellsConcat ==
  ASSUME NEW u, NEW w, NEW a, NEW b, Tells(u, a), Tells(w, b)
  PROVE  Tells(u \o w, a \o b)
<1>1. u \in Seq(TokenT) /\ w \in Seq(TokenT) /\ a \in Seq(LooseOcc) /\ b \in Seq(LooseOcc)
  BY DEF Tells
<1>2. u \o w \in Seq(TokenT) /\ a \o b \in Seq(LooseOcc)
  BY <1>1, ConcatProperties
<1>3. ASSUME NEW l \in Seq(LooseOcc)
      PROVE  Reading(Reader(l, "none", << >>), u \o w) = Reader(l \o (a \o b), "none", << >>)
  <2>1. l \o a \in Seq(LooseOcc)
    BY <1>1, ConcatProperties
  <2>2. Reading(Reader(l, "none", << >>), u \o w) = Reading(Reading(Reader(l, "none", << >>), u), w)
    BY <1>1, IdleReader, ReadingConcat
  <2>3. Reading(Reader(l, "none", << >>), u) = Reader(l \o a, "none", << >>)
    BY DEF Tells
  <2>4. Reading(Reader(l \o a, "none", << >>), w) = Reader((l \o a) \o b, "none", << >>)
    BY <2>1 DEF Tells
  <2>5. (l \o a) \o b = l \o (a \o b)
    BY <1>1, LooseConcat, Zenon DEF Same
  <2> QED
    BY <2>2, <2>3, <2>4, <2>5, Zenon
<1> QED
  BY <1>2, <1>3 DEF Tells

(* Scalars outside anything tell of an occurrence each. *)
LEMMA TellsSets ==
  ASSUME NEW w, NEW n, Inner(w, n)
  PROVE  Tells(w, Shown(w))
<1>1. w \in Seq(SetTokenT) /\ w \in Seq(TokenT)
  BY InnerType
<1>2. Shown(w) \in Seq(LooseOcc)
  BY <1>1, SettingsTyped
<1>3. ~ Nests("none") /\ << >> \in Seq(LooseSet) /\ "none" \in PlaceT /\ "none" # "failed"
  BY EmptySeq DEF NestedFields, PlaceT, Nests
<1>4. \A l \in Seq(LooseOcc) : Reading(Reader(l, "none", << >>), w) = Reader(l \o Shown(w), "none", << >>)
  BY <1>1, <1>3, ReadingSets, Zenon
<1> QED
  BY <1>1, <1>2, <1>4 DEF Tells

(* Scalars between a key with its length and its end tell of one *)
(* occurrence, with those settings.                              *)
LEMMA TellsNested ==
  ASSUME NEW w, NEW n, Inner(w, n), NEW f \in NestedFields \union {"entry"}, NEW v \in Nat
  PROVE  Tells(<<Token("open", f, v)>> \o w \o <<Token("close", f, 0)>>, <<Occurrence(f, 0, Settings(w))>>)
<1>1. w \in Seq(SetTokenT) /\ w \in Seq(TokenT)
  BY InnerType
<1>2. Settings(w) \in Seq(LooseSet)
  BY <1>1, SettingsTyped
<1>3. f \in AllFields /\ f # "failed" /\ f # "list" /\ f # "none"
  BY DEF NestedFields, AllFields
<1>4. PICK a \in TokenT : a = Token("open", f, v) /\ a.op = "open" /\ a.field = f
  BY <1>3, TokenIs
<1>5. PICK z \in TokenT : z = Token("close", f, 0) /\ z.op = "close"
  BY <1>3, TokenIs
<1>6. PICK o \in LooseOcc : o = Occurrence(f, 0, Settings(w))
  BY <1>2, <1>3 DEF Occurrence, LooseOcc, PlaceT
<1>7. <<a>> \in Seq(TokenT) /\ <<z>> \in Seq(TokenT) /\ <<o>> \in Seq(LooseOcc)
  OBVIOUS
<1>8. <<a>> \o w \in Seq(TokenT) /\ (<<a>> \o w) \o <<z>> \in Seq(TokenT)
  BY <1>1, <1>7, ConcatProperties
<1>9. << >> \in Seq(LooseSet) /\ << >> \o Settings(w) = Settings(w)
  BY <1>2, EmptySeq, ConcatEmptySeq
<1>10. ASSUME NEW l \in Seq(LooseOcc)
       PROVE  Reading(Reader(l, "none", << >>), (<<a>> \o w) \o <<z>>) = Reader(l \o <<o>>, "none", << >>)
  <2>0. PICK s \in ReaderT : s = Reader(l, "none", << >>)
    BY IdleReader
  <2>1. Reading(s, (<<a>> \o w) \o <<z>>) = Reading(Reading(s, <<a>> \o w), <<z>>)
    BY <1>7, <1>8, ReadingConcat
  <2>2. Reading(s, <<a>> \o w) = Reading(After(s, a), w)
    BY <1>1, ReadingFirst
  <2>3. After(s, a) = Reader(l, f, << >>)
    BY <1>4, <2>0, AfterOpen, Zenon
  <2>4. Reading(Reader(l, f, << >>), w) = Reader(l, f, Settings(w))
    <3>1. f \in PlaceT
      BY <1>3 DEF PlaceT
    <3>2. Nests(f)
      BY DEF Nests
    <3>3. Reading(Reader(l, f, << >>), w) = Reader(l, f, << >> \o Settings(w))
      BY <1>1, <1>3, <1>9, <3>1, <3>2, ReadingSets, Zenon
    <3> QED
      BY <1>9, <3>3, Zenon
  <2>5. Reader(l, f, Settings(w)) \in ReaderT
    BY <1>2, <1>3 DEF Reader, ReaderT, PlaceT
  <2>6. Reading(Reader(l, f, Settings(w)), <<z>>) = After(Reader(l, f, Settings(w)), z)
    BY <1>1, <2>5, ReadingFirst
  <2>7. After(Reader(l, f, Settings(w)), z) = Reader(Append(l, o), "none", << >>)
    <3>2. After(Reader(l, f, Settings(w)), z) = Reader(Append(l, Occurrence(f, 0, Settings(w))), "none", << >>)
      BY <1>2, <1>3, <1>5, MessageClosed, Zenon DEF Moves
    <3> QED
      BY <1>3, <1>6, <3>2, Zenon
  <2>8. Append(l, o) = l \o <<o>>
    BY AppendIsConcat
  <2> QED
    BY <2>0, <2>1, <2>2, <2>3, <2>4, <2>6, <2>7, <2>8, Zenon
<1> QED
  BY <1>4, <1>5, <1>6, <1>7, <1>8, <1>10, Zenon DEF Tells

(* A packed run tells of an occurrence for each element. *)
LEMMA TellsPacked ==
  ASSUME NEW m \in Seq(Scalars)
  PROVE  Tells(EncodePacked(m), Shown(OptionSet("list", m)))
<1>1. CASE m = << >>
  <2>1. EncodePacked(m) = << >> /\ Shown(OptionSet("list", m)) = << >>
    BY <1>1 DEF EncodePacked, OptionSet, Shown
  <2> QED
    BY <2>1, TellsNothing, Zenon
<1>2. CASE m # << >>
  <2>1. PICK w \in Seq(SetTokenT), v \in Nat :
          /\ EncodePacked(m) = <<Token("open", "list", v)>> \o w \o <<Token("close", "list", 0)>>
          /\ w = OptionSet("list", m)
    <3>1. PICK n \in Nat : n = Len(m) /\ DOMAIN m = 1 .. n /\ \A i \in 1 .. n : m[i] \in Nat
      BY LenProperties, ScalarAssumption DEF Scalars
    <3>2. \A i \in 1 .. n : Token("set", "list", m[i]) \in SetTokenT
      BY <3>1 DEF SetTokenT, TokenT, Token, AllFields
    <3>3. PICK w : w = [i \in 1 .. n |-> Token("set", "list", m[i])]
      OBVIOUS
    <3>4. w \in Seq(SetTokenT)
      BY <3>2, <3>3
    <3>5. w = OptionSet("list", m)
      BY <3>1, <3>3, Zenon DEF OptionSet
    <3>6. PICK l \in Seq(Nat) : l = [i \in DOMAIN m |-> ScalarLen(m[i])]
      <4>1. PICK l : l = [i \in 1 .. n |-> ScalarLen(m[i])]
        OBVIOUS
      <4>2. l \in Seq(Nat)
        BY <3>1, <4>1 DEF ScalarLen
      <4> QED
        BY <3>1, <4>1, <4>2, Zenon
    <3>7. Total(l) \in Nat
      BY TotalFacts
    <3> QED
      BY <1>2, <3>4, <3>5, <3>6, <3>7, Zenon DEF EncodePacked, OptionSet
  <2>2. Shown(w) \in Seq(LooseOcc)
    BY <2>1, SettingsTyped
  <2>3. /\ ~ Nests("list") /\ << >> \in Seq(LooseSet) /\ "list" \in AllFields /\ "list" \in PlaceT
        /\ "list" # "failed"
    BY EmptySeq DEF NestedFields, AllFields, PlaceT, Nests
  <2>4. PICK a \in TokenT : a = Token("open", "list", v) /\ a.op = "open" /\ a.field = "list"
    BY <2>3, TokenIs
  <2>5. PICK z \in TokenT : z = Token("close", "list", 0) /\ z.op = "close"
    BY <2>3, TokenIs
  <2>6. w \in Seq(TokenT)
    <3>1. \A t \in SetTokenT : t \in TokenT
      BY DEF SetTokenT
    <3> QED
      BY <2>1, <3>1, SeqMonotonic
  <2>7. <<a>> \in Seq(TokenT) /\ <<z>> \in Seq(TokenT)
    OBVIOUS
  <2>8. <<a>> \o w \in Seq(TokenT) /\ (<<a>> \o w) \o <<z>> \in Seq(TokenT)
    BY <2>6, <2>7, ConcatProperties
  <2>9. ASSUME NEW l \in Seq(LooseOcc)
         PROVE  Reading(Reader(l, "none", << >>), (<<a>> \o w) \o <<z>>) = Reader(l \o Shown(w), "none", << >>)
    <3>0. PICK s \in ReaderT : s = Reader(l, "none", << >>)
      BY IdleReader
    <3>1. Reading(s, (<<a>> \o w) \o <<z>>) = Reading(Reading(s, <<a>> \o w), <<z>>)
      BY <2>7, <2>8, ReadingConcat
    <3>2. Reading(s, <<a>> \o w) = Reading(After(s, a), w)
      BY <2>6, ReadingFirst
    <3>3. After(s, a) = Reader(l, "list", << >>)
      BY <2>4, <2>3, <3>0, AfterOpen, Zenon
    <3>4. Reading(Reader(l, "list", << >>), w) = Reader(l \o Shown(w), "list", << >>)
      BY <2>1, <2>3, ReadingSets, Zenon
    <3>5. PICK k \in Seq(LooseOcc) : k = l \o Shown(w)
      BY <2>2, ConcatProperties
    <3>6. Reader(k, "list", << >>) \in ReaderT
      BY <2>3 DEF Reader, ReaderT, PlaceT
    <3>7. Reading(Reader(k, "list", << >>), <<z>>) = After(Reader(k, "list", << >>), z)
      BY <2>6, <3>6, ReadingFirst
    <3>8. After(Reader(k, "list", << >>), z) = Reader(k, "none", << >>)
      BY <2>3, <2>5, ListClosed, Zenon DEF Moves
    <3> QED
      BY <3>0, <3>1, <3>2, <3>3, <3>4, <3>5, <3>7, <3>8, Zenon
  <2> QED
    BY <2>1, <2>2, <2>4, <2>5, <2>8, <2>9, Zenon DEF Tells
<1> QED
  BY <1>1, <1>2

(* Encodings that tell of one occurrence each, put together. *)
LEMMA TellsFlat ==
  ASSUME NEW s \in Seq(Seq(TokenT)), NEW o \in Seq(LooseOcc), Len(o) = Len(s),
         \A i \in 1 .. Len(s) : Tells(s[i], <<o[i]>>)
  PROVE  Tells(Flat(s), o)
<1>1. PICK n \in Nat : n = Len(s)
  BY LenProperties
<1>2. PICK f : Joined(f, s)
  BY FlatSteps
<1> DEFINE T == { k \in Nat : k <= n => Tells(f[k], SubSeq(o, 1, k)) }
<1>3. 0 \in T
  <2>1. f[0] = << >>
    BY <1>2, Zenon DEF Joined
  <2>2. SubSeq(o, 1, 0) = << >>
    BY SubSeqEmpty
  <2> QED
    BY <2>1, <2>2, TellsNothing
<1>4. \A k \in Nat : k < n /\ k \in T => k + 1 \in T
  <2> SUFFICES ASSUME NEW k \in Nat, k < n, k \in T PROVE k + 1 \in T
    BY Zenon
  <2>1. f[k + 1] = f[k] \o s[k + 1]
    BY <1>1, <1>2, Zenon DEF Joined
  <2>2. Tells(f[k], SubSeq(o, 1, k))
    OBVIOUS
  <2>3. k + 1 \in 1 .. Len(s)
    BY <1>1
  <2>4. Tells(s[k + 1], <<o[k + 1]>>)
    BY <2>3, Zenon
  <2>5. SubSeq(o, 1, k + 1) = SubSeq(o, 1, k) \o <<o[k + 1]>>
    <3>1. 1 \in 1 .. Len(o) /\ k + 1 \in 1 .. Len(o) /\ (k + 1) - 1 = k
      BY <1>1, <2>3
    <3>2. SubSeq(o, 1, k + 1) = SubSeq(o, 1, (k + 1) - 1) \o <<o[k + 1]>>
      BY <3>1, SubSeqRecursiveSecond
    <3> QED
      BY <3>1, <3>2
  <2>6. Tells(f[k] \o s[k + 1], SubSeq(o, 1, k) \o <<o[k + 1]>>)
    BY <2>2, <2>4, TellsConcat
  <2>7. Tells(f[k + 1], SubSeq(o, 1, k + 1))
    BY <2>1, <2>5, <2>6, Zenon
  <2> QED
    BY <2>7
<1>5. n \in T => Tells(f[n], SubSeq(o, 1, n))
  OBVIOUS
<1> HIDE DEF T
<1>6. n \in 0 .. n
  OBVIOUS
<1>7. n \in T
  BY <1>3, <1>4, <1>6, Induction
<1>8. Flat(s) = f[n] /\ SubSeq(o, 1, n) = o
  <2>1. SubSeq(o, 1, Len(o)) = o
    BY SubSeqFull
  <2>2. Flat(s) = f[n]
    BY <1>1, <1>2, Zenon DEF Joined
  <2> QED
    BY <1>1, <2>1, <2>2
<1> QED
  BY <1>5, <1>7, <1>8, Zenon

(* Tokens for a scalar that may be left out, and the settings with it. *)
MayAdd(A, t, a, b) == A \in {<< >>, <<t>>} /\ b = IF A = << >> THEN a ELSE Append(a, SettingOf(t))

(* The settings that tokens stand for. *)
SettlesTo(w, b) == Settings(w) = b

(* The settings of two scalars, each of which may be left out. *)
LEMMA TwoSettings ==
  ASSUME NEW s \in SetTokenT, NEW t \in SetTokenT, NEW A, NEW B, NEW a, NEW b,
         MayAdd(A, s, << >>, a), MayAdd(B, t, a, b)
  PROVE  SettlesTo(A \o B, b)
<1>1. << >> \in Seq(SetTokenT) /\ Append(<< >>, s) = <<s>> /\ Append(<< >>, t) = <<t>> /\ <<s>> # << >> /\ <<t>> # << >>
  OBVIOUS
<1>2. <<s>> \in Seq(SetTokenT) /\ <<t>> \in Seq(SetTokenT)
  OBVIOUS
<1>3. Settings(<< >>) = << >> /\ Settings(<<s>>) = Append(<< >>, SettingOf(s)) /\ Settings(<<t>>) = Append(<< >>, SettingOf(t))
  BY <1>1, SettingsFacts
<1>4. Settings(Append(<<s>>, t)) = Append(Settings(<<s>>), SettingOf(t))
  BY <1>2, SettingsFacts
<1>5. Append(<<s>>, t) = <<s>> \o <<t>>
  BY <1>2, AppendIsConcat
<1>6. << >> \o << >> = << >> /\ << >> \o <<t>> = <<t>> /\ <<s>> \o << >> = <<s>>
  BY <1>1, <1>2, ConcatEmptySeq
<1>0. /\ A \in {<< >>, <<s>>} /\ a = (IF A = << >> THEN << >> ELSE Append(<< >>, SettingOf(s)))
      /\ B \in {<< >>, <<t>>} /\ b = (IF B = << >> THEN a ELSE Append(a, SettingOf(t)))
  BY DEF MayAdd
<1>7. CASE A = << >> /\ B = << >>
  BY <1>0, <1>3, <1>6, <1>7, Zenon DEF SettlesTo
<1>8. CASE A = << >> /\ B = <<t>>
  BY <1>0, <1>1, <1>3, <1>6, <1>8, Zenon DEF SettlesTo
<1>9. CASE A = <<s>> /\ B = << >>
  BY <1>0, <1>1, <1>3, <1>6, <1>9, Zenon DEF SettlesTo
<1>10. CASE A = <<s>> /\ B = <<t>>
  BY <1>0, <1>1, <1>3, <1>4, <1>5, <1>10, Zenon DEF SettlesTo
<1> QED
  BY <1>0, <1>7, <1>8, <1>9, <1>10

(* A scalar within something, and the setting it is read as. *)
LEMMA SetIs ==
  ASSUME NEW f \in {"plain", "opt", "key", "value"}, NEW v \in Scalars
  PROVE  /\ \E t \in SetTokenT : t = Token("set", f, v) /\ SettingOf(t) = [field |-> f, value |-> v]
         /\ \E e \in SetT : e = [field |-> f, value |-> v] /\ e.field = f /\ e.value = v
<1>1. v \in Nat /\ f \in AllFields \union {"key", "value"}
  BY ScalarAssumption DEF Scalars, AllFields
<1>2. PICK t \in TokenT : t = Token("set", f, v) /\ t.op = "set" /\ t.field = f /\ t.value = v
  BY <1>1, TokenIs
<1>3. SettingOf(t) = [field |-> f, value |-> v] /\ t \in SetTokenT
  BY <1>2 DEF SettingOf, SetTokenT
<1>4. [field |-> f, value |-> v] \in SetT
  BY DEF SetT
<1> QED
  BY <1>2, <1>3, <1>4

(* The settings in the encoding of a nested message mean that message: a *)
(* default that is left out is what a new builder starts from.           *)
LEMMA ChildSays ==
  ASSUME NEW c \in ChildT
  PROVE  Settings(EncodeChild(c)) \in Seq(SetT) /\ ChildOf(Settings(EncodeChild(c))) = c
<1>1. PICK v \in Scalars, o \in Options(Scalars) : v = c.plain /\ o = c.opt /\ c = [plain |-> v, opt |-> o]
  BY DEF ChildT
<1>2. PICK x \in Scalars : o # << >> => o = <<x>>
  <2>1. 0 \in Scalars
    BY Basics
  <2> QED
    BY <2>1 DEF Options
<1>3. PICK s \in SetTokenT, d \in SetT :
        s = Token("set", "plain", v) /\ SettingOf(s) = d /\ d.field = "plain" /\ d.value = v
  <2>1. PICK s \in SetTokenT : s = Token("set", "plain", v) /\ SettingOf(s) = [field |-> "plain", value |-> v]
    BY SetIs
  <2>2. PICK d \in SetT : d = [field |-> "plain", value |-> v] /\ d.field = "plain" /\ d.value = v
    BY SetIs
  <2> QED
    BY <2>1, <2>2, Zenon
<1>4. PICK t \in SetTokenT, e \in SetT :
        t = Token("set", "opt", x) /\ SettingOf(t) = e /\ e.field = "opt" /\ e.value = x
  <2>1. PICK t \in SetTokenT : t = Token("set", "opt", x) /\ SettingOf(t) = [field |-> "opt", value |-> x]
    BY SetIs
  <2>2. PICK e \in SetT : e = [field |-> "opt", value |-> x] /\ e.field = "opt" /\ e.value = x
    BY SetIs
  <2> QED
    BY <2>1, <2>2, Zenon
<1>5. PICK A \in {<< >>, <<s>>} : A = SetUnless("plain", v, 0) /\ (A = << >> <=> v = 0)
  <2>1. <<s>> # << >>
    OBVIOUS
  <2> QED
    BY <1>3, <2>1 DEF SetUnless
<1>6. PICK B \in {<< >>, <<t>>} : B = OptionSet("opt", o) /\ (B = << >> <=> o = << >>)
  <2>1. CASE o = << >>
    BY <2>1 DEF OptionSet
  <2>2. CASE o # << >>
    <3>1. o = <<x>> /\ DOMAIN o = {1} /\ o[1] = x
      BY <1>2, <2>2
    <3>2. OptionSet("opt", o) = <<t>>
      BY <1>4, <3>1 DEF OptionSet
    <3> QED
      BY <2>2, <3>2
  <2> QED
    BY <2>1, <2>2
<1>7. PICK a : MayAdd(A, s, << >>, a) /\ a = IF A = << >> THEN << >> ELSE Append(<< >>, d)
  BY <1>3 DEF MayAdd
<1>8. PICK b : MayAdd(B, t, a, b) /\ b = IF B = << >> THEN a ELSE Append(a, e)
  BY <1>4 DEF MayAdd
<1>9. Settings(EncodeChild(c)) = b
  <2>1. EncodeChild(c) = A \o B
    BY <1>1, <1>5, <1>6, Zenon DEF EncodeChild
  <2>3. SettlesTo(A \o B, b)
    BY <1>7, <1>8, TwoSettings, Zenon
  <2> QED
    BY <2>1, <2>3, Zenon DEF SettlesTo
<1>10. << >> \in Seq(SetT) /\ a \in Seq(SetT) /\ b \in Seq(SetT)
  BY <1>7, <1>8, EmptySeq, AppendProperties
<1>11. ChildOf(a) = [plain |-> v, opt |-> << >>]
  <2>0. PICK z \in Seq(SetT) : z = << >>
    BY <1>10
  <2>9. ChildOf(<< >>) = NewChild /\ (d.field = "plain" => ChildOf(Append(z, d)) = [ChildOf(z) EXCEPT !.plain = d.value])
    BY ChildFacts
  <2>1. ChildOf(<< >>) = NewChild /\ ChildOf(Append(<< >>, d)) = [ChildOf(<< >>) EXCEPT !.plain = v]
    BY <1>3, <2>0, <2>9, Zenon
  <2>2. NewChild = [plain |-> 0, opt |-> << >>]
    BY DEF NewChild
  <2>3. [[plain |-> 0, opt |-> << >>] EXCEPT !.plain = v] = [plain |-> v, opt |-> << >>]
    OBVIOUS
  <2> QED
    BY <1>5, <1>7, <2>1, <2>2, <2>3, Zenon
<1>12. ChildOf(b) = c
  <2>1. ChildOf(Append(a, e)) = [ChildOf(a) EXCEPT !.opt = <<x>>]
    BY <1>4, <1>10, ChildFacts
  <2>2. [[plain |-> v, opt |-> << >>] EXCEPT !.opt = <<x>>] = [plain |-> v, opt |-> <<x>>]
    OBVIOUS
  <2> QED
    BY <1>1, <1>2, <1>6, <1>8, <1>11, <2>1, <2>2, Zenon
<1> QED
  BY <1>9, <1>10, <1>12

(* What is between the key and the end of an entry. *)
EncodeEntry(e) == SetUnless("key", e.key, 0) \o SetUnless("value", e.value, 0)

(* The settings in the encoding of a map entry mean that entry. *)
LEMMA PairSays ==
  ASSUME NEW p \in PairT
  PROVE  Settings(EncodeEntry(p)) \in Seq(SetT) /\ PairOf(Settings(EncodeEntry(p))) = p
<1>1. PICK v \in Scalars, x \in Scalars : v = p.key /\ x = p.value /\ p = [key |-> v, value |-> x]
  BY DEF PairT
<1>3. PICK s \in SetTokenT, d \in SetT :
        s = Token("set", "key", v) /\ SettingOf(s) = d /\ d.field = "key" /\ d.value = v
  <2>1. PICK s \in SetTokenT : s = Token("set", "key", v) /\ SettingOf(s) = [field |-> "key", value |-> v]
    BY SetIs
  <2>2. PICK d \in SetT : d = [field |-> "key", value |-> v] /\ d.field = "key" /\ d.value = v
    BY SetIs
  <2> QED
    BY <2>1, <2>2, Zenon
<1>4. PICK t \in SetTokenT, e \in SetT :
        t = Token("set", "value", x) /\ SettingOf(t) = e /\ e.field = "value" /\ e.value = x
  <2>1. PICK t \in SetTokenT : t = Token("set", "value", x) /\ SettingOf(t) = [field |-> "value", value |-> x]
    BY SetIs
  <2>2. PICK e \in SetT : e = [field |-> "value", value |-> x] /\ e.field = "value" /\ e.value = x
    BY SetIs
  <2> QED
    BY <2>1, <2>2, Zenon
<1>5. PICK A \in {<< >>, <<s>>} : A = SetUnless("key", v, 0) /\ (A = << >> <=> v = 0)
  <2>1. <<s>> # << >>
    OBVIOUS
  <2> QED
    BY <1>3, <2>1 DEF SetUnless
<1>6. PICK B \in {<< >>, <<t>>} : B = SetUnless("value", x, 0) /\ (B = << >> <=> x = 0)
  <2>1. <<t>> # << >>
    OBVIOUS
  <2> QED
    BY <1>4, <2>1 DEF SetUnless
<1>7. PICK a : MayAdd(A, s, << >>, a) /\ a = IF A = << >> THEN << >> ELSE Append(<< >>, d)
  BY <1>3 DEF MayAdd
<1>8. PICK b : MayAdd(B, t, a, b) /\ b = IF B = << >> THEN a ELSE Append(a, e)
  BY <1>4 DEF MayAdd
<1>9. Settings(EncodeEntry(p)) = b
  <2>1. EncodeEntry(p) = A \o B
    BY <1>1, <1>5, <1>6, Zenon DEF EncodeEntry
  <2>3. SettlesTo(A \o B, b)
    BY <1>7, <1>8, TwoSettings, Zenon
  <2> QED
    BY <2>1, <2>3, Zenon DEF SettlesTo
<1>10. << >> \in Seq(SetT) /\ a \in Seq(SetT) /\ b \in Seq(SetT)
  BY <1>7, <1>8, EmptySeq, AppendProperties
<1>11. PairOf(a) = [key |-> v, value |-> 0]
  <2>0. PICK z \in Seq(SetT) : z = << >>
    BY <1>10
  <2>9. PairOf(<< >>) = NoFrame.pair /\ (d.field = "key" => PairOf(Append(z, d)) = [PairOf(z) EXCEPT !.key = d.value])
    BY PairFacts
  <2>1. PairOf(<< >>) = NoFrame.pair /\ PairOf(Append(<< >>, d)) = [PairOf(<< >>) EXCEPT !.key = v]
    BY <1>3, <2>0, <2>9, Zenon
  <2>2. NoFrame.pair = [key |-> 0, value |-> 0]
    BY DEF NoFrame
  <2>3. [[key |-> 0, value |-> 0] EXCEPT !.key = v] = [key |-> v, value |-> 0]
    OBVIOUS
  <2> QED
    BY <1>5, <1>7, <2>1, <2>2, <2>3, Zenon
<1>12. PairOf(b) = p
  <2>1. PairOf(Append(a, e)) = [PairOf(a) EXCEPT !.value = x]
    BY <1>4, <1>10, PairFacts
  <2>2. [[key |-> v, value |-> 0] EXCEPT !.value = x] = [key |-> v, value |-> x]
    OBVIOUS
  <2> QED
    BY <1>1, <1>6, <1>8, <1>11, <2>1, <2>2, Zenon
<1> QED
  BY <1>9, <1>10, <1>12

(* Occurrences of these fields only. *)
From(o, F) == o \in Seq(Occ) /\ \A i \in 1 .. Len(o) : o[i].field \in F

(* The occurrences of some fields in two sequences put together. *)
LEMMA ThoseConcat ==
  ASSUME NEW a \in Seq(Occ), NEW b \in Seq(Occ), NEW F
  PROVE  Those(a \o b, F) = Those(a, F) \o Those(b, F)
<1> DEFINE P == { x \in Seq(Occ) : Those(a \o x, F) = Those(a, F) \o Those(x, F) }
<1>0. PICK o \in Occ : TRUE
  <2>1. [field |-> "plain", value |-> 0, trail |-> << >>] \in Occ
    BY Basics DEF Occ, AllFields
  <2> QED
    BY <2>1
<1>1. Those(<< >>, F) = << >> /\ \A x \in Seq(Occ) : Those(x, F) \in Seq(Occ)
  BY <1>0, ThoseFacts
<1>2. << >> \in P
  <2>1. << >> \in Seq(Occ) /\ a \o << >> = a /\ Those(a, F) \o << >> = Those(a, F)
    BY <1>1, EmptySeq, ConcatEmptySeq
  <2> QED
    BY <1>1, <2>1
<1>3. \A x \in Seq(Occ) : \A e \in Occ : x \in P => Append(x, e) \in P
  <2> SUFFICES ASSUME NEW x \in Seq(Occ), NEW e \in Occ, x \in P PROVE Append(x, e) \in P
    BY Zenon
  <2>1. PICK y \in Seq(Occ) : y = a \o x
    BY ConcatProperties
  <2>2. a \o Append(x, e) = Append(y, e) /\ Append(x, e) \in Seq(Occ)
    BY <2>1, AppendConcat, AppendProperties
  <2>3. Those(y, F) = Those(a, F) \o Those(x, F)
    BY <2>1
  <2>4. CASE e.field \in F
    <3>1. Those(Append(y, e), F) = Append(Those(y, F), e) /\ Those(Append(x, e), F) = Append(Those(x, F), e)
      BY <2>4, ThoseFacts, ZenonT(40)
    <3>2. PICK p \in Seq(Occ), q \in Seq(Occ) : p = Those(a, F) /\ q = Those(x, F)
      BY <1>1
    <3>3. p \o Append(q, e) = Append(p \o q, e)
      BY AppendConcat
    <3> QED
      BY <2>2, <2>3, <3>1, <3>2, <3>3
  <2>5. CASE e.field \notin F
    <3>1. Those(Append(y, e), F) = Those(y, F) /\ Those(Append(x, e), F) = Those(x, F)
      BY <2>5, ThoseFacts
    <3> QED
      BY <2>2, <2>3, <3>1
  <2> QED
    BY <2>4, <2>5
<1> HIDE DEF P
<1>4. b \in P
  BY <1>2, <1>3, SeqInduction
<1> QED
  BY <1>4 DEF P

(* The occurrences of some fields in a sequence that has no others, or *)
(* none of them.                                                       *)
LEMMA ThoseFrom ==
  ASSUME NEW o, NEW G, NEW F, From(o, G)
  PROVE  /\ G \subseteq F => Those(o, F) = o
         /\ G \cap F = {} => Those(o, F) = << >>
<1> DEFINE P == { x \in Seq(Occ) : /\ G \subseteq F => Those(x, F) = x
                                   /\ G \cap F = {} => Those(x, F) = << >> }
           S == { x \in Occ : x.field \in G }
<1>0. PICK y \in Occ : TRUE
  <2>1. [field |-> "plain", value |-> 0, trail |-> << >>] \in Occ
    BY Basics DEF Occ, AllFields
  <2> QED
    BY <2>1
<1>1. << >> \in P
  <2>1. << >> \in Seq(Occ) /\ Those(<< >>, F) = << >>
    BY <1>0, EmptySeq, ThoseFacts
  <2> QED
    BY <2>1
<1>2. \A x \in Seq(S) : \A e \in S : x \in P => Append(x, e) \in P
  <2> SUFFICES ASSUME NEW x \in Seq(S), NEW e \in S, x \in P PROVE Append(x, e) \in P
    BY Zenon
  <2>1. x \in Seq(Occ) /\ e \in Occ /\ e.field \in G
    OBVIOUS
  <2>2. Append(x, e) \in Seq(Occ)
    BY <2>1, AppendProperties
  <2>3. CASE e.field \in F
    <3>1. Those(Append(x, e), F) = Append(Those(x, F), e)
      BY <2>1, <2>3, ThoseFacts
    <3>2. G \cap F # {}
      BY <2>1, <2>3
    <3> QED
      BY <2>2, <3>1, <3>2
  <2>4. CASE e.field \notin F
    <3>1. Those(Append(x, e), F) = Those(x, F)
      BY <2>1, <2>4, ThoseFacts
    <3>2. ~ (G \subseteq F)
      BY <2>1, <2>4
    <3> QED
      BY <2>2, <3>1, <3>2
  <2> QED
    BY <2>3, <2>4
<1>3. o \in Seq(S)
  <2>1. o \in Seq(Occ) /\ \A i \in 1 .. Len(o) : o[i].field \in G
    BY DEF From
  <2>2. PICK m \in Nat : m = Len(o) /\ DOMAIN o = 1 .. m
    BY <2>1, LenProperties
  <2>3. \A i \in 1 .. m : o[i] \in S
    BY <2>1, <2>2
  <2>4. o = [i \in 1 .. m |-> o[i]]
    BY <2>1, <2>2
  <2> HIDE DEF S
  <2> QED
    BY <2>1, <2>3, <2>4
<1>5. o \in P => /\ G \subseteq F => Those(o, F) = o
                 /\ G \cap F = {} => Those(o, F) = << >>
  OBVIOUS
<1> HIDE DEF P, S
<1>4. o \in P
  BY <1>1, <1>2, <1>3, SeqInduction
<1> QED
  BY <1>4, <1>5

(* Fields that have nothing in common. *)
Apart(F, G) == F \cap G = {}

(* What is known of occurrences o of the fields H after p of the fields G. *)
PartAdded(p, o, G, H) ==
  /\ From(p \o o, G \union H)
  /\ Those(p \o o, H) = o
  /\ \A F : Apart(F, H) => Those(p \o o, F) = Those(p, F)

(* Occurrences of other fields, added at the end. *)
LEMMA AddPart ==
  ASSUME NEW p, NEW o, NEW G, NEW H, From(p, G), From(o, H), Apart(G, H)
  PROVE  PartAdded(p, o, G, H)
<1>1. p \in Seq(Occ) /\ o \in Seq(Occ)
  BY DEF From
<1>2. PICK x \in Nat, y \in Nat : x = Len(p) /\ y = Len(o)
  BY <1>1, LenProperties
<1>3. /\ p \o o \in Seq(Occ) /\ Len(p \o o) = x + y
      /\ \A i \in 1 .. x + y : (p \o o)[i] = IF i <= x THEN p[i] ELSE o[i - x]
  BY <1>1, <1>2, ConcatProperties
<1>4. \A i \in 1 .. x + y : (i <= x /\ i \in 1 .. x) \/ (~ (i <= x) /\ i - x \in 1 .. y)
  OBVIOUS
<1>5. (\A i \in 1 .. x : p[i].field \in G \union H) /\ (\A i \in 1 .. y : o[i].field \in G \union H)
  BY <1>2 DEF From
<1>6. \A i \in 1 .. x + y : (p \o o)[i].field \in G \union H
  BY <1>3, <1>4, <1>5, Zenon
<1>7. From(p \o o, G \union H)
  BY <1>3, <1>6 DEF From
<1>8. \A F : Those(p \o o, F) = Those(p, F) \o Those(o, F)
  BY <1>1, ThoseConcat
<1>9. Those(p, H) = << >> /\ Those(o, H) = o
  <2>1. G \cap H = {} /\ H \subseteq H
    BY DEF Apart
  <2> QED
    BY <2>1, ThoseFrom
<1>10. << >> \o o = o
  BY <1>1, ConcatEmptySeq
<1>11. ASSUME NEW F, Apart(F, H) PROVE Those(p \o o, F) = Those(p, F)
  <2>1. H \cap F = {}
    BY <1>11 DEF Apart
  <2>2. Those(o, F) = << >>
    BY <2>1, ThoseFrom
  <2>3. Those(p, F) \in Seq(Occ)
    BY <1>1, WhereFacts DEF Those
  <2>4. Those(p, F) \o << >> = Those(p, F)
    BY <2>3, ConcatEmptySeq
  <2> QED
    BY <1>8, <2>2, <2>4, Zenon
<1>12. Those(p \o o, H) = o
  BY <1>8, <1>9, <1>10, Zenon
<1> QED
  BY <1>7, <1>11, <1>12 DEF PartAdded

(* What a single occurrence means. *)
LEMMA OneOccurrence ==
  ASSUME NEW o \in Occ
  PROVE  /\ <<o>> \in Seq(Occ) /\ <<o>> # << >> /\ From(<<o>>, {o.field})
         /\ \A d : LastOr(<<o>>, d) = o.value
         /\ LastIfAny(<<o>>) = <<o.value>>
         /\ Trails(<<o>>) = o.trail
<1>1. PICK s \in Seq(Occ) : s = << >>
  BY EmptySeq
<1>2. Append(s, o) = <<o>> /\ <<o>> \in Seq(Occ) /\ <<o>> # << >>
  BY <1>1
<1>3. From(<<o>>, {o.field})
  BY <1>2 DEF From
<1>4. (\A d : LastOr(<<o>>, d) = o.value) /\ LastIfAny(<<o>>) = <<o.value>>
  <2>1. (\A d : LastOr(Append(s, o), d) = o.value) /\ LastIfAny(Append(s, o)) = <<o.value>>
    BY LastFacts
  <2> QED
    BY <1>2, <2>1, Zenon
<1>5. Trails(<<o>>) = Trails(s) \o o.trail /\ Trails(s) = << >>
  BY <1>1, <1>2, OccTrails, Zenon
<1>6. o.trail \in Seq(SetT)
  BY DEF Occ
<1>7. << >> \o o.trail = o.trail
  BY <1>6, ConcatEmptySeq
<1> QED
  BY <1>2, <1>3, <1>4, <1>5, <1>7, Zenon

(* What no occurrence means. *)
LEMMA NoOccurrence ==
  /\ << >> \in Seq(Occ) /\ \A F : From(<< >>, F)
  /\ \A d : LastOr(<< >>, d) = d
  /\ LastIfAny(<< >>) = << >>
  /\ Trails(<< >>) = << >>
<1>1. << >> \in Seq(Occ) /\ Len(<< >>) = 0
  BY EmptySeq
<1>2. \A F : From(<< >>, F)
  BY <1>1 DEF From
<1>3. PICK o \in Occ : TRUE
  <2>1. [field |-> "plain", value |-> 0, trail |-> << >>] \in Occ
    BY Basics DEF Occ, AllFields
  <2> QED
    BY <2>1
<1>4. Trails(<< >>) = << >>
  BY <1>1, <1>3, OccTrails
<1> QED
  BY <1>1, <1>2, <1>4 DEF LastOr, LastIfAny

(* The occurrence a single scalar stands for. *)
LEMMA ShownOne ==
  ASSUME NEW f \in AllFields, NEW v \in Scalars
  PROVE  \E o \in Occ : /\ o = Occurrence(f, v, << >>) /\ o.field = f /\ o.value = v /\ o.trail = << >>
                        /\ ShownOf(Token("set", f, v)) = o
                        /\ Shown(<<Token("set", f, v)>>) = <<o>>
<1>1. PICK o \in Occ : o = Occurrence(f, v, << >>) /\ o.field = f /\ o.value = v /\ o.trail = << >>
  <2>1. PICK r \in Seq(SetT) : r = << >>
    BY EmptySeq
  <2>2. [field |-> f, value |-> v, trail |-> r] \in Occ
    BY DEF Occ
  <2> QED
    BY <2>1, <2>2 DEF Occurrence
<1>2. PICK t : t = Token("set", f, v) /\ t.field = f /\ t.value = v
  <2>1. Token("set", f, v).field = f /\ Token("set", f, v).value = v
    BY DEF Token
  <2> QED
    BY <2>1, Zenon
<1>3. ShownOf(t) = o
  BY <1>1, <1>2, Zenon DEF ShownOf
<1>4. DOMAIN <<t>> = {1} /\ <<t>>[1] = t
  OBVIOUS
<1>5. Shown(<<t>>) = <<o>>
  BY <1>3, <1>4 DEF Shown
<1> QED
  BY <1>1, <1>2, <1>3, <1>5

(* A field with implicit presence is encoded unless it has its default, *)
(* and reads as it was.                                                 *)
LEMMA PlainSays ==
  ASSUME NEW v \in Scalars, NEW A, A = SetUnless("plain", v, PlainDefault)
  PROVE  /\ Tells(A, Shown(A)) /\ From(Shown(A), {"plain"})
         /\ LastOr(Shown(A), PlainDefault) = v
<1>1. v \in Nat /\ PlainDefault \in Nat /\ "plain" \in AllFields
  BY ScalarAssumption, DefaultAssumption DEF Scalars, AllFields
<1>2. \E n : Inner(A, n)
  BY <1>1, SetUnlessInner, Zenon
<1>3. Tells(A, Shown(A))
  BY <1>2, TellsSets
<1>4. CASE v = PlainDefault
  <2>1. A = << >>
    BY <1>4 DEF SetUnless
  <2>2. Shown(A) = << >>
    BY <2>1 DEF Shown
  <2> QED
    BY <1>3, <1>4, <2>2, NoOccurrence
<1>5. CASE v # PlainDefault
  <2>1. PICK o \in Occ : o.field = "plain" /\ o.value = v /\ Shown(<<Token("set", "plain", v)>>) = <<o>>
    BY <1>1, ShownOne
  <2>2. A = <<Token("set", "plain", v)>>
    BY <1>5 DEF SetUnless
  <2>3. Shown(A) = <<o>>
    BY <2>1, <2>2
  <2> QED
    BY <1>3, <2>1, <2>3, OneOccurrence
<1> QED
  BY <1>4, <1>5

(* A field with explicit presence is encoded if it is present, and reads *)
(* as it was.                                                            *)
LEMMA OptSays ==
  ASSUME NEW o \in Options(Scalars), NEW A, A = OptionSet("opt", o)
  PROVE  /\ Tells(A, Shown(A)) /\ From(Shown(A), {"opt"})
         /\ LastIfAny(Shown(A)) = o
<1>1. "opt" \in AllFields
  BY DEF AllFields
<1>2. \E n : Inner(A, n)
  BY OptionSetInner, Zenon
<1>3. Tells(A, Shown(A))
  BY <1>2, TellsSets
<1>4. CASE o = << >>
  <2>1. A = << >>
    BY <1>4 DEF OptionSet
  <2>2. Shown(A) = << >>
    BY <2>1 DEF Shown
  <2> QED
    BY <1>3, <1>4, <2>2, NoOccurrence
<1>5. CASE o # << >>
  <2>0. PICK v \in Scalars : o = <<v>>
    BY <1>5 DEF Options
  <2>1. PICK x \in Occ : x.field = "opt" /\ x.value = v /\ Shown(<<Token("set", "opt", v)>>) = <<x>>
    BY <1>1, ShownOne
  <2>2. A = <<Token("set", "opt", v)>>
    <3>1. DOMAIN o = {1} /\ o[1] = v
      BY <2>0
    <3> QED
      BY <3>1 DEF OptionSet
  <2>3. Shown(A) = <<x>>
    BY <2>1, <2>2
  <2> QED
    BY <1>3, <2>0, <2>1, <2>3, OneOccurrence
<1> QED
  BY <1>4, <1>5

(* A repeated scalar is encoded as a packed run, and reads as it was. *)
LEMMA ListSays ==
  ASSUME NEW m \in Seq(Scalars)
  PROVE  /\ Tells(EncodePacked(m), Shown(OptionSet("list", m)))
         /\ From(Shown(OptionSet("list", m)), {"list"})
         /\ ValuesIn(Shown(OptionSet("list", m))) = m
<1>1. PICK n \in Nat : n = Len(m) /\ DOMAIN m = 1 .. n /\ m = [i \in 1 .. n |-> m[i]]
  BY LenProperties
<1>2. \A i \in 1 .. n : m[i] \in Scalars
  BY <1>1
<1>3. "list" \in AllFields
  BY DEF AllFields
<1>4. \A i \in 1 .. n : ShownOf(Token("set", "list", m[i])) \in Occ
                        /\ ShownOf(Token("set", "list", m[i])).field = "list"
                        /\ ShownOf(Token("set", "list", m[i])).value = m[i]
  <2> SUFFICES ASSUME NEW i \in 1 .. n
               PROVE  ShownOf(Token("set", "list", m[i])) \in Occ
                      /\ ShownOf(Token("set", "list", m[i])).field = "list"
                      /\ ShownOf(Token("set", "list", m[i])).value = m[i]
    BY Zenon
  <2>1. PICK x \in Scalars : x = m[i]
    BY <1>2
  <2>2. PICK o \in Occ : o.field = "list" /\ o.value = x /\ ShownOf(Token("set", "list", x)) = o
    BY <1>3, ShownOne, ZenonT(40)
  <2> QED
    BY <2>1, <2>2, Zenon
<1>5. PICK w : w = OptionSet("list", m) /\ DOMAIN w = 1 .. n /\ \A i \in 1 .. n : w[i] = Token("set", "list", m[i])
  <2>1. PICK w : w = [i \in 1 .. n |-> Token("set", "list", m[i])]
    OBVIOUS
  <2>2. DOMAIN w = 1 .. n /\ \A i \in 1 .. n : w[i] = Token("set", "list", m[i])
    BY <2>1, Zenon
  <2>3. w = OptionSet("list", m)
    BY <1>1, <2>1, Zenon DEF OptionSet
  <2> QED
    BY <2>2, <2>3
<1>6. PICK s : s = Shown(w) /\ s = [i \in 1 .. n |-> ShownOf(w[i])]
  BY <1>5, Zenon DEF Shown
<1>7. \A i \in 1 .. n : s[i] \in Occ /\ s[i].field = "list" /\ s[i].value = m[i]
  BY <1>4, <1>5, <1>6
<1>8. s = [i \in 1 .. n |-> s[i]]
  BY <1>6
<1>9. s \in Seq(Occ) /\ Len(s) = n /\ DOMAIN s = 1 .. n
  <2>1. \A i \in 1 .. n : s[i] \in Occ
    BY <1>7
  <2> QED
    BY <1>8, <2>1
<1>10. From(s, {"list"})
  BY <1>7, <1>9 DEF From
<1>11. ValuesIn(s) = m
  BY <1>1, <1>7, <1>9 DEF ValuesIn
<1> QED
  BY <1>5, <1>6, <1>10, <1>11, TellsPacked

(* The occurrence the encoding of a nested message, or of an entry, is *)
(* read as.                                                            *)
SaysNested(f, c) == Occurrence(f, 0, Settings(EncodeChild(c)))
SaysEntry(e)     == Occurrence("entry", 0, Settings(EncodeEntry(e)))

(* A nested message is encoded as one occurrence that means it. *)
LEMMA NestedSays ==
  ASSUME NEW f \in NestedFields, NEW c \in ChildT
  PROVE  /\ Tells(EncodeNested(f, c), <<SaysNested(f, c)>>)
         /\ SaysNested(f, c) \in Occ /\ SaysNested(f, c).field = f /\ SaysNested(f, c).value = 0
         /\ ChildOf(SaysNested(f, c).trail) = c
<1>1. PICK n \in Nat : n = ChildLen(c) /\ Inner(EncodeChild(c), n)
  BY ChildInner
<1>2. Tells(EncodeNested(f, c), <<SaysNested(f, c)>>)
  <2>1. f \in NestedFields \union {"entry"}
    OBVIOUS
  <2>2. Tells(<<Token("open", f, n)>> \o EncodeChild(c) \o <<Token("close", f, 0)>>, <<Occurrence(f, 0, Settings(EncodeChild(c)))>>)
    BY <1>1, <2>1, TellsNested
  <2> QED
    BY <1>1, <2>2, Zenon DEF EncodeNested, SaysNested
<1>3. PICK r \in Seq(SetT) : r = Settings(EncodeChild(c)) /\ ChildOf(r) = c
  BY ChildSays
<1>4. f \in AllFields /\ 0 \in Scalars
  BY Basics DEF NestedFields, AllFields
<1>5. PICK o \in Occ : o = Occurrence(f, 0, r) /\ o.field = f /\ o.value = 0 /\ o.trail = r
  <2>1. [field |-> f, value |-> 0, trail |-> r] \in Occ
    BY <1>4 DEF Occ
  <2> QED
    BY <2>1 DEF Occurrence
<1>6. SaysNested(f, c) = o
  BY <1>3, <1>5, Zenon DEF SaysNested
<1> QED
  BY <1>2, <1>3, <1>5, <1>6, Zenon

(* A map entry is encoded as one occurrence that means it. *)
LEMMA EntrySays ==
  ASSUME NEW e \in PairT
  PROVE  /\ Tells(EncodePair(e), <<SaysEntry(e)>>)
         /\ SaysEntry(e) \in Occ /\ SaysEntry(e).field = "entry"
         /\ PairOf(SaysEntry(e).trail) = e
<1>1. PICK a \in Seq(TokenT), b \in Seq(TokenT) : a = SetUnless("key", e.key, 0) /\ b = SetUnless("value", e.value, 0)
  <2>1. e.key \in Nat /\ e.value \in Nat /\ 0 \in Nat
    BY ScalarAssumption DEF PairT, Scalars
  <2>2. (\E n : Inner(SetUnless("key", e.key, 0), n)) /\ (\E n : Inner(SetUnless("value", e.value, 0), n))
    BY <2>1, SetUnlessInner, Zenon
  <2> QED
    BY <2>2 DEF Inner
<1>2. PICK n \in Nat : n = PairLen(e) /\ Inner(a \o b, n) /\ EncodeEntry(e) = a \o b
  BY <1>1, PairInner, Zenon DEF EncodeEntry
<1>3. Tells(<<Token("open", "entry", n)>> \o (a \o b) \o <<Token("close", "entry", 0)>>,
            <<Occurrence("entry", 0, Settings(a \o b))>>)
  BY <1>2, TellsNested
<1>4. Token("open", "entry", n) \in TokenT
  BY DEF TokenT, Token, AllFields
<1>5. <<Token("open", "entry", n)>> \o (a \o b) = (<<Token("open", "entry", n)>> \o a) \o b
  BY <1>4, ConcatAssociative
<1>6. Tells(EncodePair(e), <<SaysEntry(e)>>)
  BY <1>1, <1>2, <1>3, <1>5, Zenon DEF EncodePair, SaysEntry
<1>7. PICK r \in Seq(SetT) : r = Settings(EncodeEntry(e)) /\ PairOf(r) = e
  BY PairSays
<1>8. "entry" \in AllFields /\ 0 \in Scalars
  BY Basics DEF AllFields
<1>9. PICK o \in Occ : o = Occurrence("entry", 0, r) /\ o.field = "entry" /\ o.trail = r
  <2>1. [field |-> "entry", value |-> 0, trail |-> r] \in Occ
    BY <1>8 DEF Occ
  <2> QED
    BY <2>1 DEF Occurrence
<1>10. SaysEntry(e) = o
  BY <1>7, <1>9, Zenon DEF SaysEntry
<1> QED
  BY <1>6, <1>7, <1>9, <1>10, Zenon

(* A required message is always encoded, if the type has one. *)
LEMMA MustSays ==
  ASSUME NEW c \in ChildT, "must" \notin Fields => c = NewChild, NEW A, NEW o,
         A = (IF "must" \in Fields THEN EncodeNested("must", c) ELSE << >>),
         o = (IF "must" \in Fields THEN <<SaysNested("must", c)>> ELSE << >>)
  PROVE  Tells(A, o) /\ From(o, {"must"}) /\ ChildOf(Trails(o)) = c
<1>1. CASE "must" \in Fields
  <2>1. "must" \in NestedFields
    BY DEF NestedFields
  <2>2. PICK x \in Occ : /\ x = SaysNested("must", c) /\ Tells(EncodeNested("must", c), <<x>>)
                         /\ x.field = "must" /\ ChildOf(x.trail) = c
    BY <2>1, NestedSays
  <2>3. A = EncodeNested("must", c) /\ o = <<x>>
    BY <1>1, <2>2
  <2>4. From(<<x>>, {x.field}) /\ Trails(<<x>>) = x.trail
    BY OneOccurrence
  <2> QED
    BY <2>2, <2>3, <2>4, Zenon
<1>2. CASE "must" \notin Fields
  <2>1. A = << >> /\ o = << >> /\ c = NewChild
    BY <1>2
  <2>2. ChildOf(<< >>) = NewChild
    <3>1. NoFrame.built = NewChild
      BY DEF NoFrame
    <3> QED
      BY <3>1, Basics, Zenon
  <2> QED
    BY <2>1, <2>2, TellsNothing, NoOccurrence, Zenon
<1> QED
  BY <1>1, <1>2

(* Messages of a field are encoded one by one, and read as they were. *)
LEMMA ItemsSay ==
  ASSUME NEW m \in Seq(ChildT), NEW f \in {"child", "item"}
  PROVE  /\ Tells(Flat([i \in DOMAIN m |-> EncodeNested(f, m[i])]), [i \in DOMAIN m |-> SaysNested(f, m[i])])
         /\ From([i \in DOMAIN m |-> SaysNested(f, m[i])], {f})
         /\ ItemsIn([i \in DOMAIN m |-> SaysNested(f, m[i])]) = m
<1>1. PICK n \in Nat : n = Len(m) /\ DOMAIN m = 1 .. n /\ m = [i \in 1 .. n |-> m[i]]
  BY LenProperties
<1>2. \A i \in 1 .. n : m[i] \in ChildT
  BY <1>1
<1>3. f \in NestedFields
  BY DEF NestedFields
<1>4. \A i \in 1 .. n : /\ Tells(EncodeNested(f, m[i]), <<SaysNested(f, m[i])>>)
                        /\ SaysNested(f, m[i]) \in Occ /\ SaysNested(f, m[i]).field = f
                        /\ ChildOf(SaysNested(f, m[i]).trail) = m[i]
  BY <1>2, <1>3, NestedSays, Zenon
<1>5. PICK w : w = [i \in 1 .. n |-> EncodeNested(f, m[i])]
  OBVIOUS
<1>6. PICK s : s = [i \in 1 .. n |-> SaysNested(f, m[i])]
  OBVIOUS
<1>7. /\ w = [i \in DOMAIN m |-> EncodeNested(f, m[i])]
      /\ s = [i \in DOMAIN m |-> SaysNested(f, m[i])]
  BY <1>1, <1>5, <1>6, Zenon
<1>8. \A i \in 1 .. n : Tells(w[i], <<s[i]>>) /\ s[i] \in Occ /\ s[i].field = f /\ ChildOf(s[i].trail) = m[i]
  BY <1>4, <1>5, <1>6, Zenon
<1>9. \A i \in 1 .. n : w[i] \in Seq(TokenT) /\ s[i] \in LooseOcc
  <2>1. \A i \in 1 .. n : w[i] \in Seq(TokenT) /\ <<s[i]>> \in Seq(LooseOcc)
    BY <1>8, Zenon DEF Tells
  <2>2. \A x : <<x>> \in Seq(LooseOcc) => x \in LooseOcc
    OBVIOUS
  <2> QED
    BY <2>1, <2>2, Zenon
<1>10. w \in Seq(Seq(TokenT)) /\ Len(w) = n
  BY <1>5, <1>9
<1>11. s \in Seq(LooseOcc) /\ Len(s) = n /\ DOMAIN s = 1 .. n
  BY <1>6, <1>9
<1>12. Tells(Flat(w), s)
  BY <1>8, <1>10, <1>11, TellsFlat
<1>13. s \in Seq(Occ)
  <2>1. \A i \in 1 .. n : s[i] \in Occ
    BY <1>8, Zenon
  <2> QED
    BY <1>6, <2>1
<1>14. From(s, {f})
  BY <1>8, <1>11, <1>13 DEF From
<1>15. ItemsIn(s) = m
  <2>1. ItemsIn(s) = [i \in 1 .. n |-> ChildOf(s[i].trail)]
    BY <1>11, Zenon DEF ItemsIn
  <2>2. [i \in 1 .. n |-> ChildOf(s[i].trail)] = [i \in 1 .. n |-> m[i]]
    BY <1>8, Zenon
  <2> QED
    BY <1>1, <2>1, <2>2, Zenon
<1> QED
  BY <1>7, <1>12, <1>14, <1>15, Zenon

(* The entries of a map are encoded one by one in their order, and read as *)
(* they were.                                                              *)
LEMMA MapSays ==
  ASSUME NEW m \in Seq(PairT)
  PROVE  /\ Tells(Flat([i \in DOMAIN m |-> EncodePair(m[i])]), [i \in DOMAIN m |-> SaysEntry(m[i])])
         /\ From([i \in DOMAIN m |-> SaysEntry(m[i])], {"entry"})
         /\ PairsIn([i \in DOMAIN m |-> SaysEntry(m[i])]) = m
<1>1. PICK n \in Nat : n = Len(m) /\ DOMAIN m = 1 .. n /\ m = [i \in 1 .. n |-> m[i]]
  BY LenProperties
<1>2. \A i \in 1 .. n : m[i] \in PairT
  BY <1>1
<1>4. \A i \in 1 .. n : /\ Tells(EncodePair(m[i]), <<SaysEntry(m[i])>>)
                        /\ SaysEntry(m[i]) \in Occ /\ SaysEntry(m[i]).field = "entry"
                        /\ PairOf(SaysEntry(m[i]).trail) = m[i]
  BY <1>2, EntrySays, Zenon
<1>5. PICK w : w = [i \in 1 .. n |-> EncodePair(m[i])]
  OBVIOUS
<1>6. PICK s : s = [i \in 1 .. n |-> SaysEntry(m[i])]
  OBVIOUS
<1>7. /\ w = [i \in DOMAIN m |-> EncodePair(m[i])]
      /\ s = [i \in DOMAIN m |-> SaysEntry(m[i])]
  BY <1>1, <1>5, <1>6, Zenon
<1>8. \A i \in 1 .. n : Tells(w[i], <<s[i]>>) /\ s[i] \in Occ /\ s[i].field = "entry" /\ PairOf(s[i].trail) = m[i]
  BY <1>4, <1>5, <1>6, Zenon
<1>9. \A i \in 1 .. n : w[i] \in Seq(TokenT) /\ s[i] \in LooseOcc
  <2>1. \A i \in 1 .. n : w[i] \in Seq(TokenT) /\ <<s[i]>> \in Seq(LooseOcc)
    BY <1>8, Zenon DEF Tells
  <2>2. \A x : <<x>> \in Seq(LooseOcc) => x \in LooseOcc
    OBVIOUS
  <2> QED
    BY <2>1, <2>2, Zenon
<1>10. w \in Seq(Seq(TokenT)) /\ Len(w) = n
  BY <1>5, <1>9
<1>11. s \in Seq(LooseOcc) /\ Len(s) = n /\ DOMAIN s = 1 .. n
  BY <1>6, <1>9
<1>12. Tells(Flat(w), s)
  BY <1>8, <1>10, <1>11, TellsFlat
<1>13. s \in Seq(Occ)
  <2>1. \A i \in 1 .. n : s[i] \in Occ
    BY <1>8, Zenon
  <2> QED
    BY <1>6, <2>1
<1>14. From(s, {"entry"})
  BY <1>8, <1>11, <1>13 DEF From
<1>15. PairsIn(s) = m
  <2>1. PairsIn(s) = [i \in 1 .. n |-> PairOf(s[i].trail)]
    BY <1>11, Zenon DEF PairsIn
  <2>2. [i \in 1 .. n |-> PairOf(s[i].trail)] = [i \in 1 .. n |-> m[i]]
    BY <1>8, Zenon
  <2> QED
    BY <1>1, <2>1, <2>2, Zenon
<1> QED
  BY <1>7, <1>12, <1>14, <1>15, Zenon

(* The occurrence the encoding of a oneof is read as. *)
SaysChoice(c) ==
  IF c.variant = "number" THEN Shown(<<Token("set", "number", c.number)>>)
  ELSE IF c.variant = "message" THEN <<SaysNested("message", c.message)>> ELSE << >>

(* The parts of the other variants are at their zero, and the variant is *)
(* no group.                                                             *)
OneVariant(c) ==
  /\ c.variant # "group"
  /\ c.variant = "number" => c.message = NewChild
  /\ c.variant = "message" => c.number = 0
  /\ c.variant = "unset" => c = Unset

(* A oneof that was given once. *)
LEMMA ChoiceOfOne ==
  ASSUME NEW o \in Occ
  PROVE  ChoiceOf(<<o>>) = [variant |-> o.field, number |-> o.value, message |-> ChildOf(o.trail)]
<1>1. PICK s \in Seq(Occ) : s = << >>
  BY EmptySeq
<1>2. Append(s, o) = <<o>>
  BY <1>1
<1>3. SinceSwitch(<<o>>) = <<o>>
  BY <1>1, <1>2, SwitchGrows, Zenon
<1>4. <<o>> # << >> /\ Len(<<o>>) = 1 /\ <<o>>[1] = o
  OBVIOUS
<1>5. Trails(<<o>>) = o.trail
  BY OneOccurrence
<1> QED
  BY <1>3, <1>4, <1>5, Zenon DEF ChoiceOf

(* A oneof is encoded as the variant it has, and reads as it was, unless *)
(* that is a group.                                                      *)
LEMMA ChoiceSays ==
  ASSUME NEW c \in ChoiceT, OneVariant(c)
  PROVE  Tells(EncodeChoice(c), SaysChoice(c)) /\ From(SaysChoice(c), OneOf) /\ ChoiceOf(SaysChoice(c)) = c
<1>0. PICK k \in {"unset"} \union OneOf, v \in Scalars, m \in ChildT :
        c = [variant |-> k, number |-> v, message |-> m] /\ k = c.variant /\ v = c.number /\ m = c.message
  <2>1. c.variant \in {"unset"} \union OneOf /\ c.number \in Scalars /\ c.message \in ChildT
    BY DEF ChoiceT
  <2>2. c = [variant |-> c.variant, number |-> c.number, message |-> c.message]
    BY DEF ChoiceT
  <2> QED
    BY <2>1, <2>2, Zenon
<1>1. CASE k = "number"
  <2>1. "number" \in AllFields /\ v \in Nat /\ "number" # "list"
    BY ScalarAssumption DEF AllFields, Scalars
  <2>2. PICK o \in Occ : /\ o.field = "number" /\ o.value = v /\ o.trail = << >>
                         /\ Shown(<<Token("set", "number", v)>>) = <<o>>
    BY <2>1, ShownOne
  <2>3. Tells(<<Token("set", "number", v)>>, <<o>>)
    <3>1. \E n : Inner(<<Token("set", "number", v)>>, n)
      BY <2>1, InnerOne
    <3> QED
      BY <2>2, <3>1, TellsSets, Zenon
  <2>4. EncodeChoice(c) = <<Token("set", "number", v)>> /\ SaysChoice(c) = <<o>>
    BY <1>0, <1>1, <2>2, Zenon DEF EncodeChoice, SaysChoice
  <2>5. From(<<o>>, OneOf)
    <3>1. From(<<o>>, {o.field})
      BY OneOccurrence
    <3> QED
      BY <2>2, <3>1 DEF From, OneOf
  <2>6. ChoiceOf(<<o>>) = [variant |-> "number", number |-> v, message |-> ChildOf(<< >>)]
    BY <2>2, ChoiceOfOne, Zenon
  <2>7. ChildOf(<< >>) = NewChild /\ m = NewChild
    <3>1. NoFrame.built = NewChild
      BY DEF NoFrame
    <3>2. m = NewChild
      BY <1>0, <1>1, Zenon DEF OneVariant
    <3> QED
      BY <3>1, <3>2, Basics, Zenon
  <2> QED
    BY <1>0, <1>1, <2>3, <2>4, <2>5, <2>6, <2>7, Zenon
<1>2. CASE k = "message"
  <2>1. "message" \in NestedFields /\ k # "number"
    BY <1>2 DEF NestedFields
  <2>2. PICK o \in Occ : /\ o = SaysNested("message", m) /\ Tells(EncodeNested("message", m), <<o>>)
                         /\ o.field = "message" /\ o.value = 0 /\ ChildOf(o.trail) = m
    BY <2>1, NestedSays
  <2>3. EncodeChoice(c) = EncodeNested("message", m)
    <3>1. c.variant = "message" /\ c.message = m
      BY <1>0, <1>2
    <3> HIDE <1>0, <1>2, <2>1
    <3> QED
      BY <3>1 DEF EncodeChoice
  <2>4. SaysChoice(c) = <<o>>
    BY <1>0, <1>2, <2>1, <2>2, Zenon DEF SaysChoice
  <2>5. From(<<o>>, OneOf)
    <3>1. From(<<o>>, {o.field})
      BY OneOccurrence
    <3> QED
      BY <2>2, <3>1 DEF From, OneOf
  <2>6. ChoiceOf(<<o>>) = [variant |-> "message", number |-> 0, message |-> m]
    BY <2>2, ChoiceOfOne, Zenon
  <2>7. v = 0
    BY <1>0, <1>2, Zenon DEF OneVariant
  <2> QED
    BY <1>0, <1>2, <2>2, <2>3, <2>4, <2>5, <2>6, <2>7, Zenon
<1>3. CASE k = "unset"
  <2>1. c.variant = "unset" /\ c.variant # "number" /\ c.variant # "message" /\ c.variant # "group"
    BY <1>0, <1>3
  <2>2. EncodeChoice(c) = << >> /\ SaysChoice(c) = << >>
    BY <2>1 DEF EncodeChoice, SaysChoice
  <2>3. ChoiceOf(<< >>) = Unset /\ c = Unset
    BY <2>1 DEF ChoiceOf, OneVariant
  <2> QED
    BY <2>2, <2>3, TellsNothing, NoOccurrence, Zenon
<1>4. k # "group"
  BY <1>0 DEF OneVariant
<1> QED
  BY <1>0, <1>1, <1>2, <1>3, <1>4 DEF OneOf

(* Occurrences of the fields G, and for some fields which of them are *)
(* theirs.                                                            *)
Parts(q, G, W) ==
  /\ From(q, G)
  /\ \A P \in W : P[1] \subseteq G /\ Those(q, P[1]) = P[2]

(* One field more, after fields that are all different from it. *)
LEMMA NextPart ==
  ASSUME NEW q, NEW G, NEW W, NEW o, NEW H, Parts(q, G, W), From(o, H), Apart(G, H)
  PROVE  Parts(q \o o, G \union H, W \union {<<H, o>>})
<1>1. From(q, G) /\ \A P \in W : P[1] \subseteq G /\ Those(q, P[1]) = P[2]
  BY DEF Parts
<1>2. /\ From(q \o o, G \union H)
      /\ Those(q \o o, H) = o
      /\ \A F : Apart(F, H) => Those(q \o o, F) = Those(q, F)
  <2>1. From(q, G)
    BY <1>1
  <2>2. PartAdded(q, o, G, H)
    BY <2>1, AddPart, Zenon
  <2> QED
    BY <2>2 DEF PartAdded
<1>3. ASSUME NEW P \in W PROVE P[1] \subseteq G \union H /\ Those(q \o o, P[1]) = P[2]
  <2>1. PICK F : F = P[1] /\ F \subseteq G /\ Those(q, F) = P[2]
    BY <1>1
  <2>2. Apart(F, H) /\ F \subseteq G \union H
    BY <2>1 DEF Apart
  <2> QED
    BY <1>2, <2>1, <2>2, Zenon
<1>4. <<H, o>>[1] = H /\ <<H, o>>[2] = o
  OBVIOUS
<1>5. ASSUME NEW P \in W \union {<<H, o>>} PROVE P[1] \subseteq G \union H /\ Those(q \o o, P[1]) = P[2]
  <2>1. CASE P \in W
    BY <1>3, <2>1
  <2>2. CASE P = <<H, o>>
    <3>1. H \subseteq G \union H
      OBVIOUS
    <3> QED
      BY <1>2, <1>4, <2>2, <3>1, Zenon
  <2> QED
    BY <2>1, <2>2
<1> QED
  BY <1>2, <1>5, Zenon DEF Parts

(* An optional message is encoded if it is present, and reads as it was. *)
LEMMA ChildrenSay ==
  ASSUME NEW v \in Options(ChildT), NEW o, o = [i \in DOMAIN v |-> SaysNested("child", v[i])]
  PROVE  /\ Tells(Flat([i \in DOMAIN v |-> EncodeNested("child", v[i])]), o)
         /\ From(o, {"child"})
         /\ v = IF o = << >> THEN << >> ELSE <<ChildOf(Trails(o))>>
<1>1. PICK f \in {"child", "item"} : f = "child"
  OBVIOUS
<1>2. v \in Seq(ChildT)
  BY EmptySeq DEF Options
<1>3. Tells(Flat([i \in DOMAIN v |-> EncodeNested(f, v[i])]), [i \in DOMAIN v |-> SaysNested(f, v[i])])
      /\ From([i \in DOMAIN v |-> SaysNested(f, v[i])], {f})
  BY <1>2, ItemsSay
<1>4. CASE v = << >>
  <2>1. o = << >>
    BY <1>4
  <2> QED
    BY <1>1, <1>3, <1>4, <2>1, Zenon
<1>5. CASE v # << >>
  <2>1. PICK c \in ChildT : v = <<c>>
    BY <1>5 DEF Options
  <2>2. "child" \in NestedFields
    BY DEF NestedFields
  <2>3. PICK x \in Occ : x = SaysNested("child", c) /\ ChildOf(x.trail) = c
    BY <2>2, NestedSays
  <2>4. DOMAIN v = {1} /\ v[1] = c
    BY <2>1
  <2>5. o = <<x>>
    BY <2>3, <2>4
  <2>6. Trails(<<x>>) = x.trail /\ <<x>> # << >>
    BY OneOccurrence
  <2> QED
    BY <1>1, <1>3, <2>1, <2>3, <2>5, <2>6, Zenon
<1> QED
  BY <1>4, <1>5

(* The occurrences the encoding of a view is read as, in the order of *)
(* EncodeRaw.                                                         *)
Says(v) ==
  Shown(SetUnless("plain", v.plain, PlainDefault))
  \o Shown(OptionSet("opt", v.opt))
  \o Shown(OptionSet("list", v.list))
  \o (IF "must" \in Fields THEN <<SaysNested("must", v.must)>> ELSE << >>)
  \o [i \in DOMAIN v.child |-> SaysNested("child", v.child[i])]
  \o [i \in DOMAIN v.item |-> SaysNested("item", v.item[i])]
  \o SaysChoice(v.choice)
  \o [i \in DOMAIN v.map |-> SaysEntry(v.map[i])]

(* What is true of every view without a group variant: see HeldIsShowable. *)
Showable(v) ==
  /\ "must" \notin Fields => v.must = NewChild
  /\ OneVariant(v.choice)
  /\ Sorted(v.map)

(* The encoding of a view tells of occurrences that mean, field by field, *)
(* what the view holds.                                                   *)
LEMMA SaysWhatItHolds ==
  ASSUME NEW v \in BuilderT, Showable(v)
  PROVE  /\ Tells(EncodeRaw(v), Says(v)) /\ Says(v) \in Seq(Occ)
         /\ LastOr(Those(Says(v), {"plain"}), PlainDefault) = v.plain
         /\ LastIfAny(Those(Says(v), {"opt"})) = v.opt
         /\ ValuesIn(Those(Says(v), {"list"})) = v.list
         /\ ChildOf(Trails(Those(Says(v), {"must"}))) = v.must
         /\ v.child = IF Those(Says(v), {"child"}) = << >> THEN << >>
                      ELSE <<ChildOf(Trails(Those(Says(v), {"child"})))>>
         /\ ItemsIn(Those(Says(v), {"item"})) = v.item
         /\ ChoiceOf(Those(Says(v), OneOf)) = v.choice
         /\ PairsIn(Those(Says(v), {"entry"})) = v.map
<1>0. /\ v.plain \in Scalars /\ v.opt \in Options(Scalars) /\ v.list \in Seq(Scalars) /\ v.must \in ChildT
      /\ v.child \in Options(ChildT) /\ v.item \in Seq(ChildT) /\ v.choice \in ChoiceT /\ v.map \in Seq(PairT)
  BY DEF BuilderT
<1>1. PICK w1, o1 : /\ w1 = SetUnless("plain", v.plain, PlainDefault)
                    /\ o1 = Shown(SetUnless("plain", v.plain, PlainDefault))
                    /\ Tells(w1, o1) /\ From(o1, {"plain"}) /\ LastOr(o1, PlainDefault) = v.plain
  BY <1>0, PlainSays, Zenon
<1>2. PICK w2, o2 : /\ w2 = OptionSet("opt", v.opt) /\ o2 = Shown(OptionSet("opt", v.opt))
                    /\ Tells(w2, o2) /\ From(o2, {"opt"}) /\ LastIfAny(o2) = v.opt
  BY <1>0, OptSays, Zenon
<1>3. PICK w3, o3 : /\ w3 = EncodePacked(v.list) /\ o3 = Shown(OptionSet("list", v.list))
                    /\ Tells(w3, o3) /\ From(o3, {"list"}) /\ ValuesIn(o3) = v.list
  BY <1>0, ListSays, Zenon
<1>4. PICK w4, o4 : /\ w4 = (IF "must" \in Fields THEN EncodeNested("must", v.must) ELSE << >>)
                    /\ o4 = (IF "must" \in Fields THEN <<SaysNested("must", v.must)>> ELSE << >>)
                    /\ Tells(w4, o4) /\ From(o4, {"must"}) /\ ChildOf(Trails(o4)) = v.must
  <2>1. "must" \notin Fields => v.must = NewChild
    BY DEF Showable
  <2> QED
    BY <1>0, <2>1, MustSays, Zenon
<1>5. PICK w5, o5 : /\ w5 = Flat([i \in DOMAIN v.child |-> EncodeNested("child", v.child[i])])
                    /\ o5 = [i \in DOMAIN v.child |-> SaysNested("child", v.child[i])]
                    /\ Tells(w5, o5) /\ From(o5, {"child"})
                    /\ v.child = IF o5 = << >> THEN << >> ELSE <<ChildOf(Trails(o5))>>
  BY <1>0, ChildrenSay, Zenon
<1>6. PICK w6, o6 : /\ w6 = Flat([i \in DOMAIN v.item |-> EncodeNested("item", v.item[i])])
                    /\ o6 = [i \in DOMAIN v.item |-> SaysNested("item", v.item[i])]
                    /\ Tells(w6, o6) /\ From(o6, {"item"}) /\ ItemsIn(o6) = v.item
  <2>1. "item" \in {"child", "item"}
    OBVIOUS
  <2> QED
    BY <1>0, <2>1, ItemsSay, Zenon
<1>7. PICK w7, o7 : /\ w7 = EncodeChoice(v.choice) /\ o7 = SaysChoice(v.choice)
                    /\ Tells(w7, o7) /\ From(o7, OneOf) /\ ChoiceOf(o7) = v.choice
  <2>1. OneVariant(v.choice)
    BY DEF Showable
  <2> QED
    BY <1>0, <2>1, ChoiceSays, Zenon
<1>8. PICK w8, o8 : /\ w8 = Flat([i \in DOMAIN v.map |-> EncodePair(v.map[i])])
                    /\ o8 = [i \in DOMAIN v.map |-> SaysEntry(v.map[i])]
                    /\ Tells(w8, o8) /\ From(o8, {"entry"}) /\ PairsIn(o8) = v.map
  BY <1>0, MapSays, Zenon
<1>9. EncodeRaw(v) = w1 \o w2 \o w3 \o w4 \o w5 \o w6 \o w7 \o w8
  BY <1>1, <1>2, <1>3, <1>4, <1>5, <1>6, <1>7, <1>8, Zenon DEF EncodeRaw
<1>10. Says(v) = o1 \o o2 \o o3 \o o4 \o o5 \o o6 \o o7 \o o8
  BY <1>1, <1>2, <1>3, <1>4, <1>5, <1>6, <1>7, <1>8, Zenon DEF Says
<1>11. Tells(w1 \o w2 \o w3 \o w4 \o w5 \o w6 \o w7 \o w8, o1 \o o2 \o o3 \o o4 \o o5 \o o6 \o o7 \o o8)
  <2>2. Tells(w1 \o w2, o1 \o o2)
    BY <1>1, <1>2, TellsConcat, Zenon
  <2>3. Tells(w1 \o w2 \o w3, o1 \o o2 \o o3)
    BY <1>3, <2>2, TellsConcat, Zenon
  <2>4. Tells(w1 \o w2 \o w3 \o w4, o1 \o o2 \o o3 \o o4)
    BY <1>4, <2>3, TellsConcat, Zenon
  <2>5. Tells(w1 \o w2 \o w3 \o w4 \o w5, o1 \o o2 \o o3 \o o4 \o o5)
    BY <1>5, <2>4, TellsConcat, Zenon
  <2>6. Tells(w1 \o w2 \o w3 \o w4 \o w5 \o w6, o1 \o o2 \o o3 \o o4 \o o5 \o o6)
    BY <1>6, <2>5, TellsConcat, Zenon
  <2>7. Tells(w1 \o w2 \o w3 \o w4 \o w5 \o w6 \o w7, o1 \o o2 \o o3 \o o4 \o o5 \o o6 \o o7)
    BY <1>7, <2>6, TellsConcat, Zenon
  <2> QED
    BY <1>8, <2>7, TellsConcat, Zenon
<1>12. PICK G, W : /\ Parts(o1 \o o2 \o o3 \o o4 \o o5 \o o6 \o o7 \o o8, G, W)
                   /\ <<{"plain"}, o1>> \in W /\ <<{"opt"}, o2>> \in W /\ <<{"list"}, o3>> \in W /\ <<{"must"}, o4>> \in W
                   /\ <<{"child"}, o5>> \in W /\ <<{"item"}, o6>> \in W /\ <<OneOf, o7>> \in W /\ <<{"entry"}, o8>> \in W
  <2>1. PICK G1, W1 : Parts(o1, G1, W1) /\ G1 = {"plain"} /\ W1 = {<<{"plain"}, o1>>}
    <3>1. Those(o1, {"plain"}) = o1 /\ <<{"plain"}, o1>>[1] = {"plain"} /\ <<{"plain"}, o1>>[2] = o1
      BY <1>1, ThoseFrom
    <3> QED
      BY <1>1, <3>1 DEF Parts
  <2>2. PICK G2, W2 : Parts(o1 \o o2, G2, W2) /\ G2 = G1 \union {"opt"} /\ W2 = W1 \union {<<{"opt"}, o2>>}
    <3>1. Apart(G1, {"opt"})
      BY <2>1 DEF Apart
    <3> QED
      BY <1>2, <2>1, <3>1, NextPart, Zenon
  <2>3. PICK G3, W3 : Parts(o1 \o o2 \o o3, G3, W3) /\ G3 = G2 \union {"list"} /\ W3 = W2 \union {<<{"list"}, o3>>}
    <3>1. Apart(G2, {"list"})
      BY <2>1, <2>2 DEF Apart
    <3> QED
      BY <1>3, <2>2, <3>1, NextPart, Zenon
  <2>4. PICK G4, W4 : Parts(o1 \o o2 \o o3 \o o4, G4, W4) /\ G4 = G3 \union {"must"} /\ W4 = W3 \union {<<{"must"}, o4>>}
    <3>1. Apart(G3, {"must"})
      BY <2>1, <2>2, <2>3 DEF Apart
    <3> QED
      BY <1>4, <2>3, <3>1, NextPart, Zenon
  <2>5. PICK G5, W5 : Parts(o1 \o o2 \o o3 \o o4 \o o5, G5, W5) /\ G5 = G4 \union {"child"} /\ W5 = W4 \union {<<{"child"}, o5>>}
    <3>1. Apart(G4, {"child"})
      BY <2>1, <2>2, <2>3, <2>4 DEF Apart
    <3> QED
      BY <1>5, <2>4, <3>1, NextPart, Zenon
  <2>6. PICK G6, W6 : Parts(o1 \o o2 \o o3 \o o4 \o o5 \o o6, G6, W6) /\ G6 = G5 \union {"item"} /\ W6 = W5 \union {<<{"item"}, o6>>}
    <3>1. Apart(G5, {"item"})
      BY <2>1, <2>2, <2>3, <2>4, <2>5 DEF Apart
    <3> QED
      BY <1>6, <2>5, <3>1, NextPart, Zenon
  <2>7. PICK G7, W7 : Parts(o1 \o o2 \o o3 \o o4 \o o5 \o o6 \o o7, G7, W7) /\ G7 = G6 \union OneOf /\ W7 = W6 \union {<<OneOf, o7>>}
    <3>1. Apart(G6, OneOf)
      BY <2>1, <2>2, <2>3, <2>4, <2>5, <2>6 DEF OneOf, Apart
    <3> QED
      BY <1>7, <2>6, <3>1, NextPart, Zenon
  <2>8. PICK G8, W8 : Parts(o1 \o o2 \o o3 \o o4 \o o5 \o o6 \o o7 \o o8, G8, W8) /\ W8 = W7 \union {<<{"entry"}, o8>>}
    <3>1. Apart(G7, {"entry"})
      BY <2>1, <2>2, <2>3, <2>4, <2>5, <2>6, <2>7 DEF OneOf, Apart
    <3> QED
      BY <1>8, <2>7, <3>1, NextPart, Zenon
  <2>9. \A A, x : x \in A \union {x}
    OBVIOUS
  <2>10. \A A, x, y : y \in A => y \in A \union {x}
    OBVIOUS
  <2>11. /\ <<{"plain"}, o1>> \in W8 /\ <<{"opt"}, o2>> \in W8 /\ <<{"list"}, o3>> \in W8 /\ <<{"must"}, o4>> \in W8
         /\ <<{"child"}, o5>> \in W8 /\ <<{"item"}, o6>> \in W8 /\ <<OneOf, o7>> \in W8 /\ <<{"entry"}, o8>> \in W8
    <3>1. <<{"plain"}, o1>> \in W1
      BY <2>1
    <3>2. <<{"plain"}, o1>> \in W2 /\ <<{"opt"}, o2>> \in W2
      BY <2>2, <2>9, <2>10, <3>1, Zenon
    <3>3. <<{"plain"}, o1>> \in W3 /\ <<{"opt"}, o2>> \in W3 /\ <<{"list"}, o3>> \in W3
      BY <2>3, <2>9, <2>10, <3>2, Zenon
    <3>4. <<{"plain"}, o1>> \in W4 /\ <<{"opt"}, o2>> \in W4 /\ <<{"list"}, o3>> \in W4 /\ <<{"must"}, o4>> \in W4
      BY <2>4, <2>9, <2>10, <3>3, Zenon
    <3>5. \A x : x \in W4 => x \in W8
      BY <2>5, <2>6, <2>7, <2>8, <2>10, Zenon
    <3>6. \A x : (x \in W5 => x \in W8) /\ (x \in W6 => x \in W8) /\ (x \in W7 => x \in W8)
      BY <2>6, <2>7, <2>8, <2>10, Zenon
    <3>7. <<{"child"}, o5>> \in W5 /\ <<{"item"}, o6>> \in W6 /\ <<OneOf, o7>> \in W7 /\ <<{"entry"}, o8>> \in W8
      BY <2>5, <2>6, <2>7, <2>8, <2>9, Zenon
    <3> QED
      BY <3>4, <3>5, <3>6, <3>7, Zenon
  <2> QED
    BY <2>8, <2>11, Zenon
<1>13. PICK s : s = Says(v) /\ Parts(s, G, W) /\ Tells(EncodeRaw(v), s)
  BY <1>9, <1>10, <1>11, <1>12, Zenon
<1>14. \A F, o : <<F, o>> \in W => Those(s, F) = o
  <2>1. \A F, o : <<F, o>>[1] = F /\ <<F, o>>[2] = o
    OBVIOUS
  <2> QED
    BY <1>13, <2>1, Zenon DEF Parts
<1>15. s \in Seq(Occ)
  BY <1>13 DEF Parts, From
<1>16. /\ Those(s, {"plain"}) = o1 /\ Those(s, {"opt"}) = o2 /\ Those(s, {"list"}) = o3 /\ Those(s, {"must"}) = o4
       /\ Those(s, {"child"}) = o5 /\ Those(s, {"item"}) = o6 /\ Those(s, OneOf) = o7 /\ Those(s, {"entry"}) = o8
  BY <1>12, <1>14, Zenon
<1> QED
  BY <1>1, <1>2, <1>3, <1>4, <1>5, <1>6, <1>7, <1>8, <1>13, <1>15, <1>16, Zenon

-----------------------------------------------------------------------------
(* A view and the encoding of it *)

(* Sorting entries that are sorted changes nothing: the sort is stable. *)
LEMMA SortedStays ==
  ASSUME NEW E, \A e \in E : e.key \in Int, NEW m \in Seq(E), Sorted(m)
  PROVE  SortedByKey(m) = m
<1>1. PICK n \in Nat : n = Len(m) /\ DOMAIN m = 1 .. n /\ m = [i \in 1 .. n |-> m[i]]
  BY LenProperties
<1>2. \A i \in 1 .. n : m[i].key \in Int
  BY <1>1
<1>3. \A i, j \in 1 .. n : i < j => m[i].key <= m[j].key
  BY <1>1 DEF Sorted
<1>4. ASSUME NEW i \in 1 .. n PROVE Rank(m, i) = i
  <2>1. { j \in DOMAIN m : m[j].key < m[i].key \/ (m[j].key = m[i].key /\ j < i) } = 1 .. i - 1
    <3>1. ASSUME NEW j \in 1 .. n PROVE (m[j].key < m[i].key \/ (m[j].key = m[i].key /\ j < i)) <=> j < i
      <4>1. j < i => m[j].key <= m[i].key
        BY <1>3
      <4>2. i < j => m[i].key <= m[j].key
        BY <1>3
      <4>3. m[i].key \in Int /\ m[j].key \in Int
        BY <1>2
      <4> QED
        BY <4>1, <4>2, <4>3
    <3>2. \A j : j \in 1 .. i - 1 <=> j \in 1 .. n /\ j < i
      OBVIOUS
    <3> QED
      BY <1>1, <3>1, <3>2
  <2>2. i - 1 \in Int /\ 1 \in Int
    OBVIOUS
  <2>3. Cardinality(1 .. i - 1) = i - 1
    BY <2>2, FS_Interval
  <2>4. Rank(m, i) = 1 + Cardinality({ j \in DOMAIN m : m[j].key < m[i].key \/ (m[j].key = m[i].key /\ j < i) })
    BY DEF Rank
  <2>5. Rank(m, i) = 1 + (i - 1)
    BY <2>1, <2>3, <2>4, Zenon
  <2> QED
    BY <2>5
<1>5. PICK k \in Seq(E), o \in [1 .. n -> 1 .. n] : /\ k = SortedByKey(m) /\ o = Origin(m)
                                                   /\ Len(k) = n /\ \A p \in 1 .. n : k[p] = m[o[p]]
  <2>1. /\ SortedByKey(m) \in Seq(E) /\ Len(SortedByKey(m)) = Len(m)
        /\ Origin(m) \in [1 .. Len(m) -> 1 .. Len(m)]
        /\ \A p \in 1 .. Len(m) : SortedByKey(m)[p] = m[Origin(m)[p]]
    BY SortFacts, Zenon
  <2> QED
    BY <1>1, <2>1, Zenon
<1>6. \A p \in 1 .. n : o[p] = p
  <2> SUFFICES ASSUME NEW p \in 1 .. n PROVE o[p] = p
    BY Zenon
  <2>1. Origin(m)[p] = CHOOSE i \in DOMAIN m : Rank(m, i) = p
    BY <1>1 DEF Origin
  <2>2. \E i \in DOMAIN m : Rank(m, i) = p
    BY <1>1, <1>4, Zenon
  <2>3. o[p] \in 1 .. n /\ Rank(m, o[p]) = p
    BY <1>1, <1>5, <2>1, <2>2, Zenon
  <2> QED
    BY <1>4, <2>3, Zenon
<1>7. \A p \in 1 .. n : k[p] = m[p]
  BY <1>5, <1>6, Zenon
<1>8. k = [p \in 1 .. n |-> k[p]]
  BY <1>5
<1>9. [p \in 1 .. n |-> k[p]] = [p \in 1 .. n |-> m[p]]
  BY <1>7, Zenon
<1> QED
  BY <1>1, <1>5, <1>8, <1>9, Zenon

(* A builder that holds what the encoding of a view tells of is, frozen, *)
(* that view.                                                            *)
LEMMA SameView ==
  ASSUME NEW b \in BuilderT, NEW v \in BuilderT, Showable(v), NEW e, New(e).plain = PlainDefault,
         OthersAre(b, Says(v), e), ChildIs(b, Says(v)),
         b.map = SortedByKey(PairsIn(Those(Says(v), {"entry"})))
  PROVE  b = v
<1>1. PICK s :
         /\ s = Says(v)
         /\ LastOr(Those(s, {"plain"}), PlainDefault) = v.plain
         /\ LastIfAny(Those(s, {"opt"})) = v.opt
         /\ ValuesIn(Those(s, {"list"})) = v.list
         /\ ChildOf(Trails(Those(s, {"must"}))) = v.must
         /\ v.child = IF Those(s, {"child"}) = << >> THEN << >>
                      ELSE <<ChildOf(Trails(Those(s, {"child"})))>>
         /\ ItemsIn(Those(s, {"item"})) = v.item
         /\ ChoiceOf(Those(s, OneOf)) = v.choice
         /\ PairsIn(Those(s, {"entry"})) = v.map
  BY SaysWhatItHolds, Zenon
<1>2. OthersAre(b, s, e) /\ ChildIs(b, s)
  BY <1>1
<1>3. b.plain = v.plain
  BY <1>1, <1>2, Zenon DEF OthersAre, PlainIs
<1>4. b.opt = v.opt
  BY <1>1, <1>2, Zenon DEF OthersAre, OptIs
<1>5. b.list = v.list
  BY <1>1, <1>2, Zenon DEF OthersAre, ListIs
<1>6. b.must = v.must
  BY <1>1, <1>2, Zenon DEF OthersAre, MustIs
<1>7. b.child = v.child
  BY <1>1, <1>2, Zenon DEF ChildIs
<1>8. b.item = v.item
  BY <1>1, <1>2, Zenon DEF OthersAre, ItemIs
<1>9. b.choice = v.choice
  BY <1>1, <1>2, Zenon DEF OthersAre, ChoiceIs
<1>10. b.map = v.map
  <2>1. v.map \in Seq(PairT) /\ Sorted(v.map)
    BY DEF BuilderT, Showable
  <2>2. \A p \in PairT : p.key \in Int
    BY ScalarAssumption DEF PairT, Scalars
  <2>3. SortedByKey(v.map) = v.map
    BY <2>1, <2>2, SortedStays
  <2> QED
    BY <1>1, <2>3, Zenon
<1> QED
  BY <1>3, <1>4, <1>5, <1>6, <1>7, <1>8, <1>9, <1>10 DEF BuilderT

(* The log and the open field have the types of the reader. *)
LEMMA Loosened ==
  /\ \A l \in Seq(Occ) : l \in Seq(LooseOcc)
  /\ \A r \in Seq(SetT) : r \in Seq(LooseSet)
  /\ \A f \in FrameT : f.field \in PlaceT /\ f.trail \in Seq(LooseSet) /\ (f.field # "none" => f.field \in AllFields)
<1>1. \A x \in SetT : x \in LooseSet
  BY ScalarAssumption DEF SetT, LooseSet, Scalars, AllFields
<1>2. Seq(SetT) \subseteq Seq(LooseSet)
  BY <1>1, SeqMonotonic
<1>3. \A x \in Occ : x \in LooseOcc
  <2> SUFFICES ASSUME NEW x \in Occ PROVE x \in LooseOcc
    BY Zenon
  <2>1. x.field \in PlaceT /\ x.value \in Nat
    BY ScalarAssumption DEF Occ, PlaceT, Scalars
  <2>2. x.trail \in Seq(LooseSet)
    BY <1>2 DEF Occ
  <2>3. x = [field |-> x.field, value |-> x.value, trail |-> x.trail]
    BY DEF Occ
  <2> QED
    BY <2>1, <2>2, <2>3 DEF LooseOcc
<1>4. Seq(Occ) \subseteq Seq(LooseOcc)
  BY <1>3, SeqMonotonic
<1>5. ASSUME NEW f \in FrameT
      PROVE  f.field \in PlaceT /\ f.trail \in Seq(LooseSet) /\ (f.field # "none" => f.field \in AllFields)
  <2>1. f.trail \in Seq(SetT)
    BY DEF FrameT
  <2>2. f.field \in NestedFields \union {"entry", "list", "none"}
    BY DEF FrameT
  <2>3. f.trail \in Seq(LooseSet)
    BY <1>2, <2>1
  <2>4. f.field \in PlaceT /\ (f.field # "none" => f.field \in AllFields)
    BY <2>2 DEF PlaceT, AllFields
  <2> QED
    BY <2>3, <2>4
<1> QED
  BY <1>2, <1>4, <1>5

(* A merge that failed does not recover by reading on. *)
LEMMA FailedStays ==
  ASSUME NEW l \in Seq(LooseOcc), NEW r \in Seq(LooseSet), NEW w \in Seq(TokenT)
  PROVE  Reading(Reader(l, "failed", r), w) = Reader(l, "failed", r)
<1>1. PICK s \in ReaderT : s = Reader(l, "failed", r)
  <2>1. "failed" \in PlaceT
    BY DEF PlaceT
  <2> QED
    BY <2>1, ReaderFacts
<1>2. \A t \in TokenT : After(s, t) = s
  <2>1. "failed" \in PlaceT
    BY DEF PlaceT
  <2> QED
    BY <1>1, <2>1, AfterGroup, Zenon
<1> DEFINE P == { x \in Seq(TokenT) : Reading(s, x) = s }
<1>3. << >> \in P
  BY EmptySeq, ReadingFacts
<1>4. \A x \in Seq(TokenT) : \A t \in TokenT : x \in P => Append(x, t) \in P
  <2> SUFFICES ASSUME NEW x \in Seq(TokenT), NEW t \in TokenT, x \in P PROVE Append(x, t) \in P
    BY Zenon
  <2>1. Reading(s, Append(x, t)) = After(Reading(s, x), t) /\ Reading(s, x) = s
    BY ReadingFacts
  <2>2. Append(x, t) \in Seq(TokenT)
    BY AppendProperties
  <2> QED
    BY <1>2, <2>1, <2>2
<1>5. w \in P => Reading(s, w) = s
  OBVIOUS
<1> HIDE DEF P
<1>6. w \in P
  BY <1>3, <1>4, SeqInduction
<1> QED
  BY <1>1, <1>5, <1>6

-----------------------------------------------------------------------------
(* The second input *)

(* The occurrences a log can have: of fields of the type, and without a *)
(* value if they are of a message.                                      *)
Held == { o \in Occ : o.field \in Fields /\ (o.field \in NestedFields => o.value = 0) }

(* The claim about the second input: merging what is left of it leads to a *)
(* builder that was given what the view says.  Until it is frozen the      *)
(* builder has its entries in the order they were given.                   *)
ReadInv ==
  /\ entry \in Entries /\ phase \in {"first", "second"}
  /\ input \in Seq(TokenT) /\ log \in Seq(Held)
  /\ Outside => frame.trail = << >>
  /\ result = "frozen" \/ phase = "second" => Showable(view)
  /\ phase = "second" =>
       /\ result # "failed"
       /\ Reading(Reader(log, frame.field, frame.trail), input) = Reader(Says(view), "none", << >>)
       /\ result = "merging" => builder.map = PairsIn(Those(log, {"entry"}))
       /\ result = "frozen" => input = << >> /\ builder.map = SortedByKey(PairsIn(Those(log, {"entry"})))

(* A sequence is its first element and the rest. *)
LEMMA FirstAndRest ==
  ASSUME NEW S, NEW s \in Seq(S), s # << >>
  PROVE  \E e \in S, r \in Seq(S) : e = Head(s) /\ r = Tail(s) /\ s = <<e>> \o r
<1>1. PICK e \in S, r \in Seq(S) : e = Head(s) /\ r = Tail(s)
  BY HeadTailProperties
<1>2. PICK n \in Nat : n = Len(s) /\ DOMAIN s = 1 .. n /\ s = [i \in 1 .. n |-> s[i]] /\ n # 0
  BY LenProperties, EmptySeq
<1>3. e = s[1] /\ Len(r) = n - 1 /\ \A i \in 1 .. n - 1 : r[i] = s[i + 1]
  BY <1>1, <1>2, HeadTailProperties
<1>4. PICK k \in Seq(S) : k = <<e>> \o r /\ Len(k) = n /\ k[1] = e /\ \A i \in 2 .. n : k[i] = r[i - 1]
  <2>1. <<e>> \in Seq(S) /\ Len(<<e>>) = 1 /\ <<e>>[1] = e
    OBVIOUS
  <2>2. /\ <<e>> \o r \in Seq(S) /\ Len(<<e>> \o r) = 1 + Len(r)
        /\ \A i \in 1 .. 1 + Len(r) : (<<e>> \o r)[i] = IF i <= 1 THEN <<e>>[i] ELSE r[i - 1]
    BY <2>1, ConcatProperties
  <2>3. 1 + Len(r) = n
    BY <1>2, <1>3
  <2> QED
    <3>1. PICK k \in Seq(S) : k = <<e>> \o r /\ Len(k) = n
      BY <2>2, <2>3
    <3>2. \A i \in 1 .. n : k[i] = IF i <= 1 THEN <<e>>[i] ELSE r[i - 1]
      BY <2>2, <2>3, <3>1, Zenon
    <3>3. 1 \in 1 .. n /\ \A i \in 2 .. n : i \in 1 .. n /\ ~ (i <= 1)
      BY <1>2
    <3>4. k[1] = e
      BY <2>1, <3>2, <3>3
    <3>5. \A i \in 2 .. n : k[i] = r[i - 1]
      BY <3>2, <3>3, Zenon
    <3> QED
      BY <3>1, <3>4, <3>5, Zenon
<1>5. \A i \in 1 .. n : k[i] = s[i]
  <2>1. \A i \in 2 .. n : i - 1 \in 1 .. n - 1 /\ (i - 1) + 1 = i
    OBVIOUS
  <2>2. \A i \in 2 .. n : k[i] = s[i]
    BY <1>3, <1>4, <2>1
  <2> QED
    <3>1. \A i \in 1 .. n : i = 1 \/ i \in 2 .. n
      OBVIOUS
    <3> QED
      BY <1>3, <1>4, <2>2, <3>1, Zenon
<1>6. k = [i \in 1 .. n |-> k[i]]
  BY <1>4
<1>7. [i \in 1 .. n |-> k[i]] = [i \in 1 .. n |-> s[i]]
  BY <1>5, Zenon
<1> QED
  BY <1>1, <1>2, <1>4, <1>6, <1>7, Zenon

(* The token that Take takes. *)
Named(t, p, f, v) == t.op = p /\ t.field = f /\ (p = "set" => t.value = v)

(* A step does with such a token what the reader does. *)
IsRead(p, f, v) ==
  \A t \in TokenT : Named(t, p, f, v) =>
    After(Reader(log, frame.field, frame.trail), t) = Reader(log', frame'.field, frame'.trail)

(* A step that takes a token and does to the log and the frame what the *)
(* reader does with that token keeps the claim about the rest of the    *)
(* input.                                                               *)
LEMMA TakenIsRead ==
  ASSUME MergeInv, ReadInv, NEW p, NEW f, NEW v, Take(p, f, v),
         log' \in Seq(Held), Outside' => frame'.trail = << >>, result' = "merging",
         builder.map = PairsIn(Those(log, {"entry"})) => builder'.map = PairsIn(Those(log', {"entry"})),
         IsRead(p, f, v)
  PROVE  ReadInv'
<1>1. entry' = entry /\ phase' = phase /\ view' = view /\ result = "merging"
  BY DEF Take
<1>2. entry \in Entries /\ phase \in {"first", "second"} /\ input \in Seq(TokenT) /\ (phase = "second" => Showable(view))
  BY DEF ReadInv
<1>3. CASE phase = "first" /\ input' = input
  <2>1. phase' # "second" /\ result' # "frozen"
    BY <1>1, <1>3
  <2> QED
    BY <1>1, <1>2, <1>3, <2>1, Zenon DEF ReadInv
<1>4. CASE phase = "second" /\ input # << >> /\ Head(input).op = p /\ Head(input).field = f
           /\ (p = "set" => Head(input).value = v) /\ input' = Tail(input)
  <2>1. PICK t \in TokenT, w \in Seq(TokenT) : t = Head(input) /\ w = Tail(input) /\ input = <<t>> \o w
    BY <1>2, <1>4, FirstAndRest, Zenon
  <2>2. Named(t, p, f, v) /\ input' = w
    BY <1>4, <2>1, Zenon DEF Named
  <2>3. PICK s \in ReaderT : s = Reader(log, frame.field, frame.trail)
    <3>1. log \in Seq(Occ) /\ frame \in FrameT
      BY DEF MergeInv
    <3> QED
      BY <3>1, Loosened, ReaderFacts
  <2>4. After(s, t) = Reader(log', frame'.field, frame'.trail)
    BY <2>2, <2>3, Zenon DEF IsRead
  <2>5. Reading(s, input) = Reading(After(s, t), w)
    <3>1. Reading(s, <<t>> \o w) = Reading(After(s, t), w)
      BY ReadingFirst, Zenon
    <3> QED
      BY <2>1, <3>1, Zenon
  <2>6. Reading(s, input) = Reader(Says(view), "none", << >>)
    BY <1>4, <2>3 DEF ReadInv
  <2>7. Reading(Reader(log', frame'.field, frame'.trail), input') = Reader(Says(view'), "none", << >>)
    BY <1>1, <2>2, <2>4, <2>5, <2>6, Zenon
  <2>8. builder'.map = PairsIn(Those(log', {"entry"}))
    BY <1>1, <1>4 DEF ReadInv
  <2>9. result' # "frozen" /\ result' # "failed"
    OBVIOUS
  <2> QED
    BY <1>1, <1>2, <1>4, <2>2, <2>7, <2>8, <2>9, Zenon DEF ReadInv
<1>5. (phase = "first" /\ input' = input)
      \/ (phase = "second" /\ input # << >> /\ Head(input).op = p /\ Head(input).field = f
          /\ (p = "set" => Head(input).value = v) /\ input' = Tail(input))
  BY Zenon DEF Take
<1> QED
  BY <1>3, <1>4, <1>5, Zenon

(* The pairs in the log, with one occurrence more. *)
LEMMA GivenOne ==
  ASSUME NEW l \in Seq(Occ), NEW o \in Occ
  PROVE  /\ o.field # "entry" => PairsIn(Those(Append(l, o), {"entry"})) = PairsIn(Those(l, {"entry"}))
         /\ o.field = "entry" =>
              PairsIn(Those(Append(l, o), {"entry"})) = Append(PairsIn(Those(l, {"entry"})), PairOf(o.trail))
<1>1. PICK s \in Seq(Occ) : s = Those(l, {"entry"})
  BY ThoseFacts
<1>2. CASE o.field = "entry"
  <2>1. o.field \in {"entry"}
    BY <1>2
  <2>2. Those(Append(l, o), {"entry"}) = Append(s, o)
    BY <1>1, <2>1, ThoseFacts
  <2> QED
    BY <1>1, <1>2, <2>2, MapFacts, Zenon
<1>3. CASE o.field # "entry"
  <2>1. o.field \notin {"entry"}
    BY <1>3
  <2>2. Those(Append(l, o), {"entry"}) = s
    BY <1>1, <2>1, ThoseFacts
  <2> QED
    BY <1>1, <1>3, <2>2, Zenon
<1> QED
  BY <1>2, <1>3

(* A step that takes a scalar as an occurrence. *)
LEMMA ScalarIsRead ==
  ASSUME MergeInv, ReadInv, NEW f \in {"plain", "opt", "list", "number"}, NEW v \in Scalars, Take("set", f, v),
         f \in Fields, frame.field \in {"none", "list"}, frame' = frame, result' = result,
         Logged(f, v, << >>), builder'.map = builder.map
  PROVE  ReadInv'
<1>1. PICK o \in Occ : o = Occurrence(f, v, << >>) /\ o.field = f
  <2>1. f \in AllFields
    BY DEF AllFields
  <2> QED
    BY <2>1, ShownOne
<1>2. f \notin NestedFields /\ f # "entry"
  BY DEF NestedFields
<1>3. o \in Held /\ log \in Seq(Held) /\ log \in Seq(Occ) /\ log' = Append(log, o)
  BY <1>1, <1>2 DEF Held, ReadInv, MergeInv, Logged
<1>4. log' \in Seq(Held)
  BY <1>3, AppendProperties
<1>5. Outside' => frame'.trail = << >>
  BY DEF ReadInv, Outside
<1>6. result' = "merging"
  BY DEF Take
<1>7. PairsIn(Those(log', {"entry"})) = PairsIn(Those(log, {"entry"}))
  BY <1>1, <1>2, <1>3, GivenOne, Zenon
<1>8. ASSUME NEW t \in TokenT, Named(t, "set", f, v)
      PROVE  After(Reader(log, frame.field, frame.trail), t) = Reader(log', frame'.field, frame'.trail)
  <2>1. frame.field \in PlaceT /\ frame.trail \in Seq(LooseSet) /\ log \in Seq(LooseOcc)
    BY <1>3, Loosened DEF MergeInv
  <2>2. frame.field # "failed" /\ ~ Nests(frame.field)
    BY DEF NestedFields, Nests
  <2>0. t.op = "set" /\ t.field = f /\ t.value = v
    BY <1>8 DEF Named
  <2>3. After(Reader(log, frame.field, frame.trail), t) = Reader(Append(log, ShownOf(t)), frame.field, frame.trail)
    <3>1. PICK l \in Seq(LooseOcc), x \in PlaceT, r \in Seq(LooseSet) : l = log /\ x = frame.field /\ r = frame.trail
      BY <2>1
    <3>2. x # "failed" /\ ~ Nests(x)
      BY <2>2, <3>1
    <3>3. After(Reader(l, x, r), t) = Reader(Append(l, ShownOf(t)), x, r)
      BY <2>0, <3>2, ShownRead, Zenon DEF Moves
    <3> QED
      BY <3>1, <3>3, Zenon
  <2>4. ShownOf(t) = o
    BY <1>1, <2>0, Zenon DEF ShownOf
  <2> QED
    BY <1>3, <2>3, <2>4, Zenon
<1>9. IsRead("set", f, v)
  BY <1>8 DEF IsRead
<1> QED
  BY <1>4, <1>5, <1>6, <1>7, <1>9, TakenIsRead, Zenon

(* A step that opens a field. *)
LEMMA OpenIsRead ==
  ASSUME MergeInv, ReadInv, NEW f, Take("open", f, 0), f # "none", Outside, frame'.field = f, frame'.trail = << >>,
         result' = result, log' = log, builder'.map = builder.map
  PROVE  ReadInv'
<1>1. log \in Seq(Held) /\ log \in Seq(Occ) /\ frame.field = "none" /\ frame.trail = << >>
  BY DEF ReadInv, MergeInv, Outside
<1>2. result' = "merging"
  BY DEF Take
<1>3. ASSUME NEW t \in TokenT, Named(t, "open", f, 0)
      PROVE  After(Reader(log, frame.field, frame.trail), t) = Reader(log', frame'.field, frame'.trail)
  <2>1. log \in Seq(LooseOcc)
    BY <1>1, Loosened
  <2>2. After(Reader(log, "none", << >>), t) = Reader(log, t.field, << >>)
    BY <1>3, <2>1, AfterOpen DEF Named
  <2> QED
    BY <1>1, <1>3, <2>2, Zenon DEF Named
<1>4. IsRead("open", f, 0)
  BY <1>3 DEF IsRead
<1>5. Outside' => frame'.trail = << >>
  OBVIOUS
<1>6. log' \in Seq(Held) /\ (builder.map = PairsIn(Those(log, {"entry"})) => builder'.map = PairsIn(Those(log', {"entry"})))
  BY <1>1, Zenon
<1> QED
  BY <1>2, <1>4, <1>5, <1>6, TakenIsRead, Zenon

(* A step that takes a scalar as a setting of what is open. *)
LEMMA NestedIsRead ==
  ASSUME MergeInv, ReadInv, NEW f, NEW v, Take("set", f, v), frame.field \in NestedFields \union {"entry"},
         frame'.field = frame.field, frame'.trail = Append(frame.trail, [field |-> f, value |-> v]),
         result' = result, log' = log, builder' = builder
  PROVE  ReadInv'
<1>1. log \in Seq(Held) /\ log \in Seq(Occ) /\ ~ Outside'
  BY DEF ReadInv, MergeInv, Outside, NestedFields
<1>2. result' = "merging"
  BY DEF Take
<1>3. ASSUME NEW t \in TokenT, Named(t, "set", f, v)
      PROVE  After(Reader(log, frame.field, frame.trail), t) = Reader(log', frame'.field, frame'.trail)
  <2>1. frame.field \in PlaceT /\ frame.trail \in Seq(LooseSet) /\ log \in Seq(LooseOcc)
    BY <1>1, Loosened DEF MergeInv
  <2>2. frame.field # "failed"
    BY DEF NestedFields
  <2>3. After(Reader(log, frame.field, frame.trail), t) = Reader(log, frame.field, Append(frame.trail, SettingOf(t)))
    <3>1. PICK l \in Seq(LooseOcc), x \in PlaceT, r \in Seq(LooseSet) : l = log /\ x = frame.field /\ r = frame.trail
      BY <2>1
    <3>2. x # "failed" /\ Nests(x) /\ t.op = "set"
      BY <1>3, <2>2, <3>1 DEF Named, Nests
    <3>3. After(Reader(l, x, r), t) = Reader(l, x, Append(r, SettingOf(t)))
      BY <3>2, SettingRead, Zenon DEF Moves
    <3> QED
      BY <3>1, <3>3, Zenon
  <2>4. SettingOf(t) = [field |-> f, value |-> v]
    <3>1. t.field = f /\ t.value = v
      BY <1>3 DEF Named
    <3> QED
      BY <3>1, Zenon DEF SettingOf
  <2> QED
    BY <2>3, <2>4, Zenon
<1>4. IsRead("set", f, v)
  BY <1>3 DEF IsRead
<1>5. Outside' => frame'.trail = << >>
  BY <1>1
<1>6. log' \in Seq(Held) /\ (builder.map = PairsIn(Those(log, {"entry"})) => builder'.map = PairsIn(Those(log', {"entry"})))
  BY <1>1, Zenon
<1> QED
  BY <1>2, <1>4, <1>5, <1>6, TakenIsRead, Zenon

(* Close: the frame becomes an occurrence, an entry is pushed as it is *)
(* logged.                                                             *)
LEMMA CloseIsRead ==
  ASSUME MergeInv, ReadInv, Close PROVE ReadInv'
<1>1. /\ ~ Outside /\ Take("close", frame.field, 0) /\ builder' = Stored(builder, frame) /\ frame' = NoFrame
      /\ frame.field = "list" => log' = log
      /\ frame.field # "list" => log' = Append(log, Occurrence(frame.field, 0, frame.trail))
      /\ result' = result
  BY DEF Close, Logged
<1>2. /\ builder \in BuilderT /\ frame \in FrameT /\ log \in Seq(Held) /\ log \in Seq(Occ)
      /\ frame.field = "entry" => frame.pair = PairOf(frame.trail)
  BY DEF MergeInv, ReadInv
<1>3. frame.field \in NestedFields \union {"entry", "list"} /\ frame.field # "none"
  BY <1>1, <1>2 DEF FrameT, Outside
<1>4. frame.field \in Fields
  <2>1. frame.field \in Fields \union {"plain", "opt", "key", "value"}
    BY <1>1 DEF Take
  <2> QED
    BY <1>3, <2>1 DEF NestedFields
<1>5. PICK o \in Held : o = Occurrence(frame.field, 0, frame.trail) /\ o.field = frame.field /\ o.trail = frame.trail
  <2>1. frame.field \in AllFields /\ 0 \in Scalars /\ frame.trail \in Seq(SetT)
    BY <1>2, <1>3, Basics, Loosened DEF FrameT
  <2>2. PICK o \in Occ : o = Occurrence(frame.field, 0, frame.trail) /\ o.field = frame.field /\ o.trail = frame.trail /\ o.value = 0
    <3>1. PICK x \in AllFields, r \in Seq(SetT) : x = frame.field /\ r = frame.trail
      BY <2>1
    <3>2. [field |-> x, value |-> 0, trail |-> r] \in Occ
      BY <2>1 DEF Occ
    <3> QED
      BY <3>1, <3>2 DEF Occurrence
  <2>3. o \in Held
    BY <1>4, <2>2 DEF Held
  <2> QED
    BY <2>2, <2>3
<1>6. log' \in Seq(Held)
  <2>1. Append(log, o) \in Seq(Held)
    BY <1>2, AppendProperties
  <2> QED
    BY <1>1, <1>2, <1>5, <2>1, Zenon
<1>7. frame'.field = "none" /\ frame'.trail = << >>
  BY <1>1 DEF NoFrame
<1>8. result' = "merging"
  BY <1>1 DEF Take
<1>9. /\ frame.field = "entry" => builder'.map = Append(builder.map, frame.pair)
      /\ frame.field # "entry" => builder'.map = builder.map
  BY <1>1, <1>2, <1>3 DEF Stored, BuilderT
<1>10. builder.map = PairsIn(Those(log, {"entry"})) => builder'.map = PairsIn(Those(log', {"entry"}))
  <2>1. CASE frame.field = "list"
    <3>1. frame.field # "entry"
      BY <2>1
    <3> QED
      BY <1>1, <1>9, <2>1, <3>1, Zenon
  <2>2. CASE frame.field # "list"
    <3>1. o \in Occ /\ log' = Append(log, o)
      BY <1>1, <1>5, <2>2 DEF Held
    <3>2. /\ o.field # "entry" => PairsIn(Those(log', {"entry"})) = PairsIn(Those(log, {"entry"}))
          /\ o.field = "entry" =>
               PairsIn(Those(log', {"entry"})) = Append(PairsIn(Those(log, {"entry"})), PairOf(o.trail))
      BY <1>2, <3>1, GivenOne, Zenon
    <3> QED
      BY <1>2, <1>5, <1>9, <3>2, Zenon
  <2> QED
    BY <2>1, <2>2
<1>11. ASSUME NEW t \in TokenT, Named(t, "close", frame.field, 0)
       PROVE  After(Reader(log, frame.field, frame.trail), t) = Reader(log', frame'.field, frame'.trail)
  <2>1. frame.field \in AllFields /\ frame.trail \in Seq(LooseSet) /\ log \in Seq(LooseOcc)
    BY <1>2, <1>3, Loosened
  <2>2. /\ frame.field = "list" => After(Reader(log, frame.field, frame.trail), t) = Reader(log, "none", << >>)
        /\ frame.field # "list" => After(Reader(log, frame.field, frame.trail), t) =
                                     Reader(Append(log, Occurrence(frame.field, 0, frame.trail)), "none", << >>)
    <3>1. PICK l \in Seq(LooseOcc), x \in AllFields, r \in Seq(LooseSet) : l = log /\ x = frame.field /\ r = frame.trail
      BY <2>1
    <3>2. t.op = "close"
      BY <1>11 DEF Named
    <3>3. /\ x = "list" => After(Reader(l, x, r), t) = Reader(l, "none", << >>)
          /\ x # "list" => After(Reader(l, x, r), t) = Reader(Append(l, Occurrence(x, 0, r)), "none", << >>)
      <4>1. CASE x = "list"
        <5>1. Moves(Reader(l, "list", r), t, Reader(l, "none", << >>))
          BY <3>2, ListClosed, Zenon
        <5> QED
          BY <4>1, <5>1, Zenon DEF Moves
      <4>2. CASE x # "list"
        BY <3>2, <4>2, MessageClosed, Zenon DEF Moves
      <4> QED
        BY <4>1, <4>2, Zenon
    <3> QED
      BY <3>1, <3>3, Zenon
  <2> QED
    BY <1>1, <1>7, <2>2, Zenon
<1>12. IsRead("close", frame.field, 0)
  BY <1>11 DEF IsRead
<1>13. Outside' => frame'.trail = << >>
  BY <1>7
<1> QED
  BY <1>1, <1>6, <1>8, <1>10, <1>12, <1>13, TakenIsRead, Zenon

(* The arm of the plain field. *)
LEMMA PlainIsRead ==
  ASSUME MergeInv, ReadInv, MergePlain PROVE ReadInv'
<1>1. PICK v \in Scalars : /\ Outside /\ "plain" \in Fields /\ Take("set", "plain", v)
                           /\ builder' = [builder EXCEPT !.plain = v] /\ Logged("plain", v, << >>)
                           /\ frame' = frame /\ result' = result
  BY DEF MergePlain
<1>2. builder'.map = builder.map /\ frame.field \in {"none", "list"}
  BY <1>1 DEF MergeInv, BuilderT, Outside
<1>3. PICK f \in {"plain", "opt", "list", "number"} : f = "plain"
  OBVIOUS
<1> QED
  BY <1>1, <1>2, <1>3, ScalarIsRead, Zenon

(* The arm of the optional field. *)
LEMMA OptionalIsRead ==
  ASSUME MergeInv, ReadInv, MergeOptional PROVE ReadInv'
<1>1. PICK v \in Scalars : /\ Outside /\ "opt" \in Fields /\ Take("set", "opt", v)
                           /\ builder' = [builder EXCEPT !.opt = <<v>>] /\ Logged("opt", v, << >>)
                           /\ frame' = frame /\ result' = result
  BY DEF MergeOptional
<1>2. builder'.map = builder.map /\ frame.field \in {"none", "list"}
  BY <1>1 DEF MergeInv, BuilderT, Outside
<1>3. PICK f \in {"plain", "opt", "list", "number"} : f = "opt"
  OBVIOUS
<1> QED
  BY <1>1, <1>2, <1>3, ScalarIsRead, Zenon

(* The elements of a packed run. *)
LEMMA ElementIsRead ==
  ASSUME MergeInv, ReadInv, MergeElement PROVE ReadInv'
<1>1. PICK v \in Scalars : /\ frame.field = "list" /\ Take("set", "list", v)
                           /\ builder' = [builder EXCEPT !.list = Append(@, v)] /\ Logged("list", v, << >>)
                           /\ frame' = frame /\ result' = result
  BY DEF MergeElement, Inside
<1>2. builder'.map = builder.map /\ frame.field \in {"none", "list"}
  BY <1>1 DEF MergeInv, BuilderT
<1>3. PICK f \in {"plain", "opt", "list", "number"} : f = "list"
  OBVIOUS
<1>4. "list" \in Fields
  <2>1. "list" \in Fields \union {"plain", "opt", "key", "value"}
    BY <1>1, Zenon DEF Take
  <2> QED
    BY <2>1
<1> QED
  BY <1>1, <1>2, <1>3, <1>4, ScalarIsRead, Zenon

(* The arm of a scalar variant. *)
LEMMA NumberIsRead ==
  ASSUME MergeInv, ReadInv, MergeNumber PROVE ReadInv'
<1>1. PICK v \in Scalars : /\ Outside /\ Take("set", "number", v)
                           /\ builder' = [builder EXCEPT !.choice = [Unset EXCEPT !.variant = "number", !.number = v]]
                           /\ Logged("number", v, << >>)
                           /\ frame' = frame /\ result' = result
  BY DEF MergeNumber
<1>2. builder'.map = builder.map /\ frame.field \in {"none", "list"}
  BY <1>1 DEF MergeInv, BuilderT, Outside
<1>3. PICK f \in {"plain", "opt", "list", "number"} : f = "number"
  OBVIOUS
<1>4. "number" \in Fields
  <2>1. "number" \in Fields \union {"plain", "opt", "key", "value"}
    BY <1>1, Zenon DEF Take
  <2> QED
    BY <2>1
<1> QED
  BY <1>1, <1>2, <1>3, <1>4, ScalarIsRead, Zenon

(* A repeated message, an entry or a packed run is opened. *)
LEMMA OpenNewIsRead ==
  ASSUME MergeInv, ReadInv, OpenNew PROVE ReadInv'
<1>1. PICK f \in {"item", "entry", "list"} : /\ Outside /\ Take("open", f, 0)
        /\ frame' = [NoFrame EXCEPT !.field = f] /\ builder' = builder /\ result' = result /\ log' = log
  BY DEF OpenNew
<1>2. frame'.field = f /\ frame'.trail = << >> /\ f # "none"
  BY <1>1 DEF NoFrame
<1> QED
  BY <1>1, <1>2, OpenIsRead, Zenon

(* An optional message is opened. *)
LEMMA OpenChildIsRead ==
  ASSUME MergeInv, ReadInv, OpenChild PROVE ReadInv'
<1>1. /\ Outside /\ Take("open", "child", 0) /\ result' = result /\ log' = log
      /\ frame' = [NoFrame EXCEPT !.field = "child"] \/ \E b : frame' = [NoFrame EXCEPT !.field = "child", !.built = b]
      /\ builder' = builder \/ builder' = [builder EXCEPT !.child = << >>]
  BY Zenon DEF OpenChild
<1>2. frame'.field = "child" /\ frame'.trail = << >> /\ "child" # "none"
  BY <1>1 DEF NoFrame
<1>3. builder'.map = builder.map
  BY <1>1 DEF MergeInv, BuilderT
<1> QED
  BY <1>1, <1>2, <1>3, OpenIsRead, Zenon

(* A required message is opened. *)
LEMMA OpenRequiredIsRead ==
  ASSUME MergeInv, ReadInv, OpenRequired PROVE ReadInv'
<1>1. /\ Outside /\ Take("open", "must", 0) /\ result' = result /\ log' = log /\ builder' = builder
      /\ \E b : frame' = [NoFrame EXCEPT !.field = "must", !.built = b]
  BY Zenon DEF OpenRequired
<1>2. frame'.field = "must" /\ frame'.trail = << >> /\ "must" # "none"
  BY <1>1 DEF NoFrame
<1> QED
  BY <1>1, <1>2, OpenIsRead, Zenon

(* A message variant is opened. *)
LEMMA OpenVariantIsRead ==
  ASSUME MergeInv, ReadInv, OpenVariant PROVE ReadInv'
<1>1. PICK f \in {"message", "group"} : /\ Outside /\ Take("open", f, 0) /\ result' = result /\ log' = log /\ builder' = builder
      /\ \E b : frame' = [NoFrame EXCEPT !.field = f, !.built = b]
  BY Zenon DEF OpenVariant
<1>2. frame'.field = f /\ frame'.trail = << >> /\ f # "none"
  BY <1>1 DEF NoFrame
<1> QED
  BY <1>1, <1>2, OpenIsRead, Zenon

(* Fields within a nested message. *)
LEMMA NestedFieldIsRead ==
  ASSUME MergeInv, ReadInv, MergeNested PROVE ReadInv'
<1>1. PICK f \in {"plain", "opt"}, v \in Scalars :
        /\ frame.field \in NestedFields /\ Take("set", f, v)
        /\ \E b : frame' = [frame EXCEPT !.built = b, !.trail = Append(@, [field |-> f, value |-> v])]
        /\ result' = result /\ log' = log /\ builder' = builder
  BY Zenon DEF MergeNested, Inside
<1>2. frame'.field = frame.field /\ frame'.trail = Append(frame.trail, [field |-> f, value |-> v])
  BY <1>1 DEF MergeInv, FrameT
<1>3. frame.field \in NestedFields \union {"entry"}
  BY <1>1
<1> QED
  BY <1>1, <1>2, <1>3, NestedIsRead, Zenon

(* Key and value of an entry. *)
LEMMA PairFieldIsRead ==
  ASSUME MergeInv, ReadInv, MergePair PROVE ReadInv'
<1>1. PICK f \in {"key", "value"}, v \in Scalars :
        /\ frame.field = "entry" /\ Take("set", f, v)
        /\ \E b : frame' = [frame EXCEPT !.pair = b, !.trail = Append(@, [field |-> f, value |-> v])]
        /\ result' = result /\ log' = log /\ builder' = builder
  <2>1. PICK f \in {"key", "value"}, v \in Scalars :
        /\ frame.field \in {"entry"} /\ Take("set", f, v)
        /\ \E b : frame' = [frame EXCEPT !.pair = b, !.trail = Append(@, [field |-> f, value |-> v])]
        /\ result' = result /\ log' = log /\ builder' = builder
    BY Zenon DEF MergePair, Inside
  <2> QED
    BY <2>1
<1>2. frame'.field = frame.field /\ frame'.trail = Append(frame.trail, [field |-> f, value |-> v])
  BY <1>1 DEF MergeInv, FrameT
<1>3. frame.field \in NestedFields \union {"entry"}
  BY <1>1
<1> QED
  BY <1>1, <1>2, <1>3, NestedIsRead, Zenon

(* Malformed tokens are of the first input only. *)
LEMMA MalformedIsRead ==
  ASSUME MergeInv, ReadInv, Malformed PROVE ReadInv'
<1>1. /\ phase = "first" /\ phase' = phase /\ result' = "failed" /\ frame' = NoFrame
      /\ entry' = entry /\ view' = view /\ input' = input
  BY DEF Malformed
<1>2. \/ log' = log
      \/ log' = Without("child")
      \/ "opt" \in Fields /\ Logged("opt", 0, << >>)
  BY DEF Malformed
<1>3. entry \in Entries /\ phase \in {"first", "second"} /\ input \in Seq(TokenT) /\ log \in Seq(Held)
  BY DEF ReadInv
<1>4. log' \in Seq(Held)
  <2>1. CASE log' = log
    BY <1>3, <2>1
  <2>2. CASE log' = Without("child")
    BY <1>3, <2>2, WhereFacts DEF Without
  <2>3. CASE "opt" \in Fields /\ Logged("opt", 0, << >>)
    <3>1. PICK o \in Occ : o = Occurrence("opt", 0, << >>) /\ o.field = "opt"
      <4>1. "opt" \in AllFields /\ 0 \in Scalars
        BY Basics DEF AllFields
      <4> QED
        BY <4>1, ShownOne
    <3>2. o \in Held
      BY <2>3, <3>1 DEF Held, NestedFields
    <3>3. log' = Append(log, o)
      BY <2>3, <3>1, Zenon DEF Logged
    <3> QED
      BY <1>3, <3>2, <3>3, AppendProperties
  <2> QED
    BY <1>2, <2>1, <2>2, <2>3
<1>5. frame'.trail = << >>
  BY <1>1 DEF NoFrame
<1>6. phase' # "second" /\ result' # "frozen"
  BY <1>1
<1> QED
  BY <1>1, <1>3, <1>4, <1>5, <1>6, Zenon DEF ReadInv

(* A group key cannot come up in the second input: reading it would fail, *)
(* and the reading of the rest is known to end with nothing open.         *)
LEMMA WrongWireTypeIsRead ==
  ASSUME MergeInv, ReadInv, WrongWireType PROVE ReadInv'
<1>1. PICK f \in {"message", "group"} : /\ Outside /\ Take("group", f, 0)
                                        /\ result' = "failed" /\ builder' = builder /\ frame' = frame /\ log' = log
  BY DEF WrongWireType
<1>2. entry \in Entries /\ phase \in {"first", "second"} /\ input \in Seq(TokenT) /\ log \in Seq(Held) /\ frame.trail = << >> /\ frame.field = "none"
  BY <1>1 DEF ReadInv, Outside
<1>3. entry' = entry /\ phase' = phase /\ view' = view
  BY <1>1 DEF Take
<1>4. CASE phase = "first" /\ input' = input
  <2>1. phase' # "second" /\ result' # "frozen" /\ frame'.trail = << >>
    BY <1>1, <1>2, <1>3, <1>4
  <2> QED
    BY <1>1, <1>2, <1>3, <1>4, <2>1, Zenon DEF ReadInv
<1>5. CASE phase = "second" /\ input # << >> /\ Head(input).op = "group"
  <2>1. PICK t \in TokenT, w \in Seq(TokenT) : t = Head(input) /\ w = Tail(input) /\ input = <<t>> \o w
    <3>1. input \in Seq(TokenT) /\ input # << >>
      BY <1>2, <1>5
    <3> QED
      BY <3>1, FirstAndRest, Zenon
  <2>2. PICK l \in Seq(LooseOcc) : l = log
    BY Loosened DEF MergeInv
  <2>3. "none" \in PlaceT /\ << >> \in Seq(LooseSet)
    BY EmptySeq DEF PlaceT
  <2>4. PICK s \in ReaderT : s = Reader(l, "none", << >>)
    BY IdleReader
  <2>5. t.op = "group"
    BY <1>5, <2>1
  <2>6. After(s, t) = Reader(l, "failed", << >>)
    BY <2>3, <2>4, <2>5, AfterGroup, Zenon
  <2>7. Reading(s, input) = Reading(After(s, t), w)
    <3>1. Reading(s, <<t>> \o w) = Reading(After(s, t), w)
      BY ReadingFirst, Zenon
    <3> QED
      BY <2>1, <3>1, Zenon
  <2>8. Reading(Reader(l, "failed", << >>), w) = Reader(l, "failed", << >>)
    BY <2>3, FailedStays
  <2>9. Reading(Reader(log, frame.field, frame.trail), input) = Reader(Says(view), "none", << >>)
    BY <1>5 DEF ReadInv
  <2>10. Reader(l, "failed", << >>) = Reader(Says(view), "none", << >>)
    BY <1>2, <2>2, <2>4, <2>6, <2>7, <2>8, <2>9, Zenon
  <2>11. Reader(l, "failed", << >>).field = "failed" /\ Reader(Says(view), "none", << >>).field = "none"
    BY DEF Reader
  <2> QED
    BY <2>10, <2>11
<1>6. (phase = "first" /\ input' = input) \/ (phase = "second" /\ input # << >> /\ Head(input).op = "group")
  BY <1>1, Zenon DEF Take
<1> QED
  BY <1>4, <1>5, <1>6

(* A builder never shows a part of another variant, nor a required message *)
(* the type does not have; without group variants, what it holds can be    *)
(* encoded and read.                                                       *)
LEMMA HeldIsShowable ==
  ASSUME MergeInv, ReadInv, "group" \notin Fields
  PROVE  ("must" \notin Fields => builder.must = NewChild) /\ OneVariant(builder.choice)
<1>1. log \in Seq(Held) /\ log \in Seq(Occ) /\ MustIs(builder, log) /\ ChoiceIs(builder, log) /\ builder.choice \in ChoiceT
  BY DEF MergeInv, ReadInv, OthersAre, BuilderT
<1>2. ASSUME "must" \notin Fields PROVE builder.must = NewChild
  <2>1. From(log, Fields)
    <3>1. \A i \in 1 .. Len(log) : log[i] \in Held
      BY <1>1
    <3> QED
      BY <1>1, <3>1 DEF From, Held
  <2>2. Fields \cap {"must"} = {}
    BY <1>2
  <2>3. Those(log, {"must"}) = << >>
    BY <2>1, <2>2, ThoseFrom
  <2>4. Trails(<< >>) = << >>
    BY NoOccurrence
  <2>5. ChildOf(<< >>) = NewChild
    <3>1. NoFrame.built = NewChild
      BY DEF NoFrame
    <3> QED
      BY <3>1, Basics, Zenon
  <2> QED
    BY <1>1, <2>3, <2>4, <2>5, Zenon DEF MustIs
<1>3. OneVariant(builder.choice)
  <2>1. PICK s \in Seq(Held) : s = Those(log, OneOf)
    BY <1>1, WhereFacts DEF Those
  <2>2. builder.choice = ChoiceOf(s) /\ (builder.choice.variant = "number" => builder.choice.message = NewChild)
    BY <1>1, <2>1 DEF ChoiceIs
  <2>3. CASE s = << >>
    <3>1. builder.choice = Unset
      BY <2>2, <2>3 DEF ChoiceOf
    <3> QED
      BY <3>1 DEF OneVariant, Unset
  <2>4. CASE s # << >>
    <3>1. PICK x \in Held : x = s[Len(s)]
      <4>1. Len(s) \in 1 .. Len(s)
        BY <2>4, EmptySeq, LenProperties
      <4> QED
        BY <4>1
    <3>2. ChoiceOf(s) = [variant |-> s[Len(s)].field, number |-> s[Len(s)].value, message |-> ChildOf(Trails(SinceSwitch(s)))]
      BY <2>4, Zenon DEF ChoiceOf
    <3>3. builder.choice.variant = x.field /\ builder.choice.number = x.value
      BY <2>2, <3>1, <3>2
    <3>4. x.field \in Fields /\ (x.field \in NestedFields => x.value = 0) /\ x.field \in AllFields
      BY DEF Held, Occ
    <3>5. x.field # "group" /\ x.field # "unset"
      BY <3>4 DEF AllFields, NestedFields
    <3>6. x.field = "message" => x.value = 0
      BY <3>4 DEF NestedFields
    <3> QED
      BY <2>2, <3>3, <3>5, <3>6, Zenon DEF OneVariant
  <2> QED
    BY <2>3, <2>4
<1> QED
  BY <1>2, <1>3

(* Freeze: of the first input the view is fixed, of the second the entries *)
(* are sorted.                                                             *)
LEMMA FreezeIsRead ==
  ASSUME MergeInv, ReadInv, Freeze, "group" \notin Fields PROVE ReadInv'
<1>1. /\ Outside /\ result = "merging" /\ input = << >> /\ result' = "frozen" /\ builder' = Frozen(builder)
      /\ phase = "first" => view' = builder'
      /\ phase # "first" => view' = view
      /\ entry' = entry /\ frame' = frame /\ phase' = phase /\ input' = input /\ log' = log
  BY DEF Freeze
<1>2. /\ builder \in BuilderT /\ entry \in Entries /\ phase \in {"first", "second"} /\ input \in Seq(TokenT) /\ log \in Seq(Held)
      /\ Outside => frame.trail = << >>
  BY DEF MergeInv, ReadInv
<1>3. builder'.must = builder.must /\ builder'.choice = builder.choice /\ builder'.map = SortedByKey(builder.map)
  BY <1>1, <1>2 DEF Frozen, BuilderT
<1>4. Sorted(builder'.map)
  <2>1. MergeInv'
    BY FreezeKeeps
  <2> QED
    BY <1>1, <2>1 DEF MergeInv
<1>5. Showable(builder')
  BY <1>3, <1>4, HeldIsShowable, Zenon DEF Showable
<1>6. Outside' => frame'.trail = << >>
  BY <1>1, <1>2 DEF Outside
<1>7. CASE phase = "first"
  <2>1. phase' # "second"
    BY <1>1, <1>7
  <2>2. Showable(view')
    BY <1>1, <1>5, <1>7, Zenon
  <2> QED
    BY <1>1, <1>2, <1>6, <2>1, <2>2, Zenon DEF ReadInv
<1>8. CASE phase = "second"
  <2>1. view' = view /\ result' # "failed" /\ result' # "merging"
    BY <1>1, <1>8
  <2>2. /\ Showable(view) /\ builder.map = PairsIn(Those(log, {"entry"}))
        /\ Reading(Reader(log, frame.field, frame.trail), input) = Reader(Says(view), "none", << >>)
    BY <1>1, <1>8 DEF ReadInv
  <2>3. builder'.map = SortedByKey(PairsIn(Those(log', {"entry"})))
    BY <1>1, <1>3, <2>2, Zenon
  <2>4. Reading(Reader(log', frame'.field, frame'.trail), input') = Reader(Says(view'), "none", << >>)
    BY <1>1, <2>1, <2>2, Zenon
  <2> QED
    BY <1>1, <1>2, <1>6, <2>1, <2>2, <2>3, <2>4, Zenon DEF ReadInv
<1> QED
  BY <1>2, <1>7, <1>8

(* Encode: the reading of the whole encoding is what the view says. *)
LEMMA EncodeIsRead ==
  ASSUME MergeInv, ReadInv, Encode PROVE ReadInv'
<1>1. /\ result = "frozen" /\ phase' = "second" /\ result' = "merging" /\ input' = EncodeRaw(view)
      /\ builder' = New(entry) /\ log' = << >> /\ entry' = entry /\ frame' = frame /\ view' = view
  BY DEF Encode
<1>2. view \in BuilderT /\ Showable(view) /\ entry \in Entries /\ frame.field = "none" /\ frame.trail = << >>
  BY <1>1 DEF MergeInv, ReadInv, Outside
<1>3. Tells(EncodeRaw(view), Says(view)) /\ Says(view) \in Seq(LooseOcc)
  BY <1>2, SaysWhatItHolds, Zenon DEF Tells
<1>4. input' \in Seq(TokenT) /\ log' \in Seq(Held)
  BY <1>1, <1>3, EmptySeq DEF Tells
<1>5. Reading(Reader(log', frame'.field, frame'.trail), input') = Reader(Says(view'), "none", << >>)
  <2>1. << >> \in Seq(LooseOcc) /\ << >> \o Says(view) = Says(view)
    BY <1>3, EmptySeq, ConcatEmptySeq
  <2>2. Reading(Reader(<< >>, "none", << >>), EncodeRaw(view)) = Reader(<< >> \o Says(view), "none", << >>)
    BY <1>3, <2>1, Zenon DEF Tells
  <2> QED
    BY <1>1, <1>2, <2>1, <2>2, Zenon
<1>6. builder'.map = PairsIn(Those(log', {"entry"}))
  <2>1. PICK o \in Occ : TRUE
    BY ShownOne, Basics DEF AllFields
  <2>2. Those(<< >>, {"entry"}) = << >>
    BY <2>1, EmptySeq, ThoseFacts
  <2>3. PairsIn(<< >>) = << >>
    BY DEF PairsIn
  <2>4. New(entry).map = << >>
    BY DEF New
  <2> QED
    BY <1>1, <2>2, <2>3, <2>4, Zenon
<1>7. result' # "failed" /\ result' # "frozen" /\ phase' \in {"first", "second"} /\ frame'.trail = << >>
  BY <1>1, <1>2
<1> QED
  BY <1>1, <1>2, <1>4, <1>5, <1>6, <1>7, Zenon DEF ReadInv

(* The claim about the second input holds at first. *)
LEMMA ReadInitially ==
  ASSUME Init PROVE ReadInv
<1>1. entry \in Entries /\ phase = "first" /\ result = "merging" /\ input = << >> /\ log = << >> /\ frame = NoFrame
  BY DEF Init
<1>2. input \in Seq(TokenT) /\ log \in Seq(Held) /\ frame.trail = << >>
  BY <1>1, EmptySeq DEF NoFrame
<1>3. phase \in {"first", "second"} /\ phase # "second" /\ result # "frozen"
  BY <1>1
<1> QED
  BY <1>1, <1>2, <1>3, Zenon DEF ReadInv

(* Every step keeps it, together with the invariant on what the builder *)
(* holds.                                                               *)
LEMMA StepIsRead ==
  ASSUME MergeInv, ReadInv, [Next]_vars, "group" \notin Fields PROVE ReadInv'
<1>1. CASE UNCHANGED vars
  BY <1>1 DEF ReadInv, vars, Outside
<1>2. CASE MergeAgain
  <2>1. /\ phase = "first" /\ phase' = phase /\ result' = "merging" /\ entry' = entry /\ frame' = frame
        /\ view' = view /\ input' = input /\ log' = log
    BY <1>2 DEF MergeAgain
  <2> QED
    BY <2>1 DEF ReadInv, Outside
<1>3. CASE CopyToBuilder
  <2>1. /\ phase = "first" /\ phase' = phase /\ result' = "merging" /\ entry' = entry /\ frame' = frame
        /\ view' = view /\ input' = input /\ log' = log
    BY <1>3 DEF CopyToBuilder
  <2> QED
    BY <2>1 DEF ReadInv, Outside
<1> QED
  BY <1>1, <1>2, <1>3, PlainIsRead, OptionalIsRead, ElementIsRead, NumberIsRead, OpenNewIsRead, OpenChildIsRead,
     OpenRequiredIsRead, OpenVariantIsRead, NestedFieldIsRead, PairFieldIsRead, CloseIsRead, MalformedIsRead,
     WrongWireTypeIsRead, FreezeIsRead, EncodeIsRead DEF Next

(* Every view a builder can be frozen to survives its encoding: the      *)
(* encoding is merged without an error and freezes to the same view      *)
(* (RoundTrips, the check_message of the tests).  The hypotheses are the *)
(* limits the code has: merging is into a builder; a group variant is    *)
(* encoded with a wire type that no arm accepts; a builder made by the   *)
(* Decode trait starts from zero, not from the declared default that     *)
(* encode_raw leaves out (MergeClaims shows that a declared default is   *)
(* lost then).                                                           *)
THEOREM EncodedViewsDecode ==
  ASSUME Target = "builder", "group" \notin Fields, Entries \subseteq {"inherent"} \/ PlainDefault = 0
  PROVE  Spec => []RoundTrips
<1>1. Init => MergeInv /\ ReadInv
  BY InitInv, ReadInitially
<1>2. MergeInv /\ ReadInv /\ [Next]_vars => MergeInv' /\ ReadInv'
  BY StepInv, StepIsRead
<1>3. MergeInv /\ ReadInv => RoundTrips
  <2> SUFFICES ASSUME MergeInv, ReadInv, phase = "second" PROVE result # "failed" /\ (result = "frozen" => builder = view)
    BY Zenon DEF RoundTrips
  <2>1. result # "failed"
    BY DEF ReadInv
  <2>2. ASSUME result = "frozen" PROVE builder = view
    <3>1. /\ builder \in BuilderT /\ view \in BuilderT /\ frame.field = "none" /\ entry \in Entries
          /\ OthersAre(builder, log, entry) /\ ChildIs(builder, log) /\ log \in Seq(Occ)
      BY <2>2 DEF MergeInv, ReadInv, Outside
    <3>2. /\ Showable(view) /\ frame.trail = << >> /\ input = << >>
          /\ Reading(Reader(log, frame.field, frame.trail), input) = Reader(Says(view), "none", << >>)
          /\ builder.map = SortedByKey(PairsIn(Those(log, {"entry"})))
      BY <2>2, <3>1 DEF ReadInv, Outside
    <3>3. log = Says(view)
      <4>1. PICK l \in Seq(LooseOcc) : l = log
        BY <3>1, Loosened
      <4>2. Reader(l, "none", << >>) \in ReaderT
        BY IdleReader
      <4>3. Reading(Reader(l, "none", << >>), << >>) = Reader(l, "none", << >>)
        BY <4>2, EmptySeq, ReadingFacts
      <4>4. Reader(l, "none", << >>) = Reader(Says(view), "none", << >>)
        BY <3>1, <3>2, <4>1, <4>3, Zenon
      <4>5. \A x : Reader(x, "none", << >>).log = x
        BY DEF Reader
      <4>6. PICK a, b : a = Reader(l, "none", << >>) /\ b = Reader(Says(view), "none", << >>)
        OBVIOUS
      <4>7. a = b /\ a.log = l /\ b.log = Says(view)
        BY <4>4, <4>5, <4>6, Zenon
      <4> QED
        BY <4>1, <4>7
    <3>4. New(entry).plain = PlainDefault
      BY <3>1 DEF New
    <3> QED
      BY <3>1, <3>2, <3>3, <3>4, SameView, Zenon
  <2> QED
    BY <2>1, <2>2
<1> QED
  BY <1>1, <1>2, <1>3, PTL DEF Spec
=============================================================================
