------------------------------- MODULE Varint -------------------------------
(***************************************************************************)
(* varint.rs: writing an integer as a varint, the formula for its length,  *)
(* and reading one back.  A reader looks at the first chunk of its buffer  *)
(* and picks one of two decoders: one that is unrolled, reads the chunk    *)
(* without bounds checks and adds up pieces of several digits, and one     *)
(* that asks the buffer for byte after byte.                               *)
(*                                                                         *)
(* In the code a digit has 7 bits, an integer 64 (10 digits, of which the  *)
(* last has 1 bit) and a piece 4 digits.                                   *)
(***************************************************************************)
EXTENDS Integers, Sequences

CONSTANTS
  Bits,      (* bits of a digit                                            *)
  MaxBytes,  (* digits of the largest integer                              *)
  PieceLen,  (* digits the unrolled decoder adds up before it shifts       *)
  MaxLen     (* bound on the length of a buffer                            *)

ASSUME BitsAssumption  == Bits \in Nat \ {0, 1}
ASSUME RoundAssumption == 64 % Bits = 1        (* so that LenOfLog2 is right *)
(* A varint of one byte is taken without a look at its last bits. *)
ASSUME BytesAssumption == MaxBytes \in Nat \ {0, 1}
(* The formula for the length is right for logarithms below 64. *)
ASSUME WidthAssumption == Bits * (MaxBytes - 1) < 64
ASSUME PieceAssumption == PieceLen \in Nat \ {0}
ASSUME LenAssumption   == MaxLen \in Nat
(* The law of powers, for the shifts in use: the provers know none. *)
ASSUME PowersAssumption ==
  /\ 2 ^ 0 = 1
  /\ \A n \in 0 .. Bits * MaxBytes : 2 ^ n \in Nat /\ 2 ^ (n + 1) = 2 * 2 ^ n

Continue == 2 ^ Bits                           (* 0x80                      *)
LastStop == 2                                  (* 0x02                      *)
Bytes    == 0 .. 2 * Continue - 1              (* u8                        *)
Word     == 2 ^ (Bits * (MaxBytes - 1) + 1)    (* u64 holds 0 .. Word - 1   *)
Place(i) == 2 ^ (Bits * (i - 1))               (* what digit i counts       *)

Buffers == UNION { [1 .. n -> Bytes] : n \in 0 .. MaxLen }

(* The lengths of the first chunk: Buf::chunk is empty only at the end.    *)
FirstChunks(b) == IF b = << >> THEN {0} ELSE 1 .. Len(b)

VARIABLES
  original,  (* the integer that was written, or -1                        *)
  buffer,    (* the bytes                                                  *)
  chunk,     (* how many of them are in the first chunk                    *)
  phase,     (* "encode", "start", "slice", "slow", "ok", "invalid"        *)
  digit,     (* the byte the decoder reads next                            *)
  part,      (* u32: the piece being added up                              *)
  value,     (* the integer, as far as it is written or read               *)
  read       (* bytes the buffer has been advanced by                      *)

vars == <<original, buffer, chunk, phase, digit, part, value, read>>

(* A caller writes an integer, or reads a buffer that came from anywhere.  *)
Init ==
  /\ \/ /\ phase = "encode" /\ original \in 0 .. Word - 1 /\ value = original
        /\ buffer = << >> /\ chunk = 0
     \/ /\ phase = "start" /\ original = -1 /\ value = 0
        /\ buffer \in Buffers /\ chunk \in FirstChunks(buffer)
  /\ digit = 1 /\ part = 0 /\ read = 0

-----------------------------------------------------------------------------
(* encode_varint, encoded_len_varint *)

(* Mutant: 0x80 is written as a single byte. *)
EncodeByteLate ==
  /\ phase = "encode" /\ Len(buffer) < MaxBytes
  /\ IF value <= Continue
     THEN /\ buffer' = Append(buffer, value)
          /\ phase' = "start" /\ value' = 0
          /\ chunk' \in FirstChunks(buffer')
     ELSE /\ buffer' = Append(buffer, (value % Continue) + Continue)
          /\ value' = value \div Continue
          /\ UNCHANGED <<phase, chunk>>
  /\ UNCHANGED <<original, digit, part, read>>

(* One turn of the loop; after the last the bytes are read back, however   *)
(* the buffer happens to cut them.  (The loop is bounded by ten turns.)    *)
EncodeByte ==
  /\ phase = "encode" /\ Len(buffer) < MaxBytes
  /\ IF value < Continue
     THEN /\ buffer' = Append(buffer, value)
          /\ phase' = "start" /\ value' = 0
          /\ chunk' \in FirstChunks(buffer')
     ELSE /\ buffer' = Append(buffer, (value % Continue) + Continue)
          /\ value' = value \div Continue
          /\ UNCHANGED <<phase, chunk>>
  /\ UNCHANGED <<original, digit, part, read>>

(* u64::ilog2 of a positive integer of the width. *)
Log2(v) == CHOOSE k \in 0 .. Bits * (MaxBytes - 1) : 2 ^ k <= v /\ v < 2 ^ (k + 1)

(* Mutant: without the slack of the rounded factor. *)
LenOfLog2Short(k) == (k * (64 \div Bits) + 64) \div 64

(* The factor 9 of the code is 64 / 7, rounded down; it falls short by     *)
(* little enough for all the lengths there are.                            *)
LenOfLog2(k) == (k * (64 \div Bits) + 64 + (64 \div Bits)) \div 64

(* value | 1 makes the logarithm of zero that of one. *)
EncodedLenVarint(v) == LenOfLog2(Log2(IF v = 0 THEN 1 ELSE v))

-----------------------------------------------------------------------------
(* decode_varint *)

Invalid(n) == /\ phase' = "invalid" /\ read' = n
              /\ UNCHANGED <<value, part, digit>>
Ok(v, n)   == /\ phase' = "ok" /\ value' = v /\ read' = n
              /\ UNCHANGED <<part, digit>>

(* Mutant: a chunk that almost holds the longest varint is trusted. *)
FitsSliceShort == chunk >= MaxBytes - 1 \/ buffer[chunk] < Continue

(* The choice between the decoders: what the unrolled one asserts. *)
FitsSlice == chunk > MaxBytes \/ buffer[chunk] < Continue

DecodeVarint ==
  /\ phase = "start"
  /\ IF chunk = 0 THEN Invalid(0)
     ELSE IF buffer[1] < Continue THEN Ok(buffer[1], 1)
     ELSE /\ phase' = IF FitsSlice THEN "slice" ELSE "slow"
          /\ UNCHANGED <<value, part, digit, read>>
  /\ UNCHANGED <<original, buffer, chunk>>

(* decode_varint_slice: one of its steps.  A piece is moved into the value *)
(* after its last digit.                                                   *)
PieceStart == digit - ((digit - 1) % PieceLen)
Stop       == IF digit = MaxBytes THEN LastStop ELSE Continue

WithoutBit(sum, place) == sum - Continue * place

DecodeVarintSlice ==
  /\ phase = "slice"
  /\ LET place == Place(digit - PieceStart + 1)
         sum   == part + buffer[digit] * place
         rest  == WithoutBit(sum, place)
         full  == (digit % PieceLen) = 0
     IN  IF buffer[digit] < Stop THEN Ok(value + sum * Place(PieceStart), digit)
         ELSE IF digit = MaxBytes THEN Invalid(0)
         ELSE /\ digit' = digit + 1
              /\ value' = IF full THEN value + rest * Place(PieceStart) ELSE value
              /\ part' = IF full THEN 0 ELSE rest
              /\ UNCHANGED <<phase, read>>
  /\ UNCHANGED <<original, buffer, chunk>>

(* Mutant: the last digit is not checked for overflow. *)
DecodeVarintSlowUnchecked ==
  /\ phase = "slow"
  /\ IF digit > MaxBytes \/ digit > Len(buffer) THEN Invalid(digit - 1)
     ELSE LET next == (value + (buffer[digit] % Continue) * Place(digit)) % Word
          IN  IF buffer[digit] >= Continue
              THEN /\ value' = next /\ digit' = digit + 1
                   /\ UNCHANGED <<phase, part, read>>
              ELSE Ok(next, digit)
  /\ UNCHANGED <<original, buffer, chunk>>

(* decode_varint_slow: one turn of its loop; bits shifted out are lost.    *)
DecodeVarintSlow ==
  /\ phase = "slow"
  /\ IF digit > MaxBytes \/ digit > Len(buffer) THEN Invalid(digit - 1)
     ELSE LET next == (value + (buffer[digit] % Continue) * Place(digit)) % Word
          IN  IF buffer[digit] >= Continue
              THEN /\ value' = next /\ digit' = digit + 1
                   /\ UNCHANGED <<phase, part, read>>
              ELSE IF digit = MaxBytes /\ buffer[digit] >= LastStop THEN Invalid(digit)
              ELSE Ok(next, digit)
  /\ UNCHANGED <<original, buffer, chunk>>

Next == EncodeByte \/ DecodeVarint \/ DecodeVarintSlice \/ DecodeVarintSlow

Spec == Init /\ [][Next]_vars

-----------------------------------------------------------------------------
(* Properties *)

(* decode_varint_slice reads with get_unchecked: never past the chunk,     *)
(* which ends, or goes on beyond the longest varint.                       *)
StaysInBounds == phase = "slice" => digit <= chunk

(* What a buffer says: the digits up to the first byte that stops.         *)
Stops == { i \in 1 .. Len(buffer) : buffer[i] < Continue }
First == CHOOSE i \in Stops : \A j \in Stops : i <= j
Sum(b, n) ==
  LET sum[i \in 0 .. n] == IF i = 0 THEN 0 ELSE sum[i - 1] + (b[i] % Continue) * Place(i)
  IN  sum[n]
Meaning == Sum(buffer, First)
Sound == Stops # {} /\ First <= MaxBytes /\ Meaning < Word

(* Both decoders accept the same buffers, exactly those that hold an       *)
(* integer of the width, with the same value and leaving the buffer at the *)
(* same place, however the buffer is cut into chunks.                      *)
DecodesWhatItSays ==
  /\ phase = "ok" => Sound /\ value = Meaning /\ read = First
  /\ phase = "invalid" => ~ Sound

(* An integer that was written is read back, all of it and nothing more.   *)
RoundTrips ==
  original # -1 /\ phase \in {"ok", "invalid"} =>
    phase = "ok" /\ value = original /\ read = Len(buffer)

(* The formula gives the number of bytes the encoder writes.               *)
LengthIsExact ==
  original # -1 /\ phase # "encode" => Len(buffer) = EncodedLenVarint(original)

=============================================================================
