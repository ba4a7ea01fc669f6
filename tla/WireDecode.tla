----------------------------- MODULE WireDecode -----------------------------
(***************************************************************************)
(* The decoder of one message: Decode::merge / merge_length_delimited, the *)
(* merge_field that #[derive(Message)] generates and the functions of      *)
(* encoding.rs they call.  The native call stack is the variable stack,    *)
(* one frame per running loop; one action is one handler (one arm of       *)
(* merge_field, one turn of a loop).                                       *)
(*                                                                         *)
(* The bytes are not written down: the decoder only moves forward, so each *)
(* varint, key and length is chosen when it is read, with the width it     *)
(* occupies (a varint may be padded, so width and value are independent).  *)
(* Every value the bytes could hold is a choice.  Positions are byte       *)
(* offsets; the code's limit (bytes that must remain) is BufLen - end.     *)
(***************************************************************************)
EXTENDS Integers, Sequences

CONSTANTS
  BufLen,          (* bytes in the buffer                                  *)
  RecursionLimit,  (* crate::RECURSION_LIMIT                               *)
  CounterMax,      (* u32::MAX, what recurse_count - 1 wraps to from zero  *)
  VarintWidths,    (* widths in bytes an encoded varint may have           *)
  Tags,            (* field numbers a key may carry                        *)
  Field            (* schema: field number -> kind of the (recursive)      *)
                   (* message type; a tag outside its domain is unknown    *)

MessageKinds == {"message", "repeated_message", "oneof_message"}
LeafKinds    == {"varint", "fixed32", "string"}
FieldKinds   == MessageKinds \union LeafKinds \union
                {"group", "repeated_group", "map", "message_map", "packed"}

WireTypes == {"Varint", "SixtyFourBit", "LengthDelimited",
              "StartGroup", "EndGroup", "ThirtyTwoBit"}

ASSUME BufLenAssumption    == BufLen \in Nat
ASSUME LimitAssumption     == RecursionLimit \in Nat \ {0}
ASSUME CounterAssumption   == CounterMax \in Nat /\ CounterMax > 2 * RecursionLimit + 2
ASSUME WidthsAssumption    == VarintWidths \subseteq 1 .. 10
ASSUME TagsAssumption      == Tags \subseteq Nat \ {0}
ASSUME FieldAssumption     == /\ DOMAIN Field \subseteq Tags
                              /\ Field \in [DOMAIN Field -> FieldKinds]

VARIABLES
  pos,     (* bytes consumed so far                                        *)
  stack,   (* the running loops, innermost last                            *)
  key,     (* the key just decoded, not yet handled, or NoKey              *)
  result   (* "start", "running", "ok" or the error returned               *)

vars == <<pos, stack, key, result>>

FrameKinds == {"message", "map", "message_map", "packed", "group", "skip"}

(* ctx is the recurse_count handed to the fields of the frame; tag is the  *)
(* number a group was opened with; a group has no end of its own.          *)
Frames == [kind : FrameKinds, ctx : 0 .. CounterMax, end : 0 .. BufLen,
           tag : Tags \union {0}]

NoKey == [tag |-> 0, wire |-> "none"]
Keys  == [tag : Tags, wire : WireTypes]

Errors == {"invalid varint", "invalid key", "invalid wire type",
           "recursion limit reached", "buffer underflow",
           "delimited length exceeded", "unexpected end group tag",
           "invalid string value"}

TypeOK ==
  /\ pos \in 0 .. BufLen
  /\ stack \in Seq(Frames)
  /\ key \in Keys \union {NoKey}
  /\ result \in {"start", "running", "ok"} \union Errors

Init ==
  /\ pos = 0
  /\ stack = << >>
  /\ key = NoKey
  /\ result = "start"

-----------------------------------------------------------------------------
(* Helpers *)

Top == stack[Len(stack)]

(* merge_loop and Decode::merge stop at a length; group loops do not. *)
Delimited(f) == f.kind \notin {"group", "skip"}

(* Mutant: a level counted twice. *)
EnterRecursionTwice(ctx) == IF ctx <= 1 THEN 0 ELSE ctx - 2

(* DecodeContext::enter_recursion: an unchecked u32 decrement. *)
EnterRecursion(ctx) == IF ctx = 0 THEN CounterMax ELSE ctx - 1

(* An error unwinds every frame through `?`; where it leaves the position  *)
(* is not modelled.                                                        *)
Fail(error) ==
  /\ result' = error
  /\ stack' = << >>
  /\ key' = NoKey
  /\ UNCHANGED pos

Push(kind, ctx, end, tag) ==
  /\ stack' = Append(stack, [kind |-> kind, ctx |-> ctx, end |-> end, tag |-> tag])
  /\ key' = NoKey
  /\ result' = "running"

(* Consuming n bytes inside the current frame. *)
Advance(n) ==
  /\ pos + n <= BufLen
  /\ pos' = pos + n
  /\ key' = NoKey
  /\ UNCHANGED <<stack, result>>

(* The innermost loop returns Ok. *)
Pop ==
  /\ stack' = SubSeq(stack, 1, Len(stack) - 1)
  /\ key' = NoKey
  /\ result' = IF Len(stack) = 1 THEN "ok" ELSE "running"
  /\ UNCHANGED pos

(* decode_varint, value unused *)
ReadVarint == \/ \E w \in VarintWidths : Advance(w)
              \/ Fail("invalid varint")

(* A length that fits in neither the buffer nor anything else. *)
LengthUnderflows == (\E w \in VarintWidths : pos + w <= BufLen) /\ Fail("buffer underflow")

(* A length and as many bytes: string, bytes, skipped delimited field.     *)
ReadDelimited ==
  \/ \E w \in VarintWidths, len \in 0 .. BufLen : Advance(w + len)
  \/ Fail("invalid varint")
  \/ LengthUnderflows

(* Mutant: the length is believed. *)
OpenDelimitedUnchecked(kind, ctx) ==
  \/ \E w \in VarintWidths, len \in 0 .. BufLen :
       /\ pos + w <= BufLen
       /\ pos' = pos + w
       /\ Push(kind, ctx, pos + w + len, 0)
  \/ Fail("invalid varint")

(* The head of merge_loop: the length must fit the whole buffer - it is    *)
(* not compared with the end of the enclosing frame.                       *)
OpenDelimited(kind, ctx) ==
  \/ \E w \in VarintWidths, len \in 0 .. BufLen :
       /\ pos + w + len <= BufLen
       /\ pos' = pos + w
       /\ Push(kind, ctx, pos + w + len, 0)
  \/ Fail("invalid varint")
  \/ LengthUnderflows

-----------------------------------------------------------------------------
(* Entry points *)

(* Decode::merge (decode): the buffer is the message. *)
Merge ==
  /\ result = "start"
  /\ Push("message", RecursionLimit, BufLen, 0)
  /\ UNCHANGED pos

(* Decode::merge_length_delimited: message::merge on a fresh context. *)
MergeLengthDelimited ==
  /\ result = "start"
  /\ OpenDelimited("message", EnterRecursion(RecursionLimit))

-----------------------------------------------------------------------------
(* Loops *)

(* Mutant: the loop ends at or past its end without looking which. *)
LoopEndsAnywhere ==
  /\ stack # << >> /\ key = NoKey
  /\ Delimited(Top) /\ pos >= Top.end
  /\ Pop

(* The loop condition `remaining > limit` fails: the frame is complete, or *)
(* a child read past its end.                                              *)
LoopEnds ==
  /\ stack # << >> /\ key = NoKey
  /\ Delimited(Top) /\ pos >= Top.end
  /\ IF pos = Top.end THEN Pop ELSE Fail("delimited length exceeded")

(* Mutant: the key is peeked at and not consumed. *)
DecodeKeyPeeks ==
  /\ stack # << >> /\ key = NoKey
  /\ Top.kind # "packed" /\ (Delimited(Top) => pos < Top.end)
  /\ \/ \E w \in VarintWidths, k \in Keys :
          /\ pos + w <= BufLen
          /\ key' = k
          /\ UNCHANGED <<pos, stack, result>>
     \/ Fail("invalid varint")

(* decode_key at the head of a turn of any loop but a packed one. *)
DecodeKey ==
  /\ stack # << >> /\ key = NoKey
  /\ Top.kind # "packed" /\ (Delimited(Top) => pos < Top.end)
  /\ \/ \E w \in VarintWidths, k \in Keys :
          /\ pos + w <= BufLen
          /\ pos' = pos + w
          /\ key' = k
          /\ UNCHANGED <<stack, result>>
     \/ Fail("invalid varint")
     \/ (\E w \in VarintWidths : pos + w <= BufLen) /\ Fail("invalid key")

(* One element of a packed field (merge_repeated_numeric). *)
PackedElement ==
  /\ stack # << >>
  /\ Top.kind = "packed" /\ pos < Top.end
  /\ ReadVarint

(* The END_GROUP test of group::merge, of the repeated-group loop and of   *)
(* the group arm of skip_field.                                            *)
EndGroup ==
  /\ key # NoKey /\ key.wire = "EndGroup" /\ ~ Delimited(Top)
  /\ IF key.tag = Top.tag THEN Pop ELSE Fail("unexpected end group tag")

-----------------------------------------------------------------------------
(* merge_field: one arm per kind of field *)

KindIn(f, tag) ==
  IF f.kind \in {"message", "group"} /\ tag \in DOMAIN Field THEN Field[tag]
  ELSE IF f.kind \in {"map", "message_map"} /\ tag = 1 THEN "varint"
  ELSE IF f.kind = "map" /\ tag = 2 THEN "string"
  ELSE IF f.kind = "message_map" /\ tag = 2 THEN "entry_value"
  ELSE "unknown"

(* The key is handed to the arm of a field of one of these kinds. *)
Handles(kinds) ==
  /\ key # NoKey
  /\ ~ (key.wire = "EndGroup" /\ ~ Delimited(Top))
  /\ KindIn(Top, key.tag) \in kinds

WrongWireType(expected) == key.wire # expected /\ Fail("invalid wire type")
LimitReached            == Top.ctx = 0 /\ Fail("recursion limit reached")
Child                   == EnterRecursion(Top.ctx)

MergeVarint ==
  /\ Handles({"varint"})
  /\ \/ WrongWireType("Varint")
     \/ key.wire = "Varint" /\ ReadVarint

MergeFixed32 ==
  /\ Handles({"fixed32"})
  /\ \/ WrongWireType("ThirtyTwoBit")
     \/ key.wire = "ThirtyTwoBit" /\ Advance(4)
     \/ key.wire = "ThirtyTwoBit" /\ pos + 4 > BufLen /\ Fail("buffer underflow")

MergeString ==
  /\ Handles({"string"})
  /\ \/ WrongWireType("LengthDelimited")
     \/ key.wire = "LengthDelimited" /\ ReadDelimited
     \/ /\ key.wire = "LengthDelimited"
        /\ \E w \in VarintWidths : pos + w + 1 <= BufLen
        /\ Fail("invalid string value")

(* One element of an unpacked numeric field, or a packed run of them. *)
MergePacked ==
  /\ Handles({"packed"})
  /\ \/ key.wire = "LengthDelimited" /\ OpenDelimited("packed", Top.ctx)
     \/ key.wire # "LengthDelimited" /\ WrongWireType("Varint")
     \/ key.wire = "Varint" /\ ReadVarint

(* Mutant: no limit_reached. *)
MergeMessageUnlimited ==
  /\ Handles(MessageKinds)
  /\ \/ WrongWireType("LengthDelimited")
     \/ key.wire = "LengthDelimited" /\ OpenDelimited("message", Child)

(* Singular and repeated messages and message variants of a oneof. *)
MergeMessage ==
  /\ Handles(MessageKinds)
  /\ \/ WrongWireType("LengthDelimited")
     \/ key.wire = "LengthDelimited" /\ LimitReached
     \/ key.wire = "LengthDelimited" /\ Top.ctx # 0 /\ OpenDelimited("message", Child)

(* A singular group: the generated arm checks and enters, and group::merge *)
(* checks and enters once more.                                            *)
MergeGroup ==
  /\ Handles({"group"})
  /\ \/ WrongWireType("StartGroup")
     \/ key.wire = "StartGroup" /\ LimitReached
     \/ key.wire = "StartGroup" /\ Top.ctx # 0 /\ Child = 0 /\ Fail("recursion limit reached")
     \/ /\ key.wire = "StartGroup" /\ Top.ctx # 0 /\ Child # 0
        /\ Push("group", EnterRecursion(Child), BufLen, key.tag)
        /\ UNCHANGED pos

(* A repeated group is merged inline, with one check and one decrement. *)
MergeRepeatedGroup ==
  /\ Handles({"repeated_group"})
  /\ \/ WrongWireType("StartGroup")
     \/ key.wire = "StartGroup" /\ LimitReached
     \/ /\ key.wire = "StartGroup" /\ Top.ctx # 0
        /\ Push("group", Child, BufLen, key.tag)
        /\ UNCHANGED pos

(* Mutant: no limit_reached. *)
MergeMapUnlimited ==
  /\ Handles({"map"})
  /\ OpenDelimited("map", Child)

(* merge_with_defaults: no test of the wire type of the entry. *)
MergeMap ==
  /\ Handles({"map"})
  /\ \/ LimitReached
     \/ Top.ctx # 0 /\ OpenDelimited("map", Child)

(* A map of messages: the limit is tested, but the entry is read with the  *)
(* context of the message that holds the map.                              *)
MergeMessageMap ==
  /\ Handles({"message_map"})
  /\ \/ LimitReached
     \/ Top.ctx # 0 /\ WrongWireType("LengthDelimited")
     \/ /\ Top.ctx # 0 /\ key.wire = "LengthDelimited"
        /\ OpenDelimited("message_map", Top.ctx)

(* Its value: no test of the limit before the decrement. *)
MergeEntryValue ==
  /\ Handles({"entry_value"})
  /\ \/ WrongWireType("LengthDelimited")
     \/ key.wire = "LengthDelimited" /\ OpenDelimited("message", Child)

(* skip_field on everything but a group. *)
SkipLeaf ==
  /\ Handles({"unknown"})
  /\ \/ LimitReached
     \/ /\ Top.ctx # 0
        /\ \/ key.wire = "Varint" /\ ReadVarint
           \/ key.wire = "ThirtyTwoBit" /\ Advance(4)
           \/ key.wire = "SixtyFourBit" /\ Advance(8)
           \/ /\ \/ key.wire = "ThirtyTwoBit" /\ pos + 4 > BufLen
                 \/ key.wire = "SixtyFourBit" /\ pos + 8 > BufLen
              /\ Fail("buffer underflow")
           \/ key.wire = "LengthDelimited" /\ ReadDelimited
           \/ key.wire = "EndGroup" /\ Fail("unexpected end group tag")

(* Mutant: the fields of a skipped group are skipped at its own level. *)
SkipGroupSameLevel ==
  /\ Handles({"unknown"})
  /\ key.wire = "StartGroup" /\ Top.ctx # 0
  /\ Push("skip", Top.ctx, BufLen, key.tag)
  /\ UNCHANGED pos

(* skip_field on a group: its fields are skipped one level further in. *)
SkipGroup ==
  /\ Handles({"unknown"})
  /\ key.wire = "StartGroup" /\ Top.ctx # 0
  /\ Push("skip", Child, BufLen, key.tag)
  /\ UNCHANGED pos

Next ==
  \/ Merge \/ MergeLengthDelimited
  \/ LoopEnds \/ DecodeKey \/ PackedElement \/ EndGroup
  \/ MergeVarint \/ MergeFixed32 \/ MergeString \/ MergePacked
  \/ MergeMessage \/ MergeGroup \/ MergeRepeatedGroup
  \/ MergeMap \/ MergeMessageMap \/ MergeEntryValue
  \/ SkipLeaf \/ SkipGroup

(* The decoder is one thread that runs until it returns. *)
Spec == Init /\ [][Next]_vars /\ WF_vars(Next)

-----------------------------------------------------------------------------
(* Properties *)

(* Only the entry of a map of messages and a packed run open a frame       *)
(* without taking a level from the recursion budget, and neither can hold  *)
(* another of them; so the depth of the native stack is tied to the budget *)
(* that is left.  A missing limit_reached lets recurse_count wrap and      *)
(* breaks this.                                                            *)
Slack(kind) == IF kind \in {"message_map", "packed"} THEN 2 ELSE 1

BudgetMatchesDepth ==
  \A i \in 1 .. Len(stack) :
    i + 2 * stack[i].ctx <= 2 * RecursionLimit + Slack(stack[i].kind)

(* What the recursion limit is for: whatever the input, the native stack   *)
(* never holds more than 2 * RECURSION_LIMIT + 2 loops.                    *)
StackBounded == Len(stack) <= 2 * RecursionLimit + 2

(* The limit does not bite early: the error is returned only with at least *)
(* RECURSION_LIMIT / 2 loops open (a singular group costs two levels,      *)
(* everything else at most one).                                           *)
NoEarlyLimit ==
  [][result' = "recursion limit reached" => 2 * Len(stack) >= RecursionLimit]_vars

(* Every input, however malformed, makes the decoder return: a turn of any *)
(* loop consumes input or returns.                                         *)
Terminates == <>(result \notin {"start", "running"})

=============================================================================
