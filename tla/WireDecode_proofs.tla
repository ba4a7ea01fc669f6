-------------------------- MODULE WireDecode_proofs --------------------------
(***************************************************************************)
(* Type correctness, the tie between recursion budget and stack depth, the *)
(* bound on the native stack, and the absence of early limit errors, for   *)
(* every buffer, every schema and every recursion limit; and, in the last  *)
(* sections, that WireDecode implements WellNested.                        *)
(***************************************************************************)
EXTENDS WireDecodeRefinement, SequenceTheorems, WellFoundedInduction, TLAPS

(* A level never costs more than two units of budget, and the budget       *)
(* starts at the limit or one below it.                                    *)
BudgetFloor == \A i \in 1 .. Len(stack) : 2 * i + stack[i].ctx >= RecursionLimit + 1

(* The value of an entry of a message map is entered without a test of the *)
(* limit: the test made for the entry covers it.                           *)
EntriesHaveBudget == \A i \in 1 .. Len(stack) : stack[i].kind = "message_map" => stack[i].ctx # 0

(* A key is handled by a running loop, and loops run only until a result.  *)
ControlAgrees == /\ key # NoKey => stack # << >>
                 /\ stack # << >> => result = "running"

(* The inductive invariant. *)
IInv == TypeOK /\ ControlAgrees /\ EntriesHaveBudget /\ BudgetFloor /\ BudgetMatchesDepth

USE BufLenAssumption, LimitAssumption, CounterAssumption, WidthsAssumption, TagsAssumption

(* The initial state satisfies the invariant: no loop is running.          *)
LEMMA InitIInv == Init => IInv
  BY DEF Init, IInv, TypeOK, ControlAgrees, EntriesHaveBudget, BudgetFloor, BudgetMatchesDepth, Frames

(* Returning an error unwinds the stack, which keeps the invariant.        *)
LEMMA FailKeepsIInv ==
  ASSUME IInv, NEW error \in Errors, Fail(error)
  PROVE  IInv'
<1>1. stack' = << >> /\ Len(stack') = 0
  BY DEF Fail
<1>2. TypeOK' /\ ControlAgrees'
  BY <1>1 DEF Fail, IInv, TypeOK, ControlAgrees
<1>3. EntriesHaveBudget' /\ BudgetFloor' /\ BudgetMatchesDepth'
  BY <1>1 DEF EntriesHaveBudget, BudgetFloor, BudgetMatchesDepth
<1>4. QED BY <1>2, <1>3 DEF IInv

(* Reading leaves the frames as they are.                                  *)
LEMMA AdvanceKeepsIInv ==
  ASSUME IInv, NEW n \in Nat, Advance(n)
  PROVE  IInv'
<1>1. stack' = stack /\ result' = result /\ key' = NoKey /\ pos' \in 0 .. BufLen
  BY DEF Advance, IInv, TypeOK
<1>2. TypeOK' /\ ControlAgrees'
  BY <1>1 DEF IInv, TypeOK, ControlAgrees
<1>3. EntriesHaveBudget' /\ BudgetFloor' /\ BudgetMatchesDepth'
  BY <1>1 DEF IInv, EntriesHaveBudget, BudgetFloor, BudgetMatchesDepth
<1>4. QED BY <1>2, <1>3 DEF IInv

(* Returning from the innermost loop leaves the frames below it.           *)
LEMMA PopFacts ==
  ASSUME IInv, stack # << >>, Pop
  PROVE  /\ Len(stack) \in Nat \ {0}
         /\ stack' \in Seq(Frames)
         /\ Len(stack') = Len(stack) - 1
         /\ \A i \in 1 .. Len(stack') : stack'[i] = stack[i] /\ i \in 1 .. Len(stack)
<1> DEFINE n == Len(stack) - 1
<1>1. stack \in Seq(Frames) /\ n \in Nat /\ Len(stack) = n + 1
  BY DEF IInv, TypeOK
<1>2. stack' = SubSeq(stack, 1, n)
  BY DEF Pop
<1>3. \A i \in 1 .. n : stack[i] \in Frames
  BY <1>1
<1> HIDE DEF n
<1>4. /\ SubSeq(stack, 1, n) \in Seq(Frames)
      /\ Len(SubSeq(stack, 1, n)) = IF 1 <= n THEN n - 1 + 1 ELSE 0
      /\ \A i \in 1 .. n - 1 + 1 : SubSeq(stack, 1, n)[i] = stack[1 + i - 1]
  BY <1>1, <1>3, SubSeqProperties
<1>5. Len(stack') = n
  BY <1>1, <1>2, <1>4
<1>6. ASSUME NEW i \in 1 .. n
      PROVE  stack'[i] = stack[i] /\ i \in 1 .. Len(stack)
  <2>1. i \in Int /\ 1 + i - 1 = i /\ i \in 1 .. n - 1 + 1 /\ i \in 1 .. Len(stack)
    BY <1>1
  <2>2. stack'[i] = stack[1 + i - 1]
    BY <1>2, <1>4, <2>1
  <2>3. QED BY <2>1, <2>2
<1>7. QED BY <1>1, <1>2, <1>4, <1>5, <1>6

(* So returning from it keeps the invariant.                               *)
LEMMA PopKeepsIInv ==
  ASSUME IInv, stack # << >>, result # "start", Pop
  PROVE  IInv'
<1>1. /\ Len(stack) \in Nat \ {0}
      /\ stack' \in Seq(Frames)
      /\ Len(stack') = Len(stack) - 1
      /\ \A i \in 1 .. Len(stack') : stack'[i] = stack[i] /\ i \in 1 .. Len(stack)
  BY PopFacts
<1>2. TypeOK' /\ ControlAgrees'
  BY <1>1 DEF IInv, TypeOK, ControlAgrees, Pop
<1>3. EntriesHaveBudget' /\ BudgetFloor' /\ BudgetMatchesDepth'
  BY <1>1 DEF IInv, EntriesHaveBudget, BudgetFloor, BudgetMatchesDepth
<1>4. QED BY <1>2, <1>3 DEF IInv

(* Entering a loop keeps the invariant when its frame satisfies the        *)
(* clauses that concern one frame.                                         *)
LEMMA PushKeepsIInv ==
  ASSUME IInv, pos' \in 0 .. BufLen,
         NEW kind \in FrameKinds, NEW ctx \in 0 .. CounterMax,
         NEW end \in 0 .. BufLen, NEW tag \in Tags \union {0},
         Push(kind, ctx, end, tag),
         kind = "message_map" => ctx # 0,
         2 * (Len(stack) + 1) + ctx >= RecursionLimit + 1,
         Len(stack) + 1 + 2 * ctx <= 2 * RecursionLimit + Slack(kind)
  PROVE  IInv'
<1> DEFINE f == [kind |-> kind, ctx |-> ctx, end |-> end, tag |-> tag]
<1>1. /\ Len(stack) \in Nat
      /\ f \in Frames
      /\ stack' = Append(stack, f)
      /\ stack' \in Seq(Frames)
      /\ Len(stack') = Len(stack) + 1
      /\ stack'[Len(stack) + 1] = f
      /\ \A i \in 1 .. Len(stack) : stack'[i] = stack[i]
  BY DEF IInv, TypeOK, Push, Frames
<1>2. f.kind = kind /\ f.ctx = ctx
  OBVIOUS
<1>3. TypeOK' /\ ControlAgrees'
  BY <1>1 DEF IInv, TypeOK, ControlAgrees, Push
<1>4. \A i \in 1 .. Len(stack') : i \in 1 .. Len(stack) \/ i = Len(stack) + 1
  BY <1>1
<1>5. EntriesHaveBudget'
  BY <1>1, <1>2, <1>4 DEF IInv, EntriesHaveBudget
<1>6. BudgetFloor'
  BY <1>1, <1>2, <1>4 DEF IInv, BudgetFloor
<1>7. BudgetMatchesDepth'
  BY <1>1, <1>2, <1>4 DEF IInv, BudgetMatchesDepth
<1>8. QED BY <1>3, <1>5, <1>6, <1>7 DEF IInv

(* The same for merge_loop, which may also fail on the length it reads.    *)
LEMMA OpenDelimitedKeepsIInv ==
  ASSUME IInv,
         NEW kind \in FrameKinds, NEW ctx \in 0 .. CounterMax,
         OpenDelimited(kind, ctx),
         kind = "message_map" => ctx # 0,
         2 * (Len(stack) + 1) + ctx >= RecursionLimit + 1,
         Len(stack) + 1 + 2 * ctx <= 2 * RecursionLimit + Slack(kind)
  PROVE  IInv'
<1>1. CASE \E w \in VarintWidths, len \in 0 .. BufLen :
             /\ pos + w + len <= BufLen
             /\ pos' = pos + w
             /\ Push(kind, ctx, pos + w + len, 0)
  <2>1. PICK w \in VarintWidths, len \in 0 .. BufLen :
             /\ pos + w + len <= BufLen
             /\ pos' = pos + w
             /\ Push(kind, ctx, pos + w + len, 0)
    BY <1>1
  <2>2. pos \in Nat /\ w \in Nat /\ pos' \in 0 .. BufLen /\ pos + w + len \in 0 .. BufLen
    BY <2>1 DEF IInv, TypeOK
  <2>3. QED BY <2>1, <2>2, PushKeepsIInv
<1>2. CASE Fail("invalid varint") \/ LengthUnderflows
  BY <1>2, FailKeepsIInv DEF LengthUnderflows, Errors
<1>3. QED BY <1>1, <1>2 DEF OpenDelimited

(* A varint, or a length with its bytes, is read within the frame.         *)
LEMMA ReadKeepsIInv ==
  ASSUME IInv, ReadVarint \/ ReadDelimited
  PROVE  IInv'
<1>1. \A w \in VarintWidths, len \in 0 .. BufLen : w \in Nat /\ w + len \in Nat
  OBVIOUS
<1>2. "invalid varint" \in Errors /\ "buffer underflow" \in Errors
  BY DEF Errors
<1>3. CASE ReadVarint
  <2>1. CASE \E w \in VarintWidths : Advance(w)
    <3>1. PICK w \in VarintWidths : Advance(w)
      BY <2>1
    <3>2. QED BY <3>1, AdvanceKeepsIInv
  <2>2. CASE Fail("invalid varint")
    BY <1>2, <2>2, FailKeepsIInv
  <2>3. QED BY <1>3, <2>1, <2>2 DEF ReadVarint
<1>4. CASE ReadDelimited
  <2>1. CASE \E w \in VarintWidths, len \in 0 .. BufLen : Advance(w + len)
    <3>1. PICK w \in VarintWidths, len \in 0 .. BufLen : Advance(w + len)
      BY <2>1
    <3>2. QED BY <1>1, <3>1, AdvanceKeepsIInv
  <2>2. CASE Fail("invalid varint") \/ Fail("buffer underflow")
    BY <1>2, <2>2, FailKeepsIInv
  <2>3. QED BY <1>4, <2>1, <2>2 DEF ReadDelimited, LengthUnderflows
<1>5. QED BY <1>3, <1>4

(* What the invariant says of the innermost frame.                         *)
LEMMA TopFacts ==
  ASSUME IInv, stack # << >>
  PROVE  /\ Len(stack) \in Nat \ {0}
         /\ Top \in Frames
         /\ Top.kind = "message_map" => Top.ctx # 0
         /\ 2 * Len(stack) + Top.ctx >= RecursionLimit + 1
         /\ Len(stack) + 2 * Top.ctx <= 2 * RecursionLimit + Slack(Top.kind)
<1>1. Len(stack) \in Nat \ {0} /\ Len(stack) \in 1 .. Len(stack)
  BY DEF IInv, TypeOK
<1>2. QED BY <1>1 DEF IInv, TypeOK, Top, EntriesHaveBudget, BudgetFloor, BudgetMatchesDepth

(* A key is being handled by a loop; only messages and groups have fields  *)
(* of the kinds that nest, entries of message maps only their value.       *)
LEMMA HandlesFacts ==
  ASSUME IInv, NEW kinds, Handles(kinds)
  PROVE  /\ stack # << >> /\ result # "start"
         /\ key \in Keys
         /\ "entry_value" \notin kinds /\ kinds \intersect {"varint", "string", "unknown"} = {}
              => Top.kind \in {"message", "group"}
         /\ kinds = {"entry_value"} /\ "entry_value" \notin FieldKinds => Top.kind = "message_map"
<1>1. key # NoKey /\ KindIn(Top, key.tag) \in kinds
  BY DEF Handles
<1>2. stack # << >> /\ result # "start" /\ key \in Keys
  BY <1>1 DEF IInv, TypeOK, ControlAgrees
<1>3. ASSUME Top.kind \notin {"message", "group"}
      PROVE  \/ KindIn(Top, key.tag) \in {"varint", "string", "unknown"}
             \/ KindIn(Top, key.tag) = "entry_value" /\ Top.kind = "message_map"
  BY <1>3 DEF KindIn
<1>4. ASSUME Top.kind \in {"message", "group"}
      PROVE  KindIn(Top, key.tag) \in FieldKinds \union {"unknown"}
  <2>1. KindIn(Top, key.tag) = IF key.tag \in DOMAIN Field THEN Field[key.tag] ELSE "unknown"
    BY <1>4 DEF KindIn
  <2>2. QED BY <2>1, FieldAssumption
<1>5. "unknown" # "entry_value"
  OBVIOUS
<1>6. QED BY <1>1, <1>2, <1>3, <1>4, <1>5

(* The key of a field reaches a loop only with a frame below it; one level *)
(* down costs one unit of budget, and nothing wraps.                       *)
LEMMA ChildFacts ==
  ASSUME IInv, stack # << >>, Top.ctx # 0
  PROVE  /\ Child = Top.ctx - 1
         /\ Child \in 0 .. CounterMax
         /\ Child # 0 => EnterRecursion(Child) = Top.ctx - 2 /\ EnterRecursion(Child) \in 0 .. CounterMax
<1>1. Top.ctx \in 0 .. CounterMax
  BY TopFacts DEF Frames
<1>2. QED BY <1>1 DEF Child, EnterRecursion

(* The arithmetic of a step down: depth m and budget c, a cost in levels,  *)
(* and the slack of the frame that opens (here) and of the new one.        *)
LEMMA BudgetArithmetic ==
  ASSUME NEW m \in Nat, NEW c \in 0 .. CounterMax, NEW cost \in {0, 1, 2}, c >= cost,
         NEW here \in Nat, NEW there \in Nat, here <= 2, there >= 1,
         cost = 0 => there = 2 /\ here = 1,
         2 * m + c >= RecursionLimit + 1,
         m + 2 * c <= 2 * RecursionLimit + here
  PROVE  /\ c - cost \in 0 .. CounterMax
         /\ 2 * (m + 1) + (c - cost) >= RecursionLimit + 1
         /\ m + 1 + 2 * (c - cost) <= 2 * RecursionLimit + there
<1>1. CASE cost = 0
  BY <1>1
<1>2. CASE cost = 1
  BY <1>2
<1>3. CASE cost = 2
  BY <1>3
<1>4. QED BY <1>1, <1>2, <1>3

(* What a frame opened at a cost of 0, 1 or 2 levels satisfies. Only the  *)
(* entry of a message map and a packed run cost nothing, and they are      *)
(* opened from a message or a group.                                       *)
LEMMA ChildBudget ==
  ASSUME IInv, stack # << >>,
         NEW kind \in FrameKinds, NEW cost \in {0, 1, 2}, Top.ctx >= cost,
         cost = 0 => kind \in {"message_map", "packed"} /\ Top.kind \in {"message", "group"}
  PROVE  /\ Top.ctx - cost \in 0 .. CounterMax
         /\ 2 * (Len(stack) + 1) + (Top.ctx - cost) >= RecursionLimit + 1
         /\ Len(stack) + 1 + 2 * (Top.ctx - cost) <= 2 * RecursionLimit + Slack(kind)
<1>1. /\ Top.ctx \in 0 .. CounterMax /\ Len(stack) \in Nat
      /\ 2 * Len(stack) + Top.ctx >= RecursionLimit + 1
      /\ Len(stack) + 2 * Top.ctx <= 2 * RecursionLimit + Slack(Top.kind)
  BY TopFacts DEF Frames
<1>2. Slack(kind) \in Nat /\ Slack(kind) >= 1 /\ Slack(Top.kind) \in Nat /\ Slack(Top.kind) <= 2
  BY DEF Slack
<1>3. cost = 0 => Slack(kind) = 2 /\ Slack(Top.kind) = 1
  BY DEF Slack
<1>4. QED BY <1>1, <1>2, <1>3, BudgetArithmetic

(* Every action of the decoder keeps the invariant.                        *)
LEMMA NextKeepsIInv ==
  ASSUME IInv, Next
  PROVE  IInv'
<1> DEFINE nested == {"message", "group"}
<1>e. Errors = {"invalid varint", "invalid key", "invalid wire type",
                "recursion limit reached", "buffer underflow",
                "delimited length exceeded", "unexpected end group tag",
                "invalid string value"}
  BY DEF Errors
<1>k. FrameKinds = {"message", "map", "message_map", "packed", "group", "skip"}
  BY DEF FrameKinds
<1>1. CASE Merge
  <2>1. stack = << >> /\ Len(stack) = 0 /\ pos' \in 0 .. BufLen /\ RecursionLimit \in 0 .. CounterMax
    BY <1>1 DEF Merge, IInv, TypeOK, ControlAgrees
  <2>2. Push("message", RecursionLimit, BufLen, 0) /\ Slack("message") = 1
    BY <1>1 DEF Merge, Slack
  <2>3. QED BY <2>1, <2>2, <1>k, PushKeepsIInv
<1>2. CASE MergeLengthDelimited
  <2>1. stack = << >> /\ Len(stack) = 0 /\ RecursionLimit - 1 \in 0 .. CounterMax
    BY <1>2 DEF MergeLengthDelimited, IInv, ControlAgrees
  <2>2. OpenDelimited("message", RecursionLimit - 1) /\ Slack("message") = 1
    BY <1>2 DEF MergeLengthDelimited, EnterRecursion, Slack
  <2>3. QED BY <2>1, <2>2, <1>k, OpenDelimitedKeepsIInv
<1>3. CASE LoopEnds
  <2>1. result # "start"
    BY <1>3 DEF LoopEnds, IInv, ControlAgrees
  <2>2. QED BY <1>3, <2>1, <1>e, PopKeepsIInv, FailKeepsIInv DEF LoopEnds
<1>4. CASE DecodeKey
  <2>1. CASE Fail("invalid varint") \/ Fail("invalid key")
    BY <2>1, <1>e, FailKeepsIInv
  <2>2. CASE \E w \in VarintWidths, k \in Keys :
               /\ pos + w <= BufLen
               /\ pos' = pos + w
               /\ key' = k
               /\ UNCHANGED <<stack, result>>
    <3>1. PICK w \in VarintWidths, k \in Keys :
               /\ pos + w <= BufLen
               /\ pos' = pos + w
               /\ key' = k
               /\ UNCHANGED <<stack, result>>
      BY <2>2
    <3>2. stack' = stack /\ result' = result /\ stack # << >>
      BY <1>4, <3>1 DEF DecodeKey
    <3>p. pos' \in 0 .. BufLen
      BY <3>1 DEF IInv, TypeOK
    <3>3. TypeOK' /\ ControlAgrees'
      BY <3>1, <3>2, <3>p DEF IInv, TypeOK, ControlAgrees
    <3>4. EntriesHaveBudget' /\ BudgetFloor' /\ BudgetMatchesDepth'
      BY <3>2 DEF IInv, EntriesHaveBudget, BudgetFloor, BudgetMatchesDepth
    <3>5. QED BY <3>3, <3>4 DEF IInv
  <2>3. QED BY <1>4, <2>1, <2>2 DEF DecodeKey
<1>5. CASE PackedElement
  BY <1>5, ReadKeepsIInv DEF PackedElement
<1>6. CASE EndGroup
  <2>1. stack # << >> /\ result # "start"
    BY <1>6 DEF EndGroup, IInv, ControlAgrees
  <2>2. QED BY <1>6, <2>1, <1>e, PopKeepsIInv, FailKeepsIInv DEF EndGroup
<1>w. ASSUME NEW expected, WrongWireType(expected) \/ LimitReached
      PROVE  IInv'
  BY <1>w, <1>e, FailKeepsIInv DEF WrongWireType, LimitReached
<1>7. CASE MergeVarint
  BY <1>7, <1>w, ReadKeepsIInv DEF MergeVarint
<1>8. CASE MergeFixed32
  BY <1>8, <1>w, <1>e, AdvanceKeepsIInv, FailKeepsIInv DEF MergeFixed32
<1>9. CASE MergeString
  BY <1>9, <1>w, <1>e, ReadKeepsIInv, FailKeepsIInv DEF MergeString
<1>10. CASE MergePacked
  <2>1. CASE OpenDelimited("packed", Top.ctx)
    <3>1. stack # << >> /\ Top.kind \in nested
      BY <1>10, HandlesFacts DEF MergePacked
    <3>2. Top.ctx \in Nat /\ Top.ctx >= 0
      BY <2>1, <3>1, TopFacts DEF Frames
    <3>3. Top.ctx - 0 = Top.ctx /\ Top.ctx >= 0
      BY <3>2
    <3>4. /\ Top.ctx \in 0 .. CounterMax
          /\ 2 * (Len(stack) + 1) + Top.ctx >= RecursionLimit + 1
          /\ Len(stack) + 1 + 2 * Top.ctx <= 2 * RecursionLimit + Slack("packed")
      BY <3>1, <3>2, <3>3, <1>k, ChildBudget
    <3>5. QED BY <2>1, <3>4, <1>k, OpenDelimitedKeepsIInv
  <2>2. QED BY <1>10, <2>1, <1>w, ReadKeepsIInv DEF MergePacked
<1>11. CASE MergeMessage
  <2>1. CASE Top.ctx # 0 /\ OpenDelimited("message", Child)
    <3>1. stack # << >> /\ Top.kind \in nested
      BY <1>11, HandlesFacts DEF MergeMessage, MessageKinds
    <3>2. Top.ctx \in Nat /\ Top.ctx # 0
      BY <2>1, <3>1, TopFacts DEF Frames
    <3>3. Top.ctx >= 1 /\ Child = Top.ctx - 1
      BY <3>1, <3>2, ChildFacts
    <3>4. /\ Child \in 0 .. CounterMax
          /\ 2 * (Len(stack) + 1) + Child >= RecursionLimit + 1
          /\ Len(stack) + 1 + 2 * Child <= 2 * RecursionLimit + Slack("message")
      BY <3>1, <3>2, <3>3, <1>k, ChildBudget
    <3>5. QED BY <2>1, <3>4, <1>k, OpenDelimitedKeepsIInv
  <2>2. QED BY <1>11, <2>1, <1>w DEF MergeMessage
<1>12. CASE MergeGroup
  <2>1. CASE /\ Top.ctx # 0 /\ Child # 0
             /\ Push("group", EnterRecursion(Child), BufLen, key.tag)
             /\ UNCHANGED pos
    <3>1. stack # << >> /\ Top.kind \in nested /\ key \in Keys
      BY <1>12, HandlesFacts DEF MergeGroup
    <3>2. Top.ctx \in Nat /\ Top.ctx # 0
      BY <2>1, <3>1, TopFacts DEF Frames
    <3>3. Top.ctx >= 2 /\ EnterRecursion(Child) = Top.ctx - 2
      BY <2>1, <3>1, <3>2, ChildFacts
    <3>4. /\ EnterRecursion(Child) \in 0 .. CounterMax
          /\ 2 * (Len(stack) + 1) + EnterRecursion(Child) >= RecursionLimit + 1
          /\ Len(stack) + 1 + 2 * EnterRecursion(Child) <= 2 * RecursionLimit + Slack("group")
      BY <3>1, <3>2, <3>3, <1>k, ChildBudget
    <3>5. key.tag \in Tags \union {0} /\ pos' \in 0 .. BufLen /\ BufLen \in 0 .. BufLen
      BY <3>1, <2>1 DEF Keys, IInv, TypeOK
    <3>6. QED BY <2>1, <3>4, <3>5, <1>k, PushKeepsIInv
  <2>2. QED BY <1>12, <2>1, <1>w, <1>e, FailKeepsIInv DEF MergeGroup
<1>13. CASE MergeRepeatedGroup
  <2>1. CASE /\ Top.ctx # 0
             /\ Push("group", Child, BufLen, key.tag)
             /\ UNCHANGED pos
    <3>1. stack # << >> /\ Top.kind \in nested /\ key \in Keys
      BY <1>13, HandlesFacts DEF MergeRepeatedGroup
    <3>2. Top.ctx \in Nat /\ Top.ctx # 0
      BY <2>1, <3>1, TopFacts DEF Frames
    <3>3. Top.ctx >= 1 /\ Child = Top.ctx - 1
      BY <3>1, <3>2, ChildFacts
    <3>4. /\ Child \in 0 .. CounterMax
          /\ 2 * (Len(stack) + 1) + Child >= RecursionLimit + 1
          /\ Len(stack) + 1 + 2 * Child <= 2 * RecursionLimit + Slack("group")
      BY <3>1, <3>2, <3>3, <1>k, ChildBudget
    <3>5. key.tag \in Tags \union {0} /\ pos' \in 0 .. BufLen /\ BufLen \in 0 .. BufLen
      BY <3>1, <2>1 DEF Keys, IInv, TypeOK
    <3>6. QED BY <2>1, <3>4, <3>5, <1>k, PushKeepsIInv
  <2>2. QED BY <1>13, <2>1, <1>w DEF MergeRepeatedGroup
<1>14. CASE MergeMap
  <2>1. CASE Top.ctx # 0 /\ OpenDelimited("map", Child)
    <3>1. stack # << >> /\ Top.kind \in nested
      BY <1>14, HandlesFacts DEF MergeMap
    <3>2. Top.ctx \in Nat /\ Top.ctx # 0
      BY <2>1, <3>1, TopFacts DEF Frames
    <3>3. Top.ctx >= 1 /\ Child = Top.ctx - 1
      BY <3>1, <3>2, ChildFacts
    <3>4. /\ Child \in 0 .. CounterMax
          /\ 2 * (Len(stack) + 1) + Child >= RecursionLimit + 1
          /\ Len(stack) + 1 + 2 * Child <= 2 * RecursionLimit + Slack("map")
      BY <3>1, <3>2, <3>3, <1>k, ChildBudget
    <3>5. QED BY <2>1, <3>4, <1>k, OpenDelimitedKeepsIInv
  <2>2. QED BY <1>14, <2>1, <1>w DEF MergeMap
<1>15. CASE MergeMessageMap
  <2>1. CASE Top.ctx # 0 /\ OpenDelimited("message_map", Top.ctx)
    <3>1. stack # << >> /\ Top.kind \in nested
      BY <1>15, HandlesFacts DEF MergeMessageMap
    <3>2. Top.ctx \in Nat /\ Top.ctx # 0
      BY <2>1, <3>1, TopFacts DEF Frames
    <3>3. Top.ctx - 0 = Top.ctx /\ Top.ctx >= 0
      BY <3>2
    <3>4. /\ Top.ctx \in 0 .. CounterMax
          /\ 2 * (Len(stack) + 1) + Top.ctx >= RecursionLimit + 1
          /\ Len(stack) + 1 + 2 * Top.ctx <= 2 * RecursionLimit + Slack("message_map")
      BY <3>1, <3>2, <3>3, <1>k, ChildBudget
    <3>5. QED BY <2>1, <3>2, <3>4, <1>k, OpenDelimitedKeepsIInv
  <2>2. QED BY <1>15, <2>1, <1>w DEF MergeMessageMap
<1>16. CASE MergeEntryValue
  <2>1. CASE OpenDelimited("message", Child)
    <3>1. stack # << >> /\ Top.kind = "message_map"
      BY <1>16, HandlesFacts DEF MergeEntryValue, FieldKinds, MessageKinds, LeafKinds
    <3>2. Top.ctx \in Nat /\ Top.ctx # 0
      BY <2>1, <3>1, TopFacts DEF Frames
    <3>3. Top.ctx >= 1 /\ Child = Top.ctx - 1
      BY <3>1, <3>2, ChildFacts
    <3>4. /\ Child \in 0 .. CounterMax
          /\ 2 * (Len(stack) + 1) + Child >= RecursionLimit + 1
          /\ Len(stack) + 1 + 2 * Child <= 2 * RecursionLimit + Slack("message")
      BY <3>1, <3>2, <3>3, <1>k, ChildBudget
    <3>5. QED BY <2>1, <3>4, <1>k, OpenDelimitedKeepsIInv
  <2>2. QED BY <1>16, <2>1, <1>w DEF MergeEntryValue
<1>17. CASE SkipLeaf
  BY <1>17, <1>w, <1>e, ReadKeepsIInv, AdvanceKeepsIInv, FailKeepsIInv DEF SkipLeaf
<1>18. CASE SkipGroup
  <2>1. stack # << >> /\ key \in Keys
    BY <1>18, HandlesFacts DEF SkipGroup
  <2>2. Top.ctx # 0 /\ key.tag \in Tags \union {0} /\ pos' \in 0 .. BufLen
    BY <1>18, <2>1 DEF Keys, SkipGroup, IInv, TypeOK
  <2>3. Top.ctx >= 1 /\ Child = Top.ctx - 1
    BY <2>1, <2>2, TopFacts, ChildFacts DEF Frames
  <2>4. /\ Child \in 0 .. CounterMax
        /\ 2 * (Len(stack) + 1) + Child >= RecursionLimit + 1
        /\ Len(stack) + 1 + 2 * Child <= 2 * RecursionLimit + Slack("skip")
    BY <2>1, <2>3, <1>k, ChildBudget
  <2>5. Push("skip", Child, BufLen, key.tag) /\ BufLen \in 0 .. BufLen
    BY <1>18 DEF SkipGroup
  <2>6. QED BY <2>2, <2>4, <2>5, <1>k, PushKeepsIInv
<1>19. QED
  BY <1>1, <1>2, <1>3, <1>4, <1>5, <1>6, <1>7, <1>8, <1>9, <1>10, <1>11, <1>12, <1>13,
     <1>14, <1>15, <1>16, <1>17, <1>18 DEF Next

(* Stuttering changes none of the variables the invariant reads.           *)
LEMMA StutterKeepsIInv ==
  ASSUME IInv, UNCHANGED vars
  PROVE  IInv'
  BY DEF vars, IInv, TypeOK, ControlAgrees, EntriesHaveBudget, BudgetFloor, BudgetMatchesDepth

(* The invariant holds of every decode.                                    *)
THEOREM Invariance == Spec => []IInv
<1>1. Init => IInv
  BY InitIInv
<1>2. IInv /\ [Next]_vars => IInv'
  BY NextKeepsIInv, StutterKeepsIInv
<1>3. QED BY <1>1, <1>2, PTL DEF Spec

(* Every state of every decode is well typed: positions stay in the buffer *)
(* and the budget in its 32 bits.                                          *)
THEOREM TypeCorrect == Spec => []TypeOK
<1>1. IInv => TypeOK
  BY DEF IInv
<1>2. QED BY <1>1, Invariance, PTL

(* The budget left in a frame and its depth are tied, whatever the input   *)
(* and the schema: recurse_count never wraps.                              *)
THEOREM BudgetTied == Spec => []BudgetMatchesDepth
<1>1. IInv => BudgetMatchesDepth
  BY DEF IInv
<1>2. QED BY <1>1, Invariance, PTL

(* The native stack of a decode is bounded by the recursion limit alone.   *)
THEOREM StackIsBounded == Spec => []StackBounded
<1>1. ASSUME IInv
      PROVE  StackBounded
  <2>1. CASE stack = << >>
    BY <2>1 DEF StackBounded
  <2>2. CASE stack # << >>
    <3>1. Top.ctx \in Nat /\ Len(stack) \in Nat
      BY <1>1, <2>2, TopFacts DEF Frames
    <3>2. Slack(Top.kind) \in Nat /\ Slack(Top.kind) <= 2
      BY DEF Slack
    <3>3. QED BY <1>1, <2>2, <3>1, <3>2, TopFacts DEF StackBounded
  <2>3. QED BY <2>1, <2>2
<1>2. QED BY <1>1, Invariance, PTL

(* Two units of depth per unit of budget, with at most one left.           *)
LEMMA DepthAtFailure ==
  ASSUME NEW m \in Nat, NEW c, c = 0 \/ c = 1, 2 * m + c >= RecursionLimit + 1
  PROVE  2 * m >= RecursionLimit
<1>1. CASE c = 0
  BY <1>1
<1>2. CASE c = 1
  BY <1>2
<1>3. QED BY <1>1, <1>2

(* The only budget that is spent by one level.                             *)
LEMMA OneLevelLeft ==
  ASSUME IInv, stack # << >>, Top.ctx # 0, Child = 0
  PROVE  Top.ctx = 1
<1>1. Top \in Frames
  BY TopFacts
<1>2. Top.ctx \in 0 .. CounterMax
  BY <1>1 DEF Frames
<1>3. Top.ctx - 1 = 0
  BY ChildFacts
<1>4. QED BY <1>2, <1>3

(* The limit fails only with no budget left, or with one level where a     *)
(* singular group needs two.                                               *)
LEMMA LimitFailure ==
  ASSUME IInv, Next, result' = "recursion limit reached"
  PROVE  2 * Len(stack) >= RecursionLimit
<1>1. ASSUME stack # << >>, Top.ctx = 0 \/ Top.ctx = 1
      PROVE  2 * Len(stack) >= RecursionLimit
  <2>1. Len(stack) \in Nat /\ 2 * Len(stack) + Top.ctx >= RecursionLimit + 1
    BY <1>1, TopFacts
  <2>2. QED BY <1>1, <2>1, DepthAtFailure
<1>2. ASSUME LimitReached, stack # << >>
      PROVE  2 * Len(stack) >= RecursionLimit
  BY <1>1, <1>2 DEF LimitReached
<1>3. ASSUME NEW kinds, Handles(kinds)
      PROVE  stack # << >> /\ result = "running"
  BY <1>3, HandlesFacts DEF IInv, ControlAgrees
<1>4. ASSUME NEW error, Fail(error), error # "recursion limit reached"
      PROVE  FALSE
  BY <1>4 DEF Fail
<1>5. ASSUME ReadVarint \/ ReadDelimited, result = "running"
      PROVE  FALSE
  BY <1>5 DEF ReadVarint, ReadDelimited, LengthUnderflows, Advance, Fail
<1>6. ASSUME NEW kind, NEW ctx, OpenDelimited(kind, ctx)
      PROVE  FALSE
  BY <1>6 DEF OpenDelimited, LengthUnderflows, Push, Fail
<1>7. ASSUME NEW expected, WrongWireType(expected)
      PROVE  FALSE
  BY <1>7 DEF WrongWireType, Fail
<1>8. ASSUME Merge \/ MergeLengthDelimited
      PROVE  FALSE
  BY <1>6, <1>8 DEF Merge, MergeLengthDelimited, Push
<1>9. ASSUME LoopEnds \/ DecodeKey \/ PackedElement \/ EndGroup
      PROVE  FALSE
  <2>1. stack # << >> /\ result = "running"
    BY <1>9 DEF LoopEnds, DecodeKey, PackedElement, EndGroup, IInv, ControlAgrees
  <2>2. QED BY <1>5, <1>9, <2>1 DEF LoopEnds, DecodeKey, PackedElement, EndGroup, Pop, Fail
<1>10. CASE MergeVarint \/ MergeFixed32 \/ MergeString \/ MergePacked
  BY <1>3, <1>4, <1>5, <1>6, <1>7, <1>10 DEF MergeVarint, MergeFixed32, MergeString, MergePacked, Advance
<1>11. CASE MergeMessage \/ MergeMap \/ MergeMessageMap \/ MergeEntryValue
  BY <1>2, <1>3, <1>6, <1>7, <1>11 DEF MergeMessage, MergeMap, MergeMessageMap, MergeEntryValue
<1>12. CASE MergeGroup
  <2>1. CASE Top.ctx # 0 /\ Child = 0
    <3>1. stack # << >>
      BY <1>3, <1>12 DEF MergeGroup
    <3>2. QED BY <1>1, <2>1, <3>1, OneLevelLeft
  <2>2. QED BY <1>2, <1>3, <1>7, <1>12, <2>1 DEF MergeGroup, Push
<1>13. CASE MergeRepeatedGroup
  BY <1>2, <1>3, <1>7, <1>13 DEF MergeRepeatedGroup, Push
<1>14. CASE SkipLeaf
  BY <1>2, <1>3, <1>4, <1>5, <1>14 DEF SkipLeaf, Advance
<1>15. CASE SkipGroup
  BY <1>15 DEF SkipGroup, Push
<1>16. QED BY <1>8, <1>9, <1>10, <1>11, <1>12, <1>13, <1>14, <1>15 DEF Next

(* No decode is refused for its depth with fewer than RECURSION_LIMIT / 2  *)
(* loops open, in any schema.                                              *)
THEOREM LimitNotEarly == Spec => NoEarlyLimit
<1>1. IInv /\ [Next]_vars => [result' = "recursion limit reached" => 2 * Len(stack) >= RecursionLimit]_vars
  BY LimitFailure
<1>2. QED BY <1>1, Invariance, PTL DEF Spec, NoEarlyLimit

-----------------------------------------------------------------------------
(* WireDecode implements WellNested.  The steps of the decoder have four   *)
(* shapes (an error, a read, a loop entered, a loop left).  While no frame *)
(* has strayed past a frame around it each shape is a step of WellNested,  *)
(* or its Reject when it makes a frame stray; from then on no step brings  *)
(* the frame back and none returns Ok, so the rest of the decode is a      *)
(* stutter.                                                                *)

(* The shapes of a step. *)
FailStep == \E error \in Errors : Fail(error)

ReadStep ==
  /\ stack # << >>
  /\ pos' \in pos + 1 .. BufLen
  /\ UNCHANGED <<stack, result>>

EnterStep ==
  \E kind \in FrameKinds, end \in 0 .. BufLen : \E ctx, tag :
    /\ Push(kind, ctx, end, tag)
    /\ pos' \in pos .. end

LeaveStep ==
  /\ stack # << >>
  /\ Delimited(Top) => pos = Top.end
  /\ Pop

-----------------------------------------------------------------------------
(* The ends around a frame *)

(* Every non-empty set of natural numbers has a least element.             *)
LEMMA LeastElement ==
  ASSUME NEW S \in SUBSET Nat, S # {}
  PROVE  \E x \in S : \A y \in S : x <= y
<1> DEFINE R == OpToRel(<, Nat)
<1>1. IsWellFoundedOn(R, Nat)
  BY NatLessThanWellFounded
<1>2. \A x, y \in Nat : <<y, x>> \in R <=> y < x
  BY DEF OpToRel
<1> HIDE DEF R
<1>3. PICK x \in S : \A y \in S : ~ (<<y, x>> \in R)
  BY <1>1, WFMin, Zenon
<1>4. ASSUME NEW y \in S
      PROVE  x <= y
  <2>1. x \in Nat /\ y \in Nat
    OBVIOUS
  <2>2. ~ (y < x)
    BY <1>2, <1>3, <2>1, Zenon
  <2>3. QED BY <2>1, <2>2
<1>5. QED BY <1>4

(* Min is what its name says, on sets of natural numbers.                  *)
LEMMA MinFacts ==
  ASSUME NEW S \in SUBSET Nat, S # {}
  PROVE  /\ Min(S) \in S
         /\ \A y \in S : Min(S) <= y
<1>1. \E x \in S : \A y \in S : x <= y
  BY LeastElement
<1>2. QED BY <1>1, Zenon DEF Min

(* The end around a frame is at most the end of each frame around it, and  *)
(* one of them unless it is the end of the buffer.                         *)
LEMMA EnclosingEndFacts ==
  ASSUME IInv, NEW i \in 0 .. Len(stack)
  PROVE  /\ EnclosingEnd(i) \in 0 .. BufLen
         /\ \A j \in 1 .. i : Delimited(stack[j]) => EnclosingEnd(i) <= stack[j].end
         /\ \/ EnclosingEnd(i) = BufLen
            \/ \E j \in 1 .. i : Delimited(stack[j]) /\ EnclosingEnd(i) = stack[j].end
<1> DEFINE S == {BufLen} \union {stack[j].end : j \in {j \in 1 .. i : Delimited(stack[j])}}
<1>1. \A j \in 1 .. i : stack[j].end \in 0 .. BufLen
  <2>1. Len(stack) \in Nat /\ \A j \in 1 .. Len(stack) : stack[j] \in Frames
    BY DEF IInv, TypeOK
  <2>2. \A j \in 1 .. i : j \in 1 .. Len(stack)
    BY <2>1
  <2>3. QED BY <2>1, <2>2 DEF Frames
<1>2. S \in SUBSET (0 .. BufLen) /\ S \in SUBSET Nat /\ S # {}
  BY <1>1
<1>3. EnclosingEnd(i) = Min(S)
  BY DEF EnclosingEnd
<1>4. \A x \in S : x = BufLen \/ \E j \in 1 .. i : Delimited(stack[j]) /\ x = stack[j].end
  OBVIOUS
<1>5. \A j \in 1 .. i : Delimited(stack[j]) => stack[j].end \in S
  OBVIOUS
<1> HIDE DEF S
<1>6. Min(S) \in S /\ \A y \in S : Min(S) <= y
  BY <1>2, MinFacts
<1>7. QED BY <1>1, <1>2, <1>3, <1>4, <1>5, <1>6

(* The end around a frame depends on the frames up to it alone.            *)
LEMMA EnclosingEndKept ==
  ASSUME NEW i \in Nat, \A j \in 1 .. i : stack'[j] = stack[j]
  PROVE  EnclosingEnd(i)' = EnclosingEnd(i)
<1>1. {j \in 1 .. i : Delimited(stack[j])}' = {j \in 1 .. i : Delimited(stack[j])}
  BY DEF Delimited
<1>2. {stack[j].end : j \in {j \in 1 .. i : Delimited(stack[j])}}'
        = {stack[j].end : j \in {j \in 1 .. i : Delimited(stack[j])}}
  BY <1>1
<1>3. QED BY <1>2 DEF EnclosingEnd

(* A frame may end no later than the frame around it.                      *)
LEMMA EnclosingEndShrinks ==
  ASSUME IInv, NEW i \in 1 .. Len(stack)
  PROVE  EnclosingEnd(i) <= EnclosingEnd(i - 1)
<1>1. Len(stack) \in Nat
  BY DEF IInv, TypeOK
<1>2. i \in 0 .. Len(stack) /\ i - 1 \in 0 .. Len(stack) /\ \A j \in 1 .. i - 1 : j \in 1 .. i
  BY <1>1
<1>3. /\ EnclosingEnd(i) \in 0 .. BufLen
      /\ \A j \in 1 .. i : Delimited(stack[j]) => EnclosingEnd(i) <= stack[j].end
  BY <1>2, EnclosingEndFacts
<1>4. \/ EnclosingEnd(i - 1) = BufLen
      \/ \E j \in 1 .. i - 1 : Delimited(stack[j]) /\ EnclosingEnd(i - 1) = stack[j].end
  BY <1>2, EnclosingEndFacts
<1>5. QED BY <1>2, <1>3, <1>4

-----------------------------------------------------------------------------
(* What a decode that has not been rejected looks like to WellNested *)

(* The position is inside every frame, a frame with a length ends at its   *)
(* own end, and the mapping shows one element per frame.                   *)
Inside ==
  /\ \A i \in 1 .. Len(stack) :
       /\ EnclosingEnd(i) \in 0 .. BufLen
       /\ pos <= EnclosingEnd(i)
       /\ Delimited(stack[i]) => EnclosingEnd(i) = stack[i].end
       /\ i > 1 => EnclosingEnd(i) <= EnclosingEnd(i - 1)
  /\ Opened = [i \in 1 .. Len(stack) |-> [end |-> EnclosingEnd(i), exact |-> Delimited(stack[i])]]
  /\ Opened \in Seq(Abstract!Elements)
  /\ Len(Opened) = Len(stack)
  /\ Cursor = pos

(* So it is while nothing has strayed.                                     *)
LEMMA InsideFacts == IInv /\ ~ Rejected => Inside
<1> SUFFICES ASSUME IInv, ~ Rejected
             PROVE  Inside
  OBVIOUS
<1>1. Len(stack) \in Nat /\ pos \in 0 .. BufLen /\ \A i \in 1 .. Len(stack) : stack[i] \in Frames
  BY DEF IInv, TypeOK
<1>2. ASSUME NEW i \in 1 .. Len(stack)
      PROVE  /\ EnclosingEnd(i) \in 0 .. BufLen
             /\ pos <= EnclosingEnd(i)
             /\ Delimited(stack[i]) => EnclosingEnd(i) = stack[i].end
             /\ i > 1 => EnclosingEnd(i) <= EnclosingEnd(i - 1)
  <2>1. i \in 0 .. Len(stack) /\ i \in 1 .. i /\ \A j \in 1 .. i : j \in 1 .. Len(stack)
    BY <1>1
  <2>2. /\ EnclosingEnd(i) \in 0 .. BufLen
        /\ \A j \in 1 .. i : Delimited(stack[j]) => EnclosingEnd(i) <= stack[j].end
        /\ \/ EnclosingEnd(i) = BufLen
           \/ \E j \in 1 .. i : Delimited(stack[j]) /\ EnclosingEnd(i) = stack[j].end
    BY <2>1, EnclosingEndFacts
  <2>3. \A j \in 1 .. i : stack[j].end \in 0 .. BufLen
    BY <1>1, <2>1 DEF Frames
  <2>4. \A j \in 1 .. i : Delimited(stack[j]) => pos <= stack[j].end
    BY <1>1, <2>1, <2>3 DEF Rejected, Strayed
  <2>5. pos <= EnclosingEnd(i)
    BY <1>1, <2>2, <2>4
  <2>6. ASSUME Delimited(stack[i]), NEW j \in 1 .. i, Delimited(stack[j])
        PROVE  stack[i].end <= stack[j].end
    <3>1. CASE j = i
      BY <2>1, <2>3, <3>1
    <3>2. CASE j # i
      <4>1. i \in j + 1 .. Len(stack) /\ j \in 1 .. Len(stack)
        BY <1>1, <2>1, <3>2
      <4>2. ~ (stack[i].end > stack[j].end)
        BY <2>6, <4>1 DEF Rejected, Strayed
      <4>3. QED BY <2>1, <2>3, <4>2
    <3>3. QED BY <3>1, <3>2
  <2>7. Delimited(stack[i]) => EnclosingEnd(i) = stack[i].end
    BY <2>1, <2>2, <2>3, <2>6
  <2>8. QED BY <2>2, <2>5, <2>7, EnclosingEndShrinks
<1>3. Opened = [i \in 1 .. Len(stack) |-> [end |-> EnclosingEnd(i), exact |-> Delimited(stack[i])]]
  BY DEF Opened
<1>4. \A i \in 1 .. Len(stack) : [end |-> EnclosingEnd(i), exact |-> Delimited(stack[i])] \in Abstract!Elements
  BY <1>2 DEF Abstract!Elements, Delimited
<1>5. Opened \in [1 .. Len(stack) -> Abstract!Elements]
  BY <1>3, <1>4
<1>6. Opened \in Seq(Abstract!Elements) /\ Len(Opened) = Len(stack)
  BY <1>1, <1>5, SeqDef
<1>7. QED BY <1>2, <1>3, <1>6 DEF Inside, Cursor

(* The same of the next state.                                             *)
LEMMA InsideNext == (IInv /\ ~ Rejected => Inside)'
  BY InsideFacts, PTL

-----------------------------------------------------------------------------
(* The steps of the decoder *)

(* A varint, or a length with its bytes, is a read.                        *)
LEMMA ReadShape ==
  ASSUME IInv, stack # << >>, ReadVarint \/ ReadDelimited
  PROVE  FailStep \/ ReadStep
<1>1. \A w \in VarintWidths, len \in 0 .. BufLen : w \in Nat \ {0} /\ w + len \in Nat \ {0}
  OBVIOUS
<1>2. ASSUME NEW n \in Nat \ {0}, Advance(n)
      PROVE  ReadStep
  BY <1>2 DEF Advance, ReadStep, IInv, TypeOK
<1>3. ASSUME NEW error \in {"invalid varint", "buffer underflow"}, Fail(error)
      PROVE  FailStep
  BY <1>3 DEF FailStep, Errors
<1>4. CASE ReadVarint
  <2>1. CASE \E w \in VarintWidths : Advance(w)
    <3>1. PICK w \in VarintWidths : Advance(w)
      BY <2>1
    <3>2. QED BY <1>1, <1>2, <3>1
  <2>2. QED BY <1>3, <1>4, <2>1 DEF ReadVarint
<1>5. CASE ReadDelimited
  <2>1. CASE \E w \in VarintWidths, len \in 0 .. BufLen : Advance(w + len)
    <3>1. PICK w \in VarintWidths, len \in 0 .. BufLen : Advance(w + len)
      BY <2>1
    <3>2. QED BY <1>1, <1>2, <3>1
  <2>2. CASE Fail("invalid varint") \/ Fail("buffer underflow")
    BY <1>3, <2>2
  <2>3. QED BY <1>5, <2>1, <2>2 DEF ReadDelimited, LengthUnderflows
<1>6. QED BY <1>4, <1>5

(* The head of merge_loop enters a loop whose end is in the buffer.        *)
LEMMA OpenShape ==
  ASSUME IInv, NEW kind \in FrameKinds, NEW ctx, OpenDelimited(kind, ctx)
  PROVE  FailStep \/ EnterStep
<1>1. CASE \E w \in VarintWidths, len \in 0 .. BufLen :
             /\ pos + w + len <= BufLen
             /\ pos' = pos + w
             /\ Push(kind, ctx, pos + w + len, 0)
  <2>1. PICK w \in VarintWidths, len \in 0 .. BufLen :
             /\ pos + w + len <= BufLen
             /\ pos' = pos + w
             /\ Push(kind, ctx, pos + w + len, 0)
    BY <1>1
  <2>2. pos + w + len \in 0 .. BufLen /\ pos' \in pos .. pos + w + len
    BY <2>1 DEF IInv, TypeOK
  <2>3. QED BY <2>1, <2>2 DEF EnterStep
<1>2. CASE Fail("invalid varint") \/ LengthUnderflows
  BY <1>2 DEF LengthUnderflows, FailStep, Errors
<1>3. QED BY <1>1, <1>2 DEF OpenDelimited

(* Entering the loop of a group reads nothing; it may run to the end of    *)
(* the buffer.                                                             *)
LEMMA PushShape ==
  ASSUME IInv, NEW kind \in FrameKinds, NEW ctx, NEW tag,
         Push(kind, ctx, BufLen, tag), UNCHANGED pos
  PROVE  EnterStep
<1>1. BufLen \in 0 .. BufLen /\ pos' \in pos .. BufLen
  BY DEF IInv, TypeOK
<1>2. QED BY <1>1 DEF EnterStep

(* Every action of the decoder has one of the four shapes.                 *)
LEMMA StepShapes ==
  ASSUME IInv, Next
  PROVE  /\ result \in {"start", "running"}
         /\ FailStep \/ ReadStep \/ EnterStep \/ LeaveStep
<1>f. ASSUME NEW error \in {"invalid varint", "invalid key", "invalid wire type",
                            "recursion limit reached", "buffer underflow",
                            "delimited length exceeded", "unexpected end group tag",
                            "invalid string value"}, Fail(error)
      PROVE  FailStep
  BY <1>f DEF FailStep, Errors
<1>w. ASSUME NEW expected, WrongWireType(expected) \/ LimitReached
      PROVE  FailStep
  BY <1>w, <1>f DEF WrongWireType, LimitReached
<1>k. FrameKinds = {"message", "map", "message_map", "packed", "group", "skip"}
  BY DEF FrameKinds
<1>h. ASSUME NEW kinds, Handles(kinds)
      PROVE  stack # << >> /\ result = "running"
  BY <1>h, HandlesFacts DEF IInv, ControlAgrees
<1>p. pos \in 0 .. BufLen
  BY DEF IInv, TypeOK
<1>a. ASSUME stack # << >>, Advance(4) \/ Advance(8)
      PROVE  ReadStep
  BY <1>a, <1>p DEF Advance, ReadStep
<1>1. CASE Merge
  BY <1>1, <1>k, PushShape DEF Merge
<1>2. CASE MergeLengthDelimited
  BY <1>2, <1>k, OpenShape DEF MergeLengthDelimited
<1>3. CASE LoopEnds
  BY <1>3, <1>f DEF LoopEnds, LeaveStep, IInv, ControlAgrees
<1>4. CASE DecodeKey
  <2>1. stack # << >> /\ result = "running"
    BY <1>4 DEF DecodeKey, IInv, ControlAgrees
  <2>2. ASSUME NEW w \in VarintWidths, NEW k \in Keys,
               pos + w <= BufLen, pos' = pos + w, UNCHANGED <<stack, result>>
        PROVE  ReadStep
    BY <1>p, <2>1, <2>2 DEF ReadStep
  <2>3. QED BY <1>4, <1>f, <2>1, <2>2 DEF DecodeKey
<1>5. CASE PackedElement
  BY <1>5, ReadShape DEF PackedElement, IInv, ControlAgrees
<1>6. CASE EndGroup
  BY <1>6, <1>f DEF EndGroup, LeaveStep, IInv, ControlAgrees
<1>7. CASE MergeVarint
  BY <1>7, <1>w, <1>h, ReadShape DEF MergeVarint
<1>8. CASE MergeFixed32
  BY <1>8, <1>w, <1>h, <1>f, <1>a DEF MergeFixed32
<1>9. CASE MergeString
  BY <1>9, <1>w, <1>h, <1>f, ReadShape DEF MergeString
<1>10. CASE MergePacked
  BY <1>10, <1>w, <1>h, <1>k, ReadShape, OpenShape DEF MergePacked
<1>11. CASE MergeMessage
  BY <1>11, <1>w, <1>h, <1>k, OpenShape DEF MergeMessage
<1>12. CASE MergeGroup
  BY <1>12, <1>w, <1>h, <1>f, <1>k, PushShape DEF MergeGroup
<1>13. CASE MergeRepeatedGroup
  BY <1>13, <1>w, <1>h, <1>k, PushShape DEF MergeRepeatedGroup
<1>14. CASE MergeMap
  BY <1>14, <1>w, <1>h, <1>k, OpenShape DEF MergeMap
<1>15. CASE MergeMessageMap
  BY <1>15, <1>w, <1>h, <1>k, OpenShape DEF MergeMessageMap
<1>16. CASE MergeEntryValue
  BY <1>16, <1>w, <1>h, <1>k, OpenShape DEF MergeEntryValue
<1>17. CASE SkipLeaf
  BY <1>17, <1>w, <1>h, <1>f, <1>a, ReadShape DEF SkipLeaf
<1>18. CASE SkipGroup
  BY <1>18, <1>h, <1>k, PushShape DEF SkipGroup
<1>19. QED
  BY <1>1, <1>2, <1>3, <1>4, <1>5, <1>6, <1>7, <1>8, <1>9, <1>10, <1>11, <1>12, <1>13,
     <1>14, <1>15, <1>16, <1>17, <1>18 DEF Next

-----------------------------------------------------------------------------
(* The refinement *)

(* A decode that is rejected only now is rejected by WellNested.           *)
LEMMA RejectSimulated ==
  ASSUME ~ Rejected, result \in {"start", "running"}, Rejected'
  PROVE  Abstract!Reject
<1>1. Verdict = "undecided"
  BY DEF Verdict
<1>2. Verdict' = "rejected" /\ Opened' = << >> /\ Cursor' = 0
  BY DEF Verdict, Opened, Cursor
<1>3. QED BY <1>1, <1>2 DEF Abstract!Reject

(* A read inside every frame is a Read.                                    *)
LEMMA ReadSimulated ==
  ASSUME IInv, IInv', ~ Rejected, ~ Rejected', result \in {"start", "running"}, ReadStep
  PROVE  Abstract!Read
<1>1. Inside /\ Inside'
  BY InsideFacts, InsideNext
<1>2. /\ Len(stack) \in Nat \ {0} /\ Len(stack) \in 1 .. Len(stack)
      /\ stack' = stack /\ result' = result /\ pos' \in pos + 1 .. BufLen
  BY DEF ReadStep, IInv, TypeOK
<1>3. \A i \in 1 .. Len(stack) : EnclosingEnd(i)' = EnclosingEnd(i)
  BY <1>2, EnclosingEndKept
<1>4. Verdict = "undecided" /\ Verdict' = Verdict
  BY <1>2 DEF Verdict
<1>5. Opened' = Opened
  BY <1>1, <1>2, <1>3 DEF Inside, Delimited
<1>6. Opened # << >> /\ Abstract!Bound = EnclosingEnd(Len(stack))
  BY <1>1, <1>2 DEF Inside, Abstract!Bound
<1>7. Cursor' \in Cursor + 1 .. Abstract!Bound
  BY <1>1, <1>2, <1>3, <1>6 DEF Inside, IInv, TypeOK
<1>8. QED BY <1>4, <1>5, <1>6, <1>7 DEF Abstract!Read

(* Entering a loop whose end is inside every frame is an Open.             *)
LEMMA EnterSimulated ==
  ASSUME IInv, IInv', ~ Rejected, ~ Rejected', result \in {"start", "running"}, EnterStep
  PROVE  Abstract!Open
<1> PICK n \in Nat : n = Len(stack)
  BY DEF IInv, TypeOK
<1> DEFINE e == [end |-> EnclosingEnd(n + 1)', exact |-> Delimited(stack[n + 1])']
<1>1. Inside /\ Inside'
  BY InsideFacts, InsideNext
<1>2. /\ n \in Nat /\ Len(stack') = n + 1 /\ pos \in Nat /\ pos' \in Nat /\ pos <= pos'
      /\ \A i \in 1 .. n : stack'[i] = stack[i]
      /\ result' = "running"
  BY DEF EnterStep, Push, IInv, TypeOK
<1>3. \A i \in 0 .. n : EnclosingEnd(i)' = EnclosingEnd(i)
  BY <1>2, EnclosingEndKept
<1>4. Verdict = "undecided" /\ Verdict' = Verdict
  BY <1>2 DEF Verdict
<1>5. n + 1 \in 1 .. Len(stack') /\ n + 1 - 1 = n /\ Len(Opened) = n /\ Opened \in Seq(Abstract!Elements)
  BY <1>1, <1>2 DEF Inside
<1>6. /\ EnclosingEnd(n + 1)' \in 0 .. BufLen
      /\ pos' <= EnclosingEnd(n + 1)'
      /\ n + 1 > 1 => EnclosingEnd(n + 1)' <= EnclosingEnd(n)'
  BY <1>1, <1>5 DEF Inside
<1>7. e \in Abstract!Elements
  <2>1. Delimited(stack[n + 1])' \in BOOLEAN
    BY DEF Delimited
  <2>2. QED BY <1>6, <2>1 DEF Abstract!Elements
<1>8. e.end <= Abstract!Bound
  <2>1. CASE n = 0
    <3>1. Opened = << >>
      BY <1>5, <2>1
    <3>2. QED BY <1>6, <3>1 DEF Abstract!Bound
  <2>2. CASE n # 0
    <3>1. Opened # << >> /\ n \in 1 .. n /\ n + 1 > 1
      BY <1>2, <1>5, <2>2
    <3>2. Opened[n].end = EnclosingEnd(n)
      BY <1>1, <3>1 DEF Inside
    <3>3. Abstract!Bound = EnclosingEnd(n)
      BY <1>5, <3>1, <3>2 DEF Abstract!Bound
    <3>4. EnclosingEnd(n)' = EnclosingEnd(n)
      BY <1>2, <1>3
    <3>5. QED BY <1>6, <3>1, <3>3, <3>4
  <2>3. QED BY <2>1, <2>2
<1>9. Cursor' \in Cursor .. e.end
  BY <1>1, <1>2, <1>6 DEF Inside
<1>10. Opened' = Append(Opened, e)
  <2>1. Opened' = [i \in 1 .. n + 1 |-> [end |-> EnclosingEnd(i)', exact |-> Delimited(stack[i])']]
    BY <1>1, <1>2 DEF Inside
  <2>2. Append(Opened, e) = [i \in 1 .. n + 1 |-> IF i = n + 1 THEN e ELSE Opened[i]]
    BY <1>5
  <2>3. ASSUME NEW i \in 1 .. n
        PROVE  Opened[i] = [end |-> EnclosingEnd(i)', exact |-> Delimited(stack[i])']
    <3>1. Opened[i] = [end |-> EnclosingEnd(i), exact |-> Delimited(stack[i])]
      BY <1>1 DEF Inside
    <3>2. QED BY <1>2, <1>3, <3>1 DEF Delimited
  <2>4. \A i \in 1 .. n + 1 : i = n + 1 \/ i \in 1 .. n
    BY <1>2
  <2>5. ASSUME NEW i \in 1 .. n + 1
        PROVE  [end |-> EnclosingEnd(i)', exact |-> Delimited(stack[i])']
                 = IF i = n + 1 THEN e ELSE Opened[i]
    BY <2>3, <2>4
  <2> HIDE DEF e
  <2>6. QED BY <2>1, <2>2, <2>5
<1>11. QED BY <1>4, <1>7, <1>8, <1>9, <1>10 DEF Abstract!Open

(* Leaving a loop is a Close: one with a length is left at its end.        *)
LEMMA LeaveSimulated ==
  ASSUME IInv, IInv', ~ Rejected, ~ Rejected', result \in {"start", "running"}, LeaveStep
  PROVE  Abstract!Close
<1> PICK n \in Nat : n = Len(stack)
  BY DEF IInv, TypeOK
<1>1. Inside /\ Inside'
  BY InsideFacts, InsideNext
<1>2. n \in Nat \ {0} /\ n \in 1 .. n /\ stack \in Seq(Frames)
  BY DEF LeaveStep, IInv, TypeOK
<1>3. /\ pos' = pos /\ Len(stack') = n - 1
      /\ \A i \in 1 .. n - 1 : stack'[i] = stack[i]
      /\ result' = IF n = 1 THEN "ok" ELSE "running"
  BY PopFacts DEF LeaveStep, Pop
<1>4. \A i \in 1 .. n - 1 : EnclosingEnd(i)' = EnclosingEnd(i)
  BY <1>2, <1>3, EnclosingEndKept
<1>5. Verdict = "undecided" /\ Verdict' = IF n = 1 THEN "accepted" ELSE "undecided"
  BY <1>3 DEF Verdict
<1>6. Len(Opened) = n /\ Opened \in Seq(Abstract!Elements) /\ Opened # << >>
  BY <1>1, <1>2 DEF Inside
<1>7. Opened[n] = [end |-> EnclosingEnd(n), exact |-> Delimited(Top)] /\ Top = stack[n]
  BY <1>1, <1>2 DEF Inside, Top
<1>8. Abstract!Bound = EnclosingEnd(n)
  BY <1>6, <1>7 DEF Abstract!Bound
<1>9. Opened[Len(Opened)].exact => Cursor = Abstract!Bound
  BY <1>1, <1>2, <1>6, <1>7, <1>8 DEF Inside, LeaveStep
<1>10. Opened' = SubSeq(Opened, 1, Len(Opened) - 1)
  <2>1. Opened' = [i \in 1 .. n - 1 |-> [end |-> EnclosingEnd(i)', exact |-> Delimited(stack[i])']]
    BY <1>1, <1>3 DEF Inside
  <2>2. SubSeq(Opened, 1, n - 1) = [i \in 1 .. n - 1 |-> Opened[i]]
    BY <1>2, <1>6
  <2>3. ASSUME NEW i \in 1 .. n - 1
        PROVE  Opened[i] = [end |-> EnclosingEnd(i)', exact |-> Delimited(stack[i])']
    <3>1. i \in 1 .. n
      BY <1>2
    <3>2. Opened[i] = [end |-> EnclosingEnd(i), exact |-> Delimited(stack[i])]
      BY <1>1, <3>1 DEF Inside
    <3>3. QED BY <1>3, <1>4, <3>2 DEF Delimited
  <2>4. QED BY <1>6, <2>1, <2>2, <2>3
<1>11. Cursor' = Cursor
  BY <1>1, <1>3 DEF Inside
<1>12. QED BY <1>5, <1>6, <1>9, <1>10, <1>11 DEF Abstract!Close

(* A step that keeps the frames and does not move back keeps what strayed. *)
LEMMA StrayedKept ==
  ASSUME Strayed, Len(stack) \in Nat, Len(stack') \in Nat, Len(stack') >= Len(stack),
         \A i \in 1 .. Len(stack) : stack'[i] = stack[i] /\ stack[i] \in Frames,
         pos \in Nat, pos' \in Nat, pos' >= pos
  PROVE  Strayed'
<1>1. PICK i \in 1 .. Len(stack) :
        /\ Delimited(stack[i])
        /\ \/ pos > stack[i].end
           \/ \E j \in i + 1 .. Len(stack) : Delimited(stack[j]) /\ stack[j].end > stack[i].end
  BY DEF Strayed
<1>2. i \in 1 .. Len(stack') /\ Delimited(stack[i])' /\ stack'[i].end = stack[i].end /\ stack[i].end \in Nat
  BY <1>1 DEF Delimited, Frames
<1>3. CASE pos > stack[i].end
  BY <1>2, <1>3 DEF Strayed
<1>4. CASE \E j \in i + 1 .. Len(stack) : Delimited(stack[j]) /\ stack[j].end > stack[i].end
  <2>1. PICK j \in i + 1 .. Len(stack) : Delimited(stack[j]) /\ stack[j].end > stack[i].end
    BY <1>4
  <2>2. j \in 1 .. Len(stack) /\ j \in i + 1 .. Len(stack')
    OBVIOUS
  <2>3. Delimited(stack[j])' /\ stack'[j].end = stack[j].end
    BY <2>1, <2>2 DEF Delimited
  <2>4. QED BY <1>2, <2>1, <2>2, <2>3 DEF Strayed
<1>5. QED BY <1>1, <1>3, <1>4

(* Leaving a loop in its turn keeps it too: a frame whose child reached    *)
(* past it has itself been read over when the child is left at its end.    *)
LEMMA StrayedKeptOnLeave ==
  ASSUME IInv, Strayed, LeaveStep
  PROVE  Strayed'
<1> PICK n \in Nat : n = Len(stack)
  BY DEF IInv, TypeOK
<1>1. PICK i \in 1 .. n :
        /\ Delimited(stack[i])
        /\ \/ pos > stack[i].end
           \/ \E j \in i + 1 .. n : Delimited(stack[j]) /\ stack[j].end > stack[i].end
  BY DEF Strayed
<1>2. /\ pos \in Nat /\ pos' = pos /\ Len(stack') = n - 1 /\ Top = stack[n]
      /\ \A j \in 1 .. n - 1 : stack'[j] = stack[j]
      /\ \A j \in 1 .. n : stack[j].end \in Nat
  <2>1. pos \in Nat /\ \A j \in 1 .. n : stack[j].end \in Nat
    <3>1. pos \in Nat /\ \A j \in 1 .. n : stack[j] \in Frames
      BY DEF IInv, TypeOK
    <3>2. QED BY <3>1 DEF Frames
  <2>2. pos' = pos /\ Top = stack[n]
    BY DEF LeaveStep, Pop, Top
  <2>3. Len(stack') = n - 1 /\ \A j \in 1 .. n - 1 : stack'[j] = stack[j]
    BY PopFacts DEF LeaveStep
  <2>4. QED BY <2>1, <2>2, <2>3
<1>3. Delimited(stack[n]) => pos = stack[n].end
  BY <1>2 DEF LeaveStep
<1>4. i \in 1 .. n - 1
  BY <1>1, <1>2, <1>3
<1>5. Delimited(stack[i])' /\ stack'[i].end = stack[i].end
  BY <1>1, <1>2, <1>4 DEF Delimited
<1>6. CASE pos > stack[i].end
  BY <1>2, <1>4, <1>5, <1>6 DEF Strayed
<1>7. ASSUME NEW j \in i + 1 .. n, Delimited(stack[j]), stack[j].end > stack[i].end
      PROVE  Strayed'
  <2>1. CASE j = n
    BY <1>3, <1>6, <1>7, <2>1
  <2>2. CASE j # n
    <3>1. j \in i + 1 .. n - 1 /\ j \in 1 .. n - 1
      BY <1>4, <2>2
    <3>2. Delimited(stack[j])' /\ stack'[j].end = stack[j].end
      BY <1>2, <1>7, <3>1 DEF Delimited
    <3>3. QED BY <1>2, <1>4, <1>5, <1>7, <3>1, <3>2 DEF Strayed
  <2>3. QED BY <2>1, <2>2
<1>8. QED BY <1>1, <1>6, <1>7

(* What has been rejected stays rejected: the frame around a child that    *)
(* read past its end never returns Ok.                                     *)
LEMMA RejectedForGood ==
  ASSUME IInv, IInv', Rejected, Next
  PROVE  Rejected'
<1>1. result \in {"start", "running"} /\ (FailStep \/ ReadStep \/ EnterStep \/ LeaveStep)
  BY StepShapes
<1>2. Strayed
  BY <1>1 DEF Rejected, Errors
<1>3. /\ Len(stack) \in Nat /\ Len(stack') \in Nat /\ pos \in Nat /\ pos' \in Nat
      /\ \A i \in 1 .. Len(stack) : stack[i] \in Frames
  BY DEF IInv, TypeOK
<1>4. CASE FailStep
  BY <1>4 DEF FailStep, Fail, Rejected
<1>5. CASE ReadStep
  <2>1. stack' = stack /\ pos' >= pos
    BY <1>3, <1>5 DEF ReadStep
  <2>2. QED BY <1>2, <1>3, <2>1, StrayedKept DEF Rejected
<1>6. CASE EnterStep
  <2>1. /\ Len(stack') = Len(stack) + 1 /\ pos' >= pos
        /\ \A i \in 1 .. Len(stack) : stack'[i] = stack[i]
    BY <1>3, <1>6 DEF EnterStep, Push, IInv, TypeOK
  <2>2. QED BY <1>2, <1>3, <2>1, StrayedKept DEF Rejected
<1>7. CASE LeaveStep
  BY <1>2, <1>7, StrayedKeptOnLeave DEF Rejected
<1>8. QED BY <1>1, <1>4, <1>5, <1>6, <1>7

(* The initial state of the decoder is WellNested's.                       *)
LEMMA InitSimulated == Init => Abstract!AbsInit
<1> SUFFICES ASSUME Init
             PROVE  Abstract!AbsInit
  OBVIOUS
<1>1. stack = << >> /\ Len(stack) = 0 /\ pos = 0 /\ result = "start"
  BY DEF Init
<1>2. ~ Rejected
  BY <1>1 DEF Rejected, Strayed, Errors
<1>3. Opened = << >>
  BY <1>1, <1>2 DEF Opened
<1>4. QED BY <1>1, <1>2, <1>3 DEF Abstract!AbsInit, Cursor, Verdict

(* Every step of the decoder is a step of WellNested or changes nothing of *)
(* what WellNested sees.                                                   *)
LEMMA StepSimulated ==
  ASSUME IInv, IInv', [Next]_vars
  PROVE  [Abstract!AbsNext]_(Abstract!avars)
<1>1. CASE UNCHANGED vars
  <2>1. stack' = stack /\ pos' = pos /\ result' = result
    BY <1>1 DEF vars
  <2>2. Rejected' = Rejected
    BY <2>1 DEF Rejected, Strayed, Delimited
  <2>3. \A i \in 1 .. Len(stack) : EnclosingEnd(i)' = EnclosingEnd(i)
    BY <2>1, EnclosingEndKept
  <2>4. Cursor' = Cursor /\ Verdict' = Verdict /\ Opened' = Opened
    BY <2>1, <2>2, <2>3 DEF Cursor, Verdict, Opened, Delimited
  <2>5. QED BY <2>4 DEF Abstract!avars
<1>2. CASE Next /\ Rejected
  <2>1. Rejected'
    BY <1>2, RejectedForGood
  <2>2. Cursor' = Cursor /\ Verdict' = Verdict /\ Opened' = Opened
    BY <1>2, <2>1 DEF Cursor, Verdict, Opened
  <2>3. QED BY <2>2 DEF Abstract!avars
<1>3. CASE Next /\ ~ Rejected
  <2>1. result \in {"start", "running"} /\ (FailStep \/ ReadStep \/ EnterStep \/ LeaveStep)
    BY <1>3, StepShapes
  <2>2. CASE Rejected'
    BY <1>3, <2>1, <2>2, RejectSimulated DEF Abstract!AbsNext
  <2>3. CASE ~ Rejected'
    <3>1. ~ FailStep
      BY <2>3 DEF FailStep, Fail, Rejected
    <3>2. QED
      BY <1>3, <2>1, <2>3, <3>1, ReadSimulated, EnterSimulated, LeaveSimulated DEF Abstract!AbsNext
  <2>4. QED BY <2>2, <2>3
<1>4. QED BY <1>1, <1>2, <1>3

(* The decoder accepts only well-nested inputs, and reads them as          *)
(* WellNested does: a child that crossed the end of the element around it  *)
(* is refused in the end, in every schema and at every nesting, although   *)
(* merge_loop compares the two only when the child has returned.           *)
THEOREM WellNestedImplemented == Spec => ImplementsWellNested
<1>1. Init => Abstract!AbsInit
  BY InitSimulated
<1>2. IInv /\ IInv' /\ [Next]_vars => [Abstract!AbsNext]_(Abstract!avars)
  BY StepSimulated
<1>3. QED BY <1>1, <1>2, Invariance, PTL DEF Spec, ImplementsWellNested, Abstract!AbsSpec

=============================================================================
