---------------------------- MODULE MessageMerge ----------------------------
(***************************************************************************)
(* What #[derive(View)] generates for one message type: the builder with   *)
(* its merge_field, freeze, copy_to_builder, encode_raw and encoded_len.   *)
(* The type has one field of each kind, named for the kind.                *)
(*                                                                         *)
(* The wire is a sequence of tokens, the granularity at which merge_field  *)
(* changes a builder: "set" is a scalar (or a key or value of a map        *)
(* entry), "open" the key and length of something delimited, "group" the   *)
(* key that starts a group, "close" the end of either.  A first input is   *)
(* any sequence of tokens, any of which may be malformed; then the view is *)
(* encoded and that encoding is the second input.                          *)
(***************************************************************************)
EXTENDS Integers, Sequences, ArenaMap

CONSTANTS
  MaxScalar,     (* scalars, map keys and map values are 0 .. MaxScalar     *)
  PlainDefault,  (* the default = ".." of the field plain                   *)
  LenStep,       (* lengths below it take one byte, the others two (128)    *)
  Fields,        (* the fields the type has                                 *)
  Entries,       (* how messages are made: see New                          *)
  Target,        (* "builder", or "view" for the Decode impl of the view of *)
                 (* a message without arena data, which is made by "trait"  *)
  MaxTokens      (* bound on the tokens of the first input                  *)

ASSUME ScalarAssumption  == MaxScalar \in Nat
ASSUME DefaultAssumption == PlainDefault \in 0 .. MaxScalar
ASSUME LenAssumption     == LenStep \in Nat
ASSUME TokensAssumption  == MaxTokens \in Nat

Scalars == 0 .. MaxScalar

NestedFields == {"must", "child", "item", "message", "group"}
AllFields    == NestedFields \union {"plain", "opt", "list", "number", "entry"}
ASSUME FieldsAssumption  == Fields \subseteq AllFields
ASSUME EntriesAssumption == Entries \subseteq {"inherent", "trait"}
ASSUME TargetAssumption  == Target \in {"builder", "view"}

(* A nested message: a scalar with implicit and one with explicit presence. *)
(* Option<T> is a sequence of at most one T.                                *)
NewChild == [plain |-> 0, opt |-> << >>]

(* A oneof holds one variant; the parts of the others are at their zero.   *)
Unset == [variant |-> "unset", number |-> 0, message |-> NewChild]

(* new_in: the method of the builder takes the declared defaults, the one  *)
(* of the Decode trait, of a view and of a builder with arena data, takes  *)
(* the zero of each type.                                                  *)
New(entry) ==
  [plain |-> IF entry = "inherent" THEN PlainDefault ELSE 0,
   opt |-> << >>, list |-> << >>, must |-> NewChild, child |-> << >>, item |-> << >>,
   choice |-> Unset, map |-> << >>]

VARIABLES
  entry,    (* which new_in the caller reaches                             *)
  builder,  (* the builder                                                 *)
  frame,    (* what is open inside it, or NoFrame                          *)
  phase,    (* "first" input, "second" input                               *)
  result,   (* "merging", "failed" (merge returned Err) or "frozen"        *)
  view,     (* what the first input was frozen to                          *)
  input,    (* what is left of the second input                            *)
  tokens,   (* tokens of the first input so far                            *)
  log       (* history: what the builder has been given, see Meaning       *)

vars == <<entry, builder, frame, phase, result, view, input, tokens, log>>

(* built is the nested builder, pair the map entry in progress; trail is   *)
(* history: what has been set in them.                                     *)
NoFrame == [field |-> "none", built |-> NewChild, pair |-> [key |-> 0, value |-> 0],
            trail |-> << >>]

Token(op, field, value) == [op |-> op, field |-> field, value |-> value]

Occurrence(field, value, trail) == [field |-> field, value |-> value, trail |-> trail]

Init ==
  /\ entry \in Entries
  /\ builder = New(entry)
  /\ frame = NoFrame
  /\ phase = "first" /\ result = "merging"
  /\ view = New(entry)
  /\ input = << >>
  /\ tokens = 0
  /\ log = << >>

-----------------------------------------------------------------------------
(* The input: in the first phase any token, in the second the next one.    *)

Take(op, field, value) ==
  /\ result = "merging" /\ field \in Fields \union {"plain", "opt", "key", "value"}
  /\ \/ /\ phase = "first" /\ (op = "close" \/ tokens < MaxTokens)
        /\ tokens' = IF op = "close" THEN tokens ELSE tokens + 1
        /\ UNCHANGED input
     \/ /\ phase = "second" /\ input # << >>
        /\ Head(input).op = op /\ Head(input).field = field
        /\ op = "set" => Head(input).value = value
        /\ input' = Tail(input)
        /\ UNCHANGED tokens
  /\ UNCHANGED <<entry, phase, view>>

Outside == frame.field = "none"
Inside(fields) == frame.field \in fields

(* The same value at the end of the input has been given to the builder. *)
Logged(field, value, trail) == log' = Append(log, Occurrence(field, value, trail))

-----------------------------------------------------------------------------
(* merge_field *)

MergePlain ==
  \E v \in Scalars :
    /\ Outside /\ "plain" \in Fields /\ Take("set", "plain", v)
    /\ builder' = [builder EXCEPT !.plain = v]
    /\ Logged("plain", v, << >>)
    /\ UNCHANGED <<frame, result>>

MergeOptional ==
  \E v \in Scalars :
    /\ Outside /\ "opt" \in Fields /\ Take("set", "opt", v)
    /\ builder' = [builder EXCEPT !.opt = <<v>>]
    /\ Logged("opt", v, << >>)
    /\ UNCHANGED <<frame, result>>

(* merge_repeated on a packed run pushes element by element. *)
MergeElement ==
  \E v \in Scalars :
    /\ Inside({"list"}) /\ Take("set", "list", v)
    /\ builder' = [builder EXCEPT !.list = Append(@, v)]
    /\ Logged("list", v, << >>)
    /\ UNCHANGED <<frame, result>>

(* A scalar variant replaces whatever the oneof held. *)
MergeNumber ==
  \E v \in Scalars :
    /\ Outside /\ Take("set", "number", v)
    /\ builder' = [builder EXCEPT !.choice = [Unset EXCEPT !.variant = "number", !.number = v]]
    /\ Logged("number", v, << >>)
    /\ UNCHANGED <<frame, result>>

(* A repeated message, a map entry and a packed run start from nothing. *)
OpenNew ==
  \E f \in {"item", "entry", "list"} :
    /\ Outside /\ Take("open", f, 0)
    /\ frame' = [NoFrame EXCEPT !.field = f]
    /\ UNCHANGED <<builder, result, log>>

(* Mutant: the nested builder always starts from nothing. *)
OpenChildNew ==
  /\ Outside /\ Take("open", "child", 0)
  /\ frame' = [NoFrame EXCEPT !.field = "child"]
  /\ UNCHANGED <<builder, result, log>>

(* An optional message: the builder takes the value it has out of the      *)
(* field and continues a copy of it; the Decode impl of a view leaves it   *)
(* and starts from nothing.                                                *)
OpenChild ==
  /\ Outside /\ Take("open", "child", 0)
  /\ IF Target = "builder" /\ builder.child # << >>
     THEN /\ frame' = [NoFrame EXCEPT !.field = "child", !.built = Head(builder.child)]
          /\ builder' = [builder EXCEPT !.child = << >>]
     ELSE /\ frame' = [NoFrame EXCEPT !.field = "child"]
          /\ UNCHANGED builder
  /\ UNCHANGED <<result, log>>

(* A required message is continued in a copy and stays where it is. *)
OpenRequired ==
  /\ Outside /\ Take("open", "must", 0)
  /\ frame' = [NoFrame EXCEPT !.field = "must",
                              !.built = IF Target = "builder" THEN builder.must ELSE NewChild]
  /\ UNCHANGED <<builder, result, log>>

(* Mutant: the value of another variant is continued. *)
OpenVariantAny ==
  \E f \in {"message", "group"} :
    /\ Outside /\ Take("open", f, 0)
    /\ frame' = [NoFrame EXCEPT !.field = f, !.built = builder.choice.message]
    /\ UNCHANGED <<builder, result, log>>

(* A message or group variant: a copy of the same variant is continued.    *)
(* Both are expected to be delimited by a length.                          *)
OpenVariant ==
  \E f \in {"message", "group"} :
    /\ Outside /\ Take("open", f, 0)
    /\ frame' = [NoFrame EXCEPT !.field = f,
                                !.built = IF builder.choice.variant = f
                                          THEN builder.choice.message ELSE NewChild]
    /\ UNCHANGED <<builder, result, log>>

MergeNested ==
  \E f \in {"plain", "opt"}, v \in Scalars :
    /\ Inside(NestedFields) /\ Take("set", f, v)
    /\ frame' = [frame EXCEPT !.built = [@ EXCEPT ![f] = IF f = "plain" THEN v ELSE <<v>>],
                              !.trail = Append(@, [field |-> f, value |-> v])]
    /\ UNCHANGED <<builder, result, log>>

MergePair ==
  \E f \in {"key", "value"}, v \in Scalars :
    /\ Inside({"entry"}) /\ Take("set", f, v)
    /\ frame' = [frame EXCEPT !.pair = [@ EXCEPT ![f] = v],
                              !.trail = Append(@, [field |-> f, value |-> v])]
    /\ UNCHANGED <<builder, result, log>>

(* The nested builder is frozen and stored, the entry is pushed. *)
Stored(b, f) ==
  CASE f.field = "must"  -> [b EXCEPT !.must = f.built]
    [] f.field = "child" -> [b EXCEPT !.child = <<f.built>>]
    [] f.field = "item"  -> [b EXCEPT !.item = Append(@, f.built)]
    [] f.field = "entry" -> [b EXCEPT !.map = Append(@, f.pair)]
    [] f.field = "list"  -> b
    [] OTHER             -> [b EXCEPT !.choice = [Unset EXCEPT !.variant = f.field,
                                                               !.message = f.built]]

Close ==
  /\ ~ Outside /\ Take("close", frame.field, 0)
  /\ builder' = Stored(builder, frame)
  /\ frame' = NoFrame
  /\ IF frame.field = "list" THEN UNCHANGED log ELSE Logged(frame.field, 0, frame.trail)
  /\ UNCHANGED result

(* The records of a sequence with one of these values in that part. *)
Where(s, part, values) ==
  LET kept[i \in 0 .. Len(s)] ==
        IF i = 0 THEN << >>
        ELSE IF s[i][part] \in values THEN Append(kept[i - 1], s[i]) ELSE kept[i - 1]
  IN  kept[Len(s)]

(* Forgotten by an error: what was taken out and not put back. *)
Without(field) == Where(log, "field", AllFields \ {field})

(* A malformed token, or a truncated input: merge returns the error and    *)
(* the caller still has the builder.  The nested builder is dropped, with  *)
(* the old value if that was taken out; an absent optional scalar has      *)
(* already been made present by get_or_insert_with.                        *)
Malformed ==
  /\ phase = "first" /\ result = "merging" /\ tokens < MaxTokens
  /\ tokens' = tokens + 1
  /\ result' = "failed"
  /\ frame' = NoFrame
  /\ \/ /\ log' = IF frame.field = "child" /\ Target = "builder" THEN Without("child") ELSE log
        /\ UNCHANGED builder
     \/ /\ Outside /\ "opt" \in Fields /\ builder.opt = << >>
        /\ builder' = [builder EXCEPT !.opt = <<0>>]
        /\ Logged("opt", 0, << >>)
  /\ UNCHANGED <<entry, phase, view, input>>

(* A group key where the arm of a oneof expects a length, for a message    *)
(* variant and for a group variant alike.                                  *)
WrongWireType ==
  /\ Outside /\ \E f \in {"message", "group"} : Take("group", f, 0)
  /\ result' = "failed"
  /\ UNCHANGED <<builder, frame, log>>

(* The caller merges another buffer into the builder after an error. *)
MergeAgain ==
  /\ result = "failed" /\ phase = "first"
  /\ result' = "merging"
  /\ UNCHANGED <<entry, builder, frame, phase, view, input, tokens, log>>

-----------------------------------------------------------------------------
(* freeze, copy_to_builder *)

Frozen(b) == [b EXCEPT !.map = SortedByKey(@)]

(* The end of the buffer; the caller freezes what it decoded. *)
Freeze ==
  /\ Outside /\ result = "merging" /\ input = << >>
  /\ result' = "frozen"
  /\ builder' = Frozen(builder)
  /\ view' = IF phase = "first" THEN builder' ELSE view
  /\ UNCHANGED <<entry, frame, phase, input, tokens, log>>

(* View::copy_to_builder makes a new builder and pushes or copies every    *)
(* field; merging goes on in the copy.                                     *)
CopyToBuilder ==
  /\ Target = "builder" /\ result = "frozen" /\ phase = "first"
  /\ result' = "merging"
  /\ builder' = view
  /\ UNCHANGED <<entry, frame, phase, view, input, tokens, log>>

-----------------------------------------------------------------------------
(* encode_raw *)

OptionSet(field, o) == [i \in DOMAIN o |-> Token("set", field, o[i])]
SetUnless(field, value, default) ==
  IF value = default THEN << >> ELSE <<Token("set", field, value)>>

ScalarLen(v)  == v + 1
KeyLen        == 1
LenLen(n)     == IF n < LenStep THEN 1 ELSE 2
Delimited(n)  == KeyLen + LenLen(n) + n

Total(s) == LET sum[i \in 0 .. Len(s)] == IF i = 0 THEN 0 ELSE sum[i - 1] + s[i]
            IN  sum[Len(s)]
Flat(s)  == LET cat[i \in 0 .. Len(s)] == IF i = 0 THEN << >> ELSE cat[i - 1] \o s[i]
            IN  cat[Len(s)]

EncodeChild(c) == SetUnless("plain", c.plain, 0) \o OptionSet("opt", c.opt)

ChildLen(c) ==
  (IF c.plain # 0 THEN KeyLen + ScalarLen(c.plain) ELSE 0)
  + (IF c.opt # << >> THEN KeyLen + ScalarLen(Head(c.opt)) ELSE 0)

EncodeNested(field, c) ==
  <<Token("open", field, ChildLen(c))>> \o EncodeChild(c) \o <<Token("close", field, 0)>>

EncodePacked(list) ==
  IF list = << >> THEN << >>
  ELSE <<Token("open", "list", Total([i \in DOMAIN list |-> ScalarLen(list[i])]))>>
       \o [i \in DOMAIN list |-> Token("set", "list", list[i])]
       \o <<Token("close", "list", 0)>>

(* Mutant: a zero variant is skipped like a zero field. *)
EncodeChoiceUnlessZero(c) ==
  CASE c.variant = "number" -> SetUnless("number", c.number, 0)
    [] c.variant = "message" -> EncodeNested("message", c.message)
    [] c.variant = "group" -> <<Token("group", "group", 0)>> \o EncodeChild(c.message)
                              \o <<Token("close", "group", 0)>>
    [] OTHER -> << >>

EncodeChoice(c) ==
  CASE c.variant = "number" -> <<Token("set", "number", c.number)>>
    [] c.variant = "message" -> EncodeNested("message", c.message)
    [] c.variant = "group" -> <<Token("group", "group", 0)>> \o EncodeChild(c.message)
                              \o <<Token("close", "group", 0)>>
    [] OTHER -> << >>

PairLen(e) == (IF e.key = 0 THEN 0 ELSE KeyLen + ScalarLen(e.key))
              + (IF e.value = 0 THEN 0 ELSE KeyLen + ScalarLen(e.value))

(* encode_with_defaults leaves out a key or a value that is the default. *)
EncodePair(e) ==
  <<Token("open", "entry", PairLen(e))>> \o SetUnless("key", e.key, 0)
  \o SetUnless("value", e.value, 0) \o <<Token("close", "entry", 0)>>

EncodeRaw(m) ==
  SetUnless("plain", m.plain, PlainDefault)
  \o OptionSet("opt", m.opt)
  \o EncodePacked(m.list)
  \o (IF "must" \in Fields THEN EncodeNested("must", m.must) ELSE << >>)
  \o Flat([i \in DOMAIN m.child |-> EncodeNested("child", m.child[i])])
  \o Flat([i \in DOMAIN m.item |-> EncodeNested("item", m.item[i])])
  \o EncodeChoice(m.choice)
  \o Flat([i \in DOMAIN m.map |-> EncodePair(m.map[i])])

(* Mutant: the length prefix of an entry is taken to be one byte. *)
MapLenShort(map) == Total([i \in DOMAIN map |-> KeyLen + 1 + PairLen(map[i])])

MapLen(map) ==
  KeyLen * Len(map)
  + Total([i \in DOMAIN map |-> LenLen(PairLen(map[i])) + PairLen(map[i])])

ItemsLen(items) ==
  KeyLen * Len(items)
  + Total([i \in DOMAIN items |-> LenLen(ChildLen(items[i])) + ChildLen(items[i])])

ChoiceLen(c) ==
  CASE c.variant = "number" -> KeyLen + ScalarLen(c.number)
    [] c.variant = "message" -> Delimited(ChildLen(c.message))
    [] c.variant = "group" -> 2 * KeyLen + ChildLen(c.message)
    [] OTHER -> 0

EncodedLen(m) ==
  (IF m.plain # PlainDefault THEN KeyLen + ScalarLen(m.plain) ELSE 0)
  + (IF m.opt # << >> THEN KeyLen + ScalarLen(Head(m.opt)) ELSE 0)
  + (IF m.list # << >> THEN Delimited(Total([i \in DOMAIN m.list |-> ScalarLen(m.list[i])])) ELSE 0)
  + (IF "must" \in Fields THEN Delimited(ChildLen(m.must)) ELSE 0)
  + (IF m.child # << >> THEN Delimited(ChildLen(Head(m.child))) ELSE 0)
  + ItemsLen(m.item) + ChoiceLen(m.choice) + MapLen(m.map)

(* The view is encoded, and the encoding decoded into a new builder. *)
Encode ==
  /\ result = "frozen" /\ phase = "first"
  /\ phase' = "second" /\ result' = "merging"
  /\ input' = EncodeRaw(view)
  /\ builder' = New(entry)
  /\ log' = << >>
  /\ UNCHANGED <<entry, frame, view, tokens>>

Next ==
  \/ MergePlain \/ MergeOptional \/ MergeElement \/ MergeNumber
  \/ OpenNew \/ OpenChild \/ OpenRequired \/ OpenVariant \/ MergeNested \/ MergePair \/ Close
  \/ Malformed \/ WrongWireType \/ MergeAgain
  \/ Freeze \/ CopyToBuilder \/ Encode

Spec == Init /\ [][Next]_vars

-----------------------------------------------------------------------------
(* Properties *)

(* What a sequence of occurrences means, by the rules of the format.       *)
Given(fields)          == Where(log, "field", fields)
Of(trail, field)       == Where(trail, "field", {field})
LastOr(s, default)     == IF s = << >> THEN default ELSE s[Len(s)].value
LastIfAny(s)           == IF s = << >> THEN << >> ELSE <<s[Len(s)].value>>
Trails(s)              == Flat([i \in DOMAIN s |-> s[i].trail])
ChildOf(trail)         == [plain |-> LastOr(Of(trail, "plain"), 0), opt |-> LastIfAny(Of(trail, "opt"))]

(* The occurrences of a oneof since it last changed its variant. *)
SinceSwitch(s) ==
  LET switched == {0} \union { i \in DOMAIN s : s[i].field # s[Len(s)].field }
  IN  SubSeq(s, 1 + CHOOSE i \in switched : \A j \in switched : j <= i, Len(s))

ChoiceOf(s) ==
  IF s = << >> THEN Unset
  ELSE [variant |-> s[Len(s)].field, number |-> s[Len(s)].value,
        message |-> ChildOf(Trails(SinceSwitch(s)))]

PairOf(trail) == [key |-> LastOr(Of(trail, "key"), 0), value |-> LastOr(Of(trail, "value"), 0)]

Pairs == LET s == Given({"entry"}) IN [i \in DOMAIN s |-> PairOf(s[i].trail)]

ValuesOf(pairs, key) == Where(pairs, "key", {key})

(* A builder holds what the occurrences it was given mean, whatever their  *)
(* order, however they are split over buffers, errors and copies of frozen *)
(* views: the last scalar, all elements of a repeated field, the merge of  *)
(* all occurrences of a nested message, the last variant of a oneof, and   *)
(* for each key its values in order.  An error in a nested message costs   *)
(* the value of an optional message field, and nothing of any other; a     *)
(* part of a nested message is never shown.                                *)
MergesOccurrences ==
  phase = "first" /\ Outside =>
    /\ builder.plain = LastOr(Given({"plain"}), New(entry).plain)
    /\ builder.opt = LastIfAny(Given({"opt"}))
    /\ builder.list = [i \in DOMAIN Given({"list"}) |-> Given({"list"})[i].value]
    /\ builder.must = ChildOf(Trails(Given({"must"})))
    /\ builder.child = IF Given({"child"}) = << >> THEN << >>
                       ELSE <<ChildOf(Trails(Given({"child"})))>>
    /\ builder.item = [i \in DOMAIN Given({"item"}) |-> ChildOf(Given({"item"})[i].trail)]
    /\ builder.choice = ChoiceOf(Given({"number", "message", "group"}))
    /\ \A k \in Scalars : ValuesOf(builder.map, k) = ValuesOf(Pairs, k)

(* The lookups of a frozen map find exactly the keys that were given, and  *)
(* a value that was given with the key.                                    *)
LookupsFindEntries ==
  phase = "first" /\ result = "frozen" =>
    \A k \in Scalars :
      LET given == ValuesOf(Pairs, k)
      IN  IF ContainsKey(view.map, k)
          THEN \E i \in DOMAIN given : given[i].value = Get(view.map, k)
          ELSE given = << >>

(* A view survives its encoding: the second input is accepted and freezes  *)
(* to the same view (the tests' check_message).                            *)
RoundTrips ==
  /\ phase = "second" => result # "failed"
  /\ phase = "second" /\ result = "frozen" => builder = view

TokenLen(t) ==
  IF t.op = "open" THEN KeyLen + LenLen(t.value)
  ELSE IF t.op = "close" THEN (IF t.field = "group" THEN KeyLen ELSE 0)
  ELSE IF t.op = "group" THEN KeyLen
  ELSE IF t.field = "list" THEN ScalarLen(t.value)
  ELSE KeyLen + ScalarLen(t.value)

Bytes(s) == Total([i \in DOMAIN s |-> TokenLen(s[i])])

(* encoded_len is the number of bytes encode_raw writes, and every length  *)
(* prefix is the number of bytes up to the end of what it delimits, though *)
(* each is computed by code of its own; arena_encode and encode size their *)
(* buffers by it.                                                          *)
LengthsAreExact ==
  result = "frozen" =>
    LET w == EncodeRaw(builder)
        end(i) == CHOOSE j \in i + 1 .. Len(w) :
                    w[j].op = "close" /\ \A k \in i + 1 .. j - 1 : w[k].op # "close"
    IN  /\ Bytes(w) = EncodedLen(builder)
        /\ \A i \in DOMAIN w : w[i].op = "open" => w[i].value = Bytes(SubSeq(w, i + 1, end(i) - 1))

=============================================================================
