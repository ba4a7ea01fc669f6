---------------------------- MODULE DeriveMacro ----------------------------
(***************************************************************************)
(* defiant-derive: how the derives View and Oneof read the attributes of a *)
(* field.  Each kind of field looks at all the attributes of the field in  *)
(* turn, and either takes it, passes it on ("none") or fails ("error").    *)
(* An attribute is a key, or a key with its value.                         *)
(***************************************************************************)
EXTENDS RustTypes

(***************************************************************************)
(* What the macro asks of the types of fields.                             *)
(***************************************************************************)
RECURSIVE TypeUsesArena(_)
TypeUsesArena(type) ==
  CASE type.shape = "ref" -> TRUE
    [] type.shape = "path" /\ Last(type.path) = "Option" ->
         ~type.arena /\ type.generics # <<>> /\ TypeUsesArena(type.generics[1])
    [] type.shape = "path" /\ Last(type.path) # "Option" ->
         type.arena \/ \E t \in ToSet(type.generics) : TypeUsesArena(t)
    [] type.shape \in {"slice", "none"} -> FALSE

(* The path of the message below references, slices and the Option of the  *)
(* standard library, which is told from a message of that name by its path.*)
StandardOption(path) ==
  /\ Last(path) = "Option"
  /\ Len(path) = 1 \/ {"option", "core"} \cap ToSet(path) # {}
  /\ {"self", "super", "crate"} \cap ToSet(path) = {}

RECURSIVE ExtractTypePath(_)
ExtractTypePath(type) ==
  CASE type.shape = "path" /\ StandardOption(type.path) ->
         IF type.generics = <<>> THEN <<"panic">> ELSE ExtractTypePath(type.generics[1])
    [] type.shape = "path" /\ ~StandardOption(type.path) -> type.path
    [] type.shape \in {"ref", "slice"} -> ExtractTypePath(type.of)

Disallowed == {"Box", "Vec", "String", "HashMap", "BTreeMap"}

RECURSIVE ValidArenaFieldType(_)
ValidArenaFieldType(type) ==
  CASE type.shape = "path" -> /\ Last(type.path) \notin Disallowed
                              /\ \A t \in ToSet(type.generics) : ValidArenaFieldType(t)
    [] type.shape \in {"ref", "slice"} -> ValidArenaFieldType(type.of)

(***************************************************************************)
(* Attributes.                                                             *)
(***************************************************************************)
IntegerTypes == {"int32", "int64", "uint32", "uint64", "sint32", "sint64",
                 "fixed32", "fixed64", "sfixed32", "sfixed64"}
SignedTypes == {"int32", "int64", "sint32", "sint64", "sfixed32", "sfixed64"}
RealTypes == {"float", "double"}
ScalarWords == IntegerTypes \cup RealTypes \cup {"bool", "string", "bytes"}
LabelWords == {"optional", "required", "repeated"}

Those(attrs, key) == SelectSeq(attrs, LAMBDA attr : attr[1] = key)
LabelsIn(attrs) == SelectSeq(attrs, LAMBDA attr : attr[1] \in LabelWords)
Others(attrs, keys) == SelectSeq(attrs, LAMBDA attr : attr[1] \notin keys)

(* set_option and set_bool refuse a second value.                          *)
Twice(list) == Len(list) > 1

None == [read |-> "none"]
Error == [read |-> "error"]

(* The tag of the attributes, or the one after the field before.           *)
TagOf(attrs, inferred) ==
  LET tags == Those(attrs, "tag") IN IF tags = <<>> THEN inferred ELSE <<tags[1][2]>>

(***************************************************************************)
(* Scalar fields.                                                          *)
(***************************************************************************)
IsType(attr) ==
  \/ attr[1] \in ScalarWords /\ Len(attr) = 1
  \/ attr[1] \in {"bytes", "enumeration"} /\ Len(attr) = 2
InvalidBytes(attr) == attr[1] = "bytes" /\ Len(attr) = 2 /\ attr[2] \notin {"vec", "bytes"}
IsNumeric(type) == type \notin {"string", "bytes"}

RustRefType(type) ==
  CASE type = "double" -> Primitive("f64")
    [] type = "float" -> Primitive("f32")
    [] type \in {"int32", "sint32", "sfixed32", "enumeration"} -> Primitive("i32")
    [] type \in {"int64", "sint64", "sfixed64"} -> Primitive("i64")
    [] type \in {"uint32", "fixed32"} -> Primitive("u32")
    [] type \in {"uint64", "fixed64"} -> Primitive("u64")
    [] type = "bool" -> Primitive("bool")
    [] type = "string" -> RefType(Primitive("str"))
    [] type = "bytes" -> RefType(SliceType(Primitive("u8")))

(* DefaultValue::from_lit: what kind of literal each type takes.  There    *)
(* are no negative literals in Rust: one is read from a string, and only   *)
(* for the types that have a sign.                                         *)
TakesLiteral(type, literal) ==
  CASE type \in IntegerTypes -> literal.kind = "int" /\ (literal.value < 0 => type \in SignedTypes)
    [] type \in RealTypes -> literal.kind \in {"int", "float", "word"}
    [] type = "bool" -> literal.kind = "bool"
    [] type = "bytes" -> literal.kind = "bytes"
    [] type = "enumeration" -> literal.kind = "name"
    [] type = "string" -> TRUE

KindUnpacked(label, packed, type) ==
  IF label = "repeated" /\ \E p \in ToSet(packed) : p[2] THEN "packed" ELSE label
Kind(label, packed, type) ==
  CASE label = "repeated" ->
         IF \E p \in ToSet(packed) : p[2] THEN "packed"
         ELSE IF packed = <<>> /\ IsNumeric(type) THEN "packed" ELSE "repeated"
    [] label # "repeated" -> label

ScalarField(attrs, inferred) ==
  LET types == SelectSeq(attrs, IsType)
      packed == Those(attrs, "packed")
      labels == LabelsIn(attrs)
      defaults == Those(attrs, "default")
      unknown == SelectSeq(Others(attrs, {"packed", "tag", "default"} \cup LabelWords),
                           LAMBDA attr : ~IsType(attr))
      type == types[1][1]
      label == IF labels = <<>> THEN "plain" ELSE labels[1][1]
      asksPacked == \E p \in ToSet(packed) : p[2]
      tag == TagOf(attrs, inferred)
  IN CASE \/ Twice(types) \/ Twice(packed) \/ Twice(labels) \/ Twice(defaults)
          \/ Twice(Those(attrs, "tag"))
          \/ \E attr \in ToSet(types) : InvalidBytes(attr) -> Error
       [] OTHER ->
     CASE types = <<>> -> None
       [] /\ types # <<>>
          /\ \/ unknown # <<>>
             \/ tag = <<>>
             \/ defaults # <<>> /\ ~TakesLiteral(type, defaults[1][2])
             \/ asksPacked /\ (label # "repeated" \/ ~IsNumeric(type))
             \/ label = "repeated" /\ defaults # <<>> -> Error
       [] OTHER -> [read |-> "scalar", type |-> type, kind |-> Kind(label, packed, type),
                    enum |-> IF type = "enumeration" THEN types[1][2] ELSE <<>>,
                    tags |-> tag,
                    default |-> IF defaults = <<>> THEN <<>> ELSE <<defaults[1][2]>>]

ScalarVariant(attrs) ==
  LET field == ScalarField(attrs, <<>>)
  IN CASE field.read # "scalar" -> field
       [] field.read = "scalar" /\ field.kind = "plain" -> [field EXCEPT !.kind = "required"]
       [] OTHER -> Error

(***************************************************************************)
(* Messages and groups: field/message.rs and field/group.rs differ by the  *)
(* word.                                                                   *)
(***************************************************************************)
WordField(word, attrs, inferred) ==
  LET labels == LabelsIn(attrs)
      known == {word, "boxed", "tag"} \cup LabelWords
      tag == TagOf(attrs, inferred)
  IN CASE \/ Twice(Those(attrs, word)) \/ Twice(Those(attrs, "boxed"))
          \/ Twice(Those(attrs, "tag")) \/ Twice(labels) -> Error
       [] OTHER ->
     CASE Those(attrs, word) = <<>> -> None
       [] Those(attrs, word) # <<>> /\ (Others(attrs, known) # <<>> \/ tag = <<>>) -> Error
       [] OTHER -> [read |-> word, tags |-> tag,
                    label |-> IF labels = <<>> THEN "optional" ELSE labels[1][1]]

WordVariant(word, attrs) ==
  LET field == WordField(word, attrs, <<>>)
  IN CASE field.read # word -> field
       [] field.read = word /\ LabelsIn(attrs) # <<>> -> Error
       [] OTHER -> [field EXCEPT !.label = "required"]

(***************************************************************************)
(* Maps and oneofs.  A map passes on whatever has an attribute it does not *)
(* know; the names of a map are all of one meaning.                        *)
(***************************************************************************)
MapWords == {"arena_map", "map", "hash_map", "btree_map"}
KeyTypes == IntegerTypes \cup {"bool", "string"}

MapField(attrs, inferred) ==
  LET types == SelectSeq(attrs, LAMBDA attr : attr[1] \in MapWords /\ Len(attr) = 3)
      tag == TagOf(attrs, inferred)
  IN CASE \/ Others(attrs, {"tag"} \cup MapWords) # <<>>
          \/ types = <<>> \/ tag = <<>> -> None
       [] OTHER ->
     CASE \/ Twice(types) \/ Twice(Those(attrs, "tag"))
          \/ types[1][2][1] \notin KeyTypes
          \/ types[1][3][1] \notin ScalarWords \cup {"enumeration", "message"} -> Error
       [] OTHER -> [read |-> "map", key |-> types[1][2][1], value |-> types[1][3], tags |-> tag]

OneofField(attrs) ==
  LET types == Those(attrs, "oneof")
      tags == Those(attrs, "tags")
  IN CASE Twice(types) \/ Twice(tags) -> Error
       [] OTHER ->
     CASE types = <<>> -> None
       [] types # <<>> /\ (Others(attrs, {"oneof", "tags"}) # <<>> \/ tags = <<>>) -> Error
       [] OTHER -> [read |-> "oneof", type |-> types[1][2], tags |-> tags[1][2]]

(***************************************************************************)
(* Field::new and Field::new_oneof: the first kind that does not pass.     *)
(***************************************************************************)
FirstTaken(readings) ==
  LET taken == SelectInSeq(readings, LAMBDA r : r.read # "none")
  IN IF taken = 0 THEN Error ELSE readings[taken]

NewField(attrs, inferred) ==
  IF <<"skip">> \in ToSet(attrs) THEN None
  ELSE FirstTaken(<<ScalarField(attrs, inferred), WordField("message", attrs, inferred),
                    MapField(attrs, inferred), OneofField(attrs),
                    WordField("group", attrs, inferred)>>)

NewVariant(attrs) ==
  IF <<"skip">> \in ToSet(attrs) THEN None
  ELSE FirstTaken(<<ScalarVariant(attrs), WordVariant("message", attrs),
                    MapField(attrs, <<>>), WordVariant("group", attrs)>>)

(***************************************************************************)
(* try_message, try_oneof and try_enumeration, up to where they have read  *)
(* what they are about.  A member has attributes and a type.               *)
(***************************************************************************)
AllTags(fields) == FlattenSeq([i \in 1..Len(fields) |-> fields[i].tags])
HasDuplicates(tags) == ~IsInjective(tags)

ReadMember(so, member) ==
  LET field == NewField(member.attrs, <<so.next>>)
  IN CASE so.failed \/ ~ValidArenaFieldType(member.type) \/ field.read = "error" ->
            [so EXCEPT !.failed = TRUE]
       [] OTHER ->
     CASE field.read = "none" -> so
       [] field.read # "none" ->
            [so EXCEPT !.fields = Append(@, field),
                       !.next = IF field.tags = <<>> THEN @ ELSE Max(ToSet(field.tags)) + 1]

TryMessage(members) ==
  LET read == FoldLeft(ReadMember, [fields |-> <<>>, next |-> 1, failed |-> FALSE], members)
  IN IF read.failed \/ HasDuplicates(AllTags(read.fields)) THEN [failed |-> TRUE, fields |-> <<>>]
     ELSE [failed |-> FALSE,
           fields |-> SortSeq(read.fields, LAMBDA f, g : Min(ToSet(f.tags)) < Min(ToSet(g.tags)))]

TryOneof(members) ==
  LET fields == [i \in 1..Len(members) |-> NewVariant(members[i].attrs)]
  IN IF \/ \E f \in ToSet(fields) : f.read \in {"none", "error"}
        \/ HasDuplicates(AllTags(fields))
     THEN [failed |-> TRUE, fields |-> <<>>] ELSE [failed |-> FALSE, fields |-> fields]

(* The variant a number is converted to, and the default one.              *)
TryFrom(values, number) ==
  LET found == SelectInSeq(values, LAMBDA v : v.number = number)
  IN IF found = 0 THEN "unknown" ELSE values[found].variant
DefaultVariant(values) == values[1].variant

(* get_prost_path: the crate whose items the derived code names.           *)
GetProstPath(attrs) ==
  LET paths == Those(attrs, "prost_path") IN IF paths = <<>> THEN "::defiant" ELSE paths[1][2]
=============================================================================
