--------------------------- MODULE CodeGenerator ---------------------------
(***************************************************************************)
(* code_generator.rs: the walk of CodeGenerator over the descriptors of    *)
(* one file, and what it writes.  The text is abstracted to a set of       *)
(* items, one for each declaration and each field, that keep what another  *)
(* part of the text or of the program depends on: where an item stands,    *)
(* the path its comments were looked up by, the lifetime it is given, the  *)
(* traits it derives, the names it mentions and its attributes.            *)
(***************************************************************************)
EXTENDS DeriveTraits, RustTypes

CONSTANT Strip   \* strip_enum_prefix, of <<type, variant>>

VARIABLES
  config, files,    \* the Config and the descriptors of the request
  context,          \* Context: the message graph and the extern paths
  file,             \* the number of the file being generated
  frames,           \* the open calls of append_message, below them generate
  path, typePath,   \* the fields of the CodeGenerator of these names
  withLifetime,     \*   and messages_with_lifetime
  open,             \* the modules the braces in the text have opened
  out,              \* the items written so far, by all files
  status
genVars == <<config, files, context, file, frames, path, typePath, withLifetime, open, out, status>>

graph == context.graph
File == files[file]
Module(f) == [i \in 1..Len(f.package) |-> Snake[f.package[i]]]
Here == Module(File) \o open
FqName(name) == File.package \o typePath \o <<name>>
External(name) == ResolveExtern(context.externs, name) # <<>>

(* The numbers in S, from the smallest to the largest. *)
Numbers[S \in SUBSET Nat] ==
  [k \in 1..Cardinality(S) |-> CHOOSE i \in S : Cardinality({j \in S : j <= i}) = k]

NestedTypes(message) ==
  Numbers[{i \in DOMAIN message.nested : ~message.nested[i].mapEntry}]
MapEntry(message, name, field) ==
  {m \in ToSet(message.nested) : m.mapEntry /\ Append(name, m.name) = field.typeName}
InNoOneof(field) == field.proto3Optional \/ field.oneof = 0
PlainFields(message) ==
  Numbers[{i \in DOMAIN message.fields : InNoOneof(message.fields[i])}]
Variants(message, o) ==
  Numbers[{i \in DOMAIN message.fields :
             ~InNoOneof(message.fields[i]) /\ message.fields[i].oneof = o}]
OneofFields(message) ==
  Numbers[{o \in DOMAIN message.oneofs : Variants(message, o) # <<>>}]
OneofTypeName(message, oneof) ==
  IF \E m \in ToSet(message.nested) : Snake[m.name] = oneof.name
  THEN Camel[oneof.name] \o "OneOf" ELSE Camel[oneof.name]

(***************************************************************************)
(* Lifetimes.  The names already visited are shared by the whole recursion *)
(* of one question; a name met again answers yes.                          *)
(***************************************************************************)
OwnsArenaDataSingle(field) == field.type \in {"string", "bytes"}
OwnsArenaData(field) == field.label = "repeated" \/ field.type \in {"string", "bytes"}

TypeNeedsLifetimeImpl ==
  LET impl[q \in Seq(STRING) \X (SUBSET Seq(STRING))] ==
        LET seen == q[2] \cup {q[1]}
            any(so, f) ==
              IF ~so.needs /\ Submessage(f) /\ ~OwnsArenaData(f) THEN impl[<<f.typeName, so.visited>>]
              ELSE [so EXCEPT !.needs = @ \/ OwnsArenaData(f)]
        IN IF q[1] \in q[2] \/ q[1] \in withLifetime \/ q[1] \notin DOMAIN graph.messages
           THEN [needs |-> TRUE, visited |-> seen]
           ELSE FoldLeft(any, [needs |-> FALSE, visited |-> seen], graph.messages[q[1]].fields)
  IN impl

MessageTypeNeedsLifetime(name) == TypeNeedsLifetimeImpl[<<name, {}>>].needs

MessageNeedsLifetime(message) ==
  \E f \in ToSet(message.fields) :
    OwnsArenaData(f) \/ (Submessage(f) /\ MessageTypeNeedsLifetime(f.typeName))

(* Groups are not asked about: the type of a variant may still mention it. *)
OneofNeedsLifetime(fields) ==
  \E f \in ToSet(fields) :
    \/ f.type \in {"string", "bytes"}
    \/ (f.type = "message" /\ MessageTypeNeedsLifetime(f.typeName))

(***************************************************************************)
(* Types and names.                                                        *)
(***************************************************************************)
CommonWithIdent(local, ident) == Len(LongestCommonPrefix({local, ident}))
CommonPath(local, ident) == Len(LongestCommonPrefix({local, Front(ident)}))

ResolveIdent(ident) ==
  LET local == File.package \o typePath
      module == Front(ident)
      common == CommonPath(local, ident)
      relative == [i \in 1..(Len(local) - common) |-> "super"]
                    \o [i \in 1..(Len(module) - common) |-> Snake[module[common + i]]]
                    \o <<Camel[Last(ident)]>>
  IN CASE External(ident) -> ResolveExtern(context.externs, ident)
       [] ~External(ident) /\ relative \in {<<"Option">>, <<"Result">>} -> <<"self">> \o relative
       [] OTHER -> relative

(* A name in the text, with <'arena> or without.                           *)
Mention(name) ==
  [to |-> name, path |-> ResolveIdent(name), external |-> External(name),
   arena |-> MessageTypeNeedsLifetime(name)]
Mentions(field) ==
  CASE Submessage(field) -> {Mention(field.typeName)}
    [] field.type = "enum" -> {[Mention(field.typeName) EXCEPT !.arena = FALSE]}
    [] ~Submessage(field) /\ field.type # "enum" -> {}

ResolveType(field) ==
  CASE field.type \in {"fixed32", "uint32"} -> Primitive("u32")
    [] field.type \in {"fixed64", "uint64"} -> Primitive("u64")
    [] field.type \in {"int32", "sfixed32", "sint32", "enum"} -> Primitive("i32")
    [] field.type \in {"int64", "sfixed64", "sint64"} -> Primitive("i64")
    [] field.type = "float" -> Primitive("f32")
    [] field.type = "double" -> Primitive("f64")
    [] field.type = "bool" -> Primitive("bool")
    [] field.type = "string" -> RefType(Primitive("str"))
    [] field.type = "bytes" -> RefType(SliceType(Primitive("u8")))
    [] Submessage(field) -> PathType(ResolveIdent(field.typeName),
                                     MessageTypeNeedsLifetime(field.typeName), <<>>)

(* A message with a lifetime is held by reference, another one by value.   *)
HeldByValue(field) == ResolveType(field)
Held(field) ==
  LET type == ResolveType(field)
  IN IF Submessage(field) /\ type.arena THEN RefType(type) ELSE type

Optional(field) ==
  \/ field.proto3Optional
  \/ /\ field.label = "optional"
     /\ field.type = "message" \/ File.syntax = "proto2"

FieldType(field) ==
  CASE field.label = "repeated" -> RefType(SliceType(Held(field)))
    [] field.label # "repeated" /\ Optional(field) -> OptionType(Held(field))
    [] field.label # "repeated" /\ ~Optional(field) -> Held(field)

MapType(key, value) ==
  PathType(<<"defiant", "ArenaMap">>, TRUE, <<ResolveType(key), ResolveType(value)>>)

(***************************************************************************)
(* Attributes: an attribute is a key, with a value or without.             *)
(***************************************************************************)
CanPack(field) == field.type \in Types \ {"string", "bytes", "message", "group"}

FieldTypeTag(field) ==
  IF field.type = "enum" THEN <<"enumeration", ResolveIdent(field.typeName)>> ELSE <<field.type>>

VariantName(enum, value) ==
  IF config.stripEnumPrefix THEN Strip[<<Camel[enum], Camel[value]>>] ELSE Camel[value]

(* options.packed() is false for options that do not say.                  *)
Packed(field) == IF field.packed = "none" THEN File.syntax = "proto3" ELSE field.packed = "true"

FieldAttributes(name, field) ==
  LET when(said, attribute) == IF said THEN <<attribute>> ELSE <<>>
      bytes == GetFirstField(config.bytes, name, field.name, "vec")
  IN <<IF field.type = "bytes" THEN <<"bytes", bytes>> ELSE FieldTypeTag(field)>>
       \o when(field.label = "optional" /\ Optional(field), <<"optional">>)
       \o when(field.label = "required", <<"required">>)
       \o when(field.label = "repeated", <<"repeated">>)
       \o when(field.label = "repeated" /\ CanPack(field) /\ ~Packed(field), <<"packed", FALSE>>)
       \o <<<<"tag", field.number>>>>
       \o [i \in 1..Len(field.default) |->
            <<"default",
              IF field.type = "enum"
              THEN [field.default[i] EXCEPT !.value = VariantName(Last(field.typeName), @)]
              ELSE field.default[i]>>]

MapAttributes(field, key, value) ==
  <<<<"arena_map", FieldTypeTag(key), FieldTypeTag(value)>>, <<"tag", field.number>>>>

VariantAttributes(field) == <<FieldTypeTag(field), <<"tag", field.number>>>>

OneofAttributes(message, o) ==
  << <<"oneof", <<Snake[message.name], OneofTypeName(message, message.oneofs[o])>>>>,
     <<"tags", [i \in 1..Len(Variants(message, o)) |->
                  message.fields[Variants(message, o)[i]].number]>> >>

(***************************************************************************)
(* What is written.  unit is the module whose buffer the item is in, doc   *)
(* the path its comments are looked up by, <<>> when they are disabled.    *)
(***************************************************************************)
Doc(name, where) ==
  IF \E m \in ToSet(config.disableComments) : m.path \in ToSet(SubPaths(name))
  THEN <<>> ELSE where

Item(kind, name, proto, doc) ==
  [kind |-> kind, unit |-> Module(File), at |-> Here, name |-> name, proto |-> proto,
   file |-> file, doc |-> doc, owner |-> <<>>, arena |-> FALSE, derives |-> {},
   mentions |-> {}, type |-> NoType, attrs |-> <<>>, values |-> <<>>]

DerivePath == IF config.path = "" THEN <<>> ELSE << <<"defiant_path", config.path>> >>

Derives(copy, eq) == (IF copy = "yes" THEN {"Copy"} ELSE {}) \cup (IF eq = "yes" THEN {"Eq"} ELSE {})

CopyOf(message) == CanMessageDeriveCopy(graph, config.boxed, FqName(message.name))
EqOf(message) == CanMessageDeriveEq(graph, FqName(message.name))

StructItem(message, where) ==
  LET name == FqName(message.name)
  IN [Item("struct", Camel[message.name], name, Doc(name, where)) EXCEPT
        !.arena = MessageNeedsLifetime(message),
        !.derives = Derives(CopyOf(message), EqOf(message)), !.attrs = DerivePath]

FieldItem(name, field, where) ==
  LET proto == Append(name, field.name)
  IN [Item("field", Snake[field.name], proto, Doc(proto, where)) EXCEPT
        !.owner = name, !.mentions = Mentions(field), !.type = FieldType(field),
        !.attrs = FieldAttributes(name, field)]

MapItem(name, field, entry, where) ==
  LET proto == Append(name, field.name)
      value == entry.fields[2]
  IN [Item("map", Snake[field.name], proto, Doc(proto, where)) EXCEPT
        !.owner = name, !.mentions = Mentions(value), !.type = MapType(entry.fields[1], value),
        !.attrs = MapAttributes(field, entry.fields[1], value)]

VariantFields(message, o) ==
  [i \in 1..Len(Variants(message, o)) |-> message.fields[Variants(message, o)[i]]]

OneofFieldItem(message, name, o, where) ==
  LET oneof == message.oneofs[o]
      needs == OneofNeedsLifetime(VariantFields(message, o))
      type == <<Snake[message.name], OneofTypeName(message, oneof)>>
  IN [Item("oneofField", Snake[oneof.name], Append(name, oneof.name), Doc(name, where)) EXCEPT
        !.owner = name, !.attrs = OneofAttributes(message, o),
        !.type = OptionType(PathType(type, needs, <<>>)),
        !.mentions = {[to |-> Append(name, oneof.name), path |-> type,
                       external |-> FALSE, arena |-> needs]}]

OneofCopy(fields, name) == CanFieldsDeriveCopy(graph, config.boxed, name, fields)
OneofEq(fields, name) == CanFieldsDeriveEq(graph, name, fields)

OneofItem(message, name, o, where) ==
  LET fields == VariantFields(message, o)
  IN [Item("oneof", OneofTypeName(message, message.oneofs[o]),
           Append(name, message.oneofs[o].name), Doc(name, where)) EXCEPT
        !.arena = OneofNeedsLifetime(fields), !.attrs = DerivePath,
        !.derives = Derives(OneofCopy(fields, name), OneofEq(fields, name))]

VariantItem(name, oneof, field, where) ==
  LET proto == Append(name, field.name)
  IN [Item("variant", Camel[field.name], proto, Doc(proto, where)) EXCEPT
        !.owner = Append(name, oneof.name), !.mentions = Mentions(field),
        !.type = Held(field), !.attrs = VariantAttributes(field)]

(* build_enum_value_mappings: the first value of each number.              *)
Mapped(enum) ==
  Numbers[{i \in DOMAIN enum.values :
             \A j \in 1..(i - 1) : enum.values[j].number # enum.values[i].number}]
Overlap(enum) ==
  \E i, j \in ToSet(Mapped(enum)) :
    i # j /\ VariantName(enum.name, enum.values[i].name) = VariantName(enum.name, enum.values[j].name)

ValuePathMapped(enum, i) == <<2, i - 1>>
ValuePath(enum, i) == <<2, Mapped(enum)[i] - 1>>

EnumItems(enum, where) ==
  LET name == FqName(enum.name)
      mapped == Mapped(enum)
      variant(i) == [variant |-> VariantName(enum.name, enum.values[mapped[i]].name),
                     number |-> enum.values[mapped[i]].number]
      item == [Item("enum", Camel[enum.name], name, Doc(name, where)) EXCEPT
                 !.attrs = DerivePath, !.values = [i \in 1..Len(mapped) |-> variant(i)]]
      value(i) == LET proto == Append(name, enum.values[mapped[i]].name)
                  IN [Item("value", variant(i).variant, proto,
                           Doc(proto, where \o ValuePath(enum, i))) EXCEPT !.owner = name]
  IN {item} \cup {value(i) : i \in 1..Len(mapped)}

NameItem(message) == Item("name", Camel[message.name], FqName(message.name), <<>>)

(* A method says 'arena of the messages this file has written.             *)
MethodItem(service, method, where) ==
  LET mention(name) == [Mention(name) EXCEPT !.arena = name \in withLifetime]
  IN [Item("method", Snake[method.name], File.package \o <<service.name, method.name>>, where)
        EXCEPT !.mentions = {mention(method.input), mention(method.output)}]

ServiceItems(service, where) ==
  LET methods == service.methods
  IN {Item("service", Camel[service.name], Append(File.package, service.name), where)}
       \cup {MethodItem(service, methods[i], where \o <<2, i - 1>>) : i \in 1..Len(methods)}

(***************************************************************************)
(* The walk.  A frame is an open call of append_message: what it works on  *)
(* and how far it is.  The frame of generate is like one of a message that *)
(* is not written itself, whose enums come before the services.            *)
(***************************************************************************)
Frame(message, name, stage) == [message |-> message, name |-> name, stage |-> stage, next |-> 1]
Top == Last(frames)
Message == Top.message
AtFile == Len(frames) = 1
WithTop(frame) == [frames EXCEPT ![Len(frames)] = frame]
Enter(stage) == WithTop([Top EXCEPT !.stage = stage, !.next = 1])
Advance == WithTop([Top EXCEPT !.next = @ + 1])
Working(stage, list) ==
  status = "generating" /\ frames # <<>> /\ Top.stage = stage /\ Top.next <= Len(list)
Finished(stage, list) ==
  status = "generating" /\ frames # <<>> /\ Top.stage = stage /\ Top.next > Len(list)
Fixed == UNCHANGED <<config, files, context, file>>
Repath(last) == path' = Append(Front(path), last)
Write(items) == out' = out \cup items

(* generate: a new CodeGenerator for the file, of a syntax it knows.       *)
AtFileStart == status = "generating" /\ frames = <<>> /\ file <= Len(files)

RefuseSyntax ==
  /\ AtFileStart /\ File.syntax \notin {"proto2", "proto3"}
  /\ status' = "syntax"
  /\ Fixed /\ UNCHANGED <<frames, path, typePath, withLifetime, open, out>>

StartFile ==
  /\ AtFileStart /\ File.syntax \in {"proto2", "proto3"}
  /\ frames' = <<Frame([MessageWith("", <<>>) EXCEPT !.nested = File.messages, !.enums = File.enums],
                       <<>>, "nested")>>
  /\ path' = <<4>> /\ typePath' = <<>> /\ withLifetime' = {} /\ open' = <<>>
  /\ UNCHANGED <<config, files, context, file, out, status>>

Child == NestedTypes(Message)[Top.next]
ChildMessage == Message.nested[Child]
AtChild == Working("nested", NestedTypes(Message))

SkipExternalMessage ==
  /\ AtChild /\ External(FqName(ChildMessage.name))
  /\ frames' = Advance
  /\ Fixed /\ UNCHANGED <<path, typePath, withLifetime, open, out, status>>

(* The two questions of the derive line do not come back.                  *)
OverflowStack ==
  /\ AtChild /\ ~External(FqName(ChildMessage.name))
  /\ "diverges" \in {CopyOf(ChildMessage), EqOf(ChildMessage)}
  /\ status' = "overflow"
  /\ Fixed /\ UNCHANGED <<frames, path, typePath, withLifetime, open, out>>

OpenMessage ==
  /\ AtChild /\ ~External(FqName(ChildMessage.name))
  /\ "diverges" \notin {CopyOf(ChildMessage), EqOf(ChildMessage)}
  /\ LET name == FqName(ChildMessage.name)
         here == Append(path, Child - 1)
     IN /\ Write({StructItem(ChildMessage, here)})
        /\ withLifetime' = IF MessageNeedsLifetime(ChildMessage)
                           THEN withLifetime \cup {name} ELSE withLifetime
        /\ frames' = Append(Advance, Frame(ChildMessage, name, "fields"))
        /\ path' = Append(here, 2)
  /\ Fixed /\ UNCHANGED <<typePath, open, status>>

WriteField ==
  /\ Working("fields", PlainFields(Message))
  /\ LET i == PlainFields(Message)[Top.next]
         field == Message.fields[i]
         where == Append(path, i - 1)
     IN \/ /\ MapEntry(Message, Top.name, field) = {}
           /\ Write({FieldItem(Top.name, field, where)})
        \/ \E entry \in MapEntry(Message, Top.name, field) :
             Write({MapItem(Top.name, field, entry, where)})
  /\ frames' = Advance
  /\ Fixed /\ UNCHANGED <<path, typePath, withLifetime, open, status>>

EndFields ==
  /\ Finished("fields", PlainFields(Message))
  /\ frames' = Enter("oneofs") /\ Repath(8)
  /\ Fixed /\ UNCHANGED <<typePath, withLifetime, open, out, status>>

WriteOneofField ==
  /\ Working("oneofs", OneofFields(Message))
  /\ LET o == OneofFields(Message)[Top.next]
     IN Write({OneofFieldItem(Message, Top.name, o, Append(path, o - 1))})
  /\ frames' = Advance
  /\ Fixed /\ UNCHANGED <<path, typePath, withLifetime, open, status>>

(* push_mod, unless nothing would stand in the module.                     *)
EndOneofs ==
  /\ Finished("oneofs", OneofFields(Message))
  /\ \/ /\ Message.enums \o NestedTypes(Message) \o OneofFields(Message) # <<>>
        /\ open' = Append(open, Snake[Message.name])
        /\ typePath' = Append(typePath, Message.name)
        /\ frames' = Enter("nested") /\ Repath(3)
     \/ /\ Message.enums \o NestedTypes(Message) \o OneofFields(Message) = <<>>
        /\ frames' = Enter("name") /\ path' = Front(path)
        /\ UNCHANGED <<open, typePath>>
  /\ Fixed /\ UNCHANGED <<withLifetime, out, status>>

EndNested ==
  /\ Finished("nested", NestedTypes(Message))
  /\ frames' = Enter("enums") /\ Repath(IF AtFile THEN 5 ELSE 4)
  /\ Fixed /\ UNCHANGED <<typePath, withLifetime, open, out, status>>

AppendEnum ==
  /\ Working("enums", Message.enums)
  /\ LET enum == Message.enums[Top.next]
     IN \/ /\ External(FqName(enum.name))
           /\ frames' = Advance /\ UNCHANGED <<out, status>>
        \/ /\ ~External(FqName(enum.name)) /\ Overlap(enum)
           /\ status' = "overlap" /\ UNCHANGED <<out, frames>>
        \/ /\ ~External(FqName(enum.name)) /\ ~Overlap(enum)
           /\ Write(EnumItems(enum, Append(path, Top.next - 1)))
           /\ frames' = Advance /\ UNCHANGED status
  /\ Fixed /\ UNCHANGED <<path, typePath, withLifetime, open>>

EndEnums ==
  /\ Finished("enums", Message.enums)
  /\ \/ ~AtFile /\ frames' = Enter("variants") /\ path' = Front(path)
     \/ AtFile /\ config.services # "none" /\ frames' = Enter("services") /\ Repath(6)
     \/ AtFile /\ config.services = "none" /\ frames' = Enter("end") /\ path' = <<>>
  /\ Fixed /\ UNCHANGED <<typePath, withLifetime, open, out, status>>

(* append_oneof looks its own comments up below 8, its fields' below 2.    *)
AppendOneof ==
  /\ Working("variants", OneofFields(Message))
  /\ LET o == OneofFields(Message)[Top.next]
         fields == VariantFields(Message, o)
         diverges == "diverges" \in {OneofCopy(fields, Top.name), OneofEq(fields, Top.name)}
         variant(i) == VariantItem(Top.name, Message.oneofs[o], Message.fields[i],
                                   path \o <<2, i - 1>>)
     IN \/ /\ diverges
           /\ status' = "overflow"
           /\ UNCHANGED <<out, frames>>
        \/ /\ ~diverges
           /\ Write({OneofItem(Message, Top.name, o, path \o <<8, o - 1>>)}
                      \cup {variant(i) : i \in ToSet(Variants(Message, o))})
           /\ frames' = Advance /\ UNCHANGED status
  /\ Fixed /\ UNCHANGED <<path, typePath, withLifetime, open>>

(* pop_mod *)
EndVariants ==
  /\ Finished("variants", OneofFields(Message))
  /\ open' = Front(open) /\ typePath' = Front(typePath)
  /\ frames' = Enter("name")
  /\ Fixed /\ UNCHANGED <<path, withLifetime, out, status>>

EndMessage ==
  /\ Working("name", <<Message>>)
  /\ Write(IF config.typeNames THEN {NameItem(Message)} ELSE {})
  /\ frames' = Front(frames) /\ path' = Front(path)
  /\ Fixed /\ UNCHANGED <<typePath, withLifetime, open, status>>

(* What becomes of a service is up to the generator: one writes it, one    *)
(* writes nothing.                                                         *)
PushService ==
  /\ Working("services", File.services)
  /\ Write(IF config.services = "writes"
           THEN ServiceItems(File.services[Top.next], Append(path, Top.next - 1)) ELSE {})
  /\ frames' = Advance
  /\ Fixed /\ UNCHANGED <<path, typePath, withLifetime, open, status>>

EndServices ==
  /\ Finished("services", File.services)
  /\ frames' = Enter("end") /\ path' = <<>>
  /\ Fixed /\ UNCHANGED <<typePath, withLifetime, open, out, status>>

Walk ==
  \/ RefuseSyntax \/ StartFile \/ SkipExternalMessage \/ OverflowStack \/ OpenMessage \/ WriteField \/ EndFields
  \/ WriteOneofField \/ EndOneofs \/ EndNested \/ AppendEnum \/ EndEnums \/ AppendOneof
  \/ EndVariants \/ EndMessage \/ PushService \/ EndServices
=============================================================================
