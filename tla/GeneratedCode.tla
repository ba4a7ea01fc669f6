--------------------------- MODULE GeneratedCode ---------------------------
(***************************************************************************)
(* What the build leaves behind, as its readers see it: rustc resolves the *)
(* names and checks the lifetimes and the derives, the derive macro reads  *)
(* the attributes and the types of the fields.                             *)
(***************************************************************************)
EXTENDS Build, DeriveMacro

Declared == {item \in out : item.kind \in {"struct", "oneof", "enum"}}
MembersOf(item) == {m \in out : m.owner = item.proto /\ m.kind # "value"}
DeclarationOf(name) == {d \in Declared : d.proto = name}
Generated(mention) == ~mention.external

(* The descriptors by their names.                                         *)
EnumsOf(f) ==
  {[name |-> Append(files[f].package, e.name), enum |-> e] : e \in ToSet(files[f].enums)}
    \cup UNION {{[name |-> Append(m.name, e.name), enum |-> e] : e \in ToSet(m.message.enums)} :
                  m \in AddMessages(files[f].messages, files[f].package)}
MessageOf(item) ==
  (CHOOSE m \in AddMessages(files[item.file].messages, files[item.file].package) :
     m.name = item.proto).message

(* A path of Rust leads from the module it is written in to a declaration. *)
Follow(at, step) ==
  CASE step = "super" -> Front(at) [] step = "self" -> at [] OTHER -> Append(at, step)
Walked(at, rust) == FoldLeft(Follow, at, rust)

(* The path a type holds in place, below Option.                           *)
Core(type) ==
  IF type.shape = "path" /\ type.path = <<"core", "option", "Option">> THEN type.generics[1] ELSE type
InPlace(member) ==
  {m \in member.mentions : Core(member.type).shape = "path" /\ Core(member.type).path = m.path}

(***************************************************************************)
(* Properties.                                                             *)
(***************************************************************************)
\* Every name the text mentions leads, from the module it is mentioned in, to the one
\* declaration of the type it stands for; the types that are not declared are exactly
\* those that extern paths replace.
ReferencesResolve ==
  status = "done" =>
    /\ \A d, e \in Declared :
         d # e => d.proto # e.proto /\ Append(d.at, d.name) # Append(e.at, e.name)
    /\ \A item \in out : \A m \in item.mentions :
         IF m.external THEN DeclarationOf(m.to) = {}
         ELSE \E d \in DeclarationOf(m.to) : Walked(item.at, m.path) = Append(d.at, d.name)
    /\ \A item \in out :
         item.kind = "name" =>
           \E d \in DeclarationOf(item.proto) : d.at = item.at /\ d.name = item.name

OneofsWithGroups ==
  {d.proto : d \in {x \in Declared : \E v \in MembersOf(x) :
                      v.kind = "variant" /\ v.attrs[1] = <<"group">>}}
HoldsGroupInOneof(d) ==
  d.proto \in OneofsWithGroups
    \/ \E m \in MembersOf(d) : \E x \in m.mentions : x.to \in OneofsWithGroups

(* Whether the text of the type says 'arena.                               *)
RECURSIVE SaysArena(_)
SaysArena(type) ==
  CASE type.shape = "path" -> type.arena \/ \E t \in ToSet(type.generics) : SaysArena(t)
    [] type.shape = "ref" -> TRUE
    [] type.shape = "slice" -> SaysArena(type.of)
    [] type.shape = "none" -> FALSE

\* A type is mentioned with 'arena wherever it was declared with it; what a struct or a
\* oneof borrows it borrows from a lifetime it declares, a lifetime it declares it uses,
\* and the derive macro finds the same answer in the types of the fields.  (A oneof that has
\* a group, and the message it is in, are left out: append_oneof does not ask about groups.)
LifetimesAreCarried ==
  status = "done" =>
    /\ \A item \in out : \A m \in item.mentions : \A d \in DeclarationOf(m.to) :
         /\ item.kind # "method" /\ d.arena => m.arena
         /\ item.kind \in {"method", "oneofField"} /\ d.file = item.file => m.arena = d.arena
    /\ \A d \in Declared :
         d.kind # "enum" /\ ~HoldsGroupInOneof(d) =>
           /\ d.arena <=> \E m \in MembersOf(d) : SaysArena(m.type)
           /\ d.kind = "struct" => (d.arena <=> \E m \in MembersOf(d) : TypeUsesArena(m.type))

\* A type that holds itself in place, through whatever chain of messages and oneofs, has
\* no size.  Cycles of messages have to go through a reference or a slice.
ByValueTypesAreFinite ==
  status = "done" =>
    LET inside(d) == UNION {{m.to : m \in InPlace(f)} : f \in MembersOf(d)}
        holds == [edges |-> UNION {{d.proto} \X inside(d) : d \in Declared}]
    IN \A d \in Declared : d.proto \notin ReachableFrom(holds, inside(d))

RECURSIVE Implements(_, _, _)
Implements(trait, type, member) ==
  LET elements(t) == Implements(trait, t, member)
  IN CASE type.shape = "ref" -> trait = "Copy" \/ elements(type.of)
       [] type.shape = "slice" -> elements(type.of)
       [] type.shape = "path" /\ Last(type.path) = "ArenaMap" -> FALSE
       [] type.shape = "path" /\ type.path = <<"core", "option", "Option">> ->
            elements(type.generics[1])
       [] type \in {Primitive("f32"), Primitive("f64")} -> trait = "Copy"
       [] OTHER -> \A m \in member.mentions : \A d \in DeclarationOf(m.to) :
                     m.path = type.path => trait \in d.derives

\* A type that derives Copy or Eq has only members that implement it, and a message that
\* is held in place can be copied: the derived copy_to_builder moves it out of a borrowed
\* view.  (A field that Config::boxed names takes the Copy of its message away.)
DerivesAreConsistent ==
  status = "done" =>
    /\ \A d \in Declared : \A trait \in d.derives : \A m \in MembersOf(d) :
         Implements(trait, m.type, m)
    /\ config.boxed = <<>> =>
         \A item \in out : item.kind \in {"field", "variant"} =>
           \A m \in InPlace(item) : \A d \in DeclarationOf(m.to) : "Copy" \in d.derives

(***************************************************************************)
(* What a descriptor asks for, said once more and without the generator.   *)
(***************************************************************************)
Proto3(f) == files[f].syntax = "proto3"
CanBePacked(field) == field.type \notin {"string", "bytes", "message", "group"}
MustBePacked(f, field) ==
  CanBePacked(field) /\ (field.packed = "true" \/ (field.packed # "false" /\ Proto3(f)))
HasPresence(f, field) ==
  field.proto3Optional \/ Submessage(field) \/ (~Proto3(f) /\ field.label = "optional")

AskedKind(f, field) ==
  CASE field.label = "repeated" -> IF MustBePacked(f, field) THEN "packed" ELSE "repeated"
    [] field.label = "required" -> "required"
    [] field.label = "optional" -> IF HasPresence(f, field) THEN "optional" ELSE "plain"

AskedType(type) == IF type = "enum" THEN "enumeration" ELSE type

\* The generator takes the options of a proto3 field that do not say anything of packing
\* for options that say no; such a field is left out.
PackingIsAsked(f, field) ==
  ~(field.label = "repeated" /\ field.packed = "unset" /\ Proto3(f) /\ CanBePacked(field))

(* Every member has a tag: what is read of it does not depend on the order. *)
InSomeOrder(members) == FoldSet(LAMBDA m, list : Append(list, m), <<>>, members)

IsDefault(field, asked, read) ==
  IF field.type = "enum"
  THEN \E v \in out : /\ v.kind = "value" /\ v.proto = Append(field.typeName, asked.value)
                       /\ read.value = v.name
  ELSE read = asked

ReadsAs(field, reading, kind, member) ==
  \/ /\ Submessage(field)
     /\ reading.read = field.type /\ reading.label = kind
     /\ \E m \in member.mentions : m.path = ExtractTypePath(member.type)
  \/ /\ ~Submessage(field)
     /\ reading.read = "scalar" /\ reading.kind = kind
     /\ reading.type = AskedType(field.type)
     /\ field.type = "enum" => \E m \in member.mentions : m.path = reading.enum
     /\ field.label = "repeated" \/ RustRefType(reading.type) = Core(member.type)
     /\ Len(reading.default) = Len(field.default)
     /\ \A i \in 1..Len(field.default) : IsDefault(field, field.default[i], reading.default[i])

MessageIsRead(d) ==
  LET members == MembersOf(d)
      read == TryMessage(InSomeOrder(members))
      message == MessageOf(d)
      taken(field) == SelectSeq(read.fields, LAMBDA r : field.number \in ToSet(r.tags))
      entry(field) == MapEntry(message, d.proto, field)
      isRead(field, r, m) ==
        \/ /\ m.kind = "field" /\ m.proto = Append(d.proto, field.name)
           /\ ReadsAs(field, r, AskedKind(d.file, field), m)
        \/ /\ m.kind = "map" /\ m.proto = Append(d.proto, field.name) /\ r.read = "map"
           /\ \A e \in entry(field) : /\ r.key = AskedType(e.fields[1].type)
                                      /\ r.value[1] = AskedType(e.fields[2].type)
        \/ /\ m.kind = "oneofField" /\ field.oneof # 0 /\ r.read = "oneof"
           /\ \E x \in m.mentions : /\ x.to = Append(d.proto, message.oneofs[field.oneof].name)
                                    /\ x.path = r.type
  IN IF read.failed
     THEN \E m \in members : \E x \in m.mentions : Last(x.path) \in Disallowed
     ELSE \A field \in ToSet(message.fields) :
            PackingIsAsked(d.file, field) =>
              Len(taken(field)) = 1 /\ \E m \in members : isRead(field, taken(field)[1], m)

OneofIsRead(d) ==
  LET members == InSomeOrder(MembersOf(d))
      read == TryOneof(members)
      name == Front(d.proto)
      message == MessageOf([d EXCEPT !.proto = name])
  IN /\ ~read.failed
     /\ \A i \in 1..Len(members) : \E field \in ToSet(message.fields) :
          /\ members[i].proto = Append(name, field.name)
          /\ read.fields[i].tags = <<field.number>>
          /\ d.proto = Append(name, message.oneofs[field.oneof].name)
          /\ ReadsAs(field, read.fields[i], "required", members[i])

EnumIsRead(d) ==
  LET enum == (CHOOSE e \in EnumsOf(d.file) : e.name = d.proto).enum
      first(number) == SelectInSeq(enum.values, LAMBDA v : v.number = number)
      variant(i) == VariantName(enum.name, enum.values[i].name)
  IN /\ DefaultVariant(d.values) = variant(1)
     /\ \A i \in 1..Len(enum.values) :
          TryFrom(d.values, enum.values[i].number) = variant(first(enum.values[i].number))

\* The attributes and the types one crate writes say to the other what the descriptors
\* said: every field is taken by one member of its struct or oneof, with its type, its
\* label and presence, its packing and its default, under its own number; an enumeration
\* starts at its first value and knows every number.  The derive refuses a message only
\* over a type of one of the names it does not allow.
DeriveReadsTheDescriptors ==
  status = "done" =>
    \A d \in Declared :
      CASE d.kind = "struct" -> MessageIsRead(d)
        [] d.kind = "oneof" -> OneofIsRead(d)
        [] d.kind = "enum" -> EnumIsRead(d)

BadExterns ==
  LET entries == config.externs \o (IF config.types THEN WellKnown ELSE <<>>)
  IN \E i \in 1..Len(entries) :
       \/ entries[i].proto = <<>>
       \/ \E j \in 1..(i - 1) : entries[i].proto = entries[j].proto
FileNumbers == 1..Len(files)
AllMessages == UNION {AddMessages(files[f].messages, files[f].package) : f \in FileNumbers}
GroupOnACycle ==
  LET refers == [edges |-> UNION {{<<m.name, g.typeName>> : g \in {x \in ToSet(m.message.fields) :
                                                                   Submessage(x)}} : m \in AllMessages}]
  IN \E m \in AllMessages : \E field \in ToSet(m.message.fields) :
       field.type = "group" /\ m.name \in ReachableFrom(refers, {field.typeName})
OverlappingVariants ==
  \E f \in FileNumbers : \E e \in EnumsOf(f) : \E v, w \in ToSet(e.enum.values) :
    v.number # w.number /\ VariantName(e.enum.name, v.name) = VariantName(e.enum.name, w.name)
EmptyPackage ==
  \E f \in FileNumbers : /\ files[f].services # <<>> /\ config.services # "none"
                         /\ \A item \in out : item.unit # Module(files[f])

\* The build always comes to an end, with all of its output unless something stands
\* against it: extern paths that are taken twice, a syntax of another name, a cycle of messages through a group,
\* enum values of one name, or a package with services and nothing else in it when the
\* service generator wrote nothing.
Completes ==
  <>(CASE status = "done" -> ~BadExterns /\ ~EmptyPackage
       [] status = "error" -> BadExterns
       [] status = "overflow" -> GroupOnACycle
       [] status = "overlap" -> OverlappingVariants
       [] status = "panic" -> EmptyPackage
       [] status = "syntax" -> \E f \in FileNumbers : files[f].syntax = "editions"
       [] OTHER -> FALSE)
=============================================================================
