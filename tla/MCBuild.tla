------------------------------ MODULE MCBuild ------------------------------
(***************************************************************************)
(* Requests for TLC: small files, in families that each bring one of the   *)
(* questions of the build to its hard cases.  All of them are files protoc *)
(* lets through.                                                           *)
(***************************************************************************)
EXTENDS GeneratedCode

(* The names, with what the case conversions make of them.                 *)
Cased == {"A", "B", "C", "G", "H", "M", "Outer", "Inner", "Deep", "Use", "Kind", "Color", "Option",
          "Box", "Empty", "Timestamp", "Calls", "Get"}
Plain == {"a", "b", "c", "d", "e", "f", "g", "h", "k", "m", "n", "o", "p", "q", "r", "s", "t", "u",
          "ext", "defiant_types", "google", "protobuf", "inner", "choice", "key", "value", "foo_bar"}
Lower == [A |-> "a", B |-> "b", C |-> "c", G |-> "g", H |-> "h", M |-> "m", Outer |-> "outer",
          Inner |-> "inner", Deep |-> "deep", Use |-> "use_", Kind |-> "kind", Color |-> "color",
          Option |-> "option", Box |-> "box", Empty |-> "empty", Timestamp |-> "timestamp",
          Calls |-> "calls", Get |-> "get"]
Upper == [a |-> "A", b |-> "B", c |-> "C", d |-> "D", e |-> "E", f |-> "F", g |-> "G", h |-> "H",
          k |-> "K", m |-> "M", n |-> "N", s |-> "S", inner |-> "Inner", choice |-> "Choice",
          RED |-> "Red", COLOR_RED |-> "ColorRed", BLUE |-> "Blue", COLOR_BLUE |-> "ColorBlue"]
MCSnake == [name \in Cased \cup Plain \cup {"fooBar"} |->
              CASE name \in Cased -> Lower[name] [] name \in Plain -> name [] OTHER -> "foo_bar"]
MCCamel == [name \in Cased \cup DOMAIN Upper |-> IF name \in Cased THEN name ELSE Upper[name]]
Variants4 == {"Red", "ColorRed", "Blue", "ColorBlue"}
MCStrip == [pair \in {"Color", "Kind", "H"} \X Variants4 |->
              CASE pair = <<"Color", "ColorRed">> -> "Red" [] pair = <<"Color", "ColorBlue">> -> "Blue"
                [] OTHER -> pair[2]]
MCNames == {"p", "q", "r", "foo_bar", "google", "protobuf"}
MCRank == [p |-> 4, q |-> 5, r |-> 6, foo_bar |-> 1, google |-> 2, protobuf |-> 3]

Plainly == [path |-> "", stripEnumPrefix |-> TRUE, typeNames |-> FALSE, boxed |-> <<>>, bytes |-> <<>>,
            disableComments |-> <<>>, services |-> "none", externs |-> <<>>, types |-> FALSE,
            include |-> FALSE]
Request(settings, list) == [config |-> settings, files |-> list]
FileOf(package, syntax, messages) == [FileWith(package, syntax) EXCEPT !.messages = messages]
OfType(field, type, name) == [field EXCEPT !.type = type, !.typeName = name]
Letters == <<"a", "b", "c", "d", "e", "f", "g", "h", "k", "m">>
Scalar(i, type) == FieldWith(Letters[i], i, type)
Sub(i, name) == OfType(Scalar(i, "message"), "message", name)
Group(i, name) == OfType(Scalar(i, "group"), "group", name)

(***************************************************************************)
(* Lifetimes and derives: three messages that hold each other.             *)
(***************************************************************************)
Slots == <<"float", "string", "A", "B", "C">>
Pairs == {<<>>, <<"C", "C">>} \cup {<<s>> : s \in ToSet(Slots)}
           \cup {<<Slots[ij[1]], Slots[ij[2]]>> : ij \in {x \in (1..5) \X (1..5) : x[1] < x[2]}}
Slot(i, s) == IF s \in {"A", "B", "C"} THEN Sub(i, <<"p", s>>) ELSE Scalar(i, s)
Holding(name, slots) == MessageWith(name, [i \in 1..Len(slots) |-> Slot(i, slots[i])])
Triples ==
  {Request(Plainly, <<FileOf(<<"p">>, "proto3", <<Holding("A", a), Holding("B", b), Holding("C", c)>>)>>) :
     a \in Pairs, b \in Pairs, c \in {<<"float">>, <<"A">>}}

(* The ways to hold a message.                                             *)
Ways == {"optional", "required", "repeated", "oneof"}
By(way, name) ==
  IF way = "oneof" THEN [Sub(1, name) EXCEPT !.oneof = 1] ELSE [Sub(1, name) EXCEPT !.label = way]
Around(name, way, to) ==
  [MessageWith(name, <<By(way, <<"p", to>>), Scalar(2, "int32")>>) EXCEPT
     !.oneofs = IF way = "oneof" THEN <<[name |-> "choice"]>> ELSE <<>>]
Boxes == {<<>>, <<[path |-> Full(<<"p", "A", "a">>), value |-> TRUE]>>}
Chains ==
  {Request([Plainly EXCEPT !.boxed = boxed],
           <<FileOf(<<"p">>, "proto2", <<Around("A", a, "B"), Around("B", b, "C"), last>>)>>) :
     boxed \in Boxes, a \in Ways, b \in Ways \ {"required"},
     last \in {Around("C", way, "A") : way \in Ways} \cup {Holding("C", <<"float">>)}}

(***************************************************************************)
(* Groups: the message of a group is nested in the message of the field.   *)
(***************************************************************************)
Holder(name, fields, nested) == [MessageWith(name, fields) EXCEPT !.nested = nested]
LoopOfGroups(name) ==
  Holder(name, <<Group(1, <<"p", name, "G">>)>>,
         <<Holder("G", <<Group(1, <<"p", name, "G", "H">>)>>,
                  <<Holder("H", <<Sub(1, <<"p", name>>)>>, <<>>)>>)>>)
LoopOfOneGroup ==
  Holder("M", <<Group(1, <<"p", "M", "G">>)>>, <<Holder("G", <<Sub(1, <<"p", "M">>)>>, <<>>)>>)
GroupOf(fields, label) ==
  Holder("M", <<[Group(1, <<"p", "M", "G">>) EXCEPT !.label = label]>>, <<MessageWith("G", fields)>>)
GroupInOneof(fields) ==
  [Holder("M", <<[Group(1, <<"p", "M", "G">>) EXCEPT !.oneof = 1],
                 [Scalar(2, "int32") EXCEPT !.oneof = 1]>>,
          <<MessageWith("G", fields)>>) EXCEPT !.oneofs = <<[name |-> "choice"]>>]
LoopBehindOneof ==
  [MessageWith("A", <<Scalar(1, "string"), Scalar(2, "float"),
                      [Sub(3, <<"p", "B">>) EXCEPT !.oneof = 1]>>)
     EXCEPT !.oneofs = <<[name |-> "choice"]>>]
Texts == {<<Scalar(1, "string")>>, <<Scalar(1, "int32")>>, <<Scalar(1, "float")>>, <<>>}
Groups ==
  {Request(Plainly, <<FileOf(<<"p">>, "proto2", messages)>>) :
     messages \in {<<LoopOfGroups("M")>>, <<LoopOfOneGroup>>, <<LoopBehindOneof, LoopOfGroups("B")>>}
                  \cup {<<GroupOf(fields, label)>> : fields \in Texts, label \in Labels}
                  \cup {<<GroupInOneof(fields)>> : fields \in Texts}}

(***************************************************************************)
(* Fields: every scalar type, the ways to label and to pack it, defaults.  *)
(***************************************************************************)
Literal(kind, value) == <<[kind |-> kind, value |-> value]>>
DefaultsFor(type) ==
  CASE type \in {"int32", "int64", "sint32", "sint64", "sfixed32", "sfixed64"} ->
         <<Literal("int", 5), Literal("int", -5)>>
    [] type \in {"uint32", "uint64", "fixed32", "fixed64"} -> <<Literal("int", 5), Literal("int", 0)>>
    [] type \in {"float", "double"} ->
         <<Literal("int", 5), Literal("float", "0.5"), Literal("word", "-inf")>>
    [] type = "bool" -> <<Literal("bool", TRUE)>>
    [] type = "string" -> <<Literal("text", "text"), Literal("int", 5)>>
    [] type = "bytes" -> <<Literal("bytes", "text")>>
    [] type = "enum" -> <<Literal("name", "COLOR_BLUE")>>
Color(first) ==
  EnumWith("Color", <<[name |-> "COLOR_RED", number |-> first], [name |-> "RED", number |-> first],
                      [name |-> "COLOR_BLUE", number |-> -1]>>)
Named(field) == IF field.type = "enum" THEN [field EXCEPT !.typeName = <<"p", "Color">>] ELSE field
PackingsOf(type) == IF type \in {"string", "bytes"} THEN <<"none", "unset">>
                    ELSE <<"none", "unset", "true", "false">>
FieldsOf(type, syntax) ==
  LET labelled(label) == [FieldWith("", 0, type) EXCEPT !.label = label]
      repeats == [i \in 1..Len(PackingsOf(type)) |->
                    [labelled("repeated") EXCEPT !.packed = PackingsOf(type)[i]]]
      defaults == [i \in 1..Len(DefaultsFor(type)) |->
                     [labelled("optional") EXCEPT !.default = DefaultsFor(type)[i]]]
      fields == <<labelled("optional")>> \o repeats \o
                (IF syntax = "proto2" THEN <<labelled("required")>> \o defaults
                 ELSE <<[labelled("optional") EXCEPT !.proto3Optional = TRUE, !.oneof = 1]>>)
  IN [i \in 1..Len(fields) |->
        Named([fields[i] EXCEPT !.name = Letters[i], !.number = 2 * (Len(fields) - i) + 1])]
Fields ==
  {Request([Plainly EXCEPT !.stripEnumPrefix = strip],
           <<[FileOf(<<"p">>, syntax,
                     <<[MessageWith("A", FieldsOf(type, syntax))
                          EXCEPT !.oneofs = IF syntax = "proto2" THEN <<>> ELSE <<[name |-> "choice"]>>]>>)
                EXCEPT !.enums = <<Color(IF syntax = "proto2" THEN 2 ELSE 0)>>]>>) :
     strip \in BOOLEAN, syntax \in {"proto2", "proto3"}, type \in Types \ {"message", "group"}}

(***************************************************************************)
(* Names: nested types around a map entry, an oneof that has the name of a *)
(* nested message, a second package, types with names of Rust, extern      *)
(* paths, and the settings that are looked up by name.                     *)
(***************************************************************************)
Entry(value) ==
  [MessageWith("C", <<[FieldWith("key", 1, "string") EXCEPT !.name = "key"],
                      [value EXCEPT !.name = "value", !.number = 2]>>) EXCEPT !.mapEntry = TRUE]
Outer(value) ==
  LET inner == <<"p", "Outer", "Inner">>
      in(o, field) == [field EXCEPT !.oneof = o]
      fields == <<in(1, Sub(1, inner)), [Sub(2, <<"p", "Outer", "C">>) EXCEPT !.label = "repeated"],
                  in(1, OfType(Scalar(3, "enum"), "enum", <<"p", "Outer", "Kind">>)),
                  in(3, [Scalar(4, "int32") EXCEPT !.proto3Optional = TRUE]),
                  in(2, Scalar(5, "string")), Sub(6, <<"p", "Outer", "Deep", "M">>)>>
      deep == Holder("Deep", <<>>, <<Holder("M", <<Sub(1, inner), Scalar(2, "bytes")>>, <<>>)>>)
  IN [Holder("Outer", fields,
             <<Entry(value), Holder("Inner", <<Sub(1, <<"p", "Color">>)>>, <<>>), deep>>)
        EXCEPT !.enums = <<EnumWith("Kind", <<[name |-> "RED", number |-> 0], [name |-> "BLUE", number |-> 1]>>)>>,
               !.oneofs = <<[name |-> "inner"], [name |-> "choice"], [name |-> "d"]>>]
Values == {Scalar(2, "int32"), Sub(2, <<"p", "Outer", "Inner">>), Sub(2, <<"p", "Outer">>),
           OfType(Scalar(2, "enum"), "enum", <<"p", "Outer", "Kind">>)}

Methods == <<[name |-> "Get", input |-> <<"p", "Outer">>, output |-> <<"p", "Color">>]>>
PackageP(value) ==
  [FileOf(<<"p">>, "proto3", <<Outer(value), MessageWith("Color", <<Scalar(1, "int32")>>)>>) EXCEPT
     !.enums = <<EnumWith("H", <<[name |-> "RED", number |-> 0]>>)>>,
     !.services = <<ServiceWith("Calls", Methods)>>]
WellKnownFile ==
  FileOf(<<"google", "protobuf">>, "proto3",
         <<MessageWith("Empty", <<>>), MessageWith("Timestamp", <<Scalar(1, "int64"), Scalar(2, "int32")>>)>>)
Use(package) ==
  LET mine(name) == Append(package, name)
  IN FileOf(package, "proto3",
       <<Holder("Use", <<Sub(1, <<"p", "Outer">>), Sub(2, mine("Option")), Sub(3, Append(mine("Use"), "Option")),
                         OfType(Scalar(4, "enum"), "enum", <<"p", "Outer", "Kind">>)>>,
                <<MessageWith("Option", <<Scalar(1, "string")>>)>>),
         MessageWith("A", <<Sub(1, <<"google", "protobuf", "Empty">>), Sub(2, <<"google", "protobuf", "Timestamp">>),
                            Sub(3, <<"p", "Outer", "Inner">>), Sub(4, mine("M"))>>),
         MessageWith("Option", <<Scalar(1, "float")>>),
         MessageWith("M", <<Sub(1, mine("Box"))>>), MessageWith("Box", <<Scalar(1, "bool")>>)>>)
Other == [proto |-> <<"p", "Outer", "Inner">>, rust |-> <<"crate", "ext", "Inner">>]
Whole == [proto |-> <<"p">>, rust |-> <<"ext">>]
Settings ==
  {[Plainly EXCEPT !.types = TRUE, !.services = "writes", !.externs = externs,
                   !.typeNames = Len(externs) # 1] :
     externs \in {<<>>, <<Other>>, <<Whole>>, <<Other, Whole>>}}
  \cup {[Plainly EXCEPT !.disableComments = <<[path |-> matcher, value |-> TRUE]>>] :
          matcher \in {Full(<<"p", "Outer">>), Suffix(<<"Inner">>), Full(<<"p", "Outer", "a">>), Suffix(<<"b">>),
                       Full(<<>>)}}
NamesOfTypes ==
  {Request(settings, list) :
     settings \in Settings,
     list \in {<<PackageP(v), WellKnownFile, Use(<<"q">>)>> : v \in Values}
              \cup {<<WellKnownFile, PackageP(Scalar(2, "int32")), Use(<<>>)>>,
                    <<WellKnownFile, Use(<<"p", "q">>), PackageP(Sub(2, <<"p", "Outer">>))>>}}

(***************************************************************************)
(* What stops a build.                                                     *)
(***************************************************************************)
Overlapping == EnumWith("Color", <<[name |-> "RED", number |-> 0], [name |-> "COLOR_RED", number |-> 1]>>)
Failing ==
  {Request([Plainly EXCEPT !.externs = externs, !.types = types], <<WellKnownFile>>) :
     types \in BOOLEAN,
     externs \in {<<Other, Whole, Other>>, <<[proto |-> <<>>, rust |-> <<"ext">>]>>,
                  <<[proto |-> <<"google", "protobuf">>, rust |-> <<"ext">>]>>}}
  \cup {Request([Plainly EXCEPT !.stripEnumPrefix = strip],
                <<[FileWith(<<"p">>, "proto3") EXCEPT !.enums = <<Overlapping>>]>>) : strip \in BOOLEAN}
  \cup {Request(Plainly, <<FileWith(<<"p">>, "editions")>>)}

(***************************************************************************)
(* Modules: files with a message, an enum, a service or nothing, in        *)
(* packages that are below each other, or fall on one module.              *)
(***************************************************************************)
Packages == {<<>>, <<"p">>, <<"p", "q">>, <<"p", "q", "r">>, <<"p", "r">>, <<"q">>,
             <<"fooBar">>, <<"foo_bar">>}
Service(type) == ServiceWith("Calls", <<[name |-> "Get", input |-> type, output |-> type]>>)
Filled(package, name, content) ==
  CASE content = "message" -> FileOf(package, "proto3", <<MessageWith(name, <<Scalar(1, "string")>>)>>)
    [] content = "service" -> [FileWith(package, "proto3") EXCEPT !.services = <<Service(<<"r", "M">>)>>]
    [] content = "nothing" -> FileWith(package, "proto3")
Common == FileOf(<<"r">>, "proto3", <<MessageWith("M", <<Scalar(1, "string")>>)>>)
Modules ==
  {Request([Plainly EXCEPT !.services = services, !.include = TRUE],
           <<Common, Filled(p, "A", a), Filled(q, "B", b)>>) :
     services \in {"none", "silent", "writes"}, p \in {<<"p">>, <<"fooBar">>}, q \in {<<"p">>, <<"foo_bar">>},
     a \in {"message", "service", "nothing"}, b \in {"message", "service", "nothing"}}
  \cup {Request([Plainly EXCEPT !.include = TRUE],
                <<Filled(p, "A", "message"), Filled(q, "B", "message"), Filled(r, "C", "message")>>) :
          p \in Packages, q \in Packages, r \in Packages}

MCRequests == Triples \cup Chains \cup Groups \cup Fields \cup NamesOfTypes \cup Failing \cup Modules

(* Their messages, nested ones as well. *)
RECURSIVE WithNested(_)
WithNested(messages) == UNION {{m} \cup WithNested(ToSet(m.nested)) : m \in messages}
MessagesOf(requests) ==
  WithNested(UNION {UNION {ToSet(f.messages) : f \in ToSet(r.files)} : r \in requests})
MCMessages == MessagesOf(MCRequests)
=============================================================================
