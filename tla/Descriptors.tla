---------------------------- MODULE Descriptors ----------------------------
(***************************************************************************)
(* The descriptors protoc hands to defiant-build, as the generator reads   *)
(* them: a file has messages, enums and services, a message has fields,    *)
(* nested messages and enums, and oneofs.  A name is a string and a        *)
(* fully-qualified one the sequence of its parts, so ".p.Outer.Inner" is   *)
(* <<"p", "Outer", "Inner">>.  What the two case conversions make of a     *)
(* name is given by Snake and Camel.                                       *)
(***************************************************************************)
EXTENDS Integers, Sequences, SequencesExt, FiniteSets, Functions, TLC

CONSTANTS
  Snake,    \* to_snake: the name of a module or a field
  Camel     \* to_upper_camel: the name of a type or a variant

VarintTypes == {"int32", "int64", "uint32", "uint64", "sint32", "sint64"}
FixedTypes == {"fixed32", "fixed64", "sfixed32", "sfixed64"}
FloatTypes == {"float", "double"}
Types == VarintTypes \cup FixedTypes \cup FloatTypes
           \cup {"bool", "enum", "string", "bytes", "message", "group"}
Labels == {"optional", "required", "repeated"}

(* The types whose field names another declaration. *)
Submessage(field) == field.type \in {"message", "group"}

(***************************************************************************)
(* What descriptor.proto declares, with the values the accessors give to   *)
(* what is absent.  The options of a field are abstracted to its packed    *)
(* option: "none" when the field has no options at all, "unset" when it    *)
(* has some, and this one is not among them.  A default is a literal, of a *)
(* kind and with a value, in a sequence that is empty for none.            *)
(***************************************************************************)
FieldWith(name, number, type) ==
  [name |-> name, number |-> number, label |-> "optional", type |-> type,
   typeName |-> <<>>, oneof |-> 0, proto3Optional |-> FALSE,
   packed |-> "none", default |-> <<>>]

MessageWith(name, fields) ==
  [name |-> name, fields |-> fields, nested |-> <<>>, enums |-> <<>>,
   oneofs |-> <<>>, mapEntry |-> FALSE]

EnumWith(name, values) == [name |-> name, values |-> values]

ServiceWith(name, methods) == [name |-> name, methods |-> methods]

FileWith(package, syntax) ==
  [package |-> package, syntax |-> syntax,
   messages |-> <<>>, enums |-> <<>>, services |-> <<>>]

(***************************************************************************)
(* A SourceCodeInfo path leads from the file to an element in steps of two *)
(* numbers: a field of descriptor.proto and an index in the list there.    *)
(***************************************************************************)
Within(element, number) ==
  LET has(field) == field \in DOMAIN element
  IN CASE number = 2 /\ has("fields") -> element.fields
       [] number = 2 /\ has("values") -> element.values
       [] number = 2 /\ has("methods") -> element.methods
       [] number = 3 /\ has("nested") -> element.nested
       [] number = 4 /\ has("nested") -> element.enums
       [] number = 4 /\ has("messages") -> element.messages
       [] number = 5 /\ has("messages") -> element.enums
       [] number = 6 /\ has("services") -> element.services
       [] number = 8 /\ has("oneofs") -> element.oneofs
       [] OTHER -> <<>>

Nowhere == [element |-> <<>>, name |-> <<>>]
Step(at, number, index) ==
  LET list == Within(at.element, number)
  IN IF index < Len(list)
     THEN [element |-> list[index + 1], name |-> Append(at.name, list[index + 1].name)]
     ELSE Nowhere

(* The element, and its name. *)
Reached(file, path) ==
  LET after[i \in 0..(Len(path) \div 2)] ==
        IF i = 0 THEN [element |-> file, name |-> file.package]
        ELSE Step(after[i - 1], path[2 * i - 1], path[2 * i])
  IN after[Len(path) \div 2]

ElementAt(file, path) == Reached(file, path).name
=============================================================================
