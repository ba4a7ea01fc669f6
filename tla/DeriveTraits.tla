---------------------------- MODULE DeriveTraits ----------------------------
(***************************************************************************)
(* context.rs: whether a generated type can derive Copy and Eq.  Both      *)
(* questions recurse over the types of the fields, and the first answer    *)
(* that is not "yes" is the answer.  The functions have no state, so one   *)
(* that is called again for a type whose call is still open calls itself   *)
(* without end: the answer is "diverges", the program dies of its stack.   *)
(***************************************************************************)
EXTENDS MessageGraph, ProtoPaths

CopyTypes == Types \ {"message", "group", "string", "bytes"}
EqTypesWithFloats == Types \ {"message", "group"}
EqTypes == Types \ {"message", "group", "float", "double"}

(* all of an iterator over the fields: the first answer that is not "yes". *)
AllOf(fields, answers) ==
  LET from[i \in 1..(Len(fields) + 1)] ==
        IF i > Len(fields) THEN "yes"
        ELSE LET first == answers[i] IN IF first # "yes" THEN first ELSE from[i + 1]
  IN from[1]

(* A question is a message, and the messages whose calls are open.         *)
Questions(graph) == (DOMAIN graph.messages) \X (SUBSET DOMAIN graph.messages)

(* boxed: the matchers of Config::boxed; answer: of every question; open:  *)
(* the calls that are open.                                                *)
CopyOfField(graph, boxed, name, field, answer, open) ==
  CASE field.label = "repeated" -> "no"
    [] field.label # "repeated" /\ ~Submessage(field) ->
         IF field.type \in CopyTypes THEN "yes" ELSE "no"
    [] field.label # "repeated" /\ Submessage(field) ->
         IF \/ IsNested(graph, field.typeName, name)
            \/ GetFirstField(boxed, name, field.name, FALSE)
         THEN "no" ELSE answer[<<field.typeName, open>>]

EqOfField(graph, name, field, answer, open) ==
  CASE field.type = "message" ->
         IF field.label = "repeated" \/ IsNested(graph, field.typeName, name)
         THEN "no" ELSE answer[<<field.typeName, open>>]
    [] field.type # "message" -> IF field.type \in EqTypes THEN "yes" ELSE "no"

CopyOfFields(graph, boxed, name, fields, answer, open) ==
  AllOf(fields, [i \in DOMAIN fields |-> CopyOfField(graph, boxed, name, fields[i], answer, open)])
EqOfFields(graph, name, fields, answer, open) ==
  AllOf(fields, [i \in DOMAIN fields |-> EqOfField(graph, name, fields[i], answer, open)])

CopyAnswers(graph, boxed) ==
  LET answer[q \in Questions(graph)] ==
        IF q[1] \in q[2] THEN "diverges"
        ELSE CopyOfFields(graph, boxed, q[1], graph.messages[q[1]].fields, answer, q[2] \cup {q[1]})
  IN answer

EqAnswers(graph) ==
  LET answer[q \in Questions(graph)] ==
        IF q[1] \in q[2] THEN "diverges"
        ELSE EqOfFields(graph, q[1], graph.messages[q[1]].fields, answer, q[2] \cup {q[1]})
  IN answer

CanMessageDeriveCopy(graph, boxed, name) == CopyAnswers(graph, boxed)[<<name, {}>>]
CanMessageDeriveEq(graph, name) == EqAnswers(graph)[<<name, {}>>]

CanFieldsDeriveCopy(graph, boxed, name, fields) ==
  CopyOfFields(graph, boxed, name, fields, CopyAnswers(graph, boxed), {})
CanFieldsDeriveEq(graph, name, fields) ==
  EqOfFields(graph, name, fields, EqAnswers(graph), {})
=============================================================================
