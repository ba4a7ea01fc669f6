---------------------------- MODULE MergeClaims -----------------------------
(***************************************************************************)
(* What the documentation and the tests say of decoding into a message,    *)
(* and the generated code does not keep for every kind of message.         *)
(***************************************************************************)
EXTENDS MessageMerge

(* message.rs, Decode::merge: "Decodes an instance of the message from a   *)
(* buffer, and merges it into `self`" - a nested message that occurs twice *)
(* is merged.  (The Decode impl of the view of a message without arena     *)
(* data starts the nested builder from nothing, where the builder of the   *)
(* same message continues the value it has.)                               *)
MergesIntoSelf ==
  phase = "first" /\ Outside /\ Given({"child"}) # << >> =>
    builder.child = <<ChildOf(Trails(Given({"child"})))>>

(* any.rs, check_any_serialization: what from_msg encoded, to_msg decodes  *)
(* to an equal message.  (to_msg uses Decode::decode, whose new_in takes   *)
(* the zero of each type where the encoder left out the declared default.) *)
DecodedEqualsEncoded ==
  phase = "second" /\ result = "frozen" => builder = view
=============================================================================
