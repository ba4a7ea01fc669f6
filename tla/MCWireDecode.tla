---------------------------- MODULE MCWireDecode ----------------------------
(* Small schemas for model checking WireDecode. *)
EXTENDS WireDecodeRefinement, TLC

(* every kind of frame, no leaves but unknown fields *)
NestingSchema == 1 :> "message" @@ 2 :> "group" @@ 3 :> "message_map"
(* the remaining kinds of field; tag 5 is unknown *)
FieldsSchema == 1 :> "repeated_group" @@ 2 :> "map" @@ 3 :> "packed" @@ 4 :> "fixed32"
=============================================================================
