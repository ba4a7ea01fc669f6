--------------------------- MODULE MCMessageMerge ---------------------------
(* Sets of fields for model checking MessageMerge. *)
EXTENDS MessageMerge

(* All kinds but the group variant of a oneof, which no merge arm reads.   *)
NoGroup == {"plain", "opt", "list", "must", "child", "item", "number", "message", "entry"}
=============================================================================
