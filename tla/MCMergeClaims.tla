---------------------------- MODULE MCMergeClaims ---------------------------
(* Sets of fields for the claims. *)
EXTENDS MergeClaims

NoArenaData == {"plain", "opt", "child", "number"}
ScalarsOnly == {"plain", "opt", "list"}
=============================================================================
