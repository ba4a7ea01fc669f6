------------------------ MODULE WireDecodeRefinement ------------------------
(***************************************************************************)
(* merge_loop compares a length with the whole buffer, not with the frame  *)
(* around it, so a child may read past its parent's end, and the parent    *)
(* notices only when the child returns.  Nothing such an input does may    *)
(* end in Ok: WireDecode implements WellNested, where a child that leaves  *)
(* its parent is rejected at once.                                         *)
(***************************************************************************)
EXTENDS WireDecode, FiniteSetsExt

(* A frame whose length reaches past the end of a frame around it, or whose *)
(* end has been read over.                                                 *)
Strayed ==
  \E i \in 1 .. Len(stack) :
    /\ Delimited(stack[i])
    /\ \/ pos > stack[i].end
       \/ \E j \in i + 1 .. Len(stack) : Delimited(stack[j]) /\ stack[j].end > stack[i].end

Rejected == result \in Errors \/ Strayed

(* A group may run to the end of the nearest frame that has one. *)
EnclosingEnd(i) ==
  Min({BufLen} \union {stack[j].end : j \in {j \in 1 .. i : Delimited(stack[j])}})

(* The refinement mapping. *)
Cursor  == IF Rejected THEN 0 ELSE pos
Opened  == IF Rejected THEN << >>
           ELSE [i \in 1 .. Len(stack) |-> [end |-> EnclosingEnd(i), exact |-> Delimited(stack[i])]]
Verdict == IF Rejected THEN "rejected"
           ELSE IF result = "ok" THEN "accepted" ELSE "undecided"

Abstract == INSTANCE WellNested WITH
  cursor <- Cursor, open <- Opened, verdict <- Verdict

(* An input the decoder accepts is well nested: no nested message, map     *)
(* entry, packed run or group of it ever crossed the end of the element    *)
(* around it, although merge_loop looks at that end only after the child   *)
(* has returned.                                                           *)
ImplementsWellNested == Abstract!AbsSpec

=============================================================================
