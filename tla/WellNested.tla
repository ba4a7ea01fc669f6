----------------------------- MODULE WellNested -----------------------------
(***************************************************************************)
(* What a decoder of nested, length-delimited data promises, without a     *)
(* word of how: it reads forward, every element it opens lies inside the   *)
(* one around it, it never reads past the end of an open element, and an   *)
(* element with a length is closed exactly at its end.  An input is        *)
(* accepted only when every element has been closed that way.              *)
(***************************************************************************)
EXTENDS Integers, Sequences

CONSTANT BufLen   (* bytes in the buffer *)

VARIABLES
  cursor,   (* bytes read; zero once the input is rejected                 *)
  open,     (* the open elements, innermost last                           *)
  verdict   (* "undecided", "accepted" or "rejected"                       *)

avars == <<cursor, open, verdict>>

(* exact: the element must end at its end (it has a length); otherwise it  *)
(* ends at a mark found in the input, at the latest there.                 *)
Elements == [end : 0 .. BufLen, exact : BOOLEAN]

Bound == IF open = << >> THEN BufLen ELSE open[Len(open)].end

AbsInit == cursor = 0 /\ open = << >> /\ verdict = "undecided"

Read ==
  /\ verdict = "undecided" /\ open # << >>
  /\ cursor' \in cursor + 1 .. Bound
  /\ UNCHANGED <<open, verdict>>

(* Its head (a length) is read in the same step. *)
Open ==
  /\ verdict = "undecided"
  /\ \E e \in Elements :
       /\ e.end <= Bound
       /\ cursor' \in cursor .. e.end
       /\ open' = Append(open, e)
  /\ UNCHANGED verdict

Close ==
  /\ verdict = "undecided" /\ open # << >>
  /\ open[Len(open)].exact => cursor = Bound
  /\ open' = SubSeq(open, 1, Len(open) - 1)
  /\ verdict' = IF Len(open) = 1 THEN "accepted" ELSE "undecided"
  /\ UNCHANGED cursor

Reject ==
  /\ verdict = "undecided"
  /\ verdict' = "rejected" /\ open' = << >> /\ cursor' = 0

AbsNext == Read \/ Open \/ Close \/ Reject

AbsSpec == AbsInit /\ [][AbsNext]_avars

=============================================================================
