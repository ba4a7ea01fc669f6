----------------------------- MODULE MCCalendar -----------------------------
(* Bounds for model checking Calendar: the ends of a cfg value that a cfg  *)
(* cannot write, and the years around every special case of the code.      *)
EXTENDS Calendar

MCFirstYear == -6063

(* the ends of the range, the signs and widths of a year, each kind of     *)
(* century, the fast path 1901 .. 2038 and its neighbours                  *)
MCWatched ==
  (-6062 .. -6060) \union (-2 .. 1) \union {-401, -400, -399, 1600}
    \union (1699 .. 1701) \union (1896 .. 1905) \union (1967 .. 1973)
    \union (1999 .. 2001) \union (2036 .. 2041) \union (2099 .. 2101) \union (2399 .. 2401)
    \union (9999 .. 10001)

MCSampleDays == {<<1, 1>>, <<2, 28>>, <<2, 29>>, <<7, 1>>, <<12, 31>>}

(* nothing, one, two and three groups of digits; not normalized, below zero *)
MCSampleNanos == {0, 1, 2, 4, 7, 9, 20, -1, -8, -9}
=============================================================================
