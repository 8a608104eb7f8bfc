---------------------------- MODULE MCCourtQueue ----------------------------
(* A small instance of CourtQueue. *)
EXTENDS CourtQueue

CONSTANTS u1, u2, c1, c2

OneUser == {u1}
TwoUsers == {u1, u2}
TwoCourts == {c1, c2}
OneCourt == {c1}
Shown == [c \in Courts |-> IF c = c1 THEN 1 ELSE 2]
=============================================================================
