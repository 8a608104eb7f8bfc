------------------------------- MODULE MCFeed -------------------------------
(* Small instances of Feed: two users with a play each.                      *)
EXTENDS Feed

CONSTANTS u1, u2, p1, p2

TwoUsers == {u1, u2}
OneUser == {u1}
TwoPlays == {p1, p2}
OnePlay == {p1}
Own == [p \in Plays |-> IF p = p1 THEN u1 ELSE u2]
=============================================================================
