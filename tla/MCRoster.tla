------------------------------ MODULE MCRoster ------------------------------
(* A small instance of Roster: u1 posts two plays, u2 and u3 ask to join.  *)
EXTENDS Roster

CONSTANTS u1, u2, u3, p1, p2, r1, r2, r3

TwoUsers == {u1, u2}
ThreeUsers == {u1, u2, u3}
OnePlay == {p1}
TwoPlays == {p1, p2}
TwoRequests == {r1, r2}
ThreeRequests == {r1, r2, r3}

OneFinder == [p \in Plays |-> u1]

\* r1 and r2 are the same user's two requests for p1, r3 is another user's.
Senders == [r \in Requests |-> IF r = r3 THEN u3 ELSE u2]
ForP1 == [r \in Requests |-> p1]

\* RemovingFirst, stated for the provers, is the library's RemoveFirst.
ASSUME \A s \in UNION {[1..n -> Users] : n \in 0..4}, u \in Users :
           RemovingFirst(s, u) = RemoveFirst(s, u)
=============================================================================
