----------------------------- MODULE MCMyPlays ------------------------------
(* A small instance of MyPlays: the user has posted p1 and takes part in p2. *)
EXTENDS MyPlays

CONSTANTS p1, p2

TwoPlays == {p1, p2}
OneIsMine == {p1}
Both == <<p1, p2>>
=============================================================================
