---------------------------- MODULE WaitingLines ----------------------------
(***************************************************************************)
(* What the PlayOne page promises: one first-come, first-served line per   *)
(* court.  A user waits in at most one line, joins at its end, and leaves  *)
(* from anywhere without changing the order of the others.                 *)
(***************************************************************************)
EXTENDS Sequences, SequencesExt

CONSTANTS Users, Courts

VARIABLE line    \* line[c]: who waits for court c, first come first

Init == line = [c \in Courts |-> <<>>]

Waits(u) == \E c \in Courts : Contains(line[c], u)

Join(u, c) ==
    /\ ~Waits(u)
    /\ line' = [line EXCEPT ![c] = Append(@, u)]

Leave(u, c) ==
    \E i \in DOMAIN line[c] :
        /\ line[c][i] = u
        /\ line' = [line EXCEPT ![c] = RemoveAt(@, i)]

Next == \E u \in Users, c \in Courts : Join(u, c) \/ Leave(u, c)

Spec == Init /\ [][Next]_line
=============================================================================
