---------------------------- MODULE MCRandomTeam ----------------------------
(* Teams of two: two or three women among six players, the later ones of     *)
(* higher level.                                                           *)
(* With teams of two, half a level is five marks.                          *)
EXTENDS RandomTeam

SixPlayers == 1..6
WomenFirst == {[p \in 1..6 |-> IF p <= n THEN 0 ELSE 1] : n \in {2, 3}}
Rising == {f \in [1..6 -> {2, 7, 15}] :
             /\ \A p \in 1..5 : f[p] <= f[p + 1]
             /\ f[2] = f[1] /\ f[5] = f[6]}
=============================================================================
