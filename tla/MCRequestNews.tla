--------------------------- MODULE MCRequestNews ----------------------------
(* A small instance of RequestNews: ann is asked, ben shares her phone. *)
EXTENDS RequestNews

CONSTANTS ann, ben, r1

TwoUsers == {ann, ben}
OneRequest == {r1}
AnnIsAsked == [r \in OneRequest |-> ann]
=============================================================================
