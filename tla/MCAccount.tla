----------------------------- MODULE MCAccount ------------------------------
(* Small instances of Account: one phone that two people share, or two       *)
(* people with a phone each.                                                 *)
EXTENDS Account

CONSTANTS ph1, ph2, a1, a2, i1, i2, d1, d2, d3

OnePhone == {ph1}
TwoPhones == {ph1, ph2}
OneUser == {a1}
TwoUsers == {a1, a2}
TwoIds == {i1, i2}
TwoDocs == {d1, d2}
ThreeDocs == {d1, d2, d3}

Shared == [ph \in Phones |-> AppleUsers]
Own == [ph \in Phones |-> IF ph = ph1 THEN {a1} ELSE {a2}]
=============================================================================
