------------------------------- MODULE Lists --------------------------------
(***************************************************************************)
(* The one list operation of Swift that the community modules' operators   *)
(* cannot be cited for in a proof.                                         *)
(***************************************************************************)
EXTENDS Naturals, Sequences, SequencesExt

\* remove(at: firstIndex(of: e)), or s if e is not in it.
RemovingFirst(s, e) ==
    IF ~Contains(s, e) THEN s
    ELSE [i \in 1..(Len(s) - 1) |-> IF \E k \in 1..i : s[k] = e
                                   THEN s[i + 1] ELSE s[i]]
=============================================================================
