----------------------------- MODULE Membership -----------------------------
(***************************************************************************)
(* What the app promises about who is on the roster of a play, whatever    *)
(* the order and the fate of the calls that maintain it: a play is posted  *)
(* with its finder, players come from the set of accepted senders, a       *)
(* deleted play has nobody and never returns.  It does not promise that an *)
(* accepted sender is on the roster, nor that a cancelled one is not.      *)
(***************************************************************************)
CONSTANTS Users, Plays, finderId

VARIABLES
    life,      \* life[p]: "none", "live" or "gone"
    roster,    \* roster[p]: the users on the roster of p
    accepted   \* <<u, p>>: the finder of p accepted u

vars == <<life, roster, accepted>>

Init ==
    /\ life = [p \in Plays |-> "none"]
    /\ roster = [p \in Plays |-> {}]
    /\ accepted = {}

Publish(p) ==
    /\ life[p] = "none"
    /\ life' = [life EXCEPT ![p] = "live"]
    /\ roster' = [roster EXCEPT ![p] = {finderId[p]}]
    /\ UNCHANGED accepted

Accept(u, p) ==
    /\ u # finderId[p]
    /\ accepted' = accepted \cup {<<u, p>>}
    /\ UNCHANGED <<life, roster>>

\* Players come and go, the finder stays.
Change(p) ==
    /\ life[p] = "live"
    /\ \E players \in SUBSET {u \in Users : <<u, p>> \in accepted} :
         roster' = [roster EXCEPT ![p] = {finderId[p]} \cup players]
    /\ UNCHANGED <<life, accepted>>

\* Deleting a play that was never stored, or twice, has no further effect.
Delete(p) ==
    /\ life[p] # "none"
    /\ life' = [life EXCEPT ![p] = "gone"]
    /\ roster' = [roster EXCEPT ![p] = {}]
    /\ UNCHANGED accepted

Next ==
    \E p \in Plays :
        \/ Publish(p) \/ Change(p) \/ Delete(p)
        \/ \E u \in Users : Accept(u, p)

Spec == Init /\ [][Next]_vars
=============================================================================
