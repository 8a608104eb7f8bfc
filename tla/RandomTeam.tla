----------------------------- MODULE RandomTeam -----------------------------
(***************************************************************************)
(* Dividing the players of a play into three teams:                        *)
(* RandomTeamViewController.generateRandomTeamWithLevel.                   *)
(*                                                                         *)
(* The players are shuffled, sorted by gender, dealt to the teams in turn, *)
(* and dealt again until the average levels of the teams differ by less    *)
(* than half a level.  A player's level is the sum of five marks of 0..3;  *)
(* the code divides it by five and the sum over a team by the team's size, *)
(* in doubles, so a difference of exactly one half may be rounded to       *)
(* either side: whether such a deal is accepted is left open.              *)
(***************************************************************************)
EXTENDS Naturals, Sequences, FiniteSets, SequencesExt

CONSTANTS
    Players,    \* the players the page was opened with
    Genders,    \* the assignments of gender to players to be considered
    Levels,     \* the assignments of levels to be considered
    TeamSize    \* 6 in the code, on a page opened with 18 players

ASSUME RandomTeamAssumption ==
    /\ TeamSize \in Nat \ {0}
    /\ IsFiniteSet(Players) /\ Cardinality(Players) = 3 * TeamSize
    /\ Genders \subseteq [Players -> {0, 1}]
    /\ Levels \subseteq [Players -> 0..15]

VARIABLES
    gender, level,         \* of each player, as fetched
    shuffledPlayerUsers,   \* the three teams of the last deal
    page                   \* "dealing", or "labelled" when the teams are shown

vars == <<gender, level, shuffledPlayerUsers, page>>

Init ==
    /\ gender \in Genders
    /\ level \in Levels
    /\ shuffledPlayerUsers = [t \in 1..3 |-> <<>>]
    /\ page = "dealing"

-----------------------------------------------------------------------------

Of(g) == {p \in Players : gender[p] = g}

\* What a shuffle followed by the sort by gender can produce.
Orders == {a \o b : a \in SetToSeqs(Of(0)), b \in SetToSeqs(Of(1))}

DealBlocks(o) ==        \* mutant: a team is filled before the next one
    [t \in 1..3 |-> SubSeq(o, (t - 1) * TeamSize + 1, t * TeamSize)]

\* nthTotal goes round 0, 1, 2.
Deal(o) == [t \in 1..3 |-> [k \in 1..TeamSize |-> o[3 * (k - 1) + t]]]

LevelSum(team) ==
    LET sum[k \in 0..Len(team)] == IF k = 0 THEN 0 ELSE sum[k - 1] + level[team[k]]
    IN sum[Len(team)]

Diff(teams, s, t) ==
    LET m == LevelSum(teams[s])
        n == LevelSum(teams[t])
    IN IF m < n THEN n - m ELSE m - n

AveDiffsOfNeighbours(teams) ==      \* mutant: a pair is missing
    {Diff(teams, 1, 2), Diff(teams, 3, 2)}

\* The differences of all pairs of teams, in marks, and half a level of each
\* of a team's TeamSize players in each of the five marks.
AveDiffs(teams) == {Diff(teams, 1, 2), Diff(teams, 3, 2), Diff(teams, 1, 3)}

Even(teams)   == \A d \in AveDiffs(teams) : 2 * d < 5 * TeamSize
AtHalf(teams) == \A d \in AveDiffs(teams) : 2 * d <= 5 * TeamSize

\* One round of the loop of calculateMaxAverageLevelDifference; when it
\* returns, putNameIntoLabels shows the teams.
Accept(o) ==
    /\ page = "dealing"
    /\ shuffledPlayerUsers' = Deal(o)
    /\ AtHalf(Deal(o))
    /\ page' = "labelled"
    /\ UNCHANGED <<gender, level>>

DealAgain(o) ==
    /\ page = "dealing"
    /\ shuffledPlayerUsers' = Deal(o)
    /\ ~Even(Deal(o))
    /\ UNCHANGED <<gender, level, page>>

Next == \E o \in Orders : Accept(o) \/ DealAgain(o)

\* The loop draws again until a deal is accepted.  That an even deal, if there
\* is one, is drawn sooner or later has probability one but is no fairness of
\* the code, so nothing is said of the loop's end.
Spec == Init /\ [][Next]_vars

-----------------------------------------------------------------------------

\* The labels have a player each, everybody has one label, and no team has two
\* players of a gender more than another.
FairTeams ==
    page = "labelled" =>
        LET team(t) == ToSet(shuffledPlayerUsers[t])
            women(t) == Cardinality(team(t) \cap Of(0))
        IN
        /\ \A t \in 1..3 : Len(shuffledPlayerUsers[t]) = TeamSize
        /\ UNION {team(t) : t \in 1..3} = Players
        /\ \A s, t \in 1..3 : women(s) <= women(t) + 1

\* VolleyerTests.testMaxAverageDifference: no two of the teams shown differ by
\* more than half a level in their average.
BalancedTeams ==
    page = "labelled" => \A s, t \in 1..3 :
        2 * LevelSum(shuffledPlayerUsers[s]) <=
            2 * LevelSum(shuffledPlayerUsers[t]) + 5 * TeamSize
=============================================================================
