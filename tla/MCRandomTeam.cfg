SPECIFICATION Spec
CONSTANTS
    Players <- SixPlayers
    Genders <- WomenFirst
    Levels <- Rising
    TeamSize = 2
\* The page is done once the teams are shown.
CHECK_DEADLOCK FALSE
INVARIANTS FairTeams BalancedTeams
