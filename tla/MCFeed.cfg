SPECIFICATION Spec
CONSTANTS
    u1 = u1
    u2 = u2
    p1 = p1
    p2 = p2
    Unread = Unread
    Users <- TwoUsers
    Plays <- TwoPlays
    finder <- Own
    MaxOps = 3
    MaxFetches = 2
    MaxEdits = 2
INVARIANTS TypeOK BlockListSet FeedShowsVisible BlockLedger
PROPERTIES HudEnds
