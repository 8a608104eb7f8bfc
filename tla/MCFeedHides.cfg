SPECIFICATION Spec
CONSTANTS
    u1 = u1
    u2 = u2
    p1 = p1
    p2 = p2
    Unread = Unread
    Users <- OneUser
    Plays <- OnePlay
    finder <- Own
    MaxOps = 4
    MaxFetches = 2
    MaxEdits = 2
INVARIANTS FeedHidesBlocked
