SPECIFICATION ReliableSpec
CONSTANTS
    u1 = u1
    u2 = u2
    u3 = u3
    p1 = p1
    p2 = p2
    r1 = r1
    r2 = r2
    r3 = r3
    Unread = Unread
    Users <- TwoUsers
    Plays <- TwoPlays
    Requests <- TwoRequests
    finderId <- OneFinder
    senderId <- Senders
    playId <- ForP1
    MaxOps = 2
    MaxTangled = 2
INVARIANTS FinderGoes
