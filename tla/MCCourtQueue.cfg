SPECIFICATION Spec
CONSTANTS
    u1 = u1
    u2 = u2
    c1 = c1
    c2 = c2
    NoCourt = NoCourt
    Unread = Unread
    Users <- TwoUsers
    Courts <- TwoCourts
    order <- Shown
    MaxFetches = 1
    MaxOps = 2
INVARIANTS TypeOK OnlyTapped ButtonsAgree CancelsOwnCourt
 
