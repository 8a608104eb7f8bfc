SPECIFICATION Spec
CONSTANTS
    p1 = p1
    p2 = p2
    Unread = Unread
    Gone = Gone
    None = None
    Plays <- TwoPlays
    mine <- OneIsMine
    listed <- Both
    MaxVersion = 1
    MaxOps = 3
    MaxChanges = 1
    MaxTimers = 1
INVARIANTS TypeOK NothingLeftUp RowsCurrent
PROPERTIES HudGoes
CHECK_DEADLOCK FALSE
