SPECIFICATION Spec
CONSTANTS
    ann = ann
    ben = ben
    r1 = r1
    Nobody = Nobody
    Never = Never
    Users <- TwoUsers
    Requests <- OneRequest
    receiver <- AnnIsAsked
    MaxTime = 1
    MaxSignIns = 3
    MaxLaunches = 3
INVARIANTS TypeOK NotifiedOnce
PROPERTIES Notified
CHECK_DEADLOCK FALSE
