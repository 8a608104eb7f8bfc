SPECIFICATION Spec
CONSTANTS
    ph1 = ph1
    ph2 = ph2
    a1 = a1
    a2 = a2
    i1 = i1
    i2 = i2
    d1 = d1
    d2 = d2
    d3 = d3
    None = None
    Phones <- OnePhone
    AppleUsers <- TwoUsers
    Ids <- TwoIds
    Docs <- ThreeDocs
    signers <- Shared
    MaxOps = 12
    MaxHasty = 6
INVARIANTS TypeOK LaunchFinds SessionAgrees OneAccount IdsUnique OwnPhoto
PROPERTIES OwnerFixed LaunchEnds
