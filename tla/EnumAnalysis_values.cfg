CONSTANTS
    Halves <- MCHalves
    Enums <- MCEnums
SPECIFICATION Spec
CHECK_DEADLOCK FALSE
INVARIANTS
    TypeOK
    PrintedAsMeant
    SelectedTypeIsSmallest
    NothingTruncated
    ErrorsAreRight
