CONSTANTS
    Arguments <- MCArguments
    MaxArguments = 4
    Codes <- MCCodes
    ClassOf <- MCClassOf
    MaxEmitted = 4
    MaxExpected = 3
SPECIFICATION ProgramFairSpec
CHECK_DEADLOCK FALSE
INVARIANTS
    ProgramTypeOK
    ReadAsGiven
    OutputIsAccountedFor
    VerdictIsRight
PROPERTIES
    ImplementsBag
    ProgramEnds
