CONSTANTS
    Arguments <- MCArguments
    MaxArguments = 4
    Codes <- MCCodes
    ClassOf <- MCClassOf
    MaxEmitted = 4
    MaxExpected = 3
SPECIFICATION ProgramSpec
CHECK_DEADLOCK FALSE
INVARIANTS
    UnexpectedIsFailure
