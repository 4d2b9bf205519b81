CONSTANTS
    Halves <- MCHalves
    Texts <- MCTexts
    Types <- MCTypes
SPECIFICATION Spec
CHECK_DEADLOCK FALSE
INVARIANTS
    NumberIsReadAsWritten
    ConstantErrorsAreRight
