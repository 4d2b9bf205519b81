CONSTANTS
    Disks <- MCDisks
    Root <- MCRoot
    MaxHandles = 8
SPECIFICATION Spec
CHECK_DEADLOCK FALSE
INVARIANTS
    TypeOK
    ReadInOrder
    EveryProblemIsReported
    HandlesAreReturned
