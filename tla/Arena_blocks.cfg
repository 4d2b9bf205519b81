CONSTANTS
    Align = 4
    Header = 6
    ChunkSize = 12
    Sizes <- MCSizes
    MaxBlocks = 5
SPECIFICATION Spec
CHECK_DEADLOCK FALSE
INVARIANTS
    TypeOK
    BlocksStayInside
    BlocksAreDisjoint
    BlocksAreAligned
