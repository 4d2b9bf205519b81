CONSTANTS
    Names <- MCNames
    Builtins <- MCBuiltins
    Nodes <- DeepNodes
    Programs <- MCPrograms
SPECIFICATION FairSpec
CHECK_DEADLOCK FALSE
INVARIANTS
    TypeOK
    NamesDenoteOneType
    PoolIsSound
    PoolIsComplete
    UnresolvedAreUnresolvable
    NoFalseAlarm
    FailureMatchesReports
    DocumentIsComplete
PROPERTIES
    AnalysisEnds
