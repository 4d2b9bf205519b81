CONSTANTS
    S = S
    F = F
    n2 = n2
    n3 = n3
    nul = nul
    p = p
    q = q
    None = None
    NamedTypes <- MCNamedTypes
    FunctionAliases <- MCFunctionAliases
    PointerIds <- MCPointerIds
    Sentinels <- MCSentinels
    Sizes <- MCSizes
    Parameters <- MCParameters
    MaxParameters = 1
    MaxCached = 2
SPECIFICATION Spec
CHECK_DEADLOCK FALSE
INVARIANTS
    CTextIsRight
