CONSTANTS
    N = 2
    Documents <- PointerDocuments
SPECIFICATION FairSpec
CHECK_DEADLOCK FALSE
PROPERTIES ResolvableDocumentsAreSorted
