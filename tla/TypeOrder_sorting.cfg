CONSTANTS
    N = 3
    Documents <- MixedDocuments
SPECIFICATION FairSpec
CHECK_DEADLOCK FALSE
INVARIANTS
    TypeOK
PROPERTIES
    DefinedBeforeUsedByValue
    DeclaredUnlessEnum
    ImplementsDeclarationOrder
    SortableDocumentsFinish
