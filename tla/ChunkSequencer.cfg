SPECIFICATION FairSpec
CONSTANTS
    Window = 2
    Indices <- MCIndices
INVARIANTS
    ReturnedInOrder
    NothingStoredIsLost
PROPERTIES
    ImplementsOrderedDelivery
