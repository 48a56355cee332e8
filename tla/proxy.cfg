SPECIFICATION Spec
CONSTANT MaxChunks = 2
INVARIANTS
    TypeOK
    JoinedNothingLost
    ForwardedOneWayComplete
PROPERTIES
    JoinEnds
    ForwardEnds
CHECK_DEADLOCK FALSE
