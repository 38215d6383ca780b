SPECIFICATION MCSpec
INVARIANTS
    
    TddProvesInOrder
    EventsDelivered
    
PROPERTIES
    LoopIsBounded
    
