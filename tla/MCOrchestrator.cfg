CONSTANTS
    MaxTime = 2
    MaxCalls = 2
SPECIFICATION Spec
INVARIANTS
    TypeOK
PROPERTIES
    CallsReturn
    ImplementsClientCall
