CONSTANTS
    Payloads <- MCPayloads
    MaxWrites = 4
SPECIFICATION Spec
INVARIANTS
    RoundTrip
PROPERTIES
    EveryFrameRead
