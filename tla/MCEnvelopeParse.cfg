CONSTANTS
    ProbeBytes <- MCSmallBytes
    MaxProbe = 7
SPECIFICATION Spec
INVARIANTS
    ParseBodyMatchesLayout
