CONSTANTS
    ProbeBytes <- MCWrapBytes
    MaxProbe = 6
SPECIFICATION Spec
INVARIANTS
    MissingBodyReported
