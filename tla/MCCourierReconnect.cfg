CONSTANTS
    p1 = p1
    t1 = t1
    EmptyToken = EmptyToken
    NoPayload = NoPayload
    Payloads <- MCPayloads
    Tokens <- MCTokens
    MaxConnects = 2
    MaxFrames = 2
    MaxWrites = 0
    InboundCommands <- MCInbound
SPECIFICATION Spec
PROPERTIES
    LoopStopsAfterClose
