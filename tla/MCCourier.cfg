CONSTANTS
    p1 = p1
    t1 = t1
    EmptyToken = EmptyToken
    NoPayload = NoPayload
    Payloads <- MCPayloads
    Tokens <- MCTokens
    MaxConnects = 1
    MaxFrames = 3
    MaxWrites = 1
    InboundCommands <- MCInbound
SPECIFICATION Spec
INVARIANTS
    TypeOK
    KeepAliveAnswered
    CancelStopsWithinOneFrame
PROPERTIES
    LoopStopsAfterClose
