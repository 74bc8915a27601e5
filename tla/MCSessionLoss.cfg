CONSTANTS
    c1 = c1
    e = e
    Chats <- MCChats
    EmptyChat = e
    ChanCap = 2
    FileBacked = FALSE
    MaxTime = 3
    MaxMsgs = 3
    MaxFetches = 3

SPECIFICATION Spec

INVARIANTS
    NoMessageLost
