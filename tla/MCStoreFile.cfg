CONSTANTS
    c1 = c1
    c2 = c2
    Chats <- MCChats
    Procs = {1, 2, 3}
    MaxTime = 2
    Overlap = FALSE
SPECIFICATION Spec
PROPERTIES
    ImplementsLastSeenStore
