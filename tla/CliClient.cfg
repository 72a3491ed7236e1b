SPECIFICATION Spec
CONSTANTS
    Viewport = 1
    DrainMax = 1
    MaxMessages = 2
    MaxChannels = 2
CHECK_DEADLOCK FALSE
INVARIANTS TypeOK InOrder WindowIsRight
PROPERTIES InboxDrains ListCatchesUp StatusSettles QuitEnds
