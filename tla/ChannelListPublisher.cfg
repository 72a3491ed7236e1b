SPECIFICATION FairSpec
CONSTANTS
    Channels = {h1, h2}
    General = h1
    Clients = {c1}
    Streams = {s1, s2}
    Workers = {w1, w2}
    MaxEdits = 1
    None = None
CHECK_DEADLOCK FALSE
INVARIANTS TypeOK NoChannelMissed CountsAgree
PROPERTIES EventuallyShown ImplementsDirectory
