SPECIFICATION Spec
CONSTANTS
    ClientIds = {c1, c2}
    Usernames = {u1, u2}
    ChannelIds = {h1, h2}
    Names = {n1, n2}
    General = h1
    GeneralName = n1
    Workers = {w1, w2}
    Sweeper = sweeper
    Expiry = FALSE
    Patient = {c1, c2}
    None = None
CHECK_DEADLOCK FALSE
SYMMETRY Symmetry
INVARIANTS JoinedIsMember
