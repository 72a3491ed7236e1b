SPECIFICATION Spec
CONSTANTS
    Channels = {h1, h2}
    General = h1
    MaxSubs = 3
    MaxFaults = 2
    None = None
CHECK_DEADLOCK FALSE
INVARIANTS TypeOK NoSilentDivergence HearsActive ToastIsCause
