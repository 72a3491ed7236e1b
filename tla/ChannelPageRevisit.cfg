SPECIFICATION Spec
CONSTANTS
    Channels = {h1, h2}
    General = h1
    Backlog = 1
    Senders = {s1}
    PageSize = 1
    Retries = 1
    MaxMessages = 2
    MaxVisits = 3
    None = None
CHECK_DEADLOCK FALSE
INVARIANT LiveIsInjected
