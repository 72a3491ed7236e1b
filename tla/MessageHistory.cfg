SPECIFICATION FairSpec
CONSTANTS
    Channels = {h1, h2}
    MaxMessages = 6
    Senders = {t1, t2}
    Readers = {r1}
    HistoryCap = 0
    kDefaultCap = 4
    PageLimit = 3
    kServerMaxLimit = 2
    None = None
CHECK_DEADLOCK FALSE
INVARIANTS TypeOK BufferIsNewest PagesAreContiguous PagingIsComplete
PROPERTIES PagingEnds
