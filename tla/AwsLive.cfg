SPECIFICATION LiveSpec
CONSTANTS
    g1 = g1  g2 = g2  Unreadable = Unreadable
    MaxRegions = 2
    Kinds = 1
    Capacity = 4
    MaxCrawls = 2
INVARIANTS
    ClosedAfterLastSend
    BatchesComplete
PROPERTIES
    CrawlsEnd
    OldFilesHandled
CHECK_DEADLOCK FALSE
