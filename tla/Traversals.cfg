SPECIFICATION TraversalsSpec
CONSTANTS
    s1 = s1  s2 = s2  k1 = k1  k2 = k2  a = a  b = b  c = c  d = d
    vm = vm  pod = pod  h1 = h1  h2 = h2
    NoRelation = NoRelation  NoSource = NoSource  NilElement = NilElement
    Node = {a, b, c, d}
    Source = {s1, s2}
    Kind = {k1, k2}
    Any = Any
    Queries <- Explorations
    Rows <- TopologyRows
    MaxCommits = 1
    PathRows <- SearchedRows
    Searches <- SomeSearches
    Parts = {"path", "topology", "tools"}
    DataSource = {s1, s2}
    Ident = {a, b}
    AssetType = {vm, pod}
    RelationshipType = "relationship"
    Payload = {h1, h2}
    HashRank <- ByHash
    Batches <- SomeBatches
    MaxSent = 3
    Calls <- SomeCalls
    DefaultLimit = 2
    MaxLimit = 2
    MaxSnapshots = 3
INVARIANTS
    FoundIsPath
    NoShorterAtStart
    WithinBounds
    AnswerConnected
    CompleteUnlessTruncated
    AnswersOfOneElement
    ShownStays
PROPERTY
    TraversalsEnd
CHECK_DEADLOCK FALSE
