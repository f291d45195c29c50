SPECIFICATION Spec
CONSTANTS
    d1 = d1  d2 = d2  a = a  b = b  ab = ab  vm = vm  h1 = h1  h2 = h2  x = x  y = y
    DataSource = {d1, d2}
    Ident = {a, b, ab}
    AssetType = {vm}
    RelationshipType = relationship
    Payload = {h1, h2}
    Kind = {x, y}
    NoRelation = NoRelation
    NoSource = NoSource
    NilElement = NilElement
    Batches <- SomeBatches
    Capacity = 2
    MaxSent = 3
INVARIANTS
    StatementsAllowed
    CommittedRunsComplete
    RunProvenance
PROPERTIES
    HistoryKept
    ImplementsAtomic
    BatchesResolved
