CONSTANTS
    TableKey = {1, 2, 3, 4, 5, 6, 7}
    Datum = {"x", "y"}
    HashOf <- MCHash
    Primes <- MCPrimes
    FirstSize = 2
    Density = 1
    Absent = "none"
    Word = {1, 2, 3, 4, 5, 6, 7}
    NoWord = NoWord
    Strcmp <- MCStrcmp
    PageSize = 2
    BlockSize = 2
    MaxOffset = 5
    Value = {1, 2}
    NoPage = NoPage
    Pointer = {"a", "b"}
    StartSize = 2
    GrowSize = 2
    DoubleUntil = 2
    MaxElements = 6
    Junk = "junk"
    Node = {1, 2, 3, 4}
    NoNode = NoNode
    RecordId = {"i1", "i2"}
    RecordType = {"t1", "t2"}
    MaxRecords = 5
    ProductId = {1, 2, 3, 4}
    PricingAdapter = {"p1", "p2", "p3", "p4"}
    NoAdapter = NoAdapter
SPECIFICATION MCSpec
INVARIANTS ItemsFound ArrayHolds LinksKept
CHECK_DEADLOCK FALSE
