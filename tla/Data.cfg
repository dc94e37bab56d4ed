CONSTANTS
    Vec = {v1, v2}
    Elem = {x, y}
    Raw = Raw
    Gone = Gone
    Inline = 1
    MaxLen = 4
    Key = {k1, k2, k3}
    CacheValue = {x, y}
    MaxSize = 2
    ByteBase = 8
    HashWidth = 2
    AddressWidth = 2
    WithTimestamp = TRUE
    MaxScript = 64
    MaxPerTransaction = 7
    MaxInBlock = 40
    MaxTransactions = 7
    MaxBlockSize = 1000
    BlockLen = 8
    LengthLen = 2
    ByteValues = 256
    HashLen = 4
    CheckLen = 2
    Checksum <- MCChecksum
    AddressLength = 4
    ShortKey = 5
    LongKey = 7
    Hash160 <- MCHash160
    MaxElements = 4
    MaxStackSize = 8
SPECIFICATION Spec
INVARIANT VectorsKept KeepsLastUsed RecordsReadBack BlocksParsed NamesReadBack ScriptsUnderstood
CHECK_DEADLOCK FALSE
