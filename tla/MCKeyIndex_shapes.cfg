SPECIFICATION FairIndexSpec
CONSTANTS
    Text <- MCText
    Point <- MCPoint
    Prim <- MCPrim
    CoarsePrim <- MCCoarse
    NoPrim = NoPrim
    Absent = Absent
    KeyFieldValue <- MCValues
    FieldCount = 1
    MaxSequences = 3
    MaxBatch = 1
    Hash <- MCHash
    HashCode <- MCHashCode
INVARIANTS IndexInv ChainsComplete EqualSharesHash
PROPERTIES Spec CallsEnd
