SPECIFICATION PartSpec
CONSTANTS
    Text <- MCText
    Point <- MCPoint
    Prim <- MCPrim
    CoarsePrim = {}
    NoPrim = NoPrim
    KeyFieldValue <- MCValues
    Absent = Absent
    FieldCount = 2
    Name <- MCName
    Schema <- OverlapSchemas
    AttributeName <- MCAttributes
    AttributeValue <- MCOneValue
    Unassessed = Unassessed
    NilValue <- MCNil
    Expressions = {}
    ElementName = {"a", "x"}
    MaxDepth = 4
    MaxElements = 4
    MaxOpen = 4
INVARIANTS NestedTargets
CHECK_DEADLOCK FALSE
