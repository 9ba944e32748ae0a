SPECIFICATION PartSpec
CONSTANTS
    Text <- MCText
    Point <- MCPoint
    Prim <- MCPrim
    CoarsePrim = {}
    NoPrim = NoPrim
    KeyFieldValue <- MCValues
    Absent = Absent
    FieldCount = 2
    Name <- MCName
    Schema <- MCSchemas
    AttributeName <- MCAttributes
    AttributeValue <- MCOneValue
    Unassessed = Unassessed
    NilValue <- MCNil
    Expressions <- MCExpressions
    ElementName = {"a", "x"}
    MaxDepth = 4
    MaxElements = 5
    MaxOpen = 5
INVARIANTS FramesFollowTargets TablesFollowDocument VerdictsExact ScopesExact OwnersInvalid
PROPERTY MatchesExact
CHECK_DEADLOCK FALSE
