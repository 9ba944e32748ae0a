SPECIFICATION ContentSpec
CONSTANTS
    CountedThreshold = 2
    MaxActiveConfigs = 26
    Name <- MCName
    Types <- ModelTypes
    Contents <- MCContents
    MaxChildren = 6
INVARIANTS
    ChildrenExact
    AttributionExact
    VerdictExact
    AllGroupWithinBounds
    FrontierExact
    RefusedIfAmbiguous
    FirstPairReported
CHECK_DEADLOCK FALSE
