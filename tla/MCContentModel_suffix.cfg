SPECIFICATION ContentSpec
CONSTANTS
    CountedThreshold = 2
    MaxActiveConfigs = 26
    Name <- MCName
    Types <- SuffixTypes
    Contents = {}
    MaxChildren = 3
INVARIANT ChildrenExact
CHECK_DEADLOCK FALSE
