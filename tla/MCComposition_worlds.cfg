SPECIFICATION BuildSpec
CONSTANTS
    Location <- MCLocations
    NoLocation = NoLocation
    Namespace <- MCNamespaces
    NoNamespace = NoNamespace
    Component <- MCComponents
    World <- BuildWorlds
    MaxDocuments = 8
    NoComponent = NoComponent
INVARIANTS EachWalkedOnce DepthIsShortest FindsAllViews ErrorsAfterReads LoadedOnce OriginalsExact WinnersExact
PROPERTIES WalkEnds
CHECK_DEADLOCK FALSE
