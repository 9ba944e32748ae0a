SPECIFICATION BuildSpec
CONSTANTS
    Location <- MCLocations
    NoLocation = NoLocation
    Namespace <- MCNamespaces
    NoNamespace = NoNamespace
    Component <- MCComponents
    World <- IncluderRedefined
    MaxDocuments = 8
    NoComponent = NoComponent
INVARIANTS TargetsFirst
CHECK_DEADLOCK FALSE
