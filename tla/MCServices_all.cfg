SPECIFICATION ServicesSpec
CONSTANTS
    Thread = {t1, t2}
    PatternKey = {"a", "b", "c", "bad"}
    Invalid = {"bad"}
    Line = {1, 2}
    LineOf <- MCLineOf
    Facet = {"f1", "f2", "f3", "f4"}
    KeyOf <- MCKeyOf
    NoKey = "no key"
    NoFacet = "no facet"
    NotCompiled = "not compiled"
    InvalidPattern = "invalid pattern"
    Reader = {r1, r2}
    SimpleType = {"base", "derived"}
    Initial = {"base"}
    Literals = {"one"}
    MaxWalk = 3
    MaxEdits = 1
    NoType = "no type"
    NoLiteral = "no literal"
    Absent = "absent"
    RegexKey = {"a", "b", "bad"}
    Malformed = {"bad"}
    HostCapacity = 2
    RunCapacity = 1
    MaxNesting = 2
    MaxClock = 4
    RegexError = "error"
    Lengths <- MCLengths
    MinMerge = 4
    MinGallop = 2
    Calls <- MCCalls
    Token = {"a", "b"}
    Value <- MCValue
    AttrName = {"xml:id", "k"}
    XmlId = "xml:id"
    SchemaType = {"ID", "IDREFS"}
    IdType = {"ID"}
    IdrefType = {"IDREFS"}
    Unbound = "unbound"
    Prefix = {"p", "q"}
    Worlds = {"scopes", "structure", "ids", "types", "marks"}
INVARIANTS CachesInv AnswersExact RunsAdjacent OrderExact LookupsExact ScopesExact
PROPERTIES CacheInvisible MemoInvisible HostIsLRU TreeBuilt
CHECK_DEADLOCK FALSE
