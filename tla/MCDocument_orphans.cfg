SPECIFICATION MCSpec
CONSTANTS
    Token = {"a", "b"}
    Value <- MCValue
    AttrName = {"xml:id", "k"}
    XmlId = "xml:id"
    SchemaType = {"ID", "IDREFS"}
    IdType = {"ID"}
    IdrefType = {"IDREFS"}
    Unbound = "unbound"
    Prefix = {"p", "q"}
    Worlds = {"orphans"}
INVARIANT IdrefLookupsExactForAttributes
CHECK_DEADLOCK FALSE
