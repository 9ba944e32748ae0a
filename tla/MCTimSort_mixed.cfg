SPECIFICATION SortSpec
CONSTANTS
    Lengths <- MCLengths
    MinMerge = 32
    MinGallop = 7
    Calls <- MixedCalls
INVARIANT ErrorsReturned
CHECK_DEADLOCK FALSE
