SPECIFICATION RunsSpec
CONSTANTS
    Lengths <- MCLengths
    MinMerge = 32
INVARIANT StackSufficient
CHECK_DEADLOCK FALSE
