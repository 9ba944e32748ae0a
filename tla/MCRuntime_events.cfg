SPECIFICATION RuntimeSpec
CONSTANTS
    World = {"nesting", "alternatives", "faults", "ids", "positions"}
    Type = {"plain", "old", "new"}
    Asserting = {"old", "new"}
    Listed = {"listed"}
    Unlisted = {"xsi:nil"}
    IdValue = {"x", "y"}
    MaxMembers = 2
    Name = {"a", "b", "c", "d"}
    Slot = {1, 2}
    SlotOf <- MCSlotOf
    Linear = 1
    CollidedIndex = 1
INVARIANTS EvaluationsExact VerdictsReachOuter IdVerdictsExact PositionsExact
CHECK_DEADLOCK FALSE
