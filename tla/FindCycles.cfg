CONSTANTS
    UNodes <- U
    VNodes <- V
    Target = 4
    Rounds = 1
    MaxEdges = 6
    MaxTwice = 1
    MaxPath = 9
SPECIFICATION Spec
CHECK_DEADLOCK FALSE
INVARIANTS
    FoundAreCycles
    OnlyCycleIsFound
