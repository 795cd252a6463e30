SPECIFICATION SearchFairSpec
CONSTANTS
    MaxHeight = 10
    MaxTime = 2
    Stride = 1
INVARIANTS
    StartsAtTheFirst
    ScansTheExecution
PROPERTIES
    Terminates
