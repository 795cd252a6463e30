SPECIFICATION Spec
CONSTANTS
    a = a
    b = b
    pause = pause
    trust = trust
    Terminals = {a, b}
    Calls = {pause, trust}
    Plans <- TwoPlans
    MaxSent = 2
SYMMETRY Symmetry
INVARIANTS
    NoSilentDuplicate
    OneRunSubmits
