SPECIFICATION Spec
CONSTANTS
    a = a
    b = b
    c = c
    Null = Null
    Entry = a
    MaxDepth = 12
    Builtins <- MCBuiltins
    Programs <- MCPrograms
INVARIANTS Solved InheritsAll Verdict EntersOnce SuccessInFront
PROPERTY Returns
CHECK_DEADLOCK FALSE
