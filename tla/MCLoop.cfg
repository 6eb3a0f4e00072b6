SPECIFICATION Spec
CONSTANTS
    a = a
    b = b
    c = c
    Null = Null
    Entry = a
    MaxDepth = 12
    Builtins <- MCBuiltins
    Programs <- Loop
INVARIANT SelfReferenceWorks
CHECK_DEADLOCK FALSE
