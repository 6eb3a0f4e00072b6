SPECIFICATION Spec
CONSTANTS
    Name = {a, b, c}
    Max = 3
    Enums <- MCEnums
INVARIANTS Numbered LastNameReads Verdict
CHECK_DEADLOCK FALSE
