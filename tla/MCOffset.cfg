SPECIFICATION Spec
CONSTANTS
    Structs <- CallStructs
    Enums <- CallEnums
    Functions <- MCFunctions
    Arguments <- MCArguments
    Results <- MCResults
    Exceptions <- MCExceptions
    Versions = {0, 1, 2, 257}
    Ids = {0, 7, 70000}
INVARIANT OffsetIsBehind
CHECK_DEADLOCK FALSE
