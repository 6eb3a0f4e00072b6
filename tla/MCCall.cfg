SPECIFICATION Spec
CONSTANTS
    Structs <- CallStructs
    Enums <- CallEnums
    Functions <- MCFunctions
    Arguments <- MCArguments
    Results <- MCResults
    Exceptions <- MCExceptions
    Versions = {0, 1, 2, 257}
    Ids = {0, 7, 70000}
INVARIANTS RequestArrives AnswerArrives
CHECK_DEADLOCK FALSE
