SPECIFICATION Spec
CONSTANTS
    Null = Null
    Unread = Unread
    Oddities = 1
    Words <- MCWords
    Programs <- MCPrograms
    Comments <- MCComments
    Extras <- MCExtras
CHECK_DEADLOCK FALSE
INVARIANTS
    ReadAsMeant
    NothingLost
