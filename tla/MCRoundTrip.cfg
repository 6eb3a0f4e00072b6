SPECIFICATION RoundTripSpec
CONSTANTS
    a = a
    b = b
    p = p
    q = q
    Slash = Slash
    dot = dot
    Up <- MCUp
    Here <- MCHere
    Char = {a, b, p, q, dot, Slash}
    Inputs <- MCInputs
    Programs <- MCPrograms
    Generations = 3
INVARIANTS TypeOK LongestCommonPrefix DirectoryIsCommon DirectoryIsLongest RoundTrips
CHECK_DEADLOCK FALSE
