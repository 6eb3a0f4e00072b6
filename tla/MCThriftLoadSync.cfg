SPECIFICATION FairSpec
CONSTANTS a = a
          b = b
          c = c
          File = {a, b, c}
          Root = a
          Other = other
          Sources <- MCSources
INVARIANTS TypeOK EachFileOnceOnStack DepthFirst
PROPERTIES Promised
\* the constructor has returned or thrown
CHECK_DEADLOCK FALSE
