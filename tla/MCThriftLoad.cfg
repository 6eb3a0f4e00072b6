SPECIFICATION FairSpec
CONSTANTS a = a
          b = b
          c = c
          File = {a, b, c}
          Root = a
          Other = other
          Sources <- MCSources
INVARIANTS AnswersOnce SuccessIsComplete HandlesOnce NothingLost
PROPERTIES Promised
\* the loader stops when it has answered and every read has ended
CHECK_DEADLOCK FALSE
