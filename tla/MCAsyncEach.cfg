SPECIFICATION FairSpec
CONSTANTS Lengths <- MCLengths
          MaxCalls = 2
INVARIANTS TypeOK AnswersOnce AnswerIsTrue NothingLost
PROPERTIES NoHandleAfterAnswer Answers Settles
\* every handle has made its last call
CHECK_DEADLOCK FALSE
