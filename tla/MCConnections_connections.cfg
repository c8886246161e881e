SPECIFICATION MCSpec
CONSTANTS
    Scripts <- MCScripts
    Starts <- MCStarts
    MaxTokens = 4
    Client = {v1, v2, v3}
    Busy = {v1}
    OpenMax = 3
    MaxThreads = 1
    kInitEventListSize = 1
INVARIANTS AnswersInOrder LinesAreUnderstood NumbersAreCurrent
PROPERTIES ThreadAnswers ProcessIsAnswered EveryoneHasATurn
CHECK_DEADLOCK FALSE
