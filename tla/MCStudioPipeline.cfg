SPECIFICATION PartsSpec
CONSTANTS
    Sources = {screen}
    MaxVersion = 4
    MaxFrames = 2
    MaxStreams = 3
    QueueDepth = 1
INVARIANTS Wakeups
PROPERTIES ShownGoesForward ViewerSettles OnlyOwnErrors
CHECK_DEADLOCK FALSE
