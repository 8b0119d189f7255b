SPECIFICATION Spec
CHECK_DEADLOCK FALSE
CONSTANTS
    MinSegment = 2
    MinRange = 2
    ZoomLength = 2
    Inputs <- Ranges
    Looks = {0, 1}
    MaxId = 3
    MaxFaults = 1
    MaxOpens = 2
INVARIANTS SavedBetweenGestures
PROPERTIES TimelineInOrder ZoomsFollowPictures
