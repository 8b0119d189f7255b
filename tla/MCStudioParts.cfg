SPECIFICATION Spec
CONSTANTS
    Captures = {d1, d2}
    FirstDisplay = d1
    Colors = {"blue", "red"}
    DefaultColor = "blue"
    NoColor = "none"
    Layouts = {"inset", "moved"}
    NewLayout = "inset"
    MaxId = 3
    MaxColorId = 1
    MaxFailures = 1
CONSTANTS
    CanvasSize = 8
    Pointers <- PointersHere
    Typed <- TypedHere
    Threshold = 2
    MinSize = 2
    MaxSize = 8
    MaxEdits = 3
CHECK_DEADLOCK FALSE
INVARIANTS SceneIsKept
PROPERTIES DragsKeepTheRest
