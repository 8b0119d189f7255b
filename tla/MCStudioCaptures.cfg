SPECIFICATION Spec
CONSTANTS
    Screens = {screen1, screen2}
    Cameras = {camera1}
    Initial = screen1
    NoSource = NoSource
    MaxElements = 3
    MaxCapturers = 3
INVARIANTS CapturesOwned
PROPERTIES CapturesSettle
CHECK_DEADLOCK FALSE
