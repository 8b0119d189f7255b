SPECIFICATION Spec
CONSTANTS
    Screens = {screen1}
    Cameras = {}
    Initial = screen1
    NoSource = NoSource
    MaxElements = 3
    MaxCapturers = 3
INVARIANT HealthyIsKept
CHECK_DEADLOCK FALSE
