SPECIFICATION Spec
CHECK_DEADLOCK FALSE
CONSTANTS
    Cameras = {"c1", "c2"}
    Delivering = TRUE
    MaxPreviews = 2
    MaxChoices = 2
    MaxCycles = 3
    MaxCameraFaults = 1
CONSTANTS
    Servers = {"s1"}
    Tokens = {"t1"}
    MaxDefaults = 1
    MaxProfiles = 4
    MaxEdits = 2
    MaxLinks = 2
    MaxFailedSaves = 1
\* A display of six points; the handles of a region of the minimum size, two
\* points, meet in its middle, as those of 16 points do in the overlay.
CONSTANTS
    Width = 12
    Minimum = 4
    Radius = 2
    MaxGestures = 3
    NoRegion = NoRegion
    Elsewhere = Elsewhere
INVARIANTS PreviewFollowsSelection InputsBelongToProfile
PROPERTIES StyleSettles OnlySettingsRemove OppositeEdgeStays
