SPECIFICATION PartsSpec
CHECK_DEADLOCK FALSE
CONSTANTS
    Names = {"a"}
    Formats = {"mp4", "mov"}
    Frames = 1
    Packets = 1
    MaxDoc = 1
    MaxJobs = 2
    MaxWindows = 2
\* Handles reach as far as the minimum crop, as they do in the dialog (10 points
\* against 7.6 on a preview of 760).
CONSTANTS
    Full = 8
    Minimum = 3
    Radius = 3
INVARIANTS ExportIsWhole SoundFollowsPicture
PROPERTIES EditorSettles CropIsUsable
