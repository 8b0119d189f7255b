SPECIFICATION Spec
CONSTANTS
    Kinds = {"hls", "mp4", "local", "bundle"}
    QueueDepth = 1
    MaxUploads = 2
    MaxAssets = 3
    Rec = Rec
    Bucket = Bucket
    NoBucket = NoBucket
INVARIANTS NeverLost PublishedIsPlayable EventsAreTrue
PROPERTY RecorderEnds
CHECK_DEADLOCK FALSE
