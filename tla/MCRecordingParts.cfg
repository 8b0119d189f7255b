SPECIFICATION PartsSpec
CHECK_DEADLOCK FALSE
\* `blip record`: five frames fill a queue of two while the writer is slow; two
\* interrupts and the stop key fill the channel for the reason to stop.
CONSTANTS
    QueueDepth = 2
    MaxFrames = 5
    MaxSignals = 2
\* The tracks: times of which a few reach the end of the microseconds.
CONSTANTS
    MaxMicros = 12
    FrameDuration = 1
    PacketDuration = 1
    Epoch = 10
    TracksDepth = 2
    MaxClock = 2
    MaxSamples = 2
INVARIANTS TracksInSync NumbersAreTrue
PROPERTIES RecordingEnds HeadlessIsTrue
