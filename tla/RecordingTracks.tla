--------------------------- MODULE RecordingTracks --------------------------
(***************************************************************************)
(* The tracks of a recording (MediaTracks) beside the other programs that   *)
(* record, under names of their own, and what they promise.                *)
(***************************************************************************)
CONSTANTS
    MaxMicros, FrameDuration, PacketDuration, Epoch, TracksDepth, MaxClock, MaxSamples

VARIABLES
    bundle, clock, captured, trackQueue, cameraQueue, writers, first, threads, phase, offsets

Media == INSTANCE MediaTracks WITH QueueDepth <- TracksDepth, queue <- trackQueue

tracksVars == <<bundle, clock, captured, trackQueue, cameraQueue, writers, first, threads, phase,
                offsets>>

-----------------------------------------------------------------------------
\* In a bundle each sample is played exactly as long after the first screen frame
\* as it was captured after it; and the frames of a file follow each other in time,
\* whatever clock, order or repetition their timestamps come in, and end inside it
\* (MediaTracks!TracksInSync, FramesAdvance, EndIsPastAll).
TracksInSync ==
    /\ Media!TypeOK
    /\ Media!TracksInSync /\ Media!FramesAdvance /\ Media!EndIsPastAll
=============================================================================
