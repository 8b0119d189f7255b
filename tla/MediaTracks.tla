---------------------------- MODULE MediaTracks ----------------------------
(***************************************************************************)
(* The tracks of a recording (recording.rs: record, write_frames and       *)
(* write_camera_frames) and the writers of its files (blip-avfoundation,   *)
(* lib.rs): how Mp4Writer and AudioWriter turn source timestamps into the  *)
(* times of the file, what they refuse, and where the file ends.  Screen   *)
(* frames and system audio share a queue and a thread, the camera has its  *)
(* own; each file's time starts at its first sample, and the manifest of   *)
(* a bundle says how far apart those are.                                  *)
(*                                                                         *)
(* Time counts from recording_start.  A sample has the time it was         *)
(* captured, the time its callback ran and, unless the backend could not   *)
(* tell it, a timestamp in the shared clock, which reads Epoch at the      *)
(* start of the recording.                                                 *)
(***************************************************************************)
EXTENDS Integers, Sequences

CONSTANTS
    MaxMicros,          \* i64::MAX
    FrameDuration,      \* of the writer, in microseconds
    PacketDuration,     \* of an audio packet
    Epoch,              \* what the shared clock reads at recording_start
    QueueDepth,         \* FRAME_QUEUE_DEPTH
    MaxClock,           \* bound: how long the recording takes
    MaxSamples          \* bound: samples captured for each track

TracksAssumption ==
    /\ MaxMicros \in Nat /\ FrameDuration \in Nat /\ PacketDuration \in Nat /\ Epoch \in Nat
    /\ QueueDepth \in Nat \ {0} /\ MaxClock \in Nat /\ MaxSamples \in Nat

VARIABLES
    bundle,             \* a bundle, with camera and audio files; otherwise an MP4
    clock,
    captured,           \* for each track, how many samples and the time of the last one
    queue,              \* writer_receiver
    cameraQueue,        \* the frames that the preview sends
    writers,            \* the writer of each track, NoWriter before its first sample
    first,              \* the timing of the first appended sample of each track
    threads,            \* the screen's and the camera's writer threads
    phase,              \* of record()
    offsets             \* start_offset_secs of the bundle's inputs

vars == <<bundle, clock, captured, queue, cameraQueue, writers, first, threads, phase, offsets>>

(* The writers: operations on their fields *)

None == -1

\* The samples and the audio track of a writer are what AVFoundation was given: when
\* the sample was captured, whether it has a timestamp of the shared clock, and its time
\* in the file, which the session starts at the first timestamp.
\* error: "ok", "NoFrames", "Overflow" or "Rejected" (AVFoundation refuses the sample).
NewWriter == [start |-> None, last |-> None, end |-> None, samples |-> <<>>, track |-> <<>>,
              finished |-> FALSE, error |-> "ok"]

AtLeast(a, b) == IF a >= b THEN a ELSE b
Written(s, time) == [at |-> s.at, norm |-> s.norm, time |-> time]
Failed(w, error) == [w EXCEPT !.error = error]
StartOf(w, stamp) == IF w.start = None THEN stamp ELSE w.start

\* The time of a frame after the session's start, always past the last frame's.
VideoTime(w, stamp) ==
    LET relative == AtLeast(stamp - StartOf(w, stamp), 0)
    IN  IF w.last # None /\ relative <= w.last THEN w.last + 1 ELSE relative

\* Mp4Writer::append.  An input that is not ready drops the frame; a frame that is
\* rejected leaves the session started.
append(w, s, stamp, ready, accepted) ==
    LET start == StartOf(w, stamp)
        time == VideoTime(w, stamp)
    IN  IF ~ready THEN w
        ELSE IF stamp > MaxMicros THEN Failed(w, "Overflow")
        ELSE IF start + time > MaxMicros THEN Failed([w EXCEPT !.start = start], "Overflow")
        ELSE IF ~accepted THEN Failed([w EXCEPT !.start = start], "Rejected")
        ELSE [w EXCEPT !.start = start, !.last = time,
                       !.samples = Append(@, Written(s, time))]

\* Mp4Writer::append_audio.  Audio from before the first frame is put at the start.
append_audio(w, s, stamp, ready, accepted) ==
    IF ~ready THEN w
    ELSE IF stamp > MaxMicros THEN Failed(w, "Overflow")
    ELSE IF w.start = None THEN Failed(w, "NoFrames")
    ELSE IF ~accepted THEN Failed(w, "Rejected")
    ELSE [w EXCEPT !.track = Append(@, Written(s, AtLeast(stamp, w.start) - w.start))]

\* Mp4Writer::finish, once AVFoundation has written the file.
finish(w) ==
    IF w.finished THEN w
    ELSE IF w.start = None \/ w.last = None THEN Failed(w, "NoFrames")
    ELSE IF w.start + w.last + AtLeast(FrameDuration, 1) > MaxMicros THEN Failed(w, "Overflow")
    ELSE [w EXCEPT !.end = w.last + AtLeast(FrameDuration, 1), !.finished = TRUE]

\* AudioWriter::append.  Packets may go back in time; the end is the furthest of them.
AppendPacket(w, s, stamp, ready, accepted) ==
    LET start == StartOf(w, stamp)
        time == AtLeast(stamp - start, 0)
        packetEnd == time + AtLeast(PacketDuration, 1)
    IN  IF ~ready THEN w
        ELSE IF stamp > MaxMicros THEN Failed(w, "Overflow")
        ELSE IF ~accepted THEN Failed([w EXCEPT !.start = start], "Rejected")
        ELSE [w EXCEPT !.start = start, !.end = AtLeast(@, packetEnd),
                       !.samples = Append(@, Written(s, time))]

\* AudioWriter::finish.
FinishPackets(w) ==
    IF w.finished THEN w
    ELSE IF w.end = None THEN Failed(w, "NoFrames")
    ELSE [w EXCEPT !.finished = TRUE]

(* The tracks *)

Tracks == {"screen", "audio", "camera"}
NoTiming == [at |-> None, fallback |-> None, norm |-> FALSE]
NoWriter == [NewWriter EXCEPT !.error = "none"]
Made(track) == writers[track] # NoWriter

Samples == [track : Tracks, at : -1..MaxClock, fallback : -1..MaxClock, norm : BOOLEAN]
Finish == [track |-> "finish"]

TypeOK ==
    /\ bundle \in BOOLEAN /\ clock \in 0..MaxClock
    /\ \A i \in DOMAIN queue : queue[i] = Finish \/ queue[i] \in Samples
    /\ Len(queue) <= QueueDepth
    /\ \A i \in DOMAIN cameraQueue : cameraQueue[i] \in Samples
    /\ \A t \in Tracks :
          /\ writers[t].error \in {"none", "ok", "NoFrames", "Overflow", "Rejected"}
          /\ first[t] = NoTiming \/ [track |-> t, at |-> first[t].at, norm |-> first[t].norm,
                                     fallback |-> first[t].fallback] \in Samples
          /\ captured[t] \in [count : 0..MaxSamples, at : -1..MaxClock]
    /\ threads \in [{"screen", "camera"} -> {"run", "ok", "err"}]
    /\ phase \in {"recording", "stopping", "finishing", "done", "failed"}
    /\ \A t \in Tracks : offsets[t] \in Int

\* A camera frame from before the recording may wait in its queue.
Init ==
    /\ bundle \in BOOLEAN /\ clock = 0 /\ queue = <<>>
    /\ \/ cameraQueue = <<>>
       \/ bundle /\ \E n \in BOOLEAN :
             cameraQueue = <<[track |-> "camera", at |-> -1, fallback |-> -1, norm |-> n]>>
    /\ captured = [t \in Tracks |-> [count |-> 0, at |-> -1]]
    /\ writers = [t \in Tracks |-> NoWriter] /\ first = [t \in Tracks |-> NoTiming]
    /\ threads = [t \in {"screen", "camera"} |-> IF t = "screen" \/ bundle THEN "run" ELSE "ok"]
    /\ phase = "recording" /\ offsets = [t \in Tracks |-> 0]

(* FrameTiming *)

writer_timestamp(s) == IF s.norm THEN Epoch + s.at ELSE s.fallback

\* Mutant: the times at which the callbacks ran are compared.
signed_seconds_since_Fallback(s, earlier) == s.fallback - earlier.fallback

signed_seconds_since(s, earlier) ==
    IF s.norm /\ earlier.norm THEN s.at - earlier.at ELSE s.fallback - earlier.fallback

(* Capture *)

Tick ==
    /\ phase # "done" /\ clock < MaxClock
    /\ clock' = clock + 1
    /\ UNCHANGED <<bundle, captured, queue, cameraQueue, writers, first, threads, phase, offsets>>

\* The callbacks of a track come in the order of capture, each some time after it; a
\* full queue drops the sample (try_send).
Capture(track) ==
    /\ phase = "recording" \/ (track = "camera" /\ phase # "done")
    /\ track = "camera" => bundle
    /\ captured[track].count < MaxSamples
    /\ \E at \in AtLeast(captured[track].at, 0)..clock, n \in BOOLEAN :
          LET s == [track |-> track, at |-> at, fallback |-> clock, norm |-> n]
              full == Len(IF track = "camera" THEN cameraQueue ELSE queue) >= QueueDepth
          IN
          /\ captured' = [captured EXCEPT ![track] = [count |-> @.count + 1, at |-> at]]
          /\ queue' = IF full \/ track = "camera" THEN queue ELSE Append(queue, s)
          /\ cameraQueue' = IF full \/ track # "camera" THEN cameraQueue ELSE Append(cameraQueue, s)
    /\ UNCHANGED <<bundle, clock, writers, first, threads, phase, offsets>>

(* The writer threads *)

\* The writer after a sample; the first sample makes it.
Write(track, s, ready, accepted) ==
    LET w == IF Made(track) THEN writers[track] ELSE NewWriter
    IN  IF track = "audio" THEN AppendPacket(w, s, writer_timestamp(s), ready, accepted)
        ELSE append(w, s, writer_timestamp(s), ready, accepted)

\* A sample is written or the thread ends with the writer's error.
Stored(track, s, thread, w) ==
    /\ writers' = [writers EXCEPT ![track] = w]
    /\ threads' = IF w.error = "ok" THEN threads ELSE [threads EXCEPT ![thread] = "err"]
    /\ first' = IF w.error = "ok" /\ w.samples # <<>> /\ first[track] = NoTiming
                THEN [first EXCEPT ![track] = [at |-> s.at, fallback |-> s.fallback, norm |-> s.norm]]
                ELSE first

WriteFrame ==
    /\ threads["screen"] = "run" /\ queue # <<>> /\ Head(queue).track = "screen"
    /\ queue' = Tail(queue)
    /\ \E ready, accepted \in BOOLEAN :
          Stored("screen", Head(queue), "screen", Write("screen", Head(queue), ready, accepted))
    /\ UNCHANGED <<bundle, clock, captured, cameraQueue, phase, offsets>>

\* The audio of a bundle has a writer of its own; that of an MP4 waits for the first frame.
WriteAudio ==
    /\ threads["screen"] = "run" /\ queue # <<>> /\ Head(queue).track = "audio"
    /\ queue' = Tail(queue)
    /\ LET s == Head(queue)
       IN  \E ready, accepted \in BOOLEAN :
              IF bundle THEN Stored("audio", s, "screen", Write("audio", s, ready, accepted))
              ELSE IF Made("screen")
              THEN Stored("screen", s, "screen",
                          append_audio(writers["screen"], s, writer_timestamp(s), ready, accepted))
              ELSE ready /\ accepted /\ UNCHANGED <<writers, threads, first>>
    /\ UNCHANGED <<bundle, clock, captured, cameraQueue, phase, offsets>>

\* Frames from before the recording are skipped.
WriteCamera ==
    /\ threads["camera"] = "run" /\ cameraQueue # <<>>
    /\ cameraQueue' = Tail(cameraQueue)
    /\ LET s == Head(cameraQueue)
       IN  \E ready, accepted \in BOOLEAN :
              IF s.fallback < 0 THEN ready /\ accepted /\ UNCHANGED <<writers, threads, first>>
              ELSE Stored("camera", s, "camera", Write("camera", s, ready, accepted))
    /\ UNCHANGED <<bundle, clock, captured, queue, phase, offsets>>

\* The end of a writer's loop: finish, and an error when there is nothing in it or
\* AVFoundation does not write the file in time.
Ended(track, written) ==
    LET w == writers[track]
    IN  IF ~Made(track) THEN Failed(w, "NoFrames")
        ELSE IF ~written THEN Failed(w, "Rejected")
        ELSE IF track = "audio" THEN FinishPackets(w) ELSE finish(w)

FinishScreen(written, audioWritten) ==
    LET screen == Ended("screen", written)
        audio == IF bundle THEN Ended("audio", audioWritten) ELSE writers["audio"]
        ok == screen.finished /\ (bundle => audio.finished) /\ first["screen"] # NoTiming
    IN
    /\ threads["screen"] = "run" /\ queue # <<>> /\ Head(queue) = Finish
    /\ queue' = Tail(queue)
    /\ writers' = [writers EXCEPT !["screen"] = screen,
                                  !["audio"] = IF screen.finished THEN audio ELSE @]
    /\ threads' = [threads EXCEPT !["screen"] = IF ok THEN "ok" ELSE "err"]
    /\ UNCHANGED <<bundle, clock, captured, cameraQueue, first, phase, offsets>>

\* camera_stop, which leaves the frames that are still in the queue; or the preview is
\* closed and the queue is empty.
FinishCamera(written) ==
    LET w == Ended("camera", written)
    IN
    /\ threads["camera"] = "run"
    /\ phase \in {"stopping", "finishing"} \/ cameraQueue = <<>>
    /\ writers' = [writers EXCEPT !["camera"] = w]
    /\ threads' = [threads EXCEPT !["camera"] = IF w.finished THEN "ok" ELSE "err"]
    /\ UNCHANGED <<bundle, clock, captured, queue, cameraQueue, first, phase, offsets>>

(* record() *)

\* The capture may refuse to stop.
Stop ==
    /\ phase = "recording"
    /\ phase' \in {"stopping", "failed"}
    /\ UNCHANGED <<bundle, clock, captured, queue, cameraQueue, writers, first, threads, offsets>>

\* The finish message waits for room in the queue; a writer that has ended refuses it.
SendFinish ==
    /\ phase = "stopping"
    /\ IF threads["screen"] = "err" THEN phase' = "failed" /\ UNCHANGED queue
       ELSE /\ Len(queue) < QueueDepth
            /\ phase' = "finishing" /\ queue' = Append(queue, Finish)
    /\ UNCHANGED <<bundle, clock, captured, cameraQueue, writers, first, threads, offsets>>

\* The writers are joined, the screen's first, and the offsets go to the manifest.
Join ==
    LET Offset(t) == signed_seconds_since(first[t], first["screen"])
    IN
    /\ phase = "finishing" /\ threads["screen"] # "run"
    /\ threads["screen"] = "ok" => threads["camera"] # "run"
    /\ IF \A t \in DOMAIN threads : threads[t] = "ok"
       THEN /\ phase' = "done"
            /\ offsets' = IF bundle THEN [offsets EXCEPT !["camera"] = Offset("camera"),
                                                         !["audio"] = Offset("audio")]
                          ELSE offsets
       ELSE phase' = "failed" /\ UNCHANGED offsets
    /\ UNCHANGED <<bundle, clock, captured, queue, cameraQueue, writers, first, threads>>

Next ==
    \/ Tick \/ \E t \in Tracks : Capture(t)
    \/ WriteFrame \/ WriteAudio \/ WriteCamera
    \/ \E written, audioWritten \in BOOLEAN : FinishScreen(written, audioWritten)
    \/ \E written \in BOOLEAN : FinishCamera(written)
    \/ Stop \/ SendFinish \/ Join

Spec == Init /\ [][Next]_vars

(* Properties *)

\* The frames of a video file follow each other in time, whatever clock, order or
\* repetition the timestamps come in, so AVFoundation has no reason to refuse one.
FramesAdvance ==
    \A t \in {"screen", "camera"} :
        LET s == writers[t].samples
        IN  /\ \A i \in DOMAIN s : s[i].time >= 0
            /\ \A i, j \in DOMAIN s : i < j => s[i].time < s[j].time

\* A finished file reaches past everything that was put in it, so nothing is cut off at
\* its end.
EndIsPastAll ==
    \A t \in Tracks : writers[t].finished =>
        \A i \in DOMAIN writers[t].samples : writers[t].samples[i].time < writers[t].end

\* Two samples of a file were captured at one time.
Repeats(s) == \E i, j \in DOMAIN s : i # j /\ s[i].at = s[j].at

\* All samples of a file have a timestamp of the shared clock.
Normalized(s) == \A i \in DOMAIN s : s[i].norm

\* In a bundle, each sample is played exactly as long after the first screen frame as it
\* was captured after it: its time in its file plus the file's offset in the manifest.
\* (A file with two samples of one time is a microsecond out, and files without the shared
\* clock are as far out as their callbacks were late.)
TracksInSync ==
    (phase = "done" /\ bundle) =>
        \A t \in Tracks :
            LET s == writers[t].samples
            IN  (Normalized(s) /\ first["screen"].norm /\ ~Repeats(s)) =>
                    \A i \in DOMAIN s : s[i].time + offsets[t] = s[i].at - first["screen"].at
=============================================================================
