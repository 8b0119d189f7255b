------------------------------ MODULE AudioMix ------------------------------
(***************************************************************************)
(* The sound of an edited bundle (blip-audio, editor.rs): the mixer that   *)
(* follows the cut timeline, its playback on a device with a rate of its   *)
(* own, and its export in packets.                                         *)
(*                                                                         *)
(* Times are whole grains of 1 / (Rate * Nanos) seconds: an audio frame    *)
(* lasts Nanos grains and a nanosecond Rate grains, so that what the code  *)
(* has as f64 seconds is exact and what it rounds to frames or nanoseconds *)
(* is rounded here.  What is heard of a source is the number of the frame  *)
(* that is played; samples, gains and the two channels are left out.       *)
(***************************************************************************)
EXTENDS Integers, Sequences

CONSTANTS
    Rate,               \* MIX_SAMPLE_RATE
    Nanos,              \* nanoseconds in a second
    OutputRates,        \* sample rates of output devices
    PacketFrames,       \* AUDIO_PACKET_FRAMES
    Edges,              \* times at which segments start and end
    Sources,            \* the audio inputs of a bundle
    Offsets,            \* their start_offset_secs
    Lengths,            \* their lengths in frames
    MaxOutput           \* bound: output frames of one playback

AudioMixAssumption ==
    /\ Rate \in Nat \ {0} /\ Nanos \in Nat \ {0} /\ Rate < Nanos
    /\ OutputRates \subseteq Nat \ {0} /\ PacketFrames \in Nat \ {0}
    /\ Edges \subseteq Nat /\ Offsets \subseteq Int /\ Lengths \subseteq Nat
    /\ MaxOutput \in Nat

VARIABLES
    segments,           \* the mixer's copy of the timeline
    sources,            \* its sources: offset and number of frames
    output_rate,        \* the device's rate, 0 while nothing plays
    source_frame, source_remainder,
    begin,              \* ghost: the time at which playback was started
    heard,              \* what every output frame played of every source
    audio_frame,        \* the next frame of the export
    exported            \* what every exported frame has of every source

mixer == <<segments, sources>>
playback == <<output_rate, source_frame, source_remainder, begin, heard>>
export == <<audio_frame, exported>>
vars == <<mixer, playback, export>>

Silent == -1
Video == INSTANCE Timeline WITH MinSegment <- 1, MinRange <- 1, ZoomLength <- 1

duration == Video!video_timeline_duration(segments)
Segment == {s \in [id : {0}, start : Edges, end : Edges] : s.start < s.end}
Timelines == {<<s>> : s \in Segment}
                \cup {t \in Segment \X Segment : t[1].end < t[2].start}
Between(t, a, b) == a <= t /\ t < b

(* Rounding *)

\* Duration::try_from_secs_f64; a tie cannot occur when Rate is odd.
try_from_secs(time) == (2 * time + Rate) \div (2 * Rate)

\* The frame nearest to a time; none before the start.
frame_index_at(time) ==
    IF time < 0 THEN Silent
    ELSE (try_from_secs(time) * Rate + Nanos \div 2) \div Nanos

timeline_seconds_at_frame(frame) ==
    ((frame \div Rate) * Nanos + ((frame % Rate) * Nanos) \div Rate) * Rate

(* The mixer *)

\* The recorded time of a time of the timeline, {} before it and after it.
source_time_at(time) ==
    {segments[i].start + time - Video!TimelineStart(segments, i) : i \in
        {i \in DOMAIN segments :
            Between(time, Video!TimelineStart(segments, i), Video!TimelineStart(segments, i + 1))}}

mix_frame_at(time) ==
    [s \in Sources |->
        LET input == {frame_index_at(t - sources[s].offset) : t \in source_time_at(time)}
        IN  IF \E f \in input : Between(f, 0, sources[s].frames)
            THEN CHOOSE f \in input : TRUE ELSE Silent]

render(start, frames) == [i \in 1..frames |-> mix_frame_at(start + (i - 1) * Nanos)]

Init ==
    /\ segments \in Timelines
    /\ sources \in [Sources -> [offset : Offsets, frames : Lengths]]
    /\ output_rate = 0 /\ source_frame = 0 /\ source_remainder = 0 /\ begin = 0 /\ heard = <<>>
    /\ audio_frame = 0 /\ exported = <<>>

(* Playback *)

\* toggle_playback: the playhead is anywhere before the end of the timeline.
Start(time, rate) ==
    /\ output_rate = 0 /\ Sources # {}
    /\ time < duration
    /\ output_rate' = rate /\ begin' = time
    /\ source_frame' = frame_index_at(time) /\ source_remainder' = 0
    /\ heard' = <<>>
    /\ UNCHANGED <<mixer, export>>

\* Mutant: what is left of a frame is forgotten at every output frame.
Output_Forgets ==
    /\ output_rate # 0 /\ Len(heard) < MaxOutput
    /\ heard' = Append(heard, mix_frame_at(timeline_seconds_at_frame(source_frame)))
    /\ source_frame' = source_frame + Rate \div output_rate
    /\ UNCHANGED <<mixer, export, output_rate, source_remainder, begin>>

\* One frame of the device's callback, whatever the size of its buffers.
Output ==
    LET remainder == source_remainder + Rate
    IN  /\ output_rate # 0 /\ Len(heard) < MaxOutput
        /\ heard' = Append(heard, mix_frame_at(timeline_seconds_at_frame(source_frame)))
        /\ source_frame' = source_frame + remainder \div output_rate
        /\ source_remainder' = remainder % output_rate
        /\ UNCHANGED <<mixer, export, output_rate, begin>>

Stop ==
    /\ output_rate # 0
    /\ output_rate' = 0 /\ source_frame' = 0 /\ source_remainder' = 0 /\ begin' = 0 /\ heard' = <<>>
    /\ UNCHANGED <<mixer, export>>

(* Export *)

\* duration * Rate frames, rounded up, and one at least.
total_audio_frames == Video!Greater((duration + Nanos - 1) \div Nanos, 1)

ExportPacket ==
    LET frame_count == Video!Lesser(PacketFrames, total_audio_frames - audio_frame)
    IN  /\ Sources # {} /\ audio_frame < total_audio_frames
        /\ exported' = exported \o render(audio_frame * Nanos, frame_count)
        /\ audio_frame' = audio_frame + frame_count
        /\ UNCHANGED <<mixer, playback>>

Next ==
    \/ \E time \in Edges, rate \in OutputRates : Start(time, rate)
    \/ Output
    \/ Stop
    \/ ExportPacket

Spec == Init /\ [][Next]_vars

(* Properties *)

Played == [Sources -> Nat \cup {Silent}]

\* Types; the export never has more frames than the timeline is long.
TypeOK ==
    /\ segments \in Timelines
    /\ sources \in [Sources -> [offset : Offsets, frames : Lengths]]
    /\ output_rate \in OutputRates \cup {0}
    /\ source_frame \in Nat /\ source_remainder \in Nat
    /\ output_rate # 0 => source_remainder < output_rate
    /\ heard \in Seq(Played) /\ exported \in Seq(Played)
    /\ audio_frame \in 0..total_audio_frames /\ Len(exported) = audio_frame

\* How far a sound may be from its place: a frame of the mix each for the start
\* of playback and for the device's rate, one for the source's own frames, and
\* the nanoseconds lost in between.
Slack == 2 * Nanos + 2 * Rate
NearCut(time) ==
    \E i \in 1..Len(segments) + 1 :
        LET at == Video!TimelineStart(segments, i) IN at - Slack < time /\ time < at + Slack
RecordedAt(s, frame) == frame * Nanos + sources[s].offset
\* The time of the timeline, in grains times the device's rate, at output frame k.
IdealTime(k) == begin * output_rate + (k - 1) * Rate * Nanos

\* However long playback lasts and whatever the device's rate, every source is
\* heard, in time with the picture the editor shows then: the remainder of the
\* division of the two rates is carried from frame to frame (build_output_stream),
\* so that sound and picture do not drift apart.
SoundFollowsPicture ==
    \A k \in DOMAIN heard, s \in Sources :
        LET time == IdealTime(k) \div output_rate
            picture == Video!source_time_at(segments, time)
            covered == Between(picture, sources[s].offset + Slack,
                               RecordedAt(s, sources[s].frames) - Slack)
        IN  ~NearCut(time) /\ time < duration =>
                IF heard[k][s] = Silent THEN ~covered
                ELSE Between(RecordedAt(s, heard[k][s]) - picture, -Slack, Slack + 1)

\* Nothing that was cut out of the recording is heard or exported, but for the
\* frame at an edge of a segment: frames are rounded to nanoseconds and to the
\* frames of the source on both sides of a cut (mix_frame_at).
CutIsSilent ==
    \A played \in {heard, exported} : \A k \in DOMAIN played : \A s \in Sources :
        played[k][s] # Silent =>
            \E i \in DOMAIN segments :
                Between(RecordedAt(s, played[k][s]),
                        segments[i].start - Nanos, segments[i].end + Nanos)

\* An export that has ended has every frame of every source that lies inside a
\* segment of the timeline, at its place to the frame, however the frames fall
\* into packets and segments (render_export's loop).
ExportHasAll ==
    audio_frame = total_audio_frames =>
        \A s \in Sources, f \in 0..Video!Greatest(Lengths) - 1, i \in DOMAIN segments :
            LET at == RecordedAt(s, f)
                place == Video!TimelineStart(segments, i) + at - segments[i].start
            IN  /\ f < sources[s].frames
                /\ segments[i].start + Nanos <= at /\ at <= segments[i].end - Nanos
                => \E k \in DOMAIN exported :
                        /\ exported[k][s] \in f - 1..f + 1
                        /\ Between((k - 1) * Nanos - place, -Nanos, Nanos)
=============================================================================
