------------------------------ MODULE Timeline ------------------------------
(***************************************************************************)
(* The arithmetic of the bundle editor's timeline (editor.rs): video       *)
(* segments, each a range of the recording, played one after the other,    *)
(* and zoom segments, ranges of the timeline they make.                    *)
(*                                                                         *)
(* Times are whole ticks; the constants give the lengths the code has in   *)
(* seconds.  video_segments is the sequence of the code's Vec.             *)
(* zoom_segments is a set: ids are only ever max + 1 and pushed at the     *)
(* end, so "the first in the Vec" is the lowest id.                        *)
(***************************************************************************)
EXTENDS Integers, Sequences, FiniteSets

CONSTANTS
    MinSegment,     \* MIN_VIDEO_SEGMENT_DURATION_SECS: each side of a split
    MinRange,       \* 0.01 s: the shortest range an edge can be dragged to
    ZoomLength      \* 3.0 s: a zoom segment is added with this length

TimelineAssumption ==
    /\ MinSegment \in Nat /\ MinRange \in Nat /\ ZoomLength \in Nat
    /\ 0 < MinRange /\ MinRange <= MinSegment /\ MinRange <= ZoomLength

Lesser(a, b) == IF a <= b THEN a ELSE b
Greater(a, b) == IF a >= b THEN a ELSE b
Clamp(x, low, high) == Lesser(Greater(x, low), high)
Least(S) == CHOOSE x \in S : \A y \in S : x <= y
Greatest(S) == CHOOSE x \in S : \A y \in S : y <= x

VideoSegment(id, start, end) == [id |-> id, start |-> start, end |-> end]
ZoomSegment(id, start, end) == [id |-> id, start |-> start, end |-> end]
Ids(S) == {s.id : s \in S}
Elems(segments) == {segments[i] : i \in DOMAIN segments}
IndexOf(segments, id) == CHOOSE i \in DOMAIN segments : segments[i].id = id
NewId(S) == IF S = {} THEN 1 ELSE Greatest(Ids(S)) + 1

duration_secs(s) == Greater(s.end - s.start, 0)

\* Where segment i starts on the timeline: the durations before it.
TimelineStart(segments, i) ==
    LET sum[k \in 0..Len(segments)] ==
            IF k = 0 THEN 0 ELSE sum[k - 1] + duration_secs(segments[k])
    IN  sum[i - 1]

video_timeline_duration(segments) == TimelineStart(segments, Len(segments) + 1)

\* The time of the recording that is shown at a time of the timeline.
source_time_at(segments, time) ==
    LET t == Greater(time, 0)
        Here(i) == \/ t < TimelineStart(segments, i + 1)
                   \/ i = Len(segments)
        i == Least({j \in DOMAIN segments : Here(j)})
    IN  segments[i].start
            + Lesser(t - TimelineStart(segments, i), duration_secs(segments[i]))

(* Splitting, filling and merging *)

can_split_video_segment(duration, offset) ==
    offset >= MinSegment /\ duration - offset >= MinSegment

Split(segments, i, offset) ==
    LET s == segments[i]
        at == s.start + offset
    IN  SubSeq(segments, 1, i - 1)
            \o << [s EXCEPT !.end = at],
                  VideoSegment(NewId(Elems(segments)), at, s.end) >>
            \o SubSeq(segments, i + 1, Len(segments))

Without(segments, i) == SubSeq(segments, 1, i - 1) \o SubSeq(segments, i + 1, Len(segments))

\* The cut before segment i: its gap is filled, or the two parts become one.
edit_video_cut(segments, i) ==
    LET left == segments[i - 1]
        right == segments[i]
        gap == Greater(right.start - left.end, 0)
    IN  IF gap > 0
        THEN [segments |-> [segments EXCEPT ![i - 1].end = right.start],
              at |-> TimelineStart(segments, i), inserted |-> gap, removed |-> 0]
        ELSE [segments |-> Without([segments EXCEPT
                                     ![i - 1].end = Greater(left.end, right.end)], i),
              at |-> TimelineStart(segments, i), inserted |-> 0, removed |-> right.id]

(* Dragging an edge *)

\* resize_video_segment_range and resize_zoom_segment_range are the same code.
ResizeRange(edge, start, end, minimum, maximum, delta) ==
    IF edge = "start"
    THEN << Lesser(Greater(start + delta, minimum), end - MinRange), end >>
    ELSE << start, Greater(Lesser(end + delta, maximum), start + MinRange) >>

(* Zoom segments under edits of the video track *)

Deleted(time, start, duration) ==
    IF time <= start THEN time
    ELSE IF time >= start + duration THEN time - duration
    ELSE start

ripple_delete_ranges(zooms, start, duration) ==
    {z \in {ZoomSegment(y.id, Deleted(y.start, start, duration),
                              Deleted(y.end, start, duration)) : y \in zooms} :
        z.end - z.start > MinRange}

ripple_insert_ranges(zooms, start, duration) ==
    {ZoomSegment(z.id,
        IF z.start >= start THEN z.start + duration ELSE z.start,
        IF z.end > start THEN z.end + duration ELSE z.end) : z \in zooms}

\* Where a click at the cursor puts a zoom segment; {} where it does not fit.
zoom_segment_range_at(cursor, duration, zooms) ==
    LET length == Lesser(duration, ZoomLength)
        c == Clamp(cursor, 0, duration)
        before == {z.end : z \in {y \in zooms : y.end <= c}}
        after == {z.start : z \in {y \in zooms : y.start >= c}}
        from == IF before = {} THEN 0 ELSE Greatest(before)
        to == IF after = {} THEN duration ELSE Least(after)
        start == Clamp(c, from, Greater(to - length, from))
    IN  IF to - from < length THEN {} ELSE {<<start, start + length>>}

(* Opening a bundle *)

\* What all video inputs cover; <<0, 0>> when they share nothing.
shared_source_range(ranges) ==
    LET start == Greatest({r[1] : r \in ranges})
        end == Least({r[2] : r \in ranges})
    IN  IF ranges # {} /\ end > start THEN <<start, end>> ELSE <<0, 0>>

Clipped(s, range) == [s EXCEPT !.start = Greater(s.start, range[1]),
                               !.end = Lesser(s.end, range[2])]

\* The parts of the timeline that clipping segment i takes away.
Deletions(segments, i, range) ==
    LET s == segments[i]
        c == Clipped(s, range)
        at == TimelineStart(segments, i)
    IN  IF c.end > c.start
        THEN {d \in {<<at, c.start - s.start>>, <<at + c.end - s.start, s.end - c.end>>} :
                 d[2] > 0}
        ELSE {d \in {<<at, duration_secs(s)>>} : d[2] > 0}

\* The zooms after all deletions, the last one on the timeline first.
RippleDeleteAll(zooms, deletions) ==
    LET ripple[D \in SUBSET deletions] ==
            IF D = {} THEN zooms
            ELSE LET d == CHOOSE d \in D : \A e \in D : d[1] <= e[1]
                 IN  ripple_delete_ranges(ripple[D \ {d}], d[1], d[2])
    IN  ripple[deletions]

clamp_video_timeline_to_source_range(segments, zooms, range) ==
    LET clipped == [i \in DOMAIN segments |-> Clipped(segments[i], range)]
    IN  [segments |-> SelectSeq(clipped, LAMBDA s : s.end > s.start),
         zooms |-> RippleDeleteAll(zooms, UNION {Deletions(segments, i, range)
                                                   : i \in DOMAIN segments})]
=============================================================================
