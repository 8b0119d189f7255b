------------------------------- MODULE Editor -------------------------------
(***************************************************************************)
(* The document of the bundle editor (editor.rs, bundle.rs): the video     *)
(* and zoom segments of a bundle, edited by clicks, by gestures that last  *)
(* from a mouse-down to a mouse-up, and by keys pressed at any moment,     *)
(* during a gesture too; and project-config.json, which every finished     *)
(* edit rewrites.  What the preview shows is in EditorPreview; which part  *)
(* of the timeline is visible, and zooming into it, are left out.          *)
(***************************************************************************)
EXTENDS Timeline

CONSTANTS
    Inputs,         \* the ranges of the recording that the video inputs cover
    Looks,          \* values of the settings the properties do not tell apart
    MaxId,          \* bound: ids given to segments
    MaxFaults,      \* bound: saves that fail
    MaxOpens        \* bound: how often the bundle is opened

EditorAssumption ==
    /\ Inputs \subseteq {r \in Nat \X Nat : r[1] < r[2]} /\ Inputs # {}
    /\ 0 \in Looks
    /\ MaxId \in Nat /\ MaxFaults \in Nat /\ MaxOpens \in Nat \ {0}

VARIABLES
    segments,   \* bundle.video_segments
    zooms,      \* bundle.zoom_segments
    look,       \* everything else the editor sets: sliders, options, zoom amounts and targets
    duration,   \* duration_secs, a cached sum
    current,    \* current_time_secs, the playhead
    range,      \* source_start_secs, source_end_secs
    selected,   \* <<selected_video_segment, selected_zoom>>, 0 for none
    cutMode,
    gesture,    \* what the mouse is dragging
    disk,       \* project-config.json
    saved,      \* the last save succeeded
    edited,     \* a save was due since the bundle was opened
    faults, opens

document == <<segments, zooms, look, duration, range>>
file == <<disk, saved, edited, faults>>
vars == <<segments, zooms, look, duration, current, range, selected, cutMode, gesture,
          disk, saved, edited, faults, opens>>

NoGesture == [kind |-> "none"]
SourceEnd == Greatest({r[2] : r \in Inputs})
Config == [segments |-> segments, zooms |-> zooms, look |-> look]
Written(config) == [state |-> "written", config |-> config]
Torn == [state |-> "torn", config |-> [segments |-> <<>>, zooms |-> {}, look |-> 0]]

(* project-config.json *)

\* BlipBundle::save_project_config of the new document.  fs::write truncates
\* before it writes, so a write that fails leaves the old file or a torn one;
\* save_bundle only logs the error.
save_bundle ==
    /\ edited' = TRUE
    /\ \/ /\ disk' = Written(Config')
          /\ saved' = TRUE
          /\ UNCHANGED faults
       \/ /\ faults < MaxFaults
          /\ faults' = faults + 1
          /\ disk' \in {disk, Torn}
          /\ saved' = FALSE

\* BundleEditor::open, with the inputs that can be decoded this time.  A bundle
\* that was never saved has one segment; a saved timeline is clipped to what
\* the inputs share now.  A torn file cannot be decoded and nothing is opened.
Opened(decodable, config, first) ==
    LET r == shared_source_range(decodable)
        whole == IF r[2] > r[1] THEN <<VideoSegment(1, r[1], r[2])>> ELSE <<>>
        clamped == clamp_video_timeline_to_source_range(config.segments, config.zooms, r)
    IN  [range |-> r,
         segments |-> IF first THEN whole ELSE clamped.segments,
         zooms |-> IF first THEN {} ELSE clamped.zooms]

Init ==
    \E decodable \in SUBSET Inputs :
        LET o == Opened(decodable, Torn.config, TRUE) IN
        /\ segments = o.segments /\ zooms = o.zooms /\ range = o.range
        /\ look = 0
        /\ duration = video_timeline_duration(o.segments)
        /\ current = 0 /\ selected = <<0, 0>> /\ cutMode = FALSE /\ gesture = NoGesture
        /\ disk = [state |-> "absent", config |-> Torn.config]
        /\ saved = TRUE /\ edited = FALSE /\ faults = 0 /\ opens = 1

\* The window is closed at any moment, in a gesture too, and opened again.
Reopen ==
    /\ opens < MaxOpens
    /\ opens' = opens + 1
    /\ disk.state # "torn"
    /\ \E decodable \in SUBSET Inputs :
        LET o == Opened(decodable, disk.config, disk.state = "absent") IN
        /\ segments' = o.segments /\ zooms' = o.zooms /\ range' = o.range
        /\ look' = disk.config.look
        /\ duration' = video_timeline_duration(o.segments)
    /\ current' = 0 /\ selected' = <<0, 0>> /\ cutMode' = FALSE /\ gesture' = NoGesture
    /\ saved' = TRUE /\ edited' = FALSE
    /\ UNCHANGED <<disk, faults>>

(* Clicks *)

SegmentIds == Ids(Elems(segments))
Idle == gesture = NoGesture

set_playback_time(time) == current' = Clamp(time, 0, duration)

toggle_cut_mode ==
    /\ cutMode' = ~cutMode
    /\ UNCHANGED <<document, current, selected, gesture, file, opens>>

\* A click on a segment, at a time it shows, cuts it or selects it.
activate_video_segment(id, time) ==
    LET i == IndexOf(segments, id)
        offset == time - TimelineStart(segments, i)
    IN
    /\ Idle /\ id \in SegmentIds
    /\ offset \in 0..duration_secs(segments[i])
    /\ \/ /\ cutMode
          /\ can_split_video_segment(duration_secs(segments[i]), offset)
          /\ NewId(Elems(segments)) <= MaxId
          /\ segments' = Split(segments, i, offset)
          /\ selected' = <<NewId(Elems(segments)), 0>>
          /\ current' = time
          /\ UNCHANGED <<zooms, look, duration, range>>
          /\ save_bundle
       \/ /\ ~cutMode
          /\ selected' = <<id, 0>>
          /\ set_playback_time(time)
          /\ UNCHANGED <<document, file>>
    /\ UNCHANGED <<cutMode, gesture, opens>>

\* Time is put in: the zooms make room and the playhead stays on its picture.
Inserted(at, length) ==
    /\ zooms' = ripple_insert_ranges(zooms, at, length)
    /\ current' = IF current >= at THEN current + length ELSE current

\* The bubble on the cut before a segment.
activate_video_cut(id) ==
    LET i == IndexOf(segments, id)
        edit == edit_video_cut(segments, i)
    IN
    /\ Idle /\ id \in SegmentIds /\ i > 1
    /\ segments' = edit.segments
    /\ \/ /\ edit.inserted > 0
          /\ Inserted(edit.at, edit.inserted)
       \/ /\ edit.inserted = 0
          /\ UNCHANGED <<zooms, current>>
    /\ selected' = IF selected[1] = edit.removed
                   THEN <<segments[i - 1].id, selected[2]>> ELSE selected
    /\ duration' = video_timeline_duration(segments')
    /\ UNCHANGED <<look, range, cutMode, gesture, opens>>
    /\ save_bundle

\* The bubbles before the first and after the last segment: the recording's
\* own start and end are put back.
activate_video_segment_edge(edge) ==
    LET n == Len(segments) IN
    /\ Idle /\ segments # <<>>
    /\ \/ /\ edge = "start"
          /\ segments[1].start > range[1]
          /\ segments' = [segments EXCEPT ![1].start = range[1]]
          /\ Inserted(0, segments[1].start - range[1])
       \/ /\ edge = "end"
          /\ segments[n].end < range[2]
          /\ segments' = [segments EXCEPT ![n].end = range[2]]
          /\ Inserted(TimelineStart(segments, n + 1), range[2] - segments[n].end)
    /\ duration' = video_timeline_duration(segments')
    /\ UNCHANGED <<look, range, selected, cutMode, gesture, opens>>
    /\ save_bundle

\* Anywhere else on the timeline.
ClickTimeline(time) ==
    /\ Idle
    /\ selected' = <<0, 0>>
    /\ set_playback_time(time)
    /\ UNCHANGED <<document, cutMode, gesture, file, opens>>

(* Keys *)

\* Delete: the selected zoom segment, or else the selected video segment.
delete_selected ==
    \/ /\ selected[2] # 0
       /\ selected[2] \in Ids(zooms)
       /\ zooms' = {z \in zooms : z.id # selected[2]}
       /\ selected' = [selected EXCEPT ![2] = 0]
       /\ gesture' = IF gesture.kind \in {"move", "resize"} THEN NoGesture ELSE gesture
       /\ UNCHANGED <<segments, look, duration, current, range, cutMode, opens>>
       /\ save_bundle
    \/ LET i == IndexOf(segments, selected[1])
           start == TimelineStart(segments, i)
           left == Without(segments, i)
       IN
       /\ selected[2] = 0
       /\ Len(segments) > 1 /\ selected[1] \in SegmentIds
       /\ segments' = left
       /\ selected' = <<IF i <= Len(left) THEN left[i].id ELSE left[i - 1].id, 0>>
       /\ zooms' = ripple_delete_ranges(zooms, start, duration_secs(segments[i]))
       /\ duration' = video_timeline_duration(left)
       /\ current' = Lesser(start, duration')
       /\ UNCHANGED <<look, range, cutMode, gesture, opens>>
       /\ save_bundle

\* Escape, with no dialog open.
Escape ==
    /\ selected' = <<0, 0>>
    /\ UNCHANGED <<document, current, cutMode, gesture, file, opens>>

(* Gestures *)

\* Mutant: only the recording bounds the drag.
begin_video_segment_drag_Unbounded(id, edge) ==
    LET i == IndexOf(segments, id)
        s == segments[i]
    IN
    /\ Idle /\ id \in SegmentIds
    /\ gesture' = [kind |-> "video", id |-> id, edge |-> edge,
                   at |-> TimelineStart(segments, i),
                   start |-> s.start, end |-> s.end, draft |-> <<s.start, s.end>>,
                   minimum |-> range[1], maximum |-> range[2], zooms |-> zooms]
    /\ selected' = <<id, 0>>
    /\ UNCHANGED <<document, current, cutMode, file, opens>>

\* The neighbours bound the drag; they and the zooms are remembered as they are.
begin_video_segment_drag(id, edge) ==
    LET i == IndexOf(segments, id)
        s == segments[i]
    IN
    /\ Idle /\ id \in SegmentIds
    /\ gesture' = [kind |-> "video", id |-> id, edge |-> edge,
                   at |-> TimelineStart(segments, i),
                   start |-> s.start, end |-> s.end, draft |-> <<s.start, s.end>>,
                   minimum |-> IF i = 1 THEN range[1] ELSE segments[i - 1].end,
                   maximum |-> IF i = Len(segments) THEN range[2] ELSE segments[i + 1].start,
                   zooms |-> zooms]
    /\ selected' = <<id, 0>>
    /\ UNCHANGED <<document, current, cutMode, file, opens>>

\* The pointer is on the edge it drags.
drag_video_segment(delta) ==
    /\ gesture.kind = "video"
    /\ gesture' = [gesture EXCEPT !.draft =
                     ResizeRange(gesture.edge, gesture.start, gesture.end,
                                 gesture.minimum, gesture.maximum, delta)]
    /\ set_playback_time(delta + IF gesture.edge = "start" THEN gesture.at
                                 ELSE gesture.at + gesture.end - gesture.start)
    /\ UNCHANGED <<document, selected, cutMode, file, opens>>

\* Mutant: what is cut off at the start of a segment counts as cut at its end.
finish_video_segment_drag_AtEnd ==
    LET g == gesture
        old == g.end - g.start
        new == g.draft[2] - g.draft[1]
        i == IndexOf(segments, g.id)
    IN
    /\ g.kind = "video" /\ g.id \in SegmentIds
    /\ gesture' = NoGesture
    /\ segments' = [segments EXCEPT ![i].start = g.draft[1], ![i].end = g.draft[2]]
    /\ zooms' = IF new < old
                THEN ripple_delete_ranges(g.zooms, g.at + new, old - new)
                ELSE ripple_insert_ranges(g.zooms, g.at + old, new - old)
    /\ duration' = video_timeline_duration(segments')
    /\ current' = Lesser(current, duration')
    /\ UNCHANGED <<look, range, selected, cutMode, opens>>
    /\ save_bundle

finish_video_segment_drag ==
    LET g == gesture
        old == g.end - g.start
        new == g.draft[2] - g.draft[1]
        i == IndexOf(segments, g.id)
    IN
    /\ g.kind = "video"
    /\ gesture' = NoGesture
    /\ \/ /\ g.id \notin SegmentIds
          /\ UNCHANGED <<document, current, file>>
       \/ /\ g.id \in SegmentIds
          /\ segments' = [segments EXCEPT ![i].start = g.draft[1], ![i].end = g.draft[2]]
          /\ zooms' = IF new < old
                      THEN ripple_delete_ranges(g.zooms,
                               IF g.edge = "start" THEN g.at ELSE g.at + new, old - new)
                      ELSE ripple_insert_ranges(g.zooms,
                               IF g.edge = "start" THEN g.at ELSE g.at + old, new - old)
          /\ duration' = video_timeline_duration(segments')
          /\ current' = Lesser(current, duration')
          /\ UNCHANGED <<look, range>>
          /\ save_bundle
    /\ UNCHANGED <<selected, cutMode, opens>>

\* The bounds of a zoom drag: the nearest zooms on both sides.
ZoomGesture(kind, z, edge) ==
    LET before == {y.end : y \in {x \in zooms : x.id # z.id /\ x.end <= z.start}}
        after == {y.start : y \in {x \in zooms : x.id # z.id /\ x.start >= z.end}}
    IN  [kind |-> kind, id |-> z.id, edge |-> edge,
         start |-> z.start, end |-> z.end, draft |-> <<z.start, z.end>>,
         minimum |-> IF before = {} THEN 0 ELSE Greatest(before),
         maximum |-> IF after = {} THEN duration ELSE Least(after)]

begin_zoom_segment_drag(z, kind, edge) ==
    /\ gesture' = ZoomGesture(kind, z, edge)
    /\ selected' = <<0, z.id>>

add_zoom(r) ==
    /\ r[2] > r[1]
    /\ NewId(zooms) <= MaxId
    /\ zooms' = zooms \cup {ZoomSegment(NewId(zooms), r[1], r[2])}
    /\ selected' = <<0, NewId(zooms)>>

\* A mouse-down on the zoom track: on a zoom segment (the first one, where two
\* meet) it begins a move, elsewhere it adds a segment if one fits.
ClickZooms(time) ==
    LET here == {z \in zooms : z.start <= time /\ time <= z.end}
        fits == zoom_segment_range_at(time, duration, zooms)
    IN
    /\ Idle
    /\ \/ /\ here # {}
          /\ \E z \in here : /\ z.id = Least(Ids(here))
                             /\ begin_zoom_segment_drag(z, "move", "none")
          /\ set_playback_time(time)
          /\ UNCHANGED <<document, cutMode, file, opens>>
       \/ /\ here = {}
          /\ \E r \in fits : add_zoom(r)
          /\ UNCHANGED <<segments, look, duration, range, current, cutMode, gesture, opens>>
          /\ save_bundle
       \/ /\ here = {} /\ fits = {}
          /\ ClickTimeline(time)

BeginZoomResize(id, edge) ==
    /\ Idle
    /\ \E z \in zooms : z.id = id /\ begin_zoom_segment_drag(z, "resize", edge)
    /\ UNCHANGED <<document, current, cutMode, file, opens>>

Moved(g, delta) ==
    LET length == Greater(g.end - g.start, 0)
        start == Clamp(g.start + delta, g.minimum, Greater(g.maximum - length, g.minimum))
    IN  <<start, start + length>>

\* A move changes the bundle at every mouse event, a resize only a draft.
drag_zoom_segment(delta, time) ==
    LET g == gesture
        r == IF g.kind = "move" THEN Moved(g, delta)
             ELSE ResizeRange(g.edge, g.start, g.end, g.minimum, g.maximum, delta)
    IN
    /\ \/ /\ g.kind = "move"
          /\ zooms' = {IF z.id = g.id THEN ZoomSegment(z.id, r[1], r[2]) ELSE z : z \in zooms}
          /\ set_playback_time(time)
          /\ UNCHANGED gesture
       \/ /\ g.kind = "resize"
          /\ gesture' = [g EXCEPT !.draft = r]
          /\ set_playback_time(IF g.edge = "start" THEN r[1] ELSE r[2])
          /\ UNCHANGED zooms
    /\ UNCHANGED <<segments, look, duration, range, selected, cutMode, file, opens>>

\* Mutant: the end of a move is not saved.
finish_zoom_segment_drag_OnlyResize ==
    LET g == gesture IN
    /\ g.kind \in {"move", "resize"}
    /\ gesture' = NoGesture
    /\ UNCHANGED <<segments, look, duration, current, range, selected, cutMode, opens>>
    /\ \/ /\ g.kind = "resize"
          /\ zooms' = {IF z.id = g.id THEN ZoomSegment(z.id, g.draft[1], g.draft[2]) ELSE z
                         : z \in zooms}
          /\ save_bundle
       \/ /\ g.kind = "move"
          /\ UNCHANGED <<zooms, file>>

finish_zoom_segment_drag ==
    LET g == gesture IN
    /\ g.kind \in {"move", "resize"}
    /\ gesture' = NoGesture
    /\ zooms' = IF g.kind = "resize"
                THEN {IF z.id = g.id THEN ZoomSegment(z.id, g.draft[1], g.draft[2]) ELSE z
                        : z \in zooms}
                ELSE zooms
    /\ UNCHANGED <<segments, look, duration, current, range, selected, cutMode, opens>>
    /\ save_bundle

\* A slider, or the target of the selected zoom, follows the mouse and is
\* saved when the button is released.
set_slider_value(value) ==
    /\ gesture.kind \in {"none", "slider"}
    /\ gesture' = [kind |-> "slider"]
    /\ look' = value
    /\ UNCHANGED <<segments, zooms, duration, range, current, selected, cutMode, file, opens>>

finish_slider ==
    /\ gesture.kind = "slider"
    /\ gesture' = NoGesture
    /\ UNCHANGED <<document, current, selected, cutMode, opens>>
    /\ save_bundle

\* The options of the sidebar and the dialogs, set and saved with one click.
set_option(value) ==
    /\ Idle
    /\ look' = value
    /\ UNCHANGED <<segments, zooms, duration, range, current, selected, cutMode, gesture, opens>>
    /\ save_bundle

Times == 0..(SourceEnd + 1)
Edges == {"start", "end"}
Deltas == (-SourceEnd)..SourceEnd

Next ==
    \/ Reopen
    \/ toggle_cut_mode
    \/ \E id \in 1..MaxId, time \in Times : activate_video_segment(id, time)
    \/ \E id \in 1..MaxId : activate_video_cut(id)
    \/ \E edge \in Edges : activate_video_segment_edge(edge)
    \/ \E time \in Times : ClickTimeline(time)
    \/ delete_selected
    \/ Escape
    \/ \E id \in 1..MaxId, edge \in Edges : begin_video_segment_drag(id, edge)
    \/ \E delta \in Deltas : drag_video_segment(delta)
    \/ finish_video_segment_drag
    \/ \E time \in Times : ClickZooms(time)
    \/ \E id \in 1..MaxId, edge \in Edges : BeginZoomResize(id, edge)
    \/ \E delta \in Deltas, time \in Times : drag_zoom_segment(delta, time)
    \/ finish_zoom_segment_drag
    \/ \E value \in Looks : set_slider_value(value)
    \/ finish_slider
    \/ \E value \in Looks : set_option(value)

Spec == Init /\ [][Next]_vars

-----------------------------------------------------------------------------
(* Properties *)

Segment == [id : 1..MaxId, start : Int, end : Int]

\* The document, the playhead, the selection and the file have their types.
TypeOK ==
    /\ segments \in Seq(Segment)
    /\ zooms \subseteq [id : 1..MaxId, start : Int, end : Int]
    /\ look \in Looks /\ duration \in Nat /\ current \in Nat
    /\ range \in Nat \X Nat
    /\ selected \in (0..MaxId) \X (0..MaxId)
    /\ cutMode \in BOOLEAN
    /\ gesture.kind \in {"none", "video", "move", "resize", "slider"}
    /\ disk.state \in {"absent", "written", "torn"}
    /\ saved \in BOOLEAN /\ edited \in BOOLEAN
    /\ faults \in 0..MaxFaults /\ opens \in 1..MaxOpens

\* A timeline in order: no segment is empty and no picture is on it twice; no two
\* segments have one id.  Zooms are apart from each other and inside it.
InOrder(config) ==
    /\ \A s \in Elems(config.segments) : s.start < s.end
    /\ \A i, j \in DOMAIN config.segments : i < j =>
        /\ config.segments[i].end <= config.segments[j].start
        /\ config.segments[i].id # config.segments[j].id
    /\ \A z \in config.zooms :
        0 <= z.start /\ z.start < z.end /\ z.end <= video_timeline_duration(config.segments)
    /\ \A y, z \in config.zooms : y # z =>
        y.id # z.id /\ (y.end <= z.start \/ z.end <= y.start)

\* What is in memory and what is in the file are in order, no segment reaches
\* outside the range the inputs share, the cached duration is that of the
\* segments, and the playhead is inside it.
Orderly ==
    /\ InOrder(Config) /\ InOrder(disk.config)
    /\ \A s \in Elems(segments) : range[1] <= s.start /\ s.end <= range[2]
    /\ duration = video_timeline_duration(segments)
    /\ current \in 0..duration

\* Clipping at opening keeps what is left of a segment, however short (the test is
\* clipped_end_secs > clipped_start_secs), and a zoom may be added to a timeline as
\* short.  When the edge of one with less than MinRange between its other edge and
\* its neighbour, or the end of the range, is dragged, the mouse-up gives it
\* MinRange all the same, and it overlaps the neighbour or leaves the range.
Forced ==
    /\ gesture.kind \in {"video", "resize"}
    /\ gesture' = NoGesture /\ opens' = opens
    /\ \/ gesture.edge = "start" /\ gesture.end - gesture.minimum < MinRange
       \/ gesture.edge = "end" /\ gesture.maximum - gesture.start < MinRange

\* Only opening makes a segment shorter than MinRange.
NoneTooShort ==
    opens' = opens /\ segments' # segments =>
        \A s \in Elems(segments') :
            \/ duration_secs(s) >= MinRange
            \/ \E r \in Elems(segments) : r.id = s.id /\ duration_secs(r) <= duration_secs(s)

\* The pictures on the timeline, and those of them that are zoomed.
Shown(segs) == {source_time_at(segs, t) : t \in 0..(video_timeline_duration(segs) - 1)}
PicturesOf(segs, z) ==
    {source_time_at(segs, t) : t \in z.start..(z.end - 1)}

\* An edit of a video track in order leaves the zooms on their pictures: a picture
\* that is on the timeline before and after is zoomed after iff it was before,
\* but for a zoom of which no more than MinRange is left, which is dropped.
\* The same holds for a saved bundle whose timeline is clipped when it is opened.
\* (ripple_delete_ranges, ripple_insert_ranges and the bounds they are given.)
ZoomsKeepPictures ==
    /\ segments' # segments /\ segments # <<>> /\ segments' # <<>>
    /\ opens' = opens \/ disk = Written(Config)
    /\ Orderly
    =>
    LET both == Shown(segments) \cap Shown(segments)'
        now == UNION {PicturesOf(segments, z)' : z \in zooms'}
    IN  /\ \A z \in zooms :
            LET left == PicturesOf(segments, z) \cap both IN
            left \subseteq now \/ Cardinality(left) <= MinRange
        /\ now \cap both \subseteq UNION {PicturesOf(segments, z) : z \in zooms}

\* Putting time back, at a cut or at the ends, leaves the playhead on the
\* picture it was on, unless it stood at the very end.
PlayheadKeepsPicture ==
    duration' > duration /\ Idle /\ opens' = opens /\ current < duration =>
        source_time_at(segments', current') = source_time_at(segments, current)

\* Between gestures, what is in memory is what is in project-config.json, as
\* long as the last save succeeded: no handler forgets to save, and none saves
\* too early.  (A bundle that is only opened is not written.)
SavedBetweenGestures ==
    Idle /\ edited /\ saved => disk = Written(Config)
=============================================================================
