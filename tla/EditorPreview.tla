---------------------------- MODULE EditorPreview ----------------------------
(***************************************************************************)
(* What the bundle editor shows (editor.rs): playback, the preview worker  *)
(* thread that renders requests, the wallpaper decoder thread it waits     *)
(* for, and the filter through which results reach the screen.             *)
(*                                                                         *)
(* A document is the recording with some ticks cut off its start and a     *)
(* wallpaper: enough to tell timeline time from recording time and one     *)
(* appearance from another.  The edits themselves are in Editor.           *)
(* Requests are numbered, only so that properties can name them.           *)
(***************************************************************************)
EXTENDS Integers, Sequences, FiniteSets

CONSTANTS
    Length,         \* ticks of the recording
    MaxCut,         \* bound: ticks an edit can cut off
    Wallpapers,     \* how many backgrounds there are
    Broken,         \* the ones that cannot be decoded
    MaxRequests,    \* bound: requests made
    MaxFaults       \* bound: frames that cannot be decoded or composed

PreviewAssumption ==
    /\ Length \in Nat /\ MaxCut \in Nat /\ MaxCut < Length
    /\ Wallpapers \in Nat /\ Broken \subseteq 1..Wallpapers
    /\ MaxRequests \in Nat /\ MaxFaults \in Nat

VARIABLES
    cut, wall,      \* the document: ticks cut off, background_preset (0: a colour)
    pos, cursor,    \* current_time_secs, cursor_time_secs
    dragging,       \* video_segment_drag
    playing, gen,   \* is_playing, playback_generation
    clock,          \* where playback_started_at and the time elapsed since put the playhead
    scheduled,      \* generations with a callback for the next frame
    lastShown,      \* last_playback_preview_time_secs
    screen,         \* current_frame
    asked,          \* the last request made
    slot,           \* the bounded(1) channel of requests
    worker,         \* the preview worker
    cache,          \* its content_frame_cache
    backgrounds,    \* its background_frames and failed_backgrounds
    results,        \* the unbounded channel of results
    decoder,        \* the wallpaper worker
    closed,         \* the window was closed
    failed          \* requests whose rendering failed

document == <<cut, wall>>
playback == <<playing, gen, clock, scheduled, lastShown>>
rendering == <<worker, cache, backgrounds, results, failed>>
vars == <<document, pos, cursor, dragging, playback, screen, asked, slot, rendering,
          decoder, closed>>

NoTime == -1
NoRequest == [seq |-> 0, gen |-> 0, time |-> 0, source |-> 0, wall |-> 0]
Images == 1..Wallpapers
Lesser(a, b) == IF a <= b THEN a ELSE b

duration_secs(c) == Length - c
source_time_at(c, time) == c + Lesser(time, duration_secs(c))
ShownTime(at, under) == IF under # NoTime THEN under ELSE at

Init ==
    /\ cut = 0 /\ wall \in 0..Wallpapers
    /\ pos = 0 /\ cursor = NoTime /\ dragging = FALSE
    /\ playing = FALSE /\ gen = 0 /\ clock = 0 /\ scheduled = {} /\ lastShown = NoTime
    /\ screen = NoRequest
    /\ asked = [seq |-> 1, gen |-> 0, time |-> 0, source |-> 0, wall |-> wall]
    /\ slot = asked
    /\ worker = [pc |-> "recv", req |-> NoRequest]
    /\ cache = [key |-> NoTime, content |-> NoTime]
    /\ backgrounds = [i \in Images |-> "none"]
    /\ results = <<>>
    /\ decoder = [done |-> FALSE, decoded |-> {}, next |-> 1, priority |-> <<>>, out |-> <<>>]
    /\ closed = FALSE /\ failed = {}

(* The main thread *)

\* force_send replaces a request the worker has not taken.
request_preview ==
    /\ asked.seq < MaxRequests
    /\ LET time == ShownTime(pos', cursor') IN
       asked' = [seq |-> asked.seq + 1, gen |-> gen', time |-> time,
                 source |-> source_time_at(cut', time), wall |-> wall']
    /\ slot' = asked'

stop_playback ==
    /\ playing' = FALSE
    /\ gen' = gen + 1
    /\ lastShown' = NoTime
    /\ clock' = 0
    /\ UNCHANGED scheduled

\* A click, a drag or a key moves the playhead.  (Opening the crop dialog
\* stops playback and asks for the same place again.)
set_playback_time(time) ==
    /\ ~closed
    /\ stop_playback
    /\ pos' = Lesser(time, duration_secs(cut))
    /\ UNCHANGED <<document, cursor, dragging, screen, rendering, decoder, closed>>
    /\ request_preview

\* Pausing asks for nothing.
toggle_playback ==
    /\ ~closed
    /\ \/ /\ playing
          /\ stop_playback
          /\ UNCHANGED <<pos, cursor, asked, slot>>
       \/ /\ ~playing
          /\ pos' = IF cursor # NoTime THEN Lesser(cursor, duration_secs(cut))
                    ELSE IF pos >= duration_secs(cut) THEN 0 ELSE pos
          /\ cursor' = NoTime
          /\ playing' = TRUE
          /\ gen' = gen + 1
          /\ lastShown' = NoTime
          /\ clock' = pos'
          /\ scheduled' = scheduled \cup {gen'}
          /\ UNCHANGED document
          /\ request_preview
    /\ UNCHANGED <<document, dragging, screen, rendering, decoder, closed>>

\* The callback for the next frame, at some later time.  The frame of the last
\* position is asked for and playback stopped at once.
PlaybackFrame(g) ==
    /\ ~closed
    /\ g \in scheduled
    /\ \/ /\ ~playing \/ gen # g
          /\ scheduled' = scheduled \ {g}
          /\ UNCHANGED <<pos, playing, gen, clock, lastShown, asked, slot>>
       \/ /\ playing /\ gen = g
          /\ \E now \in clock..Length :
                /\ pos' = Lesser(now, duration_secs(cut))
                /\ clock' = IF pos' < duration_secs(cut) THEN now ELSE 0
          /\ asked.seq < MaxRequests
          /\ LET time == ShownTime(pos', cursor) IN
             asked' = [seq |-> asked.seq + 1, gen |-> gen, time |-> time,
                       source |-> source_time_at(cut, time), wall |-> wall]
          /\ slot' = asked'
          /\ \/ /\ pos' = duration_secs(cut)
                /\ playing' = FALSE /\ gen' = gen + 1 /\ lastShown' = NoTime
                /\ scheduled' = scheduled \ {g}
             \/ /\ pos' < duration_secs(cut)
                /\ UNCHANGED <<playing, gen, lastShown, scheduled>>
    /\ UNCHANGED <<document, cursor, dragging, screen, rendering, decoder, closed>>

\* The mouse over the timeline, or off it; scrolling and pinching move the
\* cursor during playback too, hovering does not.
Hover(time) ==
    /\ ~closed
    /\ ~playing /\ (dragging => time = NoTime)
    /\ cursor' = time /\ cursor' # cursor
    /\ UNCHANGED <<document, pos, dragging, playback, screen, rendering, decoder, closed>>
    /\ request_preview

pan_timeline(time) ==
    /\ ~closed
    /\ cursor' = time
    /\ UNCHANGED <<document, pos, dragging, playback, screen, rendering, decoder, closed>>
    /\ request_preview

MouseExit ==
    /\ ~closed
    /\ cursor # NoTime /\ cursor' = NoTime
    /\ UNCHANGED <<document, pos, dragging, playback, screen, rendering, decoder, closed>>
    /\ request_preview

\* Deleting or filling: the playhead moves and playback goes on.
EditTimeline(c) ==
    /\ ~closed
    /\ cut' = c /\ cut' # cut
    /\ pos' \in 0..duration_secs(c)
    /\ cursor' = NoTime
    /\ UNCHANGED <<wall, dragging, playback, screen, rendering, decoder, closed>>
    /\ request_preview

SetBackground(w) ==
    /\ ~closed
    /\ wall' = w
    /\ UNCHANGED <<cut, pos, cursor, dragging, playback, screen, rendering, decoder, closed>>
    /\ request_preview

\* The edge of a segment is pressed, and released in the end.
begin_video_segment_drag ==
    /\ ~closed /\ ~dragging
    /\ dragging' = TRUE /\ cursor' = NoTime
    /\ UNCHANGED <<document, pos, playback, screen, asked, slot, rendering, decoder, closed>>

finish_video_segment_drag(c) ==
    /\ ~closed /\ dragging
    /\ dragging' = FALSE
    /\ cut' = c
    /\ pos' = Lesser(pos, duration_secs(c))
    /\ UNCHANGED <<wall, cursor, playback, screen, rendering, decoder, closed>>
    /\ request_preview

\* The filter: results of an earlier generation are dropped, and during
\* playback those that would go back.
ShowResult ==
    /\ ~closed
    /\ results # <<>>
    /\ results' = Tail(results)
    /\ LET r == Head(results) IN
       \/ /\ r.gen # gen \/ (playing /\ lastShown # NoTime /\ r.time < lastShown)
          /\ UNCHANGED <<screen, lastShown>>
       \/ /\ r.gen = gen /\ (playing => r.time >= lastShown)
          /\ screen' = r
          /\ lastShown' = IF playing THEN r.time ELSE lastShown
    /\ UNCHANGED <<document, pos, cursor, dragging, playing, gen, clock, scheduled, asked, slot,
                   worker, cache, backgrounds, failed, decoder, closed>>

\* The window and the editor are dropped, and with them their channel ends.
Close ==
    /\ ~closed
    /\ closed' = TRUE
    /\ UNCHANGED <<document, pos, cursor, dragging, playback, screen, asked, slot, rendering,
                   decoder>>

(* The preview worker *)

editor == <<document, pos, cursor, dragging, playback, screen, asked, closed>>

Received(frames, out) ==
    [i \in Images |-> IF \E k \in DOMAIN out : out[k] = i
                      THEN IF i \in Broken THEN "failed" ELSE "ok"
                      ELSE frames[i]]

\* A request is taken, the finished wallpapers are collected, one that is
\* missing is asked for, and the frame of the recording is decoded unless it
\* is the cached one.
TakeRequest ==
    /\ worker.pc = "recv"
    /\ slot # NoRequest
    /\ slot' = NoRequest
    /\ backgrounds' = Received(backgrounds, decoder.out)
    /\ LET pending == slot.wall # 0 /\ backgrounds'[slot.wall] = "none" IN
       decoder' = [decoder EXCEPT !.out = <<>>,
                     !.priority = IF pending /\ ~decoder.done
                                  THEN Append(@, slot.wall) ELSE @]
    /\ \/ /\ cache' = [key |-> slot.source, content |-> slot.source]
          /\ worker' = [pc |-> "wallpaper", req |-> slot]
          /\ UNCHANGED failed
       \/ /\ cache.key # slot.source
          /\ Cardinality(failed) < MaxFaults
          /\ failed' = failed \cup {slot.seq}
          /\ UNCHANGED <<worker, cache>>
    /\ UNCHANGED <<editor, results>>

\* Mutant: any wallpaper ends the wait.
ReceiveWallpaper_Any ==
    /\ worker.pc = "wallpaper"
    /\ \/ /\ worker.req.wall # 0 /\ backgrounds[worker.req.wall] = "none"
          /\ decoder.out # <<>>
          /\ backgrounds' = Received(backgrounds, <<Head(decoder.out)>>)
          /\ decoder' = [decoder EXCEPT !.out = Tail(@)]
       \/ /\ worker.req.wall # 0 => backgrounds[worker.req.wall] # "none"
          /\ UNCHANGED <<backgrounds, decoder>>
    /\ worker' = [worker EXCEPT !.pc = "compose"]
    /\ UNCHANGED <<editor, slot, cache, results, failed>>

\* It waits for the wallpaper of its request, unless the decoder has gone.
ReceiveWallpaper ==
    /\ worker.pc = "wallpaper"
    /\ \/ /\ worker.req.wall # 0 /\ backgrounds[worker.req.wall] = "none"
          /\ decoder.out # <<>>
          /\ backgrounds' = Received(backgrounds, <<Head(decoder.out)>>)
          /\ decoder' = [decoder EXCEPT !.out = Tail(@)]
          /\ UNCHANGED worker
       \/ /\ \/ worker.req.wall = 0
             \/ worker.req.wall # 0 /\ backgrounds[worker.req.wall] # "none"
             \/ decoder.done /\ decoder.out = <<>>
          /\ worker' = [worker EXCEPT !.pc = "compose"]
          /\ UNCHANGED <<backgrounds, decoder>>
    /\ UNCHANGED <<editor, slot, cache, results, failed>>

Wallpaper(w) == IF w # 0 /\ backgrounds[w] = "ok" THEN w ELSE 0

Compose ==
    /\ worker.pc = "compose"
    /\ \/ /\ worker' = [pc |-> IF closed THEN "exit" ELSE "recv", req |-> NoRequest]
          /\ results' = IF closed THEN results
                        ELSE Append(results, [worker.req EXCEPT !.source = cache.content,
                                                !.wall = Wallpaper(worker.req.wall)])
          /\ UNCHANGED failed
       \/ /\ Cardinality(failed) < MaxFaults
          /\ failed' = failed \cup {worker.req.seq}
          /\ worker' = [pc |-> "recv", req |-> NoRequest]
          /\ UNCHANGED results
    /\ UNCHANGED <<editor, slot, cache, backgrounds, decoder>>

\* The channel of requests is closed and empty.
WorkerEnds ==
    /\ worker.pc = "recv" /\ slot = NoRequest /\ closed
    /\ worker' = [worker EXCEPT !.pc = "exit"]
    /\ UNCHANGED <<editor, slot, cache, backgrounds, results, failed, decoder>>

(* The wallpaper worker *)

\* One round of its loop: a wallpaper that was asked for, or else the next one
\* that is not decoded; when there is none left, or nobody listens, it ends.
WallpaperRound ==
    LET asking == decoder.priority # <<>>
        left == {i \in Images : i >= decoder.next /\ i \notin decoder.decoded}
        index == IF asking THEN Head(decoder.priority)
                 ELSE CHOOSE i \in left : \A j \in left : i <= j
        d == IF asking THEN [decoder EXCEPT !.priority = Tail(@)]
             ELSE [decoder EXCEPT !.next = index + 1]
    IN
    /\ ~decoder.done
    /\ \/ /\ ~asking /\ left = {}
          /\ decoder' = [decoder EXCEPT !.done = TRUE]
       \/ /\ asking /\ index \in decoder.decoded
          /\ decoder' = d
       \/ /\ asking \/ left # {}
          /\ index \notin decoder.decoded
          /\ decoder' = IF worker.pc = "exit" THEN [d EXCEPT !.done = TRUE]
                        ELSE [d EXCEPT !.decoded = @ \cup {index}, !.out = Append(@, index)]
    /\ UNCHANGED <<editor, slot, rendering>>

WorkerStep == TakeRequest \/ ReceiveWallpaper \/ Compose \/ WorkerEnds

Times == 0..Length

Next ==
    \/ \E time \in Times : set_playback_time(time)
    \/ toggle_playback
    \/ \E g \in scheduled : PlaybackFrame(g)
    \/ \E time \in Times \cup {NoTime} : Hover(time)
    \/ \E time \in Times : pan_timeline(time)
    \/ MouseExit
    \/ \E c \in 0..MaxCut : EditTimeline(c)
    \/ \E w \in 0..Wallpapers : SetBackground(w)
    \/ begin_video_segment_drag
    \/ \E c \in 0..MaxCut : finish_video_segment_drag(c)
    \/ ShowResult
    \/ Close
    \/ WorkerStep
    \/ WallpaperRound

\* Threads run, and the executor polls the task that receives results.
Fairness == WF_vars(WorkerStep) /\ WF_vars(WallpaperRound) /\ WF_vars(ShowResult)

Spec == Init /\ [][Next]_vars /\ Fairness

-----------------------------------------------------------------------------
(* Properties *)

\* The editor, the workers and the channels have their types; the playhead is
\* inside the timeline.
TypeOK ==
    /\ cut \in 0..MaxCut /\ wall \in 0..Wallpapers
    /\ pos \in 0..duration_secs(cut) /\ cursor \in Times \cup {NoTime}
    /\ dragging \in BOOLEAN /\ playing \in BOOLEAN /\ closed \in BOOLEAN
    /\ gen \in Nat /\ scheduled \subseteq 1..gen
    /\ asked.seq \in 1..MaxRequests /\ slot \in {NoRequest, asked}
    /\ worker.pc \in {"recv", "wallpaper", "compose", "exit"}
    /\ backgrounds \in [Images -> {"none", "ok", "failed"}]
    /\ decoder.decoded \subseteq Images /\ decoder.next \in 1..(Wallpapers + 1)

\* While one playback lasts, the picture never goes back, although deletions
\* move the playhead back, scrolling puts the cursor anywhere, and pictures of
\* earlier positions are still being rendered.
PlaybackGoesForward ==
    [][playing /\ playing' /\ gen' = gen /\ screen.gen = gen => screen'.time >= screen.time]_vars

\* The last request is one whose result is wanted and can be had.
Wanted ==
    /\ ~closed /\ ~playing /\ ~dragging
    /\ asked.gen = gen /\ asked.seq \notin failed

\* The screen shows the document as it is, at the cursor or the playhead.
UpToDate ==
    /\ screen.source = source_time_at(cut, ShownTime(pos, cursor))
    /\ screen.wall = IF wall \in Broken THEN 0 ELSE wall

\* However requests overtake each other, the editor ends up showing the document
\* as it is, with its wallpaper: every change asks for a preview, no stale
\* picture stays, and the two workers never wait for each other.  Not so after
\* playback ended or was paused: its last request has the generation that ended.
PreviewSettles == Wanted ~> (UpToDate \/ ~Wanted)

\* When the window is closed both threads end, also one that waits for the other.
WorkersEnd == closed ~> (worker.pc = "exit" /\ decoder.done)
=============================================================================
