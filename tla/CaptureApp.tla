----------------------------- MODULE CaptureApp -----------------------------
(***************************************************************************)
(* The main thread of Blip Capture (main.rs): the toolbar, the overlays in *)
(* which a display, a window or a region is chosen, the system-wide Escape *)
(* hotkey, the profile settings window, and the recordings that the        *)
(* toolbar starts and whose events it handles.                             *)
(*                                                                         *)
(* One action is one callback of the main thread with what it defers to    *)
(* the end of its update.  The recorder is what module Recorder shows of   *)
(* it: it starts or fails, waits for the stop channel, may upload, and     *)
(* ends with Finished or Failed; the stop callback of its capture may      *)
(* report a Failed of its own at any time.  A display or a region is a     *)
(* model value, 0 and NoRegion stand for None.                             *)
(***************************************************************************)
EXTENDS Integers, Sequences, FiniteSets

CONSTANTS
    Displays, Windows,      \* ids of what can be captured
    Regions, Tiny,          \* regions, and those narrower than 16 points
    None,
    MaxToolbars,            \* bound: toolbars opened
    MaxRecordings,          \* bound: recordings started
    MaxLost,                \* bound: captures that the system stops
    MaxFaults               \* bound: hotkey registrations that fail

Modes == {"Display", "Window", "Region"}
Statuses == {"Idle", "Starting", "Recording", "Finalizing", "Uploading"}
Overlays == {"interaction", "visual"}

CaptureAssumption ==
    /\ Tiny \subseteq Regions
    /\ None \notin Displays \cup Windows \cup Regions \cup Modes
    /\ {MaxToolbars, MaxRecordings, MaxLost, MaxFaults} \subseteq Nat

VARIABLES
    toolbar, toolbars,      \* the open toolbar, 0 for none; toolbars opened so far
    visible,                \* the flag that open_capture and the toolbars share
    hotkeys,                \* live registrations of Escape in the system
    escape_hotkey,          \* a registration is held in the shared cell
    escapes,                \* an Escape press is in the hotkey channel
    app,                    \* the fields of CaptureApp
    selection,              \* SelectionState, which app and overlays share
    overlays,               \* overlay windows that are open: "interaction", "visual"
    listed,                 \* those that app has handles of
    drag,                   \* region_drag of the overlay
    polling,                \* a window snapshot is being read
    settings,               \* toolbars whose settings window is open
    recordings,             \* every recording started
    events,                 \* the event channel of the open toolbar
    copied,                 \* recordings whose viewer link was copied
    lost, faults            \* counts of the two kinds of failure

windowVars == <<toolbar, toolbars, visible>>
hotkeyVars == <<hotkeys, escape_hotkey, faults>>
overlayVars == <<overlays, listed, drag>>
recorderVars == <<recordings, events, copied, lost>>
vars == <<windowVars, hotkeyVars, escapes, app, selection, overlayVars, polling, settings,
          recorderVars>>

FreshApp == [mode |-> None, display |-> None, window |-> None, region |-> None,
             windows |-> Windows, status |-> "Idle", stop_sender |-> 0]
FreshSelection == [mode |-> None, display |-> None, window |-> None, hovered |-> None,
                   region |-> None, recording |-> FALSE]

TypeOK ==
    /\ toolbar \in 0..MaxToolbars /\ toolbars \in 0..MaxToolbars /\ visible \in BOOLEAN
    /\ hotkeys \in 0..1 /\ escape_hotkey \in BOOLEAN /\ escapes \in BOOLEAN
    /\ app \in [mode : Modes \cup {None}, display : Displays \cup {None},
                window : Windows \cup {None}, region : Regions \cup {None},
                windows : SUBSET Windows, status : Statuses, stop_sender : 0..MaxRecordings]
    /\ selection \in [mode : Modes \cup {None}, display : Displays \cup {None},
                      window : Windows \cup {None}, hovered : Windows \cup {None},
                      region : Regions \cup {None}, recording : BOOLEAN]
    /\ overlays \subseteq Overlays /\ listed \subseteq Overlays
    /\ drag \in {"none", "Create", "Adjust"}
    /\ polling \in BOOLEAN /\ settings \subseteq 1..MaxToolbars
    /\ \A r \in DOMAIN recordings :
          recordings[r] \in [owner : 1..MaxToolbars, remote : BOOLEAN,
                             spec : Displays \cup Windows \cup Regions,
                             phase : {"starting", "recording", "uploading", "ended"},
                             stop : {"open", "sent", "dropped"}, lost : BOOLEAN,
                             published : BOOLEAN]
    /\ copied \subseteq DOMAIN recordings

Init ==
    /\ toolbar = 0 /\ toolbars = 0 /\ visible = FALSE
    /\ hotkeys = 0 /\ escape_hotkey = FALSE /\ escapes = FALSE
    /\ app = FreshApp /\ selection = FreshSelection
    /\ overlays = {} /\ listed = {} /\ drag = "none"
    /\ polling = FALSE /\ settings = {}
    /\ recordings = <<>> /\ events = <<>> /\ copied = {}
    /\ lost = 0 /\ faults = 0

(* The Escape hotkey *)

\* External: the system refuses to register a key twice, and may refuse anyway.
RegisterEventHotKey(success) ==
    /\ hotkeys = 1 => ~success
    /\ ~success /\ hotkeys = 0 => faults < MaxFaults
    /\ faults' = IF ~success /\ hotkeys = 0 THEN faults + 1 ELSE faults
    /\ hotkeys' = IF success THEN 1 ELSE hotkeys

register_escape_hotkey ==
    \E success \in BOOLEAN :
        /\ RegisterEventHotKey(success)
        /\ escape_hotkey' = (success \/ escape_hotkey)

unregister_escape_hotkey ==
    /\ escape_hotkey' = FALSE
    /\ hotkeys' = IF escape_hotkey THEN 0 ELSE hotkeys
    /\ UNCHANGED faults

(* Overlays *)

open_selection_windows == overlays' = Overlays /\ listed' = Overlays /\ drag' = "none"

\* Handles of windows that are gone are dropped as well.
close_selection_windows ==
    overlays' = overlays \ listed /\ listed' = {} /\ drag' = "none"

Shown == toolbar # 0 /\ toolbar \notin settings

open_capture ==
    /\ ~visible /\ toolbars < MaxToolbars
    /\ toolbars' = toolbars + 1 /\ toolbar' = toolbars'
    /\ app' = FreshApp /\ selection' = FreshSelection
    /\ register_escape_hotkey
    /\ visible' = TRUE
    /\ events' = <<>> /\ polling' = FALSE
    /\ UNCHANGED <<escapes, overlayVars, settings, recordings, copied, lost>>

\* A click on the mode that is chosen takes it back.
set_mode(mode) ==
    /\ Shown /\ app.status = "Idle" /\ drag = "none"
    /\ IF app.mode = mode
       THEN /\ app' = [app EXCEPT !.mode = None, !.region = None]
            /\ selection' = [selection EXCEPT !.mode = None, !.region = None]
            /\ close_selection_windows
       ELSE /\ app' = [app EXCEPT !.mode = mode, !.region = None]
            /\ selection' = [selection EXCEPT !.mode = mode, !.hovered = None, !.region = None]
            /\ IF "interaction" \notin listed THEN open_selection_windows
               ELSE UNCHANGED <<overlays, listed>> /\ drag' = "none"
    /\ UNCHANGED <<windowVars, hotkeyVars, escapes, polling, settings, recorderVars>>

Overlay(mode) == "interaction" \in overlays /\ selection.mode = mode

\* Everything an overlay does to the selection leaves the rest alone.
SelectionOnly == UNCHANGED <<windowVars, hotkeyVars, escapes, overlays, listed, polling, settings,
                             recorderVars>>

begin_region ==
    /\ Overlay("Region") /\ drag = "none"
    /\ \/ /\ drag' = "Create"
          /\ selection' = [selection EXCEPT !.region = None]
       \/ /\ selection.region # None
          /\ drag' = "Adjust"
          /\ UNCHANGED selection
    /\ UNCHANGED app /\ SelectionOnly

drag_region ==
    /\ Overlay("Region") /\ drag # "none"
    /\ \E r \in Regions : /\ drag = "Adjust" => r \notin Tiny \/ selection.region \in Tiny
                          /\ selection' = [selection EXCEPT !.region = r]
    /\ UNCHANGED <<app, drag>> /\ SelectionOnly

select_region(r) ==
    /\ app' = [app EXCEPT !.region = r]
    /\ selection' = [selection EXCEPT !.region = r]

finish_region ==
    /\ Overlay("Region") /\ drag # "none"
    /\ drag' = "none"
    /\ CASE selection.region = None -> UNCHANGED <<app, selection>>
         [] selection.region \in Tiny -> /\ selection' = [selection EXCEPT !.region = None]
                                         /\ UNCHANGED app
         [] OTHER -> select_region(selection.region)
    /\ SelectionOnly

\* A typed field may make a region as narrow as one point.
set_region_field ==
    /\ Overlay("Region") /\ drag = "none" /\ selection.region # None
    /\ \E r \in Regions : select_region(r)
    /\ UNCHANGED drag /\ SelectionOnly

hover_window ==
    /\ Overlay("Window")
    /\ \E w \in app.windows \cup {None} : selection' = [selection EXCEPT !.hovered = w]
    /\ UNCHANGED <<app, drag>> /\ SelectionOnly

select_window(w) ==
    /\ app' = [app EXCEPT !.window = w]
    /\ selection' = [selection EXCEPT !.window = w]

select_hovered_window ==
    /\ Overlay("Window") /\ selection.hovered # None
    /\ select_window(selection.hovered)
    /\ UNCHANGED drag /\ SelectionOnly

(* The poll of the windows that exist *)

PollWindows ==
    /\ toolbar # 0 /\ ~polling
    /\ app.mode = "Window" /\ app.status = "Idle" /\ visible
    /\ polling' = TRUE
    /\ UNCHANGED <<windowVars, hotkeyVars, escapes, app, selection, overlayVars, settings,
                   recorderVars>>

\* The snapshot is applied whatever has happened since the poll began.
update_window_snapshot ==
    /\ toolbar # 0 /\ polling
    /\ polling' = FALSE
    /\ \E snapshot \in SUBSET Windows :
        LET Known(w) == IF w \in snapshot THEN w ELSE None IN
        /\ app' = [app EXCEPT !.windows = snapshot, !.window = Known(@)]
        /\ selection' = [selection EXCEPT !.window = Known(@), !.hovered = Known(@)]
    /\ UNCHANGED <<windowVars, hotkeyVars, escapes, overlayVars, settings, recorderVars>>

(* Recording *)

Recording(spec, remote) ==
    [owner |-> toolbar, remote |-> remote, spec |-> spec, phase |-> "starting",
     stop |-> "open", lost |-> FALSE, published |-> FALSE]

\* Recording spec, once the click has made a and s of app and selection.  The
\* profile may be refused and the output or the thread may fail.
record(a, s, spec) ==
    /\ app.status = "Idle"
    /\ \/ /\ Len(recordings) < MaxRecordings
          /\ \E remote \in BOOLEAN : recordings' = Append(recordings, Recording(spec, remote))
          /\ unregister_escape_hotkey
          /\ selection' = [s EXCEPT !.recording = TRUE]
          /\ overlays' = overlays \ {"interaction"} /\ listed' = listed \ {"interaction"}
          /\ app' = [a EXCEPT !.stop_sender = Len(recordings'), !.status = "Starting"]
       \/ /\ app' = a /\ selection' = s
          /\ UNCHANGED <<recordings, hotkeyVars, overlays, listed>>
    /\ UNCHANGED <<windowVars, escapes, drag, polling, settings, events, copied, lost>>

start_display_recording ==
    /\ Overlay("Display")
    /\ \E d \in Displays :
        record([app EXCEPT !.display = d, !.region = None],
               [selection EXCEPT !.display = d, !.region = None], d)

start_window_recording ==
    /\ Overlay("Window") /\ selection.hovered # None
    /\ LET w == selection.hovered IN
       record([app EXCEPT !.window = w], [selection EXCEPT !.window = w], w)

\* Mutant: what is shown is not asked for.
start_region_recording_Unseen ==
    /\ Overlay("Region") /\ drag = "none"
    /\ app.region # None
    /\ record(app, selection, app.region)

\* The overlay asks for a region of its own, the application records its own.
start_region_recording ==
    /\ Overlay("Region") /\ drag = "none"
    /\ selection.region # None
    /\ app.region # None
    /\ record(app, selection, app.region)

\* The recordings after a toolbar has let go of its stop sender.
DropSender(rs) == IF app.stop_sender # 0
                  THEN [rs EXCEPT ![app.stop_sender].stop = IF @ = "open" THEN "dropped" ELSE @]
                  ELSE rs

\* Mutant: the stop message is not sent, and the sender is kept.
stop_Unsent ==
    /\ Shown /\ app.status = "Recording"
    /\ selection' = [selection EXCEPT !.recording = FALSE]
    /\ close_selection_windows
    /\ app' = [app EXCEPT !.status = "Finalizing"]
    /\ UNCHANGED <<windowVars, hotkeyVars, escapes, polling, settings, recorderVars>>

stop ==
    /\ Shown /\ app.status = "Recording"
    /\ selection' = [selection EXCEPT !.recording = FALSE]
    /\ close_selection_windows
    /\ app' = [app EXCEPT !.status = "Finalizing", !.stop_sender = 0]
    /\ recordings' = IF app.stop_sender = 0 THEN recordings
                     ELSE [recordings EXCEPT ![app.stop_sender].stop = "sent"]
    /\ UNCHANGED <<windowVars, hotkeyVars, escapes, polling, settings, events, copied, lost>>

(* Closing *)

\* The window and the application with its channel go: its stop sender too.
Gone ==
    /\ toolbar' = 0 /\ app' = FreshApp /\ selection' = FreshSelection
    /\ recordings' = DropSender(recordings)
    /\ events' = <<>> /\ polling' = FALSE
    /\ close_selection_windows
    /\ visible' = FALSE
    /\ unregister_escape_hotkey
    /\ UNCHANGED toolbars

close_windows == Gone /\ UNCHANGED <<copied, lost>>

\* The close button of the idle toolbar, or Cmd-W at any time.
close_window ==
    /\ Shown
    /\ close_windows
    /\ UNCHANGED <<escapes, settings>>

perform_close_all_windows ==
    /\ toolbar # 0
    /\ close_windows
    /\ settings' = {}
    /\ UNCHANGED escapes

\* Cmd-W while an overlay is the active window: the application is not told.
CloseOverlay ==
    /\ "interaction" \in overlays /\ drag = "none"
    /\ overlays' = overlays \ {"interaction"}
    /\ UNCHANGED <<windowVars, hotkeyVars, escapes, app, selection, listed, drag, polling, settings,
                   recorderVars>>

PressEscape ==
    /\ hotkeys > 0 /\ ~escapes
    /\ escapes' = TRUE
    /\ UNCHANGED <<windowVars, hotkeyVars, app, selection, overlayVars, polling, settings,
                   recorderVars>>

escape ==
    CASE app.status # "Idle" ->
            UNCHANGED <<windowVars, hotkeyVars, app, selection, overlayVars, polling, settings,
                        recorderVars>>
      [] app.status = "Idle" /\ app.mode # None ->
            /\ app' = [app EXCEPT !.mode = None, !.display = None, !.window = None,
                                  !.region = None]
            /\ selection' = [FreshSelection EXCEPT !.recording = selection.recording]
            /\ close_selection_windows
            /\ UNCHANGED <<windowVars, hotkeyVars, polling, settings, recorderVars>>
      [] OTHER -> close_windows /\ UNCHANGED settings

handle_escape ==
    /\ escapes /\ escapes' = FALSE
    /\ IF toolbar # 0 THEN escape
       ELSE UNCHANGED <<windowVars, hotkeyVars, app, selection, overlayVars, polling, settings,
                        recorderVars>>

(* Profile settings *)

open_profile_settings ==
    /\ Shown /\ app.status = "Idle" /\ drag = "none"
    /\ settings' = settings \cup {toolbar}
    /\ close_selection_windows
    /\ unregister_escape_hotkey
    /\ UNCHANGED <<windowVars, escapes, app, selection, polling, recorderVars>>

\* Mutant: the toolbar is restored though it is closed.
SettingsClosed_Restore ==
    \E t \in settings :
        /\ settings' = settings \ {t}
        /\ IF app.mode # None THEN open_selection_windows
           ELSE UNCHANGED overlayVars
        /\ register_escape_hotkey
        /\ UNCHANGED <<windowVars, escapes, app, selection, polling, recorderVars>>

\* The window is closed or its profiles are saved: restore_after_profile_settings,
\* if the toolbar it was opened from is still there.
SettingsClosed ==
    \E t \in settings :
        /\ settings' = settings \ {t}
        /\ IF t # toolbar THEN UNCHANGED <<overlayVars, hotkeyVars>>
           ELSE /\ IF app.mode # None THEN open_selection_windows
                   ELSE UNCHANGED overlayVars
                /\ register_escape_hotkey
        /\ UNCHANGED <<windowVars, escapes, app, selection, polling, recorderVars>>

(* The recorder threads.  Nobody receives the events of a toolbar that is  *)
(* gone.                                                                   *)

Send(r, event) == IF recordings[r].owner = toolbar THEN Append(events, event) ELSE events
Event(type, r) == [type |-> type, recording |-> r]

RecorderOnly == UNCHANGED <<windowVars, hotkeyVars, escapes, app, selection, overlayVars, polling,
                            settings, copied>>

RecorderStarts(r) ==
    /\ recordings[r].phase = "starting"
    /\ \/ /\ recordings' = [recordings EXCEPT ![r].phase = "recording"]
          /\ events' = Send(r, Event("Started", r))
       \/ /\ recordings' = [recordings EXCEPT ![r].phase = "ended"]
          /\ events' = Send(r, Event("Failed", r))
    /\ UNCHANGED lost /\ RecorderOnly

\* The stop channel delivers, or its sender is gone; what follows may fail.
RecorderStops(r) ==
    /\ recordings[r].phase = "recording" /\ recordings[r].stop # "open"
    /\ \/ /\ recordings[r].stop = "sent" /\ recordings[r].remote
          /\ recordings' = [recordings EXCEPT ![r].phase = "uploading"]
          /\ events' = Send(r, Event("Uploading", r))
       \/ /\ recordings[r].stop = "sent" /\ ~recordings[r].remote
          /\ recordings' = [recordings EXCEPT ![r].phase = "ended"]
          /\ events' = Send(r, Event("Finished", r))
       \/ /\ recordings' = [recordings EXCEPT ![r].phase = "ended"]
          /\ events' = Send(r, Event("Failed", r))
    /\ UNCHANGED lost /\ RecorderOnly

RecorderUploads(r) ==
    /\ recordings[r].phase = "uploading"
    /\ \/ /\ recordings' = [recordings EXCEPT ![r].phase = "ended", ![r].published = TRUE]
          /\ events' = Send(r, Event("Finished", r))
       \/ /\ recordings' = [recordings EXCEPT ![r].phase = "ended"]
          /\ events' = Send(r, Event("Failed", r))
    /\ UNCHANGED lost /\ RecorderOnly

RecorderStep(r) == RecorderStarts(r) \/ RecorderStops(r) \/ RecorderUploads(r)

\* The stop callback of the capture, in a thread of its own.
CaptureLost(r) ==
    /\ recordings[r].phase \in {"starting", "recording"} /\ ~recordings[r].lost
    /\ lost < MaxLost /\ lost' = lost + 1
    /\ recordings' = [recordings EXCEPT ![r].lost = TRUE]
    /\ events' = Send(r, Event("Failed", r))
    /\ RecorderOnly

(* Events *)

Started ==
    /\ app' = [app EXCEPT !.status = "Recording"]
    /\ UNCHANGED <<windowVars, hotkeyVars, selection, overlayVars, polling, recordings, copied>>

Uploading ==
    /\ app' = [app EXCEPT !.status = "Uploading"]
    /\ UNCHANGED <<windowVars, hotkeyVars, selection, overlayVars, polling, recordings, copied>>

Finished(r) ==
    /\ copied' = IF recordings[r].published THEN copied \cup {r} ELSE copied
    /\ Gone

\* Mutant: the sender is kept.
Failed_KeepSender ==
    /\ app' = [app EXCEPT !.status = "Idle"]
    /\ selection' = [selection EXCEPT !.recording = FALSE]
    /\ register_escape_hotkey
    /\ open_selection_windows
    /\ UNCHANGED <<windowVars, polling, recordings, copied>>

\* The overlays come back whatever the mode is.
Failed ==
    /\ app' = [app EXCEPT !.status = "Idle", !.stop_sender = 0]
    /\ recordings' = DropSender(recordings)
    /\ selection' = [selection EXCEPT !.recording = FALSE]
    /\ register_escape_hotkey
    /\ open_selection_windows
    /\ UNCHANGED <<windowVars, polling, copied>>

handle_event ==
    /\ toolbar # 0 /\ events # <<>>
    /\ CASE Head(events).type = "Started" -> Started /\ events' = Tail(events)
         [] Head(events).type = "Uploading" -> Uploading /\ events' = Tail(events)
         [] Head(events).type = "Finished" -> Finished(Head(events).recording)
         [] OTHER -> Failed /\ events' = Tail(events)
    /\ UNCHANGED <<escapes, settings, lost>>

Next ==
    \/ open_capture \/ (\E mode \in Modes : set_mode(mode))
    \/ begin_region \/ drag_region \/ finish_region \/ set_region_field
    \/ hover_window \/ select_hovered_window
    \/ PollWindows \/ update_window_snapshot
    \/ start_display_recording \/ start_window_recording \/ start_region_recording
    \/ stop \/ close_window \/ perform_close_all_windows \/ CloseOverlay
    \/ PressEscape \/ handle_escape
    \/ open_profile_settings \/ SettingsClosed
    \/ (\E r \in DOMAIN recordings : RecorderStep(r) \/ CaptureLost(r))
    \/ handle_event

\* The recorder threads run (module Recorder shows that they end) and the main
\* thread receives what is in the channel.  The user need not do anything.
Fairness ==
    /\ \A r \in 1..MaxRecordings : WF_vars(r \in DOMAIN recordings /\ RecorderStep(r))
    /\ WF_vars(handle_event)

Spec == Init /\ [][Next]_vars /\ Fairness

-----------------------------------------------------------------------------
(* Properties.  lost = 0 stands where a capture that the system stops      *)
(* breaks what is said: its Failed is followed by a second one from the    *)
(* thread that ends, and handle_event takes both for the recording of the  *)
(* moment.                                                                 *)

\* The flag that keeps a second toolbar from opening is set while there is a
\* toolbar and not a moment longer (open_capture, close_windows, Finished).
VisibleMeansToolbar == visible <=> toolbar # 0

\* Escape is taken from every other application only while there is a toolbar that
\* holds the registration.  When no capture is lost, that is while the toolbar is
\* idle and on the screen, and then Escape works unless the system refused it.
EscapeGrabbed ==
    /\ hotkeys = 1 <=> escape_hotkey
    /\ hotkeys = 1 => toolbar # 0
    /\ lost = 0 => /\ hotkeys = 1 => Shown /\ app.status = "Idle"
                   /\ Shown /\ app.status = "Idle" /\ faults = 0 => hotkeys = 1

\* The full-screen windows that take every click are open only while an idle
\* toolbar has a mode; what dims the screen goes at the latest when the recording
\* is stopped; and none outlives the toolbar.
NoStrayOverlay ==
    /\ overlays # {} => toolbar # 0
    /\ lost = 0 => /\ "interaction" \in overlays =>
                        Shown /\ app.status = "Idle" /\ app.mode # None
                   /\ overlays # {} => app.status \in {"Idle", "Starting", "Recording"}

\* What a toolbar takes from the rest of the screen is given back: the Escape key,
\* the overlays and the right to open a toolbar.
NothingLeftBehind == TypeOK /\ EscapeGrabbed /\ NoStrayOverlay /\ VisibleMeansToolbar

\* The state that the overlays draw from says what the application would record:
\* the mode, the window and, between drags, the region.
OverlayShowsSelection ==
    /\ selection.mode = app.mode /\ selection.window = app.window
    /\ lost = 0 /\ drag = "none" /\ selection.region # None => selection.region = app.region

\* The overlays show what is selected, and what is recorded is what the overlay showed
\* when its button was clicked.
RecordsWhatIsShown ==
    /\ []OverlayShowsSelection
    /\ [][lost = 0 /\ Len(recordings') > Len(recordings) =>
             LET spec == recordings'[Len(recordings')].spec IN
             CASE app.mode = "Region" -> spec = selection.region
               [] app.mode = "Window" -> spec = selection.hovered
               [] OTHER -> spec \in Displays]_vars

\* A recording that nobody has asked to stop is the one that the open toolbar can
\* stop: no recording goes on behind a closed toolbar or a later recording.
NoOrphan ==
    \A r \in DOMAIN recordings :
        recordings[r].stop = "open" /\ recordings[r].phase # "ended" =>
            recordings[r].owner = toolbar /\ app.stop_sender = r

\* A recording that was stopped comes to an end on the toolbar, which closes or
\* is idle again.
StopEnds == app.status \in {"Finalizing", "Uploading"} ~> app.status = "Idle"
=============================================================================
