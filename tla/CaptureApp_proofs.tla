------------------------- MODULE CaptureApp_proofs --------------------------
(***************************************************************************)
(* Theorems of CaptureApp, for any displays, windows and regions and any   *)
(* number of toolbars, recordings and failures.                            *)
(*                                                                         *)
(* What holds whatever happens (NoOrphan, and what a closed toolbar leaves *)
(* behind) rests on who holds the stop sender and the handles.  What holds *)
(* until a capture is lost rests on Talks: which events can be in the      *)
(* channel at each status of the toolbar, and so that no Failed reaches a  *)
(* toolbar that is idle or in its settings.                                *)
(***************************************************************************)
EXTENDS CaptureApp, CaptureParts, FiniteSetTheorems, SequenceTheorems, TLAPS

Apps == [mode : Modes \cup {None}, display : Displays \cup {None},
         window : Windows \cup {None}, region : Regions \cup {None},
         windows : SUBSET Windows, status : Statuses, stop_sender : 0..MaxRecordings]
Selections == [mode : Modes \cup {None}, display : Displays \cup {None},
               window : Windows \cup {None}, hovered : Windows \cup {None},
               region : Regions \cup {None}, recording : BOOLEAN]
Targets == Displays \cup Windows \cup Regions
Recordings == [owner : 1..MaxToolbars, remote : BOOLEAN, spec : Targets,
               phase : {"starting", "recording", "uploading", "ended"},
               stop : {"open", "sent", "dropped"}, lost : BOOLEAN, published : BOOLEAN]
Messages == [type : {"Started", "Uploading", "Finished", "Failed"}, recording : 1..MaxRecordings]
Drags == {"none", "Create", "Adjust"}

-----------------------------------------------------------------------------
(* The inductive invariant.                                                *)

\* The types, and how windows, handles and registrations hang together.
Held ==
    /\ toolbar \in 0..toolbars /\ toolbars \in 0..MaxToolbars /\ visible \in BOOLEAN
    /\ hotkeys \in 0..1 /\ escape_hotkey \in BOOLEAN /\ escapes \in BOOLEAN /\ faults \in Nat
    /\ overlays \subseteq listed /\ listed \subseteq Overlays /\ drag \in Drags
    /\ polling \in BOOLEAN /\ settings \subseteq 1..toolbars
    /\ visible <=> toolbar # 0
    /\ overlays # {} => toolbar # 0
    /\ hotkeys = 1 <=> escape_hotkey
    /\ hotkeys = 1 => toolbar # 0

Channels ==
    /\ recordings \in Seq(Recordings) /\ Len(recordings) <= MaxRecordings
    /\ \A r \in 1..Len(recordings) : recordings[r].owner <= toolbars
    /\ events \in Seq(Messages)
    /\ \A i \in 1..Len(events) : events[i].recording <= Len(recordings)
    /\ copied \subseteq 1..Len(recordings) /\ lost \in Nat

\* The fields of the application, and the two that it shares with the overlays.
Fields ==
    /\ app \in Apps /\ selection \in Selections
    /\ selection.mode = app.mode /\ selection.window = app.window

Sender ==
    /\ app.stop_sender # 0 => app.stop_sender <= Len(recordings) /\ app.status # "Idle"
    /\ app.status # "Idle" => toolbar # 0

\* Until a capture is lost: the hotkey, the overlays, and the events of the last
\* recording by the status of the toolbar.
Escape ==
    /\ hotkeys = 1 => Shown /\ app.status = "Idle"
    /\ Shown /\ app.status = "Idle" /\ faults = 0 => hotkeys = 1

Clicks ==
    /\ "interaction" \in overlays => Shown /\ app.status = "Idle" /\ app.mode # None
    /\ overlays # {} => app.status \in {"Idle", "Starting", "Recording"}
    /\ app.status # "Idle" => Shown /\ app.mode # None /\ drag = "none"
    /\ drag # "none" => selection.mode = "Region" /\ "interaction" \in overlays
    /\ drag = "none" /\ selection.region # None => selection.region = app.region

Current == recordings[Len(recordings)]
Says(type) == Len(events) = 1 /\ events[1].type = type
SaysThen(type, next) == Len(events) = 2 /\ events[1].type = type /\ events[2].type = next

Talk ==
    /\ app.status = "Idle" => events = <<>>
    /\ app.status = "Starting" =>
          \/ Current.phase = "starting" /\ events = <<>>
          \/ Current.phase = "recording" /\ Says("Started")
          \/ Current.phase = "ended" /\ Says("Failed")
    /\ app.status = "Recording" => Current.phase = "recording" /\ events = <<>>
    /\ app.status = "Finalizing" =>
          \/ Current.phase = "recording" /\ events = <<>>
          \/ Current.phase = "uploading" /\ Says("Uploading")
          \/ Current.phase = "ended" /\ (Says("Finished") \/ Says("Failed"))
          \/ Current.phase = "ended" /\ (\/ SaysThen("Uploading", "Finished")
                                         \/ SaysThen("Uploading", "Failed"))
    /\ app.status = "Uploading" =>
          \/ Current.phase = "uploading" /\ events = <<>>
          \/ Current.phase = "ended" /\ (Says("Finished") \/ Says("Failed"))

Talks ==
    /\ \A r \in 1..Len(recordings) :
          recordings[r].owner = toolbar /\ recordings[r].phase # "ended"
             => r = Len(recordings) /\ app.status # "Idle"
    /\ app.status # "Idle" => Len(recordings) > 0 /\ Current.owner = toolbar
    /\ app.status \in {"Starting", "Recording"} => Current.stop = "open"
    /\ Talk

Quiet == lost = 0 => Escape /\ Clicks /\ Talks

IInv == Held /\ Channels /\ Fields /\ Sender /\ NoOrphan /\ Quiet

LEMMA Bounds ==
    ASSUME CaptureAssumption
    PROVE  MaxToolbars \in Nat /\ MaxRecordings \in Nat /\ MaxLost \in Nat /\ MaxFaults \in Nat
BY DEF CaptureAssumption

\* The types that the model states are among what the invariant says.
LEMMA Typed == ASSUME CaptureAssumption, IInv PROVE TypeOK
<1> MaxToolbars \in Nat
  BY Bounds
<1>1. /\ toolbar \in 0..MaxToolbars /\ toolbars \in 0..MaxToolbars
      /\ settings \subseteq 1..MaxToolbars /\ overlays \subseteq Overlays
  BY DEF IInv, Held
<1>2. /\ DOMAIN recordings = 1..Len(recordings)
      /\ \A r \in 1..Len(recordings) : recordings[r] \in Recordings
  BY DEF IInv, Channels
<1> QED
  BY <1>1, <1>2 DEF IInv, Held, Channels, Fields, TypeOK, Apps, Selections, Recordings, Targets, Drags

-----------------------------------------------------------------------------
(* Lemmas about the recordings and the channel.                            *)

\* A recording that changes leaves the others and their number alone.
LEMMA ChangedRecording ==
    ASSUME NEW rs \in Seq(Recordings), NEW r \in 1..Len(rs), NEW c \in Recordings,
           NEW s, s = [rs EXCEPT ![r] = c]
    PROVE  /\ s \in Seq(Recordings) /\ Len(s) = Len(rs) /\ DOMAIN s = 1..Len(rs)
           /\ s[r] = c /\ \A q \in 1..Len(rs) : q # r => s[q] = rs[q]
OBVIOUS

\* What an action that leaves toolbar, recorders and status alone keeps.
LEMMA Calm ==
    ASSUME IInv, UNCHANGED <<toolbar, toolbars, recorderVars>>,
           app'.status = app.status, app'.stop_sender = app.stop_sender
    PROVE  Channels' /\ Sender' /\ NoOrphan' /\ (lost = 0 => Talks')
<1> USE DEF recorderVars
<1>1. Channels'
  BY DEF IInv, Channels
<1>2. Sender' /\ NoOrphan'
  BY DEF IInv, Sender, NoOrphan
<1>3. lost = 0 => Talks'
  BY DEF IInv, Quiet, Talks, Talk, Current, Says, SaysThen
<1> QED BY <1>1, <1>2, <1>3

\* Every recording was started by a toolbar that has been opened.
LEMMA Owners ==
    ASSUME CaptureAssumption, IInv
    PROVE  \A r \in 1..Len(recordings) : /\ recordings[r] \in Recordings
                                          /\ recordings[r].owner \in 1..toolbars
<1>1. \A r \in 1..Len(recordings) : recordings[r] \in Recordings /\ recordings[r].owner <= toolbars
  BY DEF IInv, Channels
<1>2. MaxToolbars \in Nat /\ toolbars \in Nat
  BY Bounds DEF IInv, Held
<1>3. \A c \in Recordings : c.owner \in 1..MaxToolbars
  BY DEF Recordings
<1> QED BY <1>1, <1>2, <1>3

LEMMA InitHolds == ASSUME CaptureAssumption, Init PROVE IInv
<1> USE DEF Init, CaptureAssumption
<1> MaxToolbars \in Nat
  BY Bounds
<1>1. Held
  <2>1. overlays \subseteq listed /\ listed \subseteq Overlays
    OBVIOUS
  <2>2. /\ toolbar \in 0..toolbars /\ toolbars \in 0..MaxToolbars /\ hotkeys \in 0..1
        /\ faults \in Nat /\ hotkeys # 1 /\ settings \subseteq 1..toolbars
    OBVIOUS
  <2>3. visible \in BOOLEAN /\ escape_hotkey \in BOOLEAN /\ escapes \in BOOLEAN /\ polling \in BOOLEAN
    OBVIOUS
  <2>4. visible <=> toolbar # 0
    OBVIOUS
  <2>5. hotkeys = 1 <=> escape_hotkey
    BY <2>2
  <2> QED BY <2>1, <2>2, <2>3, <2>4, <2>5 DEF Held, Drags
<1>2. Channels
  BY DEF Channels
<1>3. Fields
  BY DEF Fields, Apps, Selections, FreshApp, FreshSelection, Statuses
<1>4. Sender /\ NoOrphan
  BY DEF Sender, NoOrphan, FreshApp
<1>5. Quiet
  BY DEF Quiet, Escape, Clicks, Talks, Talk, Shown, FreshApp, FreshSelection
<1> QED BY <1>1, <1>2, <1>3, <1>4, <1>5 DEF IInv

-----------------------------------------------------------------------------
(* Lemmas about the hotkey and the overlays.                               *)

\* A registration is held exactly when one is live, and none is live only if the
\* system refused it.
LEMMA Registered ==
    ASSUME Held, register_escape_hotkey
    PROVE  /\ hotkeys' \in 0..1 /\ escape_hotkey' \in BOOLEAN /\ faults' \in Nat
           /\ hotkeys' = 1 <=> escape_hotkey'
           /\ faults' = 0 => hotkeys' = 1
<1>1. PICK success \in BOOLEAN : RegisterEventHotKey(success) /\ escape_hotkey' = (success \/ escape_hotkey)
  BY DEF register_escape_hotkey
<1>2. hotkeys \in 0..1 /\ faults \in Nat /\ escape_hotkey \in BOOLEAN /\ (hotkeys = 1 <=> escape_hotkey)
  BY DEF Held
<1>3. CASE success
  <2>1. hotkeys' = 1 /\ faults' = faults
    BY <1>1, <1>3 DEF RegisterEventHotKey
  <2>2. escape_hotkey' = TRUE
    BY <1>1, <1>3
  <2> QED BY <2>1, <2>2, <1>2
<1>4. CASE ~success
  <2>1. hotkeys' = hotkeys /\ faults' \in Nat /\ (faults' = 0 => hotkeys = 1)
    BY <1>1, <1>2, <1>4 DEF RegisterEventHotKey
  <2>2. escape_hotkey' = escape_hotkey
    BY <1>1, <1>2, <1>4
  <2> QED BY <2>1, <2>2, <1>2
<1> QED BY <1>3, <1>4

LEMMA Unregistered ==
    ASSUME Held, unregister_escape_hotkey
    PROVE  /\ hotkeys' \in 0..1 /\ escape_hotkey' \in BOOLEAN /\ faults' = faults
           /\ hotkeys' # 1 /\ (hotkeys' = 1 <=> escape_hotkey')
<1>1. hotkeys \in 0..1 /\ escape_hotkey \in BOOLEAN /\ (hotkeys = 1 <=> escape_hotkey)
  BY DEF Held
<1>2. escape_hotkey' = FALSE /\ faults' = faults
  BY DEF unregister_escape_hotkey
<1>3. hotkeys' \in 0..1 /\ hotkeys' # 1
  <2>1. CASE escape_hotkey
    BY <2>1 DEF unregister_escape_hotkey
  <2>2. CASE ~escape_hotkey
    <3>1. hotkeys' = hotkeys
      BY <2>2 DEF unregister_escape_hotkey
    <3> QED BY <1>1, <2>2, <3>1
  <2> QED BY <2>1, <2>2
<1> QED BY <1>2, <1>3, Zenon

\* Every overlay that is open has a handle, so closing closes them all.
LEMMA Closed ==
    ASSUME Held, close_selection_windows
    PROVE  overlays' = {} /\ listed' = {} /\ drag' = "none"
BY DEF Held, close_selection_windows

LEMMA Opened ==
    ASSUME open_selection_windows
    PROVE  /\ overlays' \subseteq listed' /\ listed' \subseteq Overlays /\ drag' = "none"
BY DEF open_selection_windows

\* What is left to show of Held when the flags and counts of windows do not change.
LEMMA StillHeld ==
    ASSUME Held, UNCHANGED <<windowVars, faults, hotkeys, escape_hotkey>>,
           settings' \subseteq settings \cup {toolbar}, settings' # settings => toolbar # 0,
           overlays' \subseteq listed', listed' \subseteq Overlays, drag' \in Drags,
           overlays' # {} => toolbar # 0, polling' \in BOOLEAN, escapes' \in BOOLEAN
    PROVE  Held'
BY DEF Held, windowVars

-----------------------------------------------------------------------------
(* Actions that leave the recordings alone.                                *)

LEMMA SetModeHolds ==
    ASSUME CaptureAssumption, IInv, NEW mode \in Modes, set_mode(mode)
    PROVE  IInv'
<1>1. Held /\ Fields /\ Quiet
  BY DEF IInv
<1>2. /\ app.status = "Idle" /\ Shown /\ drag = "none"
      /\ UNCHANGED <<windowVars, hotkeyVars, escapes, polling, settings, recorderVars>>
  BY DEF set_mode
<1>3. CASE app.mode = mode
  <2>1. /\ app' = [app EXCEPT !.mode = None, !.region = None]
        /\ selection' = [selection EXCEPT !.mode = None, !.region = None]
        /\ close_selection_windows
    BY <1>3 DEF set_mode
  <2>2. overlays' = {} /\ listed' = {} /\ drag' = "none"
    BY <1>1, <2>1, Closed
  <2>3. Held'
    BY <1>1, <1>2, <2>2, StillHeld DEF Held, hotkeyVars, windowVars, Drags
  <2>4. Fields' /\ app'.status = app.status /\ app'.stop_sender = app.stop_sender /\ app'.region = None
        /\ selection'.region = None
    BY <1>1, <2>1 DEF Fields, Apps, Selections
  <2>5. Quiet'
    BY <1>1, <1>2, <2>2, <2>4, Calm DEF Quiet, Escape, Clicks, Shown, windowVars, hotkeyVars, recorderVars
  <2> QED BY <1>2, <2>3, <2>4, <2>5, Calm DEF IInv, windowVars
<1>4. CASE app.mode # mode
  <2>1. /\ app' = [app EXCEPT !.mode = mode, !.region = None]
        /\ selection' = [selection EXCEPT !.mode = mode, !.hovered = None, !.region = None]
        /\ \/ open_selection_windows
           \/ UNCHANGED <<overlays, listed>> /\ drag' = "none"
    BY <1>4 DEF set_mode
  <2>2. /\ overlays' \subseteq listed' /\ listed' \subseteq Overlays /\ drag' = "none"
    BY <1>1, <2>1, Opened DEF Held
  <2>3. Held'
    BY <1>1, <1>2, <2>2, StillHeld DEF Held, hotkeyVars, windowVars, Drags, Shown
  <2>4. /\ Fields' /\ app'.status = app.status /\ app'.stop_sender = app.stop_sender
        /\ app'.region = None /\ selection'.region = None /\ app'.mode = mode
    BY <1>1, <2>1 DEF Fields, Apps, Selections
  <2>5. mode # None
    BY DEF CaptureAssumption
  <2>6. Quiet'
    BY <1>1, <1>2, <2>2, <2>4, <2>5, Calm
       DEF Quiet, Escape, Clicks, Shown, windowVars, hotkeyVars, recorderVars
  <2> QED BY <1>2, <2>3, <2>4, <2>6, Calm DEF IInv, windowVars
<1> QED BY <1>3, <1>4

\* What is left to show of an action of the overlay on the selection.
LEMMA Selecting ==
    ASSUME IInv, SelectionOnly, "interaction" \in overlays, Fields', drag' \in Drags,
           app'.status = app.status, app'.stop_sender = app.stop_sender, app'.mode = app.mode,
           drag' # "none" => selection'.mode = "Region",
           lost = 0 /\ drag' = "none" /\ selection'.region # None =>
              selection'.region = app'.region
    PROVE  IInv'
<1>1. Held'
  BY StillHeld DEF IInv, Held, SelectionOnly, windowVars, hotkeyVars
<1>2. Channels' /\ Sender' /\ NoOrphan' /\ (lost = 0 => Talks')
  BY Calm DEF SelectionOnly, windowVars
<1>3. Quiet'
  BY <1>2 DEF IInv, Quiet, Escape, Clicks, Shown, SelectionOnly, windowVars, hotkeyVars, recorderVars
<1> QED BY <1>1, <1>2, <1>3 DEF IInv

LEMMA OverlayHolds ==
    ASSUME CaptureAssumption, IInv,
           \/ begin_region \/ drag_region \/ finish_region \/ set_region_field
           \/ hover_window \/ select_hovered_window
    PROVE  IInv'
<1>1. Fields /\ drag \in Drags /\ app.windows \subseteq Windows
  BY DEF IInv, Held, Fields, Apps
<1>2. lost = 0 /\ drag = "none" /\ selection.region # None => selection.region = app.region
  BY DEF IInv, Quiet, Clicks
<1>3. lost = 0 /\ drag # "none" => selection.mode = "Region"
  BY DEF IInv, Quiet, Clicks
<1>4. CASE begin_region
  <2>1. /\ SelectionOnly /\ "interaction" \in overlays /\ selection.mode = "Region"
        /\ drag' \in Drags /\ drag' # "none" /\ app' = app
        /\ selection' = [selection EXCEPT !.region = None] \/ selection' = selection
    BY <1>4 DEF begin_region, Overlay, Drags
  <2>2. Fields' /\ selection'.mode = "Region"
    BY <1>1, <2>1 DEF Fields, Selections
  <2> QED BY <2>1, <2>2, Selecting
<1>5. CASE drag_region
  <2>1. PICK r \in Regions : selection' = [selection EXCEPT !.region = r]
    BY <1>5 DEF drag_region
  <2>2. /\ SelectionOnly /\ "interaction" \in overlays /\ selection.mode = "Region"
        /\ drag # "none" /\ drag' = drag /\ app' = app
    BY <1>5 DEF drag_region, Overlay
  <2>3. Fields' /\ selection'.mode = "Region"
    BY <1>1, <2>1, <2>2 DEF Fields, Selections
  <2> QED BY <1>1, <2>2, <2>3, Selecting
<1>6. CASE finish_region
  <2>1. /\ SelectionOnly /\ "interaction" \in overlays /\ drag' = "none"
    BY <1>6 DEF finish_region, Overlay
  <2>2. \/ UNCHANGED <<app, selection>> /\ selection.region = None
        \/ selection' = [selection EXCEPT !.region = None] /\ app' = app
        \/ select_region(selection.region)
    BY <1>6 DEF finish_region
  <2>3. /\ Fields' /\ app'.status = app.status /\ app'.stop_sender = app.stop_sender
        /\ app'.mode = app.mode
        /\ selection'.region # None => selection'.region = app'.region
    BY <1>1, <2>2 DEF Fields, Apps, Selections, select_region
  <2> QED BY <2>1, <2>3, Selecting DEF Drags
<1>7. CASE set_region_field
  <2>1. PICK r \in Regions : select_region(r)
    BY <1>7 DEF set_region_field
  <2>2. /\ SelectionOnly /\ "interaction" \in overlays /\ drag = "none" /\ drag' = drag
    BY <1>7 DEF set_region_field, Overlay
  <2>3. /\ Fields' /\ app'.status = app.status /\ app'.stop_sender = app.stop_sender
        /\ app'.mode = app.mode /\ selection'.region = app'.region
    BY <1>1, <2>1 DEF Fields, Apps, Selections, select_region
  <2> QED BY <2>2, <2>3, Selecting DEF Drags
<1>8. CASE hover_window \/ select_hovered_window
  <2>1. /\ SelectionOnly /\ "interaction" \in overlays /\ drag' = drag
        /\ selection.mode = "Window"
    BY <1>8 DEF hover_window, select_hovered_window, Overlay
  <2>2. \/ \E w \in Windows \cup {None} : selection' = [selection EXCEPT !.hovered = w] /\ app' = app
        \/ select_window(selection.hovered)
    BY <1>1, <1>8 DEF hover_window, select_hovered_window
  <2>3. /\ Fields' /\ app'.status = app.status /\ app'.stop_sender = app.stop_sender
        /\ app'.mode = app.mode /\ selection'.mode = selection.mode
        /\ app'.region = app.region /\ selection'.region = selection.region
    BY <1>1, <2>2 DEF Fields, Apps, Selections, select_window
  <2>4. Held'
    BY <2>1, StillHeld DEF IInv, Held, SelectionOnly, windowVars, hotkeyVars
  <2>5. Channels' /\ Sender' /\ NoOrphan' /\ (lost = 0 => Talks')
    BY <2>1, <2>3, Calm DEF SelectionOnly, windowVars
  <2>6. Quiet'
    BY <2>1, <2>3, <2>5
       DEF IInv, Quiet, Escape, Clicks, Shown, SelectionOnly, windowVars, hotkeyVars, recorderVars
  <2> QED BY <2>3, <2>4, <2>5, <2>6 DEF IInv
<1> QED BY <1>4, <1>5, <1>6, <1>7, <1>8

LEMMA PollHolds ==
    ASSUME CaptureAssumption, IInv,
           PollWindows \/ update_window_snapshot \/ CloseOverlay \/ PressEscape
    PROVE  IInv'
<1>1. /\ UNCHANGED <<windowVars, hotkeyVars, listed, drag, settings, recorderVars>>
      /\ overlays' \subseteq overlays /\ polling' \in BOOLEAN /\ escapes' \in BOOLEAN
  BY DEF IInv, Held, PollWindows, update_window_snapshot, CloseOverlay, PressEscape, overlayVars
<1>2. "interaction" \notin overlays' => "interaction" \notin overlays \/ drag = "none"
  BY DEF PollWindows, update_window_snapshot, CloseOverlay, PressEscape, overlayVars
<1>3. /\ Fields' /\ app'.status = app.status /\ app'.stop_sender = app.stop_sender
      /\ app'.mode = app.mode /\ selection'.mode = selection.mode
      /\ app'.region = app.region /\ selection'.region = selection.region
  <2>1. CASE update_window_snapshot
    <3>1. PICK snapshot \in SUBSET Windows :
             LET Known(w) == IF w \in snapshot THEN w ELSE None IN
             /\ app' = [app EXCEPT !.windows = snapshot, !.window = Known(@)]
             /\ selection' = [selection EXCEPT !.window = Known(@), !.hovered = Known(@)]
      BY <2>1 DEF update_window_snapshot
    <3> QED BY <3>1, ZenonT(30) DEF IInv, Fields, Apps, Selections
  <2>2. CASE PollWindows \/ CloseOverlay \/ PressEscape
    BY <2>2 DEF IInv, Fields, PollWindows, CloseOverlay, PressEscape
  <2> QED BY <2>1, <2>2
<1>4. Held'
  BY <1>1, StillHeld DEF IInv, Held, windowVars, hotkeyVars
<1>5. Channels' /\ Sender' /\ NoOrphan' /\ (lost = 0 => Talks')
  BY <1>1, <1>3, Calm DEF windowVars
<1>6. Quiet'
  BY <1>1, <1>2, <1>3, <1>5 DEF IInv, Quiet, Escape, Clicks, Shown, windowVars, hotkeyVars, recorderVars
<1> QED BY <1>3, <1>4, <1>5, <1>6 DEF IInv

LEMMA SettingsHolds ==
    ASSUME CaptureAssumption, IInv, open_profile_settings \/ SettingsClosed
    PROVE  IInv'
<1>1. Held /\ Fields /\ Quiet /\ overlays \subseteq listed /\ listed \subseteq Overlays
  BY DEF IInv, Held
<1>2. /\ UNCHANGED <<windowVars, escapes, app, selection, polling, recorderVars>>
  BY DEF open_profile_settings, SettingsClosed
<1>3. Fields' /\ Channels' /\ Sender' /\ NoOrphan' /\ (lost = 0 => Talks')
  BY <1>1, <1>2, Calm DEF Fields, windowVars
<1>4. CASE open_profile_settings
  <2>1. /\ Shown /\ app.status = "Idle" /\ settings' = settings \cup {toolbar}
        /\ hotkeys' \in 0..1 /\ escape_hotkey' \in BOOLEAN /\ faults' = faults
        /\ hotkeys' # 1 /\ (hotkeys' = 1 <=> escape_hotkey')
        /\ overlays' = {} /\ listed' = {} /\ drag' = "none"
    BY <1>1, <1>4, Closed, Unregistered DEF open_profile_settings
  <2>2. drag = "none"
    BY <1>4 DEF open_profile_settings
  <2>4. Held'
    <3>1. settings' \subseteq 1..toolbars /\ overlays' \subseteq listed' /\ listed' \subseteq Overlays
      BY <1>1, <2>1 DEF Held, Shown
    <3>2. drag' \in Drags /\ overlays' = {} /\ faults' \in Nat
      BY <1>1, <2>1 DEF Held, Drags
    <3> QED BY <1>1, <1>2, <2>1, <3>1, <3>2 DEF Held, windowVars
  <2>5. Quiet'
    BY <1>1, <1>2, <1>3, <2>1, <2>2 DEF Quiet, Escape, Clicks, Shown, windowVars, recorderVars
  <2> QED BY <1>3, <2>4, <2>5 DEF IInv
<1>5. CASE SettingsClosed
  <2>1. PICK t \in settings :
           /\ settings' = settings \ {t}
           /\ IF t # toolbar THEN UNCHANGED <<overlayVars, hotkeyVars>>
              ELSE /\ IF app.mode # None THEN open_selection_windows
                      ELSE UNCHANGED overlayVars
                   /\ register_escape_hotkey
    BY <1>5 DEF SettingsClosed
  <2>2. CASE t # toolbar
    <3>1. UNCHANGED <<overlayVars, hotkeyVars>>
      BY <2>1, <2>2
    <3>2. Held'
      BY <1>1, <1>2, <2>1, <3>1 DEF Held, windowVars, overlayVars, hotkeyVars
    <3>3. toolbar \in settings <=> toolbar \in settings'
      BY <2>1, <2>2
    <3>4. Quiet'
      BY <1>1, <1>2, <1>3, <3>1, <3>3
         DEF Quiet, Escape, Clicks, Shown, windowVars, overlayVars, hotkeyVars, recorderVars
    <3> QED BY <1>3, <3>2, <3>4 DEF IInv
  <2>3. CASE t = toolbar
    <3>1. register_escape_hotkey /\ (\/ open_selection_windows /\ app.mode # None
                                     \/ UNCHANGED overlayVars)
      BY <2>1, <2>3
    <3>2. /\ hotkeys' \in 0..1 /\ escape_hotkey' \in BOOLEAN /\ faults' \in Nat
          /\ hotkeys' = 1 <=> escape_hotkey'
          /\ faults' = 0 => hotkeys' = 1
      BY <1>1, <3>1, Registered
    <3>3. /\ overlays' \subseteq listed' /\ listed' \subseteq Overlays /\ drag' \in Drags
      BY <1>1, <3>1, Opened DEF Held, overlayVars, Drags
    <3>4. toolbar # 0 /\ toolbar \notin settings' /\ settings' \subseteq settings
      BY <1>1, <2>1, <2>3 DEF Held
    <3>5. Held'
      BY <1>1, <1>2, <3>2, <3>3, <3>4 DEF Held, windowVars
    <3>6. ASSUME lost = 0
          PROVE  /\ app.status = "Idle" /\ "interaction" \notin overlays /\ drag = "none"
                 /\ selection.region # None => selection.region = app.region
      BY <1>1, <2>1, <2>3, <3>6 DEF Quiet, Clicks, Shown, Held, Drags
    <3>7. lost = 0 => Escape'
      BY <1>2, <3>2, <3>4, <3>6 DEF Escape, Shown, windowVars
    <3>8. lost = 0 => Clicks'
      BY <1>2, <3>1, <3>4, <3>6 DEF Clicks, Shown, windowVars, overlayVars, open_selection_windows
    <3> QED BY <1>2, <1>3, <3>5, <3>7, <3>8 DEF IInv, Quiet, recorderVars
  <2> QED BY <2>2, <2>3
<1> QED BY <1>4, <1>5

-----------------------------------------------------------------------------
(* Toolbars that open and close.                                           *)

LEMMA OpenHolds ==
    ASSUME CaptureAssumption, IInv, open_capture
    PROVE  IInv'
<1> USE Bounds
<1>1. Held /\ Channels /\ Quiet /\ toolbars \in Nat /\ toolbar = 0
  BY DEF IInv, Held, open_capture
<1>2. /\ toolbars < MaxToolbars /\ toolbars' = toolbars + 1 /\ toolbar' = toolbars + 1
      /\ visible' = TRUE /\ events' = <<>> /\ polling' = FALSE
      /\ UNCHANGED <<escapes, overlayVars, settings, recordings, copied, lost>>
  BY DEF open_capture
<1>3. app' = FreshApp /\ selection' = FreshSelection
  BY DEF open_capture
<1>4. /\ hotkeys' \in 0..1 /\ escape_hotkey' \in BOOLEAN /\ faults' \in Nat
      /\ hotkeys' = 1 <=> escape_hotkey'
      /\ faults' = 0 => hotkeys' = 1
  BY <1>1, Registered DEF open_capture
<1>5. Held'
  <2>1. settings' \subseteq 1..toolbars' /\ toolbar' \in 0..toolbars' /\ toolbars' \in 0..MaxToolbars
        /\ toolbar' # 0
    BY <1>1, <1>2 DEF Held
  <2>2. visible' \in BOOLEAN /\ polling' \in BOOLEAN /\ (visible' <=> toolbar' # 0)
    BY <1>2, <2>1
  <2>3. overlays' \subseteq listed' /\ listed' \subseteq Overlays /\ drag' \in Drags /\ escapes' \in BOOLEAN
    BY <1>1, <1>2 DEF Held, overlayVars
  <2> QED BY <1>4, <2>1, <2>2, <2>3 DEF Held
<1>6. Fields' /\ app'.status = "Idle" /\ app'.stop_sender = 0 /\ selection'.region = None
  BY <1>3 DEF Fields, FreshApp, FreshSelection, Apps, Selections, Statuses
<1>7. \A r \in 1..Len(recordings) : recordings[r].owner \in 1..toolbars
  BY Owners
<1>8. Channels'
  <2>1. events' \in Seq(Messages) /\ Len(events') = 0
    BY <1>2
  <2>2. \A r \in 1..Len(recordings) : recordings[r].owner <= toolbars'
    BY <1>1, <1>2, <1>7
  <2> QED BY <1>1, <1>2, <2>1, <2>2 DEF Channels
<1>9. Sender'
  BY <1>6 DEF Sender
<1>10. NoOrphan'
  <2>1. \A r \in 1..Len(recordings) :
           ~ (recordings[r].stop = "open" /\ recordings[r].phase # "ended")
    BY <1>1, <1>7 DEF IInv, NoOrphan, Channels
  <2> QED BY <1>1, <1>2, <2>1 DEF NoOrphan, Channels
<1>11. Quiet'
  <2>1. "interaction" \notin overlays' /\ overlays' = {}
    BY <1>1, <1>2 DEF Held, overlayVars
  <2>2. Talks'
    BY <1>1, <1>2, <1>6, <1>7 DEF Talks, Talk
  <2>3. lost = 0 => drag = "none"
    BY <1>1 DEF Quiet, Clicks, Held
  <2>4. lost = 0 => Clicks'
    BY <1>2, <1>6, <2>1, <2>3 DEF Clicks, overlayVars
  <2>5. toolbar' # 0 /\ toolbar' \notin settings'
    BY <1>1, <1>2 DEF Held
  <2>6. Escape'
    BY <1>4, <1>6, <2>5 DEF Escape, Shown
  <2> QED BY <1>2, <2>2, <2>4, <2>6 DEF Quiet
<1> QED BY <1>5, <1>6, <1>8, <1>9, <1>10, <1>11 DEF IInv

\* What DropSender leaves: nothing that the toolbar could have stopped is open.
LEMMA Dropped ==
    ASSUME CaptureAssumption, IInv, recordings' = DropSender(recordings)
    PROVE  /\ recordings' \in Seq(Recordings) /\ Len(recordings') = Len(recordings)
           /\ \A r \in 1..Len(recordings) : /\ recordings'[r].owner = recordings[r].owner
                                            /\ recordings'[r].phase = recordings[r].phase
           /\ \A r \in 1..Len(recordings) :
                 recordings'[r].stop = "open" => recordings[r].phase = "ended"
<1>1. recordings \in Seq(Recordings) /\ DOMAIN recordings = 1..Len(recordings)
  BY DEF IInv, Channels
<1>2. app.stop_sender \in 0..MaxRecordings /\ (app.stop_sender # 0 => app.stop_sender \in 1..Len(recordings))
  BY Bounds DEF IInv, Fields, Apps, Sender, Channels
<1>3. \A r \in 1..Len(recordings) :
         recordings[r].stop = "open" /\ recordings[r].phase # "ended" => app.stop_sender = r
  BY <1>1 DEF IInv, NoOrphan
<1>4. CASE app.stop_sender = 0
  <2>1. recordings' = recordings
    BY <1>4 DEF DropSender
  <2> QED BY <1>1, <1>3, <1>4, <2>1
<1>5. CASE app.stop_sender # 0
  <2>1. PICK s \in 1..Len(recordings) : s = app.stop_sender
    BY <1>2, <1>5
  <2>2. recordings[s] \in Recordings
    BY <1>1
  <2>3. PICK c : c = [recordings[s] EXCEPT !.stop = IF @ = "open" THEN "dropped" ELSE @]
    OBVIOUS
  <2>4. /\ c \in Recordings /\ c.owner = recordings[s].owner /\ c.phase = recordings[s].phase
        /\ c.stop # "open"
    BY <2>2, <2>3 DEF Recordings
  <2>5. recordings' = [recordings EXCEPT ![s] = c]
    BY <1>1, <1>5, <2>1, <2>3 DEF DropSender
  <2>6. /\ recordings' \in Seq(Recordings) /\ Len(recordings') = Len(recordings)
        /\ recordings'[s] = c /\ \A q \in 1..Len(recordings) : q # s => recordings'[q] = recordings[q]
    BY <1>1, <2>4, <2>5, ChangedRecording
  <2> QED BY <1>3, <2>1, <2>4, <2>6, SMTT(30)
<1> QED BY <1>4, <1>5

LEMMA GoneHolds ==
    ASSUME CaptureAssumption, IInv, Gone, lost' = lost, escapes' \in BOOLEAN,
           settings' \subseteq settings, copied' \subseteq 1..Len(recordings)
    PROVE  IInv'
<1>1. Held /\ Channels
  BY DEF IInv
<1>2. /\ toolbar' = 0 /\ toolbars' = toolbars /\ visible' = FALSE /\ events' = <<>> /\ polling' = FALSE
      /\ recordings' = DropSender(recordings)
  BY DEF Gone
<1>3. /\ hotkeys' \in 0..1 /\ escape_hotkey' \in BOOLEAN /\ faults' = faults
      /\ hotkeys' # 1 /\ (hotkeys' = 1 <=> escape_hotkey')
      /\ overlays' = {} /\ listed' = {} /\ drag' = "none"
  BY <1>1, Closed, Unregistered DEF Gone
<1>4. Held'
  <2>1. /\ toolbar' \in 0..toolbars' /\ toolbars' \in 0..MaxToolbars /\ toolbar' = 0
        /\ settings' \subseteq 1..toolbars' /\ faults' \in Nat
    BY <1>1, <1>2, <1>3 DEF Held
  <2>2. /\ visible' \in BOOLEAN /\ polling' \in BOOLEAN /\ (visible' <=> toolbar' # 0)
    BY <1>2
  <2>3. overlays' \subseteq listed' /\ listed' \subseteq Overlays /\ drag' \in Drags /\ overlays' = {}
    BY <1>3 DEF Drags
  <2> QED BY <1>3, <2>1, <2>2, <2>3 DEF Held
<1>5. Fields' /\ app'.status = "Idle" /\ app'.stop_sender = 0 /\ selection'.region = None
  BY Bounds DEF Gone, Fields, FreshApp, FreshSelection, Apps, Selections, Statuses
<1>6. /\ recordings' \in Seq(Recordings) /\ Len(recordings') = Len(recordings)
      /\ \A r \in 1..Len(recordings) : /\ recordings'[r].owner = recordings[r].owner
                                       /\ recordings'[r].phase = recordings[r].phase
      /\ \A r \in 1..Len(recordings) :
            recordings'[r].stop = "open" => recordings[r].phase = "ended"
  BY <1>2, Dropped
<1>7. Channels'
  BY <1>1, <1>2, <1>6, SMTT(30) DEF Channels
<1>8. Sender' /\ NoOrphan'
  BY <1>5, <1>6 DEF Sender, NoOrphan
<1>9. \A r \in 1..Len(recordings') : recordings'[r].owner # toolbar'
  BY <1>2, <1>6, Owners
<1>10. Quiet'
  BY <1>2, <1>3, <1>5, <1>9 DEF Quiet, Escape, Clicks, Shown, Talks, Talk
<1> QED BY <1>4, <1>5, <1>7, <1>8, <1>10 DEF IInv

LEMMA CloseHolds ==
    ASSUME CaptureAssumption, IInv, close_window \/ perform_close_all_windows
    PROVE  IInv'
<1>1. /\ Gone /\ lost' = lost /\ escapes' \in BOOLEAN /\ settings' \subseteq settings
      /\ copied' \subseteq 1..Len(recordings)
  BY DEF IInv, Held, Channels, close_window, perform_close_all_windows, close_windows
<1> QED BY <1>1, GoneHolds

LEMMA EscapeHolds ==
    ASSUME CaptureAssumption, IInv, handle_escape
    PROVE  IInv'
<1>1. Held /\ Channels /\ Fields /\ Quiet
  BY DEF IInv
<1>2. escapes' = FALSE /\ escapes' \in BOOLEAN
  BY DEF handle_escape
<1>3. CASE UNCHANGED <<windowVars, hotkeyVars, app, selection, overlayVars, polling, settings, recorderVars>>
  <2>1. Held'
    BY <1>1, <1>2, <1>3, StillHeld DEF Held, windowVars, hotkeyVars, overlayVars
  <2>2. Channels' /\ Sender' /\ NoOrphan' /\ (lost = 0 => Talks')
    BY <1>3, Calm DEF windowVars
  <2>3. Fields'
    BY <1>1, <1>3 DEF Fields
  <2>4. Quiet'
    BY <1>1, <1>3, <2>2 DEF Quiet, Escape, Clicks, Shown, windowVars, hotkeyVars, overlayVars, recorderVars
  <2> QED BY <2>1, <2>2, <2>3, <2>4 DEF IInv
<1>4. CASE toolbar # 0 /\ app.status = "Idle" /\ app.mode # None
  <2>1. /\ app' = [app EXCEPT !.mode = None, !.display = None, !.window = None, !.region = None]
        /\ selection' = [FreshSelection EXCEPT !.recording = selection.recording]
        /\ close_selection_windows
        /\ UNCHANGED <<windowVars, hotkeyVars, polling, settings, recorderVars>>
    BY <1>4 DEF handle_escape, escape
  <2>2. overlays' = {} /\ listed' = {} /\ drag' = "none"
    BY <1>1, <2>1, Closed
  <2>3. Held'
    BY <1>1, <1>2, <2>1, <2>2, StillHeld DEF Held, hotkeyVars, windowVars, Drags
  <2>4. /\ Fields' /\ app'.status = app.status /\ app'.stop_sender = app.stop_sender
        /\ selection'.region = None
    BY <1>1, <2>1 DEF Fields, Apps, Selections, FreshSelection
  <2>5. Channels' /\ Sender' /\ NoOrphan' /\ (lost = 0 => Talks')
    BY <2>1, <2>4, Calm DEF windowVars
  <2>6. Quiet'
    BY <1>1, <1>4, <2>1, <2>2, <2>4, <2>5 DEF Quiet, Escape, Clicks, Shown, windowVars, hotkeyVars, recorderVars
  <2> QED BY <2>3, <2>4, <2>5, <2>6 DEF IInv
<1>5. CASE Gone /\ UNCHANGED <<copied, lost, settings>>
  BY <1>1, <1>2, <1>5, GoneHolds DEF Channels
<1>6. \/ UNCHANGED <<windowVars, hotkeyVars, app, selection, overlayVars, polling, settings, recorderVars>>
      \/ toolbar # 0 /\ app.status = "Idle" /\ app.mode # None
      \/ Gone /\ UNCHANGED <<copied, lost, settings>>
  BY DEF handle_escape, escape, close_windows
<1> QED BY <1>3, <1>4, <1>5, <1>6

-----------------------------------------------------------------------------
(* Recordings.                                                             *)

\* The click has made a and s of app and selection.
LEMMA RecordHolds ==
    ASSUME CaptureAssumption, IInv, NEW a \in Apps, NEW s \in Selections, NEW spec \in Targets,
           record(a, s, spec), "interaction" \in overlays,
           s.mode = a.mode, s.window = a.window, a.mode = app.mode, a.mode # None,
           a.status = app.status, a.stop_sender = app.stop_sender,
           lost = 0 => drag = "none" /\ (s.region # None => s.region = a.region)
    PROVE  IInv'
<1> USE Bounds
<1>1. Held /\ Channels /\ Fields /\ Quiet /\ toolbar # 0 /\ app.status = "Idle" /\ app.stop_sender = 0
  BY DEF IInv, Held, Sender, record
<1>2. UNCHANGED <<windowVars, escapes, drag, polling, settings, events, copied, lost>>
  BY DEF record
<1>3. lost = 0 => Shown /\ events = <<>>
  BY <1>1 DEF Quiet, Clicks, Talks, Talk
<1>4. CASE app' = a /\ selection' = s /\ UNCHANGED <<recordings, hotkeyVars, overlays, listed>>
  <2>1. Held'
    BY <1>1, <1>2, <1>4, StillHeld DEF Held, windowVars, hotkeyVars
  <2>2. Fields'
    BY <1>4 DEF Fields
  <2>3. Channels' /\ Sender' /\ NoOrphan' /\ (lost = 0 => Talks')
    BY <1>2, <1>4, Calm DEF windowVars, recorderVars
  <2>4. Quiet'
    BY <1>1, <1>2, <1>4, <2>3 DEF Quiet, Escape, Clicks, Shown, windowVars, hotkeyVars
  <2> QED BY <2>1, <2>2, <2>3, <2>4 DEF IInv
<1>5. CASE /\ Len(recordings) < MaxRecordings
           /\ \E remote \in BOOLEAN : recordings' = Append(recordings, Recording(spec, remote))
           /\ unregister_escape_hotkey
           /\ selection' = [s EXCEPT !.recording = TRUE]
           /\ overlays' = overlays \ {"interaction"} /\ listed' = listed \ {"interaction"}
           /\ app' = [a EXCEPT !.stop_sender = Len(recordings'), !.status = "Starting"]
  <2>1. PICK c \in Recordings : /\ recordings' = Append(recordings, c) /\ c.owner = toolbar
                                /\ c.phase = "starting" /\ c.stop = "open"
    <3>1. PICK remote \in BOOLEAN : recordings' = Append(recordings, Recording(spec, remote))
      BY <1>5
    <3>2. toolbar \in 1..MaxToolbars
      BY <1>1 DEF Held
    <3>3. /\ Recording(spec, remote) \in Recordings /\ Recording(spec, remote).owner = toolbar
          /\ Recording(spec, remote).phase = "starting" /\ Recording(spec, remote).stop = "open"
      BY <3>2 DEF Recording, Recordings
    <3> QED BY <3>1, <3>3
  <2>2. PICK n \in Nat : n = Len(recordings)
    BY <1>1 DEF Channels
  <2>3. /\ recordings' \in Seq(Recordings) /\ Len(recordings') = n + 1
        /\ recordings'[n + 1] = c
        /\ \A r \in 1..n : recordings'[r] = recordings[r]
    BY <1>1, <2>1, <2>2 DEF Channels
  <2>4. n + 1 <= MaxRecordings /\ \A r \in 1..(n + 1) : r \in 1..n \/ r = n + 1
    BY <1>5, <2>2
  <2>5. /\ hotkeys' \in 0..1 /\ escape_hotkey' \in BOOLEAN /\ faults' = faults
        /\ hotkeys' # 1 /\ (hotkeys' = 1 <=> escape_hotkey')
    BY <1>1, <1>5, Unregistered
  <2>6. Held'
    <3>1. /\ overlays' \subseteq listed' /\ listed' \subseteq Overlays
          /\ faults' \in Nat
      BY <1>1, <1>5, <2>5 DEF Held
    <3> QED BY <1>1, <1>2, <2>5, <3>1 DEF Held, windowVars
  <2>7. /\ Fields' /\ app'.status = "Starting" /\ app'.stop_sender = n + 1 /\ app'.mode = app.mode
        /\ selection'.region = s.region /\ app'.region = a.region
    <3>1. n + 1 \in 0..MaxRecordings
      BY <2>4
    <3>2. app' = [a EXCEPT !.stop_sender = n + 1, !.status = "Starting"]
      BY <1>5, <2>3
    <3>3. app' \in Apps
      BY <3>1, <3>2 DEF Apps, Statuses
    <3>4. selection' \in Selections
      BY <1>5 DEF Selections
    <3> QED BY <1>5, <3>2, <3>3, <3>4 DEF Fields, Apps, Selections
  <2>8. Channels'
    <3>1. \A r \in 1..(n + 1) : recordings'[r].owner <= toolbars
      BY <1>1, <2>1, <2>2, <2>3, <2>4, SMTT(30) DEF Channels, Held
    <3>2. \A i \in 1..Len(events) : events[i].recording <= n + 1
      <4>1. \A i \in 1..Len(events) : events[i].recording \in 1..MaxRecordings
        <5>1. \A i \in 1..Len(events) : events[i] \in Messages
          BY <1>1 DEF Channels
        <5> QED BY <5>1 DEF Messages
      <4> QED BY <1>1, <2>2, <4>1 DEF Channels
    <3>3. copied \subseteq 1..(n + 1)
      BY <1>1, <2>2 DEF Channels
    <3> QED BY <1>1, <1>2, <2>3, <2>4, <3>1, <3>2, <3>3 DEF Channels, windowVars
  <2>9. Sender'
    BY <1>1, <1>2, <2>3, <2>7 DEF Sender, windowVars
  <2>10. \A r \in 1..n : ~ (recordings[r].stop = "open" /\ recordings[r].phase # "ended")
    BY <1>1, <2>2 DEF IInv, NoOrphan, Channels
  <2>11. NoOrphan'
    <3>1. DOMAIN recordings' = 1..(n + 1) /\ toolbar' = toolbar
      BY <1>2, <2>3 DEF windowVars
    <3> QED BY <2>1, <2>3, <2>4, <2>7, <2>10, <3>1 DEF NoOrphan
  <2>12. lost = 0 => Talks'
    <3>1. lost = 0 => \A r \in 1..n : recordings[r].owner = toolbar => recordings[r].phase = "ended"
      BY <1>1, <2>2 DEF Quiet, Talks
    <3>2. Current' = c /\ toolbar' = toolbar /\ events' = events
      BY <1>2, <2>3 DEF Current, windowVars
    <3>3. lost = 0 => \A r \in 1..(n + 1) :
              recordings'[r].owner = toolbar /\ recordings'[r].phase # "ended" => r = n + 1
      BY <2>3, <2>4, <3>1
    <3>4. lost = 0 => Talk'
      BY <1>3, <2>1, <2>7, <3>2 DEF Talk
    <3> QED BY <2>1, <2>3, <2>7, <3>2, <3>3, <3>4, SMTT(30) DEF Talks
  <2>13. lost = 0 => Escape' /\ Clicks'
    BY <1>2, <1>3, <1>5, <2>5, <2>7 DEF Escape, Clicks, Shown, windowVars
  <2> QED BY <1>2, <2>6, <2>7, <2>8, <2>9, <2>11, <2>12, <2>13 DEF IInv, Quiet
<1> QED BY <1>4, <1>5 DEF record

LEMMA StartHolds ==
    ASSUME CaptureAssumption, IInv,
           start_display_recording \/ start_window_recording \/ start_region_recording
    PROVE  IInv'
<1>1. Fields /\ app \in Apps /\ selection \in Selections
  BY DEF IInv, Fields
<1>2. lost = 0 /\ drag # "none" => selection.mode = "Region"
  BY DEF IInv, Quiet, Clicks
<1>3. lost = 0 /\ drag = "none" /\ selection.region # None => selection.region = app.region
  BY DEF IInv, Quiet, Clicks
<1>4. None \notin Modes
  BY DEF CaptureAssumption
<1>5. CASE start_display_recording
  <2>1. PICK d \in Displays :
           record([app EXCEPT !.display = d, !.region = None],
                  [selection EXCEPT !.display = d, !.region = None], d)
    BY <1>5 DEF start_display_recording
  <2>2. "interaction" \in overlays /\ selection.mode = "Display"
    BY <1>5 DEF start_display_recording, Overlay
  <2>3. PICK a, s : /\ a = [app EXCEPT !.display = d, !.region = None]
                    /\ s = [selection EXCEPT !.display = d, !.region = None]
    OBVIOUS
  <2>4. /\ a \in Apps /\ s \in Selections /\ s.mode = a.mode /\ s.window = a.window
        /\ a.mode = app.mode /\ a.status = app.status /\ a.stop_sender = app.stop_sender
        /\ s.region = None
    BY <1>1, <2>3 DEF Fields, Apps, Selections
  <2>5. a.mode # None /\ d \in Targets /\ record(a, s, d)
    BY <1>1, <1>4, <2>1, <2>2, <2>3, <2>4 DEF Fields, Modes, Targets
  <2> QED BY <1>2, <2>2, <2>4, <2>5, RecordHolds
<1>6. CASE start_window_recording
  <2>1. PICK w : w = selection.hovered
    OBVIOUS
  <2>2. /\ "interaction" \in overlays /\ selection.mode = "Window" /\ w \in Windows
        /\ record([app EXCEPT !.window = w], [selection EXCEPT !.window = w], w)
    BY <1>1, <1>6, <2>1 DEF start_window_recording, Overlay, Selections
  <2>3. PICK a, s : /\ a = [app EXCEPT !.window = w]
                    /\ s = [selection EXCEPT !.window = w]
    OBVIOUS
  <2>4. /\ a \in Apps /\ s \in Selections /\ s.mode = a.mode /\ s.window = a.window
        /\ a.mode = app.mode /\ a.status = app.status /\ a.stop_sender = app.stop_sender
        /\ s.region = selection.region /\ a.region = app.region
    BY <1>1, <2>2, <2>3 DEF Fields, Apps, Selections
  <2>5. a.mode # None /\ w \in Targets /\ record(a, s, w)
    BY <1>1, <1>4, <2>2, <2>3, <2>4 DEF Fields, Modes, Targets
  <2> QED BY <1>2, <1>3, <2>2, <2>4, <2>5, RecordHolds
<1>7. CASE start_region_recording
  <2>1. PICK r : r = app.region
    OBVIOUS
  <2>2. /\ "interaction" \in overlays /\ selection.mode = "Region" /\ drag = "none" /\ r \in Regions
        /\ record(app, selection, r)
    BY <1>1, <1>7, <2>1 DEF start_region_recording, Overlay, Apps
  <2>3. /\ selection.mode = app.mode /\ selection.window = app.window /\ app.mode # None
        /\ r \in Targets
    BY <1>1, <1>4, <2>2 DEF Fields, Modes, Targets
  <2> QED BY <1>1, <1>3, <2>2, <2>3, RecordHolds
<1> QED BY <1>5, <1>6, <1>7

LEMMA StopHolds ==
    ASSUME CaptureAssumption, IInv, stop
    PROVE  IInv'
<1> USE Bounds
<1>1. Held /\ Channels /\ Fields /\ Quiet
  BY DEF IInv
<1>2. /\ Shown /\ toolbar # 0 /\ app.status = "Recording"
      /\ UNCHANGED <<windowVars, hotkeyVars, escapes, polling, settings, events, copied, lost>>
      /\ app' = [app EXCEPT !.status = "Finalizing", !.stop_sender = 0]
      /\ selection' = [selection EXCEPT !.recording = FALSE]
  BY DEF stop, Shown
<1>3. overlays' = {} /\ listed' = {} /\ drag' = "none"
  BY <1>1, Closed DEF stop
<1>4. Held'
  BY <1>1, <1>2, <1>3, StillHeld DEF Held, hotkeyVars, windowVars, Drags
<1>5. /\ Fields' /\ app'.status = "Finalizing" /\ app'.stop_sender = 0 /\ app'.mode = app.mode
      /\ app'.region = app.region /\ selection'.region = selection.region
  <2>1. app' \in Apps
    <3>1. 0 \in 0..MaxRecordings
      OBVIOUS
    <3> QED BY <1>1, <1>2, <3>1 DEF Fields, Apps, Statuses
  <2>2. selection' \in Selections
    BY <1>1, <1>2 DEF Fields, Selections
  <2> QED BY <1>1, <1>2, <2>1, <2>2 DEF Fields, Apps, Selections
<1>6. PICK n \in Nat : n = Len(recordings)
  BY <1>1 DEF Channels
<1>7. /\ recordings' \in Seq(Recordings) /\ Len(recordings') = n
      /\ \A r \in 1..n : /\ recordings'[r].owner = recordings[r].owner
                         /\ recordings'[r].phase = recordings[r].phase
      /\ \A r \in 1..n : recordings'[r].stop = "open" => recordings[r].phase = "ended"
  <2>1. recordings \in Seq(Recordings) /\ DOMAIN recordings = 1..n
    BY <1>1, <1>6 DEF Channels
  <2>2. app.stop_sender \in 0..MaxRecordings /\ (app.stop_sender # 0 => app.stop_sender \in 1..n)
    BY <1>1, <1>6 DEF IInv, Fields, Apps, Sender
  <2>3. \A r \in 1..n :
           recordings[r].stop = "open" /\ recordings[r].phase # "ended" => app.stop_sender = r
    BY <2>1 DEF IInv, NoOrphan
  <2>4. CASE app.stop_sender = 0
    <3>1. recordings' = recordings
      BY <2>4 DEF stop
    <3> QED BY <1>6, <2>1, <2>3, <2>4, <3>1
  <2>5. CASE app.stop_sender # 0
    <3>1. PICK s \in 1..n : s = app.stop_sender
      BY <2>2, <2>5
    <3>2. recordings[s] \in Recordings
      BY <1>6, <2>1
    <3>3. PICK c : c = [recordings[s] EXCEPT !.stop = "sent"]
      OBVIOUS
    <3>4. /\ c \in Recordings /\ c.owner = recordings[s].owner /\ c.phase = recordings[s].phase
          /\ c.stop # "open"
      BY <3>2, <3>3 DEF Recordings
    <3>5. recordings' = [recordings EXCEPT ![s] = c]
      BY <2>1, <2>5, <3>1, <3>3 DEF stop
    <3>6. /\ recordings' \in Seq(Recordings) /\ Len(recordings') = n
          /\ recordings'[s] = c /\ \A q \in 1..n : q # s => recordings'[q] = recordings[q]
      BY <1>6, <2>1, <3>4, <3>5, ChangedRecording
    <3> QED BY <2>3, <3>1, <3>4, <3>6
  <2> QED BY <2>4, <2>5
<1>8. Channels'
  BY <1>1, <1>2, <1>6, <1>7 DEF Channels, windowVars
<1>9. Sender' /\ NoOrphan'
  BY <1>2, <1>5, <1>7 DEF Sender, NoOrphan, windowVars
<1>10. lost = 0 => Escape' /\ Clicks'
  BY <1>1, <1>2, <1>3, <1>5 DEF Quiet, Escape, Clicks, Shown, windowVars, hotkeyVars
<1>11. lost = 0 => Talks'
  <2>1. n \in 1..n => Current'.owner = Current.owner /\ Current'.phase = Current.phase
    BY <1>6, <1>7 DEF Current
  <2>2. lost = 0 => /\ n \in 1..n /\ Current.owner = toolbar /\ Current.phase = "recording" /\ events = <<>>
                    /\ \A r \in 1..n : recordings[r].owner = toolbar /\ recordings[r].phase # "ended" => r = n
    BY <1>1, <1>2, <1>6 DEF Quiet, Talks, Talk
  <2>3. toolbar' = toolbar /\ events' = events
    BY <1>2 DEF windowVars
  <2> QED BY <1>5, <1>6, <1>7, <2>1, <2>2, <2>3 DEF Talks, Talk
<1> QED BY <1>2, <1>4, <1>5, <1>8, <1>9, <1>10, <1>11 DEF IInv, Quiet

\* What is left to show of a step of a recorder: r, which had not ended, becomes c
\* and its toolbar is told e.
LEMMA RecorderHolds ==
    ASSUME CaptureAssumption, IInv, NEW r \in 1..Len(recordings), NEW c \in Recordings,
           NEW e \in Messages, recordings' = [recordings EXCEPT ![r] = c],
           recordings[r].phase # "ended", c.owner = recordings[r].owner, c.stop = recordings[r].stop,
           e.recording = r, events' = Send(r, e), RecorderOnly, lost' \in Nat,
           lost' = 0 => lost = 0 /\ Talks'
    PROVE  IInv'
<1> USE Bounds
<1>1. Held /\ Channels /\ Fields /\ Quiet /\ Sender
  BY DEF IInv
<1>2. UNCHANGED <<windowVars, hotkeyVars, escapes, app, selection, overlayVars, polling, settings, copied>>
  BY DEF RecorderOnly
<1>3. Held'
  BY <1>1, <1>2, StillHeld DEF Held, windowVars, hotkeyVars, overlayVars
<1>4. Fields'
  BY <1>1, <1>2 DEF Fields
<1>5. PICK n \in Nat : n = Len(recordings)
  BY <1>1 DEF Channels
<1>6. /\ recordings' \in Seq(Recordings) /\ Len(recordings') = n /\ DOMAIN recordings' = 1..n
      /\ recordings'[r] = c /\ \A q \in 1..n : q # r => recordings'[q] = recordings[q]
  BY <1>1, <1>5, ChangedRecording DEF Channels
<1>7. Channels'
  <2>1. events' \in Seq(Messages) /\ \A i \in 1..Len(events') : events'[i].recording <= n
    <3>1. CASE recordings[r].owner = toolbar
      <4>1. PICK m \in Nat : m = Len(events)
        BY <1>1 DEF Channels
      <4>2. /\ events' \in Seq(Messages) /\ Len(events') = m + 1 /\ events'[m + 1] = e
            /\ \A i \in 1..m : events'[i] = events[i]
        BY <1>1, <3>1, <4>1 DEF Channels, Send
      <4>3. \A i \in 1..(m + 1) : i \in 1..m \/ i = m + 1
        BY <4>1
      <4> QED BY <1>1, <1>5, <4>1, <4>2, <4>3 DEF Channels
    <3>2. CASE recordings[r].owner # toolbar
      BY <1>1, <1>5, <3>2 DEF Channels, Send
    <3> QED BY <3>1, <3>2
  <2>2. \A q \in 1..n : recordings'[q].owner <= toolbars
    BY <1>1, <1>5, <1>6 DEF Channels
  <2> QED BY <1>1, <1>2, <1>5, <1>6, <2>1, <2>2 DEF Channels, windowVars
<1>8. Sender'
  BY <1>1, <1>2, <1>5, <1>6 DEF Sender, windowVars
<1>9. NoOrphan'
  <2>1. \A q \in 1..n : recordings[q].stop = "open" /\ recordings[q].phase # "ended" =>
            recordings[q].owner = toolbar /\ app.stop_sender = q
    BY <1>1, <1>5, SMTT(30) DEF IInv, NoOrphan, Channels
  <2> QED BY <1>2, <1>5, <1>6, <2>1 DEF NoOrphan, windowVars
<1>10. Quiet'
  BY <1>1, <1>2 DEF Quiet, Escape, Clicks, Shown, windowVars, hotkeyVars, overlayVars
<1> QED BY <1>3, <1>4, <1>7, <1>8, <1>9, <1>10 DEF IInv

\* The events that the steps of a recorder send.
Tells(from, to, type) ==
    \/ from = "starting" /\ to = "recording" /\ type = "Started"
    \/ from = "recording" /\ to = "uploading" /\ type = "Uploading"
    \/ from \in {"recording", "uploading"} /\ to = "ended" /\ type = "Finished"
    \/ to = "ended" /\ type = "Failed"

LEMMA TalkHolds ==
    ASSUME CaptureAssumption, IInv, lost = 0, NEW r \in 1..Len(recordings), NEW c \in Recordings,
           NEW e \in Messages, recordings' = [recordings EXCEPT ![r] = c],
           c.owner = recordings[r].owner, c.stop = recordings[r].stop,
           events' = Send(r, e), RecorderOnly,
           recordings[r].phase \in {"starting", "recording", "uploading"},
           recordings[r].phase = "recording" => recordings[r].stop # "open",
           Tells(recordings[r].phase, c.phase, e.type)
    PROVE  Talks'
<1>1. Channels /\ Talks
  BY DEF IInv, Quiet
<1>2. PICK n \in Nat : n = Len(recordings)
  BY <1>1 DEF Channels
<1>3. /\ Len(recordings') = n
      /\ recordings'[r] = c /\ \A q \in 1..n : q # r => recordings'[q] = recordings[q]
  BY <1>1, <1>2, ChangedRecording DEF Channels
<1>4. app' = app /\ toolbar' = toolbar
  BY DEF RecorderOnly, windowVars
<1>5. \A q \in 1..n : recordings'[q].owner = toolbar /\ recordings'[q].phase # "ended"
                        => q = n /\ app.status # "Idle"
  BY <1>1, <1>2, <1>3 DEF Talks
<1>6. app.status # "Idle" => n > 0 /\ recordings'[n].owner = toolbar /\ recordings'[n].stop = Current.stop
  BY <1>1, <1>2, <1>3 DEF Talks, Current
<1>7. Talk'
  <2>1. CASE recordings[r].owner # toolbar
    <3>1. events' = events /\ (app.status # "Idle" => recordings'[n] = recordings[n])
      BY <1>1, <1>2, <1>3, <2>1 DEF Send, Talks, Current
    <3> QED BY <1>1, <1>2, <1>3, <1>4, <3>1 DEF Talks, Talk, Current, Says, SaysThen
  <2>2. CASE recordings[r].owner = toolbar
    <3>1. r = n /\ app.status # "Idle"
      BY <1>1, <1>2, <2>2 DEF Talks
    <3>2. Current = recordings[r] /\ Current' = c
      BY <1>2, <1>3, <3>1 DEF Current
    <3>3. /\ events = <<>> => Len(events') = 1 /\ events'[1] = e
          /\ Len(events) = 1 => Len(events') = 2 /\ events'[1] = events[1] /\ events'[2] = e
      BY <1>1, <2>2 DEF Send, Channels
    <3>4. app.status \in {"Starting", "Recording"} => recordings[r].stop = "open"
      BY <1>1, <3>2 DEF Talks
    <3>5. CASE app.status = "Starting"
      <4>1. recordings[r].phase = "starting" /\ events = <<>>
        BY <1>1, <3>2, <3>4, <3>5 DEF Talks, Talk
      <4>2. (c.phase = "recording" /\ e.type = "Started") \/ (c.phase = "ended" /\ e.type = "Failed")
        BY <4>1 DEF Tells
      <4> QED BY <1>4, <3>2, <3>3, <3>5, <4>1, <4>2 DEF Talk, Says
    <3>6. CASE app.status = "Recording"
      BY <1>1, <3>2, <3>4, <3>6 DEF Talks, Talk
    <3>7. CASE app.status = "Finalizing"
      <4>1. CASE recordings[r].phase = "recording"
        <5>1. events = <<>>
          BY <1>1, <3>2, <3>7, <4>1 DEF Talks, Talk
        <5>2. \/ c.phase = "uploading" /\ e.type = "Uploading"
              \/ c.phase = "ended" /\ e.type \in {"Finished", "Failed"}
          BY <4>1 DEF Tells
        <5> QED BY <1>4, <3>2, <3>3, <3>7, <5>1, <5>2 DEF Talk, Says
      <4>2. CASE recordings[r].phase # "recording"
        <5>1. recordings[r].phase = "uploading" /\ Says("Uploading")
          BY <1>1, <3>2, <3>7, <4>2 DEF Talks, Talk
        <5>2. c.phase = "ended" /\ e.type \in {"Finished", "Failed"}
          BY <5>1 DEF Tells
        <5> QED BY <1>4, <3>2, <3>3, <3>7, <5>1, <5>2 DEF Talk, Says, SaysThen
      <4> QED BY <4>1, <4>2
    <3>8. CASE app.status = "Uploading"
      <4>1. recordings[r].phase = "uploading" /\ events = <<>>
        BY <1>1, <3>2, <3>8 DEF Talks, Talk
      <4>2. c.phase = "ended" /\ e.type \in {"Finished", "Failed"}
        BY <4>1 DEF Tells
      <4> QED BY <1>4, <3>2, <3>3, <3>8, <4>1, <4>2 DEF Talk, Says
    <3>9. app.status \in Statuses
      BY DEF IInv, Fields, Apps
    <3> QED BY <3>1, <3>5, <3>6, <3>7, <3>8, <3>9 DEF Statuses
  <2> QED BY <2>1, <2>2
<1> QED BY <1>1, <1>2, <1>3, <1>4, <1>5, <1>6, <1>7 DEF Talks, Current

LEMMA RecorderStepHolds ==
    ASSUME CaptureAssumption, IInv, NEW r \in DOMAIN recordings, RecorderStep(r)
    PROVE  IInv'
<1>1. r \in 1..Len(recordings) /\ recordings[r] \in Recordings /\ DOMAIN recordings = 1..Len(recordings)
      /\ r \in 1..MaxRecordings
  BY Bounds DEF IInv, Channels
<1>2. /\ recordings[r].phase \in {"starting", "recording", "uploading"}
      /\ recordings[r].phase = "recording" => recordings[r].stop # "open"
      /\ RecorderOnly /\ lost' = lost
  BY DEF RecorderStep, RecorderStarts, RecorderStops, RecorderUploads
<1>3. PICK phase \in {"recording", "uploading", "ended"}, published \in BOOLEAN,
           type \in {"Started", "Uploading", "Finished", "Failed"} :
         /\ Tells(recordings[r].phase, phase, type)
         /\ recordings' = [recordings EXCEPT ![r].phase = phase, ![r].published = published]
         /\ events' = Send(r, Event(type, r))
  <2>1. PICK old \in BOOLEAN : old = recordings[r].published
    BY <1>1 DEF Recordings
  <2>2. \A phase : [recordings EXCEPT ![r].phase = phase]
                     = [recordings EXCEPT ![r].phase = phase, ![r].published = old]
    BY <1>1, <2>1 DEF IInv, Channels, Recordings
  <2>3. CASE RecorderStarts(r)
    BY <2>1, <2>2, <2>3 DEF RecorderStarts, Tells
  <2>4. CASE RecorderStops(r)
    <3>1. recordings[r].phase = "recording"
      BY <2>4 DEF RecorderStops
    <3>2. PICK phase \in {"uploading", "ended"}, type \in {"Uploading", "Finished", "Failed"} :
             /\ phase = "uploading" <=> type = "Uploading"
             /\ recordings' = [recordings EXCEPT ![r].phase = phase]
             /\ events' = Send(r, Event(type, r))
      BY <2>4 DEF RecorderStops
    <3>3. Tells(recordings[r].phase, phase, type)
      BY <3>1, <3>2 DEF Tells
    <3> QED BY <2>1, <2>2, <3>2, <3>3
  <2>5. CASE RecorderUploads(r)
    BY <2>1, <2>2, <2>5 DEF RecorderUploads, Tells
  <2> QED BY <2>3, <2>4, <2>5 DEF RecorderStep
<1>4. PICK c : c = [recordings[r] EXCEPT !.phase = phase, !.published = published]
  OBVIOUS
<1>5. /\ c \in Recordings /\ c.owner = recordings[r].owner /\ c.stop = recordings[r].stop
      /\ c.phase = phase
  BY <1>1, <1>4 DEF Recordings
<1>6. recordings' = [recordings EXCEPT ![r] = c]
  BY <1>1, <1>3, <1>4
<1>7. Event(type, r) \in Messages /\ Event(type, r).recording = r /\ Event(type, r).type = type
  BY <1>1 DEF Event, Messages
<1>8. PICK e \in Messages : e.recording = r /\ e.type = type /\ events' = Send(r, e)
  BY <1>3, <1>7
<1>9. lost = 0 => Talks'
  <2>1. Tells(recordings[r].phase, c.phase, e.type)
    BY <1>3, <1>5, <1>8
  <2> QED BY <1>1, <1>2, <1>5, <1>6, <1>8, <2>1, TalkHolds
<1>10. lost' \in Nat /\ recordings[r].phase # "ended"
  BY <1>2 DEF IInv, Channels
<1> QED BY <1>1, <1>2, <1>5, <1>6, <1>8, <1>9, <1>10, RecorderHolds

LEMMA LostHolds ==
    ASSUME CaptureAssumption, IInv, NEW r \in DOMAIN recordings, CaptureLost(r)
    PROVE  IInv'
<1>1. r \in 1..Len(recordings) /\ recordings[r] \in Recordings /\ DOMAIN recordings = 1..Len(recordings)
      /\ r \in 1..MaxRecordings /\ lost \in Nat
  BY Bounds DEF IInv, Channels
<1>2. PICK c : c = [recordings[r] EXCEPT !.lost = TRUE]
  OBVIOUS
<1>3. /\ c \in Recordings /\ c.owner = recordings[r].owner /\ c.stop = recordings[r].stop
  BY <1>1, <1>2 DEF Recordings
<1>4. recordings' = [recordings EXCEPT ![r] = c]
  BY <1>1, <1>2 DEF CaptureLost
<1>5. Event("Failed", r) \in Messages /\ Event("Failed", r).recording = r
  BY <1>1 DEF Event, Messages
<1>6. PICK e \in Messages : e.recording = r /\ events' = Send(r, e)
  BY <1>5 DEF CaptureLost
<1>7. /\ RecorderOnly /\ recordings[r].phase # "ended" /\ lost' \in Nat /\ lost' # 0
  BY <1>1 DEF CaptureLost
<1> QED BY <1>1, <1>3, <1>4, <1>6, <1>7, RecorderHolds

-----------------------------------------------------------------------------
(* Events on the toolbar.                                                  *)

\* The next event is gone from the channel.
LEMMA Received ==
    ASSUME IInv, events # <<>>, events' = Tail(events)
    PROVE  /\ events' \in Seq(Messages) /\ Len(events') = Len(events) - 1
           /\ \A i \in 1..Len(events') : events'[i] = events[i + 1]
           /\ \A i \in 1..Len(events') : events'[i].recording <= Len(recordings)
           /\ Head(events) = events[1] /\ Head(events) \in Messages
           /\ Head(events).recording <= Len(recordings)
           /\ Len(events) = 1 => events' = <<>>
<1>1. events \in Seq(Messages) /\ Len(events) \in Nat /\ Len(events) # 0
  BY DEF IInv, Channels
<1>2. /\ events' \in Seq(Messages) /\ Len(events') = Len(events) - 1
      /\ \A i \in 1..Len(events') : events'[i] = events[i + 1]
      /\ Head(events) = events[1]
  BY <1>1
<1>3. \A i \in 1..Len(events) : events[i] \in Messages /\ events[i].recording <= Len(recordings)
  BY DEF IInv, Channels
<1>4. \A i \in 1..Len(events') : i + 1 \in 1..Len(events)
  BY <1>1, <1>2
<1>5. 1 \in 1..Len(events)
  BY <1>1
<1>6. Len(events) = 1 => events' = <<>>
  BY <1>1, <1>2
<1> QED BY <1>2, <1>3, <1>4, <1>5, <1>6

\* What is left to show when Started or Uploading makes status of the toolbar.
LEMMA StatusHolds ==
    ASSUME CaptureAssumption, IInv, NEW status \in Statuses \ {"Idle"}, toolbar # 0, events # <<>>,
           app' = [app EXCEPT !.status = status], events' = Tail(events),
           UNCHANGED <<windowVars, hotkeyVars, selection, overlayVars, polling, recordings, copied>>,
           UNCHANGED <<escapes, settings, lost>>,
           lost = 0 => /\ app.status # "Idle" /\ Talks'
                       /\ overlays # {} => status \in {"Starting", "Recording"}
    PROVE  IInv'
<1>1. Held /\ Channels /\ Fields /\ Quiet /\ Sender
  BY DEF IInv
<1>2. Held'
  BY <1>1, StillHeld DEF Held, windowVars, hotkeyVars, overlayVars
<1>3. /\ Fields' /\ app'.status = status /\ app'.stop_sender = app.stop_sender /\ app'.mode = app.mode
      /\ app'.region = app.region
  BY <1>1 DEF Fields, Apps
<1>4. Channels'
  <2>1. events' \in Seq(Messages) /\ \A i \in 1..Len(events') : events'[i].recording <= Len(recordings)
    BY Received
  <2> QED BY <1>1, <2>1 DEF Channels, windowVars
<1>5. Sender' /\ NoOrphan'
  BY <1>1, <1>3 DEF IInv, Sender, NoOrphan, windowVars
<1>6. Quiet'
  BY <1>1, <1>3 DEF Quiet, Escape, Clicks, Shown, windowVars, hotkeyVars, overlayVars
<1> QED BY <1>2, <1>3, <1>4, <1>5, <1>6 DEF IInv

LEMMA StartedHolds ==
    ASSUME CaptureAssumption, IInv, toolbar # 0, events # <<>>, Head(events).type = "Started",
           Started, events' = Tail(events), UNCHANGED <<escapes, settings, lost>>
    PROVE  IInv'
<1>1. PICK status \in Statuses \ {"Idle"} : status = "Recording"
  BY DEF Statuses
<1>2. /\ app' = [app EXCEPT !.status = status] /\ app'.status = status
      /\ UNCHANGED <<windowVars, hotkeyVars, selection, overlayVars, polling, recordings, copied>>
  BY <1>1 DEF Started, IInv, Fields, Apps
<1>3. ASSUME lost = 0 PROVE app.status = "Starting" /\ Current.phase = "recording" /\ events' = <<>>
  <2>1. Talk /\ events[1].type = "Started" /\ app.status \in Statuses
    BY <1>3, Received DEF IInv, Quiet, Talks, Fields, Apps
  <2>2. app.status = "Starting" /\ Current.phase = "recording" /\ Len(events) = 1
    BY <2>1 DEF Talk, Says, SaysThen, Statuses
  <2> QED BY <2>2, Received
<1>4. lost = 0 => Talks'
  BY <1>1, <1>2, <1>3 DEF IInv, Quiet, Talks, Talk, Current, windowVars
<1> QED BY <1>1, <1>2, <1>3, <1>4, StatusHolds

LEMMA UploadingHolds ==
    ASSUME CaptureAssumption, IInv, toolbar # 0, events # <<>>, Head(events).type = "Uploading",
           Uploading, events' = Tail(events), UNCHANGED <<escapes, settings, lost>>
    PROVE  IInv'
<1>1. PICK status \in Statuses \ {"Idle"} : status = "Uploading"
  BY DEF Statuses
<1>2. /\ app' = [app EXCEPT !.status = status] /\ app'.status = status
      /\ UNCHANGED <<windowVars, hotkeyVars, selection, overlayVars, polling, recordings, copied>>
  BY <1>1 DEF Uploading, IInv, Fields, Apps
<1>3. ASSUME lost = 0
      PROVE  /\ app.status = "Finalizing"
             /\ \/ Current.phase = "uploading" /\ events' = <<>>
                \/ /\ Current.phase = "ended" /\ Len(events') = 1
                   /\ events'[1].type = "Finished" \/ events'[1].type = "Failed"
  <2>1. Talk /\ events[1].type = "Uploading" /\ app.status \in Statuses
    BY <1>3, Received DEF IInv, Quiet, Talks, Fields, Apps
  <2>2. /\ app.status = "Finalizing"
        /\ \/ Current.phase = "uploading" /\ Len(events) = 1
           \/ /\ Current.phase = "ended" /\ Len(events) = 2
              /\ events[2].type = "Finished" \/ events[2].type = "Failed"
    BY <2>1 DEF Talk, Says, SaysThen, Statuses
  <2>3. Len(events) = 2 => Len(events') = 1 /\ events'[1] = events[2]
    <3>1. /\ Len(events') = Len(events) - 1
          /\ \A i \in 1..Len(events') : events'[i] = events[i + 1]
      BY Received
    <3>2. PICK m : m = Len(events')
      OBVIOUS
    <3>3. Len(events) = 2 => m = 1 /\ 1 \in 1..m
      BY <3>1, <3>2
    <3>4. 1 \in 1..Len(events') => events'[1] = events[1 + 1]
      BY <3>1
    <3> QED BY <3>2, <3>3, <3>4
  <2> QED BY <2>2, <2>3, Received
<1>4. lost = 0 => Talks'
  BY <1>1, <1>2, <1>3 DEF IInv, Quiet, Talks, Talk, Says, Current, windowVars
<1>5. lost = 0 => overlays = {}
  BY <1>3 DEF IInv, Quiet, Clicks
<1> QED BY <1>1, <1>2, <1>3, <1>4, <1>5, StatusHolds

LEMMA FailedHolds ==
    ASSUME CaptureAssumption, IInv, toolbar # 0, events # <<>>,
           Head(events).type \notin {"Started", "Uploading", "Finished"},
           Failed, events' = Tail(events), UNCHANGED <<escapes, settings, lost>>
    PROVE  IInv'
<1> USE Bounds
<1>1. Held /\ Channels /\ Fields /\ Quiet
  BY DEF IInv
<1>2. /\ app' = [app EXCEPT !.status = "Idle", !.stop_sender = 0]
      /\ selection' = [selection EXCEPT !.recording = FALSE]
      /\ recordings' = DropSender(recordings)
      /\ UNCHANGED <<windowVars, polling, copied>>
  BY DEF Failed
<1>3. /\ hotkeys' \in 0..1 /\ escape_hotkey' \in BOOLEAN /\ faults' \in Nat
      /\ hotkeys' = 1 <=> escape_hotkey'
      /\ faults' = 0 => hotkeys' = 1
  BY <1>1, Registered DEF Failed
<1>4. overlays' \subseteq listed' /\ listed' \subseteq Overlays /\ drag' = "none" /\ drag' \in Drags
  BY Opened DEF Failed, Drags
<1>5. Held'
  BY <1>1, <1>2, <1>3, <1>4 DEF Held, windowVars
<1>6. /\ Fields' /\ app'.status = "Idle" /\ app'.stop_sender = 0 /\ app'.mode = app.mode
      /\ app'.region = app.region /\ selection'.region = selection.region
  <2>1. app' \in Apps
    <3>1. 0 \in 0..MaxRecordings
      OBVIOUS
    <3> QED BY <1>1, <1>2, <3>1 DEF Fields, Apps, Statuses
  <2>2. selection' \in Selections
    BY <1>1, <1>2 DEF Fields, Selections
  <2> QED BY <1>1, <1>2, <2>1, <2>2 DEF Fields, Apps, Selections
<1>7. PICK n \in Nat : n = Len(recordings)
  BY <1>1 DEF Channels
<1>8. /\ recordings' \in Seq(Recordings) /\ Len(recordings') = n
      /\ \A r \in 1..n : /\ recordings'[r].owner = recordings[r].owner
                         /\ recordings'[r].phase = recordings[r].phase
      /\ \A r \in 1..n : recordings'[r].stop = "open" => recordings[r].phase = "ended"
  BY <1>2, <1>7, Dropped
<1>9. Channels'
  <2>1. events' \in Seq(Messages) /\ \A i \in 1..Len(events') : events'[i].recording <= n
    BY <1>7, Received
  <2> QED BY <1>1, <1>2, <1>7, <1>8, <2>1 DEF Channels, windowVars
<1>10. Sender' /\ NoOrphan'
  BY <1>6, <1>8, SMTT(30) DEF Sender, NoOrphan
<1>11. ASSUME lost = 0
       PROVE  /\ app.status # "Idle" /\ Shown /\ app.mode # None /\ drag = "none" /\ events' = <<>>
              /\ \A r \in 1..n : recordings[r].owner = toolbar => recordings[r].phase = "ended"
  <2>1. /\ Talks /\ Clicks /\ app.status \in Statuses /\ events[1] = Head(events)
        /\ Len(events) = 1 => events' = <<>>
    BY <1>11, Received DEF IInv, Quiet, Fields, Apps
  <2>2. app.status # "Idle" /\ Current.phase = "ended" /\ Len(events) = 1
    BY <2>1 DEF Talks, Talk, Says, SaysThen, Statuses
  <2> QED BY <1>7, <2>1, <2>2 DEF Talks, Clicks, Current
<1>12. lost = 0 => Talks'
  BY <1>2, <1>6, <1>8, <1>11 DEF Talks, Talk, windowVars
<1>13. lost = 0 => Clicks'
  BY <1>1, <1>2, <1>4, <1>6, <1>11 DEF Quiet, Clicks, Shown, windowVars
<1>14. lost = 0 => Escape'
  BY <1>2, <1>3, <1>6, <1>11 DEF Escape, Shown, windowVars
<1> QED BY <1>5, <1>6, <1>9, <1>10, <1>12, <1>13, <1>14 DEF IInv, Quiet

LEMMA EventHolds ==
    ASSUME CaptureAssumption, IInv, handle_event
    PROVE  IInv'
<1>1. toolbar # 0 /\ events # <<>> /\ UNCHANGED <<escapes, settings, lost>>
  BY DEF handle_event
<1>2. CASE Head(events).type = "Started"
  BY <1>1, <1>2, StartedHolds DEF handle_event
<1>3. CASE Head(events).type = "Uploading"
  BY <1>1, <1>3, UploadingHolds DEF handle_event
<1>4. CASE Head(events).type = "Finished"
  <2>1. Finished(Head(events).recording)
    BY <1>4 DEF handle_event
  <2>2. Head(events).recording \in 1..Len(recordings)
    <3>1. Head(events) = events[1] /\ events[1] \in Messages /\ events[1].recording <= Len(recordings)
          /\ Len(recordings) \in Nat
      <4>1. events \in Seq(Messages) /\ 1 \in 1..Len(events) /\ Len(recordings) \in Nat
        BY <1>1 DEF IInv, Channels
      <4> QED BY <4>1 DEF IInv, Channels
    <3>2. events[1].recording \in 1..MaxRecordings
      BY <3>1 DEF Messages
    <3> QED BY <3>1, <3>2, Bounds
  <2>3. /\ Gone /\ copied' \subseteq 1..Len(recordings) /\ escapes' \in BOOLEAN
        /\ settings' \subseteq settings
    BY <1>1, <2>1, <2>2 DEF Finished, IInv, Channels, Held
  <2> QED BY <1>1, <2>3, GoneHolds
<1>5. CASE Head(events).type \notin {"Started", "Uploading", "Finished"}
  BY <1>1, <1>5, FailedHolds DEF handle_event
<1> QED BY <1>2, <1>3, <1>4, <1>5

-----------------------------------------------------------------------------
(* The theorems.                                                           *)

LEMMA NextHolds == ASSUME CaptureAssumption, IInv, [Next]_vars PROVE IInv'
<1>1. CASE open_capture
  BY <1>1, OpenHolds
<1>2. CASE \E mode \in Modes : set_mode(mode)
  BY <1>2, SetModeHolds
<1>3. CASE \/ begin_region \/ drag_region \/ finish_region \/ set_region_field
           \/ hover_window \/ select_hovered_window
  BY <1>3, OverlayHolds
<1>4. CASE PollWindows \/ update_window_snapshot \/ CloseOverlay \/ PressEscape
  BY <1>4, PollHolds
<1>5. CASE start_display_recording \/ start_window_recording \/ start_region_recording
  BY <1>5, StartHolds
<1>6. CASE stop
  BY <1>6, StopHolds
<1>7. CASE close_window \/ perform_close_all_windows
  BY <1>7, CloseHolds
<1>8. CASE handle_escape
  BY <1>8, EscapeHolds
<1>9. CASE open_profile_settings \/ SettingsClosed
  BY <1>9, SettingsHolds
<1>10. CASE \E r \in DOMAIN recordings : RecorderStep(r) \/ CaptureLost(r)
  BY <1>10, RecorderStepHolds, LostHolds
<1>11. CASE handle_event
  BY <1>11, EventHolds
<1>12. CASE UNCHANGED vars
  <2> USE <1>12 DEF vars, windowVars, hotkeyVars, overlayVars, recorderVars
  <2>1. Held' /\ Fields'
    BY DEF IInv, Held, Fields
  <2>2. Channels' /\ Sender' /\ NoOrphan' /\ (lost = 0 => Talks')
    BY Calm
  <2>3. Quiet'
    BY <2>2 DEF IInv, Quiet, Escape, Clicks, Shown
  <2> QED BY <2>1, <2>2, <2>3 DEF IInv
<1> QED BY <1>1, <1>2, <1>3, <1>4, <1>5, <1>6, <1>7, <1>8, <1>9, <1>10, <1>11, <1>12 DEF Next

\* The inductive invariant holds of every behaviour of the capture application.
THEOREM CaptureInvariant == ASSUME CaptureAssumption PROVE Spec => []IInv
<1>1. Init => IInv
  BY InitHolds
<1>2. IInv /\ [Next]_vars => IInv'
  BY NextHolds
<1> QED BY <1>1, <1>2, PTL DEF Spec

\* However toolbars are opened and closed and whatever fails, a recording that
\* nobody has asked to stop can be stopped from the open toolbar (stop, DropSender).
THEOREM NoRecordingIsOrphaned == ASSUME CaptureAssumption PROVE Spec => []NoOrphan
<1>1. IInv => NoOrphan
  BY DEF IInv
<1> QED BY <1>1, CaptureInvariant, PTL

\* The Escape key, the overlays and the flag are given back with the toolbar, and
\* until a capture is lost Escape and the overlays follow its status
\* (register_escape_hotkey, close_selection_windows, close_windows).
THEOREM ToolbarLeavesNothing == ASSUME CaptureAssumption PROVE Spec => []NothingLeftBehind
<1>1. IInv => NothingLeftBehind
  <2> SUFFICES ASSUME IInv PROVE NothingLeftBehind
    OBVIOUS
  <2>1. EscapeGrabbed
    BY DEF IInv, Held, Quiet, Escape, EscapeGrabbed
  <2>2. NoStrayOverlay
    BY DEF IInv, Held, Quiet, Clicks, NoStrayOverlay
  <2>3. VisibleMeansToolbar
    BY DEF IInv, Held, VisibleMeansToolbar
  <2>4. TypeOK
    BY Typed
  <2> QED BY <2>1, <2>2, <2>3, <2>4 DEF NothingLeftBehind
<1> QED BY <1>1, CaptureInvariant, PTL

\* Only a click on an overlay starts a recording.
LEMMA OnlyStartsRecord ==
    ASSUME CaptureAssumption, IInv, IInv', [Next]_vars, Len(recordings') > Len(recordings)
    PROVE  start_display_recording \/ start_window_recording \/ start_region_recording
<1>1. recordings \in Seq(Recordings) /\ Len(recordings) \in Nat
  BY DEF IInv, Channels
<1>2. recordings' # recordings
  BY <1>1
<1>3. ~ \E r \in DOMAIN recordings : RecorderStep(r) \/ CaptureLost(r)
  <2> SUFFICES ASSUME NEW r \in DOMAIN recordings, RecorderStep(r) \/ CaptureLost(r) PROVE FALSE
    OBVIOUS
  <2>1. DOMAIN recordings' = DOMAIN recordings
    BY DEF RecorderStep, RecorderStarts, RecorderStops, RecorderUploads, CaptureLost
  <2>2. recordings' \in Seq(Recordings)
    BY DEF IInv, Channels
  <2> QED BY <1>1, <2>1, <2>2
<1>4. ~ (recordings' = DropSender(recordings))
  BY <1>1, Dropped
<1>5. ~ stop
  <2> SUFFICES ASSUME stop PROVE FALSE
    OBVIOUS
  <2>1. DOMAIN recordings' = DOMAIN recordings
    BY DEF stop
  <2>2. recordings' \in Seq(Recordings)
    BY DEF IInv, Channels
  <2> QED BY <1>1, <2>1, <2>2
<1>6. ~ (close_window \/ perform_close_all_windows \/ handle_escape \/ handle_event)
  BY <1>2, <1>4 DEF close_window, perform_close_all_windows, handle_escape, handle_event, escape,
     close_windows, Gone, Started, Uploading, Finished, Failed, recorderVars
<1>7. ~ (open_capture \/ PollWindows \/ update_window_snapshot \/ CloseOverlay \/ PressEscape
          \/ open_profile_settings \/ SettingsClosed \/ UNCHANGED vars)
  BY <1>2 DEF open_capture, PollWindows, update_window_snapshot, CloseOverlay, PressEscape,
     open_profile_settings, SettingsClosed, recorderVars, vars
<1>8. ~ (begin_region \/ drag_region \/ finish_region \/ set_region_field \/ hover_window
          \/ select_hovered_window \/ \E mode \in Modes : set_mode(mode))
  BY <1>2 DEF begin_region, drag_region, finish_region, set_region_field, hover_window,
     select_hovered_window, set_mode, SelectionOnly, recorderVars
<1> QED BY <1>3, <1>5, <1>6, <1>7, <1>8 DEF Next

\* The recording that a click makes is of spec.
LEMMA RecordsSpec ==
    ASSUME IInv, NEW a, NEW s, NEW spec, record(a, s, spec), Len(recordings') > Len(recordings)
    PROVE  recordings'[Len(recordings')].spec = spec
<1>1. recordings \in Seq(Recordings) /\ Len(recordings) \in Nat
  BY DEF IInv, Channels
<1>2. recordings' # recordings
  BY <1>1
<1>3. PICK remote \in BOOLEAN : recordings' = Append(recordings, Recording(spec, remote))
  BY <1>2 DEF record
<1>4. PICK c : c = Recording(spec, remote)
  OBVIOUS
<1>5. Len(recordings') = Len(recordings) + 1 /\ recordings'[Len(recordings) + 1] = c
  BY <1>1, <1>3, <1>4
<1>6. c.spec = spec
  BY <1>4 DEF Recording
<1> QED BY <1>5, <1>6

\* The overlays draw what the application would record, and until a capture is
\* lost what is recorded is what the overlay showed when its button was clicked
\* (SelectionState, set_mode, select_window, select_region, start_display_recording, start_window_recording,
\* start_region_recording).
THEOREM RecordedIsShown == ASSUME CaptureAssumption PROVE Spec => RecordsWhatIsShown
<1> DEFINE Records == LET spec == recordings'[Len(recordings')].spec IN
                      CASE app.mode = "Region" -> spec = selection.region
                        [] app.mode = "Window" -> spec = selection.hovered
                        [] OTHER -> spec \in Displays
<1>1. IInv /\ IInv' /\ [Next]_vars => [lost = 0 /\ Len(recordings') > Len(recordings) => Records]_vars
  <2> SUFFICES ASSUME IInv, IInv', [Next]_vars, lost = 0, Len(recordings') > Len(recordings)
               PROVE  Records
    OBVIOUS
  <2>1. PICK spec : spec = recordings'[Len(recordings')].spec
    OBVIOUS
  <2>2. selection.mode = app.mode
    BY DEF IInv, Fields
  <2>3. CASE start_display_recording
    <3>1. app.mode = "Display" /\ spec \in Displays
      BY <2>1, <2>2, <2>3, RecordsSpec DEF start_display_recording, Overlay
    <3> QED BY <2>1, <3>1
  <2>4. CASE start_window_recording
    <3>1. app.mode = "Window" /\ spec = selection.hovered
      BY <2>1, <2>2, <2>4, RecordsSpec DEF start_window_recording, Overlay
    <3> QED BY <2>1, <3>1
  <2>5. CASE start_region_recording
    <3>1. app.mode = "Region" /\ spec = app.region
      BY <2>1, <2>2, <2>5, RecordsSpec DEF start_region_recording, Overlay
    <3>2. app.region = selection.region
      BY <2>5 DEF start_region_recording, IInv, Quiet, Clicks
    <3> QED BY <2>1, <3>1, <3>2
  <2> QED BY <2>3, <2>4, <2>5, OnlyStartsRecord
<1>2. IInv => OverlayShowsSelection
  BY DEF IInv, Fields, Quiet, Clicks, OverlayShowsSelection
<1> QED BY <1>1, <1>2, CaptureInvariant, PTL DEF Spec, RecordsWhatIsShown

-----------------------------------------------------------------------------
(***************************************************************************)
(* The camera preview, for any cameras and any number of previews and of   *)
(* choices that wait in the menu's channel.                                *)
(***************************************************************************)
Known == Camera!Cardinality(Cameras)

\* The bounds as single facts.
LEMMA CameraBounds ==
    ASSUME Camera!CameraAssumption
    PROVE  /\ Known \in Nat /\ MaxPreviews \in Nat /\ MaxChoices \in Nat
           /\ MaxCycles \in Nat /\ MaxCameraFaults \in Nat
  <1>1. Known \in Nat
    BY DEF Camera!CameraAssumption, Known
  <1>2. MaxPreviews \in Nat /\ MaxChoices \in Nat /\ MaxCycles \in Nat /\ MaxCameraFaults \in Nat
    BY DEF Camera!CameraAssumption
  <1> QED
    BY <1>1, <1>2

\* A list of cameras is a sequence of them.
LEMMA ListType ==
    ASSUME Camera!CameraAssumption, NEW list \in Camera!Lists
    PROVE  /\ list \in Seq(Cameras) /\ DOMAIN list = 1..Len(list) /\ Len(list) \in 0..Known
  <1>1. PICK n \in 0..Known : list \in [1..n -> Cameras]
    <2>1. list \in UNION {[1..n -> Cameras] : n \in 0..Known}
      BY Zenon DEF Camera!Lists, Known
    <2> QED
      BY <2>1
  <1> QED
    BY <1>1, CameraBounds

\* Where a camera is in a list: 0, or a place that has it.
LEMMA PositionType ==
    ASSUME Camera!CameraAssumption, NEW list \in Camera!Lists, NEW id
    PROVE  \/ Camera!Position(list, id) = 0
           \/ Camera!Position(list, id) \in DOMAIN list /\ list[Camera!Position(list, id)] = id
  BY DEF Camera!Position

\* The previews with one of them replaced by one that is as open.
LEMMA PreviewReplaced ==
    ASSUME Camera!CameraAssumption, Camera!TypeOK, Camera!PreviewFollowsSelection,
           NEW p \in DOMAIN previews, NEW w \in Camera!PreviewType,
           w.device = previews[p].device, w.open => previews[p].open,
           previews' = [previews EXCEPT ![p] = w],
           UNCHANGED <<cameras, selected_camera, camera_window, menu, actions>>,
           cameraFaults' \in 0..MaxCameraFaults
    PROVE  Camera!TypeOK' /\ Camera!PreviewFollowsSelection'
  <1>1. /\ previews' \in Seq(Camera!PreviewType) /\ Len(previews') = Len(previews)
        /\ DOMAIN previews' = DOMAIN previews
        /\ \A q \in DOMAIN previews : previews'[q] = IF q = p THEN w ELSE previews[q]
    BY DEF Camera!TypeOK
  <1>2. Camera!TypeOK'
    BY <1>1 DEF Camera!TypeOK
  <1>3. Camera!PreviewFollowsSelection'
    BY <1>1 DEF Camera!PreviewFollowsSelection
  <1> QED
    BY <1>2, <1>3

\* A closed window: nothing of it is left open.
LEMMA WindowClosed ==
    ASSUME Camera!CameraAssumption, Camera!TypeOK, Camera!PreviewFollowsSelection
    PROVE  /\ Camera!CloseWindow \in Seq(Camera!PreviewType) /\ Len(Camera!CloseWindow) = Len(previews)
           /\ \A p \in 1..Len(previews) : ~Camera!CloseWindow[p].open
  <1>1. /\ previews \in Seq(Camera!PreviewType) /\ Len(previews) \in Nat
        /\ DOMAIN previews = 1..Len(previews) /\ camera_window \in 0..Len(previews)
    BY DEF Camera!TypeOK
  <1>2. CASE camera_window = 0
    BY <1>1, <1>2 DEF Camera!CloseWindow, Camera!PreviewFollowsSelection, Camera!PreviewType
  <1>3. CASE camera_window # 0
    <2>1. camera_window \in DOMAIN previews /\ previews[camera_window] \in Camera!PreviewType
      BY <1>1, <1>3
    <2>2. /\ Camera!Closed(camera_window) \in Camera!PreviewType
          /\ ~Camera!Closed(camera_window).open
      BY <2>1 DEF Camera!Closed, Camera!PreviewType
    <2> QED
      BY <1>1, <1>3, <2>1, <2>2 DEF Camera!CloseWindow, Camera!PreviewFollowsSelection, Camera!PreviewType
  <1> QED
    BY <1>2, <1>3

\* Choosing a camera, or none, closes the preview that is open and opens its own.
LEMMA SelectCamera ==
    ASSUME Camera!CameraAssumption, Camera!TypeOK, Camera!PreviewFollowsSelection, NEW i \in 0..Known,
           Camera!select_camera(i), UNCHANGED <<cameras, menu, cameraFaults>>,
           actions' \in Seq(0..Known), Len(actions') <= MaxChoices
    PROVE  Camera!TypeOK' /\ Camera!PreviewFollowsSelection'
  <1> DEFINE closed == Camera!CloseWindow
  <1>1. /\ closed \in Seq(Camera!PreviewType) /\ Len(closed) = Len(previews)
        /\ \A p \in 1..Len(previews) : ~closed[p].open
        /\ Len(previews) \in Nat /\ Len(previews) <= MaxPreviews
    BY WindowClosed DEF Camera!TypeOK
  <1> HIDE DEF closed
  <1>2. CASE /\ selected_camera' \in {i, 0} /\ camera_window' = 0 /\ previews' = closed
    <2>1. selected_camera' \in 0..Known /\ camera_window' \in 0..Len(previews')
      BY <1>1, <1>2, CameraBounds
    <2>2. Camera!TypeOK'
      BY <1>1, <1>2, <2>1 DEF Camera!TypeOK, Known
    <2>3. Camera!PreviewFollowsSelection'
      BY <1>1, <1>2 DEF Camera!PreviewFollowsSelection
    <2> QED
      BY <2>2, <2>3
  <1>3. CASE /\ i \in DOMAIN cameras /\ Len(previews) < MaxPreviews
             /\ selected_camera' = i /\ previews' = Append(closed, Camera!Preview(cameras[i]))
             /\ camera_window' = Len(previews')
    <2>1. cameras[i] \in Cameras
      BY <1>3, ListType DEF Camera!TypeOK
    <2>2. /\ Camera!Preview(cameras[i]) \in Camera!PreviewType
          /\ Camera!Preview(cameras[i]).device = cameras[i]
      BY <2>1, CameraBounds DEF Camera!Preview, Camera!PreviewType, Camera!Styles, Camera!Squirectangle
    <2>3. /\ previews' \in Seq(Camera!PreviewType) /\ Len(previews') = Len(previews) + 1
          /\ \A p \in 1..Len(previews) : previews'[p] = closed[p]
          /\ previews'[Len(previews) + 1] = Camera!Preview(cameras[i])
      BY <1>1, <1>3, <2>2
    <2>4. Camera!TypeOK'
      <3>1. camera_window' \in 0..Len(previews') /\ Len(previews') <= MaxPreviews
        BY <1>1, <1>3, <2>3, CameraBounds
      <3> QED
        BY <1>3, <2>3, <3>1 DEF Camera!TypeOK, Known
    <2>5. Camera!PreviewFollowsSelection'
      BY <1>1, <1>3, <2>2, <2>3 DEF Camera!PreviewFollowsSelection
    <2> QED
      BY <2>4, <2>5
  <1> QED
    BY <1>2, <1>3 DEF Camera!select_camera, closed

\* A new list of cameras: the chosen one is found again, or its preview is closed.
LEMMA SnapshotUpdated ==
    ASSUME Camera!CameraAssumption, Camera!TypeOK, Camera!PreviewFollowsSelection,
           Camera!update_camera_snapshot
    PROVE  Camera!TypeOK' /\ Camera!PreviewFollowsSelection'
  <1> DEFINE closed == Camera!CloseWindow
  <1>0. PICK list \in Camera!Lists : Camera!update_camera_snapshot!(list)
    BY DEF Camera!update_camera_snapshot
  <1> DEFINE now == IF selected_camera \in DOMAIN cameras
                    THEN Camera!Position(list, cameras[selected_camera]) ELSE 0
  <1>1. /\ closed \in Seq(Camera!PreviewType) /\ Len(closed) = Len(previews)
        /\ \A p \in 1..Len(previews) : ~closed[p].open
        /\ Len(previews) \in Nat /\ Len(previews) <= MaxPreviews
        /\ DOMAIN previews = 1..Len(previews)
    BY WindowClosed DEF Camera!TypeOK
  <1>2. /\ cameras' = list /\ selected_camera' = now
        /\ camera_window' = IF selected_camera # 0 /\ now = 0 THEN 0 ELSE camera_window
        /\ previews' = IF selected_camera # 0 /\ now = 0 THEN closed ELSE previews
        /\ UNCHANGED <<menu, actions, cameraFaults>>
    BY <1>0
  <1>3. /\ now \in 0..Known
        /\ now # 0 => /\ selected_camera \in DOMAIN cameras /\ now \in DOMAIN list
                      /\ list[now] = cameras[selected_camera]
    BY ListType, PositionType, CameraBounds
  <1> HIDE DEF closed, now
  <1>4. Camera!TypeOK'
    <2>1. /\ previews' \in Seq(Camera!PreviewType) /\ Len(previews') = Len(previews)
          /\ camera_window' \in 0..Len(previews')
      BY <1>1, <1>2 DEF Camera!TypeOK
    <2> QED
      BY <1>2, <1>3, <2>1 DEF Camera!TypeOK, Known
  <1>5. Camera!PreviewFollowsSelection'
    <2>1. CASE selected_camera # 0 /\ now = 0
      BY <1>1, <1>2, <2>1 DEF Camera!PreviewFollowsSelection
    <2>2. CASE now # 0
      BY <1>2, <1>3, <2>2 DEF Camera!PreviewFollowsSelection
    <2>3. CASE selected_camera = 0
      <3>1. selected_camera \notin DOMAIN cameras
        BY <2>3, ListType DEF Camera!TypeOK
      <3> QED
        BY <1>2, <2>3, <3>1 DEF Camera!PreviewFollowsSelection
    <2> QED
      BY <2>1, <2>2, <2>3
  <1> QED
    BY <1>4, <1>5

\* What the menu, the preview window and the actions of the menu do.
LEMMA AppStep ==
    ASSUME Camera!CameraAssumption, Camera!TypeOK, Camera!PreviewFollowsSelection,
           Camera!show_camera_menu \/ Camera!PickCamera \/ Camera!ClosePreview \/ Camera!CloseBehind
           \/ Camera!HandleAction
    PROVE  Camera!TypeOK' /\ Camera!PreviewFollowsSelection'
  <1>0. /\ actions \in Seq(0..Known) /\ Len(actions) \in Nat /\ Len(actions) <= MaxChoices
        /\ menu \in -1..Known /\ Known \in Nat /\ MaxChoices \in Nat
    BY CameraBounds DEF Camera!TypeOK, Known
  <1>1. ASSUME NEW i \in 0..Known
        PROVE  Append(actions, i) \in Seq(0..Known) /\ Len(Append(actions, i)) = Len(actions) + 1
    BY <1>0
  <1>2. ASSUME UNCHANGED <<Camera!appVars, previews, cameraFaults>>, menu' \in -1..Known,
               actions' \in Seq(0..Known), Len(actions') <= MaxChoices
        PROVE  Camera!TypeOK' /\ Camera!PreviewFollowsSelection'
    BY <1>2 DEF Camera!TypeOK, Camera!PreviewFollowsSelection, Camera!appVars, Known
  <1>3. CASE Camera!show_camera_menu
    <2>1. menu' \in -1..Known
      BY <1>0, <1>3, ListType DEF Camera!show_camera_menu, Camera!TypeOK
    <2> QED
      BY <1>0, <1>2, <1>3, <2>1 DEF Camera!show_camera_menu
  <1>4. CASE Camera!PickCamera
    <2>1. menu' \in -1..Known /\ \A i \in 0..menu : i \in 0..Known
      BY <1>0, <1>4 DEF Camera!PickCamera
    <2>2. actions' \in Seq(0..Known) /\ Len(actions') <= MaxChoices
      BY <1>0, <1>1, <1>4, <2>1, SMTT(30) DEF Camera!PickCamera
    <2> QED
      BY <1>2, <1>4, <2>1, <2>2 DEF Camera!PickCamera
  <1>5. CASE Camera!ClosePreview
    <2>1. actions' \in Seq(0..Known) /\ Len(actions') <= MaxChoices
      BY <1>0, <1>1, <1>5 DEF Camera!ClosePreview
    <2> QED
      BY <1>0, <1>2, <1>5, <2>1 DEF Camera!ClosePreview
  <1>6. CASE Camera!CloseBehind
    <2>1. PICK p \in DOMAIN previews :
             /\ previews' = [previews EXCEPT ![p] = Camera!Closed(p)]
             /\ UNCHANGED <<Camera!appVars, menu, actions, cameraFaults>>
      BY <1>6 DEF Camera!CloseBehind
    <2>2. previews[p] \in Camera!PreviewType
      BY DEF Camera!TypeOK
    <2>3. /\ Camera!Closed(p) \in Camera!PreviewType /\ ~Camera!Closed(p).open
          /\ Camera!Closed(p).device = previews[p].device
      BY <2>2 DEF Camera!Closed, Camera!PreviewType
    <2> QED
      BY <2>1, <2>3, PreviewReplaced DEF Camera!appVars, Camera!TypeOK
  <1>7. CASE Camera!HandleAction
    <2>1. /\ Head(actions) \in 0..Known
          /\ Tail(actions) \in Seq(0..Known) /\ Len(Tail(actions)) <= MaxChoices
      BY <1>0, <1>7 DEF Camera!HandleAction
    <2> QED
      BY <1>7, <2>1, SelectCamera DEF Camera!HandleAction
  <1> QED
    BY <1>3, <1>4, <1>5, <1>6, <1>7

\* A step of one preview changes neither its camera nor whether it is open.
LEMMA PreviewStep ==
    ASSUME Camera!CameraAssumption, Camera!TypeOK, Camera!PreviewFollowsSelection,
           NEW p \in DOMAIN previews,
           Camera!CameraFrame(p) \/ Camera!cycle_style(p) \/ Camera!CaptureStarted(p) \/ Camera!WorkerStep(p)
           \/ Camera!ShowFrame(p)
    PROVE  Camera!TypeOK' /\ Camera!PreviewFollowsSelection'
  <1>0. previews[p] \in Camera!PreviewType /\ cameraFaults \in 0..MaxCameraFaults /\ MaxCameraFaults \in Nat
    BY CameraBounds DEF Camera!TypeOK
  <1>1. ASSUME NEW w \in Camera!PreviewType, w.device = previews[p].device,
               w.open = previews[p].open, Camera!Update(p, w), cameraFaults' \in 0..MaxCameraFaults
        PROVE  Camera!TypeOK' /\ Camera!PreviewFollowsSelection'
    BY <1>1, PreviewReplaced DEF Camera!Update, Camera!appVars
  <1>2. CASE Camera!CameraFrame(p)
    BY <1>0, <1>1, <1>2 DEF Camera!CameraFrame, Camera!PreviewType
  <1>3. CASE Camera!cycle_style(p)
    <2>1. (previews[p].requested + 1) % 3 \in Camera!Styles /\ previews[p].cycles + 1 \in 0..MaxCycles
      BY <1>0, <1>3, CameraBounds DEF Camera!cycle_style, Camera!PreviewType, Camera!Styles
    <2> QED
      BY <1>0, <1>1, <1>3, <2>1 DEF Camera!cycle_style, Camera!PreviewType
  <1>4. CASE Camera!CaptureStarted(p)
    BY <1>0, <1>1, <1>4 DEF Camera!CaptureStarted, Camera!PreviewType
  <1>5. CASE Camera!WorkerStarts(p)
    <2>1. /\ [previews[p] EXCEPT !.worker = "recv"] \in Camera!PreviewType
          /\ [previews[p] EXCEPT !.worker = "ended", !.processed = "err"] \in Camera!PreviewType
      BY <1>0 DEF Camera!PreviewType
    <2>2. cameraFaults' \in 0..MaxCameraFaults
      BY <1>0, <1>5 DEF Camera!WorkerStarts
    <2> QED
      BY <1>0, <1>1, <1>5, <2>1, <2>2 DEF Camera!WorkerStarts, Camera!PreviewType
  <1>6. CASE Camera!WorkerReceives(p)
    BY <1>0, <1>1, <1>6 DEF Camera!WorkerReceives, Camera!PreviewType
  <1>7. CASE Camera!WorkerLoads(p)
    BY <1>0, <1>1, <1>7 DEF Camera!WorkerLoads, Camera!PreviewType
  <1>8. CASE Camera!WorkerRenders(p)
    <2>1. PICK next \in {"recv", "ended"} : Camera!WorkerRenders(p)!(next)
      BY <1>8 DEF Camera!WorkerRenders
    <2> DEFINE w == [previews[p] EXCEPT !.worker = next]
               good == [w EXCEPT !.processed = "ok", !.result = w.loaded]
               bad == [w EXCEPT !.processed = "err"]
    <2>2. /\ good \in Camera!PreviewType /\ bad \in Camera!PreviewType
          /\ good.device = previews[p].device /\ bad.device = previews[p].device
          /\ good.open = previews[p].open /\ bad.open = previews[p].open
      BY <1>0 DEF Camera!PreviewType
    <2>3. Camera!Update(p, good) \/ Camera!Update(p, bad)
      BY <2>1
    <2>4. cameraFaults' \in 0..MaxCameraFaults
      BY <1>0, <2>1
    <2> HIDE DEF good, bad
    <2> QED
      BY <1>1, <2>2, <2>3, <2>4
  <1>9. CASE Camera!ShowFrame(p)
    BY <1>0, <1>1, <1>9 DEF Camera!ShowFrame, Camera!PreviewType
  <1> QED
    BY <1>2, <1>3, <1>4, <1>5, <1>6, <1>7, <1>8, <1>9 DEF Camera!WorkerStep

\* Whichever cameras come and go and whatever is chosen meanwhile, the preview that is
\* open is that of the camera selected in the list, and there is one at most.
THEOREM SelectedCameraIsShown ==
    ASSUME Camera!CameraAssumption
    PROVE  Camera!Spec => []PreviewFollowsSelection
  <1> DEFINE Inv == Camera!TypeOK /\ Camera!PreviewFollowsSelection
  <1>1. Camera!Init => Inv
    <2> SUFFICES ASSUME Camera!Init PROVE Inv
      OBVIOUS
    <2>1. previews = << >> /\ actions = << >> /\ Len(<< >>) = 0
      BY DEF Camera!Init
    <2>2. Camera!TypeOK
      BY <2>1, CameraBounds DEF Camera!Init, Camera!TypeOK, Known
    <2>3. Camera!PreviewFollowsSelection
      BY <2>1 DEF Camera!PreviewFollowsSelection
    <2> QED
      BY <2>2, <2>3
  <1>2. Inv /\ [Camera!Next]_(Camera!vars) => Inv'
    <2> SUFFICES ASSUME Inv, [Camera!Next]_(Camera!vars) PROVE Inv'
      OBVIOUS
    <2>1. CASE UNCHANGED Camera!vars
      BY <2>1 DEF Camera!vars, Camera!appVars, Camera!TypeOK, Camera!PreviewFollowsSelection
    <2>2. CASE Camera!Next
      BY <2>2, AppStep, PreviewStep, SnapshotUpdated DEF Camera!Next
    <2> QED
      BY <2>1, <2>2
  <1>3. Inv => PreviewFollowsSelection
    BY DEF PreviewFollowsSelection
  <1> QED
    BY <1>1, <1>2, <1>3, PTL DEF Camera!Spec


-----------------------------------------------------------------------------
(***************************************************************************)
(* The geometry of a region, for a display of any width, any minimum size  *)
(* and any radius of the handles.                                          *)
(***************************************************************************)
\* A region on the display, up to the point that rounding adds for each press.
OnDisplay(r) == r.pos >= 0 /\ Region!Right(r) <= Width + 2 * gestures
EvenBounds(r) == r \in Region!Bounds /\ Region!Even(r.pos) /\ Region!Even(r.size)

\* What a drag remembers of the region it began with.
DragInv ==
    regionDrag.kind \in {"Move", "Resize"} =>
        /\ EvenBounds(regionDrag.original)
        /\ ~narrow => /\ regionDrag.original.size >= Minimum /\ regionDrag.original.pos >= 0
                      /\ Region!Right(regionDrag.original) + 2 <= Width + 2 * gestures

\* A drag begins inside the display.
StartInv == regionDrag # Region!NoDrag => regionDrag.start \in 0 .. Width /\ gestures > 0

\* Outside a drag a region under the minimum was typed.
SizeInv == regionDrag = Region!NoDrag /\ Region!Here(region) /\ ~narrow => region.size >= Minimum

\* A region that was resized is large enough, when the one it came from was, and
\* is on the display.
ResizedInv ==
    regionDrag.kind = "Resize" /\ Region!Here(region) =>
        LET original == regionDrag.original IN
        original.pos >= 0 /\ Region!Right(original) <= Width /\ original.size >= Minimum =>
            region.size >= Minimum

RegionInv ==
    /\ Region!TypeOK /\ DragInv /\ StartInv /\ SizeInv /\ ResizedInv
    /\ Region!RegionInside /\ Region!OppositeEdgeStays /\ Region!MoveKeepsSize

\* What rounding to an even number returns.
LEMMA RoundedType ==
    ASSUME NEW n \in Int
    PROVE  /\ Region!Rounded(n) \in Int /\ Region!Even(Region!Rounded(n))
           /\ n >= 0 => Region!Rounded(n) \in n .. n + 1
           /\ n < 0 => Region!Rounded(n) \in n - 1 .. n
           /\ Region!Even(n) => Region!Rounded(n) = n
  BY DEF Region!Rounded, Region!Even

\* Rounding place and size of a region moves its right edge by a point at most.
LEMMA RoundedRight ==
    ASSUME NEW a \in Int, NEW b \in Int, Region!Even(a + b), a >= 0 \/ b >= 0
    PROVE  /\ b >= 0 => Region!Rounded(a) + Region!Rounded(b) - (a + b) \in 0 .. 2
           /\ Region!Rounded(a) + Region!Rounded(b) <= a + b + 2
  BY DEF Region!Rounded, Region!Even

\* A handle is one of the three of an axis.
LEMMA HandleType ==
    ASSUME NEW x, NEW row \in {"top", "middle", "bottom", "off"}, NEW r,
           NEW handle \in Region!region_handle_at(x, row, r)
    PROVE  handle \in Region!Handles
  <1>1. \A i \in DOMAIN Region!region_handle_points(row) :
           Region!region_handle_points(row)[i] \in Region!Handles
    BY DEF Region!region_handle_points, Region!Handles
  <1> QED
    BY <1>1 DEF Region!region_handle_at

\* What each gesture makes of a region, rounded.
LEMMA CreatedBounds ==
    ASSUME Region!RegionAssumption, NEW a \in 0 .. Width, NEW x \in 0 .. Width
    PROVE  LET r == Region!rounded_bounds(Region!normalized_bounds(a, x))
           IN  EvenBounds(r) /\ r.pos >= 0 /\ Region!Right(r) <= Width + 2
  <1> DEFINE pos == Region!Least(a, x)
             size == Region!Distance(a, x)
  <1>1. pos \in Nat /\ size \in Nat /\ pos + size <= Width
    BY DEF Region!RegionAssumption, Region!Least, Region!Greatest, Region!Distance
  <1> HIDE DEF pos, size
  <1>2. /\ Region!Rounded(pos) \in Int /\ Region!Even(Region!Rounded(pos)) /\ Region!Rounded(pos) \in pos .. pos + 1
        /\ Region!Rounded(size) \in Int /\ Region!Even(Region!Rounded(size))
        /\ Region!Rounded(size) \in size .. size + 1
    BY <1>1, RoundedType
  <1>3. Region!rounded_bounds(Region!normalized_bounds(a, x))
           = [pos |-> Region!Rounded(pos), size |-> Region!Rounded(size)]
    BY DEF Region!rounded_bounds, Region!normalized_bounds, pos, size
  <1> QED
    BY <1>1, <1>2, <1>3 DEF EvenBounds, Region!Bounds, Region!Right, Region!RegionAssumption

\* A region moved: as large as it was, and on the display up to the rounding.
LEMMA MovedBounds ==
    ASSUME Region!RegionAssumption, NEW o, EvenBounds(o), NEW x \in Int, NEW start \in Int
    PROVE  LET r == Region!rounded_bounds(Region!moved_bounds(o, x, start))
           IN  /\ EvenBounds(r) /\ r.size = o.size
               /\ r.pos >= 0 /\ (Region!Right(r) <= Width + 2 \/ Region!Right(r) <= o.size + 2)
  <1> DEFINE pos == Region!Least(Region!Greatest(o.pos + x - start, 0), Region!Greatest(Width - o.size, 0))
  <1>0. o.pos \in Int /\ o.size \in Int /\ Region!Even(o.size) /\ Width \in Nat
    BY DEF EvenBounds, Region!Bounds, Region!RegionAssumption
  <1>1. pos \in Nat /\ (pos + o.size <= Width \/ pos = 0)
    BY <1>0 DEF Region!Least, Region!Greatest
  <1>2. Region!moved_bounds(o, x, start) = [pos |-> pos, size |-> o.size]
    BY DEF Region!moved_bounds, EvenBounds, Region!Bounds
  <1> HIDE DEF pos
  <1>3. /\ Region!Rounded(pos) \in Int /\ Region!Even(Region!Rounded(pos)) /\ Region!Rounded(pos) \in pos .. pos + 1
        /\ Region!Rounded(o.size) = o.size
    BY <1>0, <1>1, RoundedType
  <1>4. Region!rounded_bounds(Region!moved_bounds(o, x, start)) = [pos |-> Region!Rounded(pos), size |-> o.size]
    BY <1>2, <1>3 DEF Region!rounded_bounds
  <1> QED
    BY <1>0, <1>1, <1>3, <1>4 DEF EvenBounds, Region!Bounds, Region!Right

\* A region resized at its start: the right edge moves by the rounding alone.
LEMMA ResizedStart ==
    ASSUME Region!RegionAssumption, NEW o, EvenBounds(o), NEW x \in Int, NEW start \in Int
    PROVE  LET r == Region!rounded_bounds(Region!resized_bounds(o, "Start", x, start))
           IN  /\ EvenBounds(r) /\ r.size >= Minimum
               /\ Region!Right(r) - Region!Right(o) \in 0 .. 2
               /\ o.size >= Minimum /\ o.pos >= 0 => r.pos >= 0
  <1> DEFINE right == Region!Right(o)
             left == Region!Least(Region!Greatest(o.pos + x - start, 0), right - Minimum)
             size == right - left
  <1>0. /\ o.pos \in Int /\ o.size \in Int /\ right \in Int /\ Region!Even(right)
        /\ Width \in Nat /\ Minimum \in Nat /\ right = o.pos + o.size
    BY DEF EvenBounds, Region!Bounds, Region!RegionAssumption, Region!Right, Region!Even
  <1>1. Region!resized_bounds(o, "Start", x, start) = [pos |-> left, size |-> size]
    BY DEF Region!resized_bounds
  <1> HIDE DEF right
  <1>2. /\ left \in Int /\ size \in Int /\ size >= Minimum /\ left + size = right
        /\ right - Minimum >= 0 => left >= 0
    BY <1>0 DEF Region!Least, Region!Greatest
  <1> HIDE DEF left, size
  <1>3. /\ Region!Rounded(left) \in Int /\ Region!Even(Region!Rounded(left)) /\ (left >= 0 => Region!Rounded(left) >= 0)
        /\ Region!Rounded(size) \in Int /\ Region!Even(Region!Rounded(size)) /\ Region!Rounded(size) >= size
        /\ Region!Rounded(left) + Region!Rounded(size) - right \in 0 .. 2
    <2>1. Region!Even(left + size) /\ size >= 0
      BY <1>0, <1>2
    <2>2. Region!Rounded(left) + Region!Rounded(size) - (left + size) \in 0 .. 2
      BY <1>2, <2>1, RoundedRight
    <2> QED
      BY <1>2, <2>1, <2>2, RoundedType
  <1>4. Region!rounded_bounds(Region!resized_bounds(o, "Start", x, start))
           = [pos |-> Region!Rounded(left), size |-> Region!Rounded(size)]
    BY <1>1 DEF Region!rounded_bounds
  <1>5. o.size >= Minimum /\ o.pos >= 0 => left >= 0
    BY <1>0, <1>2
  <1> QED
    BY <1>0, <1>2, <1>3, <1>4, <1>5 DEF EvenBounds, Region!Bounds, Region!Right, right

\* A region resized at its end: the left edge does not move.
LEMMA ResizedEnd ==
    ASSUME Region!RegionAssumption, NEW o, EvenBounds(o), NEW x \in Int, NEW start \in Int
    PROVE  LET r == Region!rounded_bounds(Region!resized_bounds(o, "End", x, start))
           IN  /\ EvenBounds(r) /\ r.pos = o.pos /\ Region!Right(r) <= Width + 2
               /\ o.pos + Minimum <= Width => r.size >= Minimum
  <1> DEFINE right == Region!Least(Region!Greatest(Region!Right(o) + x - start, o.pos + Minimum), Width)
             size == right - o.pos
  <1>0. /\ o.pos \in Int /\ o.size \in Int /\ Region!Right(o) \in Int /\ Region!Even(o.pos)
        /\ Width \in Nat /\ Minimum \in Nat /\ o = [pos |-> o.pos, size |-> o.size]
    BY DEF EvenBounds, Region!Bounds, Region!RegionAssumption, Region!Right, Region!Even
  <1>1. Region!resized_bounds(o, "End", x, start) = [pos |-> o.pos, size |-> size]
    BY <1>0 DEF Region!resized_bounds
  <1>2. /\ right \in Int /\ size \in Int /\ right <= Width /\ right = o.pos + size
        /\ o.pos + Minimum <= Width => size >= Minimum
    BY <1>0 DEF Region!Least, Region!Greatest
  <1> HIDE DEF right, size
  <1>3. /\ Region!Rounded(o.pos) = o.pos
        /\ Region!Rounded(size) \in Int /\ Region!Even(Region!Rounded(size)) /\ Region!Rounded(size) <= size + 1
        /\ size >= 0 => Region!Rounded(size) >= size
    BY <1>0, <1>2, RoundedType
  <1>4. Region!rounded_bounds(Region!resized_bounds(o, "End", x, start))
           = [pos |-> o.pos, size |-> Region!Rounded(size)]
    BY <1>1, <1>3 DEF Region!rounded_bounds
  <1> QED
    BY <1>0, <1>2, <1>3, <1>4 DEF EvenBounds, Region!Bounds, Region!Right

\* A handle between the edges leaves the region alone.
LEMMA ResizedMiddle ==
    ASSUME NEW o, EvenBounds(o), NEW x, NEW start
    PROVE  Region!rounded_bounds(Region!resized_bounds(o, "Middle", x, start)) = o
  <1>1. o.pos \in Int /\ o.size \in Int /\ Region!Even(o.pos) /\ Region!Even(o.size)
        /\ o = [pos |-> o.pos, size |-> o.size]
    BY DEF EvenBounds, Region!Bounds
  <1>2. Region!resized_bounds(o, "Middle", x, start) = o
    BY DEF Region!resized_bounds
  <1> QED
    BY <1>1, <1>2, RoundedType DEF Region!rounded_bounds

\* A drag from one point to the next.
LEMMA DragRegion ==
    ASSUME Region!RegionAssumption, RegionInv, NEW x \in 0 .. Width, Region!drag_region(x)
    PROVE  RegionInv'
  <1> USE DEF RegionInv
  <1>0. /\ regionDrag # Region!NoDrag /\ region' = Region!rounded_bounds(Region!Dragged(x))
        /\ UNCHANGED <<chosen, regionDrag, narrow, gestures>>
        /\ regionDrag.start \in 0 .. Width /\ regionDrag.start \in Int /\ x \in Int /\ Width \in Nat
        /\ gestures \in Nat /\ gestures > 0 /\ MaxGestures \in Nat /\ Minimum \in Nat
    BY DEF Region!drag_region, StartInv, Region!TypeOK, Region!RegionAssumption
  <1>1. /\ DragInv' /\ StartInv' /\ SizeInv'
        /\ \A r \in {chosen} : Region!Here(r) => EvenBounds(r)
    BY <1>0 DEF DragInv, StartInv, SizeInv, Region!TypeOK, EvenBounds
  <1>2. ASSUME EvenBounds(region') PROVE Region!TypeOK'
    BY <1>0, <1>2 DEF Region!TypeOK, EvenBounds
  <1>3. CASE regionDrag.kind = "Create"
    <2>1. EvenBounds(region') /\ region'.pos >= 0 /\ Region!Right(region') <= Width + 2
      BY <1>0, <1>3, CreatedBounds DEF Region!Dragged
    <2>2. Region!Right(region') \in Int
      BY <2>1 DEF EvenBounds, Region!Bounds, Region!Right
    <2> QED
      BY <1>0, <1>1, <1>2, <1>3, <2>1, <2>2
         DEF ResizedInv, Region!RegionInside, Region!OppositeEdgeStays, Region!MoveKeepsSize
  <1> DEFINE o == regionDrag.original
  <1>4. CASE regionDrag.kind = "Move"
    <2>1. EvenBounds(o)
      BY <1>4 DEF DragInv
    <2>2. /\ EvenBounds(region') /\ region'.size = o.size /\ region'.pos >= 0
          /\ Region!Right(region') <= Width + 2 \/ Region!Right(region') <= o.size + 2
      BY <1>0, <1>4, <2>1, MovedBounds DEF Region!Dragged
    <2>3. /\ Region!Right(region') \in Int /\ o.size \in Int /\ o.pos \in Int
          /\ Region!Right(o) = o.pos + o.size
      BY <2>1, <2>2 DEF EvenBounds, Region!Bounds, Region!Right
    <2>4. ~narrow => o.pos >= 0 /\ Region!Right(o) + 2 <= Width + 2 * gestures
      BY <1>4 DEF DragInv
    <2>5. ~narrow => Region!Right(region') <= Width + 2 * gestures
      BY <1>0, <2>2, <2>3, <2>4
    <2> QED
      BY <1>0, <1>1, <1>2, <1>4, <2>2, <2>5
         DEF ResizedInv, Region!RegionInside, Region!OppositeEdgeStays, Region!MoveKeepsSize
  <1>5. CASE regionDrag.kind = "Resize"
    <2>1. EvenBounds(o) /\ regionDrag.handle \in Region!Handles
      BY <1>5 DEF DragInv, Region!TypeOK, Region!Drags, Region!NoDrag
    <2>2. region' = Region!rounded_bounds(Region!resized_bounds(o, regionDrag.handle, x, regionDrag.start))
      BY <1>0, <1>5 DEF Region!Dragged
    <2>3. /\ o.size \in Int /\ o.pos \in Int /\ Region!Right(o) = o.pos + o.size /\ Region!Right(o) \in Int
      BY <2>1 DEF EvenBounds, Region!Bounds, Region!Right
    <2>4. ~narrow => /\ o.pos >= 0 /\ Region!Right(o) + 2 <= Width + 2 * gestures /\ o.size >= Minimum
      BY <1>5 DEF DragInv
    <2>5. /\ EvenBounds(region')
          /\ regionDrag.handle = "Start" => Region!Right(region') - Region!Right(o) \in 0 .. 2
          /\ regionDrag.handle = "End" => region'.pos = o.pos
          /\ ~narrow => region'.pos >= 0 /\ Region!Right(region') <= Width + 2 * gestures
          /\ o.pos >= 0 /\ Region!Right(o) <= Width /\ o.size >= Minimum => region'.size >= Minimum
      <3>1. CASE regionDrag.handle = "Start"
        <4>1. /\ EvenBounds(region') /\ region'.size >= Minimum
              /\ Region!Right(region') - Region!Right(o) \in 0 .. 2
              /\ o.size >= Minimum /\ o.pos >= 0 => region'.pos >= 0
          BY <1>0, <2>1, <2>2, <3>1, ResizedStart
        <4>2. Region!Right(region') \in Int
          BY <4>1 DEF EvenBounds, Region!Bounds, Region!Right
        <4> QED
          BY <1>0, <2>3, <2>4, <3>1, <4>1, <4>2
      <3>2. CASE regionDrag.handle = "End"
        <4>1. /\ EvenBounds(region') /\ region'.pos = o.pos /\ Region!Right(region') <= Width + 2
              /\ o.pos + Minimum <= Width => region'.size >= Minimum
          BY <1>0, <2>1, <2>2, <3>2, ResizedEnd
        <4>2. Region!Right(region') \in Int
          BY <4>1 DEF EvenBounds, Region!Bounds, Region!Right
        <4> QED
          BY <1>0, <2>3, <2>4, <3>2, <4>1, <4>2
      <3>3. CASE regionDrag.handle = "Middle"
        <4>1. region' = o
          BY <2>1, <2>2, <3>3, ResizedMiddle
        <4> QED
          BY <1>0, <2>1, <2>3, <2>4, <3>3, <4>1
      <3> QED
        BY <2>1, <3>1, <3>2, <3>3 DEF Region!Handles
    <2> QED
      BY <1>0, <1>1, <1>2, <1>5, <2>5
         DEF ResizedInv, Region!RegionInside, Region!OppositeEdgeStays, Region!MoveKeepsSize
  <1> QED
    BY <1>0, <1>3, <1>4, <1>5 DEF Region!TypeOK, Region!Drags, Region!NoDrag

\* A press.
LEMMA BeginRegion ==
    ASSUME Region!RegionAssumption, RegionInv, NEW x \in 0 .. Width,
           NEW row \in {"top", "middle", "bottom", "off"}, NEW level \in BOOLEAN,
           Region!begin_region(x, row, level)
    PROVE  RegionInv'
  <1> USE DEF RegionInv
  <1>0. /\ gestures < MaxGestures /\ gestures' = gestures + 1 /\ UNCHANGED chosen
        /\ narrow' = (narrow \/ (Region!Here(region) /\ region.size < Minimum))
        /\ gestures \in Nat /\ MaxGestures \in Nat /\ Width \in Nat /\ Minimum \in Nat /\ x \in Int
        /\ narrow \in BOOLEAN
    BY DEF Region!begin_region, Region!TypeOK, Region!RegionAssumption
  <1>1. CASE regionDrag' = [kind |-> "Create", start |-> x] /\ region' = NoRegion
    <2>1. Region!TypeOK'
      BY <1>0, <1>1 DEF Region!TypeOK, Region!Drags, Region!Here
    <2>2. DragInv' /\ StartInv' /\ SizeInv' /\ ResizedInv'
      BY <1>0, <1>1 DEF DragInv, StartInv, SizeInv, ResizedInv, Region!NoDrag, Region!Here
    <2>3. Region!RegionInside' /\ Region!OppositeEdgeStays' /\ Region!MoveKeepsSize'
      BY <1>1 DEF Region!RegionInside, Region!OppositeEdgeStays, Region!MoveKeepsSize, Region!Here
    <2> QED
      BY <2>1, <2>2, <2>3
  <1>2. ASSUME Region!Here(region), UNCHANGED region,
               \/ regionDrag' = [kind |-> "Move", start |-> x, original |-> region]
               \/ \E handle \in Region!Handles :
                     regionDrag' = [kind |-> "Resize", handle |-> handle, start |-> x, original |-> region]
        PROVE  RegionInv'
    <2>1. /\ EvenBounds(region) /\ region.pos \in Int /\ region.size \in Int
          /\ Region!Right(region) = region.pos + region.size /\ Region!Right(region) \in Int
      BY <1>2 DEF Region!TypeOK, EvenBounds, Region!Bounds, Region!Right
    <2>2. /\ regionDrag' \in Region!Drags /\ regionDrag' # Region!NoDrag /\ regionDrag'.original = region /\ regionDrag'.start = x
          /\ regionDrag'.kind \in {"Move", "Resize"}
      BY <1>0, <1>2, <2>1 DEF Region!Drags, Region!NoDrag, EvenBounds
    <2>3. ~narrow' => /\ region.size >= Minimum /\ region.pos >= 0
                      /\ Region!Right(region) <= Width + 2 * gestures
      <3>1. ~narrow' => ~narrow /\ ~(region.size < Minimum)
        BY <1>0, <1>2, Zenon
      <3>2. ~narrow => region.pos >= 0 /\ Region!Right(region) <= Width + 2 * gestures
        BY <1>2 DEF Region!RegionInside
      <3>3. ~(region.size < Minimum) => region.size >= Minimum
        BY <1>0, <2>1
      <3> QED
        BY <3>1, <3>2, <3>3
    <2>4. Region!TypeOK'
      BY <1>0, <1>2, <2>2 DEF Region!TypeOK
    <2>5. DragInv'
      <3>1. ~narrow' => Region!Right(region) + 2 <= Width + 2 * gestures'
        BY <1>0, <2>1, <2>3
      <3> QED
        BY <2>1, <2>2, <2>3, <3>1 DEF DragInv, EvenBounds
    <2>6. StartInv' /\ SizeInv' /\ ResizedInv'
      BY <1>0, <1>2, <2>2 DEF StartInv, SizeInv, ResizedInv
    <2>7. Region!RegionInside'
      BY <1>0, <1>2, <2>1, <2>3 DEF Region!RegionInside
    <2>8. Region!OppositeEdgeStays' /\ Region!MoveKeepsSize'
      BY <1>2, <2>1, <2>2 DEF Region!OppositeEdgeStays, Region!MoveKeepsSize
    <2> QED
      BY <2>4, <2>5, <2>6, <2>7, <2>8
  <1> DEFINE handles == IF Region!Here(region) THEN Region!region_handle_at(x, row, region) ELSE {}
  <1>3. handles \subseteq Region!Handles /\ (handles # {} => Region!Here(region))
    BY HandleType
  <1> HIDE DEF handles
  <1>4. \/ regionDrag' = [kind |-> "Create", start |-> x] /\ region' = NoRegion
        \/ /\ Region!Here(region) /\ UNCHANGED region
           /\ \/ regionDrag' = [kind |-> "Move", start |-> x, original |-> region]
              \/ \E handle \in Region!Handles :
                    regionDrag' = [kind |-> "Resize", handle |-> handle, start |-> x, original |-> region]
    <2>1. CASE handles # {}
      BY <1>3, <2>1 DEF Region!begin_region, handles
    <2>2. CASE handles = {}
      BY <2>2 DEF Region!begin_region, handles
    <2> QED
      BY <2>1, <2>2
  <1> QED
    BY <1>1, <1>2, <1>4

\* The release: what is too small is dropped.
LEMMA FinishRegion ==
    ASSUME Region!RegionAssumption, RegionInv, Region!finish_region
    PROVE  RegionInv'
  <1> USE DEF RegionInv
  <1>0. /\ regionDrag' = Region!NoDrag /\ UNCHANGED <<narrow, gestures>> /\ gestures \in Nat
        /\ Minimum \in Int
    BY DEF Region!finish_region, Region!TypeOK, Region!RegionAssumption
  <1>1. \/ region' = NoRegion /\ UNCHANGED chosen
        \/ /\ UNCHANGED region /\ chosen' \in {chosen, region}
           /\ Region!Here(region) => ~(region.size < Minimum)
    BY DEF Region!finish_region, Region!select_region, Region!Here
  <1>2. Region!TypeOK'
    BY <1>0, <1>1 DEF Region!TypeOK, Region!Drags, Region!Here
  <1>3. Region!Here(region) => region.size \in Int
    BY DEF Region!TypeOK, Region!Bounds
  <1>4. DragInv' /\ StartInv' /\ ResizedInv' /\ Region!OppositeEdgeStays' /\ Region!MoveKeepsSize'
    BY <1>0 DEF DragInv, StartInv, ResizedInv, Region!OppositeEdgeStays, Region!MoveKeepsSize, Region!NoDrag
  <1>5. SizeInv' /\ Region!RegionInside'
    BY <1>0, <1>1, <1>3 DEF SizeInv, Region!RegionInside, Region!Here
  <1> QED
    BY <1>2, <1>4, <1>5

\* Another display, or another mode: there is no region here any more.
LEMMA RegionGone ==
    ASSUME Region!RegionAssumption, RegionInv, Region!SelectElsewhere \/ Region!set_mode
    PROVE  RegionInv'
  <1> USE DEF RegionInv
  <1>0. /\ region' \in {NoRegion, Elsewhere} /\ chosen' \in {NoRegion, Elsewhere}
        /\ regionDrag' \in {regionDrag, Region!NoDrag} /\ UNCHANGED narrow
        /\ gestures \in Nat /\ gestures' \in {gestures, gestures + 1} /\ gestures' \in 0 .. MaxGestures
        /\ Width \in Nat
    BY DEF Region!SelectElsewhere, Region!set_mode, Region!select_region, Region!TypeOK, Region!RegionAssumption
  <1>1. ~Region!Here(region') /\ ~Region!Here(chosen')
    BY <1>0 DEF Region!Here
  <1>2. Region!TypeOK'
    BY <1>0, <1>1 DEF Region!TypeOK, Region!Drags
  <1>3. DragInv' /\ StartInv'
    <2>1. CASE regionDrag' = Region!NoDrag
      BY <2>1 DEF DragInv, StartInv, Region!NoDrag
    <2>2. CASE regionDrag' = regionDrag
      <3>1. StartInv'
        BY <1>0, <2>2 DEF StartInv
      <3>2. ASSUME regionDrag.kind \in {"Move", "Resize"}
            PROVE  Region!Right(regionDrag.original) \in Int
        BY <3>2 DEF DragInv, EvenBounds, Region!Bounds, Region!Right
      <3> QED
        BY <1>0, <2>2, <3>1, <3>2 DEF DragInv, EvenBounds
    <2> QED
      BY <1>0, <2>1, <2>2
  <1>4. SizeInv' /\ ResizedInv' /\ Region!RegionInside' /\ Region!OppositeEdgeStays' /\ Region!MoveKeepsSize'
    BY <1>1 DEF SizeInv, ResizedInv, Region!RegionInside, Region!OppositeEdgeStays, Region!MoveKeepsSize
  <1> QED
    BY <1>2, <1>3, <1>4

\* What a typed field makes of a region.
LEMMA FieldBounds ==
    ASSUME Region!RegionAssumption, EvenBounds(region), NEW value \in Int, Region!Even(value)
    PROVE  /\ LET r == [region EXCEPT !.pos = Region!Least(Region!Greatest(value, 0),
                                                        Region!Greatest(Width - region.size, 0))]
              IN  /\ EvenBounds(r) /\ r.size = region.size /\ r.pos >= 0
                  /\ Region!Right(r) <= Width \/ r.pos = 0
           /\ LET r == [region EXCEPT !.size = Region!Least(Region!Greatest(value, 2),
                                                         Region!Greatest(Width - region.pos, 2))]
              IN  /\ EvenBounds(r) /\ r.pos = region.pos /\ r.size >= 2
                  /\ Region!Right(r) <= Width \/ r.size = 2
  <1>0. /\ region.pos \in Int /\ region.size \in Int /\ Width \in Int
        /\ Region!Even(Width - region.pos) /\ Region!Even(Width - region.size)
        /\ Region!Even(region.pos) /\ Region!Even(region.size) /\ Region!Even(0) /\ Region!Even(2)
        /\ region = [pos |-> region.pos, size |-> region.size]
    BY DEF Region!RegionAssumption, EvenBounds, Region!Bounds, Region!Even
  <1> DEFINE p == Region!Least(Region!Greatest(value, 0), Region!Greatest(Width - region.size, 0))
             s == Region!Least(Region!Greatest(value, 2), Region!Greatest(Width - region.pos, 2))
  <1>1. /\ p \in Int /\ Region!Even(p) /\ p >= 0 /\ (p + region.size <= Width \/ p = 0)
    BY <1>0 DEF Region!Least, Region!Greatest
  <1>2. /\ s \in Int /\ Region!Even(s) /\ s >= 2 /\ (region.pos + s <= Width \/ s = 2)
    BY <1>0 DEF Region!Least, Region!Greatest
  <1> HIDE DEF p, s
  <1>3. /\ [region EXCEPT !.pos = p] = [pos |-> p, size |-> region.size]
        /\ [region EXCEPT !.size = s] = [pos |-> region.pos, size |-> s]
    BY <1>0
  <1>4. /\ EvenBounds([pos |-> p, size |-> region.size])
        /\ EvenBounds([pos |-> region.pos, size |-> s])
    BY <1>0, <1>1, <1>2 DEF EvenBounds, Region!Bounds
  <1> QED
    BY <1>0, <1>1, <1>2, <1>3, <1>4 DEF Region!Right, p, s

\* A number typed into a field.
LEMMA TypedField ==
    ASSUME Region!RegionAssumption, RegionInv, NEW field \in {"X", "Width"},
           NEW value \in Int, Region!Even(value), Region!set_region_field(field, value)
    PROVE  RegionInv'
  <1> USE DEF RegionInv
  <1>0. /\ gestures < MaxGestures /\ gestures' = gestures + 1 /\ UNCHANGED regionDrag
        /\ Region!Here(region) /\ regionDrag = Region!NoDrag /\ chosen' = region'
        /\ narrow' = (narrow \/ region'.size < Minimum)
        /\ gestures \in Nat /\ MaxGestures \in Nat /\ Width \in Nat /\ Minimum \in Nat /\ Minimum >= 2
        /\ narrow \in BOOLEAN
    BY DEF Region!set_region_field, Region!select_region, Region!TypeOK, Region!RegionAssumption
  <1>1. /\ EvenBounds(region) /\ region.pos \in Int /\ region.size \in Int
        /\ Region!Right(region) = region.pos + region.size
    BY <1>0 DEF Region!TypeOK, EvenBounds, Region!Bounds, Region!Right
  <1>2. /\ EvenBounds(region')
        /\ \/ /\ region'.size = region.size /\ region'.pos >= 0
              /\ Region!Right(region') <= Width \/ region'.pos = 0
           \/ /\ region'.pos = region.pos /\ region'.size >= 2
              /\ Region!Right(region') <= Width \/ region'.size = 2
    BY <1>1, FieldBounds DEF Region!set_region_field, Region!select_region
  <1>3. /\ region'.pos \in Int /\ region'.size \in Int /\ Region!Right(region') = region'.pos + region'.size
    BY <1>2 DEF EvenBounds, Region!Bounds, Region!Right
  <1>4. ~narrow' => ~narrow /\ ~(region'.size < Minimum)
    BY <1>0, Zenon
  <1>5. ~narrow => /\ region.size >= Minimum /\ region.pos >= 0
                   /\ Region!Right(region) <= Width + 2 * gestures
    BY <1>0 DEF SizeInv, Region!RegionInside
  <1>6. ~narrow => region'.pos >= 0 /\ Region!Right(region') <= Width + 2 * gestures'
    BY <1>0, <1>1, <1>2, <1>3, <1>5
  <1>7. Region!TypeOK'
    BY <1>0, <1>2 DEF Region!TypeOK, EvenBounds
  <1>8. DragInv' /\ StartInv' /\ ResizedInv' /\ Region!OppositeEdgeStays' /\ Region!MoveKeepsSize'
    BY <1>0 DEF DragInv, StartInv, ResizedInv, Region!OppositeEdgeStays, Region!MoveKeepsSize, Region!NoDrag
  <1>9. SizeInv' /\ Region!RegionInside'
    BY <1>0, <1>3, <1>4, <1>6 DEF SizeInv, Region!RegionInside
  <1> QED
    BY <1>7, <1>8, <1>9

\* At first there is no region and no drag.
LEMMA RegionInit ==
    ASSUME Region!RegionAssumption, Region!Init
    PROVE  RegionInv
  <1>1. /\ region = NoRegion /\ chosen = NoRegion /\ regionDrag = Region!NoDrag /\ gestures = 0 /\ narrow = FALSE
        /\ regionDrag.kind = "none" /\ MaxGestures \in Nat
    BY DEF Region!Init, Region!NoDrag, Region!RegionAssumption
  <1>2. ~Region!Here(region) /\ ~Region!Here(chosen)
    BY <1>1 DEF Region!Here
  <1>3. Region!TypeOK
    <2>1. \A r \in {region, chosen} : ~Region!Here(r)
      BY <1>2
    <2>2. regionDrag \in Region!Drags
      BY <1>1 DEF Region!Drags
    <2>3. narrow \in BOOLEAN
      BY <1>1, Zenon
    <2>4. gestures \in 0 .. MaxGestures
      BY <1>1
    <2> QED
      BY <2>1, <2>2, <2>3, <2>4 DEF Region!TypeOK
  <1>4. DragInv /\ StartInv /\ SizeInv /\ ResizedInv
    BY <1>1, <1>2 DEF DragInv, StartInv, SizeInv, ResizedInv
  <1>5. Region!RegionInside /\ Region!OppositeEdgeStays /\ Region!MoveKeepsSize
    BY <1>1, <1>2 DEF Region!RegionInside, Region!OppositeEdgeStays, Region!MoveKeepsSize
  <1> QED
    BY <1>3, <1>4, <1>5 DEF RegionInv

\* Every step.
LEMMA RegionStep ==
    ASSUME Region!RegionAssumption, RegionInv, [Region!Next]_(Region!vars)
    PROVE  RegionInv'
  <1>1. CASE UNCHANGED Region!vars
    BY <1>1 DEF Region!vars, RegionInv, DragInv, StartInv, SizeInv, ResizedInv, EvenBounds,
                Region!TypeOK, Region!RegionInside, Region!OppositeEdgeStays, Region!MoveKeepsSize
  <1>2. CASE Region!Next
    <2>1. ASSUME NEW x \in 0 .. Width, NEW row \in {"top", "middle", "bottom", "off"},
                 NEW level \in BOOLEAN, Region!begin_region(x, row, level)
          PROVE  RegionInv'
      BY <2>1, BeginRegion
    <2>2. ASSUME NEW x \in 0 .. Width, Region!drag_region(x) PROVE RegionInv'
      BY <2>2, DragRegion
    <2>3. CASE Region!finish_region
      BY <2>3, FinishRegion
    <2>4. CASE Region!SelectElsewhere \/ Region!set_mode
      BY <2>4, RegionGone
    <2>5. ASSUME NEW field \in {"X", "Width"}, NEW value \in {n \in -2 .. Width + 2 : Region!Even(n)},
                 Region!set_region_field(field, value)
          PROVE  RegionInv'
      <3>1. value \in Int /\ Region!Even(value)
        BY DEF Region!RegionAssumption
      <3> QED
        BY <2>5, <3>1, TypedField
    <2> QED
      BY <1>2, <2>1, <2>2, <2>3, <2>4, <2>5 DEF Region!Next
  <1> QED
    BY <1>1, <1>2

\* Whatever the gestures on the overlay, the region stays on its display, a dragged
\* edge leaves the opposite one where it was up to a point, and a move keeps the size.
THEOREM RegionHolds ==
    ASSUME Region!RegionAssumption
    PROVE  Region!Spec => [](/\ Region!TypeOK /\ Region!RegionInside
                          /\ Region!OppositeEdgeStays /\ Region!MoveKeepsSize)
  <1>1. Region!Init => RegionInv
    BY RegionInit
  <1>2. RegionInv /\ [Region!Next]_(Region!vars) => RegionInv'
    BY RegionStep
  <1>3. RegionInv => /\ Region!TypeOK /\ Region!RegionInside /\ Region!OppositeEdgeStays /\ Region!MoveKeepsSize
    BY DEF RegionInv
  <1> QED
    BY <1>1, <1>2, <1>3, PTL DEF Region!Spec

\* The release after a resize keeps a region that was on its display and large enough.
THEOREM ResizeKeepsRegion ==
    ASSUME Region!RegionAssumption
    PROVE  Region!Spec => Region!ResizeKeepsRegion
  <1> DEFINE Kept ==
        regionDrag.kind = "Resize" /\ regionDrag' = Region!NoDrag /\ gestures' = gestures /\ Region!Here(region)
        /\ chosen' # NoRegion =>
           LET original == regionDrag.original IN
           original.pos >= 0 /\ Region!Right(original) <= Width /\ original.size >= Minimum =>
              Region!Here(region') /\ region'.size >= Minimum /\ chosen' = region'
  <1>1. Region!Init => RegionInv
    BY RegionInit
  <1>2. RegionInv /\ [Region!Next]_(Region!vars) => RegionInv'
    BY RegionStep
  <1>3. RegionInv /\ [Region!Next]_(Region!vars) => [Kept]_(Region!vars)
    <2> SUFFICES ASSUME RegionInv, [Region!Next]_(Region!vars), regionDrag.kind = "Resize", regionDrag' = Region!NoDrag,
                        gestures' = gestures, Region!Here(region), chosen' # NoRegion,
                        regionDrag.original.pos >= 0, Region!Right(regionDrag.original) <= Width,
                        regionDrag.original.size >= Minimum
                 PROVE  Region!Here(region') /\ region'.size >= Minimum /\ chosen' = region'
      BY DEF Kept
    <2>1. region.size >= Minimum /\ region.size \in Int /\ Minimum \in Int /\ gestures \in Int
      BY DEF RegionInv, ResizedInv, Region!TypeOK, Region!Bounds, Region!RegionAssumption
    <2>2. regionDrag' # regionDrag
      BY DEF Region!NoDrag
    <2>3. Region!finish_region
      BY <2>1, <2>2 DEF Region!Next, Region!vars, Region!begin_region, Region!drag_region, Region!SelectElsewhere,
                        Region!set_mode, Region!set_region_field, Region!NoDrag
    <2> QED
      BY <2>1, <2>3 DEF Region!finish_region, Region!select_region, Region!Here
  <1> QED
    BY <1>1, <1>2, <1>3, PTL DEF Region!Spec, Region!ResizeKeepsRegion

\* Whatever is created, dragged and typed, a region stays on its display and keeps its
\* opposite edge, or its size, and a resize never loses it.
THEOREM RegionIsKept ==
    ASSUME Region!RegionAssumption
    PROVE  Region!Spec => OppositeEdgeStays
  BY RegionHolds, ResizeKeepsRegion, PTL DEF OppositeEdgeStays


-----------------------------------------------------------------------------
(***************************************************************************)
(* The recording profiles, for any servers and tokens and any number of    *)
(* profiles, edits, links and failing saves.                               *)
(***************************************************************************)
\* A property of numbers, given as the set of those that have it: one that holds of
\* 0 and passes from each number to the next holds of all.
LEMMA Counting ==
    ASSUME NEW n \in Nat, NEW S, 0 \in S, \A i \in 0 .. n - 1 : i \in S => i + 1 \in S
    PROVE  \A i \in 0 .. n : i \in S
  <1> DEFINE T == {i \in 0 .. n : i \notin S}
             B == {0 .. i : i \in T}
             R == StrictSubsetOrdering(0 .. n)
  <1>1. SUFFICES ASSUME T # {} PROVE FALSE
    OBVIOUS
  <1>2. IsWellFoundedOn(R, FiniteSubsetsOf(0 .. n))
    BY FS_StrictSubsetOrderingWellFounded
  <1>3. B \subseteq FiniteSubsetsOf(0 .. n) /\ B # {}
    <2>1. \A i \in T : IsFiniteSet(0 .. i) /\ 0 .. i \subseteq 0 .. n
      BY FS_Interval
    <2> QED BY <1>1, <2>1 DEF FiniteSubsetsOf
  <1>4. PICK x \in B : \A y \in B : <<y, x>> \notin R
    <2> HIDE DEF B, R
    <2> QED BY <1>2, <1>3, WFMin
  <1>5. PICK i \in T : x = 0 .. i
    OBVIOUS
  <1>6. i - 1 \in T /\ i - 1 < i /\ i \in Nat
    OBVIOUS
  <1>7. 0 .. (i - 1) \in B /\ 0 .. (i - 1) \subseteq 0 .. i /\ 0 .. (i - 1) # 0 .. i /\ 0 .. i \subseteq 0 .. n
    BY <1>6
  <1>8. <<0 .. (i - 1), 0 .. i>> \in R
    BY <1>7 DEF StrictSubsetOrdering
  <1> QED BY <1>4, <1>5, <1>7, <1>8

\* A set of numbers that is not empty has a smallest one.
LEMMA SmallestOne ==
    ASSUME NEW n \in Nat, NEW S, S \subseteq 1 .. n, S # {}
    PROVE  \E i \in S : \A j \in S : i <= j
  <1> DEFINE T == {k \in 0 .. n : \A j \in S : j > k}
  <1>1. SUFFICES ASSUME \A i \in S : \E j \in S : j < i PROVE FALSE
    OBVIOUS
  <1>2. 0 \in T
    OBVIOUS
  <1>3. \A k \in 0 .. n - 1 : k \in T => k + 1 \in T
    <2> SUFFICES ASSUME NEW k \in 0 .. n - 1, \A j \in S : j > k, k + 1 \in S PROVE FALSE
      OBVIOUS
    <2> QED
      BY <1>1
  <1>4. n \in T
    <2> HIDE DEF T
    <2> QED
      BY <1>2, <1>3, Counting
  <1>5. PICK i : i \in S
    OBVIOUS
  <1>6. i > n
    BY <1>4, <1>5
  <1> QED
    BY <1>5, <1>6

\* What an import makes of n links, one after the other.
Steps(g, n, first, links) ==
    g = [k \in 0 .. n |-> IF k = 0 THEN first ELSE Profile!import_url(g[k - 1], links[k])]

\* The function that imports the links of a list one after the other exists.
LEMMA StepsExist ==
    ASSUME NEW first, NEW links, NEW n \in Nat
    PROVE  \E g : Steps(g, n, first, links)
  <1> DEFINE S == {m \in 0 .. n : \E g : Steps(g, m, first, links)}
  <1>1. 0 \in S
    <2>1. Steps([k \in 0 .. 0 |-> first], 0, first, links)
      BY DEF Steps
    <2> QED
      BY <2>1
  <1>2. \A m \in 0 .. n - 1 : m \in S => m + 1 \in S
    <2> SUFFICES ASSUME NEW m \in 0 .. n - 1, NEW g, Steps(g, m, first, links)
                 PROVE  \E h : Steps(h, m + 1, first, links)
      OBVIOUS
    <2> DEFINE h == [k \in 0 .. m + 1 |-> IF k = m + 1 THEN Profile!import_url(g[m], links[k]) ELSE g[k]]
    <2>1. \A k \in 0 .. m : h[k] = g[k]
      OBVIOUS
    <2>2. \A k \in 0 .. m : g[k] = IF k = 0 THEN first ELSE Profile!import_url(g[k - 1], links[k])
      BY Zenon DEF Steps
    <2>3. \A k \in 0 .. m + 1 :
             h[k] = IF k = 0 THEN first ELSE Profile!import_url(h[k - 1], links[k])
      <3> SUFFICES ASSUME NEW k \in 0 .. m + 1
                   PROVE  h[k] = IF k = 0 THEN first ELSE Profile!import_url(h[k - 1], links[k])
        OBVIOUS
      <3>1. CASE k = m + 1
        <4>1. h[k] = Profile!import_url(g[m], links[k]) /\ k # 0
          BY <3>1
        <4>2. k - 1 = m /\ m \in 0 .. m
          BY <3>1
        <4> HIDE DEF h
        <4>3. h[k - 1] = g[m]
          BY <4>2, <2>1
        <4> QED
          BY <4>1, <4>3
      <3>2. CASE k \in 0 .. m
        <4>1. h[k] = g[k]
          BY <3>2, <2>1
        <4>2. CASE k = 0
          BY <4>1, <4>2, <2>2, <3>2
        <4>3. CASE k # 0
          <5>1. k - 1 \in 0 .. m
            BY <3>2, <4>3
          <5>2. h[k - 1] = g[k - 1]
            BY <5>1, <2>1
          <5> HIDE DEF h
          <5> QED
            BY <4>1, <4>3, <5>2, <2>2, <3>2
        <4> QED
          BY <4>2, <4>3
      <3> QED
        BY <3>1, <3>2
    <2>4. h = [k \in 0 .. m + 1 |-> h[k]]
      OBVIOUS
    <2> HIDE DEF h
    <2>5. Steps(h, m + 1, first, links)
      BY <2>3, <2>4 DEF Steps
    <2> QED
      BY <2>5
  <1>3. n \in S
    <2> HIDE DEF S
    <2> QED
      BY <1>1, <1>2, Counting
  <1> QED
    BY <1>3

\* The import is the last of its steps (import_profile_urls).
LEMMA ImportIsSteps ==
    ASSUME NEW links, Len(links) \in Nat
    PROVE  \E g : /\ Steps(g, Len(links), [ok |-> TRUE, list |-> Profile!load(disk), made |-> made], links)
                  /\ Profile!Imported(links) = g[Len(links)]
  <1> DEFINE first == [ok |-> TRUE, list |-> Profile!load(disk), made |-> made]
             P(g) == g = [k \in 0 .. Len(links) |->
                            IF k = 0 THEN first ELSE Profile!import_url(g[k - 1], links[k])]
             st == CHOOSE g : P(g)
  <1>1. \E g : P(g)
    <2> HIDE DEF first
    <2>1. \E g : Steps(g, Len(links), first, links)
      BY StepsExist
    <2> QED
      BY <2>1, Zenon DEF Steps
  <1>2. P(st)
    BY <1>1, Zenon
  <1>3. Profile!Imported(links) = st[Len(links)]
    BY Zenon DEF Profile!Imported
  <1> QED
    BY <1>2, <1>3, Zenon DEF Steps

-----------------------------------------------------------------------------
(* Lists of profiles. *)

\* A profile that can be recorded with but for its token.
Fit(p) ==
    /\ p.named
    /\ IF p.remote THEN p.format # "bundle" /\ p.text.base \in Servers
       ELSE p.format # "hls" /\ p.text.base # "empty"
GoodList(list) ==
    /\ list \in Profile!Lists
    /\ Profile!HasSelected(list)
    /\ \A i \in DOMAIN list.profiles : Fit(list.profiles[i])
\* The profiles of list begin with those that the ids name.
Names(ids, list) == \A i \in DOMAIN ids : i \in DOMAIN list.profiles /\ list.profiles[i].id = ids[i]
IdsOf(list) == [i \in DOMAIN list.profiles |-> list.profiles[i].id]

\* A profile is fit if it is valid with its token or with any (validate).
LEMMA FitMeans ==
    ASSUME NEW p \in Profile!Profs
    PROVE  Fit(p) = (Profile!validate(p) \/ (p.remote /\ Profile!validate([p EXCEPT !.text.token = "any"])))
  <1>1. p.text \in Profile!Texts /\ p.remote \in BOOLEAN /\ p.named \in BOOLEAN
    BY DEF Profile!Profs, Profile!PlainTexts
  <1> DEFINE q == [p EXCEPT !.text.token = "any"]
  <1>2. /\ q.named = p.named /\ q.remote = p.remote /\ q.format = p.format
        /\ q.text.base = p.text.base /\ q.text.token = "any"
    BY <1>1 DEF Profile!Profs, Profile!Texts
  <1>3. "any" # Profile!NoToken
    BY DEF Profile!NoToken
  <1> HIDE DEF q
  <1>4. Profile!validate(p) => Fit(p)
    BY DEF Profile!validate, Fit
  <1>5. Profile!validate(q) => Fit(p)
    BY <1>2 DEF Profile!validate, Fit
  <1>6. Fit(p) => Profile!validate(p) \/ (p.remote /\ Profile!validate(q))
    BY <1>2, <1>3 DEF Profile!validate, Fit
  <1>7. q = [p EXCEPT !.text.token = "any"]
    BY DEF q
  <1>8. Fit(p) \in BOOLEAN /\ Profile!validate(p) \in BOOLEAN /\ Profile!validate(q) \in BOOLEAN
    BY <1>1, <1>2 DEF Fit, Profile!validate
  <1> QED
    BY <1>1, <1>4, <1>5, <1>6, <1>7, <1>8

\* Some texts and profiles that the code makes.
LEMMA TextsArePlain ==
    ASSUME Profile!ProfilesAssumption
    PROVE  /\ \A base \in Profile!Bases : Profile!Text(base) \in Profile!PlainTexts
           /\ Profile!Desktop \in Profile!PlainTexts /\ Profile!Desktop.base = "words"
           /\ Profile!OwnServer \in Servers
  <1>1. \A base \in Profile!Bases : Profile!Text(base) \in Profile!PlainTexts
    BY DEF Profile!Text, Profile!PlainTexts, Profile!Texts, Profile!NoToken
  <1>2. Profile!Desktop \in Profile!PlainTexts /\ Profile!Desktop.base = "words"
    BY DEF Profile!Desktop, Profile!Text, Profile!PlainTexts, Profile!Texts, Profile!NoToken, Profile!Bases
  <1>3. Profile!OwnServer \in Servers
    BY DEF Profile!OwnServer, Profile!ProfilesAssumption
  <1> QED
    BY <1>1, <1>2, <1>3

\* A profile that is made has the type of profiles and the id it was given.
LEMMA ProfileType ==
    ASSUME NEW id \in 1 .. MaxProfiles, NEW remote \in BOOLEAN, NEW text \in Profile!PlainTexts
    PROVE  /\ Profile!Profile(id, remote, text) \in Profile!Profs
           /\ Profile!Profile(id, remote, text).id = id
  BY DEF Profile!Profile, Profile!Profs

\* The default profiles are a good list (RecordingProfiles::default).
LEMMA DefaultIsGood ==
    ASSUME Profile!ProfilesAssumption
    PROVE  GoodList(Profile!Default) /\ 1 \in DOMAIN Profile!Default.profiles
  <1> DEFINE list == Profile!Default
             make(i) == Profile!Profile(i, FALSE, Profile!Desktop)
  <1>1. MaxDefaults \in Nat /\ 1 <= MaxDefaults /\ MaxDefaults <= MaxProfiles /\ MaxProfiles \in Nat
    BY DEF Profile!ProfilesAssumption
  <1>2. list.profiles = [i \in 1 .. MaxDefaults |-> make(i)] /\ list.selected = 1
    BY DEF Profile!Default
  <1>3. \A i \in 1 .. MaxDefaults : make(i) \in Profile!Profs /\ make(i).id = i
    <2> SUFFICES ASSUME NEW i \in 1 .. MaxDefaults PROVE make(i) \in Profile!Profs /\ make(i).id = i
      OBVIOUS
    <2>1. i \in 1 .. MaxProfiles /\ FALSE \in BOOLEAN /\ Profile!Desktop \in Profile!PlainTexts
      BY <1>1, TextsArePlain
    <2> QED
      BY <2>1, ProfileType
  <1>4. \A i \in 1 .. MaxDefaults : Fit(make(i))
    BY TextsArePlain DEF Profile!Profile, Fit
  <1> HIDE DEF make
  <1>5. list.profiles \in Seq(Profile!Profs) /\ DOMAIN list.profiles = 1 .. MaxDefaults
    <2>1. \A i \in 1 .. MaxDefaults : make(i) \in Profile!Profs
      BY <1>3
    <2> QED
      BY <1>1, <1>2, <2>1, IsASeq
  <1>6. list \in Profile!Lists
    <2>1. list = [profiles |-> list.profiles, selected |-> list.selected]
      BY DEF Profile!Default
    <2> HIDE DEF list
    <2> QED
      BY <1>1, <1>2, <1>5, <2>1 DEF Profile!Lists
  <1>7. Profile!HasSelected(list)
    <2> HIDE DEF list
    <2>1. 1 \in DOMAIN list.profiles /\ list.profiles[1].id = 1
      BY <1>1, <1>2, <1>3, <1>5
    <2> QED
      BY <1>2, <2>1 DEF Profile!HasSelected, Profile!Ids
  <1>8. \A i \in DOMAIN list.profiles : Fit(list.profiles[i])
    <2> HIDE DEF list
    <2> QED
      BY <1>2, <1>4, <1>5
  <1> QED
    BY <1>1, <1>5, <1>6, <1>7, <1>8 DEF GoodList

\* A list keeps its ids and its selected profile when one of its profiles is changed.
LEMMA ReplaceKeeps ==
    ASSUME NEW list \in Profile!Lists, NEW i \in DOMAIN list.profiles, NEW q \in Profile!Profs,
           q.id = list.profiles[i].id
    PROVE  LET new == [list EXCEPT !.profiles[i] = q]
           IN  /\ new \in Profile!Lists /\ new.selected = list.selected
               /\ DOMAIN new.profiles = DOMAIN list.profiles
               /\ \A j \in DOMAIN list.profiles :
                     new.profiles[j] = (IF j = i THEN q ELSE list.profiles[j])
               /\ IdsOf(new) = IdsOf(list)
  <1> DEFINE new == [list EXCEPT !.profiles[i] = q]
  <1>1. list = [profiles |-> list.profiles, selected |-> list.selected]
        /\ list.profiles \in Seq(Profile!Profs) /\ list.selected \in 1 .. MaxProfiles
    BY DEF Profile!Lists
  <1>2. new = [profiles |-> [list.profiles EXCEPT ![i] = q], selected |-> list.selected]
    BY <1>1
  <1>3. [list.profiles EXCEPT ![i] = q] \in Seq(Profile!Profs)
    BY <1>1, ExceptSeq
  <1> HIDE DEF new
  <1>4. new \in Profile!Lists /\ new.selected = list.selected
    BY <1>1, <1>2, <1>3 DEF Profile!Lists
  <1>5. /\ DOMAIN new.profiles = DOMAIN list.profiles
        /\ \A j \in DOMAIN list.profiles :
              new.profiles[j] = (IF j = i THEN q ELSE list.profiles[j])
    BY <1>1, <1>2
  <1>6. IdsOf(new) = IdsOf(list)
    BY <1>5 DEF IdsOf
  <1> QED
    BY <1>4, <1>5, <1>6 DEF new

\* The ids of a list say whether it has its selected profile.
LEMMA SelectedByIds ==
    ASSUME NEW list, NEW new, IdsOf(new) = IdsOf(list), new.selected = list.selected
    PROVE  Profile!HasSelected(list) => Profile!HasSelected(new)
  <1>1. DOMAIN new.profiles = DOMAIN list.profiles
        /\ \A j \in DOMAIN list.profiles : new.profiles[j].id = list.profiles[j].id
    <2>1. DOMAIN IdsOf(new) = DOMAIN IdsOf(list)
          /\ \A j \in DOMAIN IdsOf(list) : IdsOf(new)[j] = IdsOf(list)[j]
      OBVIOUS
    <2> QED
      BY <2>1 DEF IdsOf
  <1> QED
    BY <1>1 DEF Profile!HasSelected, Profile!Ids

\* A list keeps its profiles when one is added at its end.
LEMMA AppendKeeps ==
    ASSUME NEW list \in Profile!Lists, NEW p \in Profile!Profs, NEW selected \in 1 .. MaxProfiles
    PROVE  LET new == [profiles |-> Append(list.profiles, p), selected |-> selected]
               n == Len(list.profiles)
           IN  /\ new \in Profile!Lists /\ n \in Nat
               /\ DOMAIN new.profiles = 1 .. n + 1 /\ DOMAIN list.profiles = 1 .. n
               /\ new.profiles[n + 1] = p
               /\ \A j \in DOMAIN list.profiles : new.profiles[j] = list.profiles[j]
  <1>1. list.profiles \in Seq(Profile!Profs)
    BY DEF Profile!Lists
  <1>2. Append(list.profiles, p) \in Seq(Profile!Profs)
    BY <1>1
  <1> QED
    BY <1>1, <1>2, AppendProperties DEF Profile!Lists

\* A list that loses one of several profiles keeps the others.
LEMMA RemoveKeeps ==
    ASSUME NEW list \in Profile!Lists, NEW i \in DOMAIN list.profiles, Len(list.profiles) > 1
    PROVE  LET rest == Profile!RemoveAt(list.profiles, i)
               n == Len(list.profiles)
           IN  /\ rest \in Seq(Profile!Profs) /\ n \in Nat /\ Len(rest) = n - 1
               /\ DOMAIN list.profiles = 1 .. n /\ DOMAIN rest = 1 .. n - 1
               /\ \A j \in 1 .. n - 1 :
                     rest[j] = (IF j < i THEN list.profiles[j] ELSE list.profiles[j + 1])
  <1> DEFINE s == list.profiles
             n == Len(s)
             head == SubSeq(s, 1, i - 1)
             tail == SubSeq(s, i + 1, n)
  <1>1. s \in Seq(Profile!Profs) /\ n \in Nat /\ DOMAIN s = 1 .. n /\ i \in 1 .. n
    BY DEF Profile!Lists
  <1> HIDE DEF s, n
  <1>2. /\ head \in Seq(Profile!Profs) /\ Len(head) = i - 1
        /\ \A j \in 1 .. i - 1 : head[j] = s[j]
    BY <1>1
  <1>3. /\ tail \in Seq(Profile!Profs) /\ Len(tail) = n - i
        /\ \A j \in 1 .. n - i : tail[j] = s[i + j]
    BY <1>1, SMTT(30)
  <1>4. Profile!RemoveAt(s, i) = head \o tail
    BY DEF Profile!RemoveAt, n
  <1> HIDE DEF head, tail
  <1>5. /\ head \o tail \in Seq(Profile!Profs) /\ Len(head \o tail) = n - 1
        /\ \A j \in 1 .. n - 1 : (head \o tail)[j] = IF j < i THEN s[j] ELSE s[j + 1]
    <2>1. head \o tail \in Seq(Profile!Profs) /\ Len(head \o tail) = n - 1
      <3>1. head \o tail \in Seq(Profile!Profs) /\ Len(head \o tail) = Len(head) + Len(tail)
        BY <1>2, <1>3, ConcatProperties
      <3> QED
        BY <1>1, <1>2, <1>3, <3>1
    <2>2. \A j \in 1 .. n - 1 :
             (head \o tail)[j] = IF j <= i - 1 THEN head[j] ELSE tail[j - (i - 1)]
      BY <1>1, <1>2, <1>3, SMTT(30)
    <2>3. \A j \in 1 .. n - 1 : j <= i - 1 => head[j] = s[j]
      BY <1>1, <1>2
    <2>4. \A j \in 1 .. n - 1 : j > i - 1 => tail[j - (i - 1)] = s[j + 1]
      <3> SUFFICES ASSUME NEW j \in 1 .. n - 1, j > i - 1 PROVE tail[j - (i - 1)] = s[j + 1]
        OBVIOUS
      <3>1. j - (i - 1) \in 1 .. n - i /\ i + (j - (i - 1)) = j + 1
        BY <1>1
      <3> QED
        BY <1>3, <3>1
    <2> QED
      BY <1>1, <2>1, <2>2, <2>3, <2>4, SMTT(30)
  <1> QED
    <2>1. /\ Profile!RemoveAt(s, i) \in Seq(Profile!Profs) /\ n \in Nat
          /\ Len(Profile!RemoveAt(s, i)) = n - 1 /\ DOMAIN s = 1 .. n
          /\ \A j \in 1 .. n - 1 :
                Profile!RemoveAt(s, i)[j] = (IF j < i THEN s[j] ELSE s[j + 1])
      BY <1>1, <1>4, <1>5
    <2>2. DOMAIN Profile!RemoveAt(s, i) = 1 .. n - 1
      BY <2>1
    <2> QED
      BY <2>1, <2>2, Zenon DEF s, n

-----------------------------------------------------------------------------
(* The settings window. *)

SettingsType == [open : BOOLEAN, mine : BOOLEAN, list : Profile!Lists, index : Nat,
                 inputs : Profile!InputTexts, error : {"none", "last", "refused"}]
Usable(s) ==
    s \in SettingsType /\ s.index \in DOMAIN s.list.profiles /\ Profile!HasSelected(s.list)
Belongs(s) == s.inputs.of = s.list.profiles[s.index].id

\* The inputs that show a profile have the type of inputs (load_inputs).
LEMMA InputsType ==
    ASSUME Profile!ProfilesAssumption, NEW p \in Profile!Profs
    PROVE  Profile!Inputs(p) \in Profile!InputTexts /\ Profile!Inputs(p).of = p.id
  <1> DEFINE text == IF p.remote THEN Profile!Text(p.text.base) ELSE p.text
             token == IF p.remote THEN p.text.token ELSE Profile!NoToken
  <1>1. /\ p.text \in Profile!PlainTexts /\ p.text.base \in Profile!Bases
        /\ p.text.token \in Tokens \cup {Profile!NoToken}
        /\ p.named \in BOOLEAN /\ p.id \in 1 .. MaxProfiles /\ MaxProfiles \in Nat
    BY DEF Profile!Profs, Profile!PlainTexts, Profile!Texts, Profile!ProfilesAssumption
  <1>2. text \in Profile!PlainTexts /\ token \in Tokens \cup {Profile!NoToken}
    BY <1>1, TextsArePlain
  <1>3. Profile!Inputs(p) = [named |-> p.named, of |-> p.id, text |-> text, token |-> token]
    BY DEF Profile!Inputs, Profile!split_server_url
  <1> HIDE DEF text, token
  <1> QED
    BY <1>1, <1>2, <1>3 DEF Profile!InputTexts

\* The inputs that are loaded belong to the profile that is shown (load_inputs).
LEMMA LoadedInputs ==
    ASSUME Profile!ProfilesAssumption, NEW s \in SettingsType, s.index \in DOMAIN s.list.profiles
    PROVE  LET l == Profile!load_inputs(s)
           IN  /\ l \in SettingsType /\ Belongs(l)
               /\ l.list = s.list /\ l.index = s.index /\ l.open = s.open /\ l.mine = s.mine
  <1> DEFINE p == s.list.profiles[s.index]
             l == Profile!load_inputs(s)
  <1>1. p \in Profile!Profs
    BY ElementOfSeq DEF SettingsType, Profile!Lists
  <1>2. Profile!Inputs(p) \in Profile!InputTexts /\ Profile!Inputs(p).of = p.id
    BY <1>1, InputsType
  <1>3. l = [s EXCEPT !.inputs = Profile!Inputs(p), !.error = "none"]
    BY DEF Profile!load_inputs
  <1> HIDE DEF l
  <1>4. /\ l \in SettingsType /\ l.inputs = Profile!Inputs(p)
        /\ l.list = s.list /\ l.index = s.index /\ l.open = s.open /\ l.mine = s.mine
    BY <1>2, <1>3 DEF SettingsType
  <1>5. Belongs(l)
    BY <1>2, <1>4 DEF Belongs
  <1> QED
    BY <1>4, <1>5 DEF l

\* A profile of the list that is changed leaves the window usable.
LEMMA ChangedProfile ==
    ASSUME NEW s, Usable(s), NEW q \in Profile!Profs, q.id = s.list.profiles[s.index].id
    PROVE  LET c == [s EXCEPT !.list.profiles[s.index] = q]
           IN  /\ Usable(c) /\ IdsOf(c.list) = IdsOf(s.list)
               /\ DOMAIN c.list.profiles = DOMAIN s.list.profiles
               /\ c.list.profiles[s.index] = q /\ c.list.selected = s.list.selected
               /\ c.index = s.index /\ c.open = s.open /\ c.mine = s.mine /\ c.inputs = s.inputs
  <1> DEFINE new == [s.list EXCEPT !.profiles[s.index] = q]
             c == [s EXCEPT !.list.profiles[s.index] = q]
  <1>1. s \in SettingsType /\ s.list \in Profile!Lists /\ s.index \in DOMAIN s.list.profiles
    BY DEF Usable, SettingsType
  <1>2. /\ new \in Profile!Lists /\ new.selected = s.list.selected
        /\ DOMAIN new.profiles = DOMAIN s.list.profiles /\ new.profiles[s.index] = q
        /\ IdsOf(new) = IdsOf(s.list)
    BY <1>1, ReplaceKeeps
  <1>3. c = [s EXCEPT !.list = new]
    BY <1>1 DEF SettingsType
  <1> HIDE DEF new, c
  <1>4. /\ c \in SettingsType /\ c.list = new
        /\ c.index = s.index /\ c.open = s.open /\ c.mine = s.mine /\ c.inputs = s.inputs
    BY <1>1, <1>2, <1>3 DEF SettingsType
  <1>5. Profile!HasSelected(new)
    BY <1>2, SelectedByIds DEF Usable
  <1> QED
    BY <1>1, <1>2, <1>4, <1>5 DEF Usable, c

\* Writing the inputs to their profile keeps its id and its side (commit_inputs).
LEMMA CommitKeeps ==
    ASSUME Profile!ProfilesAssumption, NEW s, Usable(s)
    PROVE  LET c == Profile!commit_inputs(s)
           IN  /\ Usable(c) /\ IdsOf(c.list) = IdsOf(s.list)
               /\ DOMAIN c.list.profiles = DOMAIN s.list.profiles /\ c.list.selected = s.list.selected
               /\ c.index = s.index /\ c.open = s.open /\ c.mine = s.mine /\ c.inputs = s.inputs
  <1> DEFINE p == s.list.profiles[s.index]
             text == IF p.remote THEN Profile!join_server_url(s.inputs.text, s.inputs.token)
                     ELSE s.inputs.text
             q == [p EXCEPT !.named = s.inputs.named, !.text = text]
  <1>1. p \in Profile!Profs
    BY ElementOfSeq DEF Usable, SettingsType, Profile!Lists
  <1>2. s.inputs.named \in BOOLEAN /\ s.inputs.text \in Profile!PlainTexts
        /\ s.inputs.token \in Tokens \cup {Profile!NoToken}
    BY DEF Usable, SettingsType, Profile!InputTexts
  <1>3. Profile!join_server_url(s.inputs.text, s.inputs.token) \in Profile!PlainTexts
    <2>1. s.inputs.text.base \in Profile!Bases /\ "words" \in Profile!Bases
      BY <1>2 DEF Profile!PlainTexts, Profile!Texts, Profile!Bases
    <2>2. CASE Profile!Parses(s.inputs.text.base)
      <3>1. [base |-> s.inputs.text.base, token |-> s.inputs.token] \in Profile!PlainTexts
        BY <1>2, <2>1, <2>2 DEF Profile!PlainTexts, Profile!Texts
      <3> QED
        BY <2>2, <3>1 DEF Profile!join_server_url
    <2>3. CASE ~Profile!Parses(s.inputs.text.base)
      BY <2>1, <2>3, TextsArePlain DEF Profile!join_server_url
    <2> QED
      BY <2>2, <2>3
  <1>4. text \in Profile!PlainTexts
    BY <1>2, <1>3
  <1>5. Profile!commit_inputs(s) = [s EXCEPT !.list.profiles[s.index] = q]
    BY DEF Profile!commit_inputs
  <1> HIDE DEF text
  <1>6. q \in Profile!Profs /\ q.id = p.id
    BY <1>1, <1>2, <1>4 DEF Profile!Profs
  <1> DEFINE c == [s EXCEPT !.list.profiles[s.index] = q]
  <1> HIDE DEF q
  <1>7. /\ Usable(c) /\ IdsOf(c.list) = IdsOf(s.list)
        /\ DOMAIN c.list.profiles = DOMAIN s.list.profiles /\ c.list.selected = s.list.selected
        /\ c.index = s.index /\ c.open = s.open /\ c.mine = s.mine /\ c.inputs = s.inputs
    BY <1>6, ChangedProfile
  <1>8. Profile!commit_inputs(s) = c
    BY <1>5
  <1> HIDE DEF c
  <1> QED
    BY <1>7, <1>8

-----------------------------------------------------------------------------
(* The imports. *)

ImportType == [ok : BOOLEAN, list : Profile!Lists, made : Nat]

\* A good list stays good, and its profiles keep their places and ids, when one of its
\* profiles takes another text of the same base.
LEMMA ReplacedText ==
    ASSUME NEW list, GoodList(list), NEW i \in DOMAIN list.profiles, NEW text \in Profile!PlainTexts,
           list.profiles[i].remote, list.profiles[i].text.base = text.base
    PROVE  LET new == [list EXCEPT !.profiles[i].text = text, !.selected = list.profiles[i].id]
           IN  GoodList(new) /\ IdsOf(new) = IdsOf(list)
  <1> DEFINE p == list.profiles[i]
             q == [p EXCEPT !.text = text]
             put == [list EXCEPT !.profiles[i] = q]
             new == [list EXCEPT !.profiles[i].text = text, !.selected = list.profiles[i].id]
  <1>1. list \in Profile!Lists /\ p \in Profile!Profs /\ Fit(p)
    BY ElementOfSeq DEF GoodList, Profile!Lists
  <1>2. q \in Profile!Profs /\ q.id = p.id /\ Fit(q)
    BY <1>1 DEF Profile!Profs, Fit
  <1>3. new = [put EXCEPT !.selected = p.id]
    BY <1>1 DEF Profile!Lists
  <1> HIDE DEF q
  <1>4. /\ put \in Profile!Lists /\ DOMAIN put.profiles = DOMAIN list.profiles
        /\ \A j \in DOMAIN list.profiles :
              put.profiles[j] = (IF j = i THEN q ELSE list.profiles[j])
        /\ IdsOf(put) = IdsOf(list)
    BY <1>1, <1>2, ReplaceKeeps
  <1> HIDE DEF put, new
  <1>5. p.id \in 1 .. MaxProfiles
    BY <1>1 DEF Profile!Profs
  <1>6. new \in Profile!Lists /\ new.profiles = put.profiles /\ new.selected = p.id
    BY <1>3, <1>4, <1>5 DEF Profile!Lists
  <1>7. Profile!HasSelected(new)
    <2>1. i \in DOMAIN new.profiles /\ new.profiles[i].id = p.id
      BY <1>2, <1>4, <1>6
    <2> QED
      BY <1>6, <2>1 DEF Profile!HasSelected, Profile!Ids
  <1>8. \A j \in DOMAIN new.profiles : Fit(new.profiles[j])
    BY <1>2, <1>4, <1>6 DEF GoodList
  <1>9. IdsOf(new) = IdsOf(list)
    BY <1>4, <1>6 DEF IdsOf
  <1> QED
    BY <1>6, <1>7, <1>8, <1>9 DEF GoodList, new

\* So does one that a fit profile is added to, which becomes the selected one.
LEMMA AddedProfile ==
    ASSUME NEW list, GoodList(list), NEW p \in Profile!Profs, Fit(p)
    PROVE  LET new == [profiles |-> Append(list.profiles, p), selected |-> p.id]
           IN  /\ GoodList(new)
               /\ \A j \in DOMAIN list.profiles :
                     j \in DOMAIN new.profiles /\ new.profiles[j] = list.profiles[j]
  <1> DEFINE new == [profiles |-> Append(list.profiles, p), selected |-> p.id]
             n == Len(list.profiles)
  <1>1. list \in Profile!Lists /\ p.id \in 1 .. MaxProfiles
    BY DEF GoodList, Profile!Profs
  <1>2. /\ new \in Profile!Lists /\ n \in Nat
        /\ DOMAIN new.profiles = 1 .. n + 1 /\ DOMAIN list.profiles = 1 .. n
        /\ new.profiles[n + 1] = p
        /\ \A j \in DOMAIN list.profiles : new.profiles[j] = list.profiles[j]
    BY <1>1, AppendKeeps
  <1>3. new.selected = p.id
    OBVIOUS
  <1> HIDE DEF new
  <1>4. Profile!HasSelected(new)
    <2>1. n + 1 \in DOMAIN new.profiles
      BY <1>2
    <2> QED
      BY <1>2, <1>3, <2>1 DEF Profile!HasSelected, Profile!Ids
  <1>5. \A j \in DOMAIN new.profiles : Fit(new.profiles[j])
    <2> SUFFICES ASSUME NEW j \in DOMAIN new.profiles PROVE Fit(new.profiles[j])
      OBVIOUS
    <2>1. CASE j = n + 1
      BY <1>2, <2>1
    <2>2. CASE j # n + 1
      <3>1. j \in DOMAIN list.profiles
        BY <1>2, <2>2
      <3> QED
        BY <1>2, <3>1 DEF GoodList
    <2> QED
      BY <2>1, <2>2
  <1>6. \A j \in DOMAIN list.profiles : j \in DOMAIN new.profiles
    BY <1>2
  <1> QED
    BY <1>2, <1>4, <1>5, <1>6 DEF GoodList, new

\* A link that is imported keeps the list good and its profiles in place (import_url).
LEMMA ImportStep ==
    ASSUME Profile!ProfilesAssumption, NEW s \in ImportType, NEW text \in Profile!PlainTexts,
           NEW m \in Nat, MaxDefaults <= s.made, s.made <= m, m + 1 <= MaxProfiles,
           NEW ids, GoodList(s.list), Names(ids, s.list)
    PROVE  LET r == Profile!import_url(s, text)
           IN  /\ r \in ImportType /\ MaxDefaults <= r.made /\ r.made <= m + 1
               /\ GoodList(r.list) /\ Names(ids, r.list)
  <1> DEFINE list == s.list
             same == Profile!SameServer(list, text)
             first == CHOOSE i \in same : \A j \in same : i <= j
             new == Profile!Profile(s.made + 1, TRUE, text)
             r == Profile!import_url(s, text)
             replaced == [list EXCEPT !.profiles[first].text = text,
                                      !.selected = list.profiles[first].id]
             added == [profiles |-> Append(list.profiles, new), selected |-> new.id]
  <1>1. /\ s = [ok |-> s.ok, list |-> list, made |-> s.made]
        /\ s.ok \in BOOLEAN /\ s.made \in Nat /\ list \in Profile!Lists
        /\ MaxProfiles \in Nat /\ MaxDefaults \in Nat
    BY DEF ImportType, Profile!ProfilesAssumption
  <1>2. CASE ~s.ok
    <2>1. r = s
      BY <1>2 DEF Profile!import_url
    <2> QED
      BY <1>1, <2>1
  <1>3. CASE s.ok /\ same # {}
    <2>1. first \in same
      <3>1. same \subseteq 1 .. Len(list.profiles) /\ Len(list.profiles) \in Nat
        BY <1>1 DEF Profile!SameServer, Profile!Lists
      <3> HIDE DEF same
      <3>2. \E i \in same : \A j \in same : i <= j
        BY <1>3, <3>1, SmallestOne
      <3> QED
        BY <3>2
    <2>2. /\ first \in DOMAIN list.profiles /\ list.profiles[first].remote
          /\ list.profiles[first].text.base = text.base
      BY <2>1 DEF Profile!SameServer
    <2>3. r = [s EXCEPT !.list.profiles[first].text = text, !.list.selected = list.profiles[first].id]
      BY <1>3 DEF Profile!import_url
    <2> HIDE DEF first
    <2>4. r = [s EXCEPT !.list = replaced]
      BY <1>1, <2>3 DEF ImportType, Profile!Lists
    <2>5. GoodList(replaced) /\ IdsOf(replaced) = IdsOf(list)
      BY <2>2, ReplacedText
    <2> HIDE DEF replaced, r
    <2>6. r \in ImportType /\ r.list = replaced /\ r.made = s.made
      BY <1>1, <2>4, <2>5 DEF ImportType, GoodList
    <2>7. Names(ids, replaced)
      <3>1. /\ DOMAIN replaced.profiles = DOMAIN list.profiles
            /\ \A j \in DOMAIN list.profiles : replaced.profiles[j].id = list.profiles[j].id
        <4>1. DOMAIN IdsOf(replaced) = DOMAIN IdsOf(list)
              /\ \A j \in DOMAIN IdsOf(list) : IdsOf(replaced)[j] = IdsOf(list)[j]
          BY <2>5
        <4> QED
          BY <4>1 DEF IdsOf
      <3> QED
        BY <3>1 DEF Names
    <2> QED
      BY <1>1, <2>5, <2>6, <2>7 DEF r
  <1>4. CASE s.ok /\ same = {} /\ ~Profile!validate(new)
    <2>1. r = [s EXCEPT !.ok = FALSE]
      BY <1>4 DEF Profile!import_url
    <2> HIDE DEF r
    <2>2. r \in ImportType /\ r.list = list /\ r.made = s.made
      BY <1>1, <2>1 DEF ImportType
    <2> QED
      BY <1>1, <2>2 DEF r
  <1>5. CASE s.ok /\ same = {} /\ Profile!validate(new)
    <2>1. s.made + 1 \in 1 .. MaxProfiles
      BY <1>1
    <2>2. new \in Profile!Profs /\ new.id = s.made + 1
      BY <2>1, ProfileType
    <2>3. r = [ok |-> TRUE, made |-> new.id, list |-> added]
      BY <1>5 DEF Profile!import_url
    <2> HIDE DEF new
    <2>4. Fit(new)
      BY <1>5, <2>2, FitMeans
    <2>5. GoodList(added) /\ \A j \in DOMAIN list.profiles :
             j \in DOMAIN added.profiles /\ added.profiles[j] = list.profiles[j]
      BY <2>2, <2>4, AddedProfile
    <2> HIDE DEF added, r
    <2>6. r \in ImportType /\ r.list = added /\ r.made = s.made + 1
      BY <1>1, <2>2, <2>3, <2>5 DEF ImportType, GoodList
    <2>7. Names(ids, added)
      BY <2>5 DEF Names
    <2> QED
      BY <1>1, <2>5, <2>6, <2>7 DEF r
  <1> QED
    BY <1>1, <1>2, <1>3, <1>4, <1>5

\* The file cannot be read, or it holds a good list.
DiskInv == disk = Profile!Unreadable \/ GoodList(disk)
\* The profiles that are read are those of the file if it can be read (load).
LEMMA LoadIsGood ==
    ASSUME Profile!ProfilesAssumption, DiskInv
    PROVE  GoodList(Profile!load(disk)) /\ (disk # Profile!Unreadable => Profile!load(disk) = disk)
  <1>1. CASE disk = Profile!Unreadable
    BY <1>1, DefaultIsGood DEF Profile!load
  <1>2. CASE disk # Profile!Unreadable
    <2>1. GoodList(disk)
      BY <1>2 DEF DiskInv
    <2>2. Profile!load(disk) = disk
      BY <1>2, <2>1 DEF Profile!load, GoodList, Profile!HasSelected
    <2> QED
      BY <2>1, <2>2
  <1> QED
    BY <1>1, <1>2

\* A good list is read as it was written.
LEMMA GoodIsRead ==
    ASSUME NEW list, GoodList(list)
    PROVE  Profile!load(list) = list /\ list # Profile!Unreadable
  <1>1. list.selected \in 1 .. MaxProfiles
    BY DEF GoodList, Profile!Lists
  <1>2. list # Profile!Unreadable
    BY <1>1 DEF Profile!Unreadable
  <1> QED
    BY <1>2 DEF Profile!load, GoodList, Profile!HasSelected

\* An import leaves a good list that begins with the profiles that were read, however
\* many links it takes and whichever it refuses (import_profile_urls).
LEMMA ImportKeeps ==
    ASSUME Profile!ProfilesAssumption, DiskInv, NEW n \in Nat, NEW links \in [1 .. n -> Profile!PlainTexts],
           made \in MaxDefaults .. MaxProfiles, made + n <= MaxProfiles
    PROVE  LET r == Profile!Imported(links)
           IN  /\ r \in ImportType /\ r.made \in MaxDefaults .. MaxProfiles
               /\ GoodList(r.list) /\ Names(IdsOf(Profile!load(disk)), r.list)
  <1> DEFINE first == [ok |-> TRUE, list |-> Profile!load(disk), made |-> made]
             ids == IdsOf(Profile!load(disk))
  <1>1. Len(links) = n /\ MaxDefaults \in Nat /\ MaxProfiles \in Nat /\ made \in Nat
    <2>1. links \in Seq(Profile!PlainTexts) /\ DOMAIN links = 1 .. n
      BY IsASeq
    <2> QED
      BY <2>1 DEF Profile!ProfilesAssumption
  <1>2. PICK g : Steps(g, n, first, links) /\ Profile!Imported(links) = g[n]
    BY <1>1, ImportIsSteps
  <1>3. /\ g[0] = first
        /\ \A k \in 0 .. n - 1 : g[k + 1] = Profile!import_url(g[k], links[k + 1])
    <2> DEFINE step(k) == IF k = 0 THEN first ELSE Profile!import_url(g[k - 1], links[k])
    <2>1. g = [k \in 0 .. n |-> step(k)]
      BY <1>2, Zenon DEF Steps
    <2>2. \A k \in 0 .. n : g[k] = step(k)
      <3> HIDE DEF step
      <3> QED
        BY <2>1
    <2>3. 0 \in 0 .. n
      OBVIOUS
    <2>4. g[0] = first
      BY <2>2, <2>3
    <2> HIDE DEF first
    <2>5. ASSUME NEW k \in 0 .. n - 1
          PROVE  g[k + 1] = Profile!import_url(g[k], links[k + 1])
      <3>1. k + 1 \in 0 .. n /\ k + 1 # 0 /\ (k + 1) - 1 = k
        OBVIOUS
      <3>2. g[k + 1] = Profile!import_url(g[(k + 1) - 1], links[k + 1])
        BY <2>2, <3>1
      <3> QED
        BY <3>1, <3>2
    <2> QED
      BY <2>4, <2>5 DEF first
  <1> DEFINE Done(s, m) == /\ s \in ImportType /\ MaxDefaults <= s.made /\ s.made <= made + m
                           /\ GoodList(s.list) /\ Names(ids, s.list)
             S == {k \in 0 .. n : Done(g[k], k)}
  <1>4. Done(first, 0)
    <2>1. GoodList(Profile!load(disk))
      BY LoadIsGood
    <2>2. Names(ids, Profile!load(disk))
      BY DEF Names, IdsOf
    <2> QED
      BY <1>1, <2>1, <2>2 DEF ImportType, GoodList
  <1>5. \A k \in 0 .. n - 1 : Done(g[k], k) => Done(g[k + 1], k + 1)
    <2> SUFFICES ASSUME NEW k \in 0 .. n - 1, Done(g[k], k) PROVE Done(g[k + 1], k + 1)
      OBVIOUS
    <2> DEFINE s == g[k]
               text == links[k + 1]
    <2>1. text \in Profile!PlainTexts
      OBVIOUS
    <2>2. made + k \in Nat /\ (made + k) + 1 <= MaxProfiles /\ made + (k + 1) = (made + k) + 1
      BY <1>1
    <2>3. g[k + 1] = Profile!import_url(s, text)
      BY <1>3
    <2>4. /\ s \in ImportType /\ MaxDefaults <= s.made /\ s.made <= made + k
          /\ GoodList(s.list) /\ Names(ids, s.list)
      OBVIOUS
    <2> DEFINE r == Profile!import_url(s, text)
    <2>5. /\ r \in ImportType /\ MaxDefaults <= r.made /\ r.made <= (made + k) + 1
          /\ GoodList(r.list) /\ Names(ids, r.list)
      <3> HIDE DEF s, text, ids
      <3> QED
        BY <2>1, <2>2, <2>4, ImportStep
    <2> HIDE DEF s, text, ids, r
    <2> QED
      BY <2>2, <2>3, <2>5 DEF r
  <1>6. n \in S
    <2> HIDE DEF Done, first
    <2>1. 0 \in S
      BY <1>3, <1>4
    <2>2. \A k \in 0 .. n - 1 : k \in S => k + 1 \in S
      BY <1>5
    <2> HIDE DEF S
    <2> QED
      <3>1. \A i \in 0 .. n : i \in S
        BY <2>1, <2>2, Counting, Zenon
      <3> QED
        BY <3>1
  <1>7. Done(g[n], n)
    BY <1>6
  <1> HIDE DEF ids
  <1> QED
    BY <1>1, <1>2, <1>7 DEF ImportType, ids

-----------------------------------------------------------------------------
(* The invariant. *)

AppType == [open : BOOLEAN, list : Profile!Lists, stale : BOOLEAN]
AppInv == toolbarProfiles \in AppType /\ GoodList(toolbarProfiles.list)
MenuInv == destinationMenu \in Seq(1 .. MaxProfiles) /\ (destinationMenu # <<>> => toolbarProfiles.open /\ ~profileSettings.mine)
SettingsInv == Usable(profileSettings) /\ (profileSettings.open => Belongs(profileSettings))
CountInv == made \in MaxDefaults .. MaxProfiles /\ edits \in 0 .. MaxEdits /\ failedSaves \in 0 .. MaxFailedSaves
\* The toolbar shows what is in the file, and an open menu names its profiles, as long
\* as no save has failed and none was made behind the toolbar.
CopyInv == toolbarProfiles.open /\ ~toolbarProfiles.stale /\ failedSaves = 0 => toolbarProfiles.list = Profile!load(disk)
NamesInv == destinationMenu # <<>> /\ ~toolbarProfiles.stale /\ failedSaves = 0 => Names(destinationMenu, toolbarProfiles.list)
ProfileInv ==
    DiskInv /\ AppInv /\ MenuInv /\ SettingsInv /\ CountInv /\ CopyInv /\ NamesInv

\* A save that does not fail leaves its list in the file, one that fails is counted.
LEMMA SaveKeeps ==
    ASSUME Profile!ProfilesAssumption, DiskInv, CountInv, NEW list, GoodList(list), NEW ok \in BOOLEAN,
           Profile!save(list, ok)
    PROVE  /\ DiskInv' /\ failedSaves' \in 0 .. MaxFailedSaves
           /\ failedSaves' = 0 => ok /\ disk' = list /\ failedSaves = 0
           /\ ok => disk' = list /\ failedSaves' = failedSaves
  <1>1. failedSaves \in 0 .. MaxFailedSaves /\ MaxFailedSaves \in Nat
    BY DEF CountInv, Profile!ProfilesAssumption
  <1>2. CASE ok
    BY <1>1, <1>2 DEF Profile!save, DiskInv, GoodList
  <1>3. CASE ~ok
    <2>1. failedSaves < MaxFailedSaves /\ failedSaves' = failedSaves + 1 /\ disk' \in {disk, Profile!Unreadable}
      BY <1>3 DEF Profile!save
    <2>2. DiskInv'
      <3>1. CASE disk' = disk
        BY <3>1 DEF DiskInv, GoodList
      <3>2. CASE disk' = Profile!Unreadable
        BY <3>2 DEF DiskInv, Profile!Unreadable
      <3> QED
        BY <2>1, <3>1, <3>2
    <2> QED
      BY <1>1, <1>3, <2>1, <2>2
  <1> QED
    BY <1>2, <1>3

\* No window is open, and the file is missing or holds the default profiles.
LEMMA ProfilesInit ==
    ASSUME Profile!ProfilesAssumption, Profile!Init
    PROVE  ProfileInv
  <1>1. GoodList(Profile!Default) /\ 1 \in DOMAIN Profile!Default.profiles
    BY DefaultIsGood
  <1>2. DiskInv
    BY <1>1 DEF Profile!Init, DiskInv
  <1>3. AppInv /\ ~toolbarProfiles.open
    BY <1>1 DEF Profile!Init, Profile!NoToolbar, AppInv, AppType, GoodList
  <1>4. destinationMenu = <<>> /\ MenuInv
    BY DEF Profile!Init, MenuInv
  <1>5. SettingsInv
    <2>1. Profile!NoInputs \in Profile!InputTexts
      <3>1. Profile!Text("empty") \in Profile!PlainTexts
        BY TextsArePlain DEF Profile!Bases
      <3> QED
        BY <3>1 DEF Profile!NoInputs, Profile!InputTexts, Profile!ProfilesAssumption
    <2>2. profileSettings = Profile!NoSettings
      BY DEF Profile!Init
    <2>3. profileSettings \in SettingsType /\ profileSettings.list = Profile!Default /\ profileSettings.index = 1 /\ ~profileSettings.open
      BY <1>1, <2>1, <2>2 DEF Profile!NoSettings, SettingsType, GoodList
    <2> QED
      BY <1>1, <2>3 DEF SettingsInv, Usable, GoodList
  <1>6. CountInv
    BY DEF Profile!Init, CountInv, Profile!ProfilesAssumption
  <1> QED
    BY <1>2, <1>3, <1>4, <1>5, <1>6 DEF ProfileInv, CopyInv, NamesInv

\* The windows and the menu of the toolbar.
LEMMA ToolbarStep ==
    ASSUME Profile!ProfilesAssumption, ProfileInv,
           Profile!open_capture \/ Profile!close_windows \/ Profile!show_destination_menu \/ Profile!DismissMenu
    PROVE  ProfileInv'
  <1>1. CASE Profile!open_capture
    <2>1. /\ ~toolbarProfiles.open /\ toolbarProfiles' = [open |-> TRUE, list |-> Profile!load(disk), stale |-> FALSE]
          /\ UNCHANGED <<disk, destinationMenu, profileSettings, made, edits, failedSaves>>
      BY <1>1 DEF Profile!open_capture
    <2>2. GoodList(Profile!load(disk)) /\ destinationMenu = <<>>
      BY <2>1, LoadIsGood DEF ProfileInv, MenuInv
    <2>3. AppInv' /\ toolbarProfiles'.list = Profile!load(disk)
      BY <2>1, <2>2 DEF AppInv, AppType, GoodList
    <2> QED
      BY <2>1, <2>2, <2>3
      DEF ProfileInv, DiskInv, MenuInv, SettingsInv, CountInv, CopyInv, NamesInv, Usable, Belongs
  <1>2. CASE Profile!close_windows
    <2>1. /\ toolbarProfiles' = Profile!NoToolbar /\ destinationMenu' = <<>> /\ profileSettings' = [profileSettings EXCEPT !.mine = FALSE]
          /\ UNCHANGED <<disk, made, edits, failedSaves>>
      BY <1>2 DEF Profile!close_windows
    <2>2. AppInv' /\ ~toolbarProfiles'.open
      BY <2>1, DefaultIsGood DEF AppInv, AppType, Profile!NoToolbar, GoodList
    <2>3. SettingsInv'
      <3>1. /\ profileSettings' \in SettingsType /\ profileSettings'.list = profileSettings.list
            /\ profileSettings'.index = profileSettings.index /\ profileSettings'.open = profileSettings.open
            /\ profileSettings'.inputs = profileSettings.inputs
        BY <2>1 DEF ProfileInv, SettingsInv, Usable, SettingsType
      <3> QED
        BY <3>1 DEF ProfileInv, SettingsInv, Usable, Belongs
    <2> QED
      BY <2>1, <2>2, <2>3 DEF ProfileInv, DiskInv, MenuInv, CountInv, CopyInv, NamesInv
  <1>3. CASE Profile!show_destination_menu
    <2>1. /\ toolbarProfiles.open /\ ~profileSettings.mine
          /\ destinationMenu' = [i \in DOMAIN toolbarProfiles.list.profiles |-> toolbarProfiles.list.profiles[i].id]
          /\ UNCHANGED <<disk, toolbarProfiles, profileSettings, made, edits, failedSaves>>
      BY <1>3 DEF Profile!show_destination_menu, Profile!ToolbarShown
    <2>2. toolbarProfiles.list.profiles \in Seq(Profile!Profs)
      BY DEF ProfileInv, AppInv, GoodList, Profile!Lists
    <2>3. /\ Len(toolbarProfiles.list.profiles) \in Nat /\ DOMAIN toolbarProfiles.list.profiles = 1 .. Len(toolbarProfiles.list.profiles)
          /\ \A i \in 1 .. Len(toolbarProfiles.list.profiles) : toolbarProfiles.list.profiles[i].id \in 1 .. MaxProfiles
      <3>1. Len(toolbarProfiles.list.profiles) \in Nat /\ DOMAIN toolbarProfiles.list.profiles = 1 .. Len(toolbarProfiles.list.profiles)
        BY <2>2
      <3>2. \A i \in 1 .. Len(toolbarProfiles.list.profiles) : toolbarProfiles.list.profiles[i] \in Profile!Profs
        BY <2>2
      <3> QED
        BY <3>1, <3>2 DEF Profile!Profs
    <2>4. destinationMenu' \in Seq(1 .. MaxProfiles)
      BY <2>1, <2>3, IsASeq
    <2>5. Names(destinationMenu, toolbarProfiles.list)'
      BY <2>1 DEF Names
    <2> QED
      BY <2>1, <2>4, <2>5
      DEF ProfileInv, DiskInv, AppInv, MenuInv, SettingsInv, CountInv, CopyInv, NamesInv, Usable, Belongs
  <1>4. CASE Profile!DismissMenu
    <2>1. destinationMenu' = <<>> /\ UNCHANGED <<disk, toolbarProfiles, profileSettings, made, edits, failedSaves>>
      BY <1>4 DEF Profile!DismissMenu
    <2> QED
      BY <2>1 DEF ProfileInv, DiskInv, AppInv, MenuInv, SettingsInv, CountInv, CopyInv, NamesInv,
                  Usable, Belongs
  <1> QED
    BY <1>1, <1>2, <1>3, <1>4

\* A list of the file that takes the place of the toolbar's, unless the save fails.
LEMMA ListSaved ==
    ASSUME Profile!ProfilesAssumption, ProfileInv, NEW list, GoodList(list), NEW ok \in BOOLEAN,
           Profile!save(list, ok), toolbarProfiles'.stale = toolbarProfiles.stale,
           AppInv', MenuInv', SettingsInv', made' \in MaxDefaults .. MaxProfiles, edits' = edits,
           ok /\ toolbarProfiles'.open => toolbarProfiles'.list = list,
           failedSaves = 0 /\ ok => NamesInv'
    PROVE  ProfileInv'
  <1>1. /\ DiskInv' /\ failedSaves' \in 0 .. MaxFailedSaves
        /\ failedSaves' = 0 => ok /\ disk' = list /\ failedSaves = 0
    BY SaveKeeps DEF ProfileInv
  <1>2. CountInv'
    BY <1>1 DEF CountInv, ProfileInv
  <1>3. CopyInv'
    BY <1>1, GoodIsRead DEF CopyInv
  <1>4. NamesInv'
    BY <1>1 DEF NamesInv
  <1> QED
    BY <1>1, <1>2, <1>3, <1>4 DEF ProfileInv

\* A choice in the destination menu.
LEMMA SelectStep ==
    ASSUME Profile!ProfilesAssumption, ProfileInv, NEW i, NEW ok \in BOOLEAN, Profile!SelectProfile(i, ok)
    PROVE  /\ ProfileInv'
           /\ (Profile!Readable /\ Profile!Readable' /\ failedSaves' = 0 /\ ~toolbarProfiles.stale)
                  => Profile!Ids(disk) \subseteq Profile!Ids(disk')
  <1> DEFINE list == [toolbarProfiles.list EXCEPT !.selected = toolbarProfiles.list.profiles[i].id]
  <1>1. /\ i \in DOMAIN destinationMenu /\ destinationMenu' = <<>> /\ UNCHANGED <<profileSettings, made, edits>>
        /\ IF i \in DOMAIN toolbarProfiles.list.profiles
           THEN toolbarProfiles' = [toolbarProfiles EXCEPT !.list = list] /\ Profile!save(list, ok)
           ELSE ok /\ UNCHANGED <<disk, toolbarProfiles, failedSaves>>
    BY DEF Profile!SelectProfile
  <1>2. toolbarProfiles.open /\ destinationMenu # <<>>
    BY <1>1 DEF ProfileInv, MenuInv
  <1>3. CASE i \in DOMAIN toolbarProfiles.list.profiles
    <2>1. GoodList(toolbarProfiles.list) /\ toolbarProfiles.list \in Profile!Lists /\ toolbarProfiles \in AppType
      BY DEF ProfileInv, AppInv, GoodList
    <2>2. toolbarProfiles.list.profiles[i].id \in 1 .. MaxProfiles
      <3>1. toolbarProfiles.list.profiles[i] \in Profile!Profs
        BY <1>3, <2>1, ElementOfSeq DEF Profile!Lists
      <3> QED
        BY <3>1 DEF Profile!Profs
    <2>3. /\ list \in Profile!Lists /\ list.profiles = toolbarProfiles.list.profiles
          /\ list.selected = toolbarProfiles.list.profiles[i].id
      BY <2>1, <2>2 DEF Profile!Lists
    <2>4. toolbarProfiles' = [toolbarProfiles EXCEPT !.list = list] /\ Profile!save(list, ok)
      BY <1>1, <1>3
    <2> HIDE DEF list
    <2>5. GoodList(list)
      BY <1>3, <2>1, <2>3 DEF GoodList, Profile!HasSelected, Profile!Ids
    <2>6. toolbarProfiles' \in AppType /\ toolbarProfiles'.list = list /\ toolbarProfiles'.stale = toolbarProfiles.stale
      BY <2>1, <2>3, <2>4 DEF AppType
    <2>7. AppInv' /\ NamesInv' /\ MenuInv' /\ SettingsInv'
      BY <1>1, <2>5, <2>6
      DEF AppInv, AppType, NamesInv, MenuInv, SettingsInv, Usable, Belongs, GoodList, ProfileInv
    <2>8. made' \in MaxDefaults .. MaxProfiles
      BY <1>1 DEF ProfileInv, CountInv
    <2>9. ProfileInv'
      BY <1>1, <2>4, <2>5, <2>6, <2>7, <2>8, ListSaved
    <2>10. ASSUME Profile!Readable, failedSaves' = 0, ~toolbarProfiles.stale
           PROVE  Profile!Ids(disk) \subseteq Profile!Ids(disk')
      <3>1. disk' = list /\ failedSaves = 0
        BY <2>4, <2>5, <2>10, SaveKeeps DEF ProfileInv
      <3>2. toolbarProfiles.list = disk
        BY <1>2, <2>10, <3>1, LoadIsGood DEF ProfileInv, CopyInv, Profile!Readable
      <3> QED
        BY <2>3, <3>1, <3>2 DEF Profile!Ids
    <2> QED
      BY <2>9, <2>10
  <1>4. CASE i \notin DOMAIN toolbarProfiles.list.profiles
    <2>1. UNCHANGED <<disk, toolbarProfiles, profileSettings, made, edits, failedSaves>>
      BY <1>1, <1>4
    <2> QED
      BY <1>1, <2>1
      DEF ProfileInv, DiskInv, AppInv, MenuInv, SettingsInv, CountInv, CopyInv, NamesInv,
          Usable, Belongs, Profile!Ids
  <1> QED
    BY <1>3, <1>4

\* Names that a list begins with, it begins with after an import.
LEMMA NamesCompose ==
    ASSUME NEW ids, NEW list, NEW new, Names(ids, list), Names(IdsOf(list), new)
    PROVE  Names(ids, new)
  BY DEF Names, IdsOf

\* No profile that a list begins with is missing from it.
LEMMA NamesIds ==
    ASSUME NEW list, NEW new, Names(IdsOf(list), new)
    PROVE  Profile!Ids(list) \subseteq Profile!Ids(new)
  BY DEF Names, IdsOf, Profile!Ids

\* The links that the server sends, at any time.
LEMMA ImportsStep ==
    ASSUME Profile!ProfilesAssumption, ProfileInv, Profile!import_profile_urls
    PROVE  /\ ProfileInv'
           /\ (Profile!Readable /\ Profile!Readable' /\ failedSaves' = 0 /\ ~toolbarProfiles.stale)
                  => Profile!Ids(disk) \subseteq Profile!Ids(disk')
  <1>0. PICK n \in 1 .. MaxLinks : \E links \in [1 .. n -> Profile!PlainTexts], ok \in BOOLEAN :
           LET result == Profile!Imported(links)
           IN  /\ made + MaxLinks <= MaxProfiles
               /\ IF result.ok THEN Profile!save(result.list, ok) ELSE ok /\ UNCHANGED <<disk, failedSaves>>
               /\ toolbarProfiles' = IF toolbarProfiles.open /\ result.ok /\ ok THEN [toolbarProfiles EXCEPT !.list = result.list] ELSE toolbarProfiles
               /\ made' = result.made
               /\ UNCHANGED <<destinationMenu, profileSettings, edits>>
    BY Zenon DEF Profile!import_profile_urls
  <1>1. PICK links \in [1 .. n -> Profile!PlainTexts], ok \in BOOLEAN :
           LET result == Profile!Imported(links)
           IN  /\ made + MaxLinks <= MaxProfiles
               /\ IF result.ok THEN Profile!save(result.list, ok) ELSE ok /\ UNCHANGED <<disk, failedSaves>>
               /\ toolbarProfiles' = IF toolbarProfiles.open /\ result.ok /\ ok THEN [toolbarProfiles EXCEPT !.list = result.list] ELSE toolbarProfiles
               /\ made' = result.made
               /\ UNCHANGED <<destinationMenu, profileSettings, edits>>
    BY <1>0, Zenon
  <1> DEFINE r == Profile!Imported(links)
  <1>2. /\ made + MaxLinks <= MaxProfiles /\ made' = r.made /\ UNCHANGED <<destinationMenu, profileSettings, edits>>
        /\ r.ok => Profile!save(r.list, ok)
        /\ ~r.ok => UNCHANGED <<disk, failedSaves>>
        /\ toolbarProfiles' = IF toolbarProfiles.open /\ r.ok /\ ok THEN [toolbarProfiles EXCEPT !.list = r.list] ELSE toolbarProfiles
    BY <1>1
  <1>3. n \in Nat /\ made + n <= MaxProfiles /\ made \in MaxDefaults .. MaxProfiles
    BY <1>2 DEF ProfileInv, CountInv, Profile!ProfilesAssumption
  <1>4. /\ r \in ImportType /\ r.made \in MaxDefaults .. MaxProfiles
        /\ GoodList(r.list) /\ Names(IdsOf(Profile!load(disk)), r.list)
    BY <1>3, ImportKeeps DEF ProfileInv
  <1> HIDE DEF r
  <1>5. toolbarProfiles \in AppType /\ GoodList(toolbarProfiles.list)
    BY DEF ProfileInv, AppInv
  <1>6. AppInv' /\ toolbarProfiles'.open = toolbarProfiles.open /\ toolbarProfiles'.stale = toolbarProfiles.stale
    <2>1. CASE toolbarProfiles.open /\ r.ok /\ ok
      <3>1. toolbarProfiles' = [toolbarProfiles EXCEPT !.list = r.list]
        BY <1>2, <2>1
      <3> QED
        BY <1>4, <1>5, <3>1 DEF AppInv, AppType, GoodList
    <2>2. CASE ~(toolbarProfiles.open /\ r.ok /\ ok)
      BY <1>2, <1>5, <2>2 DEF AppInv, GoodList
    <2> QED
      BY <2>1, <2>2
  <1>7. MenuInv' /\ SettingsInv'
    BY <1>2, <1>6 DEF ProfileInv, MenuInv, SettingsInv, Usable, Belongs
  <1>8. CASE r.ok
    <2>1. Profile!save(r.list, ok)
      BY <1>2, <1>8
    <2>2. ok /\ toolbarProfiles'.open => toolbarProfiles'.list = r.list
      BY <1>2, <1>5, <1>6, <1>8 DEF AppType
    <2>3. ASSUME failedSaves = 0, ok PROVE NamesInv'
      <3> SUFFICES ASSUME destinationMenu # <<>>, ~toolbarProfiles.stale PROVE Names(destinationMenu, toolbarProfiles.list)'
        BY <1>2, <1>6 DEF NamesInv
      <3>1. toolbarProfiles.open /\ toolbarProfiles.list = Profile!load(disk) /\ Names(destinationMenu, toolbarProfiles.list)
        BY <2>3 DEF ProfileInv, MenuInv, CopyInv, NamesInv
      <3>2. Names(destinationMenu, r.list)
        BY <1>4, <3>1, NamesCompose
      <3>3. toolbarProfiles'.list = r.list /\ destinationMenu' = destinationMenu
        BY <1>2, <1>6, <2>2, <2>3, <3>1
      <3> QED
        BY <3>2, <3>3 DEF Names
    <2>4. ProfileInv'
      BY <1>2, <1>4, <1>6, <1>7, <2>1, <2>2, <2>3, ListSaved
    <2>5. ASSUME Profile!Readable, failedSaves' = 0 PROVE Profile!Ids(disk) \subseteq Profile!Ids(disk')
      <3>1. disk' = r.list
        BY <1>4, <2>1, <2>5, SaveKeeps DEF ProfileInv
      <3>2. Profile!load(disk) = disk
        BY <2>5, LoadIsGood DEF ProfileInv, Profile!Readable
      <3>3. Profile!Ids(disk) \subseteq Profile!Ids(r.list)
        BY <1>4, <3>2, NamesIds
      <3> QED
        BY <3>1, <3>3
    <2> QED
      BY <2>4, <2>5
  <1>9. CASE ~r.ok
    <2>1. UNCHANGED <<disk, failedSaves, toolbarProfiles, destinationMenu, profileSettings, edits>>
      BY <1>2, <1>9
    <2>2. CountInv'
      BY <1>2, <1>4, <2>1 DEF ProfileInv, CountInv
    <2>3. DiskInv' /\ CopyInv' /\ NamesInv'
      BY <2>1 DEF ProfileInv, DiskInv, CopyInv, NamesInv
    <2> QED
      BY <1>6, <1>7, <2>1, <2>2, <2>3 DEF ProfileInv, Profile!Ids
  <1> QED
    BY <1>8, <1>9

\* What changes in the settings window alone concerns no other part of the invariant.
LEMMA WindowChanged ==
    ASSUME ProfileInv, UNCHANGED <<disk, toolbarProfiles, destinationMenu, failedSaves>>,
           Usable(profileSettings'), profileSettings'.open => Belongs(profileSettings'),
           profileSettings'.mine => profileSettings.mine,
           made' \in MaxDefaults .. MaxProfiles, edits' \in 0 .. MaxEdits
    PROVE  ProfileInv'
  <1>1. DiskInv' /\ AppInv' /\ CopyInv' /\ NamesInv'
    BY DEF ProfileInv, DiskInv, AppInv, CopyInv, NamesInv
  <1>2. MenuInv'
    BY DEF ProfileInv, MenuInv
  <1>3. SettingsInv' /\ CountInv'
    BY DEF ProfileInv, SettingsInv, CountInv
  <1> QED
    BY <1>1, <1>2, <1>3 DEF ProfileInv

\* Showing the profiles of a window that is usable (load_inputs).
LEMMA WindowShown ==
    ASSUME Profile!ProfilesAssumption, NEW s, Usable(s)
    PROVE  LET l == Profile!load_inputs(s)
           IN  Usable(l) /\ Belongs(l) /\ l.mine = s.mine /\ l.open = s.open
  BY LoadedInputs DEF Usable

\* A profile that is added is shown (ProfileSettings::push).
LEMMA PushedKeeps ==
    ASSUME Profile!ProfilesAssumption, NEW s, Usable(s), NEW p \in Profile!Profs
    PROVE  LET l == Profile!Pushed(s, p)
           IN  Usable(l) /\ Belongs(l) /\ l.mine = s.mine /\ l.open = s.open
  <1> DEFINE list == [profiles |-> Append(s.list.profiles, p), selected |-> s.list.selected]
             n == Len(s.list.profiles)
             t == [s EXCEPT !.list.profiles = Append(s.list.profiles, p), !.index = n + 1]
  <1>1. s \in SettingsType /\ s.list \in Profile!Lists /\ s.list.selected \in 1 .. MaxProfiles
    BY DEF Usable, SettingsType, Profile!Lists
  <1>2. /\ list \in Profile!Lists /\ n \in Nat
        /\ DOMAIN list.profiles = 1 .. n + 1 /\ DOMAIN s.list.profiles = 1 .. n
        /\ \A j \in DOMAIN s.list.profiles : list.profiles[j] = s.list.profiles[j]
    BY <1>1, AppendKeeps
  <1>3. t = [s EXCEPT !.list = list, !.index = n + 1]
    <2>1. [s.list EXCEPT !.profiles = Append(s.list.profiles, p)] = list
      <3> DEFINE x == Append(s.list.profiles, p)
      <3> HIDE DEF x
      <3>1. [s.list EXCEPT !.profiles = x] = [profiles |-> x, selected |-> s.list.selected]
        BY <1>1 DEF Profile!Lists
      <3> QED
        BY <3>1 DEF x
    <2>2. t = [s EXCEPT !.list = [s.list EXCEPT !.profiles = Append(s.list.profiles, p)],
                        !.index = n + 1]
      BY <1>1 DEF SettingsType
    <2> HIDE DEF list, t
    <2> QED
      BY <2>1, <2>2
  <1>4. list.selected = s.list.selected
    OBVIOUS
  <1>5. Profile!Pushed(s, p) = Profile!load_inputs(t)
    BY DEF Profile!Pushed
  <1> HIDE DEF list, t, n
  <1>6. t \in SettingsType /\ t.list = list /\ t.index = n + 1 /\ t.mine = s.mine /\ t.open = s.open
    <2>1. n + 1 \in Nat /\ list \in Profile!Lists
      BY <1>2
    <2> DEFINE next == n + 1
    <2> HIDE DEF next
    <2>2. next \in Nat /\ t = [s EXCEPT !.list = list, !.index = next]
      BY <1>3, <2>1 DEF next
    <2>3. /\ t \in SettingsType /\ t.list = list /\ t.index = next
          /\ t.mine = s.mine /\ t.open = s.open
      BY <1>1, <2>1, <2>2 DEF SettingsType
    <2> QED
      BY <2>3 DEF next
  <1>7. Profile!HasSelected(list)
    <2>1. PICK j \in DOMAIN s.list.profiles : s.list.profiles[j].id = s.list.selected
      BY DEF Usable, Profile!HasSelected, Profile!Ids
    <2>2. j \in DOMAIN list.profiles /\ list.profiles[j].id = list.selected
      BY <1>2, <1>4, <2>1
    <2> QED
      BY <2>2 DEF Profile!HasSelected, Profile!Ids
  <1>8. Usable(t)
    BY <1>2, <1>6, <1>7 DEF Usable
  <1> QED
    BY <1>5, <1>6, <1>8, WindowShown

\* What is typed and what is shown next.
LEMMA InputsStep ==
    ASSUME Profile!ProfilesAssumption, ProfileInv,
           Profile!CloseSettings \/ Profile!TypeText \/ Profile!DeleteLast
             \/ (\E i \in 1 .. MaxProfiles : Profile!select(i))
    PROVE  ProfileInv' /\ disk' = disk
  <1>1. /\ Usable(profileSettings) /\ profileSettings \in SettingsType
        /\ profileSettings.open => Belongs(profileSettings)
        /\ made \in MaxDefaults .. MaxProfiles /\ edits \in 0 .. MaxEdits
        /\ MaxEdits \in Nat
    BY DEF ProfileInv, SettingsInv, Usable, CountInv, Profile!ProfilesAssumption
  <1>2. CASE Profile!CloseSettings
    <2>1. /\ UNCHANGED <<disk, toolbarProfiles, destinationMenu, edits, failedSaves, made>> /\ profileSettings' = Profile!NoSettings
      BY <1>2 DEF Profile!CloseSettings, Profile!SettingsOnly
    <2>2. Usable(Profile!NoSettings) /\ ~Profile!NoSettings.open /\ ~Profile!NoSettings.mine
      <3>1. Profile!Text("empty") \in Profile!PlainTexts
        BY TextsArePlain DEF Profile!Bases
      <3>2. Profile!NoInputs \in Profile!InputTexts
        BY <3>1 DEF Profile!NoInputs, Profile!InputTexts, Profile!ProfilesAssumption
      <3>3. GoodList(Profile!Default) /\ 1 \in DOMAIN Profile!Default.profiles
        BY DefaultIsGood
      <3> QED
        BY <3>2, <3>3 DEF Profile!NoSettings, Usable, SettingsType, GoodList
    <2> QED
      BY <1>1, <2>1, <2>2, WindowChanged
  <1>3. CASE Profile!TypeText
    <2>1. /\ profileSettings.open /\ edits < MaxEdits /\ edits' = edits + 1
          /\ UNCHANGED <<disk, toolbarProfiles, destinationMenu, made, failedSaves>>
      BY <1>3 DEF Profile!TypeText, Profile!SettingsEdit
    <2>2. /\ profileSettings' \in SettingsType /\ profileSettings'.list = profileSettings.list
          /\ profileSettings'.index = profileSettings.index /\ profileSettings'.mine = profileSettings.mine
          /\ profileSettings'.inputs.of = profileSettings.inputs.of
      <3>1. CASE profileSettings' = [profileSettings EXCEPT !.inputs.named = ~@]
        BY <1>1, <3>1 DEF SettingsType, Profile!InputTexts
      <3>2. CASE \E text \in Profile!PlainTexts : profileSettings' = [profileSettings EXCEPT !.inputs.text = text]
        BY <1>1, <3>2 DEF SettingsType, Profile!InputTexts
      <3>3. CASE \E token \in Tokens : profileSettings' = [profileSettings EXCEPT !.inputs.token = token]
        BY <1>1, <3>3 DEF SettingsType, Profile!InputTexts
      <3> QED
        BY <1>3, <3>1, <3>2, <3>3 DEF Profile!TypeText
    <2>3. Usable(profileSettings') /\ Belongs(profileSettings')
      BY <1>1, <2>1, <2>2 DEF Usable, Belongs
    <2>4. edits' \in 0 .. MaxEdits
      BY <1>1, <2>1
    <2> QED
      BY <1>1, <2>1, <2>2, <2>3, <2>4, WindowChanged
  <1>4. CASE Profile!DeleteLast
    <2>1. /\ profileSettings.open /\ UNCHANGED <<disk, toolbarProfiles, destinationMenu, edits, failedSaves, made>>
          /\ profileSettings' = [profileSettings EXCEPT !.error = "last"]
      BY <1>4 DEF Profile!DeleteLast, Profile!SettingsOnly
    <2>2. /\ profileSettings' \in SettingsType /\ profileSettings'.list = profileSettings.list
          /\ profileSettings'.index = profileSettings.index /\ profileSettings'.mine = profileSettings.mine
          /\ profileSettings'.inputs = profileSettings.inputs
      BY <1>1, <2>1 DEF SettingsType
    <2>3. Usable(profileSettings') /\ Belongs(profileSettings')
      BY <1>1, <2>1, <2>2 DEF Usable, Belongs
    <2> QED
      BY <1>1, <2>1, <2>2, <2>3, WindowChanged
  <1>5. ASSUME NEW i \in 1 .. MaxProfiles, Profile!select(i)
        PROVE  ProfileInv' /\ disk' = disk
    <2> DEFINE c == Profile!commit_inputs(profileSettings)
               t == [c EXCEPT !.index = i]
    <2>1. /\ i \in DOMAIN profileSettings.list.profiles /\ profileSettings' = Profile!load_inputs(t)
          /\ UNCHANGED <<disk, toolbarProfiles, destinationMenu, edits, failedSaves, made>>
      BY <1>5 DEF Profile!select, Profile!SettingsOnly, Profile!Committed
    <2>2. /\ Usable(c) /\ DOMAIN c.list.profiles = DOMAIN profileSettings.list.profiles
          /\ c.mine = profileSettings.mine
      BY <1>1, CommitKeeps
    <2> HIDE DEF c
    <2>3. t \in SettingsType /\ t.list = c.list /\ t.index = i /\ t.mine = c.mine
      BY <2>2 DEF Usable, SettingsType
    <2> HIDE DEF t
    <2>4. Usable(t)
      BY <2>1, <2>2, <2>3 DEF Usable
    <2>5. Usable(profileSettings') /\ Belongs(profileSettings') /\ profileSettings'.mine = profileSettings.mine
      BY <2>1, <2>2, <2>3, <2>4, WindowShown
    <2> QED
      BY <1>1, <2>1, <2>5, WindowChanged
  <1> QED
    BY <1>2, <1>3, <1>4, <1>5

\* Profiles that are added and copied.
LEMMA AddStep ==
    ASSUME Profile!ProfilesAssumption, ProfileInv, Profile!add \/ Profile!duplicate
    PROVE  ProfileInv' /\ disk' = disk
  <1> DEFINE c == Profile!commit_inputs(profileSettings)
  <1>1. /\ Usable(profileSettings) /\ made \in MaxDefaults .. MaxProfiles /\ edits \in 0 .. MaxEdits
        /\ MaxProfiles \in Nat /\ MaxDefaults \in Nat
    BY DEF ProfileInv, SettingsInv, CountInv, Profile!ProfilesAssumption
  <1>2. Usable(c) /\ c.mine = profileSettings.mine /\ c.index = profileSettings.index
    BY <1>1, CommitKeeps
  <1>3. /\ made < MaxProfiles /\ made' = made + 1
        /\ UNCHANGED <<disk, toolbarProfiles, destinationMenu, edits, failedSaves>>
    BY DEF Profile!add, Profile!duplicate, Profile!SettingsOnly
  <1>4. made + 1 \in 1 .. MaxProfiles /\ made + 1 \in MaxDefaults .. MaxProfiles
    BY <1>1, <1>3
  <1>5. \E p \in Profile!Profs : profileSettings' = Profile!Pushed(c, p)
    <2>1. CASE Profile!add
      <3>1. Profile!Profile(made + 1, FALSE, Profile!Desktop) \in Profile!Profs
        BY <1>4, ProfileType, TextsArePlain
      <3> QED
        BY <2>1, <3>1 DEF Profile!add, Profile!Committed
    <2>2. CASE Profile!duplicate
      <3> DEFINE p == c.list.profiles[profileSettings.index]
                 q == [p EXCEPT !.id = made + 1, !.named = TRUE]
      <3>1. p \in Profile!Profs
        <4> HIDE DEF c
        <4>1. c.list.profiles \in Seq(Profile!Profs) /\ profileSettings.index \in DOMAIN c.list.profiles
          BY <1>2 DEF Usable, SettingsType, Profile!Lists
        <4> QED
          BY <4>1, ElementOfSeq
      <3>2. profileSettings' = Profile!Pushed(c, q)
        BY <2>2 DEF Profile!duplicate, Profile!Committed
      <3> HIDE DEF p
      <3>3. q \in Profile!Profs
        BY <1>4, <3>1 DEF Profile!Profs
      <3> QED
        BY <3>2, <3>3
    <2> QED
      BY <2>1, <2>2
  <1> HIDE DEF c
  <1>6. Usable(profileSettings') /\ Belongs(profileSettings') /\ profileSettings'.mine = profileSettings.mine
    BY <1>2, <1>5, PushedKeeps
  <1> QED
    BY <1>1, <1>3, <1>4, <1>6, WindowChanged

\* Of several profiles one is deleted: what was typed for it is dropped.
LEMMA DeleteStep ==
    ASSUME Profile!ProfilesAssumption, ProfileInv, Profile!delete
    PROVE  ProfileInv' /\ disk' = disk
  <1> DEFINE list == profileSettings.list
             n == Len(list.profiles)
             rest == Profile!RemoveAt(list.profiles, profileSettings.index)
             left == [profiles |-> rest,
                      selected |-> IF list.selected = list.profiles[profileSettings.index].id
                                   THEN rest[1].id ELSE list.selected]
             index == IF profileSettings.index > Len(rest) THEN Len(rest) ELSE profileSettings.index
             t == [profileSettings EXCEPT !.index = index, !.list = left]
  <1>1. /\ Usable(profileSettings) /\ profileSettings \in SettingsType /\ list \in Profile!Lists
        /\ profileSettings.index \in DOMAIN list.profiles /\ Profile!HasSelected(list)
        /\ made \in MaxDefaults .. MaxProfiles /\ edits \in 0 .. MaxEdits
    BY DEF ProfileInv, SettingsInv, Usable, SettingsType, CountInv
  <1>2. /\ n > 1 /\ profileSettings' = Profile!load_inputs(t)
        /\ UNCHANGED <<disk, toolbarProfiles, destinationMenu, edits, failedSaves, made>>
    BY DEF Profile!delete, Profile!SettingsOnly
  <1>3. /\ rest \in Seq(Profile!Profs) /\ n \in Nat /\ Len(rest) = n - 1
        /\ DOMAIN list.profiles = 1 .. n /\ DOMAIN rest = 1 .. n - 1
        /\ \A j \in 1 .. n - 1 :
              rest[j] = (IF j < profileSettings.index THEN list.profiles[j] ELSE list.profiles[j + 1])
    BY <1>1, <1>2, RemoveKeeps
  <1> HIDE DEF rest, n, list
  <1>4. index \in 1 .. n - 1 /\ 1 \in 1 .. n - 1 /\ profileSettings.index \in 1 .. n
    BY <1>1, <1>2, <1>3
  <1>5. left.profiles = rest /\ left.selected \in 1 .. MaxProfiles /\ left \in Profile!Lists
    <2>1. rest[1] \in Profile!Profs /\ list.selected \in 1 .. MaxProfiles
      BY <1>1, <1>3, <1>4, ElementOfSeq DEF Profile!Lists
    <2>2. rest[1].id \in 1 .. MaxProfiles
      BY <2>1 DEF Profile!Profs
    <2> DEFINE selected == IF list.selected = list.profiles[profileSettings.index].id
                           THEN rest[1].id ELSE list.selected
    <2>3. selected \in 1 .. MaxProfiles
      BY <2>1, <2>2
    <2>4. left = [profiles |-> rest, selected |-> selected]
      OBVIOUS
    <2> HIDE DEF left, selected
    <2> QED
      BY <1>3, <2>3, <2>4 DEF Profile!Lists
  <1>6. Profile!HasSelected(left)
    <2>1. CASE list.selected = list.profiles[profileSettings.index].id
      <3>1. left.selected = rest[1].id
        BY <2>1
      <3> HIDE DEF left
      <3> QED
        BY <1>3, <1>4, <1>5, <3>1 DEF Profile!HasSelected, Profile!Ids
    <2>2. CASE list.selected # list.profiles[profileSettings.index].id
      <3>1. left.selected = list.selected
        BY <2>2
      <3>2. PICK j \in 1 .. n : list.profiles[j].id = list.selected
        BY <1>1, <1>3 DEF Profile!HasSelected, Profile!Ids
      <3>3. j # profileSettings.index
        BY <2>2, <3>2
      <3>4. \E k \in 1 .. n - 1 : rest[k] = list.profiles[j]
        <4>1. CASE j < profileSettings.index
          <5>1. j \in 1 .. n - 1 /\ rest[j] = list.profiles[j]
            BY <1>3, <1>4, <4>1
          <5> QED
            BY <5>1
        <4>2. CASE j > profileSettings.index
          <5>1. j - 1 \in 1 .. n - 1 /\ ~(j - 1 < profileSettings.index) /\ (j - 1) + 1 = j
            BY <1>3, <1>4, <4>2
          <5>2. rest[j - 1] = list.profiles[(j - 1) + 1]
            BY <1>3, <5>1
          <5> QED
            BY <5>1, <5>2
        <4> QED
          BY <1>4, <3>3, <4>1, <4>2
      <3> HIDE DEF left
      <3> QED
        BY <1>3, <1>5, <3>1, <3>2, <3>4 DEF Profile!HasSelected, Profile!Ids
    <2> QED
      BY <2>1, <2>2
  <1> HIDE DEF left, index
  <1>7. t \in SettingsType /\ t.list = left /\ t.index = index /\ t.mine = profileSettings.mine
    <2>1. index \in Nat
      BY <1>3, <1>4
    <2> QED
      BY <1>1, <1>5, <2>1 DEF SettingsType
  <1> HIDE DEF t
  <1>8. Usable(t)
    BY <1>3, <1>4, <1>5, <1>6, <1>7 DEF Usable
  <1>9. Usable(profileSettings') /\ Belongs(profileSettings') /\ profileSettings'.mine = profileSettings.mine
    BY <1>2, <1>7, <1>8, WindowShown
  <1> QED
    BY <1>1, <1>2, <1>9, WindowChanged

\* A profile changes sides or takes a format of its side.
LEMMA SideStep ==
    ASSUME Profile!ProfilesAssumption, ProfileInv,
           (\E remote \in BOOLEAN : Profile!set_remote(remote))
             \/ (\E format \in {"mp4", "hls", "bundle"} : Profile!set_format(format))
    PROVE  ProfileInv' /\ disk' = disk
  <1>1. /\ Usable(profileSettings) /\ made \in MaxDefaults .. MaxProfiles /\ edits \in 0 .. MaxEdits
        /\ MaxEdits \in Nat
        /\ profileSettings.open => Belongs(profileSettings)
    BY DEF ProfileInv, SettingsInv, CountInv, Profile!ProfilesAssumption
  <1>2. /\ profileSettings.open /\ edits < MaxEdits /\ edits' = edits + 1
        /\ UNCHANGED <<disk, toolbarProfiles, destinationMenu, made, failedSaves>>
    BY DEF Profile!set_remote, Profile!set_format, Profile!SettingsEdit
  <1>3. edits' \in 0 .. MaxEdits /\ made' \in MaxDefaults .. MaxProfiles
    BY <1>1, <1>2
  <1>4. ASSUME NEW remote \in BOOLEAN, Profile!set_remote(remote)
        PROVE  Usable(profileSettings') /\ Belongs(profileSettings') /\ profileSettings'.mine = profileSettings.mine
    <2> DEFINE c == Profile!commit_inputs(profileSettings)
               p == c.list.profiles[profileSettings.index]
               text == IF remote THEN Profile!Text(Profile!OwnServer) ELSE Profile!Desktop
               q == [p EXCEPT !.remote = remote, !.text = text, !.format = "mp4"]
               t == [c EXCEPT !.list.profiles[profileSettings.index] = q]
    <2>1. profileSettings' = Profile!load_inputs(IF p.remote = remote THEN c ELSE t)
      BY <1>4 DEF Profile!set_remote, Profile!Committed
    <2>2. Usable(c) /\ c.mine = profileSettings.mine /\ c.index = profileSettings.index
      BY <1>1, CommitKeeps
    <2> HIDE DEF c
    <2>3. p \in Profile!Profs
      <3>1. c.list.profiles \in Seq(Profile!Profs) /\ profileSettings.index \in DOMAIN c.list.profiles
        BY <2>2 DEF Usable, SettingsType, Profile!Lists
      <3> QED
        BY <3>1, ElementOfSeq
    <2>4. text \in Profile!PlainTexts
      <3>1. Profile!OwnServer \in Profile!Bases
        BY TextsArePlain DEF Profile!Bases
      <3> QED
        BY <3>1, TextsArePlain
    <2> HIDE DEF text
    <2>5. q \in Profile!Profs /\ q.id = p.id
      BY <2>3, <2>4 DEF Profile!Profs
    <2> HIDE DEF q
    <2>6. Usable(t) /\ t.mine = c.mine
      <3> DEFINE u == [c EXCEPT !.list.profiles[c.index] = q]
      <3>1. q.id = c.list.profiles[c.index].id
        BY <2>2, <2>5
      <3>2. Usable(u) /\ u.mine = c.mine
        BY <2>2, <2>5, <3>1, ChangedProfile
      <3> QED
        BY <2>2, <3>2
    <2> HIDE DEF t, p
    <2> QED
      BY <2>1, <2>2, <2>6, WindowShown
  <1>5. ASSUME NEW format \in {"mp4", "hls", "bundle"}, Profile!set_format(format)
        PROVE  Usable(profileSettings') /\ Belongs(profileSettings') /\ profileSettings'.mine = profileSettings.mine
    <2> DEFINE p == profileSettings.list.profiles[profileSettings.index]
               q == [p EXCEPT !.format = format]
               t == [profileSettings EXCEPT !.list.profiles[profileSettings.index] = q]
    <2>1. profileSettings' = [profileSettings EXCEPT !.list.profiles[profileSettings.index].format = format]
      BY <1>5, SMTT(30) DEF Profile!set_format
    <2>2. p \in Profile!Profs
      BY <1>1, ElementOfSeq DEF Usable, SettingsType, Profile!Lists
    <2>3. profileSettings' = t
      BY <2>1
    <2>4. q \in Profile!Profs /\ q.id = p.id
      BY <2>2 DEF Profile!Profs
    <2> HIDE DEF q
    <2>5. /\ Usable(t) /\ t.list.profiles[profileSettings.index] = q /\ t.index = profileSettings.index
          /\ t.mine = profileSettings.mine /\ t.inputs = profileSettings.inputs
      BY <1>1, <2>4, ChangedProfile, SMTT(30)
    <2> HIDE DEF t
    <2>6. Belongs(t)
      BY <1>1, <1>2, <2>4, <2>5 DEF Belongs
    <2> QED
      BY <2>3, <2>5, <2>6
  <1>6. Usable(profileSettings') /\ Belongs(profileSettings') /\ profileSettings'.mine = profileSettings.mine
    BY <1>4, <1>5
  <1> QED
    BY <1>2, <1>3, <1>6, WindowChanged

\* The settings window is opened from the menu, on the selected profile.
LEMMA OpenStep ==
    ASSUME Profile!ProfilesAssumption, ProfileInv, Profile!open_profile_settings
    PROVE  ProfileInv' /\ disk' = disk
  <1> DEFINE index == CHOOSE i \in DOMAIN toolbarProfiles.list.profiles : toolbarProfiles.list.profiles[i].id = toolbarProfiles.list.selected
             s == [open |-> TRUE, mine |-> TRUE, list |-> toolbarProfiles.list, inputs |-> Profile!NoInputs,
                   error |-> "none", index |-> index]
  <1>1. /\ destinationMenu' = <<>> /\ profileSettings' = Profile!load_inputs(s)
        /\ UNCHANGED <<disk, toolbarProfiles, made, edits, failedSaves>>
    BY DEF Profile!open_profile_settings
  <1>2. toolbarProfiles \in AppType /\ GoodList(toolbarProfiles.list) /\ toolbarProfiles.list \in Profile!Lists
    BY DEF ProfileInv, AppInv, GoodList
  <1>3. index \in DOMAIN toolbarProfiles.list.profiles
    <2>1. \E i \in DOMAIN toolbarProfiles.list.profiles : toolbarProfiles.list.profiles[i].id = toolbarProfiles.list.selected
      BY <1>2 DEF GoodList, Profile!HasSelected, Profile!Ids
    <2> QED
      BY <2>1
  <1> HIDE DEF index
  <1>4. s \in SettingsType
    <2>1. index \in Nat
      <3>1. toolbarProfiles.list.profiles \in Seq(Profile!Profs)
        BY <1>2 DEF Profile!Lists
      <3> QED
        BY <1>3, <3>1
    <2>2. Profile!NoInputs \in Profile!InputTexts
      <3>1. Profile!Text("empty") \in Profile!PlainTexts
        BY TextsArePlain DEF Profile!Bases
      <3> QED
        BY <3>1 DEF Profile!NoInputs, Profile!InputTexts, Profile!ProfilesAssumption
    <2> QED
      BY <1>2, <2>1, <2>2 DEF SettingsType
  <1>5. Usable(s)
    BY <1>2, <1>3, <1>4 DEF Usable, GoodList
  <1> HIDE DEF s
  <1>6. Usable(profileSettings') /\ Belongs(profileSettings')
    BY <1>1, <1>5, WindowShown
  <1>7. SettingsInv' /\ MenuInv' /\ NamesInv'
    BY <1>1, <1>6 DEF SettingsInv, MenuInv, NamesInv
  <1>8. DiskInv' /\ AppInv' /\ CountInv' /\ CopyInv'
    BY <1>1 DEF ProfileInv, DiskInv, AppInv, CountInv, CopyInv
  <1> QED
    BY <1>1, <1>7, <1>8 DEF ProfileInv

\* The settings window saves what is valid, to the file and to its own toolbar.
LEMMA SaveStep ==
    ASSUME Profile!ProfilesAssumption, ProfileInv, NEW ok \in BOOLEAN, Profile!SaveProfiles(ok)
    PROVE  /\ ProfileInv'
           /\ failedSaves' = 0 /\ ~(profileSettings.open /\ ~profileSettings'.open) => disk' = disk
  <1> DEFINE c == Profile!commit_inputs(profileSettings)
             list == c.list
             refused == [c EXCEPT !.error = "refused"]
  <1>1. /\ Usable(profileSettings) /\ DiskInv /\ CountInv /\ made \in MaxDefaults .. MaxProfiles
        /\ profileSettings.open => Belongs(profileSettings)
    BY DEF ProfileInv, SettingsInv, CountInv
  <1>2. /\ profileSettings.open /\ UNCHANGED <<destinationMenu, made, edits>>
        /\ IF \E i \in DOMAIN list.profiles : ~Profile!validate(list.profiles[i])
           THEN ok /\ profileSettings' = refused /\ UNCHANGED <<disk, toolbarProfiles, failedSaves>>
           ELSE /\ Profile!save(list, ok)
                /\ profileSettings' = IF ok THEN Profile!NoSettings ELSE refused
                /\ toolbarProfiles' = IF ok /\ profileSettings.mine THEN [toolbarProfiles EXCEPT !.list = list]
                          ELSE IF ok /\ toolbarProfiles.open THEN [toolbarProfiles EXCEPT !.stale = TRUE]
                          ELSE toolbarProfiles
    BY DEF Profile!SaveProfiles, Profile!Committed, Profile!Refused
  <1>3. /\ Usable(c) /\ IdsOf(list) = IdsOf(profileSettings.list)
        /\ DOMAIN list.profiles = DOMAIN profileSettings.list.profiles
        /\ c.index = profileSettings.index /\ c.mine = profileSettings.mine /\ c.inputs = profileSettings.inputs
    BY <1>1, CommitKeeps
  <1> HIDE DEF c
  <1>4. list \in Profile!Lists /\ Profile!HasSelected(list)
    BY <1>3 DEF Usable, SettingsType
  <1>5. Usable(refused) /\ Belongs(refused) /\ refused.mine = profileSettings.mine
    <2>1. /\ refused \in SettingsType /\ refused.list = list /\ refused.index = profileSettings.index
          /\ refused.mine = profileSettings.mine /\ refused.inputs = profileSettings.inputs
      BY <1>3 DEF Usable, SettingsType
    <2>2. list.profiles[profileSettings.index].id = profileSettings.list.profiles[profileSettings.index].id
      <3>1. \A j \in DOMAIN IdsOf(profileSettings.list) : IdsOf(list)[j] = IdsOf(profileSettings.list)[j]
        BY <1>3
      <3>2. profileSettings.index \in DOMAIN profileSettings.list.profiles
        BY <1>1 DEF Usable
      <3> QED
        BY <1>3, <3>1, <3>2 DEF IdsOf
    <2> HIDE DEF refused
    <2> QED
      BY <1>1, <1>2, <1>3, <2>1, <2>2 DEF Usable, Belongs
  <1> HIDE DEF refused
  <1>6. CASE \E i \in DOMAIN list.profiles : ~Profile!validate(list.profiles[i])
    <2>1. profileSettings' = refused /\ UNCHANGED <<disk, toolbarProfiles, failedSaves, destinationMenu, made, edits>>
      BY <1>2, <1>6
    <2>2. edits' \in 0 .. MaxEdits
      BY <1>1, <2>1 DEF CountInv
    <2>3. ProfileInv'
      BY <1>1, <1>5, <2>1, <2>2, WindowChanged
    <2> QED
      BY <2>1, <2>3
  <1>7. CASE \A i \in DOMAIN list.profiles : Profile!validate(list.profiles[i])
    <2>1. /\ Profile!save(list, ok)
          /\ profileSettings' = IF ok THEN Profile!NoSettings ELSE refused
          /\ toolbarProfiles' = IF ok /\ profileSettings.mine THEN [toolbarProfiles EXCEPT !.list = list]
                    ELSE IF ok /\ toolbarProfiles.open THEN [toolbarProfiles EXCEPT !.stale = TRUE]
                    ELSE toolbarProfiles
      BY <1>2, <1>7
    <2>2. GoodList(list)
      <3> SUFFICES ASSUME NEW i \in DOMAIN list.profiles PROVE Fit(list.profiles[i])
        BY <1>4 DEF GoodList
      <3>1. list.profiles[i] \in Profile!Profs
        BY <1>4, ElementOfSeq DEF Profile!Lists
      <3> QED
        BY <1>7, <3>1, FitMeans
    <2> HIDE DEF list
    <2>3. /\ DiskInv' /\ failedSaves' \in 0 .. MaxFailedSaves
          /\ failedSaves' = 0 => ok /\ disk' = list /\ failedSaves = 0
          /\ ok => disk' = list /\ failedSaves' = failedSaves
      BY <1>1, <2>1, <2>2, SaveKeeps
    <2>4. CountInv'
      BY <1>2, <2>3 DEF ProfileInv, CountInv
    <2>5. toolbarProfiles \in AppType /\ GoodList(toolbarProfiles.list)
      BY DEF ProfileInv, AppInv
    <2>6. /\ Usable(Profile!NoSettings) /\ ~Profile!NoSettings.open /\ ~Profile!NoSettings.mine
      <3>1. Profile!Text("empty") \in Profile!PlainTexts
        BY TextsArePlain DEF Profile!Bases
      <3>2. Profile!NoInputs \in Profile!InputTexts
        BY <3>1 DEF Profile!NoInputs, Profile!InputTexts, Profile!ProfilesAssumption
      <3>3. GoodList(Profile!Default) /\ 1 \in DOMAIN Profile!Default.profiles
        BY DefaultIsGood
      <3> QED
        BY <3>2, <3>3 DEF Profile!NoSettings, Usable, SettingsType, GoodList
    <2>7. SettingsInv' /\ (profileSettings'.mine => profileSettings.mine) /\ (ok => ~profileSettings'.open)
      BY <1>5, <2>1, <2>6 DEF SettingsInv
    <2>8. CASE ok /\ profileSettings.mine
      <3>1. toolbarProfiles' = [toolbarProfiles EXCEPT !.list = list]
        BY <2>1, <2>8
      <3>2. AppInv' /\ toolbarProfiles'.list = list /\ toolbarProfiles'.open = toolbarProfiles.open
        BY <2>2, <2>5, <3>1 DEF AppInv, AppType, GoodList
      <3>3. destinationMenu' = <<>> /\ MenuInv' /\ NamesInv'
        BY <1>2, <2>8 DEF ProfileInv, MenuInv, NamesInv
      <3>4. CopyInv'
        BY <2>2, <2>3, <2>8, <3>2, GoodIsRead DEF CopyInv
      <3> QED
        BY <1>2, <2>3, <2>4, <2>7, <2>8, <3>2, <3>3, <3>4 DEF ProfileInv
    <2>9. CASE ok /\ ~profileSettings.mine /\ toolbarProfiles.open
      <3>1. toolbarProfiles' = [toolbarProfiles EXCEPT !.stale = TRUE]
        BY <2>1, <2>9
      <3>2. AppInv' /\ toolbarProfiles'.stale /\ toolbarProfiles'.open = toolbarProfiles.open
        BY <2>5, <3>1 DEF AppInv, AppType, GoodList
      <3>3. MenuInv' /\ NamesInv' /\ CopyInv'
        BY <1>2, <2>7, <3>2 DEF ProfileInv, MenuInv, NamesInv, CopyInv
      <3> QED
        BY <1>2, <2>3, <2>4, <2>7, <2>9, <3>2, <3>3 DEF ProfileInv
    <2>10. CASE ok /\ ~profileSettings.mine /\ ~toolbarProfiles.open
      <3>1. toolbarProfiles' = toolbarProfiles
        BY <2>1, <2>10
      <3>2. AppInv' /\ MenuInv' /\ NamesInv' /\ CopyInv'
        BY <1>2, <2>7, <2>10, <3>1 DEF ProfileInv, AppInv, MenuInv, NamesInv, CopyInv
      <3> QED
        BY <1>2, <2>3, <2>4, <2>7, <2>10, <3>2 DEF ProfileInv
    <2>11. CASE ~ok
      <3>1. toolbarProfiles' = toolbarProfiles /\ profileSettings' = refused /\ failedSaves' # 0
        BY <2>1, <2>3, <2>11
      <3>2. AppInv' /\ MenuInv' /\ NamesInv' /\ CopyInv'
        BY <1>2, <2>7, <3>1 DEF ProfileInv, AppInv, MenuInv, NamesInv, CopyInv
      <3> QED
        BY <2>3, <2>4, <2>7, <3>1, <3>2 DEF ProfileInv
    <2> QED
      BY <2>8, <2>9, <2>10, <2>11
  <1> QED
    BY <1>6, <1>7

-----------------------------------------------------------------------------
(* The theorems. *)

\* Every step keeps the invariant, and none but a save of the settings window takes a
\* profile out of the file while no save has failed.
LEMMA ProfilesStep ==
    ASSUME Profile!ProfilesAssumption, ProfileInv, [Profile!Next]_(Profile!vars)
    PROVE  /\ ProfileInv'
           /\ (/\ Profile!Readable /\ Profile!Readable' /\ failedSaves' = 0 /\ ~toolbarProfiles.stale
               /\ ~(profileSettings.open /\ ~profileSettings'.open))
                  => Profile!Ids(disk) \subseteq Profile!Ids(disk')
  <1>1. CASE UNCHANGED Profile!vars
    BY <1>1 DEF Profile!vars, ProfileInv, DiskInv, AppInv, MenuInv, SettingsInv, CountInv, CopyInv,
                NamesInv, Usable, Belongs, Profile!Ids
  <1>2. CASE Profile!open_capture \/ Profile!close_windows \/ Profile!show_destination_menu \/ Profile!DismissMenu
    <2>1. disk' = disk
      BY <1>2 DEF Profile!open_capture, Profile!close_windows, Profile!show_destination_menu, Profile!DismissMenu
    <2> QED
      BY <1>2, <2>1, ToolbarStep DEF Profile!Ids
  <1>3. CASE \E i \in 1 .. MaxProfiles, ok \in BOOLEAN : Profile!SelectProfile(i, ok)
    BY <1>3, SelectStep
  <1>4. CASE Profile!import_profile_urls
    BY <1>4, ImportsStep
  <1>5. CASE Profile!open_profile_settings
    BY <1>5, OpenStep DEF Profile!Ids
  <1>6. CASE Profile!CloseSettings \/ Profile!TypeText \/ Profile!DeleteLast
               \/ (\E i \in 1 .. MaxProfiles : Profile!select(i))
    BY <1>6, InputsStep DEF Profile!Ids
  <1>7. CASE Profile!add \/ Profile!duplicate
    BY <1>7, AddStep DEF Profile!Ids
  <1>8. CASE Profile!delete
    BY <1>8, DeleteStep DEF Profile!Ids
  <1>9. CASE (\E remote \in BOOLEAN : Profile!set_remote(remote))
               \/ (\E format \in {"mp4", "hls", "bundle"} : Profile!set_format(format))
    BY <1>9, SideStep DEF Profile!Ids
  <1>10. CASE \E ok \in BOOLEAN : Profile!SaveProfiles(ok)
    BY <1>10, SaveStep DEF Profile!Ids
  <1> QED
    BY <1>1, <1>2, <1>3, <1>4, <1>5, <1>6, <1>7, <1>8, <1>9, <1>10 DEF Profile!Next

\* The menu's entry is the profile that becomes selected.
LEMMA PickStep ==
    ASSUME ProfileInv, NEW i \in DOMAIN destinationMenu, NEW ok \in BOOLEAN,
           Profile!SelectProfile(i, ok), failedSaves = 0, ~toolbarProfiles.stale
    PROVE  toolbarProfiles'.list.selected = destinationMenu[i]
  <1>1. destinationMenu # <<>> /\ toolbarProfiles \in AppType /\ toolbarProfiles.list \in Profile!Lists
    BY DEF ProfileInv, AppInv, AppType
  <1>2. i \in DOMAIN toolbarProfiles.list.profiles /\ toolbarProfiles.list.profiles[i].id = destinationMenu[i]
    BY <1>1 DEF ProfileInv, NamesInv, Names
  <1>3. toolbarProfiles' = [toolbarProfiles EXCEPT !.list = [toolbarProfiles.list EXCEPT !.selected = toolbarProfiles.list.profiles[i].id]]
    BY <1>2 DEF Profile!SelectProfile
  <1> QED
    BY <1>1, <1>2, <1>3 DEF AppType, Profile!Lists

\* What the invariant says of the copies of the profiles.
LEMMA CopiesAreSound ==
    ASSUME ProfileInv
    PROVE  InputsBelongToProfile
  <1>1. disk = Profile!Unreadable \/ (disk \in Profile!Lists /\ Profile!HasSelected(disk))
    BY DEF ProfileInv, DiskInv, GoodList
  <1>2. Profile!TypeOK
    BY <1>1 DEF ProfileInv, AppInv, AppType, MenuInv, SettingsInv, Usable, SettingsType, CountInv, Profile!TypeOK
  <1>3. Profile!InputsBelongToProfile
    BY DEF ProfileInv, SettingsInv, Belongs, Profile!InputsBelongToProfile
  <1>4. Profile!SelectedExists
    BY <1>1 DEF ProfileInv, AppInv, GoodList, SettingsInv, Usable, Profile!SelectedExists, Profile!Readable
  <1>5. Profile!SavedIsRecordable
    <2> SUFFICES ASSUME Profile!Readable, NEW i \in DOMAIN disk.profiles
                 PROVE  LET p == disk.profiles[i]
                        IN  Profile!validate(p)
                              \/ (p.remote /\ Profile!validate([p EXCEPT !.text.token = "any"]))
      BY DEF Profile!SavedIsRecordable
    <2>1. GoodList(disk)
      BY DEF ProfileInv, DiskInv, Profile!Readable
    <2>2. disk.profiles[i] \in Profile!Profs /\ Fit(disk.profiles[i])
      BY <2>1, ElementOfSeq DEF GoodList, Profile!Lists
    <2> QED
      BY <2>2, FitMeans
  <1> QED
    BY <1>2, <1>3, <1>4, <1>5 DEF InputsBelongToProfile

\* Whatever is typed, imported, deleted and saved while saves fail and toolbars close,
\* the inputs belong to the profile that they are written to, every copy has its
\* selected profile and what is in the file can be recorded with.
THEOREM ProfilesBelong ==
    ASSUME Profile!ProfilesAssumption
    PROVE  Profile!Spec => []InputsBelongToProfile
  <1>1. Profile!Init => ProfileInv
    BY ProfilesInit
  <1>2. ProfileInv /\ [Profile!Next]_(Profile!vars) => ProfileInv'
    BY ProfilesStep
  <1>3. ProfileInv => InputsBelongToProfile
    BY CopiesAreSound
  <1> QED
    BY <1>1, <1>2, <1>3, PTL DEF Profile!Spec

\* Only a save of the settings window takes a profile out of the file, and the choice in
\* a menu selects the profile that the menu named (delete, import_profile_urls).
THEOREM ProfilesStay ==
    ASSUME Profile!ProfilesAssumption
    PROVE  Profile!Spec => OnlySettingsRemove
  <1> DEFINE Stays ==
               (Profile!Readable /\ Profile!Readable' /\ failedSaves' = 0 /\ ~toolbarProfiles.stale
                  /\ ~(profileSettings.open /\ ~profileSettings'.open))
                 => Profile!Ids(disk) \subseteq Profile!Ids(disk')
             Named == \A i \in DOMAIN destinationMenu, ok \in BOOLEAN :
                        (Profile!SelectProfile(i, ok) /\ failedSaves = 0 /\ ~toolbarProfiles.stale)
                          => toolbarProfiles'.list.selected = destinationMenu[i]
  <1>1. Profile!Init => ProfileInv
    BY ProfilesInit
  <1>2. ProfileInv /\ [Profile!Next]_(Profile!vars) => ProfileInv'
    BY ProfilesStep
  <1>3. ProfileInv /\ [Profile!Next]_(Profile!vars) => Stays
    BY ProfilesStep
  <1>4. ProfileInv => Named
    BY PickStep
  <1>5. ProfileInv /\ [Profile!Next]_(Profile!vars) => [Stays]_(Profile!vars) /\ [Named]_(Profile!vars)
    BY <1>3, <1>4
  <1>6. Profile!OnlySettingsRemove <=> [][Stays]_(Profile!vars)
    BY DEF Profile!OnlySettingsRemove
  <1>7. Profile!PickIsNamed <=> [][Named]_(Profile!vars)
    BY DEF Profile!PickIsNamed
  <1> HIDE DEF Stays, Named
  <1> QED
    BY <1>1, <1>2, <1>5, <1>6, <1>7, PTL DEF Profile!Spec, OnlySettingsRemove
=============================================================================
