---------------------------- MODULE CameraPreview ----------------------------
(***************************************************************************)
(* The camera of Blip Capture (camera_preview.rs and main.rs): the list of *)
(* cameras that a poll refreshes, the selection by index, the preview      *)
(* window with its capture, which starts in the background, and the thread *)
(* that crops each frame to the style the user has chosen.                 *)
(*                                                                         *)
(* A frame is the fact that there is one; what it is cropped to is what    *)
(* matters.  Every preview window ever opened has a record.                *)
(***************************************************************************)
EXTENDS Integers, Sequences, FiniteSets

CONSTANTS
    Cameras,
    Delivering,         \* whether the cameras deliver frames
    MaxWindows,         \* bound: preview windows opened
    MaxActions,         \* bound: choices waiting in the camera channel
    MaxCycles,          \* bound: changes of a window's style
    MaxFaults           \* bound: frames that cannot be rendered

CameraAssumption ==
    /\ Cardinality(Cameras) \in Nat /\ Delivering \in BOOLEAN
    /\ {MaxWindows, MaxActions, MaxCycles, MaxFaults} \subseteq Nat

VARIABLES
    cameras,            \* the cameras as the application knows them
    selected_camera,    \* an index, 0 for None
    camera_window,      \* the window that the application has a handle of, 0 for None
    menu,               \* how many cameras the open menu names, -1 when it is closed
    actions,            \* camera_receiver
    previews,           \* every CameraPreview
    faults

appVars == <<cameras, selected_camera, camera_window>>
vars == <<appVars, menu, actions, previews, faults>>

Lists == {s \in UNION {[1..n -> Cameras] : n \in 0..Cardinality(Cameras)} :
             \A i, j \in DOMAIN s : s[i] = s[j] => i = j}
Styles == 0..2
Squirectangle == 2

\* The channels hold one frame each; a full one loses what it holds (force_send).
Preview(device) ==
    [device |-> device, open |-> TRUE, capturer |-> "starting",
     requested |-> Squirectangle, cycles |-> 0,     \* requested_style, stored in shared_style
     latest |-> FALSE,                              \* latest_camera_frame
     queue |-> FALSE,                               \* processor_receiver
     worker |-> "start", loaded |-> Squirectangle,   \* the thread, the style it has loaded
     processed |-> "none", result |-> Squirectangle,    \* processed_receiver
     style |-> Squirectangle, frame |-> FALSE, error |-> FALSE]

PreviewType ==
    [device : Cameras, open : BOOLEAN, capturer : {"starting", "on", "failed", "off"},
     requested : Styles, cycles : 0..MaxCycles, latest : BOOLEAN, queue : BOOLEAN,
     worker : {"start", "recv", "load", "render", "ended"}, loaded : Styles,
     processed : {"none", "ok", "err"}, result : Styles,
     style : Styles, frame : BOOLEAN, error : BOOLEAN]

TypeOK ==
    /\ cameras \in Lists /\ selected_camera \in 0..Cardinality(Cameras)
    /\ camera_window \in 0..Len(previews)
    /\ menu \in -1..Cardinality(Cameras)
    /\ actions \in Seq(0..Cardinality(Cameras)) /\ Len(actions) <= MaxActions
    /\ previews \in Seq(PreviewType) /\ Len(previews) <= MaxWindows
    /\ faults \in 0..MaxFaults

Init ==
    /\ cameras \in Lists /\ selected_camera = 0 /\ camera_window = 0
    /\ menu = -1 /\ actions = <<>> /\ previews = <<>> /\ faults = 0

(* Choosing a camera *)

\* The window is removed and its view dropped: the capture stops if it runs.
Closed(p) == [previews[p] EXCEPT !.open = FALSE,
                                 !.capturer = IF @ = "on" THEN "off" ELSE @]
CloseWindow == IF camera_window = 0 THEN previews
               ELSE [previews EXCEPT ![camera_window] = Closed(camera_window)]

show_camera_menu ==
    /\ menu = -1
    /\ menu' = Len(cameras)
    /\ UNCHANGED <<appVars, actions, previews, faults>>

\* An entry of the menu sends its index, 0 for "No Camera"; or nothing is picked.
PickCamera ==
    /\ menu # -1 /\ menu' = -1
    /\ \/ /\ Len(actions) < MaxActions
          /\ \E i \in 0..menu : actions' = Append(actions, i)
       \/ UNCHANGED actions
    /\ UNCHANGED <<appVars, previews, faults>>

\* The button of the preview.
ClosePreview ==
    /\ \E p \in DOMAIN previews : previews[p].open
    /\ Len(actions) < MaxActions
    /\ actions' = Append(actions, 0)
    /\ UNCHANGED <<appVars, menu, previews, faults>>

\* Cmd-W on the preview removes the window; the application keeps its handle.
CloseBehind ==
    \E p \in DOMAIN previews :
        /\ previews[p].open
        /\ previews' = [previews EXCEPT ![p] = Closed(p)]
        /\ UNCHANGED <<appVars, menu, actions, faults>>

\* The preview may fail to open; an index that the list has no more is kept.
select_camera(i) ==
    IF i \notin DOMAIN cameras
    THEN selected_camera' = i /\ camera_window' = 0 /\ previews' = CloseWindow
    ELSE \/ /\ Len(previews) < MaxWindows
            /\ selected_camera' = i
            /\ previews' = Append(CloseWindow, Preview(cameras[i]))
            /\ camera_window' = Len(previews')
         \/ selected_camera' = 0 /\ camera_window' = 0 /\ previews' = CloseWindow

HandleAction ==
    /\ actions # <<>>
    /\ select_camera(Head(actions))
    /\ actions' = Tail(actions)
    /\ UNCHANGED <<cameras, menu, faults>>

Position(list, id) == IF \E i \in DOMAIN list : list[i] = id
                      THEN CHOOSE i \in DOMAIN list : list[i] = id
                      ELSE 0

\* Mutant: the index is kept when the list changes.
update_camera_snapshot_SameIndex ==
    \E list \in Lists :
        LET selected == IF selected_camera \in DOMAIN list THEN selected_camera ELSE 0
            disconnected == selected_camera # 0 /\ selected = 0
        IN
        /\ cameras' = list
        /\ selected_camera' = selected
        /\ camera_window' = IF disconnected THEN 0 ELSE camera_window
        /\ previews' = IF disconnected THEN CloseWindow ELSE previews
        /\ UNCHANGED <<menu, actions, faults>>

\* The poll found any list, a while ago.
update_camera_snapshot ==
    \E list \in Lists :
        LET selected == IF selected_camera \in DOMAIN cameras
                        THEN Position(list, cameras[selected_camera]) ELSE 0
            disconnected == selected_camera # 0 /\ selected = 0
        IN
        /\ cameras' = list
        /\ selected_camera' = selected
        /\ camera_window' = IF disconnected THEN 0 ELSE camera_window
        /\ previews' = IF disconnected THEN CloseWindow ELSE previews
        /\ UNCHANGED <<menu, actions, faults>>

(* One preview *)

Update(p, preview) ==
    /\ previews' = [previews EXCEPT ![p] = preview]
    /\ UNCHANGED <<appVars, menu, actions>>

\* The start ends in the background: a capture that nobody waits for is dropped.
CaptureStarted(p) ==
    LET w == previews[p] IN
    /\ w.capturer = "starting"
    /\ \/ Update(p, [w EXCEPT !.capturer = IF w.open THEN "on" ELSE "off"])
       \/ Update(p, [w EXCEPT !.capturer = "failed", !.error = w.open])
    /\ UNCHANGED faults

\* The camera may deliver before CameraCapturer::start has returned.
CameraFrame(p) ==
    LET w == previews[p] IN
    /\ Delivering /\ w.capturer \in {"starting", "on"}
    /\ Update(p, [w EXCEPT !.latest = TRUE, !.queue = TRUE])
    /\ UNCHANGED faults

cycle_style_NoResend(p) ==
    LET w == previews[p] IN
    /\ w.open /\ w.cycles < MaxCycles
    /\ Update(p, [w EXCEPT !.requested = (@ + 1) % 3, !.cycles = @ + 1])
    /\ UNCHANGED faults

cycle_style(p) ==
    LET w == previews[p] IN
    /\ w.open /\ w.cycles < MaxCycles
    /\ Update(p, [w EXCEPT !.requested = (@ + 1) % 3, !.cycles = @ + 1,
                           !.queue = @ \/ w.latest])
    /\ UNCHANGED faults

\* The channel into the thread has a sender in the view and one in the capture.
Disconnected(w) == ~w.open /\ w.capturer \in {"off", "failed"}

\* process_camera_frames: without a compositor it ends at once.
WorkerStarts(p) ==
    LET w == previews[p] IN
    /\ w.worker = "start"
    /\ \/ /\ Update(p, [w EXCEPT !.worker = "recv"])
          /\ UNCHANGED faults
       \/ /\ faults < MaxFaults /\ faults' = faults + 1
          /\ Update(p, [w EXCEPT !.worker = "ended", !.processed = "err"])

WorkerReceives(p) ==
    LET w == previews[p] IN
    /\ w.worker = "recv"
    /\ \/ /\ w.queue
          /\ Update(p, [w EXCEPT !.queue = FALSE, !.worker = "load"])
       \/ /\ ~w.queue /\ Disconnected(w)
          /\ Update(p, [w EXCEPT !.worker = "ended"])
    /\ UNCHANGED faults

WorkerLoads(p) ==
    LET w == previews[p] IN
    /\ w.worker = "load"
    /\ Update(p, [w EXCEPT !.worker = "render", !.loaded = w.requested])
    /\ UNCHANGED faults

\* The result goes nowhere, and the thread ends, once the loop below has gone.
WorkerRenders(p) ==
    \E next \in IF previews[p].open THEN {"recv"} ELSE {"recv", "ended"} :
        LET w == [previews[p] EXCEPT !.worker = next] IN
        /\ previews[p].worker = "render"
        /\ \/ /\ Update(p, [w EXCEPT !.processed = "ok", !.result = w.loaded])
              /\ UNCHANGED faults
           \/ /\ faults < MaxFaults /\ faults' = faults + 1
              /\ Update(p, [w EXCEPT !.processed = "err"])

\* The loop that shows what was rendered begins when the start has ended.
ShowFrame(p) ==
    LET w == previews[p] IN
    /\ w.open /\ w.capturer # "starting" /\ w.processed # "none"
    /\ IF w.processed = "ok"
       THEN Update(p, [w EXCEPT !.processed = "none", !.style = w.result, !.frame = TRUE,
                                !.error = FALSE])
       ELSE Update(p, [w EXCEPT !.processed = "none", !.error = TRUE])
    /\ UNCHANGED faults

WorkerStep(p) == WorkerStarts(p) \/ WorkerReceives(p) \/ WorkerLoads(p) \/ WorkerRenders(p)

Next ==
    \/ show_camera_menu \/ PickCamera \/ ClosePreview \/ CloseBehind \/ HandleAction
    \/ update_camera_snapshot
    \/ \E p \in DOMAIN previews : CameraFrame(p) \/ cycle_style(p) \/ CaptureStarted(p)
                                   \/ WorkerStep(p) \/ ShowFrame(p)

\* The background start ends, the thread runs and the main thread shows its results.
\* Nothing makes the camera deliver frames.
Fairness ==
    \A p \in 1..MaxWindows :
        /\ WF_vars(p \in DOMAIN previews /\ CaptureStarted(p))
        /\ WF_vars(p \in DOMAIN previews /\ WorkerStep(p))
        /\ WF_vars(p \in DOMAIN previews /\ ShowFrame(p))

Spec == Init /\ [][Next]_vars /\ Fairness

-----------------------------------------------------------------------------
(* Properties *)

\* The camera on the screen is the one the toolbar says is selected, however the list
\* has changed under the index, and there is never a second preview.
PreviewFollowsSelection ==
    \A p \in DOMAIN previews : previews[p].open =>
        /\ p = camera_window
        /\ selected_camera \in DOMAIN cameras
        /\ previews[p].device = cameras[selected_camera]

Exists(p) == p \in DOMAIN previews

\* A camera is switched off, and its thread ends, once its preview is gone, also when it
\* was still starting then.
CameraReleased ==
    \A p \in 1..MaxWindows :
        (Exists(p) /\ ~previews[p].open)
            ~> (Exists(p) /\ previews[p].capturer \in {"off", "failed"}
                          /\ previews[p].worker = "ended")

\* The style the user has chosen is shown although the camera delivers nothing any more,
\* unless the frame cannot be rendered.
StyleSettles ==
    \A p \in 1..MaxWindows :
        (Exists(p) /\ previews[p].latest /\ previews[p].requested # previews[p].style)
            ~> (Exists(p) /\ (\/ ~previews[p].open \/ previews[p].error
                              \/ previews[p].requested = previews[p].style))
=============================================================================
