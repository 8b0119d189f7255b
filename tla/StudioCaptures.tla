--------------------------- MODULE StudioCaptures ---------------------------
(***************************************************************************)
(* The captures behind a Blip Studio scene (viewer.rs): elements that use  *)
(* sources, one capture per used source, cameras that start in the         *)
(* background, and errors of screen captures that arrive over a channel.   *)
(*                                                                         *)
(* The viewer's methods run one at a time on the main thread; capturers    *)
(* fail, and camera starts end, at any moment in between.  Capturers are   *)
(* numbered in the order they are built, so that the model can tell which  *)
(* one an event is about; the code only has the generation.                *)
(***************************************************************************)
EXTENDS Naturals, Sequences, FiniteSets

CONSTANTS
    Screens,        \* displays and windows
    Cameras,
    Initial,        \* the screen named on the command line
    NoSource,
    MaxElements,    \* bound: elements ever added to the scene
    MaxCapturers    \* bound: capturers ever built

Sources == Screens \cup Cameras

ASSUME StudioAssumption ==
    /\ Initial \in Screens
    /\ Screens \cap Cameras = {}
    /\ NoSource \notin Sources
    /\ MaxElements \in Nat /\ MaxElements >= 2
    /\ MaxCapturers \in Nat

VARIABLES
    scene,      \* element id |-> its source, NoSource before it is added and after it is deleted
    nextId,     \* Scene.next_id
    captures,   \* source |-> the capturer of its CaptureResource, 0 if none
    pending,    \* camera |-> generation of the start under way, 0 if none
    failed,     \* cameras whose last start failed
    nextGen,    \* next_capture_generation
    capturers,  \* every capturer built, with the generation its callback knows
    starts,     \* camera starts under way or not yet reported
    errors      \* capturers whose error is on its way to capture_failed

viewer == <<scene, nextId, captures, pending, failed, nextGen>>
vars == <<scene, nextId, captures, pending, failed, nextGen, capturers, starts, errors>>

Elements == 1..MaxElements
Capturer(s, g) == [source |-> s, generation |-> g, state |-> "running"]
Start == [source : Cameras, generation : Nat, result : {"none", "ok", "err"}, capturer : Nat]

\* running; dead: the system ended it; stopped: by stop(); dropped: released
\* while it was running.
CapturerStates == {"running", "dead", "stopped", "dropped"}

TypeOK ==
    /\ scene \in [Elements -> Sources \cup {NoSource}]
    /\ nextId \in 1..(MaxElements + 1)
    /\ captures \in [Sources -> 0..Len(capturers)]
    /\ pending \in [Cameras -> Nat]
    /\ failed \subseteq Cameras
    /\ nextGen \in Nat
    /\ capturers \in Seq([source : Sources, generation : Nat, state : CapturerStates])
    /\ starts \subseteq Start
    /\ errors \in Seq(1..Len(capturers))

\* Scene.uses_source.
Uses(sc, s) == \E e \in Elements : sc[e] = s

-----------------------------------------------------------------------------
(* view: the restored scene, or two elements that show the initial source.  *)
(* The initial source is captured whether the scene uses it or not, the     *)
(* others if the scene uses them and they start.                            *)

\* Restored projects of one element.
FirstScenes == {[e \in Elements |-> IF e \in {1, 2} THEN Initial ELSE NoSource]}
               \cup {[e \in Elements |-> IF e = 1 THEN s ELSE NoSource] : s \in Sources}

Init ==
    /\ scene \in FirstScenes
    /\ nextId = 1 + Cardinality({e \in Elements : scene[e] # NoSource})
    /\ \E others \in SUBSET {s \in Sources \ {Initial} : Uses(scene, s)} :
          /\ capturers = <<Capturer(Initial, 1)>> \o
                         (IF others = {} THEN <<>>
                          ELSE <<Capturer(CHOOSE s \in others : TRUE, 2)>>)
          /\ captures = [s \in Sources |->
                            IF s = Initial THEN 1 ELSE IF s \in others THEN 2 ELSE 0]
          /\ nextGen = 2 + Cardinality(others)
    /\ pending = [c \in Cameras |-> 0]
    /\ failed = {}
    /\ starts = {}
    /\ errors = <<>>

-----------------------------------------------------------------------------
(* Helpers.                                                                *)

\* build_capturer and start, when they succeed: the next capturer.
Build(s, g) ==
    /\ Len(capturers) < MaxCapturers
    /\ capturers' = Append(capturers, Capturer(s, g))

\* stop() on capturer i, if there is one.
Stopped(cs, i) ==
    IF i = 0 \/ cs[i].state # "running" THEN cs ELSE [cs EXCEPT ![i].state = "stopped"]

\* What is forgotten about a source that no element uses any more.
Forget(s) ==
    /\ pending' = [c \in Cameras |-> IF c = s THEN 0 ELSE pending[c]]
    /\ failed' = failed \ {s}

-----------------------------------------------------------------------------
(* The user's operations.                                                  *)

\* add_capture_target: an element of a screen, whose capture is started if
\* there is none; when it does not start, nothing is added.
AddScreen(s) ==
    /\ nextId <= MaxElements
    /\ \/ captures[s] # 0 /\ UNCHANGED <<captures, capturers>>
       \/ /\ captures[s] = 0
          /\ Build(s, 1)
          /\ captures' = [captures EXCEPT ![s] = Len(capturers')]
    /\ scene' = [scene EXCEPT ![nextId] = s]
    /\ nextId' = nextId + 1
    /\ UNCHANGED <<pending, failed, nextGen, starts, errors>>

\* replace_selected_capture: the selected element shows another screen, and
\* the source it showed is given up if it was its last element.
ReplaceSelected(e, s) ==
    /\ scene[e] \notin {NoSource, s}
    /\ LET previous == scene[e]
           built == IF captures[s] # 0 THEN capturers ELSE Append(capturers, Capturer(s, 1))
           added == IF captures[s] # 0 THEN captures ELSE [captures EXCEPT ![s] = Len(built)]
       IN /\ Len(built) <= MaxCapturers
          /\ scene' = [scene EXCEPT ![e] = s]
          /\ IF Uses(scene', previous)
             THEN captures' = added /\ capturers' = built /\ UNCHANGED <<pending, failed>>
             ELSE /\ Forget(previous)
                  /\ captures' = [added EXCEPT ![previous] = 0]
                  /\ capturers' = Stopped(built, captures[previous])
    /\ UNCHANGED <<nextId, nextGen, starts, errors>>

\* delete_selected: the element goes, and with the last one its capture.
DeleteSelected(e) ==
    /\ scene[e] # NoSource
    /\ scene' = [scene EXCEPT ![e] = NoSource]
    /\ IF Uses(scene', scene[e])
       THEN UNCHANGED <<captures, capturers, pending, failed>>
       ELSE /\ Forget(scene[e])
            /\ captures' = [captures EXCEPT ![scene[e]] = 0]
            /\ capturers' = Stopped(capturers, captures[scene[e]])
    /\ UNCHANGED <<nextId, nextGen, starts, errors>>

\* add_camera_target: the element is added at once, the camera starts in the
\* background unless it is captured or starting already.
AddCamera(c) ==
    /\ nextId <= MaxElements
    /\ scene' = [scene EXCEPT ![nextId] = c]
    /\ nextId' = nextId + 1
    /\ IF captures[c] # 0 \/ pending[c] # 0
       THEN UNCHANGED <<pending, failed, nextGen, starts>>
       ELSE /\ pending' = [pending EXCEPT ![c] = nextGen]
            /\ nextGen' = nextGen + 1
            /\ failed' = failed \ {c}
            /\ starts' = starts \cup {[source |-> c, generation |-> nextGen,
                                       result |-> "none", capturer |-> 0]}
    /\ UNCHANGED <<captures, capturers, errors>>

-----------------------------------------------------------------------------
(* Callbacks.                                                              *)

\* The background task: the capturer is built and started, or not.
CameraTask(st) ==
    /\ st \in starts /\ st.result = "none"
    /\ \/ /\ Build(st.source, st.generation)
          /\ starts' = (starts \ {st}) \cup
                       {[st EXCEPT !.result = "ok", !.capturer = Len(capturers')]}
       \/ /\ starts' = (starts \ {st}) \cup {[st EXCEPT !.result = "err"]}
          /\ UNCHANGED capturers
    /\ UNCHANGED <<viewer, errors>>

\* should_finish_pending_capture.
ShouldFinish(st) == pending[st.source] = st.generation /\ Uses(scene, st.source)

\* Mutant: a capturer nobody wants is left running.
CameraStarted_Leaks(st) ==
    /\ st \in starts /\ st.result # "none"
    /\ starts' = starts \ {st}
    /\ IF ShouldFinish(st)
       THEN /\ pending' = [pending EXCEPT ![st.source] = 0]
            /\ captures' = [captures EXCEPT ![st.source] = st.capturer]
            /\ failed' = IF st.result = "err" THEN failed \cup {st.source} ELSE failed \ {st.source}
       ELSE UNCHANGED <<captures, pending, failed>>
    /\ UNCHANGED <<scene, nextId, nextGen, capturers, errors>>

\* camera_started: a start that is still wanted becomes the capture or a
\* failure; any other capturer is stopped.
CameraStarted(st) ==
    /\ st \in starts /\ st.result # "none"
    /\ starts' = starts \ {st}
    /\ IF ShouldFinish(st)
       THEN /\ pending' = [pending EXCEPT ![st.source] = 0]
            /\ \/ /\ st.result = "ok"
                  /\ captures' = [captures EXCEPT ![st.source] = st.capturer]
                  /\ failed' = failed \ {st.source}
               \/ /\ st.result = "err"
                  /\ failed' = failed \cup {st.source}
                  /\ UNCHANGED captures
            /\ UNCHANGED capturers
       ELSE /\ capturers' = Stopped(capturers, st.capturer)
            /\ UNCHANGED <<captures, pending, failed>>
    /\ UNCHANGED <<scene, nextId, nextGen, errors>>

\* The system ends a screen capture: the stop callback sends the source and
\* the generation it was built with.
ScreenFails(i) ==
    /\ capturers[i].source \in Screens /\ capturers[i].state = "running"
    /\ capturers' = [capturers EXCEPT ![i].state = "dead"]
    /\ errors' = Append(errors, i)
    /\ UNCHANGED <<viewer, starts>>

\* Mutant: the failed generation is compared with the one before the current.
ShouldRestart_OffByOne(s, g) ==
    Uses(scene, s) /\ captures[s] # 0 /\ capturers[captures[s]].generation = g + 1

\* should_restart_capture: the failed generation is the current one.
ShouldRestart(s, g) ==
    /\ Uses(scene, s)
    /\ captures[s] # 0
    /\ capturers[captures[s]].generation = g

\* The capturer of a CaptureResource that is removed without stop().
Released(i) ==
    IF capturers[i].state = "running" THEN [capturers EXCEPT ![i].state = "dropped"]
    ELSE capturers

\* capture_failed: the current capture is released and a new one started with
\* the next generation; when that fails the source stays without a capture.
CaptureFailed ==
    /\ errors # <<>>
    /\ errors' = Tail(errors)
    /\ LET s == capturers[Head(errors)].source
           g == capturers[Head(errors)].generation
       IN IF ShouldRestart(s, g)
          THEN \/ /\ Len(capturers) < MaxCapturers
                  /\ capturers' = Append(Released(captures[s]), Capturer(s, g + 1))
                  /\ captures' = [captures EXCEPT ![s] = Len(capturers')]
               \/ /\ capturers' = Released(captures[s])
                  /\ captures' = [captures EXCEPT ![s] = 0]
          ELSE UNCHANGED <<captures, capturers>>
    /\ UNCHANGED <<scene, nextId, pending, failed, nextGen, starts>>

-----------------------------------------------------------------------------
Next ==
    \/ \E s \in Screens : AddScreen(s)
    \/ \E e \in Elements, s \in Screens : ReplaceSelected(e, s)
    \/ \E e \in Elements : DeleteSelected(e)
    \/ \E c \in Cameras : AddCamera(c)
    \/ \E st \in starts : CameraTask(st) \/ CameraStarted(st)
    \/ \E i \in 1..Len(capturers) : ScreenFails(i)
    \/ CaptureFailed

\* The executor runs the background tasks and the main thread's callbacks.
Fairness ==
    /\ \A c \in Cameras, g \in 1..(MaxElements + 2) :
          WF_vars(\E st \in starts : st.source = c /\ st.generation = g
                                     /\ (CameraTask(st) \/ CameraStarted(st)))
    /\ WF_vars(CaptureFailed)

Spec == Init /\ [][Next]_vars /\ Fairness

-----------------------------------------------------------------------------
(* Properties.                                                             *)

\* A source other than the initial one is captured only while an element uses
\* it: no sequence of adds, replacements, deletions and late camera starts
\* leaves a capture behind.
CapturedIsUsed ==
    \A s \in Sources \ {Initial} : captures[s] # 0 => Uses(scene, s)

\* Every running capturer is the current capture of its source, or a camera
\* start that camera_started has yet to look at: nothing keeps recording
\* without an owner that can stop it.
RunningIsOwned ==
    \A i \in 1..Len(capturers) : capturers[i].state = "running" =>
        \/ captures[capturers[i].source] = i
        \/ \E st \in starts : st.capturer = i

\* A camera shown as loading is used and has exactly the start it waits for
\* under way, and is neither captured nor shown as failed.
PendingIsStarting ==
    \A c \in Cameras : pending[c] # 0 =>
        /\ Uses(scene, c)
        /\ captures[c] = 0 /\ c \notin failed
        /\ \E st \in starts : st.source = c /\ st.generation = pending[c]

\* Deleting and adding a camera again while it starts never lets the older
\* start win: starts still under way are older than the capture.
NewestStartWins ==
    \A st \in starts : captures[st.source] # 0 =>
        st.generation < capturers[captures[st.source]].generation

\* No capture is left behind, runs without an owner, loads without a start or
\* loses to an older start: what adding, replacing, deleting and late starts must
\* keep together.
CapturesOwned == TypeOK /\ CapturedIsUsed /\ RunningIsOwned /\ PendingIsStarting /\ NewestStartWins

\* A failed screen capture never makes the viewer release a capture that is
\* running.
HealthyIsKept == \A i \in 1..Len(capturers) : capturers[i].state # "dropped"

\* The error of a screen capture that ended gets through to the viewer: an
\* ended capture does not stay the capture of its source for ever, whatever
\* other captures end and whatever the user does meanwhile.  (The screen named
\* on the command line is left out: it is captured even when the scene does
\* not use it, and then its error is dropped.)
EndedIsReplaced ==
    \A s \in Screens \ {Initial}, i \in 1..MaxCapturers :
        captures[s] = i /\ capturers[i].state = "dead" ~> captures[s] # i

\* A camera does not load for ever.
CameraSettles == \A c \in Cameras : pending[c] # 0 ~> pending[c] = 0

\* A camera that no element uses any more is switched off.
CameraReleased ==
    \A c \in Cameras :
        ~Uses(scene, c) ~> \/ Uses(scene, c)
                           \/ \A i \in 1..Len(capturers) :
                                 capturers[i].source = c => capturers[i].state # "running"

\* What fails is replaced, what loads comes to an end, and what is not used is
\* switched off.
CapturesSettle == EndedIsReplaced /\ CameraSettles /\ CameraReleased

=============================================================================
