--------------------------- MODULE HeadlessStudio ---------------------------
(***************************************************************************)
(* The studio without a window: cameras whose callbacks put their newest   *)
(* frame into LatestFrames and count it in Metrics, and the pipeline that  *)
(* drains the frames, composes a picture of the scene and reports the      *)
(* counts every second until its time is over.                             *)
(*                                                                         *)
(* A frame is its number at its camera.  The callbacks hold the lock of    *)
(* the frames while they count; Metrics has a lock of its own, so a report *)
(* may come between two counts of one frame.  Waiting for a frame ends     *)
(* after a tenth of a second, so draining needs the lock and no frame.     *)
(***************************************************************************)
EXTENDS Integers, FiniteSets

CONSTANTS
    Cameras,        \* the camera sources of the scene
    Shown,          \* those that an element refers to
    CaptureOnly,    \* args.capture_only
    MaxFrames,      \* bound on the frames of a camera
    None

HeadlessAssumption ==
    /\ IsFiniteSet(Cameras) /\ Cameras # {} /\ Shown \subseteq Cameras
    /\ CaptureOnly \in BOOLEAN /\ MaxFrames \in Nat /\ None \notin Cameras

VARIABLES
    pipeline,   \* "starting", "loop", "drained", "composed", "stopping", "stopped"
    started,    \* capturers that run
    sent,       \* frames that each camera has delivered
    callback,   \* what each camera's callback does next
    lock,       \* the callback that holds the lock of LatestFrames
    latest,     \* LatestFrames.frames, 0 for none
    frames,     \* the frames that the pipeline keeps
    received,   \* the last drain found a frame
    picture,    \* the frames of the last picture
    metrics,    \* Metrics.inner
    reported,   \* the sum of what was reported
    drained,    \* frames taken out of latest
    expired     \* the deadline has passed

vars == <<pipeline, started, sent, callback, lock, latest, frames, received, picture,
          metrics, reported, drained, expired>>

captureVars == <<sent, callback, lock>>

Numbers == [Cameras -> 0 .. MaxFrames]
Nothing == [c \in Cameras |-> 0]
NoCounts == [captured |-> 0, overwritten |-> 0, composed |-> 0]
Filled(f) == {c \in Cameras : f[c] # 0}

TypeOK ==
    /\ pipeline \in {"starting", "loop", "drained", "composed", "stopping", "stopped"}
    /\ started \subseteq Cameras
    /\ {sent, latest, frames, picture} \subseteq Numbers
    /\ callback \in [Cameras -> {"idle", "overwrite", "capture"}]
    /\ lock \in Cameras \cup {None}
    /\ received \in BOOLEAN /\ expired \in BOOLEAN
    /\ \A c \in Cameras : callback[c] # "idle" <=> lock = c

Init ==
    /\ pipeline = "starting" /\ started = {} /\ expired = FALSE
    /\ sent = Nothing /\ callback = [c \in Cameras |-> "idle"] /\ lock = None
    /\ latest = Nothing /\ frames = Nothing /\ picture = Nothing
    /\ metrics = NoCounts /\ reported = NoCounts
    /\ received = FALSE /\ drained = 0

-----------------------------------------------------------------------------
\* run: the cameras are started one after the other; an error ends them all.
StartCamera(c) ==
    /\ pipeline = "starting" /\ c \notin started
    /\ \/ started' = started \cup {c} /\ UNCHANGED pipeline
       \/ started' = {} /\ pipeline' = "stopped"
    /\ UNCHANGED <<captureVars, latest, frames, received, picture, metrics, reported, drained, expired>>

\* run_pipeline, as far as its loop: the compositor may not come up.
RunPipeline ==
    /\ pipeline = "starting" /\ started = Cameras
    /\ pipeline' \in IF CaptureOnly THEN {"loop"} ELSE {"loop", "stopping"}
    /\ UNCHANGED <<started, captureVars, latest, frames, received, picture, metrics, reported,
                   drained, expired>>

-----------------------------------------------------------------------------
\* LatestFrames::submit in the camera's callback, in three steps.
Submit(c) ==
    /\ c \in started /\ lock = None /\ sent[c] < MaxFrames
    /\ lock' = c
    /\ sent' = [sent EXCEPT ![c] = @ + 1]
    /\ latest' = [latest EXCEPT ![c] = sent[c] + 1]
    /\ callback' = [callback EXCEPT ![c] = IF latest[c] # 0 THEN "overwrite" ELSE "capture"]
    /\ UNCHANGED <<pipeline, started, frames, received, picture, metrics, reported, drained, expired>>

record_overwrite(c) ==
    /\ callback[c] = "overwrite"
    /\ metrics' = [metrics EXCEPT !.overwritten = @ + 1]
    /\ callback' = [callback EXCEPT ![c] = "capture"]
    /\ UNCHANGED <<pipeline, started, sent, lock, latest, frames, received, picture, reported,
                   drained, expired>>

\* The last count; the lock is released.
record_capture(c) ==
    /\ callback[c] = "capture"
    /\ metrics' = [metrics EXCEPT !.captured = @ + 1]
    /\ callback' = [callback EXCEPT ![c] = "idle"]
    /\ lock' = None
    /\ UNCHANGED <<pipeline, started, sent, latest, frames, received, picture, reported, drained,
                   expired>>

-----------------------------------------------------------------------------
\* Mutant: a frame that the pipeline already has stays.
wait_and_drain_First ==
    /\ pipeline = "loop" /\ ~expired /\ lock = None
    /\ frames' = [c \in Cameras |-> IF frames[c] # 0 THEN frames[c] ELSE latest[c]]
    /\ received' = (Filled(latest) # {})
    /\ drained' = drained + Cardinality(Filled(latest))
    /\ latest' = Nothing
    /\ pipeline' = "drained"
    /\ UNCHANGED <<started, captureVars, picture, metrics, reported, expired>>

\* LatestFrames::wait_and_drain and the loop over what it returns.
wait_and_drain ==
    /\ pipeline = "loop" /\ ~expired /\ lock = None
    /\ frames' = [c \in Cameras |-> IF latest[c] # 0 THEN latest[c] ELSE frames[c]]
    /\ received' = (Filled(latest) # {})
    /\ drained' = drained + Cardinality(Filled(latest))
    /\ latest' = Nothing
    /\ pipeline' = "drained"
    /\ UNCHANGED <<started, captureVars, picture, metrics, reported, expired>>

Composes == ~CaptureOnly /\ received /\ Filled(frames) # {}

\* compose: a failing compositor ends the pipeline, without a last report.
compose ==
    /\ pipeline = "drained"
    /\ \/ /\ Composes
          /\ picture' = [c \in Cameras |-> IF c \in Shown THEN frames[c] ELSE 0]
          /\ metrics' = [metrics EXCEPT !.composed = @ + 1]
          /\ pipeline' = "composed"
       \/ Composes /\ pipeline' = "stopping" /\ UNCHANGED <<picture, metrics>>
       \/ ~Composes /\ pipeline' = "composed" /\ UNCHANGED <<picture, metrics>>
    /\ UNCHANGED <<started, captureVars, latest, frames, received, reported, drained, expired>>

\* metrics.take() for a report.
take ==
    /\ reported' = [k \in DOMAIN reported |-> reported[k] + metrics[k]]
    /\ metrics' = NoCounts

\* The report is due once a second.
Report ==
    /\ pipeline = "composed"
    /\ take \/ UNCHANGED <<metrics, reported>>
    /\ pipeline' = "loop"
    /\ UNCHANGED <<started, captureVars, latest, frames, received, picture, drained, expired>>

\* The loop ends; the last report covers what was counted since the one before.
Deadline ==
    /\ pipeline = "loop" /\ expired
    /\ take
    /\ pipeline' = "stopping"
    /\ UNCHANGED <<started, captureVars, latest, frames, received, picture, drained, expired>>

Expire ==
    /\ pipeline \in {"loop", "drained", "composed"} /\ ~expired
    /\ expired' = TRUE
    /\ UNCHANGED <<pipeline, started, captureVars, latest, frames, received, picture, metrics,
                   reported, drained>>

\* Every camera is stopped, after an error too.
Stop ==
    /\ pipeline = "stopping"
    /\ pipeline' = "stopped" /\ started' = {}
    /\ UNCHANGED <<captureVars, latest, frames, received, picture, metrics, reported, drained, expired>>

Callback(c) == record_overwrite(c) \/ record_capture(c)
PipelineStep == wait_and_drain \/ compose \/ Report \/ Deadline \/ Stop

Done == pipeline = "stopped" /\ UNCHANGED vars

Next ==
    \/ \E c \in Cameras : StartCamera(c) \/ Submit(c) \/ Callback(c)
    \/ RunPipeline \/ PipelineStep \/ Expire
    \/ Done

Spec == Init /\ [][Next]_vars /\ WF_vars(PipelineStep)
             /\ \A c \in Cameras : WF_vars(Callback(c))

-----------------------------------------------------------------------------
\* While no callback counts, every frame is counted once: what was captured has
\* been overwritten, was drained or still waits, whatever reports came between.
CountsAddUp ==
    lock = None =>
       metrics.captured + reported.captured =
          metrics.overwritten + reported.overwritten + drained + Cardinality(Filled(latest))

\* There are never more pictures than drained frames: a picture needs a new frame.
PicturesNeedFrames == metrics.composed + reported.composed <= drained

\* What the reports say is true of what happened.
NumbersAreTrue == TypeOK /\ CountsAddUp /\ PicturesNeedFrames

\* A camera's frame in the picture is never replaced by an older one.
PicturesGoForward ==
    [][\A c \in Cameras : picture'[c] >= picture[c]]_vars

\* A frame of a camera that the scene shows is in a picture, itself or a later one
\* in its place, unless the pipeline is over first.
NewestIsShown ==
    \A c \in Shown, n \in 1 .. MaxFrames :
       (sent[c] = n /\ ~CaptureOnly /\ pipeline # "starting") ~>
          (picture[c] >= n \/ expired \/ pipeline \in {"stopping", "stopped"})

\* When its time is over or the compositor fails, the pipeline ends, and the cameras
\* with it: no callback keeps the lock and no error path leaves a camera running.
PipelineEnds ==
    (expired \/ pipeline = "stopping") ~> (pipeline = "stopped" /\ started = {})
=============================================================================
