-------------------------- MODULE MCRecordingParts --------------------------
(***************************************************************************)
(* What records beside the capture application's recorder thread: the      *)
(* tracks of a file or bundle, with their clocks; `blip record` on the     *)
(* command line; and the headless studio.  They share no state: `part`     *)
(* says which one moves, the others stay as they began.                    *)
(***************************************************************************)
EXTENDS CliRecording, RecordingTracks, FiniteSets

VARIABLES
    part,
    pipeline, started, sent, callback, lock, latest, frames, received, picture, metrics, reported,
    drained, expired

\* A bundle ("bundle") is recorded for less time than a file ("clocks"), one of its
\* tracks has a single sample, and its samples have the time of the shared clock, while
\* those of a file may have none, so that times of two clocks meet.
Bounds ==
    part = "bundle" =>
        /\ clock <= 1
        /\ captured["screen"].count + captured["audio"].count + captured["camera"].count <= 5
        /\ \A i \in DOMAIN trackQueue : trackQueue[i] # Media!Finish => trackQueue[i].norm
        /\ \A i \in DOMAIN cameraQueue : cameraQueue[i].norm

\* Two cameras, one of them not in the scene, with three frames each: enough for
\* a frame to be overwritten while another one is drained.
Headless == INSTANCE HeadlessStudio WITH
    Cameras <- {"c1", "c2"}, Shown <- {"c1"}, CaptureOnly <- FALSE, MaxFrames <- 3, None <- "none"

ASSUME PartsAssumption ==
    Media!TracksAssumption /\ RecordingAssumption /\ Headless!HeadlessAssumption

headlessVars == <<pipeline, started, sent, callback, lock, latest, frames, received, picture,
                  metrics, reported, drained, expired>>
allVars == <<part, tracksVars, vars, headlessVars>>

PartsInit ==
    /\ part \in {"bundle", "clocks", "cli", "headless"}
    /\ Media!Init /\ (bundle <=> part = "bundle") /\ Bounds
    /\ Init
    /\ Headless!Init

PartsNext ==
    \/ /\ part \in {"bundle", "clocks"} /\ Media!Next
       /\ UNCHANGED <<part, vars, headlessVars>> /\ Bounds'
    \/ part = "cli" /\ Next /\ UNCHANGED <<part, tracksVars, headlessVars>>
    \/ part = "headless" /\ Headless!Next /\ UNCHANGED <<part, tracksVars, vars>>

\* The fairness of the command and of the headless studio, of the one that moves.
Fairness ==
    /\ WF_vars(part = "cli" /\ MainStep)
    /\ WF_vars(part = "cli" /\ WriterStep)
    /\ WF_vars(part = "cli" /\ StreamRuns)
    /\ WF_headlessVars(part = "headless" /\ Headless!PipelineStep)
    /\ \A c \in {"c1", "c2"} : WF_headlessVars(part = "headless" /\ Headless!Callback(c))

PartsSpec == PartsInit /\ [][PartsNext]_allVars /\ Fairness

-----------------------------------------------------------------------------
\* Once somebody asks for the end, the capture is lost or the writer has failed,
\* `blip record` ends; and so does the headless studio when its time is over
\* (CliRecording!RecordEnds, HeadlessStudio!PipelineEnds).
RecordingEnds ==
    /\ part = "cli" => RecordEnds
    /\ part = "headless" => Headless!PipelineEnds

\* A frame of a camera in the scene is in a picture, itself or a later one in its
\* place, no picture goes back to an older frame, and the reports add up, whatever
\* callback counts while one is made (HeadlessStudio!NewestIsShown,
\* PicturesGoForward, NumbersAreTrue).
HeadlessIsTrue ==
    /\ part = "headless" => Headless!NewestIsShown
    /\ Headless!PicturesGoForward
    /\ [](part = "headless" => Headless!NumbersAreTrue)
=============================================================================
