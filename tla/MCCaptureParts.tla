--------------------------- MODULE MCCaptureParts ---------------------------
(***************************************************************************)
(* The parts of the capture application, of which a behaviour moves one    *)
(* (`part`); the others stay as they began.  The constants bound them all. *)
(***************************************************************************)
EXTENDS CaptureParts, Integers, Sequences

VARIABLE part

\* Cameras that come and go while one is chosen.
List == INSTANCE CameraPreview WITH
    Delivering <- FALSE, MaxWindows <- MaxPreviews, MaxActions <- MaxChoices, MaxCycles <- 0,
    MaxFaults <- 0, faults <- cameraFaults

\* A camera that delivers frames, and a window whose style is changed.
Style == INSTANCE CameraPreview WITH
    Cameras <- {"c1"}, MaxWindows <- 1, MaxActions <- 1, MaxFaults <- MaxCameraFaults,
    faults <- cameraFaults

\* The three copies of the profiles, with imports and saves that fail.
Copies == INSTANCE Profiles WITH
    MaxDefaults <- 2, MaxEdits <- 0, MaxFaults <- MaxFailedSaves,
    app <- toolbarProfiles, menu <- destinationMenu, settings <- profileSettings,
    faults <- failedSaves

\* The settings window, whose texts are typed and put into profiles.
Typed == INSTANCE Profiles WITH
    MaxProfiles <- 2, MaxLinks <- 1, MaxFaults <- 0,
    app <- toolbarProfiles, menu <- destinationMenu, settings <- profileSettings,
    faults <- failedSaves

ASSUME BoundsAssumption ==
    /\ PartsAssumption /\ List!CameraAssumption /\ Style!CameraAssumption
    /\ Copies!ProfilesAssumption /\ Typed!ProfilesAssumption

vars == <<part, cameraVars, profileVars, regionVars>>

Init ==
    /\ part \in {"list", "style", "copies", "typed", "region"}
    /\ part \in {"list", "style"} \/ cameras = <<>>
    /\ IF part = "style" THEN Style!Init ELSE List!Init
    /\ part \in {"copies", "typed"} \/ disk = Copies!Default
    /\ IF part = "typed" THEN Typed!Init ELSE Copies!Init
    /\ Region!Init

Next ==
    \/ part = "list" /\ List!Next /\ UNCHANGED <<part, profileVars, regionVars>>
    \/ part = "style" /\ Style!Next /\ UNCHANGED <<part, profileVars, regionVars>>
    \/ part = "copies" /\ Copies!Next /\ UNCHANGED <<part, cameraVars, regionVars>>
    \/ part = "typed" /\ Typed!Next /\ UNCHANGED <<part, cameraVars, regionVars>>
    \/ part = "region" /\ Region!Next /\ UNCHANGED <<part, cameraVars, profileVars>>

\* The fairness of the preview, when it moves.
Fairness ==
    /\ WF_cameraVars(part = "style" /\ 1 \in DOMAIN previews /\ Style!CaptureStarted(1))
    /\ WF_cameraVars(part = "style" /\ 1 \in DOMAIN previews /\ Style!WorkerStep(1))
    /\ WF_cameraVars(part = "style" /\ 1 \in DOMAIN previews /\ Style!ShowFrame(1))

Spec == Init /\ [][Next]_vars /\ Fairness

-----------------------------------------------------------------------------
\* The chosen style is shown although the camera delivers nothing any more, and a
\* camera is switched off once its preview is gone (CameraPreview).
StyleSettles == part = "style" => Style!StyleSettles /\ Style!CameraReleased
=============================================================================
