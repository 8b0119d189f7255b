---------------------------- MODULE MCCaptureApp ----------------------------
(***************************************************************************)
(* A behaviour of CaptureApp with fewer parameters in one of two ways      *)
(* (`scene`): toolbars that are opened and closed over recordings that may *)
(* be lost, with a display only; and one toolbar with windows and regions  *)
(* to select.                                                              *)
(***************************************************************************)
EXTENDS CaptureApp

VARIABLE scene

Toolbars == INSTANCE CaptureApp WITH Windows <- {}, Regions <- {}, Tiny <- {}

Selections == INSTANCE CaptureApp WITH
    MaxToolbars <- 1, MaxRecordings <- 1, MaxLost <- 0, MaxFaults <- 0

ASSUME BoundsAssumption ==
    CaptureAssumption /\ Toolbars!CaptureAssumption /\ Selections!CaptureAssumption

ScenesInit ==
    \/ scene = "toolbars" /\ Toolbars!Init
    \/ scene = "selections" /\ Selections!Init

ScenesNext ==
    \/ scene = "toolbars" /\ Toolbars!Next /\ UNCHANGED scene
    \/ scene = "selections" /\ Selections!Next /\ UNCHANGED scene

\* Recorder threads run and the main thread receives their events, whatever the
\* parameters: no bound is in these steps.
ScenesSpec == ScenesInit /\ [][ScenesNext]_<<scene, vars>> /\ Fairness
=============================================================================
