---------------------------- MODULE CaptureParts ----------------------------
(***************************************************************************)
(* The parts of the capture application beside its toolbar: the camera     *)
(* preview, the recording profiles and the geometry of a region.  They     *)
(* share no state with each other or with the toolbar; what each promises  *)
(* holds whichever of them moves.                                          *)
(***************************************************************************)
CONSTANTS
    Cameras, Delivering,                            \* CameraPreview
    MaxPreviews, MaxChoices, MaxCycles, MaxCameraFaults,
    Servers, Tokens,                                \* Profiles
    MaxDefaults, MaxProfiles, MaxEdits, MaxLinks, MaxFailedSaves,
    Width, Minimum, Radius, MaxGestures,            \* RegionSelection
    NoRegion, Elsewhere

VARIABLES
    cameras, selected_camera, camera_window, menu, actions, previews, cameraFaults,
    disk, toolbarProfiles, destinationMenu, profileSettings, made, edits, failedSaves,
    region, chosen, regionDrag, narrow, gestures

Camera == INSTANCE CameraPreview WITH
    MaxWindows <- MaxPreviews, MaxActions <- MaxChoices, MaxFaults <- MaxCameraFaults,
    faults <- cameraFaults

Profile == INSTANCE Profiles WITH
    MaxFaults <- MaxFailedSaves, app <- toolbarProfiles, menu <- destinationMenu,
    settings <- profileSettings, faults <- failedSaves

Region == INSTANCE RegionSelection WITH None <- NoRegion, drag <- regionDrag

PartsAssumption ==
    Camera!CameraAssumption /\ Profile!ProfilesAssumption /\ Region!RegionAssumption

cameraVars == <<cameras, selected_camera, camera_window, menu, actions, previews, cameraFaults>>
profileVars == <<disk, toolbarProfiles, destinationMenu, profileSettings, made, edits, failedSaves>>
regionVars == <<region, chosen, regionDrag, narrow, gestures>>

-----------------------------------------------------------------------------
\* The camera on the screen is the selected one, however the list has changed
\* under its index, and there is never a second preview (CameraPreview).
PreviewFollowsSelection == Camera!TypeOK /\ Camera!PreviewFollowsSelection

\* What is typed for one profile never becomes the name or the server of another,
\* every copy has its selected profile, and what is saved can be recorded with
\* (Profiles).
InputsBelongToProfile ==
    /\ Profile!TypeOK
    /\ Profile!InputsBelongToProfile /\ Profile!SelectedExists /\ Profile!SavedIsRecordable

\* Choosing a profile or importing one never takes another out of the file, and a
\* choice selects the profile that the menu named (Profiles).
OnlySettingsRemove == Profile!OnlySettingsRemove /\ Profile!PickIsNamed

\* Dragging an edge of a region leaves the opposite one where it was and never
\* loses the region, moving it keeps its size, and it stays on its display
\* (RegionSelection).
OppositeEdgeStays ==
    /\ [](/\ Region!TypeOK /\ Region!RegionInside
          /\ Region!OppositeEdgeStays /\ Region!MoveKeepsSize)
    /\ Region!ResizeKeepsRegion
=============================================================================
