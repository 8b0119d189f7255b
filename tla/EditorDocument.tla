--------------------------- MODULE EditorDocument ---------------------------
(***************************************************************************)
(* The document of the bundle editor under names of its own, for modules   *)
(* that have other parts of the editor beside it or several instances of   *)
(* it with other bounds.                                                   *)
(***************************************************************************)
CONSTANTS MinSegment, MinRange, ZoomLength, Inputs, Looks, MaxId, MaxFaults, MaxOpens

VARIABLES
    segments, zooms, look, duration, current, range, selected, cutMode, gesture, disk, saved,
    edited, faults, opens

Document == INSTANCE Editor

-----------------------------------------------------------------------------
\* Between gestures the file has what is in memory, unless the last save failed:
\* no handler forgets to save, and none saves too early (Editor).
SavedBetweenGestures == Document!SavedBetweenGestures
=============================================================================
