----------------------------- MODULE CropDialog -----------------------------
(***************************************************************************)
(* The crop dialog of the bundle editor under names of its own, for        *)
(* modules that have other parts of the editor beside it.                  *)
(***************************************************************************)
CONSTANTS Full, Minimum, Radius

VARIABLES stored, open, draft, drag, pointer, crashed

Crop == INSTANCE ScreenCrop

cropVars == <<stored, open, draft, drag, pointer, crashed>>

-----------------------------------------------------------------------------
\* The crop kept with the bundle is usable, a drag covers what it went over, a crop
\* that is moved keeps its size, and one that is resized its opposite edge
\* (ScreenCrop!CropIsUsable).
CropIsUsable == Crop!CropIsUsable
=============================================================================
