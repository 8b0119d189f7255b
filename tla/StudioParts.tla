---------------------------- MODULE StudioParts -----------------------------
(***************************************************************************)
(* What the user edits in the studio: the scene with its list and its      *)
(* file, and the place and size of one element on the canvas.  The two     *)
(* share no state here: StudioScene has layouts as values, StudioLayout    *)
(* has what becomes of one of them.                                        *)
(***************************************************************************)
CONSTANTS
    Captures, FirstDisplay, Colors, DefaultColor, NoColor,      \* StudioScene
    Layouts, NewLayout, MaxId, MaxColorId, MaxFailures,
    CanvasSize, Pointers, Typed, Threshold, MinSize, MaxSize,   \* StudioLayout
    MaxEdits

VARIABLES
    elements, nextElement, colors, nextColor, selected, framed, request, composed, rendered,
    shown, drag, listDrag, saved, failures, stale,
    layout, shrink, onScreen, handle, pressed, edits

Scene == INSTANCE StudioScene WITH Initial <- FirstDisplay, nextId <- nextElement

Canvas == INSTANCE StudioLayout WITH
    Canvas <- CanvasSize, rendered <- onScreen, drag <- handle

sceneVars == <<elements, nextElement, colors, nextColor, selected, framed, request, composed,
               rendered, shown, drag, listDrag, saved, failures, stale>>
layoutVars == <<layout, shrink, onScreen, handle, pressed, edits>>

-----------------------------------------------------------------------------
\* While no gesture is under way the file holds the scene as it is, unless the
\* last save failed, and only for its selection could the next start refuse it;
\* the id the next element gets belongs to nothing the viewer still refers to; and
\* colours are kept for exactly the sources in use (StudioScene).
SceneIsKept ==
    /\ Scene!TypeOK
    /\ Scene!SavedBetweenGestures /\ Scene!OnlySelectionRefused
    /\ Scene!FreshId /\ Scene!ColorsAreUsed

\* A drag changes what is dragged and nothing else: the other rows of the list stay
\* in their order; the opposite edge of a resized element stays where it is on
\* screen, and the dragged one goes where the pointer holds it; and what is moved
\* snaps to the nearest place (StudioScene!OthersKeepOrder, StudioLayout).
DragsKeepTheRest ==
    /\ Scene!OthersKeepOrder
    /\ Canvas!AnchorStays /\ Canvas!ResizeReachesPointer /\ Canvas!MoveSnapsToNearest
    /\ []Canvas!TypeOK
=============================================================================
