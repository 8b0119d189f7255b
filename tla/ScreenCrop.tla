----------------------------- MODULE ScreenCrop -----------------------------
(***************************************************************************)
(* The crop dialog of the bundle editor: the crop kept with the bundle,    *)
(* the draft that the dialog draws over the picture, and the gestures that *)
(* create, move and resize the draft, along the picture's width.           *)
(*                                                                         *)
(* Places are whole units of the preview, 0 .. Full; Minimum stands for    *)
(* the 0.01 of the code and Radius for the 10 points around a handle,      *)
(* which is also the width of the border that takes presses.  What the     *)
(* other axis decides is an input: the row of handles that a press is      *)
(* near, and whether it is level with the draft.  No crop is the full one. *)
(***************************************************************************)
EXTENDS Integers, Sequences

CONSTANTS Full, Minimum, Radius

CropAssumption ==
    /\ Full \in Nat /\ Minimum \in 1 .. Full - 1
    /\ Radius \in Nat /\ Radius >= Minimum      \* 10 points, and 0.01 of 760 at most

VARIABLES
    stored,     \* bundle.screen_crop
    open,       \* crop_dialog_open
    draft,      \* crop_draft
    drag,       \* crop_drag
    pointer,    \* where the drag has come to, in the picture
    crashed     \* f32::clamp was called with its bounds the wrong way round

vars == <<stored, open, draft, drag, pointer, crashed>>

Crops == [pos : 0 .. Full, size : 0 .. Full]
FULL == [pos |-> 0, size |-> Full]
NoDrag == [kind |-> "none"]
Right(crop) == crop.pos + crop.size
Least(a, b) == IF a < b THEN a ELSE b
Greatest(a, b) == IF a > b THEN a ELSE b
Clamp(x, low, high) == Greatest(low, Least(x, high))
Distance(a, b) == Greatest(a - b, b - a)

\* At least the minimum, and inside the picture.
Usable == {crop \in Crops : crop.size >= Minimum /\ Right(crop) <= Full}

Drags == {NoDrag} \cup [kind : {"Create"}, start : 0 .. Full]
             \cup [kind : {"Move"}, start : 0 .. Full, original : Crops]
             \cup [kind : {"Resize"}, handle : {"Start", "Middle", "End"}, original : Crops]

TypeOK ==
    /\ stored \in Crops /\ draft \in Crops /\ Right(draft) <= Full
    /\ open \in BOOLEAN /\ crashed \in BOOLEAN
    /\ drag \in Drags /\ pointer \in 0 .. Full
    /\ drag # NoDrag => open

Init ==
    /\ stored \in Usable
    /\ draft = stored
    /\ open = FALSE /\ crashed = FALSE
    /\ drag = NoDrag /\ pointer = 0

-----------------------------------------------------------------------------
normalize_screen_crop(crop) ==
    LET pos == Clamp(crop.pos, 0, Full - Minimum)
        size == IF crop.size <= 0 THEN Full - pos ELSE crop.size
    IN  [pos |-> pos, size |-> Least(Greatest(size, Least(Minimum, Full - pos)), Full - pos)]

crop_position_at(x) == Clamp(x, 0, Full)

crop_contains(crop, x) == crop.pos <= x /\ x <= Right(crop)

\* The handles of a row, in the order in which they are looked for.
crop_handle_points(row) ==
    CASE row = "top" -> <<"Start", "Middle", "End">>
      [] row = "middle" -> <<"End", "Start">>
      [] row = "bottom" -> <<"End", "Middle", "Start">>
      [] row = "off" -> << >>

\* Twice the place of a handle, for the middle of an odd size.
HandlePlace(crop, handle) ==
    CASE handle = "Start" -> 2 * crop.pos
      [] handle = "Middle" -> 2 * crop.pos + crop.size
      [] handle = "End" -> 2 * Right(crop)

\* The first handle of the row that is near, if one is.
crop_handle_at(x, row, crop) ==
    LET points == crop_handle_points(row)
        Near(i) == Distance(2 * x, HandlePlace(crop, points[i])) <= 2 * Radius
    IN  {points[i] : i \in {j \in DOMAIN points : Near(j) /\ \A k \in 1 .. j - 1 : ~Near(k)}}

resized_screen_crop(original, handle, x) ==
    CASE handle = "Start" ->
           LET left == Clamp(x, 0, Right(original) - Minimum)
           IN  [pos |-> left, size |-> Right(original) - left]
      [] handle = "End" ->
           [original EXCEPT !.size = Clamp(x, original.pos + Minimum, Full) - original.pos]
      [] handle = "Middle" -> original

\* f32::clamp panics when its lower bound is above the upper one.
ClampPanics(operation) ==
    /\ operation.kind = "Resize"
    /\ \/ operation.handle = "Start" /\ Right(operation.original) < Minimum
       \/ operation.handle = "End" /\ operation.original.pos + Minimum > Full

-----------------------------------------------------------------------------
open_crop_dialog ==
    /\ ~open
    /\ draft' = stored /\ drag' = NoDrag /\ open' = TRUE
    /\ UNCHANGED <<stored, pointer, crashed>>

\* A press in the preview or its border: on a handle, in the draft or outside.
begin_screen_crop(x, row, level) ==
    /\ open /\ drag = NoDrag
    /\ level => row # "off" \/ draft.size >= Minimum   \* a draft this thin is as low
    /\ LET start == crop_position_at(x)
           handles == crop_handle_at(x, row, draft)
       IN  /\ pointer' = start
           /\ CASE handles # {} ->
                     /\ \E handle \in handles :
                           drag' = [kind |-> "Resize", handle |-> handle, original |-> draft]
                     /\ UNCHANGED draft
                [] handles = {} /\ level /\ crop_contains(draft, start) ->
                     /\ drag' = [kind |-> "Move", start |-> start, original |-> draft]
                     /\ UNCHANGED draft
                [] OTHER ->
                     /\ drag' = [kind |-> "Create", start |-> start]
                     /\ draft' = [pos |-> start, size |-> Least(Minimum, Full - start)]
    /\ UNCHANGED <<stored, open, crashed>>

Created(start, x) ==
    [pos |-> Least(start, x), size |-> Greatest(Distance(start, x), Minimum)]

Moved(original, start, x) ==
    [original EXCEPT !.pos = Clamp(@ + x - start, 0, Full - original.size)]

\* What a drag makes of the draft, before it is normalised.
Dragged(operation, x) ==
    CASE operation.kind = "Create" -> Created(operation.start, x)
      [] operation.kind = "Move" -> Moved(operation.original, operation.start, x)
      [] operation.kind = "Resize" ->
           resized_screen_crop(operation.original, operation.handle, x)

drag_screen_crop(x) ==
    /\ drag # NoDrag
    /\ pointer' = crop_position_at(x)
    /\ IF ClampPanics(drag)
       THEN crashed' = TRUE /\ UNCHANGED draft
       ELSE draft' = normalize_screen_crop(Dragged(drag, pointer')) /\ UNCHANGED crashed
    /\ UNCHANGED <<stored, open, drag>>

MouseUp ==
    /\ drag # NoDrag
    /\ drag' = NoDrag
    /\ UNCHANGED <<stored, open, draft, pointer, crashed>>

Reset ==
    /\ open /\ drag = NoDrag
    /\ draft' = FULL
    /\ UNCHANGED <<stored, open, drag, pointer, crashed>>

\* Mutant: the draft is stored as it is.
apply_screen_crop_Raw ==
    /\ open /\ drag = NoDrag
    /\ stored' = draft
    /\ open' = FALSE
    /\ UNCHANGED <<draft, drag, pointer, crashed>>

apply_screen_crop ==
    /\ open /\ drag = NoDrag
    /\ stored' = normalize_screen_crop(draft)
    /\ open' = FALSE
    /\ UNCHANGED <<draft, drag, pointer, crashed>>

\* Cancel and Close are clicks; Escape may come in the middle of a drag.
close_crop_dialog ==
    /\ open
    /\ open' = FALSE /\ drag' = NoDrag
    /\ UNCHANGED <<stored, draft, pointer, crashed>>

Next ==
    /\ ~crashed
    /\ \/ open_crop_dialog
       \/ \E x \in -Radius .. Full + Radius :
             \/ \E row \in {"top", "middle", "bottom", "off"}, level \in BOOLEAN :
                   begin_screen_crop(x, row, level)
             \/ drag_screen_crop(x)
       \/ MouseUp \/ Reset \/ apply_screen_crop \/ close_crop_dialog

Spec == Init /\ [][Next]_vars

-----------------------------------------------------------------------------
\* Whatever was pressed, dragged and applied, the crop kept with the bundle has
\* the minimum size and lies inside the picture (apply_screen_crop, 6778).
StoredIsUsable == stored \in Usable

\* A drag that makes a new crop covers all it went over, at the borders of the
\* picture too, where the minimum size pushes the crop back (drag_screen_crop).
CreateCoversDrag ==
    drag.kind = "Create" => /\ crop_contains(draft, drag.start)
                            /\ crop_contains(draft, pointer)

\* While an edge is dragged the opposite one stays where it was, after the draft is
\* normalised too.  A handle between the edges moves neither, but for a draft that
\* a press left thinner than the minimum at the border: that one is widened from it.
OppositeEdgeStays ==
    [][drag.kind = "Resize" /\ draft' # draft =>
          \/ drag.handle = "Start" /\ Right(draft') = Right(drag.original)
          \/ drag.handle = "End" /\ draft'.pos = drag.original.pos
          \/ /\ drag.handle = "Middle" /\ drag.original.size < Minimum
             /\ draft' = [pos |-> Full - Minimum, size |-> Minimum]]_vars

\* A draft that is moved keeps its size, at the borders of the picture too.
MoveKeepsSize == drag.kind = "Move" => draft.size = drag.original.size

\* All of it: the gestures keep the draft as the dialog shows it, and what they
\* leave in the bundle is usable.
CropIsUsable ==
    /\ [](TypeOK /\ StoredIsUsable /\ CreateCoversDrag /\ MoveKeepsSize)
    /\ OppositeEdgeStays
=============================================================================
