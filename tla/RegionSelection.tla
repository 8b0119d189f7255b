--------------------------- MODULE RegionSelection ---------------------------
(***************************************************************************)
(* The region of the capture overlay of one display, along its width: the  *)
(* gestures that create, move and resize it, the typed fields, and the     *)
(* rounding of every result to whole points.                               *)
(*                                                                         *)
(* Lengths are in half points, since the pointer is often between two      *)
(* points; a rounded length is even.  What the other axis decides is an    *)
(* input: the row of handles that a press is near, and whether it is level *)
(* with the region.  Elsewhere is a region on another display, which also  *)
(* takes the releases that this overlay does not see.  The typed fields    *)
(* may hold any number.                                                    *)
(***************************************************************************)
EXTENDS Integers, Sequences

CONSTANTS
    Width,          \* of the display
    Minimum,        \* 16 points
    Radius,         \* 9 points around a handle
    MaxGestures,    \* bound on the presses of a behaviour
    None, Elsewhere

Even(n) == n % 2 = 0

RegionAssumption ==
    /\ Width \in Nat /\ Even(Width) /\ Minimum \in 2 .. Width /\ Even(Minimum)
    /\ Radius \in Nat /\ MaxGestures \in Nat
    /\ None # Elsewhere

VARIABLES
    region,     \* selection.region, which the overlays draw
    chosen,     \* the application's region, which is recorded
    drag,       \* region_drag of this overlay
    narrow,     \* a region under the minimum size was typed or taken up by a press
    gestures    \* presses so far

vars == <<region, chosen, drag, narrow, gestures>>

NoDrag == [kind |-> "none"]
Here(r) == r \notin {None, Elsewhere}
Right(r) == r.pos + r.size
Least(a, b) == IF a < b THEN a ELSE b
Greatest(a, b) == IF a > b THEN a ELSE b
Distance(a, b) == Greatest(a - b, b - a)

Bounds == [pos : Int, size : Int]
Handles == {"Start", "Middle", "End"}
Drags == {NoDrag} \cup [kind : {"Create"}, start : Int]
             \cup [kind : {"Move"}, start : Int, original : Bounds]
             \cup [kind : {"Resize"}, handle : Handles, start : Int, original : Bounds]

TypeOK ==
    /\ \A r \in {region, chosen} : Here(r) => r \in Bounds /\ Even(r.pos) /\ Even(r.size)
    /\ drag \in Drags
    /\ narrow \in BOOLEAN /\ gestures \in 0 .. MaxGestures

Init ==
    /\ region = None /\ chosen = None
    /\ drag = NoDrag /\ narrow = FALSE /\ gestures = 0

-----------------------------------------------------------------------------
\* Halves are rounded away from zero.
Rounded(n) == IF n >= 0 THEN 2 * ((n + 1) \div 2) ELSE -2 * ((1 - n) \div 2)

rounded_bounds(r) == [pos |-> Rounded(r.pos), size |-> Rounded(r.size)]

normalized_bounds(a, b) == [pos |-> Least(a, b), size |-> Distance(a, b)]

moved_bounds(original, x, start) ==
    [original EXCEPT !.pos = Least(Greatest(@ + x - start, 0),
                                   Greatest(Width - original.size, 0))]

\* The handles of a row, in the order in which they are looked for.
region_handle_points(row) ==
    CASE row = "top" -> <<"Start", "Middle", "End">>
      [] row = "middle" -> <<"End", "Start">>
      [] row = "bottom" -> <<"End", "Middle", "Start">>
      [] row = "off" -> << >>

HandlePlace(r, handle) ==
    CASE handle = "Start" -> r.pos
      [] handle = "Middle" -> r.pos + r.size \div 2
      [] handle = "End" -> Right(r)

\* The first handle of the row that is near, if one is.
region_handle_at(x, row, r) ==
    LET points == region_handle_points(row)
        Near(i) == Distance(x, HandlePlace(r, points[i])) <= Radius
    IN  {points[i] : i \in {j \in DOMAIN points : Near(j) /\ \A k \in 1 .. j - 1 : ~Near(k)}}

\* Mutant: the right edge goes along when the left one is dragged.
resized_bounds_Slides(original, handle, x, start) ==
    IF handle = "Start" THEN moved_bounds(original, x, start) ELSE original

resized_bounds(original, handle, x, start) ==
    CASE handle = "Start" ->
           LET left == Least(Greatest(original.pos + x - start, 0), Right(original) - Minimum)
           IN  [pos |-> left, size |-> Right(original) - left]
      [] handle = "End" ->
           LET right == Least(Greatest(Right(original) + x - start, original.pos + Minimum), Width)
           IN  [original EXCEPT !.size = right - original.pos]
      [] handle = "Middle" -> original

select_region(r) == region' = r /\ chosen' = r

-----------------------------------------------------------------------------
\* A press on a handle, in the region, or anywhere else; a drag that was not
\* seen to end is replaced.
begin_region(x, row, level) ==
    /\ gestures < MaxGestures
    /\ LET handles == IF Here(region) THEN region_handle_at(x, row, region) ELSE {}
       IN  CASE handles # {} ->
                  /\ \E handle \in handles :
                        drag' = [kind |-> "Resize", handle |-> handle, start |-> x,
                                 original |-> region]
                  /\ UNCHANGED region
             [] handles = {} /\ level /\ Here(region) /\ region.pos <= x /\ x < Right(region) ->
                  /\ drag' = [kind |-> "Move", start |-> x, original |-> region]
                  /\ UNCHANGED region
             [] OTHER -> drag' = [kind |-> "Create", start |-> x] /\ region' = None
    /\ narrow' = (narrow \/ (Here(region) /\ region.size < Minimum))
    /\ gestures' = gestures + 1
    /\ UNCHANGED chosen

\* What a drag makes of the region; the code does not ask whether the button is down.
Dragged(x) ==
    CASE drag.kind = "Create" -> normalized_bounds(drag.start, x)
      [] drag.kind = "Move" -> moved_bounds(drag.original, x, drag.start)
      [] drag.kind = "Resize" -> resized_bounds(drag.original, drag.handle, x, drag.start)

drag_region(x) ==
    /\ drag # NoDrag
    /\ region' = rounded_bounds(Dragged(x))
    /\ UNCHANGED <<chosen, drag, narrow, gestures>>

finish_region ==
    /\ drag # NoDrag
    /\ drag' = NoDrag
    /\ CASE region = None -> UNCHANGED <<region, chosen>>
         [] Here(region) /\ region.size < Minimum -> region' = None /\ UNCHANGED chosen
         [] OTHER -> select_region(region)
    /\ UNCHANGED <<narrow, gestures>>

\* Another display: its region replaces this one, and this overlay's drag goes on
\* when the button was released over there.
SelectElsewhere ==
    /\ gestures < MaxGestures
    /\ select_region(Elsewhere)
    /\ gestures' = gestures + 1
    /\ UNCHANGED <<drag, narrow>>

\* The fields are shown on the display that has the region.
set_region_field(field, value) ==
    /\ gestures < MaxGestures
    /\ Here(region) /\ drag = NoDrag
    /\ LET r == IF field = "X"
                THEN [region EXCEPT !.pos = Least(Greatest(value, 0), Greatest(Width - region.size, 0))]
                ELSE [region EXCEPT !.size = Least(Greatest(value, 2), Greatest(Width - region.pos, 2))]
       IN  /\ select_region(r)
           /\ narrow' = (narrow \/ r.size < Minimum)
    /\ gestures' = gestures + 1
    /\ UNCHANGED drag

\* Another mode: the region is forgotten, and the overlay drops its drag.
set_mode ==
    /\ region' = None /\ chosen' = None /\ drag' = NoDrag
    /\ UNCHANGED <<narrow, gestures>>

Next ==
    \/ \E x \in 0 .. Width :
          \/ \E row \in {"top", "middle", "bottom", "off"}, level \in BOOLEAN :
                begin_region(x, row, level)
          \/ drag_region(x)
    \/ finish_region \/ SelectElsewhere \/ set_mode
    \/ \E field \in {"X", "Width"}, value \in {n \in -2 .. Width + 2 : Even(n)} :
          set_region_field(field, value)

Spec == Init /\ [][Next]_vars

-----------------------------------------------------------------------------
\* Unless a region under the minimum was typed, or left by a drag whose end was
\* not seen and pressed again, the region stays on its display; rounding the place and the width apart adds at most a point for every press.
RegionInside ==
    ~narrow /\ Here(region) => region.pos >= 0 /\ Right(region) <= Width + 2 * gestures

\* Dragging an edge leaves the opposite one where it was, up to the point that
\* rounding may add, whatever the pointer does and however often it comes back.
OppositeEdgeStays ==
    drag.kind = "Resize" /\ Here(region) =>
       /\ drag.handle = "Start" =>
             Right(region) - Right(drag.original) \in 0 .. 2
       /\ drag.handle = "End" => region.pos = drag.original.pos

\* A moved region keeps its size, and the drag that moves it never loses it.
MoveKeepsSize ==
    drag.kind = "Move" /\ Here(region) => region.size = drag.original.size

\* Resizing a region that is on its display and large enough never loses it: when
\* the button is released there is a region, of the minimum size at least, and it
\* is the one that will be recorded.
ResizeKeepsRegion ==
    [][drag.kind = "Resize" /\ drag' = NoDrag /\ gestures' = gestures /\ Here(region) /\ chosen' # None =>
          LET original == drag.original IN
          original.pos >= 0 /\ Right(original) <= Width /\ original.size >= Minimum =>
             Here(region') /\ region'.size >= Minimum /\ chosen' = region']_vars
=============================================================================
