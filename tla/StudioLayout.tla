---------------------------- MODULE StudioLayout ----------------------------
(***************************************************************************)
(* How an element is placed on the canvas of Blip Studio (viewer.rs):      *)
(* moved and resized by the pointer with snapping to the canvas, nudged by *)
(* the arrow keys, set by typed numbers, and fitted to another source.     *)
(*                                                                         *)
(* One element and one axis.  The code works in fractions of the canvas;   *)
(* here the canvas is Canvas units long, a centre is counted in half units *)
(* (so that the edges of an element are centre - size and centre + size,   *)
(* in half units too), and a pointer position in whole units.  A source is *)
(* fitted into the element's box: what is drawn along this axis is the     *)
(* box, or a part of it when the source is narrower than the box.          *)
(*                                                                         *)
(* The pointer works on the picture on screen, which is composed from an   *)
(* earlier layout, while its results go into the layout.                   *)
(***************************************************************************)
EXTENDS Integers, Sequences, FiniteSets

CONSTANTS
    Canvas,         \* the canvas, in units
    Pointers,       \* where the pointer can be, on the canvas or beside it
    Typed,          \* what can be typed into the inspector
    Threshold,      \* SNAP_THRESHOLD_PX
    MinSize,        \* MIN_ITEM_SCALE
    MaxSize,        \* bound: sizes
    MaxEdits        \* bound: gestures, keys and typed numbers

LayoutAssumption ==
    /\ Canvas \in Nat \ {0} /\ Canvas % 4 = 0
    /\ Pointers \subseteq Int /\ Typed \subseteq Int
    /\ Threshold \in Nat /\ MinSize \in Nat /\ MinSize >= 2 /\ MaxSize \in Nat
    /\ MaxEdits \in Nat

VARIABLES
    layout,     \* the element's layout: [center, size]
    shrink,     \* the part of the box its source fills: 1 or a half
    rendered,   \* the element in the picture on screen: [center, size] as drawn
    drag,       \* drag_operation
    pressed,    \* how the gesture began: the pointer, the centre on screen, and whether
                \* the picture on screen was that of the layout
    edits       \* gestures, keys and typed numbers so far

vars == <<layout, shrink, rendered, drag, pressed, edits>>

Box == [center : Int, size : Nat]
NoDrag == [kind |-> "none"]
NotPressed == [pointer |-> 0, center |-> 0, current |-> FALSE]
Clamp(x, lo, hi) == IF x < lo THEN lo ELSE IF x > hi THEN hi ELSE x
Abs(x) == IF x < 0 THEN -x ELSE x
Greater(x, y) == IF x > y THEN x ELSE y

TypeOK ==
    /\ layout \in Box /\ layout.size > 0 /\ edits \in 0..MaxEdits
    /\ shrink \in {1, 2}
    /\ rendered \in Box
    /\ \/ drag = NoDrag
       \/ drag.kind = "move" /\ drag.offset \in Int
       \/ drag.kind = "resize" /\ drag.size \in Nat /\ drag.anchor \in Int

\* full_canvas_layout and inset_layout.
NewLayouts == {[center |-> Canvas, size |-> Canvas], [center |-> Canvas, size |-> Canvas \div 2]}

\* element_transform and aspect_fit_size.
Transform(l, s) == [center |-> l.center, size |-> l.size \div s]

\* The edge of a box on one side of its centre.
Edge(b, side) == b.center + side * b.size

\* The border of the canvas on one side.
Border(side) == IF side < 0 THEN 0 ELSE 2 * Canvas

\* Bound: boxes whose drawn part is a whole number of units.
Whole(size, s) == size \in s..MaxSize /\ size % s = 0

\* One more edit.
Edit == edits < MaxEdits /\ edits' = edits + 1

\* How a gesture begins.
Begun(p) == [pointer |-> p, center |-> rendered.center,
             current |-> rendered = Transform(layout, shrink)]

Init ==
    /\ layout \in NewLayouts
    /\ shrink \in {1, 2}
    /\ rendered = Transform(layout, shrink)
    /\ drag = NoDrag /\ pressed = NotPressed /\ edits = 0

-----------------------------------------------------------------------------
(* Moving.                                                                 *)

\* The places an element snaps to: its left edge, its centre and its right
\* edge to those of the canvas, each with the centre it then has.
Snaps(center, size) ==
    << [at |-> center - size, target |-> 0, center |-> size],
       [at |-> center, target |-> Canvas, center |-> Canvas],
       [at |-> center + size, target |-> 2 * Canvas, center |-> 2 * Canvas - size] >>

\* snapped_move_axis: the nearest place within the threshold, the first of
\* those that are equally near.
SnappedMove(center, size) ==
    LET snaps == Snaps(center, size)
        distance(i) == Abs(snaps[i].target - snaps[i].at)
        near == {i \in 1..3 : distance(i) <= 2 * Threshold}
    IN IF near = {} THEN center
       ELSE snaps[CHOOSE i \in near : \A j \in near :
                     \/ distance(i) < distance(j)
                     \/ distance(i) = distance(j) /\ i <= j].center

\* begin_drag on the element: the pointer's place on it is taken with
\* normalized_position, which does not leave the canvas.
PressToMove(p) ==
    /\ Edit
    /\ drag = NoDrag
    /\ Edge(rendered, -1) <= 2 * p /\ 2 * p <= Edge(rendered, 1)
    /\ drag' = [kind |-> "move", offset |-> 2 * Clamp(p, 0, Canvas) - rendered.center]
    /\ pressed' = Begun(p)
    /\ UNCHANGED <<layout, shrink, rendered>>

\* reposition_item, with normalized_position_unclamped.
Reposition(p) ==
    /\ drag.kind = "move"
    /\ layout' = [layout EXCEPT !.center = SnappedMove(2 * p - drag.offset, rendered.size)]
    /\ UNCHANGED <<shrink, rendered, drag, pressed, edits>>

-----------------------------------------------------------------------------
(* Resizing by the handle of an edge.                                      *)

\* begin_drag on a handle: resize_operation.  The opposite edge of what is
\* drawn is the anchor.
PressToResize(side) ==
    /\ Edit
    /\ drag = NoDrag
    /\ drag' = [kind |-> "resize", side |-> side, size |-> layout.size, drawn |-> rendered.size,
                anchor |-> Edge(rendered, -side)]
    /\ pressed' = Begun(0)
    /\ UNCHANGED <<layout, shrink, rendered>>

\* resized_item: what is drawn reaches from the anchor to the pointer, and
\* the box is scaled by the same ratio, which keeps it at MinSize or more.
\* The ratio is drawn / d.drawn.
Drawn(d, edge) == (d.side * (edge - d.anchor)) \div 2
LeastDrawn(d) == (MinSize * d.drawn + d.size - 1) \div d.size

\* resized_item_with_border_snap: a moving edge near the border of the canvas
\* it moves towards is put on it, if the element is large enough for that.
SnappedDrawn(d, p) ==
    LET drawn == Greater(Drawn(d, 2 * p), LeastDrawn(d))
        border == Border(d.side)
    IN IF Abs(d.anchor + 2 * d.side * drawn - border) > 2 * Threshold THEN drawn
       ELSE Greater(Drawn(d, border), LeastDrawn(d))

\* Mutant: the element is scaled about its centre.
Resized_Centred(d, drawn) ==
    [center |-> pressed.center, size |-> (d.size * drawn) \div d.drawn]
\* The centre is half of what is drawn away from the anchor.
Resized(d, drawn) ==
    [center |-> d.anchor + d.side * drawn, size |-> (d.size * drawn) \div d.drawn]

\* resize_item.
Resize(p) ==
    /\ drag.kind = "resize"
    /\ LET l == Resized(drag, SnappedDrawn(drag, p))
       IN Whole(l.size, shrink) /\ layout' = l
    /\ UNCHANGED <<shrink, rendered, drag, pressed, edits>>

\* end_drag.
EndDrag ==
    /\ drag # NoDrag
    /\ drag' = NoDrag /\ pressed' = NotPressed
    /\ UNCHANGED <<layout, shrink, rendered, edits>>

-----------------------------------------------------------------------------
(* The keyboard.  A press in the preview takes the focus from the inputs,  *)
(* so numbers are typed between gestures; the arrow keys work at any time. *)

\* move_selected: nudged_center, by one unit, within the canvas.
Nudged(center, delta) == Clamp(center + 2 * delta, 0, 2 * Canvas)
MoveSelected(delta) ==
    /\ Edit
    /\ layout' = [layout EXCEPT !.center = Nudged(@, delta)]
    /\ UNCHANGED <<shrink, rendered, drag, pressed>>

\* set_transform_value for X: the left edge as drawn is put at the number.
TypePosition(v) ==
    /\ Edit
    /\ drag = NoDrag
    /\ layout' = [layout EXCEPT !.center = 2 * v + rendered.size]
    /\ UNCHANGED <<shrink, rendered, drag, pressed>>

\* set_transform_value for Width: the box is scaled so that what is drawn is
\* as wide as the number, and at least one unit.
TypeSize(v) ==
    /\ Edit
    /\ drag = NoDrag
    /\ LET size == (layout.size * Greater(v, 1)) \div rendered.size
       IN Whole(size, shrink) /\ layout' = [layout EXCEPT !.size = size]
    /\ UNCHANGED <<shrink, rendered, drag, pressed>>

\* replace_selected_capture: the box stays, another source is fitted into it.
ReplaceSource ==
    /\ Edit
    /\ drag = NoDrag
    /\ shrink' = 3 - shrink /\ Whole(layout.size, shrink')
    /\ UNCHANGED <<layout, rendered, drag, pressed>>

-----------------------------------------------------------------------------
(* Pictures.                                                               *)

\* run_compositor and show_frame: the picture on screen becomes that of the
\* layout.  Until it does, any number of edits later, it is an earlier one.
ShowFrame ==
    /\ rendered # Transform(layout, shrink)
    /\ rendered' = Transform(layout, shrink)
    /\ UNCHANGED <<layout, shrink, drag, pressed, edits>>

-----------------------------------------------------------------------------
Next ==
    \/ \E p \in Pointers : PressToMove(p) \/ Reposition(p) \/ Resize(p)
    \/ \E side \in {-1, 1} : PressToResize(side)
    \/ EndDrag
    \/ \E delta \in {-1, 1} : MoveSelected(delta)
    \/ \E v \in Typed : TypePosition(v) \/ TypeSize(v)
    \/ ReplaceSource
    \/ ShowFrame

Spec == Init /\ [][Next]_vars

-----------------------------------------------------------------------------
(* Properties.                                                             *)

\* Dragging the handle of one edge leaves the opposite edge where it is on
\* screen, for a source that fills the box as for one that does not, if the
\* drag began on a picture of the current layout (resized_item).
AnchorStays ==
    [][\A p \in Pointers : (Resize(p) /\ pressed.current) =>
          Edge(Transform(layout', shrink), -drag.side) = drag.anchor]_vars

\* After a resize the moving edge is where the pointer holds it, in whole
\* units, or on the border of the canvas it moves towards, when that is near;
\* in either case no nearer to the anchor than the least size allows
\* (resized_item_with_border_snap).
Reach(edge) ==
    LET least == drag.anchor + 2 * drag.side * LeastDrawn(drag)
    IN IF drag.side * (edge - least) > 0 THEN edge ELSE least
ResizeReachesPointer ==
    [][\A p \in Pointers : (Resize(p) /\ pressed.current) =>
          LET edge == Edge(Transform(layout', shrink), drag.side)
              held == Reach(2 * p)
              border == Reach(Border(drag.side))
          IN /\ layout'.size >= MinSize
             /\ \/ Abs(edge - held) <= 1
                \/ Abs(edge - border) <= 1 /\ Abs(border - held) <= 2 * Threshold + 1]_vars

\* What is moved goes where the pointer takes it, or to the nearest place at
\* which an edge or the centre meets that of the canvas when one is within
\* the threshold, if the drag began on the canvas (snapped_move_axis).
Wanted(p) == pressed.center + 2 * (p - pressed.pointer)
MoveSnapsToNearest ==
    [][\A p \in Pointers : (Reposition(p) /\ pressed.pointer \in 0..Canvas) =>
          LET off(c) == Abs(c - Wanted(p))
              aligned == {rendered.size, Canvas, 2 * Canvas - rendered.size}
              near == {c \in aligned : off(c) <= 2 * Threshold}
          IN IF near = {} THEN layout'.center = Wanted(p)
             ELSE /\ layout'.center \in near
                  /\ \A c \in near : off(layout'.center) <= off(c)]_vars
=============================================================================
