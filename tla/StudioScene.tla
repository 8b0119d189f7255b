---------------------------- MODULE StudioScene ----------------------------
(***************************************************************************)
(* The scene a Blip Studio user arranges (viewer.rs) and the project file  *)
(* it is kept in (project.rs): elements in drawing order, the selection,   *)
(* the colours of colour sources, gestures in the preview and in the list  *)
(* of elements, saves, and restarts.                                       *)
(*                                                                         *)
(* The preview is hit-tested against the elements of the last picture that *)
(* was shown (rendered_elements), and a picture is composed on another     *)
(* thread from an earlier state of the scene: an element the user sees and *)
(* clicks need not exist any more.  What captures and how layouts are      *)
(* computed are StudioCaptures and StudioLayout; a layout is a value here. *)
(***************************************************************************)
EXTENDS Naturals, Sequences, FiniteSets, SequencesExt, FiniteSetsExt

CONSTANTS
    Captures,       \* displays, windows and cameras
    Initial,        \* the display named on the command line
    Colors,         \* what a colour source can be set to
    DefaultColor,   \* the colour of a new colour source
    NoColor,        \* the colour of an element that is not of a colour source
    Layouts,        \* layouts; the first ones are those of new elements
    NewLayout,
    MaxId,          \* bound: element ids
    MaxColorId,     \* bound: ids of colour sources
    MaxFailures     \* bound: saves that fail

SceneAssumption ==
    /\ Initial \in Captures /\ DefaultColor \in Colors /\ NoColor \notin Colors
    /\ NewLayout \in Layouts
    /\ Captures \cap (1..MaxColorId) = {}
    /\ MaxId \in Nat /\ MaxId >= 2 /\ MaxColorId \in Nat /\ MaxFailures \in Nat

VARIABLES
    elements,   \* Scene.elements, in drawing order
    nextId,     \* Scene.next_id
    colors,     \* colour source |-> its colour, NoColor if it has none
    nextColor,  \* next_color_source_id
    selected,   \* selected_item, 0 if none
    framed,     \* captures the event loop has a frame of (source_frames)
    request,    \* ids in the picture the compositor is to compose or composes
    composed,   \* ids in the composed picture that waits to be shown
    rendered,   \* rendered_elements: ids in the picture on screen
    shown,      \* whether a picture was shown yet (content_dimensions)
    drag,       \* drag_operation: the element moved or resized, 0 if none
    listDrag,   \* scene_dragging_item: the row dragged, 0 if none
    saved,      \* the project file
    failures,   \* saves that failed, for the bound
    stale       \* the last save failed

sceneVars == <<elements, nextId, colors, nextColor>>
pictureVars == <<framed, request, composed, rendered, shown>>
gestureVars == <<drag, listDrag>>
fileVars == <<saved, failures, stale>>
vars == <<sceneVars, selected, pictureVars, gestureVars, fileVars>>

ColorIds == 1..MaxColorId
Sources == Captures \cup ColorIds
Ids == 1..MaxId
Element == [id : Ids, source : Sources, layout : Layouts]
SavedElement == [id : Ids, source : Sources, layout : Layouts, color : Colors \cup {NoColor}]
NoPicture == {0}
NoProject == [elements |-> <<>>, selected |-> MaxId + 1]

IdsOf(s) == {s[i].id : i \in DOMAIN s}
Uses(s, source) == \E i \in DOMAIN s : s[i].source = source
PlaceOf(s, id) == CHOOSE i \in DOMAIN s : s[i].id = id
ElementOf(s, id) == s[PlaceOf(s, id)]
Without(s, id) == RemoveAt(s, PlaceOf(s, id))

\* No two elements have one id.
Distinct(s) == \A i, j \in DOMAIN s : s[i].id = s[j].id => i = j

TypeOK ==
    /\ elements \in Seq(Element) /\ Distinct(elements)
    /\ nextId \in 1..(MaxId + 1) /\ nextColor \in 1..(MaxColorId + 1)
    /\ colors \in [ColorIds -> Colors \cup {NoColor}]
    /\ selected \in 0..MaxId /\ drag \in 0..MaxId /\ listDrag \in 0..MaxId
    /\ framed \subseteq Captures
    /\ \A p \in {request, composed} : p = NoPicture \/ p \subseteq Ids
    /\ rendered \subseteq Ids
    /\ shown \in BOOLEAN /\ stale \in BOOLEAN /\ failures \in 0..MaxFailures
    /\ saved # NoProject =>
          saved.elements \in Seq(SavedElement) /\ saved.selected \in 0..MaxId

-----------------------------------------------------------------------------
(* project.rs.                                                             *)

\* project_snapshot.
Snapshot(els, cols, sel) ==
    [elements |-> [i \in DOMAIN els |->
                     [id |-> els[i].id, source |-> els[i].source, layout |-> els[i].layout,
                      color |-> IF els[i].source \in ColorIds THEN cols[els[i].source]
                                ELSE NoColor]],
     selected |-> sel]

\* Project::is_valid, as far as it concerns ids; sizes are in StudioLayout.
IsValid(p) ==
    /\ Distinct(p.elements)
    /\ p.selected = 0 \/ p.selected \in IdsOf(p.elements)

\* save_project: the file is replaced as a whole; an error is ignored.
Save ==
    \/ /\ saved' = Snapshot(elements', colors', selected')
       /\ stale' = FALSE
       /\ UNCHANGED failures
    \/ /\ failures < MaxFailures
       /\ failures' = failures + 1 /\ stale' = TRUE
       /\ UNCHANGED saved

\* Mutant: the next id is counted from the number of elements.
NextAfter_Counted(ids) == 1 + Cardinality(ids)
\* The id after all those in use.
NextAfter(ids) == 1 + Max(ids \cup {0})

\* restore_project.
RestoredElements(p) ==
    [i \in DOMAIN p.elements |-> [id |-> p.elements[i].id, source |-> p.elements[i].source,
                                  layout |-> p.elements[i].layout]]
RestoredColors(p) ==
    [c \in ColorIds |->
        IF Uses(p.elements, c)
        THEN p.elements[CHOOSE i \in DOMAIN p.elements : p.elements[i].source = c].color
        ELSE NoColor]

\* The scene of a first start: the display twice, the second one selected.
DefaultProject ==
    [elements |-> <<[id |-> 1, source |-> Initial, layout |-> NewLayout, color |-> NoColor],
                    [id |-> 2, source |-> Initial, layout |-> NewLayout, color |-> NoColor]>>,
     selected |-> 2]

\* Project::load: a file that is missing or not valid counts as none.
Loaded(p) == IF p # NoProject /\ IsValid(p) THEN p ELSE DefaultProject

\* view: the scene of a project, nothing drawn and no gesture yet.
Start(p, els, id, cols, color, sel) ==
    /\ els = RestoredElements(p) /\ id = NextAfter(IdsOf(p.elements))
    /\ cols = RestoredColors(p)
    /\ color = NextAfter({c \in ColorIds : Uses(p.elements, c)})
    /\ sel = p.selected

Init ==
    /\ Start(DefaultProject, elements, nextId, colors, nextColor, selected)
    /\ framed = {} /\ request = NoPicture /\ composed = NoPicture
    /\ rendered = {} /\ shown = FALSE
    /\ drag = 0 /\ listDrag = 0
    /\ saved = NoProject /\ failures = 0 /\ stale = FALSE

\* The application is closed, or ends in any other way, and is started again.
Restart ==
    /\ Start(Loaded(saved), elements', nextId', colors', nextColor', selected')
    /\ framed' = {} /\ request' = NoPicture /\ composed' = NoPicture
    /\ rendered' = {} /\ shown' = FALSE
    /\ drag' = 0 /\ listDrag' = 0
    /\ stale' = FALSE
    /\ UNCHANGED <<saved, failures>>

-----------------------------------------------------------------------------
(* Elements.                                                               *)

\* Scene::add and the selection of what was added.
Add(source) ==
    /\ nextId <= MaxId
    /\ elements' = Append(elements, [id |-> nextId, source |-> source, layout |-> NewLayout])
    /\ nextId' = nextId + 1
    /\ selected' = nextId

\* add_capture_target, add_camera_target: when the capture starts.
AddCapture(s) ==
    /\ Add(s)
    /\ UNCHANGED <<colors, nextColor, pictureVars, gestureVars>>
    /\ Save

\* add_color_source.
AddColor ==
    /\ nextColor <= MaxColorId
    /\ Add(nextColor)
    /\ colors' = [colors EXCEPT ![nextColor] = DefaultColor]
    /\ nextColor' = nextColor + 1
    /\ UNCHANGED <<pictureVars, gestureVars>>
    /\ Save

\* replace_selected_capture: the picker is shown for elements of captures.
ReplaceSelected(s) ==
    /\ selected \in IdsOf(elements)
    /\ LET previous == ElementOf(elements, selected).source
       IN /\ previous \in Captures \ {s}
          /\ elements' = [i \in DOMAIN elements |->
                             IF elements[i].id = selected
                             THEN [elements[i] EXCEPT !.source = s] ELSE elements[i]]
          /\ framed' = IF Uses(elements', previous) THEN framed ELSE framed \ {previous}
    /\ UNCHANGED <<nextId, colors, nextColor, selected, request, composed, rendered, shown,
                   gestureVars>>
    /\ Save

\* set_selected_color, and set_transform_value for a colour channel.
SetSelectedColor(c) ==
    /\ selected \in IdsOf(elements)
    /\ LET source == ElementOf(elements, selected).source
       IN /\ source \in ColorIds /\ colors[source] \notin {NoColor, c}
          /\ colors' = [colors EXCEPT ![source] = c]
    /\ UNCHANGED <<elements, nextId, nextColor, selected, pictureVars, gestureVars>>
    /\ Save

\* delete_selected: the selection goes first, and when it is of an element
\* that does not exist nothing else happens.  The row drag goes on.
DeleteSelected ==
    /\ selected # 0
    /\ selected' = 0
    /\ \/ /\ selected \in IdsOf(elements)
          /\ elements' = Without(elements, selected)
          /\ LET source == ElementOf(elements, selected).source
                 gone == ~Uses(elements', source)
             IN /\ colors' = [c \in ColorIds |-> IF gone /\ c = source THEN NoColor ELSE colors[c]]
                /\ framed' = IF gone THEN framed \ {source} ELSE framed
          /\ rendered' = rendered \ {selected}
          /\ drag' = 0
          /\ Save
       \/ /\ selected \notin IdsOf(elements)
          /\ UNCHANGED <<elements, colors, framed, rendered, drag, fileVars>>
    /\ UNCHANGED <<nextId, nextColor, request, composed, shown, listDrag>>

\* An element's layout becomes another one.
Relayout(id) ==
    /\ id \in IdsOf(elements)
    /\ \E l \in Layouts :
          /\ l # ElementOf(elements, id).layout
          /\ elements' = [i \in DOMAIN elements |->
                             IF elements[i].id = id THEN [elements[i] EXCEPT !.layout = l]
                             ELSE elements[i]]

\* move_selected by the arrow keys, and set_transform_value, which also needs
\* the element's place in the picture on screen.
MoveSelected ==
    /\ selected # 0 /\ Relayout(selected)
    /\ UNCHANGED <<nextId, colors, nextColor, selected, pictureVars, gestureVars>>
    /\ Save

-----------------------------------------------------------------------------
(* The list of elements.                                                   *)

\* select_scene_item.
SelectRow(id) ==
    /\ drag = 0 /\ listDrag = 0
    /\ id \in IdsOf(elements)
    /\ selected' = id
    /\ UNCHANGED <<sceneVars, pictureVars, gestureVars>>
    /\ Save

\* The row's on_drag.
BeginRowDrag(id) ==
    /\ drag = 0 /\ listDrag = 0
    /\ id \in IdsOf(elements)
    /\ listDrag' = id /\ selected' = id
    /\ UNCHANGED <<sceneVars, pictureVars, drag, fileVars>>

\* Scene::move_to_index: the element is taken out and put in at its new place.
Moved(s, from, to) == InsertAt(RemoveAt(s, from), to, s[from])

\* drag_scene_item_over: the row under the pointer is the new place.  A row
\* whose element was deleted is not moved.
DragRowOver(to) ==
    /\ listDrag \in IdsOf(elements)
    /\ to \in DOMAIN elements
    /\ elements[to].id # listDrag
    /\ elements' = Moved(elements, PlaceOf(elements, listDrag), to)
    /\ UNCHANGED <<nextId, colors, nextColor, selected, pictureVars, gestureVars>>
    /\ Save

\* drop_scene_item: the row is released over the row of another element.
DropRow ==
    /\ listDrag # 0
    /\ IdsOf(elements) \ {listDrag} # {}
    /\ listDrag' = 0 /\ selected' = listDrag
    /\ UNCHANGED <<sceneVars, pictureVars, drag>>
    /\ Save

-----------------------------------------------------------------------------
(* The preview.                                                            *)

\* begin_drag: nothing happens before the first picture, nor while the
\* selected element is not in the picture.  A handle of the selected element
\* begins a resize or a change of its corners, any other place selects the element there, or nothing,
\* and begins to move it.
Press ==
    /\ drag = 0 /\ listDrag = 0
    /\ shown
    /\ selected # 0 => selected \in rendered
    /\ \/ selected # 0 /\ drag' = selected /\ UNCHANGED selected
       \/ \E hit \in rendered \cup {0} : selected' = hit /\ drag' = hit
    /\ UNCHANGED <<sceneVars, pictureVars, listDrag, fileVars>>

\* drag_inset: reposition_item, resize_item or adjust_corner_radius.
DragInset ==
    /\ drag # 0 /\ Relayout(drag)
    /\ UNCHANGED <<nextId, colors, nextColor, selected, pictureVars, gestureVars, fileVars>>

\* end_drag: the button is released.
EndDrag ==
    /\ drag # 0 \/ listDrag # 0
    /\ drag' = 0 /\ listDrag' = 0
    /\ UNCHANGED <<sceneVars, selected, pictureVars>>
    /\ Save

-----------------------------------------------------------------------------
(* Pictures.                                                               *)

\* A capture delivers its first frame.
FrameArrives(s) ==
    /\ Uses(elements, s) /\ s \notin framed
    /\ framed' = framed \cup {s}
    /\ UNCHANGED <<sceneVars, selected, request, composed, rendered, shown, gestureVars, fileVars>>

\* compose_scene: elements of colours, and of captures with a frame.
Visible(e) == e.source \in framed \/ (e.source \in ColorIds /\ colors[e.source] # NoColor)
Drawn == {elements[i].id : i \in {i \in DOMAIN elements : Visible(elements[i])}}

\* RenderReady: the scene as it is goes to the compositor, in the place of
\* what it has not begun to compose.
RenderReady ==
    /\ request # Drawn
    /\ request' = Drawn
    /\ UNCHANGED <<sceneVars, selected, framed, composed, rendered, shown, gestureVars, fileVars>>

\* run_compositor: the picture is composed and waits to be shown.
Compose ==
    /\ request # NoPicture
    /\ composed' = request /\ request' = NoPicture
    /\ UNCHANGED <<sceneVars, selected, framed, rendered, shown, gestureVars, fileVars>>

\* CompositionReady: show_frame.
ShowFrame ==
    /\ composed # NoPicture
    /\ rendered' = composed /\ shown' = TRUE /\ composed' = NoPicture
    /\ UNCHANGED <<sceneVars, selected, framed, request, gestureVars, fileVars>>

-----------------------------------------------------------------------------
Next ==
    \/ \E s \in Captures : AddCapture(s) \/ ReplaceSelected(s) \/ FrameArrives(s)
    \/ AddColor
    \/ \E c \in Colors : SetSelectedColor(c)
    \/ DeleteSelected
    \/ MoveSelected
    \/ \E id \in Ids : SelectRow(id) \/ BeginRowDrag(id)
    \/ \E to \in Ids : DragRowOver(to)
    \/ DropRow
    \/ Press
    \/ DragInset
    \/ EndDrag
    \/ RenderReady
    \/ Compose
    \/ ShowFrame
    \/ Restart

Spec == Init /\ [][Next]_vars

-----------------------------------------------------------------------------
(* Properties.                                                             *)

\* The id the next element gets belongs to nothing the viewer still refers
\* to: not to an element, a picture on its way or on screen, the selection or
\* a gesture.  Otherwise a click or a drag meant for an element that was
\* deleted would change the new one (Scene::add, restore_project).
FreshId ==
    nextId \notin IdsOf(elements) \cup request \cup composed \cup rendered
                 \cup {selected, drag, listDrag}

\* A colour is kept for exactly the colour sources the scene uses, however
\* elements were deleted, restored and added again (delete_selected,
\* restore_project).
ColorsAreUsed ==
    \A c \in ColorIds : colors[c] # NoColor <=> Uses(elements, c)

\* Dragging a row moves it and no other: the other elements stay in the order
\* they are drawn in (move_to_index).
OthersKeepOrder ==
    [][\A to \in Ids : DragRowOver(to) =>
          /\ Without(elements', listDrag) = Without(elements, listDrag)
          /\ elements'[to].id = listDrag]_vars

\* While no gesture is under way the file holds the scene as it is, layouts
\* and colours included, unless the last save failed: nothing the user did is
\* lost by a restart.  (The selection may be newer: a click beside every
\* element is not saved.)
SavedBetweenGestures ==
    (drag = 0 /\ listDrag = 0 /\ ~stale /\ saved # NoProject /\ IsValid(saved)) =>
        saved.elements = Snapshot(elements, colors, selected).elements

\* A file that the next start would refuse can only be one whose selection is
\* of a deleted element: its elements are always acceptable (is_valid).
OnlySelectionRefused ==
    saved # NoProject => IsValid([saved EXCEPT !.selected = 0])
=============================================================================
