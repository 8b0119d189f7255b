--------------------------- MODULE MCStudioParts ---------------------------
(***************************************************************************)
(* The two parts of StudioParts, of which a behaviour moves one (`part`).  *)
(* The scene is checked three times within the constants: three elements   *)
(* in every order ("list"), two displays that replace each other           *)
(* ("displays"), layouts and colours that change and a save that fails     *)
(* ("settings"); the canvas once.                                          *)
(***************************************************************************)
EXTENDS StudioParts, Integers, Sequences

VARIABLE part

\* Pointers at the borders of the canvas and beside it.
PointersHere == {-2, 0, 1, 3, 7, 9}
TypedHere == {-1, 0, 3}

ASSUME PartsAssumption == Scene!SceneAssumption /\ Canvas!LayoutAssumption

vars == <<part, sceneVars, layoutVars>>

\* Which elements, colours and failures a part may have.
Within(sources, layouts, ids, colorIds, faults) ==
    /\ nextElement <= ids + 1 /\ nextColor <= colorIds + 1 /\ failures <= faults
    /\ \A i \in DOMAIN elements :
          /\ elements[i].source \in sources \cup (1..MaxColorId)
          /\ elements[i].layout \in layouts
Bounds ==
    CASE part = "list" -> Within({FirstDisplay}, {NewLayout}, MaxId, 0, 0)
      [] part = "displays" -> Within(Captures, {NewLayout}, 2, 0, 0)
      [] part = "settings" -> Within({FirstDisplay}, Layouts, 2, MaxColorId, MaxFailures)

Init ==
    /\ part \in {"list", "displays", "settings", "canvas"}
    /\ Scene!Init
    /\ part = "canvas" \/ (layout = (CHOOSE l \in Canvas!NewLayouts : TRUE) /\ shrink = 1)
    /\ Canvas!Init

Next ==
    \/ part # "canvas" /\ Scene!Next /\ UNCHANGED <<part, layoutVars>> /\ Bounds'
    \/ part = "canvas" /\ Canvas!Next /\ UNCHANGED <<part, sceneVars>>

Spec == Init /\ [][Next]_vars
=============================================================================
