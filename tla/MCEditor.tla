------------------------------ MODULE MCEditor ------------------------------
(***************************************************************************)
(* Three instances of Editor, of which a behaviour is one (`scene`): many  *)
(* edits of one timeline; a bundle opened again with other inputs; and     *)
(* every setting, with saves that fail.  The constants bound all three.    *)
(*                                                                         *)
(* The two that open a bundle again have MinRange = 2, so that clipping    *)
(* leaves segments shorter than it, with no room to be dragged.            *)
(***************************************************************************)
EXTENDS EditorDocument, Integers

VARIABLES
    scene,
    forced      \* a drag without room has ended, and the document is not in order since

vars == <<scene, forced, Document!vars>>

\* A recording of three pictures, of which a segment may be as short as one.
Edits == INSTANCE Editor WITH
    MinSegment <- 1, MinRange <- 1, Inputs <- {<<0, 3>>}, Looks <- {0}, MaxFaults <- 0,
    MaxOpens <- 1

\* A recording of four pictures, one without its first and one without its last:
\* they clip each of two segments to half of MinRange.
Ranges == {<<0, 4>>, <<1, 4>>, <<0, 3>>}

Reopened == INSTANCE Editor WITH
    MaxId <- 2, Looks <- {0}, MaxFaults <- 0

Saves == INSTANCE Editor WITH
    Inputs <- {<<0, 3>>, <<1, 3>>}, MaxId <- 1

ASSUME BoundsAssumption ==
    /\ Edits!EditorAssumption /\ Reopened!EditorAssumption /\ Saves!EditorAssumption
    /\ Document!EditorAssumption /\ Document!TimelineAssumption /\ Edits!TimelineAssumption

Init ==
    /\ forced = FALSE
    /\ \/ scene = "edits" /\ Edits!Init
       \/ scene = "reopened" /\ Reopened!Init
       \/ scene = "saves" /\ Saves!Init

Remember(noRoom) ==
    /\ forced' = ((forced \/ noRoom) /\ ~Document!Orderly')
    /\ UNCHANGED scene

\* What follows a drag without room is left to the scene `saves`.
Next ==
    \/ scene = "edits" /\ Edits!Next /\ Remember(Edits!Forced)
    \/ scene = "reopened" /\ ~forced /\ Reopened!Next /\ Remember(Reopened!Forced)
    \/ scene = "saves" /\ Saves!Next /\ Remember(Saves!Forced)

Spec == Init /\ [][Next]_vars

-----------------------------------------------------------------------------
\* However splits, merges, trims, deletions, zoom edits and reopenings are mixed,
\* with keys pressed in the middle of a drag too, segments stay in the order of
\* the recording, apart and inside the range the inputs share, zooms apart and
\* inside the timeline, and the playhead inside it (Editor!Orderly); and only
\* opening makes a segment shorter than MinRange.  The one exception is the drag
\* of what clipping left of a segment, or of a zoom on a timeline as short, where
\* there is no room for MinRange (Editor!Forced): it does break the order, and
\* nothing is said of the steps after it until the document is in order again.
TimelineInOrder ==
    /\ [](Document!TypeOK /\ (Document!Orderly \/ forced))
    /\ [][IF scene = "edits" THEN Edits!NoneTooShort ELSE Document!NoneTooShort]_vars

\* An edit of the video track, and a bundle clipped when it is opened, leave the
\* zooms and the playhead on their pictures (Editor).
ZoomsFollowPictures ==
    [][/\ IF scene = "edits" THEN Edits!ZoomsKeepPictures ELSE Document!ZoomsKeepPictures
       /\ Document!PlayheadKeepsPicture]_vars
=============================================================================
