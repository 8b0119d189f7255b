--------------------------- MODULE MCEditorParts ---------------------------
(***************************************************************************)
(* The parts of the bundle editor beside its document: exports and the     *)
(* crop dialog, which this module extends, the preview with its workers    *)
(* and the mix of the sound.  They share no state, so an interleaving of   *)
(* them shows nothing that each alone does not: `part` says which one      *)
(* moves, the others stay as they were opened.                             *)
(***************************************************************************)
EXTENDS EditorExport, CropDialog

VARIABLES
    part,
    cut, wall, pos, cursor, dragging, playing, gen, clock, scheduled, lastShown, screen, asked,
    slot, worker, cache, backgrounds, results, decoder, closed, failed,
    segments, sources, output_rate, source_frame, source_remainder, begin, heard, audio_frame, mixed

\* Playback and edits, against a plain background.
Preview == INSTANCE EditorPreview WITH
    Length <- 2, MaxCut <- 1, Wallpapers <- 0, Broken <- {}, MaxRequests <- 3, MaxFaults <- 0

\* The same with wallpapers, of which one cannot be decoded, and failing frames.
Wallpapers == INSTANCE EditorPreview WITH
    Length <- 2, MaxCut <- 1, Wallpapers <- 2, Broken <- {2}, MaxRequests <- 2, MaxFaults <- 1

\* Three frames a second, on slower, equal and faster devices; edges of segments
\* and starts of sources on frames and between them.
Audio == INSTANCE AudioMix WITH
    Rate <- 3, Nanos <- 40, OutputRates <- {2, 3, 5}, PacketFrames <- 3,
    Edges <- {0, 37, 120, 200, 440}, Sources <- {"music", "voice"}, Offsets <- {0, 55},
    Lengths <- {5, 11}, MaxOutput <- 12, exported <- mixed

ASSUME PartsAssumption ==
    /\ Preview!PreviewAssumption /\ Wallpapers!PreviewAssumption
    /\ Audio!AudioMixAssumption /\ Crop!CropAssumption

previewVars == <<cut, wall, pos, cursor, dragging, playing, gen, clock, scheduled, lastShown, screen,
                 asked, slot, worker, cache, backgrounds, results, decoder, closed, failed>>
audioVars == <<segments, sources, output_rate, source_frame, source_remainder, begin, heard,
               audio_frame, mixed>>
allVars == <<part, previewVars, vars, audioVars, cropVars>>

PartsInit ==
    /\ part \in {"preview", "wallpapers", "export", "audio", "crop"}
    /\ IF part = "wallpapers" THEN Wallpapers!Init ELSE Preview!Init
    /\ part = "export" \/ (format = "mp4" /\ files = [p \in Paths |-> Nothing])
    /\ Init
    /\ part = "audio" \/ /\ segments = <<[id |-> 0, start |-> 0, end |-> 37]>>
                         /\ sources = [s \in {"music", "voice"} |-> [offset |-> 0, frames |-> 5]]
    /\ Audio!Init
    /\ part = "crop" \/ stored = Crop!FULL
    /\ Crop!Init

PartsNext ==
    \/ /\ part = "preview" /\ Preview!Next
       /\ UNCHANGED <<part, vars, audioVars, cropVars>>
    \/ /\ part = "wallpapers" /\ Wallpapers!Next
       /\ UNCHANGED <<part, vars, audioVars, cropVars>>
    \/ /\ part = "export" /\ Next
       /\ UNCHANGED <<part, previewVars, audioVars, cropVars>>
    \/ /\ part = "audio" /\ Audio!Next
       /\ UNCHANGED <<part, previewVars, vars, cropVars>>
    \/ /\ part = "crop" /\ Crop!Next
       /\ UNCHANGED <<part, previewVars, vars, audioVars>>

\* The fairness of the preview and of exports, of the part that moves.
PartsFairness ==
    /\ WF_previewVars(part = "preview" /\ Preview!WorkerStep)
    /\ WF_previewVars(part = "preview" /\ Preview!WallpaperRound)
    /\ WF_previewVars(part = "preview" /\ Preview!ShowResult)
    /\ WF_previewVars(part = "wallpapers" /\ Wallpapers!WorkerStep)
    /\ WF_previewVars(part = "wallpapers" /\ Wallpapers!WallpaperRound)
    /\ WF_previewVars(part = "wallpapers" /\ Wallpapers!ShowResult)
    /\ WF_vars(part = "export" /\ ReceiveEvent)
    /\ \A j \in 1..2 : WF_vars(part = "export" /\ j \in DOMAIN jobs /\ ExportStep(j))

PartsSpec == PartsInit /\ [][PartsNext]_allVars /\ PartsFairness

-----------------------------------------------------------------------------
\* The preview ends up showing the document as it is, with its wallpaper; during
\* playback its picture never goes back; after the window was closed both workers
\* end, also one that waits for the other; and every export ends
\* (EditorPreview!PreviewSettles, PlaybackGoesForward, WorkersEnd,
\* EditorExport!ExportEnds).
EditorSettles ==
    /\ part = "preview" => Preview!PreviewSettles
    /\ part = "wallpapers" => Wallpapers!PreviewSettles /\ Wallpapers!WorkersEnd
    /\ part = "export" => ExportEnds
    /\ Preview!PlaybackGoesForward
    /\ [](part = "preview" => Preview!TypeOK) /\ [](part = "wallpapers" => Wallpapers!TypeOK)

\* Sound is in time with the picture in playback and complete in an export, and
\* nothing that was cut is heard (AudioMix).
SoundFollowsPicture ==
    part = "audio" =>
        Audio!TypeOK /\ Audio!SoundFollowsPicture /\ Audio!CutIsSilent /\ Audio!ExportHasAll
=============================================================================
