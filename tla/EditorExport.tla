---------------------------- MODULE EditorExport ----------------------------
(***************************************************************************)
(* Exporting a bundle (editor.rs, Mp4Writer of blip-avfoundation): the     *)
(* export dialog, the panel that asks for a destination, the thread that   *)
(* renders a copy of the document into a file, and its events.             *)
(*                                                                         *)
(* A document is a version number.  A path is a name and an extension: the *)
(* dialog's format decides the extension, whatever was chosen.             *)
(***************************************************************************)
EXTENDS Integers, Sequences, FiniteSets

CONSTANTS
    Names, Formats,     \* file names and ExportFormats
    Frames, Packets,    \* video frames and audio packets of an export
    MaxDoc,             \* bound: versions of the document
    MaxJobs,            \* bound: exports started
    MaxWindows          \* bound: how often the editor is opened

ASSUME ExportAssumption ==
    /\ Frames \in Nat \ {0} /\ Packets \in Nat
    /\ MaxDoc \in Nat /\ MaxJobs \in Nat /\ MaxWindows \in Nat \ {0}

VARIABLES
    doc,            \* the bundle as it is now
    format,         \* export_settings.format
    destination,    \* export_settings.destination
    prompt,         \* the save panel is open
    exporting, progress, error, exported,   \* what the dialog shows
    mine,           \* the export whose events this window receives, 0 for none
    events,         \* the unbounded channel of that export
    jobs,           \* every export started
    files,          \* what is at each path
    window, windows,    \* the editor is open; how often it was opened
    clashed         \* paths to which two exports wrote at once

dialog == <<exporting, progress, error, exported>>
vars == <<doc, format, destination, prompt, dialog, mine, events, jobs, files, window, windows,
          clashed>>

Paths == Names \X Formats
NoPath == <<>>
Nothing == [kind |-> "none", doc |-> 0]
Other == [kind |-> "other", doc |-> 0]          \* a file that was there before
Partial == [kind |-> "partial", doc |-> 0]
Whole(d) == [kind |-> "whole", doc |-> d]

with_extension(path, f) == <<path[1], f>>
Running(j) == jobs[j].pc # "ended"

Init ==
    /\ doc = 0 /\ format \in Formats /\ destination = NoPath /\ prompt = FALSE
    /\ exporting = FALSE /\ progress = 0 /\ error = FALSE /\ exported = NoPath
    /\ mine = 0 /\ events = <<>> /\ jobs = <<>>
    /\ files \in [Paths -> {Nothing, Other}]
    /\ window = TRUE /\ windows = 1 /\ clashed = {}

(* The dialog *)

\* The document is edited at any time, during an export too.
Edit ==
    /\ window /\ doc < MaxDoc
    /\ doc' = doc + 1
    /\ UNCHANGED <<format, destination, prompt, dialog, mine, events, jobs, files, window, windows,
                   clashed>>

export_option(f) ==
    /\ window
    /\ format' = f
    /\ exported' = NoPath
    /\ UNCHANGED <<doc, destination, prompt, exporting, progress, error, mine, events, jobs, files,
                   window, windows, clashed>>

choose_export_destination ==
    /\ window /\ ~exporting /\ ~prompt
    /\ prompt' = TRUE
    /\ UNCHANGED <<doc, format, destination, dialog, mine, events, jobs, files, window, windows,
                   clashed>>

\* The panel is answered at any later time: a path, an error, or nothing.
Chosen ==
    /\ window /\ prompt
    /\ prompt' = FALSE
    /\ \/ /\ destination' \in Paths
          /\ error' = FALSE /\ exported' = NoPath
       \/ /\ error' = TRUE
          /\ UNCHANGED <<destination, exported>>
       \/ UNCHANGED <<destination, error, exported>>
    /\ UNCHANGED <<doc, format, exporting, progress, mine, events, jobs, files, window, windows,
                   clashed>>

\* The job has a copy of the document.
Job(output) == [pc |-> "open", output |-> output, doc |-> doc, frame |-> 0, packet |-> 0]

\* Mutant: the dialog still shows the export before.
start_export_StillComplete ==
    /\ window /\ ~exporting
    /\ destination # NoPath /\ Len(jobs) < MaxJobs
    /\ LET output == with_extension(destination, format) IN
       /\ jobs' = Append(jobs, Job(output))
       /\ destination' = output
    /\ mine' = Len(jobs') /\ events' = <<>>
    /\ exporting' = TRUE /\ progress' = 0 /\ error' = FALSE
    /\ UNCHANGED <<doc, format, prompt, files, window, windows, clashed, exported>>

\* Nothing starts without a destination, with nothing on the timeline, or when the
\* thread cannot be spawned: only the error is set.
start_export ==
    /\ window /\ ~exporting
    /\ \/ /\ error' = TRUE
          /\ UNCHANGED <<destination, exporting, progress, exported, mine, events, jobs, clashed>>
       \/ /\ destination # NoPath /\ Len(jobs) < MaxJobs
          /\ LET output == with_extension(destination, format) IN
             /\ jobs' = Append(jobs, Job(output))
             /\ destination' = output
             /\ clashed' = IF \E j \in DOMAIN jobs : Running(j) /\ jobs[j].output = output
                           THEN clashed \cup {output} ELSE clashed
          /\ mine' = Len(jobs') /\ events' = <<>>
          /\ exporting' = TRUE /\ progress' = 0 /\ error' = FALSE /\ exported' = NoPath
    /\ UNCHANGED <<doc, format, prompt, files, window, windows>>

\* The task that receives the events of this window's export.
ReceiveEvent ==
    /\ window /\ events # <<>>
    /\ events' = Tail(events)
    /\ LET e == Head(events) IN
       \/ /\ e.kind = "progress"
          /\ progress' = e.frame
          /\ UNCHANGED <<exporting, error, exported, mine>>
       \/ /\ e.kind = "ok"
          /\ exporting' = FALSE /\ progress' = Frames
          /\ exported' = jobs[mine].output /\ mine' = 0
          /\ UNCHANGED error
       \/ /\ e.kind = "failed"
          /\ exporting' = FALSE /\ error' = TRUE /\ mine' = 0
          /\ UNCHANGED <<progress, exported>>
    /\ UNCHANGED <<doc, format, destination, prompt, jobs, files, window, windows, clashed>>

\* Closing the window drops the editor; the thread of an export goes on.
Close ==
    /\ window
    /\ window' = FALSE
    /\ prompt' = FALSE
    /\ exporting' = FALSE /\ progress' = 0 /\ error' = FALSE /\ exported' = NoPath
    /\ mine' = 0 /\ events' = <<>>
    /\ UNCHANGED <<doc, format, destination, jobs, files, windows, clashed>>

Reopen ==
    /\ ~window /\ windows < MaxWindows
    /\ window' = TRUE /\ windows' = windows + 1
    /\ UNCHANGED <<doc, format, destination, prompt, dialog, mine, events, jobs, files, clashed>>

(* The export thread *)

Send(j, e) == events' = IF mine = j THEN Append(events, e) ELSE events
Goto(j, pc) == jobs' = [jobs EXCEPT ![j].pc = pc]
File(j, content) == files' = [files EXCEPT ![jobs[j].output] = content]
untouched == <<doc, format, destination, prompt, dialog, mine, window, windows, clashed>>

\* Decoders, wallpaper and compositors.
OpenInputs(j) ==
    /\ jobs[j].pc = "open"
    /\ Goto(j, "create") \/ Goto(j, "failed")
    /\ UNCHANGED <<untouched, events, files>>

\* Mp4Writer::new: prepare_output removes what was at the path.
CreateWriter(j) ==
    /\ jobs[j].pc = "create"
    /\ \/ File(j, Partial) /\ Goto(j, "render")
       \/ File(j, Nothing) /\ Goto(j, "failed")
    /\ UNCHANGED <<untouched, events>>

\* One frame, appended as soon as the writer is ready for it, and then the sound.
RenderFrame(j) ==
    /\ jobs[j].pc = "render" /\ jobs[j].frame < Frames
    /\ \/ /\ jobs' = [jobs EXCEPT ![j].frame = @ + 1]
          /\ Send(j, [kind |-> "progress", frame |-> jobs[j].frame + 1])
       \/ /\ Goto(j, "failed")
          /\ UNCHANGED events
    /\ UNCHANGED <<untouched, files>>

RenderAudio(j) ==
    /\ jobs[j].pc = "render" /\ jobs[j].frame = Frames /\ jobs[j].packet < Packets
    /\ \/ jobs' = [jobs EXCEPT ![j].packet = @ + 1]
       \/ Goto(j, "failed")
    /\ UNCHANGED <<untouched, events, files>>

FinishWriter(j) ==
    /\ jobs[j].pc = "render" /\ jobs[j].frame = Frames /\ jobs[j].packet = Packets
    /\ \/ /\ File(j, Whole(jobs[j].doc)) /\ Goto(j, "ended")
          /\ Send(j, [kind |-> "ok", frame |-> Frames])
       \/ /\ Goto(j, "failed")
          /\ UNCHANGED <<files, events>>
    /\ UNCHANGED untouched

\* export_worker removes what a failed export left, or what was there before it.
CleanUp(j) ==
    /\ jobs[j].pc = "failed"
    /\ File(j, Nothing)
    /\ Goto(j, "ended")
    /\ Send(j, [kind |-> "failed", frame |-> 0])
    /\ UNCHANGED untouched

ExportStep(j) == OpenInputs(j) \/ CreateWriter(j) \/ RenderFrame(j) \/ RenderAudio(j)
                    \/ FinishWriter(j) \/ CleanUp(j)

Next ==
    \/ Edit
    \/ \E f \in Formats : export_option(f)
    \/ choose_export_destination \/ Chosen \/ start_export \/ ReceiveEvent \/ Close \/ Reopen
    \/ \E j \in DOMAIN jobs : ExportStep(j)

\* The thread runs, the writer is ready again after a while (external), and the
\* executor polls the task.
Fairness ==
    /\ WF_vars(ReceiveEvent)
    /\ \A j \in 1..MaxJobs : WF_vars(j \in DOMAIN jobs /\ ExportStep(j))

Spec == Init /\ [][Next]_vars /\ Fairness

-----------------------------------------------------------------------------
(* Properties *)

\* What the dialog and the files hold.
TypeOK ==
    /\ doc \in 0..MaxDoc /\ format \in Formats /\ destination \in Paths \cup {NoPath}
    /\ prompt \in BOOLEAN /\ exporting \in BOOLEAN /\ error \in BOOLEAN
    /\ progress \in 0..Frames /\ exported \in Paths \cup {NoPath}
    /\ mine \in 0..Len(jobs)
    /\ \A p \in Paths : files[p].kind \in {"none", "other", "partial", "whole"}

\* "Export complete" is shown only with a finished file at that path, made of
\* one version of the document: the one that was there when the export began,
\* however it was edited meanwhile.
CompleteIsWhole ==
    exported # NoPath /\ exported \notin clashed =>
        \E j \in DOMAIN jobs :
            /\ jobs[j].output = exported /\ ~Running(j)
            /\ files[exported] = Whole(jobs[j].doc)

\* A file that is not finished belongs to an export that runs: one that fails,
\* at whatever point, leaves no broken video behind.
NoBrokenFile ==
    \A p \in Paths \ clashed :
        files[p] = Partial => \E j \in DOMAIN jobs : Running(j) /\ jobs[j].output = p

\* One window runs one export at a time, and its dialog says so.
OneExport ==
    /\ exporting <=> mine # 0
    /\ \A j, k \in DOMAIN jobs : Running(j) /\ Running(k) /\ j # k => windows > 1

\* What the user is told of an export is true, and what failed leaves no trace.
ExportIsWhole == TypeOK /\ CompleteIsWhole /\ NoBrokenFile /\ OneExport

\* Every export ends, and the dialog does not go on showing it.
ExportEnds == exporting ~> ~exporting
=============================================================================
