------------------------------ MODULE Recorder ------------------------------
(***************************************************************************)
(* One recording of blip-capture, from the spawn of its recorder thread to *)
(* its last event: the recorder thread (recording.rs), the writer thread   *)
(* behind a bounded queue, a bundle's camera writer, AVFoundation's segment *)
(* delegate (hls.rs), the upload worker with its set of concurrent asset   *)
(* uploads, and the upload session on the server.                          *)
(*                                                                         *)
(* The server is RecordingLifecycle, which UploadServer implements.  A     *)
(* request that timed out at the client may still be executed by the       *)
(* server later: `net` holds the requests the server may still act on.     *)
(*                                                                         *)
(* HLS assets are numbered: 0 is init.mp4, n is the n-th media segment.    *)
(***************************************************************************)
EXTENDS Naturals, Sequences, FiniteSets

CONSTANTS
    Kinds,          \* the profiles checked, a subset of Profiles
    QueueDepth,     \* FRAME_QUEUE_DEPTH
    MaxUploads,     \* MAX_CONCURRENT_HLS_UPLOADS
    MaxAssets,      \* bound: assets AVFoundation emits
    Rec, Bucket, NoBucket

\* A profile is remote (HLS or MP4 sent to a server) or local (an MP4 file, or
\* a bundle directory with camera and audio next to the screen).
Profiles == {"hls", "mp4", "local", "bundle"}

ASSUME RecorderAssumption ==
    /\ Kinds \subseteq Profiles
    /\ QueueDepth \in Nat \ {0}
    /\ MaxUploads \in Nat \ {0}
    /\ MaxAssets \in Nat \ {0}

VARIABLES
    kind,       \* the profile of this recording
    stopChan,   \* the UI's end of the stop channel: open, sent, dropped
    rec,        \* where the recorder thread is
    result,     \* what record() returned: none, ok, err
    event,      \* the last event the recorder thread sent
    capture,    \* the screen capturer: off, on, lost, stopped
    queue,      \* frames, audio and the finish message on their way to the writer
    writer,     \* the writer thread: off, run, finish, ok, err
    media,      \* its media writer: none, created, appended
    camera,     \* a bundle's camera writer thread: off, run, ok, err
    final,      \* the media on disk was finished
    emitted,    \* assets emitted by AVFoundation
    sinkError,  \* the playlist sink's sticky error
    playlist,   \* assets listed by the playlist on disk
    files,      \* HLS assets on disk
    mediaFile,  \* the media file of the other profiles is on disk
    inbox,      \* messages to the upload worker
    worker,     \* where the upload worker is
    tasks,      \* its JoinSet: asset |-> none, run, ok, err
    foundInit,  \* HlsUpload.found_initialization
    listed,     \* assets listed by the playlist that was uploaded
    stored,     \* assets in the bucket
    net,        \* requests the server may still act on
    phase, place, content, told

Server == INSTANCE RecordingLifecycle WITH
              Videos <- {Rec}, Configs <- {Bucket}, Parts <- {"body"}, NoPlace <- NoBucket

recorderVars == <<kind, rec, result, event, capture>>
writerVars == <<writer, media, camera, final>>
sinkVars == <<emitted, sinkError, playlist>>
disk == <<files, mediaFile>>
workerVars == <<worker, tasks, foundInit, listed>>
session == <<phase, place, content, told>>
vars == <<stopChan, recorderVars, queue, writerVars, sinkVars, disk, inbox, workerVars,
          stored, net, session>>

AssetIds == 0..(MaxAssets - 1)
Hls == kind = "hls"
Remote == kind \in {"hls", "mp4"}

\* HlsUploadMessage.
Asset(a) == [type |-> "Asset", id |-> a]
Complete == [type |-> "Complete"]
Abort == [type |-> "Abort"]

TypeOK ==
    /\ kind \in Kinds
    /\ stopChan \in {"open", "sent", "dropped"}
    /\ rec \in {"spawn", "start", "waitStop", "stopCapture", "sendFinish", "joinWriter",
                "joinCamera", "report", "joinWorker", "upload", "create", "parts",
                "complete", "abort", "ended"}
    /\ result \in {"none", "ok", "err"}
    /\ event \in {"none", "Started", "Uploading", "Finished", "Failed"}
    /\ capture \in {"off", "on", "lost", "stopped"}
    /\ queue \in Seq({"frame", "audio", "finish"}) /\ Len(queue) <= QueueDepth
    /\ writer \in {"off", "run", "finish", "ok", "err"}
    /\ media \in {"none", "created", "appended"}
    /\ camera \in {"off", "run", "ok", "err"}
    /\ {final, sinkError, mediaFile, foundInit} \subseteq BOOLEAN
    /\ {emitted, playlist, listed} \subseteq 0..MaxAssets
    /\ files \subseteq AssetIds /\ stored \subseteq AssetIds
    /\ inbox \in Seq({Asset(a) : a \in AssetIds} \cup {Complete, Abort})
    /\ worker \in {"off", "start", "create", "loop", "drain", "playlist", "complete",
                   "abort", "ok", "err"}
    /\ tasks \in [AssetIds -> {"none", "run", "ok", "err"}]
    /\ Cardinality({a \in AssetIds : tasks[a] # "none"}) <= MaxUploads
    /\ net \subseteq {"create", "complete", "abort"}

Init ==
    /\ kind \in Kinds
    /\ stopChan = "open"
    /\ rec = "spawn" /\ result = "none" /\ event = "none" /\ capture = "off"
    /\ queue = <<>> /\ writer = "off" /\ media = "none" /\ camera = "off" /\ final = FALSE
    /\ emitted = 0 /\ sinkError = FALSE /\ playlist = 0
    /\ files = {} /\ mediaFile = FALSE
    /\ inbox = <<>> /\ worker = "off" /\ tasks = [a \in AssetIds |-> "none"]
    /\ foundInit = FALSE /\ listed = 0
    /\ stored = {} /\ net = {}
    /\ Server!LifeInit

-----------------------------------------------------------------------------
(* The user interface's end of the stop channel.                           *)

\* The stop button works while the UI shows a running recording.
Stop ==
    /\ stopChan = "open"
    /\ rec = "waitStop"
    /\ stopChan' = "sent"
    /\ UNCHANGED <<recorderVars, queue, writerVars, sinkVars, disk, inbox, workerVars,
                   stored, net, session>>

\* The UI drops its sender on any Failed event of its channel, which may be
\* the stop callback's or an earlier recording's.
DropStop ==
    /\ stopChan = "open"
    /\ stopChan' = "dropped"
    /\ UNCHANGED <<recorderVars, queue, writerVars, sinkVars, disk, inbox, workerVars,
                   stored, net, session>>

-----------------------------------------------------------------------------
(* The recorder thread.                                                    *)

\* The worker's receiver exists until the worker has left its loop.
Listening == worker \in {"start", "create", "loop"}

Deliver(message) ==
    inbox' = IF Listening THEN Append(inbox, message) ELSE inbox

\* spawn: HLS recordings start their upload worker first.
SpawnWorker ==
    /\ rec = "spawn"
    /\ \/ /\ rec' = "start"
          /\ worker' = IF Hls THEN "start" ELSE "off"
          /\ UNCHANGED event
       \/ /\ Hls
          /\ rec' = "ended" /\ event' = "Failed"
          /\ UNCHANGED worker
    /\ UNCHANGED <<stopChan, kind, result, capture, queue, writerVars, sinkVars, disk,
                   inbox, tasks, foundInit, listed, stored, net, session>>

\* record: threads and capturer are built and started; a failure may leave
\* the threads behind, which then see their channels closed.
StartCapture ==
    /\ rec = "start"
    /\ camera' \in (IF kind = "bundle" THEN {"off", "run"} ELSE {"off"})
    /\ \/ /\ writer' = "run" /\ capture' = "on"
          /\ rec' = "waitStop" /\ event' = "Started"
          /\ UNCHANGED result
       \/ /\ writer' \in {"off", "run"}
          /\ rec' = "report" /\ result' = "err"
          /\ UNCHANGED <<capture, event>>
    /\ UNCHANGED <<stopChan, kind, queue, media, final, sinkVars, disk, inbox, workerVars,
                   stored, net, session>>

\* stop_receiver.recv: a stop request, or an error when the UI has gone.  On
\* an error the capturer is dropped, which ends the capture.
WaitStop ==
    /\ rec = "waitStop"
    /\ \/ stopChan = "sent" /\ rec' = "stopCapture" /\ UNCHANGED <<result, capture>>
       \/ stopChan = "dropped" /\ rec' = "report" /\ result' = "err" /\ capture' = "stopped"
    /\ UNCHANGED <<stopChan, kind, event, queue, writerVars, sinkVars, disk, inbox,
                   workerVars, stored, net, session>>

\* capturer.stop answers, fails or times out.
StopCapture ==
    /\ rec = "stopCapture"
    /\ capture' = "stopped"
    /\ \/ rec' = "sendFinish" /\ UNCHANGED result
       \/ rec' = "report" /\ result' = "err"
    /\ UNCHANGED <<stopChan, kind, event, queue, writerVars, sinkVars, disk, inbox,
                   workerVars, stored, net, session>>

WriterGone == writer \in {"ok", "err"}

\* Faulty: the send waits for room even when the writer has returned.
SendFinish_Blocks ==
    /\ rec = "sendFinish"
    /\ ~WriterGone /\ Len(queue) < QueueDepth
    /\ queue' = Append(queue, "finish")
    /\ rec' = "joinWriter"
    /\ UNCHANGED <<stopChan, kind, result, event, capture, writerVars, sinkVars, disk, inbox,
                   workerVars, stored, net, session>>

\* writer_sender.send blocks while the queue is full and fails once the
\* writer has returned.
SendFinish ==
    /\ rec = "sendFinish"
    /\ \/ /\ ~WriterGone /\ Len(queue) < QueueDepth
          /\ queue' = Append(queue, "finish")
          /\ rec' = "joinWriter" /\ UNCHANGED result
       \/ /\ WriterGone
          /\ rec' = "report" /\ result' = "err" /\ UNCHANGED queue
    /\ UNCHANGED <<stopChan, kind, event, capture, writerVars, sinkVars, disk, inbox,
                   workerVars, stored, net, session>>

JoinWriter ==
    /\ rec = "joinWriter"
    /\ WriterGone
    /\ \/ writer = "err" /\ rec' = "report" /\ result' = "err"
       \/ /\ writer = "ok"
          /\ \/ kind = "bundle" /\ rec' = "joinCamera" /\ UNCHANGED result
             \/ kind # "bundle" /\ rec' = "report" /\ result' = "ok"
    /\ UNCHANGED <<stopChan, kind, event, capture, queue, writerVars, sinkVars, disk, inbox,
                   workerVars, stored, net, session>>

\* A bundle joins its camera writer and records the offsets of its inputs,
\* which may fail.
JoinCamera ==
    /\ rec = "joinCamera"
    /\ camera # "run"
    /\ rec' = "report"
    /\ result' \in (IF camera = "err" THEN {"err"} ELSE {"ok", "err"})
    /\ UNCHANGED <<stopChan, kind, event, capture, queue, writerVars, sinkVars, disk, inbox,
                   workerVars, stored, net, session>>

\* After record(): the event, the worker's last message, and what comes next.
Report ==
    /\ rec = "report"
    /\ event' = IF result = "ok" /\ Remote THEN "Uploading" ELSE event
    /\ IF Hls THEN Deliver(IF result = "ok" THEN Complete ELSE Abort) ELSE UNCHANGED inbox
    /\ rec' = IF kind = "mp4" /\ result = "ok" THEN "upload" ELSE "joinWorker"
    /\ UNCHANGED <<stopChan, kind, result, capture, queue, writerVars, sinkVars, disk,
                   workerVars, stored, net, session>>

\* Faulty: the directory is removed whatever the worker reported.
JoinWorker_Clean ==
    /\ rec = "joinWorker"
    /\ Hls => worker \in {"ok", "err"}
    /\ rec' = "ended"
    /\ files' = {}
    /\ event' = IF result = "err" \/ worker = "err" THEN "Failed" ELSE "Finished"
    /\ UNCHANGED <<stopChan, kind, result, capture, queue, writerVars, sinkVars, mediaFile,
                   inbox, workerVars, stored, net, session>>

\* worker.join (nothing to join for other profiles), the cleanup of a failed
\* recording's directory or of an uploaded one, and the last event.
JoinWorker ==
    /\ rec = "joinWorker"
    /\ Hls => worker \in {"ok", "err"}
    /\ rec' = "ended"
    /\ files' = IF result = "err" \/ worker = "ok" THEN {} ELSE files
    /\ mediaFile' = IF result = "err" /\ kind = "bundle" THEN FALSE ELSE mediaFile
    /\ event' = IF result = "err" \/ worker = "err" THEN "Failed" ELSE "Finished"
    /\ UNCHANGED <<stopChan, kind, result, capture, queue, writerVars, sinkVars, inbox,
                   workerVars, stored, net, session>>

-----------------------------------------------------------------------------
(* The capturer's callbacks.                                               *)

\* try_send: what the full queue cannot take is dropped.
CaptureSample ==
    /\ capture = "on"
    /\ Len(queue) < QueueDepth /\ ~WriterGone
    /\ \E sample \in {"frame", "audio"} : queue' = Append(queue, sample)
    /\ UNCHANGED <<stopChan, recorderVars, writerVars, sinkVars, disk, inbox, workerVars,
                   stored, net, session>>

\* The system ends the stream: no more frames, and the UI hears of it.
CaptureLost ==
    /\ capture = "on"
    /\ capture' = "lost"
    /\ UNCHANGED <<stopChan, kind, rec, result, event, queue, writerVars, sinkVars, disk,
                   inbox, workerVars, stored, net, session>>

-----------------------------------------------------------------------------
(* The writer threads.                                                     *)

\* All senders are gone once record() has returned.
Disconnected == result # "none"

\* A frame: the first one creates the media writer and its output, AVFoundation
\* may refuse the frame for backpressure, and any error ends the writer.
WriteFrame ==
    /\ writer = "run"
    /\ queue # <<>> /\ Head(queue) = "frame"
    /\ queue' = Tail(queue)
    /\ \/ /\ ~(Hls /\ sinkError)
          /\ media' \in {"appended", IF media = "none" THEN "created" ELSE media}
          /\ mediaFile' = ~Hls
          /\ UNCHANGED writer
       \/ writer' = "err" /\ UNCHANGED <<media, mediaFile>>
    /\ UNCHANGED <<stopChan, recorderVars, camera, final, sinkVars, files, inbox, workerVars,
                   stored, net, session>>

\* Audio is dropped before the first frame, except in a bundle, where it has
\* a writer of its own; an error ends the writer.
WriteAudio ==
    /\ writer = "run"
    /\ queue # <<>> /\ Head(queue) = "audio"
    /\ queue' = Tail(queue)
    /\ \/ UNCHANGED writer
       \/ (kind = "bundle" \/ media # "none") /\ writer' = "err"
    /\ UNCHANGED <<stopChan, recorderVars, media, camera, final, sinkVars, disk, inbox,
                   workerVars, stored, net, session>>

\* The finish message, or the closed channel, ends the loop; a recording
\* without an appended frame is an error.
LeaveLoop ==
    /\ writer = "run"
    /\ \/ queue # <<>> /\ Head(queue) = "finish" /\ queue' = Tail(queue)
       \/ queue = <<>> /\ Disconnected /\ UNCHANGED queue
    /\ writer' = IF media = "appended" THEN "finish" ELSE "err"
    /\ UNCHANGED <<stopChan, recorderVars, media, camera, final, sinkVars, disk, inbox,
                   workerVars, stored, net, session>>

\* finish: AVFoundation has written everything (or failed, or timed out),
\* then the playlist is closed.
FinishWriter ==
    /\ writer = "finish"
    /\ \/ /\ Hls => emitted > 0 /\ ~sinkError
          /\ writer' = "ok" /\ final' = TRUE
       \/ writer' = "err" /\ UNCHANGED final
    /\ UNCHANGED <<stopChan, recorderVars, queue, media, camera, sinkVars, disk, inbox,
                   workerVars, stored, net, session>>

\* The camera writer polls its stop flag, which is set once the capturer has
\* stopped; an encoder error ends it at any time, and so does a camera that
\* goes away.
CameraWriter ==
    /\ camera = "run"
    /\ \/ camera' = "err"
       \/ camera' = "ok"
    /\ UNCHANGED <<stopChan, recorderVars, queue, writer, media, final, sinkVars, disk, inbox,
                   workerVars, stored, net, session>>

\* The segment delegate: the asset is written, the playlist replaced, and the
\* asset reported to the worker; an error at any point is kept and stops it.
\* After a cleanup the directory is gone and every write fails.
EmitAsset ==
    /\ Hls /\ media # "none" /\ writer \in {"run", "finish"}
    /\ emitted < MaxAssets /\ ~sinkError
    /\ \/ /\ rec # "ended"
          /\ files' = files \cup {emitted} /\ emitted' = emitted + 1
          /\ playlist' = emitted + 1
          /\ Deliver(Asset(emitted))
          /\ UNCHANGED sinkError
       \/ /\ rec # "ended"
          /\ files' = files \cup {emitted} /\ emitted' = emitted + 1
          /\ sinkError' = TRUE /\ UNCHANGED <<playlist, inbox>>
       \/ sinkError' = TRUE /\ UNCHANGED <<files, emitted, playlist, inbox>>
    /\ UNCHANGED <<stopChan, recorderVars, queue, writerVars, mediaFile, workerVars,
                   stored, net, session>>

-----------------------------------------------------------------------------
(* Requests to the server.                                                 *)

\* A request is sent once; the client gives it up after a minute.
Send(request) == net' = net \cup {request}

\* What the server does with the requests it has.
ServerActs ==
    /\ \/ "create" \in net /\ Server!Begin(Rec, Bucket)
       \/ "complete" \in net /\ Server!Assemble(Rec, {"body"})
       \/ "complete" \in net /\ Server!Publish(Rec)
       \/ "abort" \in net /\ phase[Rec] = "uploading" /\ Server!Discard(Rec)
    /\ UNCHANGED <<stopChan, recorderVars, queue, writerVars, sinkVars, disk, inbox,
                   workerVars, stored, net>>

\* The server drops a request: refused, crashed or interrupted.
ServerDrops ==
    /\ \E request \in net : net' = net \ {request}
    /\ UNCHANGED <<stopChan, recorderVars, queue, writerVars, sinkVars, disk, inbox,
                   workerVars, stored, session>>

-----------------------------------------------------------------------------
(* The upload worker.                                                      *)

\* The tasks of the JoinSet that were not joined yet.
Live == {a \in AssetIds : tasks[a] # "none"}

\* An error or Abort: the uploads are shut down and the session is aborted.
WorkerFails ==
    /\ worker' = "abort"
    /\ tasks' = [a \in AssetIds |-> "none"]
    /\ Send("abort")

\* HlsUpload::start: the create request, and its answer or failure, which
\* leaves no session to abort.
WorkerCreate ==
    /\ \/ worker = "start" /\ worker' = "create" /\ Send("create") /\ UNCHANGED inbox
       \/ /\ worker = "create" /\ phase[Rec] # "none"
          /\ worker' = "loop" /\ UNCHANGED <<net, inbox>>
       \/ /\ worker \in {"start", "create"}
          /\ worker' = "err" /\ inbox' = <<>> /\ UNCHANGED net
    /\ UNCHANGED <<stopChan, recorderVars, queue, writerVars, sinkVars, disk, tasks,
                   foundInit, listed, stored, session>>

\* receive_hls_upload_result: one finished upload is joined; its failure ends
\* the worker.
JoinOne ==
    \E a \in Live :
        \/ tasks[a] = "ok" /\ tasks' = [tasks EXCEPT ![a] = "none"] /\ UNCHANGED <<worker, net>>
        \/ tasks[a] = "err" /\ WorkerFails

\* An Asset message: at the limit one upload is joined first; then the asset
\* is registered and its upload spawned.
WorkerAsset ==
    /\ worker = "loop"
    /\ inbox # <<>> /\ Head(inbox).type = "Asset"
    /\ \/ /\ Cardinality(Live) < MaxUploads
          /\ tasks' = [tasks EXCEPT ![Head(inbox).id] = "run"]
          /\ foundInit' = (foundInit \/ Head(inbox).id = 0)
          /\ inbox' = Tail(inbox)
          /\ UNCHANGED <<worker, net>>
       \/ /\ Cardinality(Live) = MaxUploads
          /\ JoinOne
          /\ inbox' = IF worker' = "abort" THEN <<>> ELSE inbox
          /\ UNCHANGED foundInit
    /\ UNCHANGED <<stopChan, recorderVars, queue, writerVars, sinkVars, disk, listed,
                   stored, session>>

\* Complete moves on to draining the uploads, Abort gives the session up.
WorkerMessage ==
    /\ worker = "loop"
    /\ inbox # <<>>
    /\ \/ Head(inbox) = Complete /\ worker' = "drain" /\ UNCHANGED <<tasks, net>>
       \/ Head(inbox) = Abort /\ WorkerFails
    /\ inbox' = <<>>
    /\ UNCHANGED <<stopChan, recorderVars, queue, writerVars, sinkVars, disk, foundInit,
                   listed, stored, session>>

\* Faulty: the recording is finished while uploads are still running.
WorkerDrain_Hasty ==
    /\ worker = "drain"
    /\ \/ foundInit /\ worker' = "playlist" /\ UNCHANGED <<tasks, net>>
       \/ ~foundInit /\ WorkerFails
    /\ UNCHANGED <<stopChan, recorderVars, queue, writerVars, sinkVars, disk, inbox,
                   foundInit, listed, stored, session>>

\* Complete: join every upload; finish needs init.mp4 to have been registered.
WorkerDrain ==
    /\ worker = "drain"
    /\ \/ Live = {} /\ foundInit /\ worker' = "playlist" /\ UNCHANGED <<tasks, net>>
       \/ Live = {} /\ ~foundInit /\ WorkerFails
       \/ JoinOne
    /\ UNCHANGED <<stopChan, recorderVars, queue, writerVars, sinkVars, disk, inbox,
                   foundInit, listed, stored, session>>

\* finish: the playlist is uploaded as the parts of the session's object.
WorkerPlaylist ==
    /\ worker = "playlist"
    /\ \/ /\ phase[Rec] = "uploading" /\ listed' = playlist
          /\ worker' = "complete" /\ Send("complete") /\ UNCHANGED tasks
       \/ WorkerFails /\ UNCHANGED listed
    /\ UNCHANGED <<stopChan, recorderVars, queue, writerVars, sinkVars, disk, inbox,
                   foundInit, stored, session>>

\* The answer to complete, or an error or a timeout, after which the session
\* is aborted although the server may still be completing it.
WorkerComplete ==
    /\ worker = "complete"
    /\ \/ "complete" \in net /\ Server!Tell(Rec) /\ worker' = "ok" /\ UNCHANGED <<tasks, net>>
       \/ WorkerFails /\ UNCHANGED session
    /\ UNCHANGED <<stopChan, recorderVars, queue, writerVars, sinkVars, disk, inbox,
                   foundInit, listed, stored>>

\* abort: whatever the answer is, the worker ends.
WorkerAbort ==
    /\ worker = "abort"
    /\ worker' = "err"
    /\ UNCHANGED <<stopChan, recorderVars, queue, writerVars, sinkVars, disk, inbox, tasks,
                   foundInit, listed, stored, net, session>>

\* One asset upload: sign, read the file, PUT.  An error may hide a PUT that
\* reached the bucket.
UploadAsset(a) ==
    /\ tasks[a] = "run"
    /\ \/ /\ phase[Rec] = "uploading" /\ a \in files
          /\ stored' = stored \cup {a}
          /\ \E outcome \in {"ok", "err"} : tasks' = [tasks EXCEPT ![a] = outcome]
       \/ tasks' = [tasks EXCEPT ![a] = "err"] /\ UNCHANGED stored
    /\ UNCHANGED <<stopChan, recorderVars, queue, writerVars, sinkVars, disk, inbox, worker,
                   foundInit, listed, net, session>>

-----------------------------------------------------------------------------
(* upload(): an MP4 is sent by the recorder thread itself.                 *)

KeepAndFail == rec' = "ended" /\ event' = "Failed"

UploadCreate ==
    /\ \/ rec = "upload" /\ rec' = "create" /\ Send("create") /\ UNCHANGED event
       \/ rec = "create" /\ phase[Rec] # "none" /\ rec' = "parts" /\ UNCHANGED <<event, net>>
       \/ rec \in {"upload", "create"} /\ KeepAndFail /\ UNCHANGED net
    /\ UNCHANGED <<stopChan, kind, result, capture, queue, writerVars, sinkVars, disk, inbox,
                   workerVars, stored, session>>

UploadParts ==
    /\ rec = "parts"
    /\ \/ phase[Rec] = "uploading" /\ mediaFile /\ rec' = "complete" /\ Send("complete")
       \/ rec' = "abort" /\ Send("abort")
    /\ UNCHANGED <<stopChan, kind, result, event, capture, queue, writerVars, sinkVars, disk,
                   inbox, workerVars, stored, session>>

\* Faulty: a timeout of complete is taken for a success.
UploadComplete_Timeout ==
    /\ rec = "complete"
    /\ rec' = "ended" /\ event' = "Finished"
    /\ UNCHANGED <<stopChan, kind, result, capture, queue, writerVars, sinkVars, disk, inbox,
                   workerVars, stored, net, session>>

\* The answer with the viewer URL lets the local file go.
UploadComplete ==
    /\ rec = "complete"
    /\ \/ /\ "complete" \in net /\ Server!Tell(Rec)
          /\ rec' = "ended" /\ event' = "Finished" /\ mediaFile' = FALSE
          /\ UNCHANGED net
       \/ /\ rec' = "abort" /\ Send("abort")
          /\ UNCHANGED <<event, mediaFile, session>>
    /\ UNCHANGED <<stopChan, kind, result, capture, queue, writerVars, sinkVars, files, inbox,
                   workerVars, stored>>

UploadAbort ==
    /\ rec = "abort"
    /\ KeepAndFail
    /\ UNCHANGED <<stopChan, kind, result, capture, queue, writerVars, sinkVars, disk, inbox,
                   workerVars, stored, net, session>>

-----------------------------------------------------------------------------
RecorderStep == SpawnWorker \/ StartCapture \/ WaitStop \/ StopCapture \/ SendFinish
                \/ JoinWriter \/ JoinCamera \/ Report \/ JoinWorker
                \/ UploadCreate \/ UploadParts \/ UploadComplete \/ UploadAbort

WriterStep == WriteFrame \/ WriteAudio \/ LeaveLoop \/ FinishWriter

WorkerStep == WorkerCreate \/ WorkerAsset \/ WorkerMessage \/ WorkerDrain
              \/ WorkerPlaylist \/ WorkerComplete \/ WorkerAbort

Next == Stop \/ DropStop \/ CaptureSample \/ CaptureLost \/ EmitAsset \/ CameraWriter
        \/ ServerActs \/ ServerDrops
        \/ RecorderStep \/ WriterStep \/ WorkerStep
        \/ \E a \in AssetIds : UploadAsset(a)

\* Threads and tasks are scheduled, and every wait on the system or on the
\* network has a time limit.
Fairness == /\ WF_vars(RecorderStep) /\ WF_vars(WriterStep) /\ WF_vars(WorkerStep)
            /\ WF_vars(CameraWriter)
            /\ \A a \in AssetIds : WF_vars(UploadAsset(a))

Spec == Init /\ [][Next]_vars /\ Fairness

-----------------------------------------------------------------------------
(* Properties.                                                             *)

\* The finished recording is on disk, as the writer left it.
OnDisk == final /\ (IF Hls THEN 0..(playlist - 1) \subseteq files ELSE mediaFile)

\* The recording is published with every asset that its playlist names, and
\* the playlist names every asset that was recorded.
Playable == /\ phase[Rec] = "published"
            /\ Hls => listed = emitted /\ 0..(listed - 1) \subseteq stored

\* A recording that was made is never lost: until the server has published it
\* in full, the file stays on disk, also when uploads fail, answers are lost
\* or late requests are executed after the session was given up.  The types are
\* kept as well, with at most MaxUploads uploads at a time.
NeverLost ==
    /\ TypeOK
    /\ result = "ok" => OnDisk \/ Playable

\* What viewers can open is complete: a published HLS recording starts with
\* init.mp4 and every asset of its playlist is in the bucket.
PublishedIsPlayable == phase[Rec] = "published" => Playable /\ (Hls => listed > 0)

\* The user is told that a recording succeeded only when it is published (or
\* on disk, for a local one), and that it failed only while a recording that
\* was made is still on disk.
EventsAreTrue ==
    rec = "ended" =>
        /\ event = "Finished" => IF Remote THEN Playable ELSE OnDisk
        /\ event = "Failed" /\ result = "ok" => OnDisk

\* Once the user has asked to stop (or the UI is gone), the recorder thread
\* comes to its end: no wait on the writer's full queue, on the writers, on
\* the upload limit or on the worker lasts for ever.
RecorderEnds == stopChan # "open" ~> rec = "ended"

=============================================================================
