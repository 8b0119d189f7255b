---------------------------- MODULE Recorder_proofs --------------------------
(***************************************************************************)
(* Theorems of Recorder, for any set of profiles, any queue depth, any      *)
(* limit of concurrent uploads and any number of assets.                   *)
(*                                                                         *)
(* That a recording is never lost, that what is published can be played    *)
(* and that the last event is true all rest on one inductive invariant.    *)
(* Its heart is the way of an asset: from the playlist on disk through the *)
(* worker's inbox and its tasks into the bucket, where the worker may      *)
(* declare the recording complete only when nothing is left on the way.    *)
(***************************************************************************)
EXTENDS Recorder, FiniteSetTheorems, SequenceTheorems, TLAPS

SessionType ==
    /\ phase \in [{Rec} -> {"none", "uploading", "published", "discarded"}]
    /\ content \in [{Rec} -> SUBSET {"body"}]

Uploading == {"upload", "create", "parts", "complete", "abort"}
Returned == Uploading \cup {"report", "joinWorker", "ended"}

\* What the recorder thread and the writer know of each other.
Stages ==
    /\ rec \notin Returned => result = "none"
    /\ rec \in Returned /\ result = "none" => rec = "ended" /\ event = "Failed"
    /\ rec \in Uploading => kind = "mp4" /\ result = "ok"
    /\ rec = "joinWorker" /\ kind = "mp4" => result = "err"
    /\ rec \in {"spawn", "start"} => writer = "off"
    /\ rec = "joinCamera" => writer = "ok"
    /\ result = "ok" => writer = "ok"
    /\ writer = "off" => media = "none"
    /\ writer \in {"finish", "ok"} => media = "appended"
    /\ writer = "ok" => final /\ (Hls => emitted > 0 /\ ~sinkError)

\* The worker exists for HLS recordings only, and the recorder thread ends
\* after it.
WorkerStages ==
    /\ worker # "off" => Hls
    /\ rec = "spawn" => worker = "off"
    /\ rec = "ended" /\ Hls => result = "none" \/ worker \in {"ok", "err"}
    /\ rec = "ended" /\ worker = "ok" => event = "Finished"
    /\ worker \in {"drain", "playlist", "complete", "ok"} => result = "ok"

\* The media on disk: every asset that was emitted and the file of the other
\* profiles, until the recorder thread's last step.
DiskInv ==
    /\ media = "none" => emitted = 0
    /\ ~sinkError => playlist = emitted
    /\ playlist <= emitted
    /\ Hls /\ (rec # "ended" \/ (result = "ok" /\ worker # "ok"))
       => 0..(emitted - 1) \subseteq files
    /\ ~Hls /\ rec # "ended" /\ media # "none" => mediaFile
    /\ ~Hls /\ rec = "ended" /\ result = "ok"
       => mediaFile \/ (kind = "mp4" /\ event = "Finished")

InInbox(message) == \E i \in 1..Len(inbox) : inbox[i] = message

\* Asset a has a way to the bucket: it is there, or its upload has not been
\* joined.
OnItsWay(a) == a \in stored \/ tasks[a] \in {"run", "err"}

\* No asset of the playlist is forgotten between the delegate and the bucket,
\* and the last message is the last one.
Delivery ==
    /\ \A a \in AssetIds : tasks[a] = "ok" => a \in stored
    /\ Listening => \A a \in AssetIds : a < playlist => OnItsWay(a) \/ InInbox(Asset(a))
    /\ worker = "drain" => \A a \in AssetIds : a < playlist => OnItsWay(a)
    /\ worker \in {"playlist", "complete", "ok"} => 0..(playlist - 1) \subseteq stored
    /\ worker \in {"complete", "ok"} => listed = playlist
    /\ rec \notin Returned \/ rec = "report" => ~InInbox(Complete)
    /\ \A i \in 1..Len(inbox) : inbox[i] = Complete => i = Len(inbox) /\ result = "ok"

\* The recording may be published: it was made, and the uploaded playlist
\* lists every asset, all of them in the bucket.
Ready ==
    /\ result = "ok"
    /\ Hls => listed = emitted /\ 0..(listed - 1) \subseteq stored

SessionInv ==
    /\ "complete" \in net => Ready
    /\ content[Rec] # {} => Ready
    /\ phase[Rec] = "published" => content[Rec] # {}
    /\ worker = "ok" => phase[Rec] = "published"
    /\ rec = "ended" /\ event = "Finished" =>
          result = "ok" /\ (Remote => phase[Rec] = "published")

IInv == TypeOK /\ SessionType /\ Stages /\ WorkerStages /\ DiskInv /\ Delivery /\ SessionInv

-----------------------------------------------------------------------------
(* Lemmas.                                                                 *)

Requests == {"create", "complete", "abort"}
Messages == {Asset(a) : a \in AssetIds} \cup {Complete, Abort}
TaskStates == {"none", "run", "ok", "err"}

LEMMA SendKeepsRequests ==
    ASSUME net \subseteq Requests, NEW r \in Requests, Send(r)
    PROVE  net' \subseteq Requests
BY DEF Send

\* A set of uploads is finite, and a smaller one has no more members.
LEMMA FewerUploads ==
    ASSUME NEW S \in SUBSET AssetIds, NEW T \in SUBSET S
    PROVE  /\ IsFiniteSet(S) /\ Cardinality(S) \in Nat
           /\ Cardinality(T) \in Nat /\ Cardinality(T) <= Cardinality(S)
<1>1. IsFiniteSet(AssetIds)
  BY FS_Interval, RecorderAssumption DEF AssetIds
<1>2. IsFiniteSet(S)
  BY <1>1, FS_Subset
<1> QED
  BY <1>2, FS_Subset, FS_CardinalityType

\* What JoinSet::shutdown leaves, and what the join of one upload leaves, is
\* within the limit.
LEMMA NoUploads ==
    ASSUME tasks' = [a \in AssetIds |-> "none"]
    PROVE  /\ tasks' \in [AssetIds -> TaskStates]
           /\ Cardinality({a \in AssetIds : tasks'[a] # "none"}) <= MaxUploads
<1>1. {a \in AssetIds : tasks'[a] # "none"} = {}
  OBVIOUS
<1> QED
  BY <1>1, FS_EmptySet, RecorderAssumption DEF TaskStates

LEMMA TaskChanges ==
    ASSUME TypeOK, NEW b \in AssetIds, NEW s \in TaskStates,
           tasks' = [tasks EXCEPT ![b] = s],
           tasks[b] # "none" \/ s = "none" \/ Cardinality(Live) < MaxUploads
    PROVE  /\ tasks' \in [AssetIds -> TaskStates]
           /\ Cardinality({a \in AssetIds : tasks'[a] # "none"}) <= MaxUploads
<1> DEFINE New == {a \in AssetIds : tasks'[a] # "none"}
<1>0. tasks \in [AssetIds -> TaskStates] /\ Cardinality(Live) <= MaxUploads
  BY DEF TypeOK, TaskStates, Live
<1>1. tasks' \in [AssetIds -> TaskStates]
  BY <1>0
<1>2. CASE tasks[b] # "none" \/ s = "none"
  <2>1. New \subseteq Live /\ Live \subseteq AssetIds
    BY <1>0, <1>2 DEF Live
  <2> QED
    BY <1>0, <1>1, <2>1, FewerUploads, RecorderAssumption
<1>3. CASE Cardinality(Live) < MaxUploads
  <2>1. /\ New \subseteq Live \cup {b} /\ Live \subseteq AssetIds
        /\ Live \cup {b} \subseteq AssetIds
    BY <1>0 DEF Live
  <2>2. IsFiniteSet(Live) /\ Cardinality(Live) \in Nat
    BY <2>1, FewerUploads
  <2>3. /\ Cardinality(Live \cup {b}) \in Nat
        /\ Cardinality(Live \cup {b}) <= Cardinality(Live) + 1
    BY <2>2, FS_AddElement, SMTT(30)
  <2>4. Cardinality(New) \in Nat /\ Cardinality(New) <= Cardinality(Live \cup {b})
    BY <2>1, FewerUploads
  <2> HIDE DEF New
  <2>5. Cardinality(New) <= MaxUploads
    BY <1>3, <2>2, <2>3, <2>4, RecorderAssumption
  <2> QED
    BY <1>1, <2>5 DEF New
<1> QED
  BY <1>2, <1>3

\* Messages are added at the end of the inbox and taken from its front.
LEMMA InboxAppend ==
    ASSUME inbox \in Seq(Messages), NEW m \in Messages, inbox' = Append(inbox, m)
    PROVE  /\ inbox' \in Seq(Messages) /\ Len(inbox') = Len(inbox) + 1
           /\ \A i \in 1..Len(inbox) : inbox'[i] = inbox[i]
           /\ inbox'[Len(inbox) + 1] = m
OBVIOUS

LEMMA InboxTail ==
    ASSUME inbox \in Seq(Messages), inbox # <<>>, inbox' = Tail(inbox)
    PROVE  /\ inbox' \in Seq(Messages) /\ Len(inbox') = Len(inbox) - 1
           /\ Len(inbox) \in Nat /\ Len(inbox) > 0
           /\ Head(inbox) = inbox[1] /\ inbox[1] \in Messages
           /\ \A i \in 1..Len(inbox') : inbox'[i] = inbox[i + 1]
OBVIOUS

LEMMA QueueTail ==
    ASSUME NEW S, NEW q \in Seq(S), q # <<>>, NEW n \in Nat, Len(q) <= n
    PROVE  Tail(q) \in Seq(S) /\ Len(Tail(q)) <= n
OBVIOUS

LEMMA MessagesDiffer ==
    /\ Complete # Abort
    /\ \A a \in AssetIds : /\ Asset(a).type = "Asset" /\ Asset(a).id = a
                           /\ Asset(a) # Complete /\ Asset(a) # Abort
                           /\ \A b \in AssetIds : Asset(a) = Asset(b) => a = b
    /\ Complete.type # "Asset" /\ Abort.type # "Asset"
    /\ \A m \in Messages : m.type = "Asset" => m.id \in AssetIds /\ m = Asset(m.id)
<1>1. Complete.type = "Complete" /\ Abort.type = "Abort"
  BY DEF Complete, Abort
<1>2. \A a \in AssetIds : Asset(a).type = "Asset" /\ Asset(a).id = a
  BY DEF Asset
<1>3. \A m \in Messages : m.type = "Asset" => \E a \in AssetIds : m = Asset(a)
  BY <1>1 DEF Messages
<1> QED
  BY <1>1, <1>2, <1>3

\* The worker gives the session up.
LEMMA FailTypes ==
    ASSUME TypeOK, WorkerFails
    PROVE  /\ worker' = "abort" /\ net' \subseteq Requests
           /\ tasks' \in [AssetIds -> TaskStates]
           /\ Cardinality({a \in AssetIds : tasks'[a] # "none"}) <= MaxUploads
BY NoUploads, SendKeepsRequests DEF WorkerFails, TypeOK, Requests

\* One upload is joined: either it is done, or the worker gives up.
LEMMA JoinTypes ==
    ASSUME TypeOK, JoinOne
    PROVE  /\ worker' \in {worker, "abort"} /\ net' \subseteq Requests
           /\ tasks' \in [AssetIds -> TaskStates]
           /\ Cardinality({a \in AssetIds : tasks'[a] # "none"}) <= MaxUploads
<1>1. CASE WorkerFails
  BY <1>1, FailTypes
<1>2. ASSUME NEW b \in Live, tasks' = [tasks EXCEPT ![b] = "none"], UNCHANGED <<worker, net>>
      PROVE  /\ worker' \in {worker, "abort"} /\ net' \subseteq Requests
             /\ tasks' \in [AssetIds -> TaskStates]
             /\ Cardinality({a \in AssetIds : tasks'[a] # "none"}) <= MaxUploads
  <2>1. b \in AssetIds /\ "none" \in TaskStates
    BY DEF Live, TaskStates
  <2>2. net \subseteq Requests
    BY DEF TypeOK, Requests
  <2> QED
    BY <1>2, <2>1, <2>2, TaskChanges
<1> QED
  BY <1>1, <1>2 DEF JoinOne

\* The join of a finished upload forgets no asset.
LEMMA JoinKeeps ==
    ASSUME TypeOK, Delivery, JoinOne, UNCHANGED stored
    PROVE  /\ \A a \in AssetIds : tasks'[a] = "ok" => a \in stored'
           /\ \/ UNCHANGED <<worker, net>> /\ \A a \in AssetIds : OnItsWay(a) => OnItsWay(a)'
              \/ worker' = "abort"
<1>1. CASE WorkerFails
  BY <1>1 DEF WorkerFails
<1>2. ASSUME NEW b \in Live, tasks[b] = "ok", tasks' = [tasks EXCEPT ![b] = "none"],
             UNCHANGED <<worker, net>>
      PROVE  /\ \A a \in AssetIds : tasks'[a] = "ok" => a \in stored'
             /\ \A a \in AssetIds : OnItsWay(a) => OnItsWay(a)'
  <2>1. b \in AssetIds /\ \A a \in AssetIds : tasks'[a] = IF a = b THEN "none" ELSE tasks[a]
    BY <1>2 DEF Live, TypeOK
  <2> QED
    BY <1>2, <2>1 DEF Delivery, OnItsWay
<1> QED
  BY <1>1, <1>2 DEF JoinOne

\* What each part of the invariant depends on.
LEMMA Frames ==
    ASSUME IInv
    PROVE  /\ UNCHANGED <<phase, content>> => SessionType'
           /\ UNCHANGED <<kind, rec, result, event, writer, media, final, emitted, sinkError>>
              => Stages'
           /\ UNCHANGED <<kind, rec, result, event, worker>> => WorkerStages'
           /\ UNCHANGED <<kind, rec, result, event, worker, media, emitted, sinkError,
                          playlist, files, mediaFile>> => DiskInv'
           /\ UNCHANGED <<rec, result, worker, tasks, playlist, listed, stored, inbox>>
              => Delivery'
           /\ UNCHANGED <<kind, rec, result, event, worker, emitted, listed, stored, net,
                          phase, content>> => SessionInv'
<1>1. UNCHANGED <<phase, content>> => SessionType'
  BY DEF IInv, SessionType
<1>2. UNCHANGED <<kind, rec, result, event, writer, media, final, emitted, sinkError>>
      => Stages'
  BY DEF IInv, Stages, Hls
<1>3. UNCHANGED <<kind, rec, result, event, worker>> => WorkerStages'
  BY DEF IInv, WorkerStages, Hls
<1>4. UNCHANGED <<kind, rec, result, event, worker, media, emitted, sinkError, playlist,
                  files, mediaFile>> => DiskInv'
  BY DEF IInv, DiskInv, Hls
<1>5. UNCHANGED <<rec, result, worker, tasks, playlist, listed, stored, inbox>> => Delivery'
  BY DEF IInv, Delivery, OnItsWay, InInbox, Listening
<1>6. UNCHANGED <<kind, rec, result, event, worker, emitted, listed, stored, net, phase,
                  content>> => SessionInv'
  BY DEF IInv, SessionInv, Ready, Hls, Remote
<1> QED
  BY <1>1, <1>2, <1>3, <1>4, <1>5, <1>6

-----------------------------------------------------------------------------
(* One lemma per action.                                                   *)

LEMMA StopKeeps ==
    ASSUME IInv, Stop
    PROVE  IInv'
<1> USE RecorderAssumption DEF IInv, Stop, recorderVars, writerVars, sinkVars, disk,
                               workerVars, session
<1>1. TypeOK'
  BY DEF TypeOK
<1> QED
  BY <1>1, Frames

LEMMA DropStopKeeps ==
    ASSUME IInv, DropStop
    PROVE  IInv'
<1> USE RecorderAssumption DEF IInv, DropStop, recorderVars, writerVars, sinkVars, disk,
                               workerVars, session
<1>1. TypeOK'
  BY DEF TypeOK
<1> QED
  BY <1>1, Frames

LEMMA SpawnWorkerKeeps ==
    ASSUME IInv, SpawnWorker
    PROVE  IInv'
<1> USE RecorderAssumption DEF IInv, SpawnWorker, writerVars, sinkVars, disk, session
<1>1. TypeOK'
  BY DEF TypeOK
<1>2. Stages'
  BY DEF Stages, Returned, Uploading, Hls
<1>3. WorkerStages'
  BY DEF WorkerStages, Hls, Stages, Returned, Uploading
<1>4. DiskInv'
  BY DEF DiskInv, Hls
<1>5. Delivery'
  BY DEF Delivery, OnItsWay, InInbox, Listening, Returned, Uploading, TypeOK, Stages,
         WorkerStages, DiskInv, AssetIds
<1>6. SessionInv'
  BY DEF SessionInv, Ready, Hls, Remote
<1> QED
  BY <1>1, <1>2, <1>3, <1>4, <1>5, <1>6, Frames

LEMMA StartCaptureKeeps ==
    ASSUME IInv, StartCapture
    PROVE  IInv'
<1> USE RecorderAssumption DEF IInv, StartCapture, sinkVars, disk, workerVars, session
<1>1. TypeOK'
  BY DEF TypeOK
<1>2. Stages'
  BY DEF Stages, Returned, Uploading, Hls
<1>3. WorkerStages'
  BY DEF WorkerStages, Hls, Stages, Returned, Uploading
<1>4. DiskInv'
  BY DEF DiskInv, Hls
<1>5. Delivery'
  BY DEF Delivery, OnItsWay, InInbox, Listening, Returned, Uploading
<1>6. SessionInv'
  BY DEF SessionInv, Ready, Hls, Remote, Stages, Returned, Uploading
<1> QED
  BY <1>1, <1>2, <1>3, <1>4, <1>5, <1>6, Frames

LEMMA WaitStopKeeps ==
    ASSUME IInv, WaitStop
    PROVE  IInv'
<1> USE RecorderAssumption DEF IInv, WaitStop, writerVars, sinkVars, disk, workerVars,
                               session
<1>1. TypeOK'
  BY DEF TypeOK
<1>2. Stages'
  BY DEF Stages, Returned, Uploading, Hls
<1>3. WorkerStages'
  BY DEF WorkerStages, Hls, Stages, Returned, Uploading
<1>4. DiskInv'
  BY DEF DiskInv, Hls
<1>5. Delivery'
  BY DEF Delivery, OnItsWay, InInbox, Listening, Returned, Uploading
<1>6. SessionInv'
  BY DEF SessionInv, Ready, Hls, Remote, Stages, Returned, Uploading
<1> QED
  BY <1>1, <1>2, <1>3, <1>4, <1>5, <1>6, Frames

LEMMA StopCaptureKeeps ==
    ASSUME IInv, StopCapture
    PROVE  IInv'
<1> USE RecorderAssumption DEF IInv, StopCapture, writerVars, sinkVars, disk,
                               workerVars, session
<1>1. TypeOK'
  BY DEF TypeOK
<1>2. Stages'
  BY DEF Stages, Returned, Uploading, Hls
<1>3. WorkerStages'
  BY DEF WorkerStages, Hls, Stages, Returned, Uploading
<1>4. DiskInv'
  BY DEF DiskInv, Hls
<1>5. Delivery'
  BY DEF Delivery, OnItsWay, InInbox, Listening, Returned, Uploading
<1>6. SessionInv'
  BY DEF SessionInv, Ready, Hls, Remote, Stages, Returned, Uploading
<1> QED
  BY <1>1, <1>2, <1>3, <1>4, <1>5, <1>6, Frames

LEMMA SendFinishKeeps ==
    ASSUME IInv, SendFinish
    PROVE  IInv'
<1> USE RecorderAssumption DEF IInv, SendFinish, writerVars, sinkVars, disk, workerVars,
                               session
<1>1. TypeOK'
  <2>1. CASE queue' = queue
    BY <2>1 DEF TypeOK
  <2>2. CASE queue' = Append(queue, "finish") /\ Len(queue) < QueueDepth
    BY <2>2 DEF TypeOK
  <2> QED
    BY <2>1, <2>2
<1>2. Stages'
  BY DEF Stages, Returned, Uploading, Hls
<1>3. WorkerStages'
  BY DEF WorkerStages, Hls, Stages, Returned, Uploading
<1>4. DiskInv'
  BY DEF DiskInv, Hls
<1>5. Delivery'
  BY DEF Delivery, OnItsWay, InInbox, Listening, Returned, Uploading
<1>6. SessionInv'
  BY DEF SessionInv, Ready, Hls, Remote, Stages, Returned, Uploading
<1> QED
  BY <1>1, <1>2, <1>3, <1>4, <1>5, <1>6, Frames

LEMMA JoinWriterKeeps ==
    ASSUME IInv, JoinWriter
    PROVE  IInv'
<1> USE RecorderAssumption DEF IInv, JoinWriter, writerVars, sinkVars, disk, workerVars,
                               session
<1>1. TypeOK'
  BY DEF TypeOK
<1>2. Stages'
  BY DEF Stages, Returned, Uploading, Hls
<1>3. WorkerStages'
  BY DEF WorkerStages, Hls, Stages, Returned, Uploading
<1>4. DiskInv'
  BY DEF DiskInv, Hls
<1>5. Delivery'
  BY DEF Delivery, OnItsWay, InInbox, Listening, Returned, Uploading
<1>6. SessionInv'
  BY DEF SessionInv, Ready, Hls, Remote, Stages, Returned, Uploading
<1> QED
  BY <1>1, <1>2, <1>3, <1>4, <1>5, <1>6, Frames

LEMMA JoinCameraKeeps ==
    ASSUME IInv, JoinCamera
    PROVE  IInv'
<1> USE RecorderAssumption DEF IInv, JoinCamera, writerVars, sinkVars, disk, workerVars,
                               session
<1>1. TypeOK'
  BY DEF TypeOK
<1>2. Stages'
  BY DEF Stages, Returned, Uploading, Hls
<1>3. WorkerStages'
  BY DEF WorkerStages, Hls, Stages, Returned, Uploading
<1>4. DiskInv'
  BY DEF DiskInv, Hls
<1>5. Delivery'
  BY DEF Delivery, OnItsWay, InInbox, Listening, Returned, Uploading
<1>6. SessionInv'
  BY DEF SessionInv, Ready, Hls, Remote, Stages, Returned, Uploading
<1> QED
  BY <1>1, <1>2, <1>3, <1>4, <1>5, <1>6, Frames

\* The last message to the worker is sent once, after every asset message.
LEMMA ReportKeeps ==
    ASSUME IInv, Report
    PROVE  IInv'
<1> USE RecorderAssumption DEF IInv, Report, writerVars, sinkVars, disk, workerVars,
                               session
<1>1. TypeOK'
  <2>1. inbox' \in Seq(Messages)
    BY InboxAppend DEF TypeOK, Deliver, Messages
  <2> QED
    BY <2>1 DEF TypeOK, Messages, Remote
<1>2. Stages'
  BY DEF Stages, Returned, Uploading, Hls, TypeOK
<1>3. WorkerStages'
  BY DEF WorkerStages, Hls
<1>4. DiskInv'
  BY DEF DiskInv, Hls
<1>5. Delivery'
  <2>1. inbox \in Seq(Messages) /\ {Complete, Abort} \subseteq Messages
    BY DEF TypeOK, Messages
  <2>2. CASE inbox' = inbox
    BY <2>2 DEF Delivery, OnItsWay, InInbox, Listening, Returned, Uploading, TypeOK, Hls, Stages
  <2>3. CASE /\ Hls /\ Listening
             /\ inbox' = Append(inbox, IF result = "ok" THEN Complete ELSE Abort)
    <3>1. /\ Len(inbox') = Len(inbox) + 1 /\ Len(inbox) \in Nat
          /\ \A i \in 1..Len(inbox) : inbox'[i] = inbox[i]
          /\ inbox'[Len(inbox) + 1] = IF result = "ok" THEN Complete ELSE Abort
      BY <2>1, <2>3, InboxAppend
    <3>2. ~InInbox(Complete)
      BY DEF Delivery
    <3>3. \A i \in 1..Len(inbox') : inbox'[i] = Complete => i = Len(inbox') /\ result' = "ok"
      BY <3>1, <3>2, MessagesDiffer DEF InInbox
    <3>4. \A m : InInbox(m) => InInbox(m)'
      BY <3>1 DEF InInbox
    <3> QED
      BY <2>3, <3>3, <3>4 DEF Delivery, OnItsWay, Listening, Returned, Uploading
  <2> QED
    BY <2>2, <2>3 DEF Deliver
<1>6. SessionInv'
  BY DEF SessionInv, Ready, Hls, Remote
<1> QED
  BY <1>1, <1>2, <1>3, <1>4, <1>5, <1>6, Frames

\* The cleanup leaves what was made on disk unless the worker published it.
LEMMA JoinWorkerKeeps ==
    ASSUME IInv, JoinWorker
    PROVE  IInv'
<1> USE RecorderAssumption DEF IInv, JoinWorker, writerVars, sinkVars, workerVars,
                               session
<1>1. TypeOK'
  <2>1. /\ files' \subseteq AssetIds /\ mediaFile' \in BOOLEAN
        /\ event' \in {"Failed", "Finished"} /\ rec' = "ended"
        /\ UNCHANGED <<kind, stopChan, result, capture, queue, writer, media, camera, final,
                       emitted, sinkError, playlist, inbox, worker, tasks, foundInit, listed,
                       stored, net>>
    BY DEF TypeOK
  <2> HIDE DEF JoinWorker
  <2> QED
    BY <2>1 DEF TypeOK
<1>2. Stages'
  BY DEF Stages, Returned, Uploading, Hls
<1>3. WorkerStages'
  BY DEF WorkerStages, Hls
<1>4. DiskInv'
  BY DEF DiskInv, Hls, Stages, Returned, Uploading
<1>5. Delivery'
  BY DEF Delivery, OnItsWay, InInbox, Listening, Returned, Uploading
<1>6. SessionInv'
  BY DEF SessionInv, Ready, Hls, Remote, TypeOK, Stages, WorkerStages, DiskInv,
         Returned, Uploading, AssetIds
<1> QED
  BY <1>1, <1>2, <1>3, <1>4, <1>5, <1>6, Frames

LEMMA CaptureSampleKeeps ==
    ASSUME IInv, CaptureSample
    PROVE  IInv'
<1> USE RecorderAssumption DEF IInv, CaptureSample, recorderVars, writerVars, sinkVars,
                               disk, workerVars, session
<1>1. TypeOK'
  BY DEF TypeOK
<1> QED
  BY <1>1, Frames

LEMMA CaptureLostKeeps ==
    ASSUME IInv, CaptureLost
    PROVE  IInv'
<1> USE RecorderAssumption DEF IInv, CaptureLost, writerVars, sinkVars, disk,
                               workerVars, session
<1>1. TypeOK'
  BY DEF TypeOK
<1> QED
  BY <1>1, Frames

\* The first frame creates the media file.
LEMMA WriteFrameKeeps ==
    ASSUME IInv, WriteFrame
    PROVE  IInv'
<1> USE RecorderAssumption DEF IInv, WriteFrame, recorderVars, sinkVars, workerVars,
                               session
<1>1. TypeOK'
  <2>1. queue' \in Seq({"frame", "audio", "finish"}) /\ Len(queue') <= QueueDepth
    BY QueueTail DEF TypeOK
  <2>2. mediaFile' \in BOOLEAN
    <3>1. mediaFile \in BOOLEAN
      BY DEF TypeOK
    <3> QED
      BY <3>1
  <2> QED
    BY <2>1, <2>2 DEF TypeOK
<1>2. Stages'
  BY DEF Stages, Returned, Uploading, Hls
<1>3. DiskInv'
  <2>1. CASE UNCHANGED <<media, mediaFile>>
    BY <2>1 DEF DiskInv, Hls
  <2>2. CASE mediaFile' = ~Hls /\ media' # "none" /\ writer = "run"
    <3>1. ~Hls => mediaFile'
      BY <2>2
    <3>2. media = "none" => emitted = 0
      BY DEF DiskInv
    <3> QED
      BY <2>2, <3>1, <3>2 DEF DiskInv, Hls
  <2> QED
    BY <2>1, <2>2 DEF TypeOK
<1> QED
  BY <1>1, <1>2, <1>3, Frames

LEMMA WriteAudioKeeps ==
    ASSUME IInv, WriteAudio
    PROVE  IInv'
<1> USE RecorderAssumption DEF IInv, WriteAudio, recorderVars, sinkVars, disk,
                               workerVars, session
<1>1. TypeOK'
  BY DEF TypeOK
<1>2. Stages'
  BY DEF Stages, Returned, Uploading, Hls
<1> QED
  BY <1>1, <1>2, Frames

LEMMA LeaveLoopKeeps ==
    ASSUME IInv, LeaveLoop
    PROVE  IInv'
<1> USE RecorderAssumption DEF IInv, LeaveLoop, recorderVars, sinkVars, disk,
                               workerVars, session
<1>1. TypeOK'
  <2>1. queue' \in Seq({"frame", "audio", "finish"}) /\ Len(queue') <= QueueDepth
    <3>1. CASE queue' = queue
      BY <3>1 DEF TypeOK
    <3>2. CASE queue # <<>> /\ queue' = Tail(queue)
      BY <3>2, QueueTail DEF TypeOK
    <3> QED
      BY <3>1, <3>2
  <2> QED
    BY <2>1 DEF TypeOK
<1>2. Stages'
  BY DEF Stages, Returned, Uploading, Hls
<1> QED
  BY <1>1, <1>2, Frames

\* The writer returns ok only with the media finished and the sink intact.
LEMMA FinishWriterKeeps ==
    ASSUME IInv, FinishWriter
    PROVE  IInv'
<1> USE RecorderAssumption DEF IInv, FinishWriter, recorderVars, sinkVars, disk,
                               workerVars, session
<1>1. TypeOK'
  <2>1. final' \in BOOLEAN
    BY DEF TypeOK
  <2>2. writer' \in {"ok", "err"}
    OBVIOUS
  <2> QED
    BY <2>1, <2>2 DEF TypeOK
<1>2. Stages'
  BY DEF Stages, Returned, Uploading, Hls
<1> QED
  BY <1>1, <1>2, Frames

LEMMA CameraWriterKeeps ==
    ASSUME IInv, CameraWriter
    PROVE  IInv'
<1> USE RecorderAssumption DEF IInv, CameraWriter, recorderVars, sinkVars, disk,
                               workerVars, session
<1>1. TypeOK'
  BY DEF TypeOK
<1> QED
  BY <1>1, Frames

\* A new asset of the playlist is in the inbox before anything else happens.
LEMMA EmitAssetKeeps ==
    ASSUME IInv, EmitAsset
    PROVE  IInv'
<1> USE RecorderAssumption DEF IInv, EmitAsset, recorderVars, writerVars, workerVars,
                               session
<1>1. TypeOK'
  <2>1. emitted \in AssetIds /\ emitted + 1 \in 0..MaxAssets
    BY DEF TypeOK, AssetIds
  <2>2. inbox' \in Seq(Messages)
    BY <2>1, InboxAppend DEF TypeOK, Deliver, Messages
  <2>3. /\ {emitted', playlist', listed'} \subseteq 0..MaxAssets
        /\ files' \subseteq AssetIds
    BY <2>1 DEF TypeOK
  <2>4. sinkError' \in BOOLEAN
    BY DEF TypeOK
  <2> QED
    BY <2>2, <2>3, <2>4 DEF TypeOK, Messages
<1>2. Stages'
  BY DEF Stages, Returned, Uploading, Hls
<1>3. DiskInv'
  BY DEF DiskInv, Hls, TypeOK
<1>4. Delivery'
  <2>1. /\ inbox \in Seq(Messages) /\ emitted \in AssetIds /\ Asset(emitted) \in Messages
        /\ AssetIds \subseteq Nat /\ emitted \in Nat
    BY DEF TypeOK, Messages, AssetIds
  <2>2. CASE UNCHANGED <<inbox, playlist>>
    BY <2>2 DEF Delivery, OnItsWay, InInbox, Listening
  <2>3. CASE playlist' = emitted + 1 /\ Deliver(Asset(emitted))
    <3>1. result # "ok" /\ playlist = emitted /\ ~InInbox(Complete)
      BY DEF Stages, DiskInv, Delivery, InInbox
    <3>2. CASE ~Listening
      BY <2>3, <3>1, <3>2 DEF Deliver, Delivery, WorkerStages, Listening, InInbox
    <3>3. CASE Listening
      <4>1. /\ Len(inbox') = Len(inbox) + 1 /\ Len(inbox) \in Nat
            /\ \A i \in 1..Len(inbox) : inbox'[i] = inbox[i]
            /\ inbox'[Len(inbox) + 1] = Asset(emitted)
        BY <2>1, <2>3, <3>3, InboxAppend DEF Deliver
      <4>2. \A i \in 1..Len(inbox') : inbox'[i] # Complete
        <5>1. \A i \in 1..Len(inbox') : i \in 1..Len(inbox) \/ i = Len(inbox) + 1
          BY <4>1
        <5> QED
          BY <2>1, <3>1, <4>1, <5>1, MessagesDiffer DEF InInbox
      <4>3. \A m : InInbox(m) => InInbox(m)'
        BY <4>1 DEF InInbox
      <4>4. \E i \in 1..Len(inbox') : inbox'[i] = Asset(emitted)
        BY <4>1
      <4>5. \A a \in AssetIds : a < playlist' => a < playlist \/ a = emitted
        BY <2>1, <2>3, <3>1
      <4>6. \A a \in AssetIds : a < playlist' => OnItsWay(a)' \/ InInbox(Asset(a))'
        BY <3>3, <4>3, <4>4, <4>5 DEF Delivery, OnItsWay, InInbox
      <4> QED
        BY <3>3, <4>2, <4>6 DEF Delivery, InInbox, Listening, Returned, Uploading
    <3> QED
      BY <3>2, <3>3
  <2> QED
    BY <2>2, <2>3
<1>5. SessionInv'
  BY DEF SessionInv, Ready, Hls, Remote, Stages, Returned, Uploading
<1> QED
  BY <1>1, <1>2, <1>3, <1>4, <1>5, Frames

\* The server publishes only what a complete request allowed it to.
LEMMA ServerActsKeeps ==
    ASSUME IInv, ServerActs
    PROVE  IInv'
<1> USE RecorderAssumption DEF IInv, ServerActs, recorderVars, writerVars, sinkVars,
                               disk, workerVars
<1>1. TypeOK'
  BY DEF TypeOK
<1>2. SessionType'
  BY DEF SessionType, Server!Begin, Server!Assemble, Server!Publish, Server!Discard
<1>3. SessionInv'
  <2>1. Ready' <=> Ready
    BY DEF Ready, Hls
  <2>2. /\ content'[Rec] # {} => content[Rec] # {} \/ "complete" \in net
        /\ phase'[Rec] = "published" => content'[Rec] # {}
        /\ phase[Rec] = "published" => phase'[Rec] = "published"
    BY DEF SessionInv, SessionType, Server!Begin, Server!Assemble, Server!Publish, Server!Discard
  <2> QED
    BY <2>1, <2>2 DEF SessionInv, Remote
<1> QED
  BY <1>1, <1>2, <1>3, Frames

LEMMA ServerDropsKeeps ==
    ASSUME IInv, ServerDrops
    PROVE  IInv'
<1> USE RecorderAssumption DEF IInv, ServerDrops, recorderVars, writerVars, sinkVars,
                               disk, workerVars, session
<1>1. TypeOK'
  BY DEF TypeOK
<1>2. SessionInv'
  BY DEF SessionInv, Ready, Hls, Remote
<1> QED
  BY <1>1, <1>2, Frames

LEMMA WorkerCreateKeeps ==
    ASSUME IInv, WorkerCreate
    PROVE  IInv'
<1> USE RecorderAssumption DEF IInv, WorkerCreate, recorderVars, writerVars, sinkVars,
                               disk, session
<1>1. TypeOK'
  <2>1. net' \subseteq Requests
    BY SendKeepsRequests DEF TypeOK, Requests
  <2>2. inbox \in Seq(Messages) /\ <<>> \in Seq(Messages)
    BY DEF TypeOK, Messages
  <2>3. inbox' \in Seq(Messages)
    BY <2>2
  <2> QED
    BY <2>1, <2>3 DEF TypeOK, Requests, Messages
<1>2. WorkerStages'
  BY DEF WorkerStages, Hls
<1>3. DiskInv'
  BY DEF DiskInv, Hls
<1>4. Delivery'
  <2>1. CASE UNCHANGED inbox /\ Listening
    BY <2>1 DEF Delivery, OnItsWay, InInbox, Listening
  <2>2. CASE inbox' = <<>> /\ worker' = "err"
    BY <2>2 DEF Delivery, InInbox, Listening
  <2> QED
    BY <2>1, <2>2 DEF Listening
<1>5. SessionInv'
  BY DEF SessionInv, Ready, Hls, Remote, Send, Listening
<1> QED
  BY <1>1, <1>2, <1>3, <1>4, <1>5, Frames

\* An asset moves from the inbox to the tasks; a joined upload is in the bucket.
LEMMA WorkerAssetKeeps ==
    ASSUME IInv, WorkerAsset
    PROVE  IInv'
<1> USE RecorderAssumption DEF IInv, WorkerAsset, recorderVars, writerVars, sinkVars,
                               disk, session
<1>1. TypeOK'
  <2>0. inbox \in Seq(Messages) /\ Head(inbox) \in Messages /\ Tail(inbox) \in Seq(Messages)
    BY InboxTail DEF TypeOK, Messages
  <2>1. CASE /\ Cardinality(Live) < MaxUploads
             /\ tasks' = [tasks EXCEPT ![Head(inbox).id] = "run"]
             /\ foundInit' = (foundInit \/ Head(inbox).id = 0)
             /\ inbox' = Tail(inbox)
             /\ UNCHANGED <<worker, net>>
    <3>1. Head(inbox).id \in AssetIds /\ "run" \in TaskStates
      BY <2>0, MessagesDiffer DEF TaskStates
    <3>2. /\ tasks' \in [AssetIds -> TaskStates]
          /\ Cardinality({a \in AssetIds : tasks'[a] # "none"}) <= MaxUploads
      BY <2>1, <3>1, TaskChanges
    <3>3. foundInit' \in BOOLEAN
      BY <2>1
    <3> QED
      BY <2>0, <2>1, <3>2, <3>3 DEF TypeOK, Messages, TaskStates
  <2>2. CASE JoinOne /\ inbox' \in {<<>>, inbox} /\ UNCHANGED foundInit
    <3>1. <<>> \in Seq(Messages)
      OBVIOUS
    <3>2. inbox' \in Seq(Messages)
      BY <2>0, <2>2, <3>1
    <3> QED
      BY <2>2, <3>2, JoinTypes DEF TypeOK, Messages, Requests, TaskStates
  <2> QED
    BY <2>1, <2>2
<1>2. WorkerStages'
  BY DEF WorkerStages, Hls, JoinOne, WorkerFails, Send, Live, Listening
<1>3. DiskInv'
  BY DEF DiskInv, Hls
<1>4. Delivery'
  <2>0. inbox \in Seq(Messages)
    BY DEF TypeOK, Messages
  <2>1. CASE /\ tasks' = [tasks EXCEPT ![Head(inbox).id] = "run"]
             /\ inbox' = Tail(inbox)
             /\ UNCHANGED <<worker, net>>
    <3> DEFINE h == Head(inbox).id
    <3>2. /\ Len(inbox) \in Nat /\ Len(inbox) > 0 /\ Len(inbox') = Len(inbox) - 1
          /\ Head(inbox) = inbox[1] /\ inbox[1] \in Messages
          /\ \A i \in 1..Len(inbox') : inbox'[i] = inbox[i + 1]
      BY <2>0, <2>1, InboxTail
    <3>1. h \in AssetIds /\ inbox[1] = Asset(h)
      BY <3>2, MessagesDiffer
    <3>3. \A i \in 1..Len(inbox) : i = 1 \/ (i - 1 \in 1..Len(inbox') /\ inbox'[i - 1] = inbox[i])
      BY <3>2
    <3>4. \A a \in AssetIds : InInbox(Asset(a)) => a = h \/ InInbox(Asset(a))'
      BY <3>1, <3>3, MessagesDiffer DEF InInbox
    <3> HIDE DEF h
    <3>5. tasks'[h] = "run" /\ \A a \in AssetIds : a = h \/ tasks'[a] = tasks[a]
      BY <2>1, <3>1 DEF TypeOK, h
    <3>6. \A a \in AssetIds : a < playlist => OnItsWay(a)' \/ InInbox(Asset(a))'
      BY <3>4, <3>5 DEF Delivery, OnItsWay, Listening
    <3>7. \A i \in 1..Len(inbox') : inbox'[i] = Complete => i = Len(inbox') /\ result = "ok"
      <4> TAKE i \in 1..Len(inbox')
      <4> HAVE inbox'[i] = Complete
      <4>1. i + 1 \in 1..Len(inbox) /\ inbox[i + 1] = Complete
        BY <3>2
      <4> QED
        BY <3>2, <4>1 DEF Delivery
    <3>8. InInbox(Complete)' => InInbox(Complete)
      <4>1. \A i \in 1..Len(inbox') : i + 1 \in 1..Len(inbox) /\ inbox'[i] = inbox[i + 1]
        BY <3>2
      <4> QED
        BY <4>1 DEF InInbox
    <3> QED
      BY <2>1, <3>5, <3>6, <3>7, <3>8 DEF Delivery, Listening
  <2>2. CASE JoinOne /\ inbox' = IF worker' = "abort" THEN <<>> ELSE inbox
    <3>1. CASE UNCHANGED <<worker, net>>
      BY <2>2, <3>1, JoinKeeps DEF Delivery, InInbox, Listening
    <3>2. CASE worker' = "abort"
      BY <2>2, <3>2, JoinKeeps DEF Delivery, InInbox, Listening
    <3> QED
      BY <2>2, <3>1, <3>2, JoinKeeps
  <2> QED
    BY <2>1, <2>2
<1>5. SessionInv'
  BY DEF SessionInv, Ready, Hls, Remote, JoinOne, WorkerFails, Send, Live, Listening
<1> QED
  BY <1>1, <1>2, <1>3, <1>4, <1>5, Frames

\* Complete is the last message, so no asset is left in the inbox behind it.
LEMMA WorkerMessageKeeps ==
    ASSUME IInv, WorkerMessage
    PROVE  IInv'
<1> USE RecorderAssumption DEF IInv, WorkerMessage, recorderVars, writerVars, sinkVars,
                               disk, session
<1>1. TypeOK'
  <2>1. inbox' \in Seq(Messages)
    OBVIOUS
  <2>2. CASE worker' = "drain" /\ UNCHANGED <<tasks, net>>
    BY <2>1, <2>2 DEF TypeOK, Messages
  <2>3. CASE WorkerFails
    BY <2>1, <2>3, FailTypes DEF TypeOK, Messages, Requests, TaskStates
  <2> QED
    BY <2>2, <2>3
<1>2. WorkerStages'
  <2>1. CASE Head(inbox) = Complete /\ worker' = "drain"
    <3>1. inbox[1] = Complete /\ 1 \in 1..Len(inbox)
      BY <2>1 DEF TypeOK
    <3>2. result = "ok"
      BY <3>1 DEF Delivery
    <3> QED
      BY <2>1, <3>2 DEF WorkerStages, Hls
  <2>2. CASE worker' = "abort"
    BY <2>2 DEF WorkerStages, Hls
  <2> QED
    BY <2>1, <2>2 DEF WorkerFails
<1>3. DiskInv'
  BY DEF DiskInv, Hls
<1>4. Delivery'
  <2>0. inbox \in Seq(Messages) /\ Len(inbox) \in Nat
    BY DEF TypeOK, Messages
  <2>1. CASE Head(inbox) = Complete /\ worker' = "drain" /\ UNCHANGED <<tasks, net>>
    <3>1. 1 \in 1..Len(inbox) /\ inbox[1] = Complete
      BY <2>0, <2>1
    <3>2. Len(inbox) = 1
      BY <3>1 DEF Delivery
    <3>3. \A a \in AssetIds : ~InInbox(Asset(a))
      BY <3>1, <3>2, MessagesDiffer DEF InInbox
    <3> QED
      BY <2>1, <3>3 DEF Delivery, OnItsWay, InInbox, Listening
  <2>2. CASE WorkerFails
    BY <2>2 DEF WorkerFails, Delivery, InInbox, Listening
  <2> QED
    BY <2>1, <2>2
<1>5. SessionInv'
  BY DEF SessionInv, Ready, Hls, Remote, WorkerFails, Send
<1> QED
  BY <1>1, <1>2, <1>3, <1>4, <1>5, Frames

\* With no upload left, every asset of the playlist is in the bucket.
LEMMA WorkerDrainKeeps ==
    ASSUME IInv, WorkerDrain
    PROVE  IInv'
<1> USE RecorderAssumption DEF IInv, WorkerDrain, recorderVars, writerVars, sinkVars,
                               disk, session
<1>1. TypeOK'
  <2>1. CASE worker' = "playlist" /\ UNCHANGED <<tasks, net>>
    BY <2>1 DEF TypeOK
  <2>2. CASE WorkerFails
    BY <2>2, FailTypes DEF TypeOK, Requests, TaskStates
  <2>3. CASE JoinOne
    BY <2>3, JoinTypes DEF TypeOK, Requests, TaskStates
  <2> QED
    BY <2>1, <2>2, <2>3
<1>2. WorkerStages'
  BY DEF WorkerStages, Hls
<1>3. DiskInv'
  BY DEF DiskInv, Hls
<1>4. Delivery'
  <2>1. CASE Live = {} /\ worker' = "playlist" /\ UNCHANGED <<tasks, net>>
    <3>1. \A a \in AssetIds : a < playlist => a \in stored
      BY <2>1 DEF Delivery, OnItsWay, Live
    <3>2. \A a \in 0..(playlist - 1) : a \in AssetIds /\ a < playlist
      BY DEF TypeOK, AssetIds
    <3> QED
      BY <2>1, <3>1, <3>2 DEF Delivery, Listening, InInbox
  <2>2. CASE WorkerFails
    BY <2>2 DEF WorkerFails, Delivery, InInbox, Listening
  <2>3. CASE JoinOne
    <3>1. CASE UNCHANGED <<worker, net>>
      BY <2>3, <3>1, JoinKeeps DEF Delivery, InInbox, Listening
    <3>2. CASE worker' = "abort"
      BY <2>3, <3>2, JoinKeeps DEF Delivery, InInbox, Listening
    <3> QED
      BY <2>3, <3>1, <3>2, JoinKeeps
  <2> QED
    BY <2>1, <2>2, <2>3
<1>5. SessionInv'
  BY DEF SessionInv, Ready, Hls, Remote, JoinOne, WorkerFails, Send, Live
<1> QED
  BY <1>1, <1>2, <1>3, <1>4, <1>5, Frames

\* Complete is requested for a playlist that lists every asset.
LEMMA WorkerPlaylistKeeps ==
    ASSUME IInv, WorkerPlaylist
    PROVE  IInv'
<1> USE RecorderAssumption DEF IInv, WorkerPlaylist, recorderVars, writerVars, sinkVars,
                               disk, session
<1>1. TypeOK'
  <2>1. CASE listed' = playlist /\ worker' = "complete" /\ Send("complete") /\ UNCHANGED tasks
    BY <2>1, SendKeepsRequests DEF TypeOK, Requests
  <2>2. CASE WorkerFails /\ UNCHANGED listed
    BY <2>2, FailTypes DEF TypeOK, Requests, TaskStates
  <2> QED
    BY <2>1, <2>2
<1>2. WorkerStages'
  BY DEF WorkerStages, Hls
<1>3. DiskInv'
  BY DEF DiskInv, Hls
<1>4. Delivery'
  BY DEF Delivery, OnItsWay, InInbox, Listening, Returned, Uploading, WorkerFails, Send
<1>5. SessionInv'
  <2>1. CASE listed' = playlist /\ worker' = "complete" /\ Send("complete")
    <3>1. Hls /\ result = "ok" /\ playlist = emitted /\ 0..(playlist - 1) \subseteq stored
      BY DEF WorkerStages, Stages, DiskInv, Delivery
    <3>2. Ready'
      BY <2>1, <3>1 DEF Ready, Hls
    <3> QED
      BY <2>1, <3>2 DEF SessionInv, Remote, Send
  <2>2. CASE WorkerFails /\ UNCHANGED listed
    BY <2>2 DEF WorkerFails, Send, SessionInv, Ready, Hls, Remote
  <2> QED
    BY <2>1, <2>2
<1> QED
  BY <1>1, <1>2, <1>3, <1>4, <1>5, Frames

LEMMA WorkerCompleteKeeps ==
    ASSUME IInv, WorkerComplete
    PROVE  IInv'
<1> USE RecorderAssumption DEF IInv, WorkerComplete, recorderVars, writerVars, sinkVars,
                               disk
<1>1. TypeOK'
  <2>1. CASE worker' = "ok" /\ UNCHANGED <<tasks, net>>
    BY <2>1 DEF TypeOK
  <2>2. CASE WorkerFails
    BY <2>2, FailTypes DEF TypeOK, Requests, TaskStates
  <2> QED
    BY <2>1, <2>2
<1>2. SessionType'
  BY DEF SessionType, Server!Tell, session
<1>3. WorkerStages'
  BY DEF WorkerStages, Hls
<1>4. DiskInv'
  BY DEF DiskInv, Hls
<1>5. Delivery'
  BY DEF Delivery, OnItsWay, InInbox, Listening, Returned, Uploading, WorkerFails, Send,
         Server!Tell, session
<1>6. SessionInv'
  BY DEF SessionInv, Ready, Hls, Remote, WorkerFails, Send, Server!Tell, session
<1> QED
  BY <1>1, <1>2, <1>3, <1>4, <1>5, <1>6, Frames

LEMMA WorkerAbortKeeps ==
    ASSUME IInv, WorkerAbort
    PROVE  IInv'
<1> USE RecorderAssumption DEF IInv, WorkerAbort, recorderVars, writerVars, sinkVars,
                               disk, session
<1>1. TypeOK'
  BY DEF TypeOK
<1>2. WorkerStages'
  BY DEF WorkerStages, Hls
<1>3. DiskInv'
  BY DEF DiskInv, Hls
<1>4. Delivery'
  BY DEF Delivery, OnItsWay, InInbox, Listening, Returned, Uploading
<1>5. SessionInv'
  BY DEF SessionInv, Ready, Hls, Remote
<1> QED
  BY <1>1, <1>2, <1>3, <1>4, <1>5, Frames

LEMMA UploadCreateKeeps ==
    ASSUME IInv, UploadCreate
    PROVE  IInv'
<1> USE RecorderAssumption DEF IInv, UploadCreate, writerVars, sinkVars, disk,
                               workerVars, session
<1>1. TypeOK'
  <2>1. net' \subseteq Requests
    BY SendKeepsRequests DEF TypeOK, Requests
  <2> QED
    BY <2>1 DEF TypeOK, Requests, KeepAndFail
<1>2. Stages'
  BY DEF Stages, Returned, Uploading, Hls, KeepAndFail, Send
<1>3. WorkerStages'
  BY DEF WorkerStages, Hls, Stages, Returned, Uploading
<1>4. DiskInv'
  BY DEF DiskInv, Hls, Stages, Returned, Uploading
<1>5. Delivery'
  BY DEF Delivery, OnItsWay, InInbox, Listening, Returned, Uploading, KeepAndFail, Send
<1>6. SessionInv'
  BY DEF SessionInv, Ready, Hls, Remote, KeepAndFail, Send
<1> QED
  BY <1>1, <1>2, <1>3, <1>4, <1>5, <1>6, Frames

LEMMA UploadPartsKeeps ==
    ASSUME IInv, UploadParts
    PROVE  IInv'
<1> USE RecorderAssumption DEF IInv, UploadParts, writerVars, sinkVars, disk,
                               workerVars, session
<1>1. TypeOK'
  <2>1. net' \subseteq Requests
    BY SendKeepsRequests DEF TypeOK, Requests
  <2> QED
    BY <2>1 DEF TypeOK, Requests
<1>2. Stages'
  BY DEF Stages, Returned, Uploading, Hls
<1>3. WorkerStages'
  BY DEF WorkerStages, Hls
<1>4. DiskInv'
  BY DEF DiskInv, Hls
<1>5. Delivery'
  BY DEF Delivery, OnItsWay, InInbox, Listening, Returned, Uploading
<1>6. SessionInv'
  BY DEF SessionInv, Ready, Hls, Remote, Stages, Returned, Uploading
<1> QED
  BY <1>1, <1>2, <1>3, <1>4, <1>5, <1>6, Frames

\* The file of an MP4 goes only with the answer of complete.
LEMMA UploadCompleteKeeps ==
    ASSUME IInv, UploadComplete
    PROVE  IInv'
<1> USE RecorderAssumption DEF IInv, UploadComplete, writerVars, sinkVars, workerVars
<1>1. TypeOK'
  <2>1. net' \subseteq Requests
    BY SendKeepsRequests DEF TypeOK, Requests
  <2>2. mediaFile' \in BOOLEAN
    BY DEF TypeOK
  <2> QED
    BY <2>1, <2>2 DEF TypeOK, Requests
<1>2. SessionType'
  BY DEF SessionType, Server!Tell, session
<1>3. Stages'
  BY DEF Stages, Returned, Uploading, Hls
<1>4. WorkerStages'
  BY DEF WorkerStages, Hls, Stages, Returned, Uploading
<1>5. DiskInv'
  BY DEF DiskInv, Hls, Stages, Returned, Uploading
<1>6. Delivery'
  BY DEF Delivery, OnItsWay, InInbox, Listening, Returned, Uploading
<1>7. SessionInv'
  BY DEF SessionInv, Ready, Hls, Remote, Send, Server!Tell, session
<1> QED
  BY <1>1, <1>2, <1>3, <1>4, <1>5, <1>6, <1>7, Frames

LEMMA UploadAbortKeeps ==
    ASSUME IInv, UploadAbort
    PROVE  IInv'
<1> USE RecorderAssumption DEF IInv, UploadAbort, writerVars, sinkVars, disk,
                               workerVars, session
<1>1. TypeOK'
  BY DEF TypeOK, KeepAndFail
<1>2. Stages'
  BY DEF Stages, Returned, Uploading, Hls, KeepAndFail
<1>3. WorkerStages'
  BY DEF WorkerStages, Hls, Stages, Returned, Uploading
<1>4. DiskInv'
  BY DEF DiskInv, Hls, Stages, Returned, Uploading
<1>5. Delivery'
  BY DEF Delivery, OnItsWay, InInbox, Listening, Returned, Uploading, KeepAndFail
<1>6. SessionInv'
  BY DEF SessionInv, Ready, Hls, Remote, KeepAndFail
<1> QED
  BY <1>1, <1>2, <1>3, <1>4, <1>5, <1>6, Frames

\* An upload that reports ok has put its asset into the bucket.
LEMMA UploadAssetKeeps ==
    ASSUME IInv, NEW a \in AssetIds, UploadAsset(a)
    PROVE  IInv'
<1> USE RecorderAssumption DEF IInv, UploadAsset, recorderVars, writerVars, sinkVars,
                               disk, session
<1>1. TypeOK'
  <2>1. /\ tasks' \in [AssetIds -> TaskStates]
        /\ Cardinality({b \in AssetIds : tasks'[b] # "none"}) <= MaxUploads
    BY TaskChanges DEF TaskStates
  <2>2. stored' \subseteq AssetIds
    BY DEF TypeOK
  <2> QED
    BY <2>1, <2>2 DEF TypeOK, TaskStates
<1>2. Delivery'
  BY DEF Delivery, OnItsWay, InInbox, Listening, Returned, Uploading, TypeOK
<1>3. SessionInv'
  BY DEF SessionInv, Ready, Hls, Remote
<1> QED
  BY <1>1, <1>2, <1>3, Frames

-----------------------------------------------------------------------------
(* Theorems.                                                               *)

LEMMA InitKeeps ==
    ASSUME Init
    PROVE  IInv
<1> USE RecorderAssumption DEF Init, Server!LifeInit
<1>1. TypeOK
  <2>1. {a \in AssetIds : tasks[a] # "none"} = {}
    OBVIOUS
  <2>2. Cardinality({a \in AssetIds : tasks[a] # "none"}) = 0
    BY <2>1, FS_EmptySet, Zenon
  <2> QED
    BY <2>2 DEF TypeOK, AssetIds
<1>2. SessionType /\ SessionInv
  BY DEF SessionType, SessionInv
<1>3. Stages /\ WorkerStages
  BY DEF Stages, WorkerStages, Returned, Uploading
<1>4. DiskInv
  BY DEF DiskInv
<1>5. Delivery
  BY DEF Delivery, Listening, InInbox, AssetIds
<1> QED
  BY <1>1, <1>2, <1>3, <1>4, <1>5 DEF IInv

\* The invariant holds in every state of a recording, whatever the threads,
\* the capturer, AVFoundation, the network and the server do.
THEOREM RecorderInvariant == Spec => []IInv
<1>1. Init => IInv
  BY InitKeeps
<1>2. IInv /\ [Next]_vars => IInv'
  <2> SUFFICES ASSUME IInv, [Next]_vars
               PROVE  IInv'
    OBVIOUS
  <2>1. CASE Stop \/ DropStop \/ CaptureSample \/ CaptureLost \/ EmitAsset \/ CameraWriter
             \/ ServerActs \/ ServerDrops
    BY <2>1, StopKeeps, DropStopKeeps, CaptureSampleKeeps, CaptureLostKeeps, EmitAssetKeeps,
       CameraWriterKeeps, ServerActsKeeps, ServerDropsKeeps
  <2>2. CASE RecorderStep
    BY <2>2, SpawnWorkerKeeps, StartCaptureKeeps, WaitStopKeeps, StopCaptureKeeps,
       SendFinishKeeps, JoinWriterKeeps, JoinCameraKeeps, ReportKeeps, JoinWorkerKeeps,
       UploadCreateKeeps, UploadPartsKeeps, UploadCompleteKeeps, UploadAbortKeeps
       DEF RecorderStep
  <2>3. CASE WriterStep
    BY <2>3, WriteFrameKeeps, WriteAudioKeeps, LeaveLoopKeeps, FinishWriterKeeps DEF WriterStep
  <2>4. CASE WorkerStep
    BY <2>4, WorkerCreateKeeps, WorkerAssetKeeps, WorkerMessageKeeps, WorkerDrainKeeps,
       WorkerPlaylistKeeps, WorkerCompleteKeeps, WorkerAbortKeeps DEF WorkerStep
  <2>5. CASE \E a \in AssetIds : UploadAsset(a)
    BY <2>5, UploadAssetKeeps
  <2>6. CASE UNCHANGED vars
    <3>1. TypeOK'
      BY <2>6 DEF IInv, TypeOK, vars, recorderVars, writerVars, sinkVars, disk, workerVars
    <3> QED
      BY <2>6, <3>1, Frames DEF IInv, vars, recorderVars, writerVars, sinkVars, disk,
         workerVars, session
  <2> QED
    BY <2>1, <2>2, <2>3, <2>4, <2>5, <2>6 DEF Next
<1> QED
  BY <1>1, <1>2, PTL DEF Spec

\* What is published was assembled from a complete upload.
LEMMA PublishedIsReady ==
    ASSUME IInv, phase[Rec] = "published"
    PROVE  Playable /\ (Hls => listed > 0)
BY DEF IInv, SessionInv, Ready, Playable, Stages, TypeOK

\* What was made is on disk until the recorder thread has ended, and then
\* unless its upload was confirmed.
LEMMA MadeIsKept ==
    ASSUME IInv, result = "ok",
           rec = "ended" => worker # "ok" /\ (kind = "mp4" => event # "Finished")
    PROVE  OnDisk
<1>1. final /\ media = "appended"
  BY DEF IInv, Stages
<1>2. CASE Hls
  BY <1>1, <1>2 DEF IInv, Stages, DiskInv, OnDisk
<1>3. CASE ~Hls
  BY <1>1, <1>3 DEF IInv, DiskInv, OnDisk
<1> QED
  BY <1>2, <1>3

\* NeverLost: a recording that was made stays on disk until it is published in
\* full (recording.rs keeps the directory or the file on every failed upload),
\* and the types are kept, with at most MaxUploads uploads at a time.
THEOREM RecordingNeverLost == Spec => []NeverLost
<1>1. IInv => NeverLost
  <2> SUFFICES ASSUME IInv, result = "ok"
               PROVE  OnDisk \/ Playable
    BY DEF NeverLost, IInv
  <2>1. CASE rec = "ended" => worker # "ok" /\ (kind = "mp4" => event # "Finished")
    BY <2>1, MadeIsKept
  <2>2. CASE rec = "ended" /\ (worker = "ok" \/ (kind = "mp4" /\ event = "Finished"))
    BY <2>2, PublishedIsReady DEF IInv, SessionInv, Remote
  <2> QED
    BY <2>1, <2>2
<1> QED
  BY <1>1, RecorderInvariant, PTL

\* PublishedIsPlayable: nobody can open a recording whose playlist names an
\* asset that is not in the bucket or leaves out one that was recorded.
THEOREM PublishedPlays == Spec => []PublishedIsPlayable
<1>1. IInv => PublishedIsPlayable
  BY PublishedIsReady DEF PublishedIsPlayable
<1> QED
  BY <1>1, RecorderInvariant, PTL

\* EventsAreTrue: the last event tells the user the truth about where the
\* recording is.
THEOREM LastEventIsTrue == Spec => []EventsAreTrue
<1>1. IInv => EventsAreTrue
  <2> SUFFICES ASSUME IInv, rec = "ended"
               PROVE  /\ event = "Finished" => IF Remote THEN Playable ELSE OnDisk
                      /\ event = "Failed" /\ result = "ok" => OnDisk
    BY DEF EventsAreTrue
  <2>1. CASE event = "Finished" /\ Remote
    BY <2>1, PublishedIsReady DEF IInv, SessionInv
  <2>2. CASE event = "Finished" /\ ~Remote
    BY <2>2, MadeIsKept DEF IInv, SessionInv, WorkerStages, Remote, Hls
  <2>3. CASE event = "Failed" /\ result = "ok"
    BY <2>3, MadeIsKept DEF IInv, WorkerStages
  <2> QED
    BY <2>1, <2>2, <2>3
<1> QED
  BY <1>1, RecorderInvariant, PTL

==============================================================================
