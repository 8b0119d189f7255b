---------------------------- MODULE UploadServer ----------------------------
(***************************************************************************)
(* The recording API of the Blip server (packages/blip-server-app): the    *)
(* HTTP handlers of the "storage" and "uploads" groups, the repository     *)
(* they write (one row per recording) and the S3 compatible object store   *)
(* they drive.                                                             *)
(*                                                                         *)
(* Handlers are Effect fibers that run concurrently, so each handler is    *)
(* cut at every call to the database or to the store: one action per call, *)
(* with the request's own snapshot of what it has read so far.  A call     *)
(* ends in one of three ways: it succeeds, it fails without an effect, or  *)
(* it takes effect and the caller still sees an error (a lost answer).     *)
(* A fiber may also be interrupted at any call (client gone, process       *)
(* stopped).                                                               *)
(*                                                                         *)
(* Object keys contain the recording's fresh UUID and every recording has  *)
(* one multipart upload, so the store is indexed by configuration (bucket) *)
(* and recording.                                                          *)
(***************************************************************************)
EXTENDS Naturals, FiniteSets

CONSTANTS
    Users,      \* user ids
    Videos,     \* recording ids (UUIDs that create may draw)
    Configs,    \* storage configurations (endpoint, bucket, credentials)
    Requests,   \* slots for requests being handled at the same time
    Parts,      \* part numbers of a multipart upload
    Assets,     \* names of HLS assets (init.mp4, segment00000.m4s, ...)
    Names,      \* recording names
    Hashes,     \* password hashes
    Inputs,     \* the request payloads clients may send
    NoConfig, NoHash, NoRow, Idle

VARIABLES
    userConfig, \* users.storage_config
    rows,       \* the videos table
    ids,        \* UUIDs drawn so far
    mpu,        \* multipart upload of a recording in a bucket
    uploaded,   \* parts stored in a multipart upload
    objects,    \* parts the assembled object is made of, {} when none
    assets,     \* HLS assets stored next to the playlist
    urls,       \* presigned PUT URLs handed out
    acked,      \* recordings whose complete request was answered with its URL
    req         \* the requests being handled

dbVars == <<userConfig, rows, ids>>
storeVars == <<mpu, uploaded, objects, assets>>
vars == <<userConfig, rows, ids, mpu, uploaded, objects, assets, urls, acked, req>>

Privacy == {"public", "password", "private"}

Row == [status: {"uploading", "complete"}, owner: Users, config: Configs,
        hls: BOOLEAN, name: Names, privacy: Privacy,
        hash: Hashes \cup {NoHash}, archived: BOOLEAN]

ASSUME SentinelAssumption ==
    /\ NoConfig \notin Configs
    /\ NoHash \notin Hashes
    /\ NoRow \notin Row

Ops == {"create", "signPart", "signAsset", "complete", "abort", "rename",
        "privacy", "archive", "setStorage", "removeStorage"}

\* Where a handler is: the call it will make next.
Calls == {"auth", "test", "setConfig", "createUpload", "createVideo",
          "abortOrphan", "find", "completeUpload", "objectExists",
          "markComplete", "abortUpload", "deleteVideo", "setName",
          "setPrivacy", "archiveVideo"}

\* What a client asks for.  `valid` says whether the checks on the payload and
\* on the upload id alone pass; an empty `parts` stands for a part list that is
\* empty or has duplicates; `hash` is NoHash when no password is sent.  Fields
\* an operation does not use are arbitrary.
Payload == [op: Ops, user: Users, video: Videos, valid: BOOLEAN, hls: BOOLEAN,
            part: Parts, asset: Assets, parts: SUBSET Parts, name: Names,
            privacy: Privacy, hash: Hashes \cup {NoHash}, newConfig: Configs]

ASSUME InputsAssumption == Inputs \subseteq Payload

\* A request being handled: its payload, its next call, and what the handler
\* has read so far: the user's configuration, then the recording's row
\* (for create: the row it will write).
Request == [in: Inputs, call: Calls, video: Videos,
            config: Configs \cup {NoConfig}, row: Row \cup {NoRow},
            hash: Hashes \cup {NoHash}]

PartUrl == [kind: {"part"}, config: Configs, video: Videos, part: Parts]
AssetUrl == [kind: {"asset"}, config: Configs, video: Videos, asset: Assets]

MpuStates == {"none", "open", "completed", "aborted"}

TypeOK ==
    /\ userConfig \in [Users -> Configs \cup {NoConfig}]
    /\ rows \in [Videos -> Row \cup {NoRow}]
    /\ ids \in SUBSET Videos
    /\ mpu \in [Configs -> [Videos -> MpuStates]]
    /\ uploaded \in [Configs -> [Videos -> SUBSET Parts]]
    /\ objects \in [Configs -> [Videos -> SUBSET Parts]]
    /\ assets \in [Configs -> [Videos -> SUBSET Assets]]
    /\ urls \in SUBSET (PartUrl \cup AssetUrl)
    /\ acked \in SUBSET Videos
    /\ req \in [Requests -> Request \cup {Idle}]

Init ==
    /\ userConfig = [u \in Users |-> NoConfig]
    /\ rows = [v \in Videos |-> NoRow]
    /\ ids = {}
    /\ mpu = [c \in Configs |-> [v \in Videos |-> "none"]]
    /\ uploaded = [c \in Configs |-> [v \in Videos |-> {}]]
    /\ objects = [c \in Configs |-> [v \in Videos |-> {}]]
    /\ assets = [c \in Configs |-> [v \in Videos |-> {}]]
    /\ urls = {}
    /\ acked = {}
    /\ req = [r \in Requests |-> Idle]

-----------------------------------------------------------------------------
(* Requests arriving, moving on and ending.                                *)

At(r, call) == req[r] # Idle /\ req[r].call = call

Goto(r, call) == req' = [req EXCEPT ![r] = [@ EXCEPT !.call = call]]

\* The handler has answered (or died): its slot is free again.
Finish(r) == req' = [req EXCEPT ![r] = Idle]

Receive(r) ==
    /\ req[r] = Idle
    /\ \E in \in Inputs :
          req' = [req EXCEPT ![r] = [in |-> in, call |-> "auth", video |-> in.video,
                                     config |-> NoConfig, row |-> NoRow,
                                     hash |-> NoHash]]
    /\ UNCHANGED <<dbVars, storeVars, urls, acked>>

\* userAuth: the session or the API key is verified and the user's row is
\* read; the handler works with this snapshot of the storage configuration.
FirstCall(op) ==
    IF op = "create" THEN "createUpload"
    ELSE IF op = "setStorage" THEN "test"
    ELSE IF op = "removeStorage" THEN "setConfig"
    ELSE "find"

Authenticate(r) ==
    /\ At(r, "auth")
    /\ \/ req' = [req EXCEPT ![r] =
                    [@ EXCEPT !.call = FirstCall(req[r].in.op),
                              !.config = userConfig[req[r].in.user]]]
       \/ Finish(r)
    /\ UNCHANGED <<dbVars, storeVars, urls, acked>>

\* The client disconnects or the process stops: the fiber never resumes.
Interrupt(r) ==
    /\ req[r] # Idle
    /\ Finish(r)
    /\ UNCHANGED <<dbVars, storeVars, urls, acked>>

-----------------------------------------------------------------------------
(* The "storage" group.                                                    *)

\* set: the URL checks, then a trial multipart upload against the new bucket.
TestStorage(r) ==
    /\ At(r, "test")
    /\ \/ req[r].in.valid /\ Goto(r, "setConfig")
       \/ Finish(r)
    /\ UNCHANGED <<dbVars, storeVars, urls, acked>>

\* set and remove: the write of users.storage_config.
SetConfig(r) ==
    /\ At(r, "setConfig")
    /\ \/ userConfig' = [userConfig EXCEPT ![req[r].in.user] =
                IF req[r].in.op = "setStorage" THEN req[r].in.newConfig ELSE NoConfig]
       \/ UNCHANGED userConfig
    /\ Finish(r)
    /\ UNCHANGED <<rows, ids, storeVars, urls, acked>>

-----------------------------------------------------------------------------
(* create.                                                                 *)

OpenUpload(c, v) == mpu' = [mpu EXCEPT ![c][v] = "open"]

\* Faulty variant of NewRow: a status the table does not know.
NewRow_Status(q) == [status |-> "created", owner |-> q.in.user, config |-> q.config,
                     hls |-> q.in.hls, name |-> q.in.name, privacy |-> "public",
                     hash |-> NoHash, archived |-> FALSE]

\* The row create will write: the user's configuration is copied into it.
NewRow(q) == [status |-> "uploading", owner |-> q.in.user, config |-> q.config,
              hls |-> q.in.hls, name |-> q.in.name, privacy |-> "public",
              hash |-> NoHash, archived |-> FALSE]

\* The early returns of create, then storage.createUpload for a fresh id.
CreateUpload(r) ==
    /\ At(r, "createUpload")
    /\ \/ Finish(r) /\ UNCHANGED <<ids, mpu>>
       \/ /\ req[r].config # NoConfig
          /\ req[r].in.valid
          /\ \E v \in Videos \ ids :
                /\ ids' = ids \cup {v}
                /\ OpenUpload(req[r].config, v)
                /\ \/ req' = [req EXCEPT ![r] =
                                [@ EXCEPT !.call = "createVideo", !.video = v,
                                          !.row = NewRow(req[r])]]
                   \/ Finish(r)
    /\ UNCHANGED <<userConfig, rows, uploaded, objects, assets, urls, acked>>

\* Faulty variant of CreateVideo: the configuration is read again for the row.
CreateVideo_Reread(r) ==
    /\ At(r, "createVideo")
    /\ userConfig[req[r].in.user] # NoConfig
    /\ rows' = [rows EXCEPT ![req[r].video] =
                    [req[r].row EXCEPT !.config = userConfig[req[r].in.user]]]
    /\ Finish(r)
    /\ UNCHANGED <<userConfig, ids, storeVars, urls, acked>>

\* repository.createVideo; when it reports an error the upload is given up.
CreateVideo(r) ==
    /\ At(r, "createVideo")
    /\ \/ rows' = [rows EXCEPT ![req[r].video] = req[r].row]
          /\ (Finish(r) \/ Goto(r, "abortOrphan"))
       \/ UNCHANGED rows /\ Goto(r, "abortOrphan")
    /\ UNCHANGED <<userConfig, ids, storeVars, urls, acked>>

\* The store's AbortMultipartUpload: an upload that is not open is an error.
AbortMultipart(c, v) ==
    /\ mpu[c][v] = "open"
    /\ mpu' = [mpu EXCEPT ![c][v] = "aborted"]
    /\ uploaded' = [uploaded EXCEPT ![c][v] = {}]

\* storage.abortUpload after a failed createVideo: its outcome is ignored.
AbortOrphan(r) ==
    /\ At(r, "abortOrphan")
    /\ \/ AbortMultipart(req[r].row.config, req[r].video)
       \/ UNCHANGED <<mpu, uploaded>>
    /\ Finish(r)
    /\ UNCHANGED <<dbVars, objects, assets, urls, acked>>

-----------------------------------------------------------------------------
(* The handlers that start with requireOwnedVideo.                         *)

\* requireOwnedVideo returned this row (archived rows included).
Owns(r) ==
    /\ rows[req[r].video] # NoRow
    /\ rows[req[r].video].owner = req[r].in.user

\* The row was found: remember it and go on to the handler's next call.
Proceed(r, call) ==
    /\ req' = [req EXCEPT ![r] =
                [@ EXCEPT !.call = call, !.row = rows[req[r].video]]]
    /\ UNCHANGED <<dbVars, storeVars, urls, acked>>

\* Errors before any effect: the read failed, no such recording, or one of
\* the handler's checks refused the request.
Refuse(r) ==
    /\ At(r, "find")
    /\ Finish(r)
    /\ UNCHANGED <<dbVars, storeVars, urls, acked>>

SignPart(r) ==
    /\ At(r, "find") /\ req[r].in.op = "signPart"
    /\ Owns(r)
    /\ req[r].in.valid
    /\ rows[req[r].video].status = "uploading"
    /\ urls' = urls \cup {[kind |-> "part", config |-> rows[req[r].video].config,
                           video |-> req[r].video, part |-> req[r].in.part]}
    /\ Finish(r)
    /\ UNCHANGED <<dbVars, storeVars, acked>>

SignAsset(r) ==
    /\ At(r, "find") /\ req[r].in.op = "signAsset"
    /\ Owns(r)
    /\ req[r].in.valid
    /\ rows[req[r].video].status = "uploading"
    /\ rows[req[r].video].hls
    /\ urls' = urls \cup {[kind |-> "asset", config |-> rows[req[r].video].config,
                           video |-> req[r].video, asset |-> req[r].in.asset]}
    /\ Finish(r)
    /\ UNCHANGED <<dbVars, storeVars, acked>>

\* complete: a recording that is complete already is answered at once.
FindToComplete(r) ==
    /\ At(r, "find") /\ req[r].in.op = "complete"
    /\ Owns(r)
    /\ req[r].in.valid
    /\ IF rows[req[r].video].status = "complete"
       THEN /\ acked' = acked \cup {req[r].video}
            /\ Finish(r)
            /\ UNCHANGED <<dbVars, storeVars, urls>>
       ELSE /\ req[r].in.parts # {}
            /\ Proceed(r, "completeUpload")

FindToAbort(r) ==
    /\ At(r, "find") /\ req[r].in.op = "abort"
    /\ Owns(r)
    /\ req[r].in.valid
    /\ rows[req[r].video].status = "uploading"
    /\ Proceed(r, "abortUpload")

FindToRename(r) ==
    /\ At(r, "find") /\ req[r].in.op = "rename"
    /\ Owns(r)
    /\ req[r].in.valid
    /\ Proceed(r, "setName")

\* Faulty variant of NewHash: the old hash survives a change to public.
NewHash_Keep(in, row) == IF in.hash # NoHash THEN in.hash ELSE row.hash

\* privacy: "password" without a new password keeps the hash that was read;
\* either way the hash to write is settled here, before the write.
NewHash(in, row) ==
    IF in.privacy # "password" THEN NoHash
    ELSE IF in.hash # NoHash THEN in.hash ELSE row.hash

FindToSetPrivacy(r) ==
    /\ At(r, "find") /\ req[r].in.op = "privacy"
    /\ Owns(r)
    /\ req[r].in.valid
    /\ LET row == rows[req[r].video]
           hash == NewHash(req[r].in, row)
       IN /\ req[r].in.privacy = "password" => hash # NoHash
          /\ req' = [req EXCEPT ![r] = [@ EXCEPT !.call = "setPrivacy",
                                                 !.row = row, !.hash = hash]]
    /\ UNCHANGED <<dbVars, storeVars, urls, acked>>

FindToArchive(r) ==
    /\ At(r, "find") /\ req[r].in.op = "archive"
    /\ Owns(r)
    /\ Proceed(r, "archiveVideo")

\* The second halves: repository writes by id.  An UPDATE of a row that is
\* gone changes nothing; an error may hide a write that happened.
UpdateRow(v, row) ==
    rows' = [rows EXCEPT ![v] = IF @ = NoRow THEN NoRow ELSE row]

SetName(r) ==
    /\ At(r, "setName")
    /\ LET v == req[r].video IN
       \/ UpdateRow(v, [rows[v] EXCEPT !.name = req[r].in.name])
       \/ UNCHANGED rows
    /\ Finish(r)
    /\ UNCHANGED <<userConfig, ids, storeVars, urls, acked>>

SetPrivacy(r) ==
    /\ At(r, "setPrivacy")
    /\ LET v == req[r].video IN
       \/ UpdateRow(v, [rows[v] EXCEPT !.privacy = req[r].in.privacy,
                                       !.hash = req[r].hash])
       \/ UNCHANGED rows
    /\ Finish(r)
    /\ UNCHANGED <<userConfig, ids, storeVars, urls, acked>>

ArchiveVideo(r) ==
    /\ At(r, "archiveVideo")
    /\ LET v == req[r].video IN
       \/ UpdateRow(v, [rows[v] EXCEPT !.archived = TRUE])
       \/ UNCHANGED rows
    /\ Finish(r)
    /\ UNCHANGED <<userConfig, ids, storeVars, urls, acked>>

-----------------------------------------------------------------------------
(* complete, after the row was read.                                       *)

\* The store's CompleteMultipartUpload: every listed part must be there.
CompleteMultipart(c, v, P) ==
    /\ mpu[c][v] = "open"
    /\ P \subseteq uploaded[c][v]
    /\ mpu' = [mpu EXCEPT ![c][v] = "completed"]
    /\ objects' = [objects EXCEPT ![c][v] = P]

\* storage.completeUpload with the row's configuration; any error leads to
\* the existence check.
CompleteUpload(r) ==
    /\ At(r, "completeUpload")
    /\ \/ /\ CompleteMultipart(req[r].row.config, req[r].video, req[r].in.parts)
          /\ (Goto(r, "markComplete") \/ Goto(r, "objectExists"))
       \/ Goto(r, "objectExists") /\ UNCHANGED <<mpu, objects>>
    /\ UNCHANGED <<dbVars, uploaded, assets, urls, acked>>

\* Faulty variant of ObjectExists: the answer of the store is not looked at.
ObjectExists_Ignored(r) ==
    /\ At(r, "objectExists")
    /\ (Goto(r, "markComplete") \/ Finish(r))
    /\ UNCHANGED <<dbVars, storeVars, urls, acked>>

\* storage.objectExists: reconciles a completion whose answer was lost.
ObjectExists(r) ==
    /\ At(r, "objectExists")
    /\ \/ objects[req[r].row.config][req[r].video] # {} /\ Goto(r, "markComplete")
       \/ Finish(r)
    /\ UNCHANGED <<dbVars, storeVars, urls, acked>>

\* Faulty variant of MarkComplete: the client is answered although the write
\* failed.
MarkComplete_Eager(r) ==
    /\ At(r, "markComplete")
    /\ LET v == req[r].video IN
       \/ UpdateRow(v, [rows[v] EXCEPT !.status = "complete"])
       \/ UNCHANGED rows
    /\ acked' = acked \cup {req[r].video}
    /\ Finish(r)
    /\ UNCHANGED <<userConfig, ids, storeVars, urls>>

\* repository.markVideoComplete, then the answer with the viewer URL.
MarkComplete(r) ==
    /\ At(r, "markComplete")
    /\ LET v == req[r].video
           Written == UpdateRow(v, [rows[v] EXCEPT !.status = "complete"])
       IN \/ Written /\ acked' = acked \cup {v}
          \/ (Written \/ UNCHANGED rows) /\ UNCHANGED acked
    /\ Finish(r)
    /\ UNCHANGED <<userConfig, ids, storeVars, urls>>

-----------------------------------------------------------------------------
(* abort, after the row was read.                                          *)

\* Faulty variant of AbortUpload: the row goes whatever the store answered.
AbortUpload_Ignored(r) ==
    /\ At(r, "abortUpload")
    /\ \/ AbortMultipart(req[r].row.config, req[r].video)
       \/ UNCHANGED <<mpu, uploaded>>
    /\ Goto(r, "deleteVideo")
    /\ UNCHANGED <<dbVars, objects, assets, urls, acked>>

\* storage.abortUpload must succeed before the row may go.
AbortUpload(r) ==
    /\ At(r, "abortUpload")
    /\ \/ /\ AbortMultipart(req[r].row.config, req[r].video)
          /\ (Goto(r, "deleteVideo") \/ Finish(r))
       \/ Finish(r) /\ UNCHANGED <<mpu, uploaded>>
    /\ UNCHANGED <<dbVars, objects, assets, urls, acked>>

\* repository.deleteVideo.
DeleteVideo(r) ==
    /\ At(r, "deleteVideo")
    /\ \/ rows' = [rows EXCEPT ![req[r].video] = NoRow]
       \/ UNCHANGED rows
    /\ Finish(r)
    /\ UNCHANGED <<userConfig, ids, storeVars, urls, acked>>

-----------------------------------------------------------------------------
(* Clients using presigned URLs.  A URL is good until it expires, which may *)
(* be long after the recording was completed or aborted.                    *)

PutPart ==
    \E url \in urls :
        /\ url.kind = "part"
        /\ mpu[url.config][url.video] = "open"
        /\ uploaded' = [uploaded EXCEPT ![url.config][url.video] = @ \cup {url.part}]
        /\ UNCHANGED <<dbVars, mpu, objects, assets, urls, acked, req>>

PutAsset ==
    \E url \in urls :
        /\ url.kind = "asset"
        /\ assets' = [assets EXCEPT ![url.config][url.video] = @ \cup {url.asset}]
        /\ UNCHANGED <<dbVars, mpu, uploaded, objects, urls, acked, req>>

-----------------------------------------------------------------------------
Step(r) ==
    \/ Receive(r) \/ Authenticate(r) \/ Interrupt(r) \/ Refuse(r)
    \/ TestStorage(r) \/ SetConfig(r)
    \/ CreateUpload(r) \/ CreateVideo(r) \/ AbortOrphan(r)
    \/ SignPart(r) \/ SignAsset(r)
    \/ FindToComplete(r) \/ CompleteUpload(r) \/ ObjectExists(r) \/ MarkComplete(r)
    \/ FindToAbort(r) \/ AbortUpload(r) \/ DeleteVideo(r)
    \/ FindToRename(r) \/ SetName(r)
    \/ FindToSetPrivacy(r) \/ SetPrivacy(r)
    \/ FindToArchive(r) \/ ArchiveVideo(r)

Next == PutPart \/ PutAsset \/ \E r \in Requests : Step(r)

Spec == Init /\ [][Next]_vars

-----------------------------------------------------------------------------
(* Properties.                                                             *)

\* A recording never leaves the bucket that was configured when it was
\* created: its upload exists in the row's snapshotted configuration, and no
\* other bucket holds an upload, an object or an asset of it, whatever the
\* user does to the storage settings while requests are in flight.
StaysInSnapshotBucket ==
    \A v \in Videos : rows[v] # NoRow =>
        /\ mpu[rows[v].config][v] # "none"
        /\ \A c \in Configs \ {rows[v].config} :
              mpu[c][v] = "none" /\ objects[c][v] = {} /\ assets[c][v] = {}

\* A recording marked complete can be played: its object was assembled in the
\* bucket of its row.  Concerns complete's order of store call, existence
\* check and markVideoComplete, under lost answers and concurrent aborts.
CompleteHasObject ==
    \A v \in Videos :
        rows[v] # NoRow /\ rows[v].status = "complete"
            => objects[rows[v].config][v] # {}

\* Once complete has answered with the viewer URL the recording stays
\* published: no concurrent or later abort may take its row away.
AnsweredIsPublished ==
    \A v \in acked : rows[v] # NoRow /\ rows[v].status = "complete"

\* An assembled object never loses its row, so a completion that failed half
\* way (object assembled, row not marked) can still be retried and published.
AssembledKeepsRow ==
    \A c \in Configs, v \in Videos : objects[c][v] # {} => rows[v] # NoRow

\* A recording has a password hash exactly when its privacy is "password",
\* also when privacy requests that read the old hash overlap.
PasswordHasHash ==
    \A v \in Videos : rows[v] # NoRow =>
        (rows[v].privacy = "password" <=> rows[v].hash # NoHash)

-----------------------------------------------------------------------------
(* The inductive invariant behind these properties.                        *)

\* The bucket and the upload of a recording.
StoreInv ==
    /\ \A c \in Configs, v \in Videos \ ids : mpu[c][v] = "none"
    /\ \A c, d \in Configs, v \in Videos :
          mpu[c][v] # "none" /\ mpu[d][v] # "none" => c = d
    /\ \A c \in Configs, v \in Videos :
          /\ objects[c][v] # {} <=> mpu[c][v] = "completed"
          /\ assets[c][v] # {} => mpu[c][v] # "none"
    /\ \A url \in urls : mpu[url.config][url.video] # "none"

\* A row and the upload it was created with.
RowInv ==
    /\ \A v \in Videos : rows[v] # NoRow =>
          /\ mpu[rows[v].config][v] # "none"
          /\ rows[v].status = "complete" => mpu[rows[v].config][v] = "completed"
          /\ rows[v].privacy = "password" <=> rows[v].hash # NoHash
    /\ \A c \in Configs, v \in Videos : mpu[c][v] = "completed" => rows[v] # NoRow
    /\ AnsweredIsPublished

\* What create knows between opening the upload and writing the row, and
\* between a failed write and giving the upload up.
Creating(q) == q.call \in {"createVideo", "abortOrphan"}

CreatorOK(q) ==
    Creating(q) =>
        /\ q.row # NoRow
        /\ q.video \in ids
        /\ mpu[q.row.config][q.video] # "none"
        /\ q.call = "createVideo" =>
              /\ rows[q.video] = NoRow
              /\ mpu[q.row.config][q.video] = "open"
              /\ q.row.status = "uploading"
              /\ q.row.privacy = "public" /\ q.row.hash = NoHash

\* What a handler may rely on after it read the row, however stale the row is:
\* the recording's bucket, that the row can only be gone once the upload was
\* aborted, and the point of no return of complete and of abort.
HoldsRow(q) ==
    q.call \in {"completeUpload", "objectExists", "markComplete", "abortUpload",
                "deleteVideo", "setName", "setPrivacy", "archiveVideo"}

HolderOK(q) ==
    HoldsRow(q) =>
        /\ q.row # NoRow
        /\ mpu[q.row.config][q.video] # "none"
        /\ rows[q.video] = NoRow => mpu[q.row.config][q.video] = "aborted"
        /\ rows[q.video] # NoRow => rows[q.video].config = q.row.config
        /\ q.call = "completeUpload" => q.in.parts # {}
        /\ q.call = "markComplete" => mpu[q.row.config][q.video] = "completed"
        /\ q.call = "deleteVideo" => mpu[q.row.config][q.video] = "aborted"
        /\ q.call = "setPrivacy" =>
              (q.in.privacy = "password" <=> q.hash # NoHash)

RequestInv ==
    /\ \A r \in Requests : req[r] # Idle => CreatorOK(req[r]) /\ HolderOK(req[r])
    /\ \A r, s \in Requests :
          /\ req[r] # Idle /\ Creating(req[r])
          /\ req[s] # Idle /\ Creating(req[s])
          /\ req[r].video = req[s].video
          => r = s

\* All that the handlers keep true together: who may still touch an upload,
\* what stale rows in flight still imply, and what a row says of the store.
HandlerInv == StoreInv /\ RowInv /\ RequestInv

-----------------------------------------------------------------------------
(* The server implements RecordingLifecycle.                               *)

\* Without a row, an aborted upload tells a recording that is gone from one
\* whose create has not written the row yet.
LifePhase(v) ==
    IF rows[v] # NoRow
    THEN IF rows[v].status = "complete" THEN "published" ELSE "uploading"
    ELSE IF \E c \in Configs : mpu[c][v] = "aborted" THEN "discarded" ELSE "none"

LifePlace(v) == IF rows[v] # NoRow THEN rows[v].config ELSE NoConfig

LifeContent(v) == UNION {objects[c][v] : c \in Configs}

Life == INSTANCE RecordingLifecycle WITH
            phase <- [v \in Videos |-> LifePhase(v)],
            place <- [v \in Videos |-> LifePlace(v)],
            content <- [v \in Videos |-> LifeContent(v)],
            told <- acked,
            NoPlace <- NoConfig

\* Every step of the handlers is a step of a recording's abstract life, or
\* changes none of it: content is assembled at most once and never discarded,
\* published recordings stay published in the bucket they were begun in, and
\* clients are told the truth.
ImplementsLifecycle == Life!LifeSpec

=============================================================================
