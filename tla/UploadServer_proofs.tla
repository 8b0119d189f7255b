------------------------- MODULE UploadServer_proofs ------------------------
(* Proofs about UploadServer, for any sets of users, recordings, buckets,  *)
(* parts and concurrent requests.                                          *)
EXTENDS UploadServer, PlaybackApi, SequenceTheorems, TLAPS

ReqType == [Requests -> Request \cup {Idle}]
RowsType == [Videos -> Row \cup {NoRow}]

(***************************************************************************)
(* Type correctness.                                                       *)
(***************************************************************************)

\* A handler in progress is a request whose payload is one of Inputs.
LEMMA ActiveRequest ==
    ASSUME req \in ReqType, NEW r \in Requests, req[r] # Idle
    PROVE  /\ req[r] \in Request
           /\ req[r].in \in Payload
           /\ req[r].in \in Inputs
           /\ req[r].video \in Videos
           /\ req[r].config \in Configs \cup {NoConfig}
           /\ req[r].row \in Row \cup {NoRow}
           /\ req[r].hash \in Hashes \cup {NoHash}
  <1>1. req[r] \in Request
    BY DEF ReqType
  <1>2. QED
    BY <1>1, InputsAssumption DEF Request

\* Moving a handler on to its next call keeps the requests well typed.
LEMMA GotoType ==
    ASSUME req \in ReqType, NEW r \in Requests, req[r] # Idle,
           NEW call \in Calls, Goto(r, call)
    PROVE  req' \in ReqType
  <1>1. [req[r] EXCEPT !.call = call] \in Request
    BY ActiveRequest DEF Request
  <1>2. QED
    BY <1>1 DEF Goto, ReqType

\* Freeing a slot keeps the requests well typed.
LEMMA FinishType ==
    ASSUME req \in ReqType, NEW r \in Requests, Finish(r)
    PROVE  req' \in ReqType
  BY DEF Finish, ReqType

\* So does remembering the row that was read.
LEMMA ProceedType ==
    ASSUME req \in ReqType, rows \in RowsType, NEW r \in Requests, req[r] # Idle,
           NEW call \in Calls, Proceed(r, call)
    PROVE  req' \in ReqType
  <1>1. rows[req[r].video] \in Row \cup {NoRow}
    BY ActiveRequest DEF RowsType
  <1>2. [req[r] EXCEPT !.call = call, !.row = rows[req[r].video]] \in Request
    BY <1>1, ActiveRequest DEF Request
  <1>3. QED
    BY <1>2 DEF Proceed, ReqType

\* Updating a row by id keeps the table well typed.
LEMMA UpdateType ==
    ASSUME rows \in RowsType, NEW v \in Videos, NEW row,
           rows[v] # NoRow => row \in Row, UpdateRow(v, row)
    PROVE  rows' \in RowsType
  BY DEF UpdateRow, RowsType

\* The state space of the server is the one TypeOK describes: no handler
\* writes a malformed row, a malformed store entry or an unknown call.
THEOREM TypeCorrect == Spec => []TypeOK
<1>1. Init => TypeOK
  BY SentinelAssumption DEF Init, TypeOK, MpuStates
<1>2. TypeOK /\ [Next]_vars => TypeOK'
  <2> SUFFICES ASSUME TypeOK, [Next]_vars PROVE TypeOK'
    OBVIOUS
  <2>t. req \in ReqType /\ rows \in RowsType
    BY DEF TypeOK, ReqType, RowsType
  <2>w. ASSUME req' \in ReqType, rows' \in RowsType,
               UNCHANGED <<userConfig, ids, storeVars, urls>>, acked' \in SUBSET Videos
        PROVE  TypeOK'
    BY <2>w DEF TypeOK, ReqType, RowsType, storeVars
  <2>1. CASE UNCHANGED vars
    BY <2>1 DEF vars, TypeOK
  <2>2. CASE PutPart
    BY <2>2 DEF PutPart, dbVars, PartUrl, AssetUrl, TypeOK
  <2>3. CASE PutAsset
    BY <2>3 DEF PutAsset, dbVars, PartUrl, AssetUrl, TypeOK
  <2>4. ASSUME NEW r \in Requests, Step(r) PROVE TypeOK'
    <3> DEFINE q == req[r]
    <3>u. acked \in SUBSET Videos
      BY DEF TypeOK
    <3>f. ASSUME Finish(r), UNCHANGED <<dbVars, storeVars, urls, acked>> PROVE TypeOK'
      BY <3>f, <2>t, <2>w, <3>u, FinishType DEF dbVars
    <3>g. ASSUME req[r] # Idle, NEW call \in Calls, Goto(r, call),
                 UNCHANGED <<dbVars, storeVars, urls, acked>>
          PROVE  TypeOK'
      BY <3>g, <2>t, <2>w, <3>u, GotoType DEF dbVars
    <3>p. ASSUME req[r] # Idle, NEW call \in Calls, Proceed(r, call) PROVE TypeOK'
      BY <3>p, <2>t, <2>w, <3>u, ProceedType DEF dbVars, Proceed
    <3>1. CASE Receive(r)
      <4>1. PICK in \in Inputs :
               req' = [req EXCEPT ![r] = [in |-> in, call |-> "auth", video |-> in.video,
                                          config |-> NoConfig, row |-> NoRow, hash |-> NoHash]]
        BY <3>1 DEF Receive
      <4>2. [in |-> in, call |-> "auth", video |-> in.video,
             config |-> NoConfig, row |-> NoRow, hash |-> NoHash] \in Request
        BY InputsAssumption DEF Request, Payload, Calls
      <4>3. req' \in ReqType
        BY <4>1, <4>2, <2>t DEF ReqType
      <4>4. QED
        BY <3>1, <4>3, <2>t, <2>w, <3>u DEF Receive, dbVars
    <3>2. CASE Authenticate(r)
      <4>1. q # Idle /\ UNCHANGED <<dbVars, storeVars, urls, acked>>
        BY <3>2 DEF Authenticate, At
      <4>2. CASE Finish(r)
        BY <4>1, <4>2, <3>f
      <4>3. CASE req' = [req EXCEPT ![r] =
                    [@ EXCEPT !.call = FirstCall(req[r].in.op),
                              !.config = userConfig[req[r].in.user]]]
        <5>1. FirstCall(q.in.op) \in Calls
          BY DEF FirstCall, Calls
        <5>2. userConfig[q.in.user] \in Configs \cup {NoConfig}
          BY <4>1, <2>t, ActiveRequest DEF TypeOK, Payload
        <5>3. [q EXCEPT !.call = FirstCall(q.in.op), !.config = userConfig[q.in.user]] \in Request
          BY <5>1, <5>2, <4>1, <2>t, ActiveRequest DEF Request
        <5>4. req' \in ReqType
          BY <5>3, <4>3, <2>t DEF ReqType
        <5>5. QED
          BY <5>4, <4>1, <2>t, <2>w, <3>u DEF dbVars
      <4>4. QED
        BY <4>2, <4>3, <3>2 DEF Authenticate
    <3>3. CASE Interrupt(r) \/ Refuse(r)
      BY <3>3, <3>f DEF Interrupt, Refuse
    <3>4. CASE TestStorage(r)
      BY <3>4, <3>f, <3>g DEF TestStorage, At, Calls
    <3>5. CASE SetConfig(r)
      <4>1. userConfig' \in [Users -> Configs \cup {NoConfig}]
        BY <3>5, <2>t, ActiveRequest DEF SetConfig, At, TypeOK, Payload
      <4>2. req' \in ReqType
        BY <3>5, <2>t, FinishType DEF SetConfig
      <4>3. QED
        BY <3>5, <4>1, <4>2 DEF SetConfig, TypeOK, ReqType, storeVars
    <3>6. CASE CreateUpload(r)
      <4>1. req' \in ReqType
        <5>1. CASE Finish(r)
          BY <5>1, <2>t, FinishType
        <5>2. ASSUME NEW v \in Videos, req[r].config # NoConfig,
                     req' = [req EXCEPT ![r] = [@ EXCEPT !.call = "createVideo", !.video = v,
                                                         !.row = NewRow(req[r])]]
              PROVE  req' \in ReqType
          <6>1. q \in Request /\ q.in \in Payload /\ q.config \in Configs
            BY <3>6, <2>t, <5>2, ActiveRequest DEF CreateUpload, At
          <6>2. NewRow(q) \in Row
            BY <6>1 DEF NewRow, Row, Payload, Privacy
          <6>3. [q EXCEPT !.call = "createVideo", !.video = v, !.row = NewRow(q)] \in Request
            BY <6>1, <6>2 DEF Request, Calls
          <6>4. QED
            BY <5>2, <6>3, <2>t DEF ReqType
        <5>3. QED
          BY <5>1, <5>2, <3>6 DEF CreateUpload
      <4>2. ids' \in SUBSET Videos /\ mpu' \in [Configs -> [Videos -> MpuStates]]
        <5>1. ids \in SUBSET Videos /\ mpu \in [Configs -> [Videos -> MpuStates]]
          BY DEF TypeOK
        <5>2. ASSUME NEW v \in Videos, ids' = ids \cup {v}, OpenUpload(q.config, v)
              PROVE  ids' \in SUBSET Videos /\ mpu' \in [Configs -> [Videos -> MpuStates]]
          BY <5>1, <5>2 DEF OpenUpload, MpuStates
        <5>3. QED
          BY <5>1, <5>2, <3>6 DEF CreateUpload
      <4>3. QED
        BY <3>6, <4>1, <4>2 DEF CreateUpload, TypeOK, ReqType
    <3>7. CASE CreateVideo(r)
      <4>1. q # Idle /\ q.row \in Row \cup {NoRow} /\ q.video \in Videos
        BY <3>7, <2>t, ActiveRequest DEF CreateVideo, At
      <4>2. req' \in ReqType
        BY <3>7, <4>1, <2>t, FinishType, GotoType DEF CreateVideo, Calls
      <4>3. rows' \in RowsType
        BY <3>7, <4>1, <2>t DEF CreateVideo, RowsType
      <4>4. QED
        BY <3>7, <4>2, <4>3, <2>w, <3>u DEF CreateVideo
    <3>8. ASSUME NEW c, NEW v, AbortMultipart(c, v), req' \in ReqType,
                 UNCHANGED <<dbVars, objects, assets, urls, acked>>
          PROVE  TypeOK'
      BY <3>8 DEF AbortMultipart, TypeOK, ReqType, dbVars, MpuStates
    <3>9. CASE AbortOrphan(r)
      <4>1. req' \in ReqType
        BY <3>9, <2>t, FinishType DEF AbortOrphan
      <4>2. QED
        BY <3>9, <4>1, <3>8, <3>f DEF AbortOrphan, storeVars
    <3>10. CASE SignPart(r)
      <4>1. rows[q.video] \in Row /\ q.video \in Videos /\ q.in.part \in Parts
        BY <3>10, <2>t, ActiveRequest DEF SignPart, At, Owns, RowsType, Payload
      <4>2. urls' \in SUBSET (PartUrl \cup AssetUrl)
        BY <3>10, <4>1 DEF SignPart, PartUrl, Row, TypeOK
      <4>3. req' \in ReqType
        BY <3>10, <2>t, FinishType DEF SignPart
      <4>4. QED
        BY <3>10, <4>2, <4>3 DEF SignPart, TypeOK, ReqType, dbVars, storeVars
    <3>11. CASE SignAsset(r)
      <4>1. rows[q.video] \in Row /\ q.video \in Videos /\ q.in.asset \in Assets
        BY <3>11, <2>t, ActiveRequest DEF SignAsset, At, Owns, RowsType, Payload
      <4>2. urls' \in SUBSET (PartUrl \cup AssetUrl)
        BY <3>11, <4>1 DEF SignAsset, AssetUrl, Row, TypeOK
      <4>3. req' \in ReqType
        BY <3>11, <2>t, FinishType DEF SignAsset
      <4>4. QED
        BY <3>11, <4>2, <4>3 DEF SignAsset, TypeOK, ReqType, dbVars, storeVars
    <3>12. CASE FindToComplete(r)
      <4>1. q # Idle /\ q.video \in Videos
        BY <3>12, <2>t, ActiveRequest DEF FindToComplete, At
      <4>2. CASE rows[q.video].status = "complete"
        <5>1. req' \in ReqType /\ acked' \in SUBSET Videos
          BY <3>12, <4>1, <4>2, <2>t, <3>u, FinishType DEF FindToComplete
        <5>2. QED
          BY <3>12, <4>2, <5>1, <2>t, <2>w DEF FindToComplete, dbVars
      <4>3. CASE rows[q.video].status # "complete"
        BY <3>12, <4>1, <4>3, <3>p DEF FindToComplete, Calls
      <4>4. QED
        BY <4>2, <4>3
    <3>13. CASE FindToAbort(r) \/ FindToRename(r) \/ FindToArchive(r)
      BY <3>13, <3>p DEF FindToAbort, FindToRename, FindToArchive, At, Calls
    <3>20. CASE FindToSetPrivacy(r)
      <4> DEFINE row == rows[q.video]
                 hash == NewHash(q.in, row)
      <4>1. q \in Request /\ q.in \in Payload /\ row \in Row
        BY <3>20, <2>t, ActiveRequest DEF FindToSetPrivacy, At, Owns, RowsType
      <4>2. hash \in Hashes \cup {NoHash}
        BY <4>1 DEF NewHash, Row, Payload
      <4>3. [q EXCEPT !.call = "setPrivacy", !.row = row, !.hash = hash] \in Request
        BY <4>1, <4>2 DEF Request, Calls
      <4>4. req' = [req EXCEPT ![r] = [q EXCEPT !.call = "setPrivacy", !.row = row, !.hash = hash]]
        BY <3>20 DEF FindToSetPrivacy
      <4>5. req' \in ReqType
        BY <4>3, <4>4, <2>t DEF ReqType
      <4>6. QED
        BY <3>20, <4>5, <2>t, <2>w, <3>u DEF FindToSetPrivacy, dbVars
    <3>14. ASSUME q # Idle, Finish(r), UNCHANGED <<userConfig, ids, storeVars, urls>>,
                  acked' \in SUBSET Videos, rows' \in RowsType
           PROVE  TypeOK'
      BY <3>14, <2>t, <2>w, FinishType
    <3>15. ASSUME q # Idle, NEW row, rows[q.video] # NoRow => row \in Row, UpdateRow(q.video, row)
           PROVE  rows' \in RowsType
      BY <3>15, <2>t, ActiveRequest, UpdateType
    <3>16. ASSUME q # Idle, rows[q.video] # NoRow
           PROVE  rows[q.video] \in Row
      BY <3>16, <2>t, ActiveRequest DEF RowsType
    <3>17. CASE SetName(r)
      <4>1. rows[q.video] # NoRow => [rows[q.video] EXCEPT !.name = q.in.name] \in Row
        BY <3>17, <3>16, <2>t, ActiveRequest DEF SetName, At, Row, Payload
      <4>2. QED
        BY <3>17, <4>1, <3>14, <3>15, <3>u, <2>t DEF SetName, At
    <3>18. CASE SetPrivacy(r)
      <4>1. q.in \in Payload /\ q.hash \in Hashes \cup {NoHash}
        BY <3>18, <2>t, ActiveRequest DEF SetPrivacy, At
      <4>2. rows[q.video] # NoRow =>
              [rows[q.video] EXCEPT !.privacy = q.in.privacy, !.hash = q.hash] \in Row
        BY <3>18, <4>1, <3>16 DEF SetPrivacy, At, Row, Payload
      <4>3. QED
        BY <3>18, <4>2, <3>14, <3>15, <3>u, <2>t DEF SetPrivacy, At
    <3>19. CASE ArchiveVideo(r)
      <4>1. rows[q.video] # NoRow => [rows[q.video] EXCEPT !.archived = TRUE] \in Row
        BY <3>19, <3>16 DEF ArchiveVideo, At, Row
      <4>2. QED
        BY <3>19, <4>1, <3>14, <3>15, <3>u, <2>t DEF ArchiveVideo, At
    <3>21. CASE CompleteUpload(r)
      <4>1. q # Idle /\ q.in.parts \in SUBSET Parts
        BY <3>21, <2>t, ActiveRequest DEF CompleteUpload, At, Payload
      <4>2. req' \in ReqType
        BY <3>21, <4>1, <2>t, GotoType DEF CompleteUpload, Calls
      <4>3. ASSUME NEW c, NEW v, CompleteMultipart(c, v, q.in.parts)
            PROVE  /\ mpu' \in [Configs -> [Videos -> MpuStates]]
                   /\ objects' \in [Configs -> [Videos -> SUBSET Parts]]
        BY <4>1, <4>3 DEF CompleteMultipart, TypeOK, MpuStates
      <4>4. /\ mpu' \in [Configs -> [Videos -> MpuStates]]
            /\ objects' \in [Configs -> [Videos -> SUBSET Parts]]
        BY <3>21, <4>3 DEF CompleteUpload, TypeOK
      <4>5. QED
        BY <3>21, <4>2, <4>4 DEF CompleteUpload, TypeOK, ReqType, dbVars
    <3>22. CASE ObjectExists(r)
      BY <3>22, <3>f, <3>g DEF ObjectExists, At, Calls
    <3>23. CASE MarkComplete(r)
      <4>1. rows[q.video] # NoRow => [rows[q.video] EXCEPT !.status = "complete"] \in Row
        BY <3>23, <3>16 DEF MarkComplete, At, Row
      <4>2. q # Idle /\ q.video \in Videos
        BY <3>23, <2>t, ActiveRequest DEF MarkComplete, At
      <4>3. rows' \in RowsType
        BY <3>23, <4>1, <4>2, <3>15, <2>t DEF MarkComplete
      <4>4. acked' \in SUBSET Videos
        BY <3>23, <4>2, <3>u DEF MarkComplete
      <4>5. QED
        BY <3>23, <4>2, <4>3, <4>4, <3>14 DEF MarkComplete
    <3>24. CASE AbortUpload(r)
      <4>1. q # Idle
        BY <3>24 DEF AbortUpload, At
      <4>2. req' \in ReqType
        BY <3>24, <4>1, <2>t, FinishType, GotoType DEF AbortUpload, Calls
      <4>3. QED
        BY <3>24, <4>2, <3>8, <3>f DEF AbortUpload, storeVars
    <3>25. CASE DeleteVideo(r)
      <4>1. q # Idle /\ q.video \in Videos
        BY <3>25, <2>t, ActiveRequest DEF DeleteVideo, At
      <4>2. rows' \in RowsType
        BY <3>25, <4>1, <2>t DEF DeleteVideo, RowsType
      <4>3. QED
        BY <3>25, <4>1, <4>2, <3>14, <3>u DEF DeleteVideo
    <3> QED
      BY <2>4, <3>1, <3>2, <3>3, <3>4, <3>5, <3>6, <3>7, <3>9, <3>10, <3>11, <3>12, <3>13,
         <3>17, <3>18, <3>19, <3>20, <3>21, <3>22, <3>23, <3>24, <3>25 DEF Step
  <2> QED
    BY <2>1, <2>2, <2>3, <2>4 DEF Next
<1> QED
  BY <1>1, <1>2, PTL DEF Spec

(***************************************************************************)
(* The handlers' invariant.                                                *)
(***************************************************************************)

\* What TypeOK says about the parts of the state that HandlerInv is about.
CoreType ==
    /\ req \in ReqType
    /\ rows \in RowsType
    /\ mpu \in [Configs -> [Videos -> MpuStates]]
    /\ objects \in [Configs -> [Videos -> SUBSET Parts]]
    /\ assets \in [Configs -> [Videos -> SUBSET Assets]]
    /\ urls \in SUBSET (PartUrl \cup AssetUrl)
    /\ acked \in SUBSET Videos

shared == <<rows, ids, mpu, objects, assets, urls, acked>>

LEMMA CoreTyped == TypeOK => CoreType
  BY DEF TypeOK, CoreType, ReqType, RowsType

\* A presigned URL names a bucket and a recording.
LEMMA UrlType ==
    ASSUME NEW url \in PartUrl \cup AssetUrl
    PROVE  url.config \in Configs /\ url.video \in Videos
  BY DEF PartUrl, AssetUrl

\* A step that frees slot r and changes nothing shared is harmless.
LEMMA QuietFinish ==
    ASSUME HandlerInv, CoreType, NEW r \in Requests, Finish(r), UNCHANGED shared
    PROVE  HandlerInv'
  <1>1. StoreInv' /\ RowInv'
    BY DEF HandlerInv, StoreInv, RowInv, AnsweredIsPublished, shared
  <1>2. RequestInv'
    BY DEF HandlerInv, RequestInv, CreatorOK, HolderOK, Creating, HoldsRow, Finish, shared,
           CoreType, ReqType
  <1>3. QED
    BY <1>1, <1>2 DEF HandlerInv

\* A step of slot r that changes nothing shared is harmless when what r knows
\* afterwards is true.
LEMMA QuietMove ==
    ASSUME HandlerInv, CoreType, NEW r \in Requests, UNCHANGED shared,
           NEW q \in Request, req' = [req EXCEPT ![r] = q],
           ~Creating(q), HolderOK(q)
    PROVE  HandlerInv'
  <1>1. StoreInv' /\ RowInv'
    BY DEF HandlerInv, StoreInv, RowInv, AnsweredIsPublished, shared
  <1>2. RequestInv'
    <2>1. \A s \in Requests : req'[s] = IF s = r THEN q ELSE req[s]
      BY DEF CoreType, ReqType
    <2>2. ASSUME NEW s \in Requests, req'[s] # Idle
          PROVE  (CreatorOK(req[s]) /\ HolderOK(req[s]))'
      <3>1. CreatorOK(req'[s]) /\ HolderOK(req'[s])
        BY <2>1, <2>2 DEF HandlerInv, RequestInv, CreatorOK
      <3>2. QED
        BY <3>1 DEF CreatorOK, HolderOK, Creating, HoldsRow, shared
    <2>3. ASSUME NEW s \in Requests, req'[s] # Idle, Creating(req'[s])
          PROVE  s # r /\ req'[s] = req[s]
      BY <2>1, <2>3
    <2>4. QED
      BY <2>2, <2>3 DEF HandlerInv, RequestInv, Creating
  <1>3. QED
    BY <1>1, <1>2 DEF HandlerInv

\* A handler that has just read the row of its recording knows what HolderOK
\* asks for.
LEMMA FreshRow ==
    ASSUME HandlerInv, CoreType, NEW r \in Requests, req[r] # Idle, Owns(r),
           NEW q \in Request, q.video = req[r].video, q.row = rows[req[r].video],
           q.in = req[r].in,
           q.call \in {"completeUpload", "abortUpload", "setName", "setPrivacy", "archiveVideo"},
           q.call = "completeUpload" => q.in.parts # {},
           q.call = "setPrivacy" => (q.in.privacy = "password" <=> q.hash # NoHash)
    PROVE  ~Creating(q) /\ HolderOK(q)
  <1>1. req[r].video \in Videos
    BY ActiveRequest DEF CoreType
  <1>2. QED
    BY <1>1 DEF HandlerInv, RowInv, Owns, Creating, HoldsRow, HolderOK

\* Such a handler moves on to the first call that depends on the row.
LEMMA ProceedStep ==
    ASSUME HandlerInv, CoreType, NEW r \in Requests, req[r] # Idle, Owns(r),
           NEW call \in {"completeUpload", "abortUpload", "setName", "archiveVideo"},
           call = "completeUpload" => req[r].in.parts # {},
           Proceed(r, call)
    PROVE  HandlerInv'
  <1> DEFINE q == [req[r] EXCEPT !.call = call, !.row = rows[req[r].video]]
  <1>1. req[r] \in Request /\ req[r].video \in Videos
    BY ActiveRequest DEF CoreType
  <1>2. q \in Request /\ q.video = req[r].video /\ q.row = rows[req[r].video]
        /\ q.in = req[r].in /\ q.call = call
    BY <1>1 DEF Request, Calls, CoreType, RowsType
  <1>3. ~Creating(q) /\ HolderOK(q)
    <2> HIDE DEF q
    <2> QED
      BY <1>2, FreshRow
  <1>4. UNCHANGED shared /\ req' = [req EXCEPT ![r] = q]
    BY DEF Proceed, shared, dbVars, storeVars
  <1>5. QED
    <2> HIDE DEF q
    <2> QED
      BY <1>2, <1>3, <1>4, QuietMove

\* Giving an open upload up is harmless: no row is complete, no content is
\* assembled, and no create still relies on it but the one at fault.
LEMMA AbortMultipartStep ==
    ASSUME HandlerInv, CoreType, NEW r \in Requests, req[r] # Idle,
           req[r].call \in {"abortOrphan", "abortUpload"},
           AbortMultipart(req[r].row.config, req[r].video),
           Finish(r) \/ (req[r].call = "abortUpload" /\ Goto(r, "deleteVideo")),
           UNCHANGED <<rows, ids, objects, assets, urls, acked>>
    PROVE  HandlerInv'
  <1> DEFINE v == req[r].video
             c == req[r].row.config
  <1>1. /\ v \in Videos /\ c \in Configs
        /\ mpu[c][v] = "open"
        /\ mpu' = [mpu EXCEPT ![c][v] = "aborted"]
    BY ActiveRequest DEF CoreType, AbortMultipart, HandlerInv, RequestInv, CreatorOK, HolderOK,
           Creating, HoldsRow, Row
  <1>2. \A d \in Configs, w \in Videos :
           mpu'[d][w] = IF d = c /\ w = v THEN "aborted" ELSE mpu[d][w]
    BY <1>1 DEF CoreType
  <1>3. StoreInv'
    <2>1. \A d \in Configs, w \in Videos :
             /\ mpu'[d][w] = "none" <=> mpu[d][w] = "none"
             /\ mpu'[d][w] = "completed" <=> mpu[d][w] = "completed"
      BY <1>1, <1>2
    <2>2. \A url \in urls : url.config \in Configs /\ url.video \in Videos
      BY DEF CoreType, PartUrl, AssetUrl
    <2>3. /\ \A d \in Configs, w \in Videos \ ids : mpu'[d][w] = "none"
          /\ \A d, e \in Configs, w \in Videos :
                mpu'[d][w] # "none" /\ mpu'[e][w] # "none" => d = e
      BY <2>1 DEF HandlerInv, StoreInv
    <2>4. \A d \in Configs, w \in Videos :
             /\ objects[d][w] # {} <=> mpu'[d][w] = "completed"
             /\ assets[d][w] # {} => mpu'[d][w] # "none"
      BY <2>1 DEF HandlerInv, StoreInv
    <2>5. \A url \in urls : mpu'[url.config][url.video] # "none"
      BY <2>1, <2>2 DEF HandlerInv, StoreInv
    <2>6. QED
      BY <2>3, <2>4, <2>5 DEF StoreInv
  <1>4. RowInv'
    BY <1>1, <1>2 DEF HandlerInv, RowInv, CoreType, RowsType, Row, AnsweredIsPublished
  <1>5. RequestInv'
    <2>1. ASSUME NEW s \in Requests, s # r, req'[s] # Idle
          PROVE  (CreatorOK(req[s]) /\ HolderOK(req[s]))'
      <3>1. req'[s] = req[s] /\ req[s] # Idle
        BY <2>1 DEF Finish, Goto, CoreType, ReqType
      <3>2. req[s].video \in Videos /\ req[s].row \in Row \cup {NoRow}
        BY <3>1, ActiveRequest DEF CoreType
      <3>3. CreatorOK(req[s]) /\ HolderOK(req[s])
        BY <3>1 DEF HandlerInv, RequestInv
      <3>4. CreatorOK(req[s])'
        <4>1. req[s].call = "createVideo" => req[s].video # v
          BY <1>1, <2>1, <3>1, <3>3 DEF HandlerInv, RequestInv, Creating, CreatorOK, HolderOK, HoldsRow
        <4>2. QED
          BY <1>2, <3>1, <3>2, <3>3, <4>1 DEF CreatorOK, Creating, Row
      <3>5. HolderOK(req[s])'
        <4>1. SUFFICES ASSUME HoldsRow(req[s])
                       PROVE  HolderOK(req[s])'
          BY <3>1 DEF HolderOK, HoldsRow
        <4>2. req[s].row # NoRow /\ req[s].row.config \in Configs
          BY <3>2, <3>3, <4>1 DEF HolderOK, Row
        <4>3. mpu'[req[s].row.config][req[s].video]
                 = IF req[s].row.config = c /\ req[s].video = v
                   THEN "aborted" ELSE mpu[req[s].row.config][req[s].video]
          BY <1>2, <3>2, <4>2
        <4> HIDE DEF c, v
        <4>4. QED
          BY <1>1, <3>1, <3>3, <4>1, <4>3 DEF HolderOK
      <3>6. QED
        BY <3>4, <3>5
    <2>2. req'[r] # Idle => (CreatorOK(req[r]) /\ HolderOK(req[r]))'
      <3>1. SUFFICES ASSUME req'[r] # Idle
                     PROVE  (CreatorOK(req[r]) /\ HolderOK(req[r]))'
        OBVIOUS
      <3>2. req[r].call = "abortUpload" /\ req'[r] = [req[r] EXCEPT !.call = "deleteVideo"]
        BY <3>1 DEF Finish, Goto, CoreType, ReqType
      <3>3. /\ req'[r].call = "deleteVideo" /\ req'[r].video = v /\ req'[r].row = req[r].row
            /\ req[r].row # NoRow
            /\ rows[v] # NoRow => rows[v].config = c
        BY <3>2, ActiveRequest DEF CoreType, Request, HandlerInv, RequestInv, HolderOK, HoldsRow
      <3>4. QED
        BY <3>3, <1>1, <1>2 DEF CreatorOK, Creating, HolderOK, HoldsRow
    <2>3. ASSUME NEW s \in Requests, (req[s] # Idle /\ Creating(req[s]))'
          PROVE  req'[s] = req[s] /\ req[s] # Idle /\ Creating(req[s])
      <3>1. CASE s = r
        <4>1. req[r] \in Request
          BY ActiveRequest DEF CoreType
        <4>2. QED
          BY <2>3, <3>1, <4>1 DEF Finish, Goto, Creating, CoreType, ReqType, Request
      <3>2. CASE s # r
        BY <2>3, <3>2 DEF Finish, Goto, Creating, CoreType, ReqType
      <3>3. QED
        BY <3>1, <3>2
    <2>4. QED
      BY <2>1, <2>2, <2>3 DEF HandlerInv, RequestInv
  <1>6. QED
    BY <1>3, <1>4, <1>5 DEF HandlerInv

\* Opening the upload of a fresh id: no other request knows the id.
LEMMA CreateUploadStep ==
    ASSUME HandlerInv, CoreType, NEW r \in Requests, CreateUpload(r)
    PROVE  HandlerInv'
  <1>0. req[r] # Idle /\ req[r] \in Request /\ req[r].in \in Payload
        /\ req[r].config \in Configs \cup {NoConfig}
    BY ActiveRequest DEF CreateUpload, At, CoreType
  <1>1. CASE Finish(r) /\ UNCHANGED <<ids, mpu>>
    BY <1>1, QuietFinish DEF CreateUpload, shared
  <1>2. ASSUME NEW v \in Videos \ ids, req[r].config # NoConfig,
               ids' = ids \cup {v}, OpenUpload(req[r].config, v),
               \/ req' = [req EXCEPT ![r] = [@ EXCEPT !.call = "createVideo", !.video = v,
                                                     !.row = NewRow(req[r])]]
               \/ Finish(r)
        PROVE  HandlerInv'
    <2> DEFINE c == req[r].config
               q == [req[r] EXCEPT !.call = "createVideo", !.video = v, !.row = NewRow(req[r])]
    <2>u. UNCHANGED <<rows, objects, assets, urls, acked>>
      BY DEF CreateUpload
    <2>1. c \in Configs
      BY <1>0, <1>2
    <2>2. \A d \in Configs, w \in Videos :
             mpu'[d][w] = IF d = c /\ w = v THEN "open" ELSE mpu[d][w]
      BY <1>2, <2>1 DEF OpenUpload, CoreType
    <2>3. rows[v] = NoRow /\ \A d \in Configs : mpu[d][v] = "none"
      BY <1>2, SentinelAssumption DEF HandlerInv, StoreInv, RowInv, CoreType, RowsType, Row
    <2>4. StoreInv'
      <3>1. \A d \in Configs, w \in Videos \ ids' : mpu'[d][w] = "none"
        BY <1>2, <2>2 DEF HandlerInv, StoreInv
      <3>2. \A d, e \in Configs, w \in Videos :
               mpu'[d][w] # "none" /\ mpu'[e][w] # "none" => d = e
        BY <2>2, <2>3 DEF HandlerInv, StoreInv
      <3>3. \A d \in Configs, w \in Videos :
               /\ objects'[d][w] # {} <=> mpu'[d][w] = "completed"
               /\ assets'[d][w] # {} => mpu'[d][w] # "none"
        BY <2>2, <2>3, <2>u DEF HandlerInv, StoreInv
      <3>4. \A url \in urls' : mpu'[url.config][url.video] # "none"
        BY <2>2, <2>3, <2>u, UrlType DEF HandlerInv, StoreInv, CoreType
      <3>5. QED
        BY <3>1, <3>2, <3>3, <3>4 DEF StoreInv
    <2>5. RowInv'
      <3>1. \A w \in Videos : rows[w] # NoRow =>
               rows[w].config \in Configs /\ mpu'[rows[w].config][w] = mpu[rows[w].config][w]
        BY <2>2, <2>3 DEF CoreType, RowsType, Row
      <3>2. \A d \in Configs, w \in Videos : mpu'[d][w] = "completed" => mpu[d][w] = "completed"
        BY <2>2
      <3>3. QED
        BY <2>u, <3>1, <3>2 DEF HandlerInv, RowInv, AnsweredIsPublished
    <2>6. RequestInv'
      <3>1. ASSUME NEW s \in Requests, s # r, req'[s] # Idle
            PROVE  /\ req'[s] = req[s] /\ req[s] # Idle
                   /\ Creating(req[s]) => req[s].video # v
                   /\ (CreatorOK(req[s]) /\ HolderOK(req[s]))'
        <4>1. req'[s] = req[s] /\ req[s] # Idle
          BY <1>2, <3>1 DEF Finish, CoreType, ReqType
        <4>2. req[s].video \in Videos /\ req[s].row \in Row \cup {NoRow}
          BY <4>1, ActiveRequest DEF CoreType
        <4>3. CreatorOK(req[s]) /\ HolderOK(req[s])
          BY <4>1 DEF HandlerInv, RequestInv
        <4>4. (Creating(req[s]) \/ HoldsRow(req[s])) => req[s].video # v
          BY <4>2, <4>3, <2>3 DEF CreatorOK, HolderOK, Row
        <4>5. CreatorOK(req[s])'
          BY <1>2, <2>u, <2>2, <4>1, <4>2, <4>3, <4>4 DEF CreatorOK, Creating, Row
        <4>6. HolderOK(req[s])'
          BY <2>u, <2>2, <4>1, <4>2, <4>3, <4>4 DEF HolderOK, HoldsRow, Row
        <4>7. QED
          BY <4>1, <4>4, <4>5, <4>6
      <3>2. CASE Finish(r)
        BY <3>1, <3>2 DEF HandlerInv, RequestInv, Finish, Creating, CoreType, ReqType
      <3>3. CASE req' = [req EXCEPT ![r] = q]
        <4>1. /\ req'[r] = q /\ q.call = "createVideo" /\ q.video = v
              /\ q.row = NewRow(req[r])
          BY <1>0, <3>3 DEF Request, CoreType, ReqType
        <4>2. /\ NewRow(req[r]) \in Row /\ NewRow(req[r]).config = c
              /\ NewRow(req[r]).status = "uploading"
              /\ NewRow(req[r]).privacy = "public"
              /\ NewRow(req[r]).hash = NoHash
          BY <1>0, <2>1 DEF NewRow, Row, Payload, Privacy
        <4>3. (CreatorOK(req[r]) /\ HolderOK(req[r]))'
          <5> HIDE DEF q
          <5> QED
            BY <1>2, <2>u, <2>1, <2>2, <2>3, <4>1, <4>2, SentinelAssumption
            DEF CreatorOK, Creating, HolderOK, HoldsRow
        <4>4. req'[r].video = v
          BY <4>1
        <4>5. QED
          BY <3>1, <4>3, <4>4 DEF HandlerInv, RequestInv, Creating
      <3>4. QED
        BY <1>2, <3>2, <3>3
    <2>7. QED
      BY <2>4, <2>5, <2>6 DEF HandlerInv
  <1>3. QED
    BY <1>1, <1>2 DEF CreateUpload

\* Writing the new row: nobody can hold a row of this recording yet, because
\* a missing row would mean that its upload, which is open, was aborted.
LEMMA CreateVideoStep ==
    ASSUME HandlerInv, CoreType, NEW r \in Requests, CreateVideo(r)
    PROVE  HandlerInv'
  <1> DEFINE v == req[r].video
             row == req[r].row
  <1>0. req[r] # Idle /\ req[r] \in Request /\ v \in Videos /\ row \in Row \cup {NoRow}
    BY ActiveRequest DEF CreateVideo, At, CoreType
  <1>1. /\ row \in Row /\ mpu[row.config][v] = "open" /\ rows[v] = NoRow /\ v \in ids
        /\ row.status = "uploading" /\ row.privacy = "public" /\ row.hash = NoHash
        /\ row.config \in Configs
    BY <1>0 DEF HandlerInv, RequestInv, CreatorOK, Creating, CreateVideo, At, Row
  <1>u. UNCHANGED <<ids, mpu, objects, assets, urls, acked>>
    BY DEF CreateVideo, storeVars
  <1>r. rows' = rows \/ rows' = [rows EXCEPT ![v] = row]
    BY DEF CreateVideo
  <1>q. \/ Finish(r)
        \/ req' = [req EXCEPT ![r] = [req[r] EXCEPT !.call = "abortOrphan"]]
    BY DEF CreateVideo, Goto
  <1>2. StoreInv'
    BY <1>u DEF HandlerInv, StoreInv
  <1>3. RowInv'
    <2>1. CASE rows' = rows
      BY <2>1, <1>u DEF HandlerInv, RowInv, AnsweredIsPublished
    <2>2. CASE rows' = [rows EXCEPT ![v] = row]
      <3>1. \A w \in Videos : rows'[w] = IF w = v THEN row ELSE rows[w]
        BY <2>2 DEF CoreType, RowsType
      <3>2. QED
        <4>1. \A w \in acked : w # v
          BY <1>1 DEF HandlerInv, RowInv, AnsweredIsPublished
        <4>2. AnsweredIsPublished'
          BY <4>1, <3>1, <1>u DEF HandlerInv, RowInv, AnsweredIsPublished, CoreType
        <4>3. \A c \in Configs, w \in Videos : mpu'[c][w] = "completed" => rows'[w] # NoRow
          BY <3>1, <1>u, <1>1, SentinelAssumption DEF HandlerInv, RowInv
        <4>4. ASSUME NEW w \in Videos, rows'[w] # NoRow
              PROVE  /\ mpu'[rows'[w].config][w] # "none"
                     /\ rows'[w].status = "complete" => mpu'[rows'[w].config][w] = "completed"
                     /\ rows'[w].privacy = "password" <=> rows'[w].hash # NoHash
          BY <4>4, <3>1, <1>u, <1>1 DEF HandlerInv, RowInv
        <4>5. QED
          BY <4>2, <4>3, <4>4 DEF RowInv
    <2>3. QED
      BY <1>r, <2>1, <2>2
  <1>4. RequestInv'
    <2>1. ASSUME NEW s \in Requests, s # r, req'[s] # Idle
          PROVE  /\ req'[s] = req[s] /\ req[s] # Idle
                 /\ (CreatorOK(req[s]) /\ HolderOK(req[s]))'
      <3>1. req'[s] = req[s] /\ req[s] # Idle
        BY <1>q, <2>1 DEF Finish, CoreType, ReqType
      <3>2. req[s].video \in Videos /\ req[s].row \in Row \cup {NoRow}
        BY <3>1, ActiveRequest DEF CoreType
      <3>3. CreatorOK(req[s]) /\ HolderOK(req[s])
        BY <3>1 DEF HandlerInv, RequestInv
      <3>4. Creating(req[s]) => req[s].video # v
        BY <1>0, <2>1, <3>1 DEF HandlerInv, RequestInv, Creating, CreateVideo, At
      <3>5. HoldsRow(req[s]) => req[s].video # v
        BY <1>1, <3>2, <3>3 DEF HolderOK, HandlerInv, StoreInv, Row
      <3>6. req[s].video # v => rows'[req[s].video] = rows[req[s].video]
        BY <1>r, <3>2 DEF CoreType, RowsType
      <3>7. CreatorOK(req[s])'
        BY <1>u, <3>1, <3>3, <3>4, <3>6 DEF CreatorOK, Creating
      <3>8. HolderOK(req[s])'
        BY <1>u, <3>1, <3>3, <3>5, <3>6 DEF HolderOK, HoldsRow
      <3>9. QED
        BY <3>1, <3>7, <3>8
    <2>2. req'[r] # Idle => /\ (CreatorOK(req[r]) /\ HolderOK(req[r]))'
                            /\ req'[r].video = v
      <3>1. SUFFICES ASSUME req'[r] # Idle
                     PROVE  /\ (CreatorOK(req[r]) /\ HolderOK(req[r]))'
                            /\ req'[r].video = v
        OBVIOUS
      <3>2. req'[r].call = "abortOrphan" /\ req'[r].video = v /\ req'[r].row = row
        BY <1>0, <1>q, <3>1 DEF Finish, CoreType, ReqType, Request
      <3>3. QED
        BY <1>1, <1>u, <3>2, SentinelAssumption DEF CreatorOK, Creating, HolderOK, HoldsRow
    <2>3. QED
      BY <1>0, <2>1, <2>2 DEF HandlerInv, RequestInv, Creating, CreateVideo, At
  <1>5. QED
    BY <1>2, <1>3, <1>4 DEF HandlerInv

\* Assembling the object: the upload is open, so the row is still there and
\* no other request is past the point of no return of an abort.
LEMMA CompleteUploadStep ==
    ASSUME HandlerInv, CoreType, NEW r \in Requests, CompleteUpload(r)
    PROVE  HandlerInv'
  <1> DEFINE v == req[r].video
             c == req[r].row.config
  <1>0. req[r] # Idle /\ req[r] \in Request /\ v \in Videos /\ req[r].in \in Payload
        /\ req[r].row \in Row \cup {NoRow}
    BY ActiveRequest DEF CompleteUpload, At, CoreType
  <1>1. /\ req[r].call = "completeUpload" /\ req[r].row \in Row /\ c \in Configs
        /\ req[r].in.parts # {}
        /\ mpu[c][v] # "none"
        /\ rows[v] = NoRow => mpu[c][v] = "aborted"
        /\ rows[v] # NoRow => rows[v].config = c
    BY <1>0 DEF HandlerInv, RequestInv, HolderOK, HoldsRow, CompleteUpload, At, Row
  <1>u. UNCHANGED <<rows, ids, assets, urls, acked>>
    BY DEF CompleteUpload, dbVars
  <1>2. ASSUME NEW call \in {"markComplete", "objectExists"}, Goto(r, call)
        PROVE  LET q == [req[r] EXCEPT !.call = call]
               IN  /\ req' = [req EXCEPT ![r] = q]
                   /\ req'[r] = q
                   /\ q \in Request
                   /\ q.call = call /\ q.video = v /\ q.row = req[r].row /\ q.in = req[r].in
    BY <1>0, <1>2 DEF Goto, Request, Calls, CoreType, ReqType
  <1>3. CASE Goto(r, "objectExists") /\ UNCHANGED <<mpu, objects>>
    <2> DEFINE q == [req[r] EXCEPT !.call = "objectExists"]
    <2>1. /\ req' = [req EXCEPT ![r] = q]
          /\ q \in Request
          /\ q.call = "objectExists" /\ q.video = v /\ q.row = req[r].row /\ q.in = req[r].in
      BY <1>2, <1>3
    <2> HIDE DEF q
    <2>2. ~Creating(q) /\ HolderOK(q)
      BY <1>1, <2>1, SentinelAssumption DEF Creating, HolderOK, HoldsRow
    <2>3. QED
      BY <2>1, <2>2, <1>3, <1>u, QuietMove DEF shared
  <1>4. CASE /\ CompleteMultipart(c, v, req[r].in.parts)
             /\ Goto(r, "markComplete") \/ Goto(r, "objectExists")
    <2>1. mpu[c][v] = "open" /\ rows[v] # NoRow
      BY <1>1, <1>4 DEF CompleteMultipart
    <2>2. \A d \in Configs, w \in Videos :
             /\ mpu'[d][w] = IF d = c /\ w = v THEN "completed" ELSE mpu[d][w]
             /\ objects'[d][w] = IF d = c /\ w = v THEN req[r].in.parts ELSE objects[d][w]
      BY <1>0, <1>1, <1>4 DEF CompleteMultipart, CoreType
    <2>3. StoreInv'
      <3>1. \A d \in Configs, w \in Videos \ ids' : mpu'[d][w] = "none"
        BY <1>1, <1>u, <2>2 DEF HandlerInv, StoreInv
      <3>2. \A d, e \in Configs, w \in Videos :
               mpu'[d][w] # "none" /\ mpu'[e][w] # "none" => d = e
        BY <1>0, <1>1, <2>2 DEF HandlerInv, StoreInv
      <3>3. \A d \in Configs, w \in Videos :
               /\ objects'[d][w] # {} <=> mpu'[d][w] = "completed"
               /\ assets'[d][w] # {} => mpu'[d][w] # "none"
        BY <1>1, <1>u, <2>2 DEF HandlerInv, StoreInv
      <3>4. \A url \in urls' : mpu'[url.config][url.video] # "none"
        <4>1. ASSUME NEW url \in urls
              PROVE  mpu'[url.config][url.video] # "none"
          <5>1. url.config \in Configs /\ url.video \in Videos
            BY <4>1, UrlType DEF CoreType
          <5>2. mpu[url.config][url.video] # "none"
            BY <4>1 DEF HandlerInv, StoreInv
          <5>3. QED
            BY <5>1, <5>2, <2>2
        <4>2. QED
          BY <4>1, <1>u
      <3>5. QED
        BY <3>1, <3>2, <3>3, <3>4 DEF StoreInv
    <2>4. RowInv'
      <3>1. \A w \in Videos : rows[w] # NoRow =>
               /\ rows[w].config \in Configs
               /\ mpu[rows[w].config][w] # "none" => mpu'[rows[w].config][w] # "none"
               /\ mpu[rows[w].config][w] = "completed" => mpu'[rows[w].config][w] = "completed"
        BY <2>2 DEF CoreType, RowsType, Row
      <3>2. \A d \in Configs, w \in Videos : mpu'[d][w] = "completed" => rows[w] # NoRow
        BY <2>1, <2>2 DEF HandlerInv, RowInv
      <3>3. QED
        BY <1>u, <3>1, <3>2 DEF HandlerInv, RowInv, AnsweredIsPublished
    <2>5. RequestInv'
      <3>1. ASSUME NEW s \in Requests, s # r, req'[s] # Idle
            PROVE  /\ req'[s] = req[s] /\ req[s] # Idle
                   /\ (CreatorOK(req[s]) /\ HolderOK(req[s]))'
        <4>1. req'[s] = req[s] /\ req[s] # Idle
          BY <1>4, <3>1 DEF Goto, CoreType, ReqType
        <4>2. req[s].video \in Videos /\ req[s].row \in Row \cup {NoRow}
          BY <4>1, ActiveRequest DEF CoreType
        <4>3. CreatorOK(req[s]) /\ HolderOK(req[s])
          BY <4>1 DEF HandlerInv, RequestInv
        <4>4. req[s].call = "createVideo" => req[s].video # v
          BY <2>1, <4>3 DEF CreatorOK, Creating
        <4>5. CreatorOK(req[s])'
          BY <1>u, <2>2, <4>1, <4>2, <4>3, <4>4 DEF CreatorOK, Creating, Row
        <4>6. HolderOK(req[s])'
          BY <1>u, <2>1, <2>2, <4>1, <4>2, <4>3 DEF HolderOK, HoldsRow, Row
        <4>7. QED
          BY <4>1, <4>5, <4>6
      <3>2. (CreatorOK(req[r]) /\ HolderOK(req[r]))' /\ ~Creating(req[r])'
        <4>1. /\ req'[r].call \in {"markComplete", "objectExists"}
              /\ req'[r].video = v /\ req'[r].row = req[r].row /\ req'[r].in = req[r].in
          BY <1>2, <1>4
        <4>2. QED
          BY <1>0, <1>1, <1>u, <2>1, <2>2, <4>1, SentinelAssumption
          DEF CreatorOK, Creating, HolderOK, HoldsRow
      <3>3. QED
        BY <3>1, <3>2 DEF HandlerInv, RequestInv, Creating
    <2>6. QED
      BY <2>3, <2>4, <2>5 DEF HandlerInv
  <1>5. QED
    BY <1>3, <1>4 DEF CompleteUpload

\* An UPDATE by id keeps the bucket, and a recording only becomes complete
\* when its object has been assembled.
LEMMA UpdateStep ==
    ASSUME HandlerInv, CoreType, NEW r \in Requests, req[r] # Idle, Finish(r),
           NEW row, UpdateRow(req[r].video, row) \/ UNCHANGED rows,
           UNCHANGED <<ids, mpu, objects, assets, urls>>,
           rows[req[r].video] # NoRow =>
              /\ row \in Row
              /\ row.config = rows[req[r].video].config
              /\ row.status = "complete" => mpu[row.config][req[r].video] = "completed"
              /\ rows[req[r].video].status = "complete" => row.status = "complete"
              /\ row.privacy = "password" <=> row.hash # NoHash,
           \/ acked' = acked
           \/ /\ acked' = acked \cup {req[r].video}
              /\ UpdateRow(req[r].video, row)
              /\ rows[req[r].video] # NoRow /\ row.status = "complete"
    PROVE  HandlerInv'
  <1> DEFINE v == req[r].video
  <1>1. v \in Videos
    BY ActiveRequest DEF CoreType
  <1>2. \/ rows' = rows
        \/ /\ rows[v] # NoRow /\ row \in Row
           /\ \A w \in Videos : rows'[w] = IF w = v THEN row ELSE rows[w]
    BY <1>1 DEF UpdateRow, CoreType, RowsType
  <1>3. \A w \in Videos :
           /\ rows'[w] = NoRow <=> rows[w] = NoRow
           /\ rows[w] # NoRow =>
                 /\ rows'[w].config = rows[w].config
                 /\ rows[w].status = "complete" => rows'[w].status = "complete"
    BY <1>1, <1>2, SentinelAssumption
  <1>4. StoreInv'
    BY DEF HandlerInv, StoreInv
  <1>5. RowInv'
    <2>1. \A c \in Configs, w \in Videos : mpu'[c][w] = "completed" => rows'[w] # NoRow
      BY <1>3 DEF HandlerInv, RowInv
    <2>2. ASSUME NEW w \in Videos, rows'[w] # NoRow
          PROVE  /\ mpu'[rows'[w].config][w] # "none"
                 /\ rows'[w].status = "complete" => mpu'[rows'[w].config][w] = "completed"
                 /\ rows'[w].privacy = "password" <=> rows'[w].hash # NoHash
      BY <2>2, <1>2, <1>3 DEF HandlerInv, RowInv
    <2>3. AnsweredIsPublished'
      <3>1. CASE acked' = acked
        BY <3>1, <1>3 DEF HandlerInv, RowInv, AnsweredIsPublished, CoreType
      <3>2. CASE acked' # acked
        <4>1. /\ acked' = acked \cup {v} /\ rows[v] # NoRow
              /\ rows' = [rows EXCEPT ![v] = row] /\ row \in Row /\ row.status = "complete"
          BY <3>2 DEF UpdateRow
        <4>2. rows'[v] = row /\ row # NoRow
          BY <4>1, <1>1, SentinelAssumption DEF CoreType, RowsType
        <4>3. QED
          BY <4>1, <4>2, <1>3 DEF HandlerInv, RowInv, AnsweredIsPublished, CoreType
      <3>3. QED
        BY <3>1, <3>2
    <2>4. QED
      BY <2>1, <2>2, <2>3 DEF RowInv
  <1>6. RequestInv'
    <2>1. ASSUME NEW s \in Requests, req'[s] # Idle
          PROVE  /\ req'[s] = req[s] /\ req[s] # Idle
                 /\ (CreatorOK(req[s]) /\ HolderOK(req[s]))'
      <3>1. req'[s] = req[s] /\ req[s] # Idle
        BY <2>1 DEF Finish, CoreType, ReqType
      <3>2. req[s].video \in Videos
        BY <3>1, ActiveRequest DEF CoreType
      <3>3. CreatorOK(req[s]) /\ HolderOK(req[s])
        BY <3>1 DEF HandlerInv, RequestInv
      <3>4. CreatorOK(req[s])'
        BY <3>1, <3>2, <3>3, <1>3 DEF CreatorOK, Creating
      <3>5. HolderOK(req[s])'
        BY <3>1, <3>2, <3>3, <1>3 DEF HolderOK, HoldsRow
      <3>6. QED
        BY <3>1, <3>4, <3>5
    <2>2. QED
      BY <2>1 DEF HandlerInv, RequestInv, Creating
  <1>7. QED
    BY <1>4, <1>5, <1>6 DEF HandlerInv

\* Deleting the row of an aborted upload: nothing was assembled, so the row
\* is not complete and nobody was told that it is.
LEMMA DeleteVideoStep ==
    ASSUME HandlerInv, CoreType, NEW r \in Requests, DeleteVideo(r)
    PROVE  HandlerInv'
  <1> DEFINE v == req[r].video
             c == req[r].row.config
  <1>0. req[r] # Idle /\ v \in Videos /\ req[r].row \in Row \cup {NoRow}
    BY ActiveRequest DEF DeleteVideo, At, CoreType
  <1>1. /\ c \in Configs /\ mpu[c][v] = "aborted"
        /\ rows[v] # NoRow => rows[v].config = c
    BY <1>0 DEF HandlerInv, RequestInv, HolderOK, HoldsRow, DeleteVideo, At, Row
  <1>2. \A d \in Configs : mpu[d][v] # "completed"
    BY <1>0, <1>1 DEF HandlerInv, StoreInv
  <1>3. v \notin acked
    BY <1>0, <1>1 DEF HandlerInv, RowInv, AnsweredIsPublished
  <1>u. Finish(r) /\ UNCHANGED <<ids, mpu, objects, assets, urls, acked>>
    BY DEF DeleteVideo, storeVars
  <1>4. CASE rows' = rows
    BY <1>4, <1>u, QuietFinish DEF shared
  <1>5. CASE rows' = [rows EXCEPT ![v] = NoRow]
    <2>1. \A w \in Videos : rows'[w] = IF w = v THEN NoRow ELSE rows[w]
      BY <1>5 DEF CoreType, RowsType
    <2>2. StoreInv'
      BY <1>u DEF HandlerInv, StoreInv
    <2>3. RowInv'
      BY <1>u, <1>2, <1>3, <2>1, SMTT(30) DEF HandlerInv, RowInv, AnsweredIsPublished, CoreType
    <2>4. RequestInv'
      <3>1. ASSUME NEW s \in Requests, req'[s] # Idle
            PROVE  /\ req'[s] = req[s] /\ req[s] # Idle
                   /\ (CreatorOK(req[s]) /\ HolderOK(req[s]))'
        <4>1. req'[s] = req[s] /\ req[s] # Idle
          BY <3>1, <1>u DEF Finish, CoreType, ReqType
        <4>2. req[s].video \in Videos /\ req[s].row \in Row \cup {NoRow}
          BY <4>1, ActiveRequest DEF CoreType
        <4>3. CreatorOK(req[s]) /\ HolderOK(req[s])
          BY <4>1 DEF HandlerInv, RequestInv
        <4>4. CreatorOK(req[s])'
          BY <1>u, <2>1, <4>1, <4>2, <4>3 DEF CreatorOK, Creating
        <4>5. HoldsRow(req[s]) /\ req[s].video = v => mpu[req[s].row.config][v] = "aborted"
          BY <1>0, <1>1, <4>2, <4>3 DEF HolderOK, HandlerInv, StoreInv, Row
        <4>6. HolderOK(req[s])'
          BY <1>u, <2>1, <4>1, <4>2, <4>3, <4>5 DEF HolderOK, HoldsRow
        <4>7. QED
          BY <4>1, <4>4, <4>6
      <3>2. QED
        BY <3>1 DEF HandlerInv, RequestInv, Creating
    <2>5. QED
      BY <2>2, <2>3, <2>4 DEF HandlerInv
  <1>6. QED
    BY <1>4, <1>5 DEF DeleteVideo

\* A new presigned URL, or an asset stored through one, stays in the bucket of
\* a known upload.
LEMMA UrlStep ==
    ASSUME HandlerInv, CoreType, UNCHANGED <<rows, ids, mpu, objects, acked>>,
           req' = req \/ \E r \in Requests : Finish(r),
           \A url \in urls' : mpu[url.config][url.video] # "none",
           \A c \in Configs, v \in Videos :
              assets'[c][v] # {} => assets[c][v] # {} \/ mpu[c][v] # "none"
    PROVE  HandlerInv'
  <1>1. StoreInv'
    BY DEF HandlerInv, StoreInv
  <1>2. RowInv'
    BY DEF HandlerInv, RowInv, AnsweredIsPublished
  <1>3. RequestInv'
    BY SMTT(30) DEF HandlerInv, RequestInv, CreatorOK, HolderOK, Creating, HoldsRow, Finish, CoreType, ReqType
  <1>4. QED
    BY <1>1, <1>2, <1>3 DEF HandlerInv

\* One step per action of the handlers.
LEMMA HandlerInvStep ==
    ASSUME HandlerInv, TypeOK, [Next]_vars
    PROVE  HandlerInv'
  <1> CoreType
    BY CoreTyped
  <1>1. CASE UNCHANGED vars
    <2>1. StoreInv' /\ RowInv'
      BY <1>1 DEF HandlerInv, StoreInv, RowInv, AnsweredIsPublished, vars
    <2>2. RequestInv'
      BY <1>1 DEF HandlerInv, RequestInv, CreatorOK, HolderOK, Creating, HoldsRow, vars
    <2>3. QED
      BY <2>1, <2>2 DEF HandlerInv
  <1>2. CASE PutPart
    BY <1>2, UrlStep DEF PutPart, dbVars, HandlerInv, StoreInv
  <1>3. CASE PutAsset
    <2>1. PICK url \in urls :
             assets' = [assets EXCEPT ![url.config][url.video] = @ \cup {url.asset}]
      BY <1>3 DEF PutAsset
    <2>2. /\ url.config \in Configs /\ url.video \in Videos
          /\ mpu[url.config][url.video] # "none"
      BY UrlType DEF CoreType, HandlerInv, StoreInv
    <2>3. \A c \in Configs, v \in Videos :
             assets'[c][v] # {} => assets[c][v] # {} \/ mpu[c][v] # "none"
      BY <2>1, <2>2 DEF CoreType
    <2>4. QED
      BY <1>3, <2>3, UrlStep DEF PutAsset, dbVars, HandlerInv, StoreInv
  <1>4. ASSUME NEW r \in Requests, Step(r) PROVE HandlerInv'
    <2> DEFINE q == req[r]
    <2>t. ASSUME q # Idle
          PROVE  /\ q \in Request /\ q.video \in Videos /\ q.in \in Payload
                 /\ q.row \in Row \cup {NoRow} /\ q.hash \in Hashes \cup {NoHash}
                 /\ CreatorOK(q) /\ HolderOK(q)
                 /\ rows[q.video] # NoRow => rows[q.video] \in Row
      BY <2>t, ActiveRequest DEF CoreType, HandlerInv, RequestInv, RowsType
    <2>1. CASE Receive(r)
      <3>1. PICK in \in Inputs :
               req' = [req EXCEPT ![r] = [in |-> in, call |-> "auth", video |-> in.video,
                                          config |-> NoConfig, row |-> NoRow, hash |-> NoHash]]
        BY <2>1 DEF Receive
      <3> DEFINE n == [in |-> in, call |-> "auth", video |-> in.video,
                       config |-> NoConfig, row |-> NoRow, hash |-> NoHash]
      <3>2. n \in Request /\ n.call = "auth"
        BY InputsAssumption DEF Request, Payload, Calls
      <3>3. req' = [req EXCEPT ![r] = n]
        BY <3>1
      <3> HIDE DEF n
      <3>4. ~Creating(n) /\ HolderOK(n)
        BY <3>2 DEF Creating, HolderOK, HoldsRow
      <3>5. QED
        BY <2>1, <3>2, <3>3, <3>4, QuietMove DEF Receive, dbVars, storeVars, shared
    <2>2. CASE Authenticate(r)
      <3> DEFINE n == [q EXCEPT !.call = FirstCall(q.in.op), !.config = userConfig[q.in.user]]
      <3>1. CASE Finish(r)
        BY <2>2, <3>1, QuietFinish DEF Authenticate, dbVars, storeVars, shared
      <3>2. CASE req' = [req EXCEPT ![r] = n]
        <4>1. n \in Request /\ n.call \in {"createUpload", "test", "setConfig", "find"}
          <5>1. userConfig[q.in.user] \in Configs \cup {NoConfig}
            BY <2>2, <2>t DEF Authenticate, At, TypeOK, Payload
          <5>2. FirstCall(q.in.op) \in {"createUpload", "test", "setConfig", "find"}
            BY DEF FirstCall
          <5>3. QED
            BY <2>2, <2>t, <5>1, <5>2 DEF Authenticate, At, Request, Calls
        <4> HIDE DEF n
        <4>2. ~Creating(n) /\ HolderOK(n)
          BY <4>1 DEF Creating, HolderOK, HoldsRow
        <4>3. QED
          BY <2>2, <3>2, <4>1, <4>2, QuietMove DEF Authenticate, dbVars, storeVars, shared
      <3>3. QED
        BY <2>2, <3>1, <3>2 DEF Authenticate
    <2>3. CASE Interrupt(r) \/ Refuse(r)
      BY <2>3, QuietFinish DEF Interrupt, Refuse, dbVars, storeVars, shared
    <2>4. CASE TestStorage(r)
      <3> DEFINE n == [q EXCEPT !.call = "setConfig"]
      <3>1. CASE Finish(r)
        BY <2>4, <3>1, QuietFinish DEF TestStorage, dbVars, storeVars, shared
      <3>2. CASE Goto(r, "setConfig")
        <4>1. n \in Request /\ n.call = "setConfig" /\ req' = [req EXCEPT ![r] = n]
          BY <2>4, <2>t, <3>2 DEF TestStorage, At, Goto, Request, Calls
        <4> HIDE DEF n
        <4>2. ~Creating(n) /\ HolderOK(n)
          BY <4>1 DEF Creating, HolderOK, HoldsRow
        <4>3. QED
          BY <2>4, <4>1, <4>2, QuietMove DEF TestStorage, dbVars, storeVars, shared
      <3>3. QED
        BY <2>4, <3>1, <3>2 DEF TestStorage
    <2>5. CASE SetConfig(r)
      BY <2>5, QuietFinish DEF SetConfig, storeVars, shared
    <2>6. CASE CreateUpload(r)
      BY <2>6, CreateUploadStep
    <2>7. CASE CreateVideo(r)
      BY <2>7, CreateVideoStep
    <2>8. CASE AbortOrphan(r)
      BY <2>8, AbortMultipartStep, QuietFinish DEF AbortOrphan, At, dbVars, shared
    <2>9. CASE SignPart(r) \/ SignAsset(r)
      <3>1. /\ q # Idle /\ Owns(r) /\ Finish(r)
            /\ UNCHANGED <<rows, ids, mpu, objects, assets, acked>>
        BY <2>9 DEF SignPart, SignAsset, At, dbVars, storeVars
      <3>2. mpu[rows[q.video].config][q.video] # "none"
        BY <2>t, <3>1 DEF Owns, HandlerInv, RowInv
      <3>3. \A url \in urls' : mpu[url.config][url.video] # "none"
        BY <2>9, <3>2 DEF SignPart, SignAsset, HandlerInv, StoreInv
      <3>4. QED
        BY <3>1, <3>3, UrlStep
    <2>10. CASE FindToComplete(r)
      <3>1. q # Idle /\ Owns(r)
        BY <2>10 DEF FindToComplete, At
      <3>2. CASE rows[q.video].status = "complete"
        <4>1. UpdateRow(q.video, rows[q.video])
          BY <2>10, <2>t, <3>1, <3>2 DEF FindToComplete, UpdateRow, dbVars, CoreType, RowsType
        <4>2. /\ rows[q.video] # NoRow /\ rows[q.video] \in Row
              /\ mpu[rows[q.video].config][q.video] = "completed"
              /\ rows[q.video].privacy = "password" <=> rows[q.video].hash # NoHash
          BY <2>t, <3>1, <3>2 DEF Owns, HandlerInv, RowInv
        <4>3. /\ Finish(r) /\ acked' = acked \cup {q.video}
              /\ UNCHANGED <<ids, mpu, objects, assets, urls>>
          BY <2>10, <3>2 DEF FindToComplete, dbVars, storeVars
        <4>4. QED
          BY <3>1, <3>2, <4>1, <4>2, <4>3, UpdateStep
      <3>3. CASE rows[q.video].status # "complete"
        BY <2>10, <3>1, <3>3, ProceedStep DEF FindToComplete
      <3>4. QED
        BY <3>2, <3>3
    <2>11. CASE FindToAbort(r) \/ FindToRename(r) \/ FindToArchive(r)
      BY <2>11, ProceedStep DEF FindToAbort, FindToRename, FindToArchive, At
    <2>12. CASE FindToSetPrivacy(r)
      <3> DEFINE row == rows[q.video]
                 hash == NewHash(q.in, row)
                 n == [q EXCEPT !.call = "setPrivacy", !.row = row, !.hash = hash]
      <3>1. q # Idle /\ Owns(r) /\ row \in Row /\ q.in \in Payload /\ q \in Request
        BY <2>12, <2>t DEF FindToSetPrivacy, At, Owns
      <3>2. /\ hash \in Hashes \cup {NoHash}
            /\ q.in.privacy = "password" <=> hash # NoHash
        BY <2>12, <3>1 DEF FindToSetPrivacy, NewHash, Row, Payload
      <3>3. req' = [req EXCEPT ![r] = n] /\ UNCHANGED shared
        BY <2>12 DEF FindToSetPrivacy, shared, dbVars, storeVars
      <3>4. /\ n \in Request /\ n.call = "setPrivacy" /\ n.row = row /\ n.hash = hash
            /\ n.video = q.video /\ n.in = q.in
        BY <3>1, <3>2 DEF Request, Calls
      <3> HIDE DEF n, hash
      <3>5. ~Creating(n) /\ HolderOK(n)
        BY <3>1, <3>2, <3>4, FreshRow
      <3>6. QED
        BY <3>3, <3>4, <3>5, QuietMove
    <2>13. CASE SetName(r)
      <3> DEFINE row == [rows[q.video] EXCEPT !.name = q.in.name]
      <3>1. q # Idle /\ Finish(r) /\ UNCHANGED <<ids, mpu, objects, assets, urls, acked>>
            /\ (UpdateRow(q.video, row) \/ UNCHANGED rows)
        BY <2>13 DEF SetName, At, storeVars
      <3>2. rows[q.video] # NoRow =>
               /\ row \in Row /\ row.config = rows[q.video].config
               /\ row.status = rows[q.video].status
               /\ row.privacy = rows[q.video].privacy /\ row.hash = rows[q.video].hash
        BY <2>t, <3>1 DEF Row, Payload
      <3> HIDE DEF row
      <3>3. rows[q.video] # NoRow =>
               /\ row.status = "complete" => mpu[row.config][q.video] = "completed"
               /\ row.privacy = "password" <=> row.hash # NoHash
        BY <2>t, <3>1, <3>2 DEF HandlerInv, RowInv
      <3>4. QED
        BY <3>1, <3>2, <3>3, UpdateStep
    <2>14. CASE SetPrivacy(r)
      <3> DEFINE row == [rows[q.video] EXCEPT !.privacy = q.in.privacy, !.hash = q.hash]
      <3>1. q # Idle /\ Finish(r) /\ UNCHANGED <<ids, mpu, objects, assets, urls, acked>>
            /\ (UpdateRow(q.video, row) \/ UNCHANGED rows) /\ q.call = "setPrivacy"
        BY <2>14 DEF SetPrivacy, At, storeVars
      <3>2. rows[q.video] # NoRow =>
               /\ row \in Row /\ row.config = rows[q.video].config
               /\ row.status = rows[q.video].status
               /\ row.privacy = q.in.privacy /\ row.hash = q.hash
        BY <2>t, <3>1 DEF Row, Payload
      <3> HIDE DEF row
      <3>3. rows[q.video] # NoRow =>
               /\ row.status = "complete" => mpu[row.config][q.video] = "completed"
               /\ row.privacy = "password" <=> row.hash # NoHash
        BY <2>t, <3>1, <3>2 DEF HandlerInv, RowInv, HolderOK, HoldsRow
      <3>4. QED
        BY <3>1, <3>2, <3>3, UpdateStep
    <2>15. CASE ArchiveVideo(r)
      <3> DEFINE row == [rows[q.video] EXCEPT !.archived = TRUE]
      <3>1. q # Idle /\ Finish(r) /\ UNCHANGED <<ids, mpu, objects, assets, urls, acked>>
            /\ (UpdateRow(q.video, row) \/ UNCHANGED rows)
        BY <2>15 DEF ArchiveVideo, At, storeVars
      <3>2. rows[q.video] # NoRow =>
               /\ row \in Row /\ row.config = rows[q.video].config
               /\ row.status = rows[q.video].status
               /\ row.privacy = rows[q.video].privacy /\ row.hash = rows[q.video].hash
        BY <2>t, <3>1 DEF Row
      <3> HIDE DEF row
      <3>3. rows[q.video] # NoRow =>
               /\ row.status = "complete" => mpu[row.config][q.video] = "completed"
               /\ row.privacy = "password" <=> row.hash # NoHash
        BY <2>t, <3>1, <3>2 DEF HandlerInv, RowInv
      <3>4. QED
        BY <3>1, <3>2, <3>3, UpdateStep
    <2>16. CASE CompleteUpload(r)
      BY <2>16, CompleteUploadStep
    <2>17. CASE ObjectExists(r)
      <3> DEFINE n == [q EXCEPT !.call = "markComplete"]
      <3>1. q # Idle /\ UNCHANGED shared /\ q.call = "objectExists"
        BY <2>17 DEF ObjectExists, At, shared, dbVars, storeVars
      <3>2. CASE Finish(r)
        BY <3>1, <3>2, QuietFinish
      <3>3. CASE objects[q.row.config][q.video] # {} /\ Goto(r, "markComplete")
        <4>1. /\ n \in Request /\ req' = [req EXCEPT ![r] = n]
              /\ n.call = "markComplete" /\ n.row = q.row /\ n.video = q.video /\ n.in = q.in
          BY <3>1, <3>3, <2>t DEF Goto, Request, Calls
        <4>2. q.row \in Row /\ q.row.config \in Configs
          BY <3>1, <2>t DEF HolderOK, HoldsRow, Row
        <4>3. mpu[q.row.config][q.video] = "completed"
          BY <3>1, <3>3, <4>2, <2>t DEF HandlerInv, StoreInv
        <4> HIDE DEF n
        <4>4. ~Creating(n) /\ HolderOK(n)
          BY <3>1, <4>1, <4>3, <2>t DEF Creating, HolderOK, HoldsRow
        <4>5. QED
          BY <3>1, <4>1, <4>4, QuietMove
      <3>4. QED
        BY <2>17, <3>2, <3>3 DEF ObjectExists
    <2>18. CASE MarkComplete(r)
      <3> DEFINE row == [rows[q.video] EXCEPT !.status = "complete"]
      <3>1. /\ q # Idle /\ Finish(r) /\ UNCHANGED <<ids, mpu, objects, assets, urls>>
            /\ q.call = "markComplete"
            /\ UpdateRow(q.video, row) \/ UNCHANGED rows
            /\ \/ acked' = acked
               \/ acked' = acked \cup {q.video} /\ UpdateRow(q.video, row)
        BY <2>18 DEF MarkComplete, At, storeVars
      <3>2. /\ rows[q.video] # NoRow /\ rows[q.video] \in Row
            /\ mpu[rows[q.video].config][q.video] = "completed"
        BY <3>1, <2>t DEF HolderOK, HoldsRow
      <3>3. /\ row \in Row /\ row.config = rows[q.video].config /\ row.status = "complete"
            /\ row.privacy = rows[q.video].privacy /\ row.hash = rows[q.video].hash
        BY <3>2 DEF Row
      <3> HIDE DEF row
      <3>4. row.privacy = "password" <=> row.hash # NoHash
        BY <3>1, <3>2, <3>3, <2>t DEF HandlerInv, RowInv
      <3>5. QED
        BY <3>1, <3>2, <3>3, <3>4, UpdateStep
    <2>19. CASE AbortUpload(r)
      BY <2>19, AbortMultipartStep, QuietFinish DEF AbortUpload, At, dbVars, shared
    <2>20. CASE DeleteVideo(r)
      BY <2>20, DeleteVideoStep
    <2> QED
      BY <1>4, <2>1, <2>2, <2>3, <2>4, <2>5, <2>6, <2>7, <2>8, <2>9, <2>10, <2>11, <2>12,
         <2>13, <2>14, <2>15, <2>16, <2>17, <2>18, <2>19, <2>20 DEF Step
  <1>5. QED
    BY <1>1, <1>2, <1>3, <1>4 DEF Next

\* However requests interleave, fail half way, lose answers or are cut off:
\* what the rows, the store and the handlers in flight say stays consistent.
THEOREM HandlersConsistent == Spec => []HandlerInv
<1>1. Init => HandlerInv
  BY DEF Init, HandlerInv, StoreInv, RowInv, RequestInv, AnsweredIsPublished
<1>2. HandlerInv /\ TypeOK /\ [Next]_vars => HandlerInv'
  BY HandlerInvStep
<1>3. QED
  BY <1>1, <1>2, TypeCorrect, PTL DEF Spec

\* complete never publishes a recording whose object is missing from the
\* bucket of its row, for any number of concurrent completes and aborts.
THEOREM CompleteHasObjectTheorem == Spec => []CompleteHasObject
<1>1. HandlerInv /\ TypeOK => CompleteHasObject
  BY DEF HandlerInv, StoreInv, RowInv, CompleteHasObject, TypeOK, Row
<1>2. QED
  BY <1>1, HandlersConsistent, TypeCorrect, PTL

\* A recording whose client was given the viewer URL is never taken away.
THEOREM AnsweredIsPublishedTheorem == Spec => []AnsweredIsPublished
<1>1. HandlerInv => AnsweredIsPublished
  BY DEF HandlerInv, RowInv
<1>2. QED
  BY <1>1, HandlersConsistent, PTL

\* Assembled content always has a row through which it can be published.
THEOREM AssembledKeepsRowTheorem == Spec => []AssembledKeepsRow
<1>1. HandlerInv => AssembledKeepsRow
  BY DEF HandlerInv, StoreInv, RowInv, AssembledKeepsRow
<1>2. QED
  BY <1>1, HandlersConsistent, PTL

\* Changing the storage settings never moves a recording to another bucket.
THEOREM StaysInSnapshotBucketTheorem == Spec => []StaysInSnapshotBucket
<1>1. HandlerInv /\ TypeOK => StaysInSnapshotBucket
  <2> SUFFICES ASSUME HandlerInv, TypeOK, NEW v \in Videos, rows[v] # NoRow,
                      NEW c \in Configs \ {rows[v].config}
               PROVE  /\ mpu[rows[v].config][v] # "none"
                      /\ mpu[c][v] = "none" /\ objects[c][v] = {} /\ assets[c][v] = {}
    BY DEF StaysInSnapshotBucket, HandlerInv, RowInv
  <2>1. rows[v].config \in Configs /\ mpu[rows[v].config][v] # "none"
    BY DEF HandlerInv, RowInv, TypeOK, Row
  <2>2. mpu[c][v] = "none"
    BY <2>1 DEF HandlerInv, StoreInv
  <2>3. QED
    BY <2>1, <2>2 DEF HandlerInv, StoreInv
<1>2. QED
  BY <1>1, HandlersConsistent, TypeCorrect, PTL

\* Overlapping privacy changes never leave a password recording without hash.
THEOREM PasswordHasHashTheorem == Spec => []PasswordHasHash
<1>1. HandlerInv => PasswordHasHash
  BY DEF HandlerInv, RowInv, PasswordHasHash
<1>2. QED
  BY <1>1, HandlersConsistent, PTL

(***************************************************************************)
(* The handlers implement RecordingLifecycle.                              *)
(***************************************************************************)

\* What the abstract life shows of all recordings.
Phases == [v \in Videos |-> LifePhase(v)]
Places == [v \in Videos |-> LifePlace(v)]
Contents == [v \in Videos |-> LifeContent(v)]

\* A recording whose row, upload and object stay has the life it had.
LEMMA LifeKept ==
    ASSUME NEW v \in Videos, rows'[v] = rows[v],
           \A c \in Configs : mpu'[c][v] = mpu[c][v] /\ objects'[c][v] = objects[c][v]
    PROVE  /\ LifePhase(v)' = LifePhase(v)
           /\ LifePlace(v)' = LifePlace(v)
           /\ LifeContent(v)' = LifeContent(v)
  <1>1. {objects'[c][v] : c \in Configs} = {objects[c][v] : c \in Configs}
    OBVIOUS
  <1>2. QED
    BY <1>1 DEF LifePhase, LifePlace, LifeContent

\* A step that touches one recording changes the life of that one.
LEMMA OneLife ==
    ASSUME NEW v \in Videos,
           \A w \in Videos \ {v} :
              /\ rows'[w] = rows[w]
              /\ \A c \in Configs : mpu'[c][w] = mpu[c][w] /\ objects'[c][w] = objects[c][w]
    PROVE  /\ Phases' = [Phases EXCEPT ![v] = LifePhase(v)']
           /\ Places' = [Places EXCEPT ![v] = LifePlace(v)']
           /\ Contents' = [Contents EXCEPT ![v] = LifeContent(v)']
  <1>1. \A w \in Videos \ {v} : /\ LifePhase(w)' = LifePhase(w)
                                /\ LifePlace(w)' = LifePlace(w)
                                /\ LifeContent(w)' = LifeContent(w)
    BY LifeKept
  <1>2. QED
    BY <1>1 DEF Phases, Places, Contents

\* A step that changes neither rows nor store nor what clients were told.
LEMMA LifeStutter ==
    ASSUME UNCHANGED <<rows, mpu, objects, acked>>
    PROVE  UNCHANGED Life!lifeVars
  <1>1. \A v \in Videos : /\ LifePhase(v)' = LifePhase(v)
                          /\ LifePlace(v)' = LifePlace(v)
                          /\ LifeContent(v)' = LifeContent(v)
    BY LifeKept
  <1>2. QED
    BY <1>1 DEF Life!lifeVars

\* Content is in one bucket: the one the upload was opened in.
LEMMA OneBucket ==
    ASSUME HandlerInv, CoreType, NEW c \in Configs, NEW v \in Videos, mpu[c][v] # "none"
    PROVE  /\ LifeContent(v) = objects[c][v]
           /\ LifeContent(v) # {} <=> mpu[c][v] = "completed"
           /\ (\E d \in Configs : mpu[d][v] = "aborted") <=> mpu[c][v] = "aborted"
           /\ rows[v] # NoRow => rows[v].config = c /\ LifePlace(v) = c
  <1>1. \A d \in Configs \ {c} : mpu[d][v] = "none" /\ objects[d][v] = {}
    BY DEF HandlerInv, StoreInv
  <1>2. UNION {objects[d][v] : d \in Configs} = objects[c][v]
    BY <1>1
  <1>3. rows[v] # NoRow => rows[v].config \in Configs /\ mpu[rows[v].config][v] # "none"
    BY DEF HandlerInv, RowInv, CoreType, RowsType, Row
  <1>4. QED
    BY <1>1, <1>2, <1>3 DEF LifeContent, LifePlace, HandlerInv, StoreInv

\* createVideo: the upload was opened and never aborted, so the recording had
\* no life before.
LEMMA LifeCreateVideo ==
    ASSUME HandlerInv, CoreType, NEW r \in Requests, CreateVideo(r)
    PROVE  [Life!LifeNext]_(Life!lifeVars)
  <1>0. PICK v, row : v = req[r].video /\ row = req[r].row
    OBVIOUS
  <1>1. /\ v \in Videos /\ row \in Row /\ row # NoRow
        /\ rows[v] = NoRow /\ mpu[row.config][v] = "open" /\ row.status = "uploading"
        /\ UNCHANGED <<mpu, objects, acked>>
    BY <1>0, ActiveRequest
       DEF CreateVideo, At, CoreType, HandlerInv, RequestInv, CreatorOK, Creating, storeVars
  <1>2. CASE UNCHANGED rows
    BY <1>1, <1>2, LifeStutter
  <1>3. CASE rows' = [rows EXCEPT ![v] = row]
    <2>1. row.config \in Configs
      BY <1>1 DEF Row
    <2>2. LifePhase(v) = "none" /\ LifeContent(v)' = LifeContent(v)
      BY <1>1, <2>1, OneBucket DEF LifePhase, LifeContent
    <2>3. rows'[v] = row /\ \A w \in Videos \ {v} : rows'[w] = rows[w]
      BY <1>1, <1>3 DEF CoreType, RowsType
    <2>4. LifePhase(v)' = "uploading" /\ LifePlace(v)' = row.config
      BY <1>1, <2>3 DEF LifePhase, LifePlace
    <2>5. /\ Phases' = [Phases EXCEPT ![v] = "uploading"]
          /\ Places' = [Places EXCEPT ![v] = row.config]
          /\ Contents' = [Contents EXCEPT ![v] = LifeContent(v)]
      BY <1>1, <2>2, <2>3, <2>4, OneLife
    <2>6. Contents' = Contents /\ Phases[v] = "none"
      BY <1>1, <2>2, <2>5 DEF Contents, Phases
    <2>7. Life!Begin(v, row.config)
      BY <1>1, <2>5, <2>6 DEF Life!Begin, Phases, Places, Contents
    <2>8. QED
      BY <1>1, <2>1, <2>7 DEF Life!LifeNext
  <1>4. QED
    BY <1>0, <1>2, <1>3 DEF CreateVideo

\* AbortMultipartUpload: a recording without a row is discarded for good; one
\* with a row has no content yet and keeps its life until the row goes.
LEMMA LifeAbort ==
    ASSUME HandlerInv, CoreType, NEW c \in Configs, NEW v \in Videos, AbortMultipart(c, v),
           UNCHANGED <<rows, objects, acked>>
    PROVE  [Life!LifeNext]_(Life!lifeVars)
  <1>1. /\ mpu[c][v] = "open" /\ mpu'[c][v] = "aborted"
        /\ \A w \in Videos \ {v} : \A d \in Configs : mpu'[d][w] = mpu[d][w]
    BY DEF AbortMultipart, CoreType, MpuStates
  <1>2. LifeContent(v) = {} /\ LifeContent(v)' = LifeContent(v) /\ LifePlace(v)' = LifePlace(v)
    BY <1>1, OneBucket DEF LifeContent, LifePlace
  <1>3. /\ Phases' = [Phases EXCEPT ![v] = LifePhase(v)']
        /\ Places' = [Places EXCEPT ![v] = LifePlace(v)]
        /\ Contents' = [Contents EXCEPT ![v] = LifeContent(v)]
    BY <1>1, <1>2, OneLife
  <1>4. Places' = Places /\ Contents' = Contents
    BY <1>3 DEF Places, Contents
  <1>5. CASE rows[v] # NoRow
    <2>1. LifePhase(v)' = LifePhase(v)
      BY <1>5 DEF LifePhase
    <2>2. Phases' = Phases
      BY <1>3, <2>1 DEF Phases
    <2>3. QED
      BY <1>4, <2>2 DEF Life!lifeVars, Phases, Places, Contents
  <1>6. CASE rows[v] = NoRow
    <2>1. LifePhase(v) = "none" /\ LifePhase(v)' = "discarded" /\ LifePlace(v) = NoConfig
      BY <1>1, <1>6, OneBucket DEF LifePhase, LifePlace
    <2>2. Places = [Places EXCEPT ![v] = NoConfig]
      BY <2>1 DEF Places
    <2>3. Phases[v] = "none" /\ Contents[v] = {}
      BY <1>2, <2>1 DEF Phases, Contents
    <2>4. Life!Discard(v)
      BY <1>3, <1>4, <2>1, <2>2, <2>3 DEF Life!Discard, Phases, Places, Contents
    <2>5. QED
      BY <2>4 DEF Life!LifeNext
  <1>7. QED
    BY <1>5, <1>6

\* deleteVideo: only after the upload was aborted, so no content goes.
LEMMA LifeDeleteVideo ==
    ASSUME HandlerInv, CoreType, NEW r \in Requests, DeleteVideo(r)
    PROVE  [Life!LifeNext]_(Life!lifeVars)
  <1>0. PICK v, c : v = req[r].video /\ c = req[r].row.config
    OBVIOUS
  <1>1. /\ v \in Videos /\ c \in Configs /\ mpu[c][v] = "aborted"
        /\ UNCHANGED <<mpu, objects, acked>>
    <2>1. req[r].row \in Row
      BY ActiveRequest
         DEF DeleteVideo, At, CoreType, HandlerInv, RequestInv, HolderOK, HoldsRow
    <2>2. QED
      BY <1>0, <2>1, ActiveRequest
         DEF DeleteVideo, At, CoreType, HandlerInv, RequestInv, HolderOK, HoldsRow, storeVars, Row
  <1>2. CASE UNCHANGED rows
    BY <1>1, <1>2, LifeStutter
  <1>3. CASE rows' = [rows EXCEPT ![v] = NoRow]
    <2>1. rows'[v] = NoRow /\ \A w \in Videos \ {v} : rows'[w] = rows[w]
      BY <1>1, <1>3 DEF CoreType, RowsType
    <2>2. /\ LifeContent(v) = {} /\ LifeContent(v)' = LifeContent(v)
          /\ rows[v] # NoRow => rows[v].config = c
      BY <1>1, OneBucket DEF LifeContent
    <2>3. LifePhase(v)' = "discarded" /\ LifePlace(v)' = NoConfig
      BY <1>1, <2>1 DEF LifePhase, LifePlace
    <2>4. /\ Phases' = [Phases EXCEPT ![v] = "discarded"]
          /\ Places' = [Places EXCEPT ![v] = NoConfig]
          /\ Contents' = [Contents EXCEPT ![v] = LifeContent(v)]
      BY <1>1, <2>1, <2>2, <2>3, OneLife
    <2>5. Contents' = Contents /\ Contents[v] = {}
      BY <1>1, <2>2, <2>4 DEF Contents
    <2>6. CASE rows[v] = NoRow
      <3>1. LifePhase(v) = "discarded" /\ LifePlace(v) = NoConfig
        BY <1>1, <2>6 DEF LifePhase, LifePlace
      <3>2. Phases' = Phases /\ Places' = Places
        BY <2>4, <3>1 DEF Phases, Places
      <3>3. QED
        BY <1>1, <2>5, <3>2 DEF Life!lifeVars, Phases, Places, Contents
    <2>7. CASE rows[v] # NoRow
      <3>1. LifePhase(v) = "uploading"
        BY <1>1, <2>2, <2>7 DEF LifePhase, HandlerInv, RowInv
      <3>2. Phases[v] = "uploading"
        BY <1>1, <3>1 DEF Phases
      <3>3. Life!Discard(v)
        BY <1>1, <2>4, <2>5, <3>2 DEF Life!Discard, Phases, Places, Contents
      <3>4. QED
        BY <1>1, <3>3 DEF Life!LifeNext
    <2>8. QED
      BY <2>6, <2>7
  <1>4. QED
    BY <1>0, <1>2, <1>3 DEF DeleteVideo

\* CompleteMultipartUpload: it takes an open upload, so nothing was assembled
\* before and the row is there.
LEMMA LifeCompleteUpload ==
    ASSUME HandlerInv, CoreType, NEW r \in Requests, CompleteUpload(r)
    PROVE  [Life!LifeNext]_(Life!lifeVars)
  <1>0. PICK v, c, P : v = req[r].video /\ c = req[r].row.config /\ P = req[r].in.parts
    OBVIOUS
  <1>1. /\ v \in Videos /\ c \in Configs /\ P \in SUBSET Parts /\ P # {}
        /\ rows[v] = NoRow => mpu[c][v] = "aborted"
        /\ UNCHANGED <<rows, acked>>
    <2>1. req[r].row \in Row /\ req[r].in \in Payload /\ req[r].in.parts # {}
      BY ActiveRequest
         DEF CompleteUpload, At, CoreType, HandlerInv, RequestInv, HolderOK, HoldsRow
    <2>2. QED
      BY <1>0, <2>1, ActiveRequest
         DEF CompleteUpload, At, CoreType, HandlerInv, RequestInv, HolderOK, HoldsRow, dbVars,
             Row, Payload
  <1>2. CASE UNCHANGED <<mpu, objects>>
    BY <1>1, <1>2, LifeStutter
  <1>3. CASE CompleteMultipart(c, v, P)
    <2>1. /\ mpu[c][v] = "open" /\ mpu'[c][v] = "completed" /\ objects'[c][v] = P
          /\ \A w \in Videos, d \in Configs :
                w # v \/ d # c => mpu'[d][w] = mpu[d][w] /\ objects'[d][w] = objects[d][w]
      BY <1>1, <1>3 DEF CompleteMultipart, CoreType, MpuStates
    <2>2. LifeContent(v) = {} /\ rows[v] # NoRow /\ rows[v].config = c
      BY <1>1, <2>1, OneBucket
    <2>3. rows[v].status # "complete" /\ \A d \in Configs \ {c} : objects[d][v] = {}
      BY <1>1, <2>1, <2>2 DEF HandlerInv, RowInv, StoreInv
    <2>4. /\ LifePhase(v) = "uploading" /\ LifePhase(v)' = "uploading"
          /\ LifePlace(v)' = LifePlace(v)
      BY <1>1, <2>2, <2>3 DEF LifePhase, LifePlace
    <2>5. LifeContent(v)' = P
      <3>1. \A d \in Configs : objects'[d][v] = IF d = c THEN P ELSE {}
        BY <1>1, <2>1, <2>3
      <3>2. UNION {objects'[d][v] : d \in Configs} = P
        BY <1>1, <3>1
      <3>3. QED
        BY <3>2 DEF LifeContent
    <2>6. /\ Phases' = [Phases EXCEPT ![v] = LifePhase(v)]
          /\ Places' = [Places EXCEPT ![v] = LifePlace(v)]
          /\ Contents' = [Contents EXCEPT ![v] = P]
      BY <1>1, <2>1, <2>4, <2>5, OneLife
    <2>7. /\ Phases' = Phases /\ Places' = Places
          /\ Phases[v] = "uploading" /\ Contents[v] = {}
      BY <1>1, <2>2, <2>4, <2>6 DEF Phases, Places, Contents
    <2>8. Life!Assemble(v, P)
      BY <1>1, <2>6, <2>7 DEF Life!Assemble, Phases, Places, Contents
    <2>9. QED
      BY <1>1, <2>8 DEF Life!LifeNext
  <1>4. QED
    BY <1>0, <1>2, <1>3 DEF CompleteUpload

\* A write that keeps the status and the bucket of a row keeps its life.
LEMMA LifeUpdate ==
    ASSUME CoreType, NEW v \in Videos, NEW row \in Row, UpdateRow(v, row),
           rows[v] # NoRow => row.status = rows[v].status /\ row.config = rows[v].config,
           UNCHANGED <<mpu, objects, acked>>
    PROVE  UNCHANGED Life!lifeVars
  <1>1. /\ \A w \in Videos \ {v} : rows'[w] = rows[w]
        /\ rows'[v] = IF rows[v] = NoRow THEN NoRow ELSE row
    BY DEF UpdateRow, CoreType, RowsType
  <1>2. row # NoRow
    BY SentinelAssumption
  <1>3. /\ LifePhase(v)' = LifePhase(v) /\ LifePlace(v)' = LifePlace(v)
        /\ LifeContent(v)' = LifeContent(v)
    BY <1>1, <1>2 DEF LifePhase, LifePlace, LifeContent
  <1>4. \A w \in Videos : /\ LifePhase(w)' = LifePhase(w)
                          /\ LifePlace(w)' = LifePlace(w)
                          /\ LifeContent(w)' = LifeContent(w)
    BY <1>1, <1>3, LifeKept
  <1>5. QED
    BY <1>4 DEF Life!lifeVars

\* The client of a published recording is told, now or again.
LEMMA LifeTell ==
    ASSUME NEW v \in Videos, LifePhase(v) = "published",
           UNCHANGED <<rows, mpu, objects>>, acked' = acked \cup {v}
    PROVE  [Life!LifeNext]_(Life!lifeVars)
  <1>1. \A w \in Videos : /\ LifePhase(w)' = LifePhase(w)
                          /\ LifePlace(w)' = LifePlace(w)
                          /\ LifeContent(w)' = LifeContent(w)
    BY LifeKept
  <1>2. Life!Tell(v)
    BY <1>1 DEF Life!Tell
  <1>3. QED
    BY <1>2 DEF Life!LifeNext

\* markVideoComplete: the content is there, and the row.
LEMMA LifeMarkComplete ==
    ASSUME HandlerInv, CoreType, NEW r \in Requests, MarkComplete(r)
    PROVE  [Life!LifeNext]_(Life!lifeVars)
  <1>0. PICK v, c : v = req[r].video /\ c = req[r].row.config
    OBVIOUS
  <1> DEFINE row == [rows[v] EXCEPT !.status = "complete"]
  <1>1. /\ v \in Videos /\ c \in Configs /\ rows[v] # NoRow /\ rows[v] \in Row
        /\ mpu[c][v] = "completed" /\ UNCHANGED <<mpu, objects>>
        /\ UpdateRow(v, row) \/ UNCHANGED <<rows, acked>>
        /\ acked' = acked \/ acked' = acked \cup {v}
    <2>1. req[r].row \in Row
      BY ActiveRequest
         DEF MarkComplete, At, CoreType, HandlerInv, RequestInv, HolderOK, HoldsRow
    <2>2. QED
      BY <1>0, <2>1, ActiveRequest
         DEF MarkComplete, At, CoreType, HandlerInv, RequestInv, HolderOK, HoldsRow, storeVars,
             Row, RowsType
  <1>2. CASE UNCHANGED <<rows, acked>>
    BY <1>1, <1>2, LifeStutter
  <1>3. CASE UpdateRow(v, row)
    <2>1. row \in Row /\ row.status = "complete" /\ row.config = rows[v].config
      BY <1>1 DEF Row
    <2>2. rows' = [rows EXCEPT ![v] = row]
      BY <1>1, <1>3 DEF UpdateRow
    <2>3. rows[v].status = "complete" => row = rows[v]
      BY <1>1 DEF Row
    <2> HIDE DEF row
    <2>4. CASE rows[v].status = "complete"
      <3>1. UNCHANGED rows
        BY <1>1, <2>2, <2>3, <2>4 DEF CoreType, RowsType
      <3>2. LifePhase(v) = "published"
        BY <1>1, <2>4 DEF LifePhase
      <3>3. QED
        BY <1>1, <3>1, <3>2, LifeTell, LifeStutter
    <2>5. CASE rows[v].status # "complete"
      <3>1. rows'[v] = row /\ row # NoRow /\ \A w \in Videos \ {v} : rows'[w] = rows[w]
        BY <1>1, <2>1, <2>2, SentinelAssumption DEF CoreType, RowsType
      <3>2. /\ LifePhase(v) = "uploading" /\ LifePhase(v)' = "published"
            /\ LifePlace(v)' = LifePlace(v)
            /\ LifeContent(v) # {} /\ LifeContent(v)' = LifeContent(v)
        BY <1>1, <2>1, <2>5, <3>1, OneBucket DEF LifePhase, LifePlace, LifeContent
      <3>3. /\ Phases' = [Phases EXCEPT ![v] = "published"]
            /\ Places' = [Places EXCEPT ![v] = LifePlace(v)]
            /\ Contents' = [Contents EXCEPT ![v] = LifeContent(v)]
        BY <1>1, <3>1, <3>2, OneLife
      <3>4. /\ Places' = Places /\ Contents' = Contents
            /\ Phases[v] = "uploading" /\ Contents[v] # {}
        BY <1>1, <3>2, <3>3 DEF Phases, Places, Contents
      <3>5. Life!Publish(v)
        BY <1>1, <3>3, <3>4 DEF Life!Publish, Phases, Places, Contents
      <3>6. QED
        BY <1>1, <3>5 DEF Life!LifeNext
    <2>6. QED
      BY <2>4, <2>5
  <1>4. QED
    BY <1>1, <1>2, <1>3

\* createUpload opens an upload of a fresh id: that recording has no row and
\* no aborted upload, and still has no life.
LEMMA LifeCreateUpload ==
    ASSUME HandlerInv, CoreType, NEW r \in Requests, CreateUpload(r)
    PROVE  UNCHANGED Life!lifeVars
  <1>1. UNCHANGED <<rows, objects, acked>>
    BY DEF CreateUpload
  <1>2. CASE UNCHANGED mpu
    BY <1>1, <1>2, LifeStutter
  <1>3. CASE ~UNCHANGED mpu
    <2>0. PICK c : c = req[r].config
      OBVIOUS
    <2>1. PICK v \in Videos \ ids : c = req[r].config /\ OpenUpload(c, v) /\ c # NoConfig
      BY <1>3, <2>0 DEF CreateUpload
    <2>2. c \in Configs
      BY <2>1, ActiveRequest DEF CreateUpload, At, CoreType
    <2>3. \A d \in Configs, w \in Videos :
             mpu'[d][w] = "aborted" <=> mpu[d][w] = "aborted"
      BY <2>1, <2>2 DEF OpenUpload, CoreType, HandlerInv, StoreInv
    <2>4. \A w \in Videos : /\ LifePhase(w)' = LifePhase(w)
                            /\ LifePlace(w)' = LifePlace(w)
                            /\ LifeContent(w)' = LifeContent(w)
      BY <1>1, <2>3 DEF LifePhase, LifePlace, LifeContent
    <2>5. QED
      BY <1>1, <2>4 DEF Life!lifeVars
  <1>4. QED
    BY <1>2, <1>3

\* One step per action that changes what the abstract life shows.
LEMMA LifeStep ==
    ASSUME HandlerInv, TypeOK, [Next]_vars
    PROVE  [Life!LifeNext]_(Life!lifeVars)
  <1> CoreType
    BY CoreTyped
  <1>1. CASE UNCHANGED vars \/ PutPart \/ PutAsset
    BY <1>1, LifeStutter DEF vars, PutPart, PutAsset, dbVars
  <1>2. ASSUME NEW r \in Requests, Step(r)
        PROVE  [Life!LifeNext]_(Life!lifeVars)
    <2> DEFINE q == req[r]
    <2>t. ASSUME q # Idle
          PROVE  /\ q.video \in Videos /\ q.in \in Payload /\ q.row \in Row \cup {NoRow}
                 /\ q.hash \in Hashes \cup {NoHash}
                 /\ CreatorOK(q) /\ HolderOK(q)
                 /\ rows[q.video] # NoRow => rows[q.video] \in Row
      BY <2>t, ActiveRequest DEF CoreType, HandlerInv, RequestInv, RowsType
    <2>1. CASE UNCHANGED <<rows, mpu, objects, acked>>
      BY <2>1, LifeStutter
    <2>2. CASE CreateUpload(r)
      BY <2>2, LifeCreateUpload
    <2>3. CASE CreateVideo(r)
      BY <2>3, LifeCreateVideo
    <2>4. CASE AbortOrphan(r) \/ AbortUpload(r)
      <3>1. q.row \in Row /\ q.video \in Videos
        BY <2>4, <2>t DEF AbortOrphan, AbortUpload, At, CreatorOK, Creating, HolderOK, HoldsRow
      <3>2. q.row.config \in Configs
        BY <3>1 DEF Row
      <3>3. QED
        BY <2>1, <2>4, <3>1, <3>2, LifeAbort DEF AbortOrphan, AbortUpload, dbVars
    <2>5. CASE FindToComplete(r)
      <3>1. CASE /\ q # Idle /\ rows[q.video] # NoRow /\ rows[q.video].status = "complete"
                 /\ acked' = acked \cup {q.video} /\ UNCHANGED <<rows, mpu, objects>>
        <4>1. LifePhase(q.video) = "published"
          BY <3>1 DEF LifePhase
        <4>2. QED
          BY <2>t, <3>1, <4>1, LifeTell
      <3>2. QED
        BY <2>1, <2>5, <3>1 DEF FindToComplete, At, Owns, Proceed, dbVars, storeVars
    <2>6. CASE CompleteUpload(r)
      BY <2>6, LifeCompleteUpload
    <2>7. CASE MarkComplete(r)
      BY <2>7, LifeMarkComplete
    <2>8. CASE DeleteVideo(r)
      BY <2>8, LifeDeleteVideo
    <2>9. CASE SetName(r) \/ SetPrivacy(r) \/ ArchiveVideo(r)
      <3>1. /\ q # Idle /\ UNCHANGED <<mpu, objects, acked>>
            /\ \/ UNCHANGED rows
               \/ UpdateRow(q.video, [rows[q.video] EXCEPT !.name = q.in.name])
               \/ UpdateRow(q.video, [rows[q.video] EXCEPT !.privacy = q.in.privacy,
                                                           !.hash = q.hash])
               \/ UpdateRow(q.video, [rows[q.video] EXCEPT !.archived = TRUE])
        BY <2>9 DEF SetName, SetPrivacy, ArchiveVideo, At, storeVars
      <3>2. /\ q.in.name \in Names /\ q.in.privacy \in Privacy
        BY <2>t, <3>1 DEF Payload
      <3>3. CASE rows[q.video] = NoRow
        <4>1. UNCHANGED rows
          BY <2>t, <3>1, <3>3 DEF UpdateRow, CoreType, RowsType
        <4>2. QED
          BY <2>1, <3>1, <4>1
      <3>4. CASE rows[q.video] # NoRow
        <4> DEFINE row == rows[q.video]
        <4>1. /\ row \in Row /\ q.video \in Videos
              /\ UNCHANGED rows \/ \E new \in Row : /\ UpdateRow(q.video, new)
                                                    /\ new.status = row.status
                                                    /\ new.config = row.config
          <5>1. row \in Row /\ q.video \in Videos
            BY <2>t, <3>1, <3>4
          <5> DEFINE a == [row EXCEPT !.name = q.in.name]
                     b == [row EXCEPT !.privacy = q.in.privacy, !.hash = q.hash]
                     d == [row EXCEPT !.archived = TRUE]
          <5>2. a \in Row /\ a.status = row.status /\ a.config = row.config
            BY <3>2, <5>1 DEF Row
          <5>3. b \in Row /\ b.status = row.status /\ b.config = row.config
            BY <2>t, <3>1, <3>2, <5>1 DEF Row
          <5>4. d \in Row /\ d.status = row.status /\ d.config = row.config
            BY <5>1 DEF Row
          <5>5. UNCHANGED rows \/ \E new \in {a, b, d} : UpdateRow(q.video, new)
            BY <3>1
          <5> HIDE DEF a, b, d
          <5>6. QED
            BY <5>1, <5>2, <5>3, <5>4, <5>5
        <4>2. QED
          BY <2>1, <3>1, <4>1, LifeUpdate
      <3>5. QED
        BY <3>3, <3>4
    <2>10. QED
      BY <1>2, <2>1, <2>2, <2>3, <2>4, <2>5, <2>6, <2>7, <2>8, <2>9
         DEF Step, Receive, Authenticate, Interrupt, Refuse, TestStorage, SetConfig, SignPart,
             SignAsset, ObjectExists, FindToAbort, FindToRename, FindToSetPrivacy,
             FindToArchive, Proceed, dbVars, storeVars
  <1>3. QED
    BY <1>1, <1>2 DEF Next

\* The server implements RecordingLifecycle: whatever requests run at once and
\* wherever they fail, a recording is begun in one bucket, assembled at most
\* once, then published or discarded and never both, and a client that is told
\* it is published is told the truth.
THEOREM ServerImplementsLifecycle == Spec => ImplementsLifecycle
<1>1. Init => Life!LifeInit
  <2> SUFFICES ASSUME Init
               PROVE  Life!LifeInit
    OBVIOUS
  <2>1. ASSUME NEW v \in Videos
        PROVE  LifePhase(v) = "none" /\ LifePlace(v) = NoConfig /\ LifeContent(v) = {}
    <3>1. rows[v] = NoRow /\ \A c \in Configs : mpu[c][v] = "none" /\ objects[c][v] = {}
      BY DEF Init
    <3>2. UNION {objects[c][v] : c \in Configs} = {}
      BY <3>1
    <3>3. QED
      BY <3>1, <3>2 DEF LifePhase, LifePlace, LifeContent
  <2>2. QED
    BY <2>1 DEF Life!LifeInit, Init
<1>2. HandlerInv /\ TypeOK /\ [Next]_vars => [Life!LifeNext]_(Life!lifeVars)
  BY LifeStep
<1>3. QED
  BY <1>1, <1>2, HandlersConsistent, TypeCorrect, PTL
     DEF Spec, ImplementsLifecycle, Life!LifeSpec

-----------------------------------------------------------------------------
(***************************************************************************)
(* The playback API, for any recordings, browsers, passwords and requests at *)
(* once.                                                                   *)
(***************************************************************************)
Distinct(s) == \A i, j \in DOMAIN s : s[i] = s[j] => i = j

\* The list after a hash that it has was given again, and after a new one.
LEMMA RemovedAt ==
    ASSUME NEW S, NEW s \in Seq(S), NEW j \in 1 .. Len(s)
    PROVE  LET w == Playback!RemoveAt(s, j)
           IN  /\ w \in Seq(S) /\ Len(w) = Len(s) - 1
               /\ \A i \in 1 .. Len(s) - 1 : w[i] = IF i < j THEN s[i] ELSE s[i + 1]
  <1> DEFINE a == SubSeq(s, 1, j - 1)
             b == SubSeq(s, j + 1, Len(s))
  <1>1. /\ a \in Seq(S) /\ Len(a) = j - 1 /\ \A i \in 1 .. j - 1 : a[i] = s[i]
        /\ b \in Seq(S) /\ Len(b) = Len(s) - j /\ \A i \in 1 .. Len(s) - j : b[i] = s[j + i]
    OBVIOUS
  <1>0. Len(s) \in Nat /\ j \in Int
    OBVIOUS
  <1>2. Playback!RemoveAt(s, j) = a \o b
    BY DEF Playback!RemoveAt
  <1> HIDE DEF a, b
  <1>3. /\ a \o b \in Seq(S) /\ Len(a \o b) = Len(a) + Len(b)
        /\ \A i \in 1 .. Len(a) + Len(b) : (a \o b)[i] = IF i <= Len(a) THEN a[i] ELSE b[i - Len(a)]
    BY <1>1, ConcatProperties
  <1>4. ASSUME NEW i \in 1 .. Len(s) - 1
        PROVE  (a \o b)[i] = IF i < j THEN s[i] ELSE s[i + 1]
    <2>1. CASE i < j
      BY <1>1, <1>3, <2>1, SMTT(30)
    <2>2. CASE i >= j
      <3>1. (a \o b)[i] = b[i - (j - 1)] /\ i - (j - 1) \in 1 .. Len(s) - j
        BY <1>1, <1>3, <2>2, SMTT(30)
      <3>2. b[i - (j - 1)] = s[j + (i - (j - 1))] /\ j + (i - (j - 1)) = i + 1
        BY <1>1, <3>1
      <3> QED
        BY <1>0, <2>2, <3>1, <3>2
    <2>3. i < j \/ i >= j
      BY <1>0
    <2> QED
      BY <2>1, <2>2, <2>3
  <1> QED
    BY <1>0, <1>1, <1>2, <1>3, <1>4

\* The list after a hash that it has was given again.
LEMMA MovedAgain ==
    ASSUME NEW S, NEW s \in Seq(S), Distinct(s), NEW j \in 1 .. Len(s)
    PROVE  LET m == Playback!MovedToEnd(s, s[j])
           IN  /\ m \in Seq(S) /\ Len(m) = Len(s) /\ m[Len(s)] = s[j]
               /\ \A i \in 1 .. Len(s) - 1 : m[i] = IF i < j THEN s[i] ELSE s[i + 1]
  <1> DEFINE w == Playback!RemoveAt(s, j)
  <1>1. s[j] \in Playback!ToSet(s) /\ (CHOOSE i \in DOMAIN s : s[i] = s[j]) = j /\ s[j] \in S
    BY DEF Playback!ToSet, Distinct
  <1>2. Playback!MovedToEnd(s, s[j]) = Append(w, s[j])
    BY <1>1 DEF Playback!MovedToEnd
  <1>3. /\ w \in Seq(S) /\ Len(w) = Len(s) - 1
        /\ \A i \in 1 .. Len(s) - 1 : w[i] = IF i < j THEN s[i] ELSE s[i + 1]
    BY RemovedAt
  <1> HIDE DEF w
  <1> QED
    BY <1>1, <1>2, <1>3

\* The list after a hash that it does not have.
LEMMA MovedFirst ==
    ASSUME NEW S, NEW s \in Seq(S), NEW h \in S, h \notin Playback!ToSet(s)
    PROVE  LET m == Playback!MovedToEnd(s, h)
           IN  /\ m \in Seq(S) /\ Len(m) = Len(s) + 1 /\ m[Len(s) + 1] = h
               /\ \A i \in 1 .. Len(s) : m[i] = s[i]
  BY DEF Playback!MovedToEnd

\* Either way the list has the hash once, and the others that it had.
LEMMA MovedKeeps ==
    ASSUME NEW S, NEW s \in Seq(S), Distinct(s), NEW h \in S
    PROVE  LET m == Playback!MovedToEnd(s, h)
           IN  /\ m \in Seq(S) /\ Distinct(m) /\ Len(m) > 0
               /\ Playback!ToSet(m) = Playback!ToSet(s) \cup {h}
  <1> DEFINE m == Playback!MovedToEnd(s, h)
  <1>1. CASE h \notin Playback!ToSet(s)
    <2>1. /\ m \in Seq(S) /\ Len(m) = Len(s) + 1 /\ m[Len(s) + 1] = h
          /\ \A i \in 1 .. Len(s) : m[i] = s[i]
      BY <1>1, MovedFirst
    <2> HIDE DEF m
    <2>2. DOMAIN m = 1 .. Len(s) + 1 /\ DOMAIN s = 1 .. Len(s) /\ Len(s) \in Nat
      BY <2>1
    <2>3. Distinct(m)
      <3> SUFFICES ASSUME NEW i \in 1 .. Len(s) + 1, NEW k \in 1 .. Len(s) + 1, m[i] = m[k]
                   PROVE  i = k
        BY <2>2 DEF Distinct
      <3>1. CASE i \in 1 .. Len(s) /\ k \in 1 .. Len(s)
        BY <2>1, <2>2, <3>1 DEF Distinct
      <3>2. CASE i \in 1 .. Len(s) /\ k = Len(s) + 1
        BY <1>1, <2>1, <2>2, <3>2 DEF Playback!ToSet
      <3>3. CASE k \in 1 .. Len(s) /\ i = Len(s) + 1
        BY <1>1, <2>1, <2>2, <3>3 DEF Playback!ToSet
      <3> QED
        BY <2>2, <3>1, <3>2, <3>3
    <2>4. Playback!ToSet(m) = Playback!ToSet(s) \cup {h}
      <3>1. ASSUME NEW i \in DOMAIN m PROVE m[i] \in Playback!ToSet(s) \cup {h}
        BY <2>1, <2>2 DEF Playback!ToSet
      <3>2. ASSUME NEW i \in DOMAIN s PROVE s[i] \in Playback!ToSet(m)
        BY <2>1, <2>2 DEF Playback!ToSet
      <3>3. h \in Playback!ToSet(m)
        BY <2>1, <2>2 DEF Playback!ToSet
      <3> QED
        BY <3>1, <3>2, <3>3 DEF Playback!ToSet
    <2> QED
      BY <2>1, <2>2, <2>3, <2>4 DEF m
  <1>2. CASE h \in Playback!ToSet(s)
    <2>1. PICK j \in 1 .. Len(s) : s[j] = h
      BY <1>2 DEF Playback!ToSet
    <2>2. /\ m \in Seq(S) /\ Len(m) = Len(s) /\ m[Len(s)] = h
          /\ \A i \in 1 .. Len(s) - 1 : m[i] = IF i < j THEN s[i] ELSE s[i + 1]
      BY <2>1, MovedAgain
    <2> HIDE DEF m
    <2>3. DOMAIN m = 1 .. Len(s) /\ DOMAIN s = 1 .. Len(s) /\ Len(s) \in Nat
      BY <2>2
    <2> DEFINE n == Len(s)
               place(i) == IF i = n THEN j ELSE IF i < j THEN i ELSE i + 1
    <2> HIDE DEF n
    <2>0. n \in Nat /\ j \in 1 .. n
      BY <2>3 DEF n
    <2>4. \A i \in 1 .. n : m[i] = s[place(i)] /\ place(i) \in 1 .. n
      <3> SUFFICES ASSUME NEW i \in 1 .. n PROVE m[i] = s[place(i)] /\ place(i) \in 1 .. n
        OBVIOUS
      <3>1. CASE i = n
        BY <2>0, <2>1, <2>2, <3>1 DEF n
      <3>2. CASE i # n
        <4>1. i \in 1 .. Len(s) - 1
          BY <2>0, <3>2 DEF n
        <4>2. m[i] = s[place(i)]
          BY <2>2, <3>2, <4>1
        <4>3. place(i) \in 1 .. n
          BY <2>0, <3>2
        <4> QED
          BY <4>2, <4>3
      <3> QED
        BY <3>1, <3>2
    <2>5. Distinct(m)
      <3> SUFFICES ASSUME NEW i \in 1 .. n, NEW k \in 1 .. n, m[i] = m[k]
                   PROVE  i = k
        BY <2>3 DEF Distinct, n
      <3>1. place(i) = place(k)
        <4> HIDE DEF place
        <4> QED
          BY <2>3, <2>4 DEF Distinct, n
      <3> QED
        BY <2>0, <3>1
    <2>6. \A k \in 1 .. n : \E i \in 1 .. n : place(i) = k
      <3> SUFFICES ASSUME NEW k \in 1 .. n PROVE \E i \in 1 .. n : place(i) = k
        OBVIOUS
      <3>1. CASE k < j
        <4>1. place(k) = k
          BY <2>0, <3>1
        <4> QED
          BY <4>1
      <3>2. CASE k = j
        <4>1. place(n) = k /\ n \in 1 .. n
          BY <2>0, <3>2
        <4> QED
          BY <4>1
      <3>3. CASE k > j
        <4>1. place(k - 1) = k /\ k - 1 \in 1 .. n
          BY <2>0, <3>3
        <4> QED
          BY <4>1
      <3> QED
        BY <2>0, <3>1, <3>2, <3>3
    <2> HIDE DEF place
    <2>7. Playback!ToSet(m) = Playback!ToSet(s)
      <3>1. DOMAIN m = 1 .. n /\ DOMAIN s = 1 .. n
        BY <2>3 DEF n
      <3>2. ASSUME NEW i \in 1 .. n PROVE m[i] \in {s[k] : k \in 1 .. n}
        BY <2>4
      <3>3. ASSUME NEW k \in 1 .. n PROVE s[k] \in {m[i] : i \in 1 .. n}
        <4>1. PICK i \in 1 .. n : place(i) = k
          BY <2>6
        <4> QED
          BY <2>4, <4>1
      <3> QED
        BY <3>1, <3>2, <3>3 DEF Playback!ToSet
    <2> QED
      BY <1>2, <2>1, <2>2, <2>3, <2>5, <2>7 DEF m
  <1> QED
    BY <1>1, <1>2

\* What is left of a list in the cookie.
LEMMA LastOfList ==
    ASSUME Playback!ViewingAssumption, NEW S, NEW s \in Seq(S)
    PROVE  LET t == Playback!LastOf(s)
           IN  /\ t \in Seq(S) /\ Len(t) <= MAX_VERIFIED_HASHES
               /\ Len(s) <= MAX_VERIFIED_HASHES => t = s
               /\ Len(s) > MAX_VERIFIED_HASHES =>
                     /\ Len(t) = MAX_VERIFIED_HASHES
                     /\ \A i \in 1 .. MAX_VERIFIED_HASHES : t[i] = s[Len(s) - MAX_VERIFIED_HASHES + i]
  <1>1. MAX_VERIFIED_HASHES \in Nat /\ MAX_VERIFIED_HASHES > 0
    BY DEF Playback!ViewingAssumption
  <1>2. CASE Len(s) <= MAX_VERIFIED_HASHES
    <2>1. ~(Len(s) > MAX_VERIFIED_HASHES)
      BY <1>1, <1>2, LenProperties
    <2>2. Playback!LastOf(s) = SubSeq(s, 1, Len(s))
      BY <2>1 DEF Playback!LastOf
    <2> QED
      BY <1>1, <1>2, <2>1, <2>2, SubSeqFull
  <1>3. CASE Len(s) > MAX_VERIFIED_HASHES
    BY <1>1, <1>3 DEF Playback!LastOf
  <1> QED
    BY <1>1, <1>2, <1>3

\* The end of a list has no hash twice and none that the list does not have.
LEMMA LastKeeps ==
    ASSUME Playback!ViewingAssumption, NEW S, NEW s \in Seq(S), Distinct(s)
    PROVE  Distinct(Playback!LastOf(s)) /\ Playback!ToSet(Playback!LastOf(s)) \subseteq Playback!ToSet(s)
  <1> DEFINE t == Playback!LastOf(s)
  <1>1. MAX_VERIFIED_HASHES \in Nat /\ MAX_VERIFIED_HASHES > 0
    BY DEF Playback!ViewingAssumption
  <1>2. CASE Len(s) <= MAX_VERIFIED_HASHES
    BY <1>2, LastOfList
  <1>3. CASE Len(s) > MAX_VERIFIED_HASHES
    <2> DEFINE d == Len(s) - MAX_VERIFIED_HASHES
    <2>1. /\ t \in Seq(S) /\ Len(t) = MAX_VERIFIED_HASHES
          /\ \A i \in 1 .. MAX_VERIFIED_HASHES : t[i] = s[d + i]
      BY <1>3, LastOfList
    <2> HIDE DEF t
    <2>2. DOMAIN t = 1 .. MAX_VERIFIED_HASHES /\ DOMAIN s = 1 .. Len(s) /\ d \in Nat
      BY <1>1, <1>3, <2>1
    <2>3. \A i \in DOMAIN t : d + i \in DOMAIN s
      BY <1>1, <2>2
    <2> HIDE DEF d
    <2>4. Distinct(t)
      BY <1>1, <2>1, <2>2, <2>3 DEF Distinct
    <2> QED
      BY <2>1, <2>2, <2>3, <2>4 DEF Playback!ToSet, t
  <1> QED
    BY <1>1, <1>2, <1>3

\* Remembering in the cookie, which has lost the oldest, comes to the same as
\* remembering in the whole list.
LEMMA LastAfterMove ==
    ASSUME Playback!ViewingAssumption, NEW S, NEW p \in Seq(S), Distinct(p), NEW h \in S
    PROVE  Playback!LastOf(Playback!MovedToEnd(Playback!LastOf(p), h)) = Playback!LastOf(Playback!MovedToEnd(p, h))
  <1> DEFINE K == MAX_VERIFIED_HASHES
             n == Len(p)
             l == Playback!LastOf(p)
             a == Playback!MovedToEnd(l, h)
             b == Playback!MovedToEnd(p, h)
             x == Playback!LastOf(a)
             y == Playback!LastOf(b)
  <1>1. K \in Nat /\ K > 0 /\ n \in Nat
    BY LenProperties DEF Playback!ViewingAssumption
  <1> HIDE DEF n
  <1>2. CASE n <= K
    BY <1>2, LastOfList DEF n
  <1>3. CASE n > K
    <2>1. l \in Seq(S) /\ Len(l) = K /\ \A i \in 1 .. K : l[i] = p[n - K + i]
      BY <1>3, LastOfList DEF n
    <2>2. Distinct(l)
      BY LastKeeps
    <2>3. DOMAIN l = 1 .. K /\ DOMAIN p = 1 .. n
      BY <2>1 DEF n
    <2> HIDE DEF l
    <2>4. CASE h \notin Playback!ToSet(p)
      <3>1. h \notin Playback!ToSet(l)
        BY <1>1, <1>3, <2>1, <2>3, <2>4 DEF Playback!ToSet
      <3>2. a \in Seq(S) /\ Len(a) = K + 1 /\ a[K + 1] = h /\ \A i \in 1 .. K : a[i] = l[i]
        BY <2>1, <3>1, MovedFirst
      <3>3. b \in Seq(S) /\ Len(b) = n + 1 /\ b[n + 1] = h /\ \A i \in 1 .. n : b[i] = p[i]
        BY <2>4, MovedFirst DEF n
      <3> HIDE DEF a, b
      <3>4. x \in Seq(S) /\ Len(x) = K /\ \A i \in 1 .. K : x[i] = a[K + 1 - K + i]
        BY <1>1, <3>2, LastOfList
      <3>5. y \in Seq(S) /\ Len(y) = K /\ \A i \in 1 .. K : y[i] = b[n + 1 - K + i]
        <4>1. Len(b) > K
          BY <1>1, <1>3, <3>3
        <4>2. y \in Seq(S) /\ Len(y) = K /\ \A i \in 1 .. K : y[i] = b[Len(b) - K + i]
          BY <3>3, <4>1, LastOfList
        <4>3. Len(b) - K = n + 1 - K
          BY <1>1, <3>3
        <4> QED
          BY <4>2, <4>3
      <3> HIDE DEF x, y
      <3>6. ASSUME NEW i \in 1 .. K PROVE x[i] = y[i]
        <4>1. CASE i = K
          <5>1. x[K] = a[K + 1] /\ y[K] = b[n + 1]
            <6>1. K + 1 - K + K = K + 1 /\ n + 1 - K + K = n + 1 /\ K \in 1 .. K
              BY <1>1
            <6> QED
              BY <3>4, <3>5, <6>1
          <5> QED
            BY <3>2, <3>3, <4>1, <5>1
        <4>2. CASE i < K
          <5>1. x[i] = a[i + 1] /\ i + 1 \in 1 .. K
            BY <1>1, <3>4, <4>2
          <5>2. a[i + 1] = p[n - K + (i + 1)]
            BY <2>1, <3>2, <5>1
          <5>3. y[i] = b[n + 1 - K + i] /\ n + 1 - K + i \in 1 .. n
            BY <1>1, <1>3, <3>5, <4>2
          <5>4. b[n + 1 - K + i] = p[n + 1 - K + i] /\ n - K + (i + 1) = n + 1 - K + i
            BY <1>1, <3>3, <5>3
          <5> QED
            BY <5>1, <5>2, <5>3, <5>4
        <4> QED
          BY <1>1, <4>1, <4>2
      <3> QED
        BY <3>4, <3>5, <3>6, SeqEqual DEF x, y, a, b, l
    <2>5. CASE h \in Playback!ToSet(p)
      <3>1. PICK j \in 1 .. n : p[j] = h
        BY <2>3, <2>5 DEF Playback!ToSet
      <3>2. /\ b \in Seq(S) /\ Len(b) = n /\ b[n] = h
            /\ \A i \in 1 .. n - 1 : b[i] = IF i < j THEN p[i] ELSE p[i + 1]
        BY <3>1, MovedAgain DEF n
      <3> HIDE DEF b
      <3>3. y \in Seq(S) /\ Len(y) = K /\ \A i \in 1 .. K : y[i] = b[n - K + i]
        <4>1. Len(b) > K
          BY <1>1, <1>3, <3>2
        <4>2. y \in Seq(S) /\ Len(y) = K /\ \A i \in 1 .. K : y[i] = b[Len(b) - K + i]
          BY <3>2, <4>1, LastOfList, SMTT(30)
        <4> QED
          BY <3>2, <4>2
      <3> HIDE DEF y
      <3>4. \A i \in 1 .. K : y[i] = IF i = K THEN h ELSE IF n - K + i < j THEN p[n - K + i] ELSE p[n - K + i + 1]
        <4> SUFFICES ASSUME NEW i \in 1 .. K
                     PROVE  y[i] = IF i = K THEN h ELSE IF n - K + i < j THEN p[n - K + i] ELSE p[n - K + i + 1]
          OBVIOUS
        <4>1. y[i] = b[n - K + i]
          BY <3>3
        <4>2. (i # K => n - K + i \in 1 .. n - 1) /\ (i = K => n - K + i = n)
          BY <1>1, <1>3
        <4> QED
          BY <3>2, <4>1, <4>2
      <3>5. CASE j > n - K
        <4> DEFINE k == j - (n - K)
        <4>1. k \in 1 .. K /\ l[k] = h
          BY <1>1, <1>3, <2>1, <3>1, <3>5
        <4>2. /\ a \in Seq(S) /\ Len(a) = K /\ a[K] = h
              /\ \A i \in 1 .. K - 1 : a[i] = IF i < k THEN l[i] ELSE l[i + 1]
          <5> HIDE DEF k
          <5> QED
            BY <2>1, <2>2, <4>1, MovedAgain
        <4> HIDE DEF a
        <4>3. x = a
          BY <1>1, <4>2, LastOfList
        <4>4. ASSUME NEW i \in 1 .. K PROVE a[i] = y[i]
          <5>1. CASE i = K
            BY <1>1, <3>4, <4>2, <5>1
          <5>2. CASE i # K /\ i < k
            <6>1. a[i] = l[i] /\ l[i] = p[n - K + i] /\ n - K + i < j
              BY <1>1, <1>3, <2>1, <4>2, <5>2
            <6> QED
              BY <3>4, <5>2, <6>1
          <5>3. CASE i # K /\ ~(i < k)
            <6>1. i + 1 \in 1 .. K /\ i \in 1 .. K - 1 /\ ~(n - K + i < j) /\ n - K + (i + 1) = n - K + i + 1
              BY <1>1, <1>3, <5>3
            <6>2. a[i] = l[i + 1] /\ l[i + 1] = p[n - K + i + 1]
              BY <2>1, <4>2, <5>3, <6>1
            <6> QED
              BY <3>4, <5>3, <6>1, <6>2
          <5> QED
            BY <5>1, <5>2, <5>3
        <4> QED
          BY <3>3, <4>2, <4>3, <4>4, SeqEqual DEF x, y, a, b, l
      <3>6. CASE j <= n - K
        <4>1. h \notin Playback!ToSet(l)
          <5> SUFFICES ASSUME NEW i \in 1 .. K, l[i] = h PROVE FALSE
            BY <2>3 DEF Playback!ToSet
          <5>1. n - K + i \in 1 .. n /\ p[n - K + i] = p[j]
            BY <1>1, <1>3, <2>1, <3>1
          <5> QED
            BY <1>1, <2>3, <3>6, <5>1 DEF Distinct
        <4>2. a \in Seq(S) /\ Len(a) = K + 1 /\ a[K + 1] = h /\ \A i \in 1 .. K : a[i] = l[i]
          BY <2>1, <4>1, MovedFirst
        <4> HIDE DEF a
        <4>3. x \in Seq(S) /\ Len(x) = K /\ \A i \in 1 .. K : x[i] = a[K + 1 - K + i]
          BY <1>1, <4>2, LastOfList
        <4> HIDE DEF x
        <4>4. ASSUME NEW i \in 1 .. K PROVE x[i] = y[i]
          <5>1. CASE i = K
            BY <1>1, <3>4, <4>2, <4>3, <5>1
          <5>2. CASE i < K
            <6>1. x[i] = a[i + 1] /\ i + 1 \in 1 .. K /\ ~(n - K + i < j) /\ n - K + (i + 1) = n - K + i + 1
              BY <1>1, <1>3, <3>6, <4>3, <5>2
            <6>2. x[i] = p[n - K + i + 1]
              BY <2>1, <4>2, <6>1
            <6> QED
              BY <1>1, <3>4, <5>2, <6>1, <6>2
          <5> QED
            BY <1>1, <5>1, <5>2
        <4> QED
          BY <3>3, <4>3, <4>4, SeqEqual DEF x, y, a, b, l
      <3> QED
        BY <1>1, <3>5, <3>6
    <2> QED
      BY <2>4, <2>5
  <1> QED
    BY <1>1, <1>2, <1>3

-----------------------------------------------------------------------------
\* A recording with a password has a hash.
Secrets == \A v \in Watched : viewRows[v].privacy = "password" => viewRows[v].hash # Playback!NoPassword

\* No list has a hash twice, and a cookie has only hashes that its browser matched.
CookieLists ==
    \A b \in Browsers :
        /\ Distinct(cookie[b]) /\ Distinct(proved[b])
        /\ Playback!ToSet(cookie[b]) \subseteq Playback!ToSet(proved[b])

\* The same of the cookie that a request carries; and it goes on only with what
\* it was to find.
Carried ==
    \A r \in Visits :
        /\ Distinct(viewReq[r].cookie)
        /\ Playback!ToSet(viewReq[r].cookie) \subseteq Playback!ToSet(proved[viewReq[r].browser])
        /\ viewReq[r].step = "answer" => Playback!Found(viewReq[r], viewReq[r].row)
        /\ viewReq[r].step # "idle" => viewReq[r].answer = "none"

Unlocking(r) == viewReq[r].step # "idle" /\ viewReq[r].op = "unlock"

\* The one unlock that a browser has under way carries the cookie that it still has.
Single ==
    \A r \in Visits : Unlocking(r) /\ viewReq[r].browser \notin raced =>
        /\ viewReq[r].cookie = cookie[viewReq[r].browser]
        /\ \A q \in Visits : Unlocking(q) /\ viewReq[q].browser = viewReq[r].browser => q = r

RequestType ==
    [step : {"idle", "find", "answer"}, op : {"view", "playlist", "unlock", "privacy"},
     browser : Browsers, video : Watched, cookie : Seq(1..MaxHashes), typed : Passwords,
     keep : BOOLEAN, privacy : Playback!Privacies, row : Playback!Row, answer : Playback!Answers]

RowsInv ==
    /\ viewRows \in [Watched -> Playback!Row] /\ Secrets
    /\ password \in Seq(Passwords) /\ Len(password) <= MaxHashes
ListsInv ==
    /\ cookie \in [Browsers -> Seq(1..MaxHashes)] /\ proved \in [Browsers -> Seq(1..MaxHashes)]
    /\ \A b \in Browsers : Len(cookie[b]) <= MAX_VERIFIED_HASHES
    /\ raced \subseteq Browsers
    /\ CookieLists /\ Playback!CookieRemembersLast
RequestsInv ==
    viewReq \in [Visits -> RequestType] /\ Carried /\ Single /\ Playback!SourceIsAllowed
ViewInv == RowsInv /\ ListsInv /\ RequestsInv

\* A free slot is a request that does nothing.
LEMMA NoRequestType ==
    ASSUME Playback!ViewingAssumption
    PROVE  /\ Playback!NoRequest \in RequestType /\ Playback!NoRequest.step = "idle"
           /\ Playback!NoRequest.cookie = <<>> /\ Playback!NoRequest.answer = "none"
  <1>1. (CHOOSE v \in Watched : TRUE) \in Watched /\ (CHOOSE p \in Passwords : TRUE) \in Passwords
    BY DEF Playback!ViewingAssumption
  <1>2. [status |-> "uploading", privacy |-> "public", hash |-> Playback!NoPassword] \in Playback!Row
    BY DEF Playback!Row, Playback!NoPassword, Playback!Privacies, Playback!ViewingAssumption
  <1>3. <<>> \in Seq(1..MaxHashes)
    OBVIOUS
  <1> QED
    BY <1>1, <1>2, <1>3 DEF Playback!NoRequest, RequestType, Playback!Privacies, Playback!Answers, Playback!ViewingAssumption

\* A request that ends leaves its slot, and what a source was given for.
LEMMA RequestDone ==
    ASSUME Playback!ViewingAssumption, RequestsInv, NEW r \in Visits, NEW answer, Playback!Done(r, answer)
    PROVE  /\ viewReq' \in [Visits -> RequestType]
           /\ \A q \in Visits : q # r => viewReq'[q] = viewReq[q]
           /\ viewReq'[r].step = "idle" /\ viewReq'[r].cookie = <<>>
           /\ answer = "source" => /\ viewReq'[r].browser = viewReq[r].browser
                                   /\ viewReq'[r].row = viewReq[r].row
           /\ answer # "source" => viewReq'[r].answer = "none"
  <1> DEFINE n == Playback!NoRequest
             d == IF answer = "source"
                  THEN [n EXCEPT !.browser = viewReq[r].browser, !.row = viewReq[r].row, !.answer = answer]
                  ELSE n
  <1>1. /\ n \in RequestType /\ n.step = "idle" /\ n.cookie = <<>> /\ n.answer = "none"
    BY NoRequestType
  <1>2. viewReq' = [viewReq EXCEPT ![r] = d]
    BY DEF Playback!Done
  <1> HIDE DEF n
  <1>3. viewReq[r] \in RequestType /\ viewReq[r].browser \in Browsers /\ viewReq[r].row \in Playback!Row
    BY DEF RequestsInv, RequestType
  <1>4. /\ d \in RequestType /\ d.step = "idle" /\ d.cookie = <<>>
        /\ answer = "source" => d.browser = viewReq[r].browser /\ d.row = viewReq[r].row
        /\ answer # "source" => d.answer = "none"
    BY <1>1, <1>3 DEF RequestType, Playback!Answers
  <1> HIDE DEF d
  <1> QED
    BY <1>2, <1>4 DEF RequestsInv

\* Ending one without a new source is harmless while the cookies stay.
LEMMA DoneKeeps ==
    ASSUME Playback!ViewingAssumption, RequestsInv, ListsInv, NEW r \in Visits, NEW answer,
           Playback!Done(r, answer), UNCHANGED <<cookie, proved, raced>>,
           answer = "source" =>
              viewReq[r].row.status = "complete" /\ Playback!MayWatch(viewReq[r].browser, viewReq[r].row)
    PROVE  RequestsInv'
  <1>1. /\ viewReq' \in [Visits -> RequestType]
        /\ \A q \in Visits : q # r => viewReq'[q] = viewReq[q]
        /\ viewReq'[r].step = "idle" /\ viewReq'[r].cookie = <<>>
        /\ answer = "source" => /\ viewReq'[r].browser = viewReq[r].browser
                                /\ viewReq'[r].row = viewReq[r].row
        /\ answer # "source" => viewReq'[r].answer = "none"
    BY RequestDone
  <1>2. Carried'
    <2>1. Distinct(<<>>) /\ Playback!ToSet(<<>>) = {}
      BY DEF Distinct, Playback!ToSet
    <2> QED
      BY <1>1, <2>1, ZenonT(60) DEF RequestsInv, Carried, Playback!Found
  <1>3. Single'
    BY <1>1 DEF RequestsInv, Single, Unlocking
  <1>4. Playback!SourceIsAllowed'
    BY <1>1 DEF RequestsInv, Playback!SourceIsAllowed, Playback!MayWatch
  <1> QED
    BY <1>1, <1>2, <1>3, <1>4 DEF RequestsInv

\* markVideoComplete.
LEMMA CompleteStep ==
    ASSUME ViewInv, NEW v \in Watched, Playback!Complete(v)
    PROVE  ViewInv'
  <1>1. RowsInv'
    BY DEF ViewInv, RowsInv, Playback!Complete, Playback!Row, Secrets
  <1>2. ListsInv' /\ RequestsInv'
    BY DEF ViewInv, ListsInv, RequestsInv, Playback!Complete, CookieLists, Playback!CookieRemembersLast,
           Carried, Single, Unlocking, Playback!SourceIsAllowed, Playback!MayWatch
  <1> QED
    BY <1>1, <1>2 DEF ViewInv

\* A request is sent.
LEMMA SendStep ==
    ASSUME Playback!ViewingAssumption, ViewInv, NEW r \in Visits, NEW b \in Browsers, NEW v \in Watched,
           NEW in \in Playback!Payloads, Playback!Send(r, b, v, in)
    PROVE  ViewInv'
  <1> DEFINE n == Playback!NoRequest
             d == [n EXCEPT !.step = "find", !.op = in.op, !.browser = b, !.video = v,
                            !.cookie = cookie[b], !.typed = in.typed, !.keep = in.keep,
                            !.privacy = in.privacy]
  <1>1. n \in RequestType /\ n.answer = "none"
    BY NoRequestType
  <1>2. /\ viewReq[r].step = "idle" /\ viewReq' = [viewReq EXCEPT ![r] = d]
        /\ UNCHANGED <<viewRows, password, cookie, proved>>
    BY DEF Playback!Send
  <1>3. /\ in.op \in {"view", "playlist", "unlock", "privacy"} /\ in.typed \in Passwords
        /\ in.keep \in BOOLEAN /\ in.privacy \in Playback!Privacies
    <2>1. n.typed \in Passwords
      BY <1>1 DEF RequestType
    <2> HIDE DEF n
    <2>2. in.op \in {"view", "playlist", "unlock", "privacy"} /\ in.privacy \in Playback!Privacies
      BY DEF Playback!Payloads, Playback!Privacies
    <2>3. in.keep \in BOOLEAN
      BY DEF Playback!Payloads
    <2>4. in.typed \in Passwords
      BY <2>1 DEF Playback!Payloads, n
    <2> QED
      BY <2>2, <2>3, <2>4
  <1>4. /\ raced \subseteq raced' /\ raced' \subseteq Browsers
        /\ in.op = "unlock" /\ b \notin raced' =>
              \A q \in Visits : ~(Unlocking(q) /\ viewReq[q].browser = b)
    BY DEF ViewInv, ListsInv, Playback!Send, Unlocking
  <1> HIDE DEF n
  <1>5. /\ d \in RequestType /\ d.step = "find" /\ d.op = in.op /\ d.browser = b
        /\ d.cookie = cookie[b] /\ d.answer = "none"
    BY <1>1, <1>3 DEF RequestType, ViewInv, ListsInv
  <1> HIDE DEF d
  <1>6. /\ viewReq' \in [Visits -> RequestType] /\ viewReq'[r] = d
        /\ \A q \in Visits : q # r => viewReq'[q] = viewReq[q]
    BY <1>2, <1>5 DEF ViewInv, RequestsInv
  <1>7. RowsInv' /\ ListsInv'
    BY <1>2, <1>4 DEF ViewInv, RowsInv, ListsInv, Secrets, CookieLists, Playback!CookieRemembersLast
  <1>8. Carried'
    BY <1>2, <1>5, <1>6 DEF ViewInv, RequestsInv, ListsInv, Carried, CookieLists, Playback!Found
  <1>9. Single'
    <2> SUFFICES ASSUME NEW q \in Visits, Unlocking(q)', viewReq'[q].browser \notin raced'
                 PROVE  /\ viewReq'[q].cookie = cookie'[viewReq'[q].browser]
                        /\ \A p \in Visits : Unlocking(p)' /\ viewReq'[p].browser = viewReq'[q].browser
                              => p = q
      BY DEF Single
    <2>1. CASE q = r
      <3>1. in.op = "unlock" /\ viewReq'[q].browser = b /\ viewReq'[q].cookie = cookie[b]
        BY <1>5, <1>6, <2>1 DEF Unlocking
      <3>2. \A p \in Visits : ~(Unlocking(p) /\ viewReq[p].browser = b)
        BY <1>4, <3>1
      <3> QED
        BY <1>2, <1>6, <2>1, <3>1, <3>2 DEF Unlocking
    <2>2. CASE q # r
      <3>1. viewReq'[q] = viewReq[q] /\ Unlocking(q) /\ viewReq[q].browser \notin raced
        BY <1>4, <1>6, <2>2 DEF Unlocking
      <3>2. ~(Unlocking(r)' /\ viewReq'[r].browser = viewReq[q].browser)
        BY <1>4, <1>5, <1>6, <3>1 DEF Unlocking
      <3> QED
        BY <1>2, <1>6, <3>1, <3>2 DEF ViewInv, RequestsInv, Single, Unlocking
    <2> QED
      BY <2>1, <2>2
  <1>10. Playback!SourceIsAllowed'
    BY <1>2, <1>5, <1>6 DEF ViewInv, RequestsInv, Playback!SourceIsAllowed, Playback!MayWatch
  <1> QED
    BY <1>6, <1>7, <1>8, <1>9, <1>10 DEF ViewInv, RequestsInv

\* A request reads the row.
LEMMA FindStep ==
    ASSUME Playback!ViewingAssumption, ViewInv, NEW r \in Visits, Playback!Find(r)
    PROVE  ViewInv'
  <1> DEFINE row == viewRows[viewReq[r].video]
  <1>1. UNCHANGED <<viewRows, password, cookie, proved, raced>> /\ viewReq[r].step = "find"
    BY DEF Playback!Find
  <1>2. RowsInv' /\ ListsInv'
    BY <1>1 DEF ViewInv, RowsInv, ListsInv, Secrets, CookieLists, Playback!CookieRemembersLast
  <1>3. CASE ~Playback!Found(viewReq[r], row)
    <2>1. Playback!Done(r, "NotFound")
      BY <1>3 DEF Playback!Find
    <2> QED
      BY <1>1, <1>2, <2>1, DoneKeeps DEF ViewInv
  <1>4. CASE Playback!Found(viewReq[r], row)
    <2>1. viewReq' = [viewReq EXCEPT ![r].step = "answer", ![r].row = row]
      BY <1>4 DEF Playback!Find
    <2>2. row \in Playback!Row /\ viewReq[r] \in RequestType /\ viewReq \in [Visits -> RequestType]
      BY DEF ViewInv, RowsInv, RequestsInv, RequestType
    <2> DEFINE d == [viewReq[r] EXCEPT !.step = "answer", !.row = row]
    <2>3. viewReq' = [viewReq EXCEPT ![r] = d]
      BY <2>1, <2>2
    <2>4. /\ d \in RequestType /\ d.step = "answer" /\ d.op = viewReq[r].op /\ d.row = row
          /\ d.browser = viewReq[r].browser /\ d.cookie = viewReq[r].cookie /\ d.answer = viewReq[r].answer
      BY <2>2 DEF RequestType
    <2>5. Playback!Found(d, row)
      BY <1>4, <2>4 DEF Playback!Found
    <2> HIDE DEF d
    <2>6. /\ viewReq' \in [Visits -> RequestType] /\ viewReq'[r] = d
          /\ \A q \in Visits : q # r => viewReq'[q] = viewReq[q]
      BY <2>2, <2>3, <2>4
    <2>7. Carried'
      BY <1>1, <2>4, <2>5, <2>6 DEF ViewInv, RequestsInv, Carried
    <2>8. Single'
      <3>1. \A q \in Visits : /\ Unlocking(q)' = Unlocking(q) /\ viewReq'[q].browser = viewReq[q].browser
                                /\ viewReq'[q].cookie = viewReq[q].cookie
        BY <1>1, <2>4, <2>6 DEF Unlocking
      <3> QED
        BY <1>1, <3>1 DEF ViewInv, RequestsInv, Single
    <2>9. Playback!SourceIsAllowed'
      <3>1. viewReq[r].answer # "source"
        BY <1>1 DEF ViewInv, RequestsInv, Carried
      <3> QED
        BY <1>1, <2>4, <2>6, <3>1 DEF ViewInv, RequestsInv, Playback!SourceIsAllowed, Playback!MayWatch
    <2> QED
      BY <1>2, <2>6, <2>7, <2>8, <2>9 DEF ViewInv, RequestsInv
  <1> QED
    BY <1>3, <1>4

\* view and playlist answer.
LEMMA AnswerStep ==
    ASSUME Playback!ViewingAssumption, ViewInv, NEW r \in Visits, Playback!Answer(r)
    PROVE  ViewInv'
  <1> DEFINE q == viewReq[r]
             answer == IF q.op = "view" THEN Playback!ViewAnswer(q.browser = Owner, q.cookie, q.row)
                       ELSE Playback!PlaylistAnswer(q.browser = Owner, q.cookie, q.row)
  <1>1. /\ UNCHANGED <<viewRows, password, cookie, proved, raced>> /\ Playback!Done(r, answer)
        /\ q.step = "answer" /\ q.op \in {"view", "playlist"}
    BY DEF Playback!Answer
  <1>2. RowsInv' /\ ListsInv'
    BY <1>1 DEF ViewInv, RowsInv, ListsInv, Secrets, CookieLists, Playback!CookieRemembersLast
  <1>3. q.row.status = "complete"
    BY <1>1 DEF ViewInv, RequestsInv, Carried, Playback!Found
  <1>4. answer = "source" => Playback!MayWatch(q.browser, q.row)
    <2>1. Playback!ToSet(q.cookie) \subseteq Playback!ToSet(proved[q.browser])
      BY DEF ViewInv, RequestsInv, Carried
    <2> HIDE DEF q
    <2>2. answer = "source" => \/ q.browser = Owner \/ q.row.privacy = "public"
                               \/ q.row.privacy = "password" /\ Playback!Verified(q.cookie, q.row)
      BY DEF Playback!ViewAnswer, Playback!PlaylistAnswer
    <2> QED
      BY <2>1, <2>2 DEF Playback!MayWatch, Playback!Verified
  <1> HIDE DEF answer
  <1>5. RequestsInv'
    BY <1>1, <1>3, <1>4, DoneKeeps DEF ViewInv
  <1> QED
    BY <1>2, <1>5 DEF ViewInv

\* The owner's request sets the privacy.
LEMMA PrivacyStep ==
    ASSUME Playback!ViewingAssumption, ViewInv, NEW r \in Visits, Playback!SetPrivacy(r)
    PROVE  ViewInv'
  <1> DEFINE q == viewReq[r]
             new == q.privacy = "password" /\ ~q.keep
             hash == IF q.privacy # "password" THEN Playback!NoPassword
                     ELSE IF q.keep THEN q.row.hash ELSE Len(password) + 1
  <1>0. /\ UNCHANGED <<cookie, proved, raced>>
        /\ new => Len(password) < MaxHashes
    BY DEF Playback!SetPrivacy
  <1>1. /\ q \in RequestType /\ q.video \in Watched /\ q.typed \in Passwords /\ q.privacy \in Playback!Privacies
        /\ q.row.hash \in 0..MaxHashes /\ MaxHashes \in Nat /\ Len(password) \in Nat
        /\ viewRows \in [Watched -> Playback!Row] /\ password \in Seq(Passwords) /\ Len(password) <= MaxHashes
    BY DEF ViewInv, RequestsInv, RowsInv, RequestType, Playback!Row, Playback!ViewingAssumption
  <1>2. ListsInv'
    BY <1>0 DEF ViewInv, ListsInv, CookieLists, Playback!CookieRemembersLast
  <1>3. CASE q.privacy = "password" /\ hash = Playback!NoPassword
    <2>1. Playback!Done(r, "bare") /\ UNCHANGED <<viewRows, password>>
      BY <1>3 DEF Playback!SetPrivacy
    <2>2. RequestsInv'
      BY <1>0, <2>1, DoneKeeps DEF ViewInv
    <2>3. RowsInv'
      BY <2>1 DEF ViewInv, RowsInv, Secrets
    <2> QED
      BY <1>2, <2>2, <2>3 DEF ViewInv
  <1>4. CASE ~(q.privacy = "password" /\ hash = Playback!NoPassword)
    <2>1. /\ Playback!Done(r, "ok")
          /\ viewRows' = [viewRows EXCEPT ![q.video].privacy = q.privacy, ![q.video].hash = hash]
          /\ password' = IF new THEN Append(password, q.typed) ELSE password
      BY <1>4 DEF Playback!SetPrivacy
    <2>2. RequestsInv'
      BY <1>0, <2>1, DoneKeeps DEF ViewInv
    <2>3. password' \in Seq(Passwords) /\ Len(password') <= MaxHashes
      <3>1. CASE new
        BY <1>0, <1>1, <2>1, <3>1
      <3>2. CASE ~new
        BY <1>1, <2>1, <3>2
      <3> QED
        BY <3>1, <3>2
    <2>4. hash \in 0..MaxHashes
      <3>1. CASE new
        BY <1>0, <1>1, <3>1
      <3>2. CASE ~new
        BY <1>1, <3>2 DEF Playback!NoPassword
      <3> QED
        BY <3>1, <3>2
    <2> HIDE DEF hash, new
    <2> DEFINE d == [viewRows[q.video] EXCEPT !.privacy = q.privacy, !.hash = hash]
    <2>5. viewRows' = [viewRows EXCEPT ![q.video] = d]
      BY <1>1, <2>1
    <2>6. d \in Playback!Row /\ d.privacy = q.privacy /\ d.hash = hash
      BY <1>1, <2>4 DEF Playback!Row
    <2> HIDE DEF d, q
    <2>7. viewRows' \in [Watched -> Playback!Row]
      BY <1>1, <2>5, <2>6
    <2>8. Secrets'
      BY <1>1, <1>4, <2>5, <2>6 DEF ViewInv, RowsInv, Secrets
    <2> QED
      BY <1>2, <2>2, <2>3, <2>7, <2>8 DEF ViewInv, RowsInv
  <1> QED
    BY <1>3, <1>4

\* The right password: the hash goes into the cookie that was sent.
LEMMA UnlockStep ==
    ASSUME Playback!ViewingAssumption, ViewInv, NEW r \in Visits, Playback!Unlock(r)
    PROVE  ViewInv'
  <1> DEFINE q == viewReq[r]
             b == q.browser
             h == q.row.hash
             H == 1..MaxHashes
  <1>0. /\ UNCHANGED <<viewRows, password, raced>> /\ q.step = "answer" /\ q.op = "unlock"
    BY DEF Playback!Unlock
  <1>1. /\ q \in RequestType /\ b \in Browsers /\ q.cookie \in Seq(H) /\ h \in H
        /\ Distinct(q.cookie) /\ Playback!ToSet(q.cookie) \subseteq Playback!ToSet(proved[b])
        /\ viewReq \in [Visits -> RequestType]
    <2>1. q \in RequestType /\ viewReq \in [Visits -> RequestType]
      BY DEF ViewInv, RequestsInv
    <2>2. Playback!Found(q, q.row) /\ Distinct(q.cookie) /\ Playback!ToSet(q.cookie) \subseteq Playback!ToSet(proved[b])
      BY <1>0 DEF ViewInv, RequestsInv, Carried
    <2> HIDE DEF q
    <2>3. h # Playback!NoPassword /\ h \in 0..MaxHashes /\ MaxHashes \in Nat
      BY <1>0, <2>1, <2>2 DEF Playback!Found, RequestType, Playback!Row, Playback!ViewingAssumption
    <2> QED
      BY <2>1, <2>2, <2>3 DEF RequestType, Playback!NoPassword
  <1>2. RowsInv'
    BY <1>0 DEF ViewInv, RowsInv, Secrets
  <1>3. CASE password[h] # q.typed
    <2>1. Playback!Done(r, "Unauthorized") /\ UNCHANGED <<cookie, proved>>
      BY <1>3 DEF Playback!Unlock
    <2>2. RequestsInv'
      BY <1>0, <2>1, DoneKeeps DEF ViewInv
    <2>3. ListsInv'
      BY <1>0, <2>1 DEF ViewInv, ListsInv, CookieLists, Playback!CookieRemembersLast
    <2> QED
      BY <1>2, <2>2, <2>3 DEF ViewInv
  <1>4. CASE password[h] = q.typed
    <2> DEFINE c == Playback!setVerifiedPasswordCookie(q.cookie, h)
               m == Playback!MovedToEnd(q.cookie, h)
               p == Playback!MovedToEnd(proved[b], h)
    <2> HIDE DEF H
    <2>1. /\ Playback!Done(r, "ok") /\ cookie' = [cookie EXCEPT ![b] = c]
          /\ proved' = [proved EXCEPT ![b] = p]
      BY <1>4 DEF Playback!Unlock
    <2>2. /\ proved[b] \in Seq(H) /\ Distinct(proved[b])
          /\ cookie \in [Browsers -> Seq(H)] /\ proved \in [Browsers -> Seq(H)]
      BY <1>1 DEF ViewInv, ListsInv, CookieLists, H
    <2>3. m \in Seq(H) /\ Distinct(m) /\ Playback!ToSet(m) = Playback!ToSet(q.cookie) \cup {h}
      <3> HIDE DEF q, h
      <3>1. q.cookie \in Seq(H) /\ Distinct(q.cookie) /\ h \in H
        BY <1>1
      <3> QED
        BY <3>1, MovedKeeps
    <2>4. p \in Seq(H) /\ Distinct(p) /\ Playback!ToSet(p) = Playback!ToSet(proved[b]) \cup {h}
      <3> HIDE DEF q, h, b
      <3>1. proved[b] \in Seq(H) /\ Distinct(proved[b]) /\ h \in H
        BY <1>1, <2>2
      <3> QED
        BY <3>1, MovedKeeps
    <2>5. c = Playback!LastOf(m)
      BY DEF Playback!setVerifiedPasswordCookie
    <2> HIDE DEF c, p
    <2>6. /\ c \in Seq(H) /\ Len(c) <= MAX_VERIFIED_HASHES /\ Distinct(c)
          /\ Playback!ToSet(c) \subseteq Playback!ToSet(m)
      <3> HIDE DEF m
      <3> QED
        BY <2>3, <2>5, LastOfList, LastKeeps
    <2>7. b \notin raced => c = Playback!LastOf(p)
      <3> SUFFICES ASSUME b \notin raced PROVE c = Playback!LastOf(p)
        OBVIOUS
      <3>1. q.cookie = cookie[b] /\ cookie[b] = Playback!LastOf(proved[b])
        BY <1>0, <1>1 DEF ViewInv, RequestsInv, ListsInv, Single, Unlocking, Playback!CookieRemembersLast
      <3>2. Playback!LastOf(Playback!MovedToEnd(Playback!LastOf(proved[b]), h)) = Playback!LastOf(p)
        BY <1>1, <2>2, LastAfterMove DEF p, H
      <3> QED
        BY <2>5, <3>1, <3>2
    <2> HIDE DEF m
    <2>8. /\ viewReq' \in [Visits -> RequestType]
          /\ \A k \in Visits : k # r => viewReq'[k] = viewReq[k]
          /\ viewReq'[r].step = "idle" /\ viewReq'[r].cookie = <<>> /\ viewReq'[r].answer = "none"
      BY <2>1, RequestDone DEF ViewInv
    <2>9. /\ cookie'[b] = c /\ proved'[b] = p
          /\ \A k \in Browsers : k # b => cookie'[k] = cookie[k] /\ proved'[k] = proved[k]
          /\ cookie' \in [Browsers -> Seq(H)] /\ proved' \in [Browsers -> Seq(H)]
          /\ \A k \in Browsers : Playback!ToSet(proved[k]) \subseteq Playback!ToSet(proved'[k])
      BY <1>1, <2>1, <2>2, <2>4, <2>6
    <2>10. ListsInv'
      <3>1. CookieLists'
        BY <1>1, <2>3, <2>4, <2>6, <2>9 DEF ViewInv, ListsInv, CookieLists
      <3>2. Playback!CookieRemembersLast'
        BY <1>0, <1>1, <2>7, <2>9 DEF ViewInv, ListsInv, Playback!CookieRemembersLast, Playback!LastOf
      <3>3. \A k \in Browsers : Len(cookie'[k]) <= MAX_VERIFIED_HASHES
        BY <1>1, <2>6, <2>9 DEF ViewInv, ListsInv
      <3> QED
        BY <1>0, <2>9, <3>1, <3>2, <3>3 DEF ViewInv, ListsInv, H
    <2>11. Carried'
      <3>1. Distinct(<<>>) /\ Playback!ToSet(<<>>) = {}
        BY DEF Distinct, Playback!ToSet
      <3>2. \A k \in Visits : viewReq[k].browser \in Browsers
        BY <1>1 DEF RequestType
      <3> QED
        BY <2>8, <2>9, <3>1, <3>2, ZenonT(60) DEF ViewInv, RequestsInv, Carried, Playback!Found
    <2>12. Single'
      <3> SUFFICES ASSUME NEW k \in Visits, Unlocking(k)', viewReq'[k].browser \notin raced'
                   PROVE  /\ viewReq'[k].cookie = cookie'[viewReq'[k].browser]
                          /\ \A l \in Visits : Unlocking(l)' /\ viewReq'[l].browser = viewReq'[k].browser
                                => l = k
        BY DEF Single
      <3>1. k # r /\ viewReq'[k] = viewReq[k] /\ Unlocking(k) /\ viewReq[k].browser \notin raced
        BY <1>0, <2>8 DEF Unlocking
      <3>2. viewReq[k].browser # b
        BY <1>0, <3>1 DEF ViewInv, RequestsInv, Single, Unlocking
      <3>3. viewReq[k].browser \in Browsers
        BY <1>1 DEF RequestType
      <3>4. /\ viewReq[k].cookie = cookie[viewReq[k].browser]
            /\ \A l \in Visits : Unlocking(l) /\ viewReq[l].browser = viewReq[k].browser => l = k
        BY <3>1 DEF ViewInv, RequestsInv, Single
      <3>5. ASSUME NEW l \in Visits, Unlocking(l)', viewReq'[l].browser = viewReq'[k].browser
            PROVE  l = k
        <4>1. l # r
          BY <2>8, <3>5 DEF Unlocking
        <4> QED
          BY <2>8, <3>1, <3>4, <3>5, <4>1 DEF Unlocking
      <3>6. cookie'[viewReq[k].browser] = cookie[viewReq[k].browser]
        BY <2>9, <3>2, <3>3
      <3> QED
        BY <3>1, <3>4, <3>5, <3>6
    <2>13. Playback!SourceIsAllowed'
      <3>2. \A k \in Visits : viewReq[k].browser \in Browsers
        BY <1>1 DEF RequestType
      <3> QED
        BY <2>8, <2>9, <3>2, ZenonT(60) DEF ViewInv, RequestsInv, Playback!SourceIsAllowed, Playback!MayWatch
    <2> QED
      BY <1>2, <2>8, <2>10, <2>11, <2>12, <2>13 DEF ViewInv, RequestsInv
  <1> QED
    BY <1>3, <1>4

\* Every step.
LEMMA ViewStep ==
    ASSUME Playback!ViewingAssumption, ViewInv, [Playback!Next]_(Playback!vars)
    PROVE  ViewInv'
  <1>1. CASE UNCHANGED Playback!vars
    BY <1>1 DEF Playback!vars, ViewInv, RowsInv, ListsInv, RequestsInv, Secrets, CookieLists,
                Playback!CookieRemembersLast, Carried, Single, Unlocking, Playback!SourceIsAllowed, Playback!MayWatch
  <1>2. CASE Playback!Next
    BY <1>2, CompleteStep, SendStep, FindStep, AnswerStep, UnlockStep, PrivacyStep DEF Playback!Next
  <1> QED
    BY <1>1, <1>2

\* At first nothing is complete, and no cookie is set.
LEMMA ViewInit ==
    ASSUME Playback!ViewingAssumption, Playback!Init
    PROVE  ViewInv
  <1>1. /\ Playback!NoRequest \in RequestType /\ Playback!NoRequest.step = "idle"
        /\ Playback!NoRequest.cookie = <<>> /\ Playback!NoRequest.answer = "none"
    BY NoRequestType
  <1>2. /\ viewReq \in [Visits -> RequestType]
        /\ \A r \in Visits : /\ viewReq[r].step = "idle" /\ viewReq[r].cookie = <<>>
                               /\ viewReq[r].answer = "none" /\ viewReq[r].browser \in Browsers
    BY <1>1 DEF Playback!Init, RequestType
  <1>3. Distinct(<<>>) /\ Playback!ToSet(<<>>) = {}
    BY DEF Distinct, Playback!ToSet
  <1>4. /\ cookie = [b \in Browsers |-> <<>>] /\ proved = [b \in Browsers |-> <<>>] /\ raced = {}
    BY DEF Playback!Init
  <1>5. RequestsInv
    BY <1>2, <1>3, <1>4 DEF RequestsInv, Carried, Single, Unlocking, Playback!SourceIsAllowed
  <1>6. MAX_VERIFIED_HASHES \in Nat /\ MaxHashes \in Nat
    BY DEF Playback!ViewingAssumption
  <1>7. Playback!LastOf(<<>>) = <<>>
    <2>1. <<>> \in Seq(1..MaxHashes) /\ Len(<<>>) = 0 /\ 0 <= MAX_VERIFIED_HASHES
      BY <1>6
    <2> DEFINE empty == <<>>
    <2>2. empty \in Seq(1..MaxHashes) /\ Len(empty) <= MAX_VERIFIED_HASHES
      BY <2>1
    <2> HIDE DEF empty
    <2>3. Playback!LastOf(empty) = empty
      BY <2>2, LastOfList
    <2> QED
      BY <2>3 DEF empty
  <1>8. ListsInv
    BY <1>3, <1>4, <1>6, <1>7 DEF ListsInv, CookieLists, Playback!CookieRemembersLast
  <1>9. RowsInv
    <2>1. [status |-> "uploading", privacy |-> "public", hash |-> Playback!NoPassword] \in Playback!Row
      BY <1>6 DEF Playback!Row, Playback!NoPassword, Playback!Privacies
    <2> QED
      BY <1>6, <2>1 DEF RowsInv, Secrets, Playback!Init
  <1> QED
    BY <1>5, <1>8, <1>9 DEF ViewInv

\* The three places that decide agree on a row with a hash for its password.
LEMMA PoliciesAgree ==
    ASSUME RowsInv, ListsInv
    PROVE  Playback!PolicyAgrees
  <1> SUFFICES ASSUME NEW v \in DOMAIN viewRows, NEW b \in DOMAIN cookie, NEW owner,
                      owner = (b = Owner),
                      viewRows[v].status = "complete"
               PROVE  LET row == viewRows[v]
                          policy == Playback!canView(owner, cookie[b], row)
                      IN  /\ (policy = "true") = (Playback!ViewAnswer(owner, cookie[b], row) = "source")
                          /\ (policy = "true") = (Playback!PlaylistAnswer(owner, cookie[b], row) = "source")
                          /\ \A answer \in {Playback!ViewAnswer(owner, cookie[b], row),
                                            Playback!PlaylistAnswer(owner, cookie[b], row)} :
                                (policy = "PasswordRequired") = (answer = "PasswordRequired")
    BY DEF Playback!PolicyAgrees
  <1> DEFINE row == viewRows[v]
             verified == Playback!Verified(cookie[b], row)
  <1>1. row.privacy \in Playback!Privacies /\ (row.privacy = "password" => row.hash # Playback!NoPassword)
    <2>1. v \in Watched
      BY DEF RowsInv
    <2> QED
      BY <2>1 DEF RowsInv, Playback!Row, Secrets
  <1>2. CASE owner \/ row.privacy = "public"
    BY <1>2 DEF Playback!canView, Playback!ViewAnswer, Playback!PlaylistAnswer
  <1>3. CASE ~owner /\ row.privacy = "password"
    <2>1. row.hash # Playback!NoPassword
      BY <1>1, <1>3
    <2>2. Playback!canView(owner, cookie[b], row) = IF verified THEN "true" ELSE "PasswordRequired"
      BY <1>3, <2>1 DEF Playback!canView
    <2>3. Playback!ViewAnswer(owner, cookie[b], row) = IF verified THEN "source" ELSE "PasswordRequired"
      BY <1>3 DEF Playback!ViewAnswer
    <2>4. Playback!PlaylistAnswer(owner, cookie[b], row) = IF verified THEN "source" ELSE "PasswordRequired"
      BY <1>3 DEF Playback!PlaylistAnswer
    <2> HIDE DEF verified
    <2> QED
      BY <2>2, <2>3, <2>4
  <1>4. CASE ~owner /\ row.privacy = "private"
    BY <1>4 DEF Playback!canView, Playback!ViewAnswer, Playback!PlaylistAnswer
  <1> QED
    BY <1>1, <1>2, <1>3, <1>4 DEF Playback!Privacies

\* Whatever is set, unlocked and overwritten at once, a source is given to those who may
\* watch and to all of them.
THEOREM SourcesAreGuarded ==
    ASSUME Playback!ViewingAssumption
    PROVE  Playback!Spec => [](Playback!TypeOK /\ UnlockedCanWatch)
  <1>1. Playback!Init => ViewInv
    BY ViewInit
  <1>2. ViewInv /\ [Playback!Next]_(Playback!vars) => ViewInv'
    BY ViewStep
  <1>3. ViewInv => Playback!TypeOK
    BY DEF ViewInv, RowsInv, ListsInv, RequestsInv, RequestType, Playback!TypeOK
  <1>4. ViewInv => UnlockedCanWatch
    BY PoliciesAgree DEF ViewInv, ListsInv, RequestsInv, UnlockedCanWatch, Playback!UnlockedCanWatch
  <1> QED
    BY <1>1, <1>2, <1>3, <1>4, PTL DEF Playback!Spec
=============================================================================
