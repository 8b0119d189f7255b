------------------------ MODULE StudioPipeline_proofs -----------------------
(***************************************************************************)
(* Theorems of StudioPipeline, for any sources, bounds and queue depth.     *)
(*                                                                         *)
(* ShownGoesForward rests on an order of the places in which a picture     *)
(* waits: screen, composition hub, compositor thread, render queue, event  *)
(* loop, frame hub.  Whatever is in a place is no newer than what is in the *)
(* places after it.  OnlyOwnErrors rests on what an error in the channel   *)
(* says of the publisher of its generation.  Wakeups rests on where in the *)
(* event channel a wake-up of each kind is (MarkInv), and its bounds on    *)
(* every frame of the hub being one that was captured (BoundInv).          *)
(***************************************************************************)
EXTENDS StudioPipeline, FiniteSetTheorems, SequenceTheorems, TLAPS

\* What the places hold, without the bounds that only serve TLC.
AnyRequest == [version : Nat, sources : SUBSET Sources, frames : [Sources -> Nat]]
AnyPicture == [version : Nat, frames : [Sources -> Nat]]

FlowType ==
    /\ scene \in [version : Nat, sources : SUBSET Sources]
    /\ inserted \in Nat
    /\ frames \in [Sources -> Nat] /\ sourceFrames \in [Sources -> Nat]
    /\ queue \subseteq AnyRequest
    /\ compositor \in [pc : {"new", "idle", "taken", "ready", "ended"}, request : AnyRequest]
    /\ latest \subseteq AnyPicture
    /\ shown \in AnyPicture

\* The picture or request p may be replaced by q: q has no older scene, and
\* no older frame of a source it has a frame of.
NotNewer(p, q) ==
    /\ p.version <= q.version
    /\ \A s \in Sources : q.frames[s] # 0 => p.frames[s] <= q.frames[s]

\* p is no newer than the scene and than the frames the next request will have.
Behind(p) ==
    /\ p.version <= scene.version
    /\ \A s \in Sources :
          /\ p.frames[s] <= inserted
          /\ frames[s] # 0 => p.frames[s] <= frames[s]
          /\ sourceFrames[s] # 0 => p.frames[s] <= sourceFrames[s]

Busy == compositor.pc \in {"taken", "ready"}

HubOrder ==
    \A s \in Sources :
        /\ frames[s] <= inserted /\ sourceFrames[s] <= inserted
        /\ frames[s] # 0 => sourceFrames[s] <= frames[s]
AllBehind ==
    /\ Behind(shown) /\ Behind(compositor.request)
    /\ \A p \in latest \cup queue : Behind(p)
QueueOrder ==
    \A r \in queue :
        /\ NotNewer(shown, r) /\ NotNewer(compositor.request, r)
        /\ \A p \in latest : NotNewer(p, r)
CompositorOrder ==
    Busy => /\ NotNewer(shown, compositor.request)
            /\ \A p \in latest : NotNewer(p, compositor.request)
LatestOrder == \A p \in latest : NotNewer(shown, p)

FlowInv ==
    FlowType /\ HubOrder /\ AllBehind /\ QueueOrder /\ CompositorOrder /\ LatestOrder

-----------------------------------------------------------------------------
(* Lemmas.                                                                 *)

\* What a slot holds can be taken out of it.
LEMMA TakenIsInSlot ==
    ASSUME NEW S, S # {}
    PROVE  (CHOOSE x \in S : TRUE) \in S
OBVIOUS

\* compose_scene uses the request's scene and no frame that the request does
\* not have.
LEMMA PictureOfRequest ==
    ASSUME NEW r \in AnyRequest
    PROVE  /\ Picture(r) \in AnyPicture
           /\ Picture(r).version = r.version
           /\ \A s \in Sources : Picture(r).frames[s] \in {0, r.frames[s]}
BY DEF Picture, AnyRequest, AnyPicture

LEMMA EmptyPicture ==
    /\ NoFrames \in [Sources -> Nat]
    /\ Nothing \in AnyPicture /\ NoRequest \in AnyRequest
    /\ \A s \in Sources : Nothing.frames[s] = 0 /\ NoRequest.frames[s] = 0 /\ NoFrames[s] = 0
    /\ Nothing.version = 0 /\ NoRequest.version = 0
BY DEF NoFrames, Nothing, NoRequest, AnyPicture, AnyRequest

flowVars == <<scene, inserted, frames, sourceFrames, queue, compositor, latest, shown>>

\* Steps that leave the places alone keep the invariant.
LEMMA FlowStutter ==
    ASSUME FlowInv, UNCHANGED flowVars
    PROVE  FlowInv'
BY DEF FlowInv, flowVars, FlowType, HubOrder, AllBehind, QueueOrder, CompositorOrder,
       LatestOrder, Behind, NotNewer, Busy

LEMMA FlowInit ==
    ASSUME Init
    PROVE  FlowInv
<1> USE EmptyPicture DEF Init
<1>1. FlowType
  BY DEF FlowType
<1>2. HubOrder
  BY DEF HubOrder
<1>3. AllBehind
  BY DEF AllBehind, Behind
<1>4. QueueOrder /\ CompositorOrder /\ LatestOrder
  BY DEF QueueOrder, CompositorOrder, LatestOrder, Busy
<1> QED
  BY <1>1, <1>2, <1>3, <1>4 DEF FlowInv

\* A change of the scene: its version grows, and frames of a removed source
\* may leave the hub.
LEMMA FlowScene ==
    ASSUME FlowInv,
           scene' \in [version : Nat, sources : SUBSET Sources],
           scene'.version = scene.version + 1,
           frames' \in [Sources -> Nat],
           \A s \in Sources : frames'[s] \in {0, frames[s]},
           UNCHANGED <<inserted, sourceFrames, queue, compositor, latest, shown>>
    PROVE  FlowInv'
<1> USE DEF FlowInv
<1>1. FlowType'
  BY DEF FlowType
<1>2. HubOrder'
  BY DEF HubOrder, FlowType
<1>3. ASSUME NEW p, p.version \in Nat, Behind(p)
      PROVE  /\ p.version <= scene'.version
             /\ \A s \in Sources :
                   /\ p.frames[s] <= inserted
                   /\ frames'[s] # 0 => p.frames[s] <= frames'[s]
                   /\ sourceFrames[s] # 0 => p.frames[s] <= sourceFrames[s]
  BY <1>3 DEF Behind, FlowType
<1>4. AllBehind'
  <2>1. shown.version \in Nat /\ compositor.request.version \in Nat
    BY DEF FlowType, AnyPicture, AnyRequest
  <2>2. \A p \in latest \cup queue : p.version \in Nat
    BY DEF FlowType, AnyPicture, AnyRequest
  <2> QED
    BY <1>3, <2>1, <2>2 DEF AllBehind, Behind
<1>5. QueueOrder' /\ CompositorOrder' /\ LatestOrder'
  BY DEF QueueOrder, CompositorOrder, LatestOrder, NotNewer, Busy
<1> QED
  BY <1>1, <1>2, <1>4, <1>5

\* A frame enters the hub: it is newer than everything.
LEMMA FlowSubmit ==
    ASSUME FlowInv, NEW cb, cb.source \in Sources, Submit(cb)
    PROVE  FlowInv'
<1>1. CASE UNCHANGED <<frames, inserted>>
  BY <1>1, FlowStutter DEF Submit, flowVars, sceneVars, loopVars, composeVars
<1>2. CASE /\ inserted' = inserted + 1
           /\ frames' = [frames EXCEPT ![cb.source] = inserted']
  <2> USE DEF FlowInv
  <2>1. UNCHANGED <<scene, sourceFrames, queue, compositor, latest, shown>>
    BY DEF Submit, sceneVars, loopVars, composeVars
  <2>2. FlowType'
    BY <1>2, <2>1 DEF FlowType
  <2>3. HubOrder'
    BY <1>2, <2>1 DEF HubOrder, FlowType
  <2>4. ASSUME NEW p, p.frames \in [Sources -> Nat], Behind(p)
        PROVE  /\ p.version <= scene.version
               /\ \A s \in Sources :
                     /\ p.frames[s] <= inserted'
                     /\ frames'[s] # 0 => p.frames[s] <= frames'[s]
                     /\ sourceFrames[s] # 0 => p.frames[s] <= sourceFrames[s]
    BY <1>2, <2>4 DEF Behind, FlowType
  <2>5. AllBehind'
    <3>1. shown.frames \in [Sources -> Nat] /\ compositor.request.frames \in [Sources -> Nat]
      BY DEF FlowType, AnyPicture, AnyRequest
    <3>2. \A p \in latest \cup queue : p.frames \in [Sources -> Nat]
      BY DEF FlowType, AnyPicture, AnyRequest
    <3> QED
      BY <2>1, <2>4, <3>1, <3>2 DEF AllBehind, Behind
  <2>6. QueueOrder' /\ CompositorOrder' /\ LatestOrder'
    BY <2>1 DEF QueueOrder, CompositorOrder, LatestOrder, NotNewer, Busy
  <2> QED
    BY <2>2, <2>3, <2>5, <2>6
<1> QED
  BY <1>1, <1>2 DEF Submit

\* drain: the frames of the hub become the event loop's.
LEMMA FlowDrain ==
    ASSUME FlowInv, Drain
    PROVE  FlowInv'
<1> USE DEF FlowInv
<1>1. /\ UNCHANGED <<scene, inserted, queue, compositor, latest, shown>>
      /\ frames' = NoFrames
  BY DEF Drain, sceneVars, composeVars
<1>2. /\ sourceFrames' \in [Sources -> Nat]
      /\ \A s \in Sources : \/ sourceFrames'[s] = sourceFrames[s]
                            \/ frames[s] # 0 /\ sourceFrames'[s] = frames[s]
  BY DEF Drain, FlowType
<1>3. FlowType'
  BY <1>1, <1>2, EmptyPicture DEF FlowType
<1>4. HubOrder'
  BY <1>1, <1>2, EmptyPicture DEF HubOrder, FlowType
<1>5. ASSUME NEW p, Behind(p)
      PROVE  /\ p.version <= scene.version
             /\ \A s \in Sources :
                   /\ p.frames[s] <= inserted
                   /\ frames'[s] # 0 => p.frames[s] <= frames'[s]
                   /\ sourceFrames'[s] # 0 => p.frames[s] <= sourceFrames'[s]
  BY <1>1, <1>2, <1>5, EmptyPicture DEF Behind
<1>6. AllBehind'
  BY <1>1, <1>5 DEF AllBehind, Behind
<1>7. QueueOrder' /\ CompositorOrder' /\ LatestOrder'
  BY <1>1 DEF QueueOrder, CompositorOrder, LatestOrder, NotNewer, Busy
<1> QED
  BY <1>3, <1>4, <1>6, <1>7

\* The request that is submitted has the scene and the frames of this moment,
\* which nothing downstream is ahead of.
LEMMA FlowSubmitRequest ==
    ASSUME FlowInv, SubmitRequest
    PROVE  FlowInv'
<1> USE DEF FlowInv
<1>0. PICK r : r = [version |-> scene.version, sources |-> scene.sources,
                    frames |-> sourceFrames']
  OBVIOUS
<1>1. /\ UNCHANGED <<scene, inserted, frames, compositor, latest, shown>>
      /\ queue' = {r}
  BY <1>0 DEF SubmitRequest, sceneVars
<1>2. /\ sourceFrames' \in [Sources -> Nat]
      /\ \A s \in Sources : sourceFrames'[s] \in {0, sourceFrames[s]}
  BY DEF SubmitRequest, FlowType
<1>3. /\ r \in AnyRequest
      /\ r.version = scene.version /\ r.frames = sourceFrames'
  BY <1>0, <1>2 DEF FlowType, AnyRequest
<1>4. FlowType'
  BY <1>1, <1>2, <1>3 DEF FlowType
<1>5. HubOrder'
  BY <1>1, <1>2, EmptyPicture DEF HubOrder, FlowType
<1>6. ASSUME NEW p, Behind(p)
      PROVE  /\ p.version <= scene.version
             /\ \A s \in Sources :
                   /\ p.frames[s] <= inserted
                   /\ frames[s] # 0 => p.frames[s] <= frames[s]
                   /\ sourceFrames'[s] # 0 => p.frames[s] <= sourceFrames'[s]
  BY <1>2, <1>6 DEF Behind
<1>7. AllBehind'
  <2>1. Behind(shown)' /\ Behind(compositor.request)' /\ \A p \in latest : Behind(p)'
    BY <1>1, <1>6 DEF AllBehind, Behind
  <2>2. Behind(r)'
    BY <1>1, <1>2, <1>3, <1>5 DEF Behind, HubOrder, FlowType
  <2> QED
    BY <1>1, <2>1, <2>2 DEF AllBehind, Behind
<1>8. ASSUME NEW p, Behind(p)
      PROVE  NotNewer(p, r)
  BY <1>3, <1>6, <1>8 DEF NotNewer
<1>9. QueueOrder'
  <2>1. NotNewer(shown, r) /\ NotNewer(compositor.request, r) /\ \A p \in latest : NotNewer(p, r)
    BY <1>8 DEF AllBehind
  <2> QED
    BY <1>1, <2>1 DEF QueueOrder, NotNewer
<1>10. CompositorOrder' /\ LatestOrder'
  BY <1>1 DEF CompositorOrder, LatestOrder, NotNewer, Busy
<1> QED
  BY <1>4, <1>5, <1>7, <1>9, <1>10

\* The compositor thread takes the only request of the queue.
LEMMA FlowTakeRequest ==
    ASSUME FlowInv, TakeRequest
    PROVE  FlowInv'
<1> USE DEF FlowInv
<1>1. PICK r \in queue : compositor'.request = r /\ compositor'.pc \in {"taken", "ready"}
                         /\ compositor' \in [pc : {"taken", "ready"}, request : {r}]
  BY TakenIsInSlot DEF TakeRequest
<1>2. /\ queue' = {}
      /\ UNCHANGED <<scene, inserted, frames, sourceFrames, latest, shown>>
  BY DEF TakeRequest, sceneVars, hubVars, loopVars
<1>3. FlowType'
  BY <1>1, <1>2 DEF FlowType
<1>4. HubOrder'
  BY <1>2 DEF HubOrder
<1>5. AllBehind'
  BY <1>1, <1>2 DEF AllBehind, Behind
<1>6. QueueOrder' /\ LatestOrder'
  BY <1>2 DEF QueueOrder, LatestOrder, NotNewer
<1>7. CompositorOrder'
  BY <1>1, <1>2 DEF QueueOrder, CompositorOrder, NotNewer
<1> QED
  BY <1>3, <1>4, <1>5, <1>6, <1>7

\* The picture of the compositor's request replaces the one in the hub.
LEMMA FlowCompose ==
    ASSUME FlowInv, Compose
    PROVE  FlowInv'
<1> USE DEF FlowInv
<1> DEFINE q == compositor.request
<1>1. /\ UNCHANGED <<scene, inserted, frames, sourceFrames, queue, shown>>
      /\ compositor' = [pc |-> "idle", request |-> NoRequest]
      /\ Busy
      /\ latest' = latest \/ latest' = {Picture(q)}
  BY DEF Compose, sceneVars, hubVars, loopVars, Busy
<1>2. q \in AnyRequest /\ Behind(q)
  BY DEF FlowType, AllBehind
<1>3. /\ Picture(q) \in AnyPicture
      /\ Picture(q).version = q.version
      /\ \A s \in Sources : Picture(q).frames[s] \in {0, q.frames[s]}
  BY <1>2, PictureOfRequest
<1>4. compositor'.request = NoRequest /\ compositor'.pc = "idle"
  BY <1>1
<1>5. FlowType'
  BY <1>1, <1>3, EmptyPicture DEF FlowType
<1>6. HubOrder'
  BY <1>1 DEF HubOrder
<1>7. Behind(Picture(q))
  BY <1>2, <1>3 DEF Behind, FlowType
<1>8. Behind(NoRequest)
  BY EmptyPicture DEF Behind, FlowType
<1>9. AllBehind'
  BY <1>1, <1>4, <1>7, <1>8 DEF AllBehind, Behind
<1>10. \A r \in queue : NotNewer(NoRequest, r) /\ NotNewer(Picture(q), r)
  <2> SUFFICES ASSUME NEW r \in queue
               PROVE  NotNewer(NoRequest, r) /\ NotNewer(Picture(q), r)
    OBVIOUS
  <2>1. r \in AnyRequest /\ NotNewer(q, r)
    BY DEF FlowType, QueueOrder
  <2>2. NotNewer(NoRequest, r)
    BY <2>1, EmptyPicture DEF NotNewer, AnyRequest
  <2>3. NotNewer(Picture(q), r)
    BY <1>3, <2>1 DEF NotNewer, AnyRequest
  <2> QED
    BY <2>2, <2>3
<1>11. QueueOrder'
  BY <1>1, <1>4, <1>10 DEF QueueOrder, NotNewer
<1>12. CompositorOrder'
  BY <1>4 DEF CompositorOrder, Busy
<1>13. LatestOrder'
  <2>1. NotNewer(shown, Picture(q))
    BY <1>1, <1>3 DEF CompositorOrder, NotNewer
  <2> QED
    BY <1>1, <2>1 DEF LatestOrder, NotNewer
<1> QED
  BY <1>5, <1>6, <1>9, <1>11, <1>12, <1>13

\* The picture of the hub, if there is one, is shown.
LEMMA FlowShowFrame ==
    ASSUME FlowInv, ShowFrame
    PROVE  FlowInv' /\ NotNewer(shown, shown')
<1> USE DEF FlowInv
<1>1. /\ UNCHANGED <<scene, inserted, frames, sourceFrames, queue, compositor>>
      /\ latest' = {}
      /\ shown' = shown \/ shown' \in latest
  BY TakenIsInSlot DEF ShowFrame, sceneVars, hubVars
<1>2. FlowType'
  BY <1>1 DEF FlowType
<1>3. HubOrder'
  BY <1>1 DEF HubOrder
<1>4. AllBehind'
  BY <1>1 DEF AllBehind, Behind
<1>5. QueueOrder' /\ LatestOrder'
  BY <1>1 DEF QueueOrder, LatestOrder, NotNewer
<1>6. CompositorOrder'
  BY <1>1 DEF CompositorOrder, NotNewer, Busy
<1>7. NotNewer(shown, shown')
  BY <1>1 DEF NotNewer, LatestOrder, FlowType, AnyPicture
<1> QED
  BY <1>2, <1>3, <1>4, <1>5, <1>6, <1>7

-----------------------------------------------------------------------------
(* Callbacks and captures.                                                 *)

CallbackInv ==
    /\ captures \in [Sources -> Nat]
    /\ callbacks \subseteq [source : Sources, capture : Nat, stage : {"called", "entered"}]

LEMMA CallbackStep ==
    ASSUME CallbackInv, FlowType, [Next]_vars
    PROVE  CallbackInv'
<1> USE DEF CallbackInv
<1>1. ASSUME NEW s \in Sources, Callback(s)
      PROVE  CallbackInv'
  BY <1>1 DEF Callback, sceneVars
<1>2. ASSUME NEW s \in Sources, AddSource(s) \/ RemoveSource(s)
      PROVE  CallbackInv'
  <2>1. scene.version + 1 \in Nat
    BY DEF FlowType
  <2> QED
    BY <1>2, <2>1 DEF AddSource, RemoveSource
<1>3. ASSUME NEW cb \in callbacks, Submit(cb)
      PROVE  CallbackInv'
  BY <1>3 DEF Submit, sceneVars
<1>4. CASE UNCHANGED <<captures, callbacks>>
  BY <1>4
<1> QED
  BY <1>1, <1>2, <1>3, <1>4
     DEF Next, vars, sceneVars, hubVars, Edit, EventLoop, Drain, SubmitRequest, ShowFrame,
         Failed, Compositor, CompositorStarts, TakeRequest, Compose, ToggleStream, Publish,
         StreamFailed

-----------------------------------------------------------------------------
(* The screen never goes back.                                             *)

LEMMA FlowStep ==
    ASSUME FlowInv, CallbackInv, [Next]_vars
    PROVE  FlowInv' /\ (shown' = shown \/ NotNewer(shown, shown'))
<1>1. ASSUME NEW s \in Sources, Callback(s)
      PROVE  FlowInv' /\ shown' = shown
  BY <1>1, FlowStutter DEF Callback, flowVars, sceneVars, loopVars, composeVars
<1>2. ASSUME NEW s \in Sources, AddSource(s) \/ RemoveSource(s)
      PROVE  FlowInv' /\ shown' = shown
  <2>1. /\ scene' \in [version : Nat, sources : SUBSET Sources]
        /\ scene'.version = scene.version + 1
    BY <1>2 DEF AddSource, RemoveSource, FlowInv, FlowType
  <2>2. /\ frames' \in [Sources -> Nat]
        /\ \A t \in Sources : frames'[t] \in {0, frames[t]}
    BY <1>2 DEF AddSource, RemoveSource, FlowInv, FlowType
  <2>3. UNCHANGED <<inserted, sourceFrames, queue, compositor, latest, shown>>
    BY <1>2 DEF AddSource, RemoveSource, loopVars, composeVars
  <2> QED
    BY <2>1, <2>2, <2>3, FlowScene
<1>3. ASSUME NEW cb \in callbacks, Submit(cb)
      PROVE  FlowInv' /\ shown' = shown
  <2>1. cb.source \in Sources
    BY DEF CallbackInv
  <2>2. shown' = shown
    BY <1>3 DEF Submit, loopVars
  <2> QED
    BY <1>3, <2>1, <2>2, FlowSubmit
<1>4. ASSUME Edit
      PROVE  FlowInv' /\ shown' = shown
  <2>1. /\ scene' \in [version : Nat, sources : SUBSET Sources]
        /\ scene'.version = scene.version + 1
    BY <1>4 DEF Edit, FlowInv, FlowType
  <2>2. /\ frames' \in [Sources -> Nat]
        /\ \A t \in Sources : frames'[t] \in {0, frames[t]}
    BY <1>4 DEF Edit, FlowInv, FlowType
  <2>3. UNCHANGED <<inserted, sourceFrames, queue, compositor, latest, shown>>
    BY <1>4 DEF Edit, loopVars, composeVars
  <2> QED
    BY <2>1, <2>2, <2>3, FlowScene
<1>5. ASSUME EventLoop
      PROVE  FlowInv' /\ (shown' = shown \/ NotNewer(shown, shown'))
  <2>1. CASE Drain
    BY <2>1, FlowDrain DEF Drain
  <2>2. CASE SubmitRequest
    BY <2>2, FlowSubmitRequest DEF SubmitRequest
  <2>3. CASE ShowFrame
    BY <2>3, FlowShowFrame
  <2>4. CASE Failed
    BY <2>4, FlowStutter DEF Failed, flowVars, sceneVars, hubVars, composeVars
  <2> QED
    BY <1>5, <2>1, <2>2, <2>3, <2>4 DEF EventLoop
<1>6. ASSUME Compositor
      PROVE  FlowInv' /\ shown' = shown
  <2>1. CASE CompositorStarts
    <3>1. /\ UNCHANGED <<scene, inserted, frames, sourceFrames, queue, latest, shown>>
          /\ compositor'.request = compositor.request
          /\ compositor'.pc \in {"idle", "ended"}
          /\ compositor' \in [pc : {"idle", "ended"}, request : AnyRequest]
      BY <2>1 DEF CompositorStarts, sceneVars, hubVars, loopVars, FlowInv, FlowType
    <3>2. FlowType' /\ HubOrder'
      BY <3>1 DEF FlowInv, FlowType, HubOrder
    <3>3. AllBehind' /\ QueueOrder' /\ LatestOrder'
      BY <3>1 DEF FlowInv, AllBehind, Behind, QueueOrder, LatestOrder, NotNewer
    <3>4. CompositorOrder'
      BY <3>1 DEF CompositorOrder, Busy
    <3> QED
      BY <3>1, <3>2, <3>3, <3>4 DEF FlowInv
  <2>2. CASE TakeRequest
    BY <2>2, FlowTakeRequest DEF TakeRequest, loopVars
  <2>3. CASE Compose
    BY <2>3, FlowCompose DEF Compose, loopVars
  <2> QED
    BY <1>6, <2>1, <2>2, <2>3 DEF Compositor
<1>7. ASSUME NEW g \in 1..MaxStreams, ToggleStream \/ Publish(g) \/ StreamFailed
      PROVE  FlowInv' /\ shown' = shown
  BY <1>7, FlowStutter
     DEF ToggleStream, Publish, StreamFailed, flowVars, sceneVars, hubVars, loopVars, composeVars
<1>8. ASSUME ToggleStream \/ StreamFailed
      PROVE  FlowInv' /\ shown' = shown
  BY <1>8, FlowStutter
     DEF ToggleStream, StreamFailed, flowVars, sceneVars, hubVars, loopVars, composeVars
<1>9. CASE UNCHANGED vars
  BY <1>9, FlowStutter DEF vars, flowVars, sceneVars, hubVars, loopVars, composeVars
<1> QED
  BY <1>1, <1>2, <1>3, <1>4, <1>5, <1>6, <1>7, <1>8, <1>9 DEF Next

\* The screen never goes back to an older scene or to an older frame: for any
\* number of sources, frames and changes, whatever the capture callbacks, the
\* main thread and the compositor thread interleave.
THEOREM ScreenGoesForward == Spec => ShownGoesForward
<1>1. Init => FlowInv /\ CallbackInv
  <2>1. Init => FlowInv
    BY FlowInit
  <2>2. Init => CallbackInv
    BY DEF Init, CallbackInv
  <2> QED
    BY <2>1, <2>2
<1>2. FlowInv /\ CallbackInv /\ [Next]_vars => (FlowInv /\ CallbackInv)'
  BY FlowStep, CallbackStep DEF FlowInv
<1>3. ASSUME FlowInv, CallbackInv, [Next]_vars
      PROVE  [/\ shown'.version >= shown.version
              /\ \A s \in Sources :
                    shown'.frames[s] # 0 => shown'.frames[s] >= shown.frames[s]]_vars
  <2>1. shown \in AnyPicture /\ shown' \in AnyPicture
    BY <1>3, FlowStep DEF FlowInv, FlowType
  <2>2. shown' = shown \/ NotNewer(shown, shown')
    BY <1>3, FlowStep
  <2> QED
    BY <2>1, <2>2 DEF NotNewer, AnyPicture
<1> QED
  BY <1>1, <1>2, <1>3, PTL DEF Spec, ShownGoesForward

-----------------------------------------------------------------------------
(* Streams.                                                                *)

Publisher == [state : {"none", "running", "failing", "ended"}, queued : Nat, open : BOOLEAN]

StreamType ==
    /\ generation \in Nat /\ stream \in Nat
    /\ publishers \in [1..MaxStreams -> Publisher]
    /\ streamErrors \in Seq(1..MaxStreams)

\* The viewer's stream has the current generation, later generations have not
\* been started, and an error in the channel is of a publisher that failed.
StreamInv ==
    /\ StreamType
    /\ stream # 0 => stream = generation /\ stream \in 1..MaxStreams
    /\ \A g \in 1..MaxStreams : g > generation => publishers[g].state = "none"
    /\ \A i \in 1..Len(streamErrors) :
          publishers[streamErrors[i]].state \in {"failing", "ended"}

GivenUp == stream # 0 /\ stream' = 0 /\ generation' = generation
           => publishers[stream].state \in {"failing", "ended"}

\* What an update of one publisher leaves alone.
LEMMA UpdateOpen ==
    ASSUME StreamType, NEW g \in 1..MaxStreams
    PROVE  /\ Closed(g) \in [1..MaxStreams -> Publisher]
           /\ \A h \in 1..MaxStreams : Closed(g)[h].state = publishers[h].state
BY DEF StreamType, Publisher, Closed

LEMMA UpdateQueued ==
    ASSUME StreamType, NEW g \in 1..MaxStreams, NEW n \in Nat
    PROVE  /\ WithQueued(g, n) \in [1..MaxStreams -> Publisher]
           /\ \A h \in 1..MaxStreams : WithQueued(g, n)[h].state = publishers[h].state
BY DEF StreamType, Publisher, WithQueued

LEMMA UpdateState ==
    ASSUME StreamType, NEW g \in 1..MaxStreams, NEW v \in {"failing", "ended"}
    PROVE  /\ WithState(g, v) \in [1..MaxStreams -> Publisher]
           /\ WithState(g, v)[g].state = v
           /\ \A h \in 1..MaxStreams :
                 h # g => WithState(g, v)[h].state = publishers[h].state
BY DEF StreamType, Publisher, WithState

\* Elements of the error channel.
LEMMA ChannelFacts ==
    ASSUME NEW S, NEW c \in Seq(S), NEW x \in S
    PROVE  /\ \A i \in 1..Len(c) : c[i] \in S
           /\ Append(c, x) \in Seq(S)
           /\ \A i \in 1..Len(Append(c, x)) :
                 \/ i \in 1..Len(c) /\ Append(c, x)[i] = c[i]
                 \/ Append(c, x)[i] = x
OBVIOUS

\* Errors stay true while failed publishers stay failed.
LEMMA ErrorsStayTrue ==
    ASSUME StreamInv,
           \A h \in 1..MaxStreams : publishers[h].state \in {"failing", "ended"}
                                   => publishers'[h].state \in {"failing", "ended"}
    PROVE  \A i \in 1..Len(streamErrors) :
              publishers'[streamErrors[i]].state \in {"failing", "ended"}
<1> TAKE i \in 1..Len(streamErrors)
<1>0. streamErrors \in Seq(1..MaxStreams)
  BY DEF StreamInv, StreamType
<1>1. streamErrors[i] \in 1..MaxStreams
  BY <1>0, ElementOfSeq
<1>2. publishers[streamErrors[i]].state \in {"failing", "ended"}
  BY DEF StreamInv
<1> QED
  BY <1>1, <1>2

LEMMA StreamStutter ==
    ASSUME StreamInv, UNCHANGED streamVars
    PROVE  StreamInv' /\ GivenUp
BY DEF StreamInv, StreamType, streamVars, GivenUp

LEMMA StreamToggle ==
    ASSUME StreamInv, ToggleStream
    PROVE  StreamInv' /\ GivenUp
<1>1. generation' = generation + 1 /\ generation' \in 1..MaxStreams /\ streamErrors' = streamErrors
  BY PipelineAssumption DEF ToggleStream, StreamInv, StreamType
<1>2. /\ publishers' \in [1..MaxStreams -> Publisher]
      /\ \A h \in 1..MaxStreams : h # generation' => publishers'[h].state = publishers[h].state
      /\ stream' = 0 \/ stream' = generation'
  <2>1. CASE stream # 0
    <3>1. stream \in 1..MaxStreams /\ stream' = 0 /\ publishers' = Closed(stream)
      BY <2>1 DEF ToggleStream, StreamInv
    <3> QED
      BY <3>1, UpdateOpen DEF StreamInv
  <2>2. CASE stream = 0
    <3> DEFINE q == [state |-> "running", queued |-> 0, open |-> TRUE]
    <3>1. q \in Publisher
      BY DEF Publisher
    <3>2. \/ UNCHANGED <<stream, publishers>>
          \/ stream' = generation' /\ publishers' = [publishers EXCEPT ![generation'] = q]
      BY <2>2 DEF ToggleStream
    <3> HIDE DEF q
    <3> QED
      BY <1>1, <2>2, <3>1, <3>2 DEF StreamInv, StreamType
  <2> QED
    BY <2>1, <2>2
<1>3. publishers[generation'].state = "none"
  BY <1>1 DEF StreamInv, StreamType
<1>4. StreamType'
  BY <1>1, <1>2 DEF StreamInv, StreamType
<1>5. \A h \in 1..MaxStreams : h > generation' => publishers'[h].state = "none"
  BY <1>1, <1>2 DEF StreamInv, StreamType
<1>6. \A i \in 1..Len(streamErrors) :
         publishers'[streamErrors[i]].state \in {"failing", "ended"}
  BY <1>2, <1>3, ErrorsStayTrue
<1>7. GivenUp
  BY <1>1 DEF GivenUp, StreamInv, StreamType
<1> QED
  BY <1>1, <1>2, <1>4, <1>5, <1>6, <1>7 DEF StreamInv

LEMMA StreamPublish ==
    ASSUME StreamInv, NEW g \in 1..MaxStreams, Publish(g)
    PROVE  StreamInv' /\ GivenUp
<1>1. UNCHANGED <<stream, generation>>
  BY DEF Publish
<1>2. publishers \in [1..MaxStreams -> Publisher] /\ publishers[g].queued \in Nat
  BY DEF StreamInv, StreamType, Publisher
<1>3. /\ publishers' \in [1..MaxStreams -> Publisher]
      /\ \A h \in 1..MaxStreams :
            \/ publishers'[h].state = publishers[h].state
            \/ /\ h = g /\ publishers[h].state # "none"
               /\ publishers'[h].state \in {"failing", "ended"}
      /\ \/ streamErrors' = streamErrors
         \/ streamErrors' = Append(streamErrors, g) /\ publishers'[g].state = "failing"
  <2>1. CASE /\ publishers[g].queued > 0
             /\ publishers' = WithQueued(g, publishers[g].queued - 1)
             /\ UNCHANGED streamErrors
    <3>1. publishers[g].queued - 1 \in Nat
      BY <1>2, <2>1
    <3> QED
      BY <2>1, <3>1, UpdateQueued DEF StreamInv
  <2>2. CASE /\ publishers[g].state = "running"
             /\ publishers' = WithState(g, "failing")
             /\ streamErrors' = Append(streamErrors, g)
    BY <2>2, UpdateState DEF StreamInv
  <2>3. CASE /\ publishers[g].state \in {"running", "failing"}
             /\ publishers' = WithState(g, "ended")
             /\ UNCHANGED streamErrors
    BY <2>3, UpdateState DEF StreamInv
  <2> QED
    BY <2>1, <2>2, <2>3 DEF Publish
<1>4. StreamType'
  <2>1. streamErrors \in Seq(1..MaxStreams)
    BY DEF StreamInv, StreamType
  <2>2. Append(streamErrors, g) \in Seq(1..MaxStreams)
    BY <2>1, ChannelFacts, Zenon
  <2>3. streamErrors' \in Seq(1..MaxStreams)
    BY <1>3, <2>1, <2>2, Zenon
  <2> QED
    BY <1>1, <1>3, <2>3 DEF StreamInv, StreamType
<1>5. \A i \in 1..Len(streamErrors) :
         publishers'[streamErrors[i]].state \in {"failing", "ended"}
  BY <1>3, ErrorsStayTrue
<1>6. \A i \in 1..Len(streamErrors') :
         publishers'[streamErrors'[i]].state \in {"failing", "ended"}
  <2>1. CASE streamErrors' = streamErrors
    BY <1>5, <2>1
  <2>2. CASE streamErrors' = Append(streamErrors, g) /\ publishers'[g].state = "failing"
    <3> TAKE i \in 1..Len(streamErrors')
    <3>1. \/ i \in 1..Len(streamErrors) /\ streamErrors'[i] = streamErrors[i]
          \/ streamErrors'[i] = g
      BY <2>2 DEF StreamInv, StreamType
    <3> QED
      BY <1>5, <2>2, <3>1
  <2> QED
    BY <1>3, <2>1, <2>2
<1>7. \A h \in 1..MaxStreams : h > generation' => publishers'[h].state = "none"
  BY <1>1, <1>3 DEF StreamInv
<1> QED
  BY <1>1, <1>4, <1>6, <1>7 DEF GivenUp, StreamInv

\* Giving up the stream and handling a picture only touch the sender's end.
LEMMA StreamKept ==
    ASSUME StreamInv, generation' = generation,
           publishers' \in [1..MaxStreams -> Publisher],
           \A h \in 1..MaxStreams : publishers'[h].state = publishers[h].state,
           stream' \in {0, stream},
           streamErrors' \in Seq(1..MaxStreams),
           \A i \in 1..Len(streamErrors') :
              \E j \in 1..Len(streamErrors) : streamErrors'[i] = streamErrors[j]
    PROVE  StreamInv'
<1>1. StreamType'
  BY DEF StreamInv, StreamType
<1>2. \A i \in 1..Len(streamErrors) :
         publishers'[streamErrors[i]].state \in {"failing", "ended"}
  BY ErrorsStayTrue
<1>3. \A i \in 1..Len(streamErrors') :
         publishers'[streamErrors'[i]].state \in {"failing", "ended"}
  BY <1>2
<1> QED
  BY <1>1, <1>3 DEF StreamInv

LEMMA StreamError ==
    ASSUME StreamInv, StreamFailed
    PROVE  StreamInv' /\ GivenUp
<1>1. /\ generation' = generation
      /\ streamErrors # <<>> /\ streamErrors' = Tail(streamErrors)
  BY DEF StreamFailed
<1>2. streamErrors \in Seq(1..MaxStreams) /\ Len(streamErrors) > 0
  BY <1>1 DEF StreamInv, StreamType
<1>3. streamErrors' \in Seq(1..MaxStreams)
  BY <1>1, <1>2
<1>4. \A i \in 1..Len(streamErrors') :
         \E j \in 1..Len(streamErrors) : streamErrors'[i] = streamErrors[j]
  <2> TAKE i \in 1..Len(streamErrors')
  <2>1. i + 1 \in 1..Len(streamErrors) /\ streamErrors'[i] = streamErrors[i + 1]
    BY <1>1, <1>2
  <2> QED
    BY <2>1
<1>5. /\ publishers' \in [1..MaxStreams -> Publisher]
      /\ \A h \in 1..MaxStreams : publishers'[h].state = publishers[h].state
      /\ stream' \in {0, stream}
  <2>1. CASE UNCHANGED <<stream, publishers>>
    BY <2>1 DEF StreamInv, StreamType
  <2>2. CASE stream # 0 /\ stream' = 0 /\ publishers' = Closed(stream)
    BY <2>2, UpdateOpen DEF StreamInv
  <2> QED
    BY <2>1, <2>2 DEF StreamFailed
<1>6. GivenUp
  <2>1. publishers[Head(streamErrors)].state \in {"failing", "ended"}
    BY <1>2 DEF StreamInv
  <2>2. stream # 0 /\ stream' = 0 => Head(streamErrors) = stream
    BY DEF StreamFailed, StreamInv
  <2> QED
    BY <2>1, <2>2 DEF GivenUp
<1> QED
  BY <1>1, <1>3, <1>4, <1>5, <1>6, StreamKept

LEMMA StreamShowFrame ==
    ASSUME StreamInv, ShowFrame
    PROVE  StreamInv' /\ GivenUp
<1>1. UNCHANGED <<generation, streamErrors>>
  BY DEF ShowFrame
<1>2. \/ UNCHANGED <<stream, publishers>>
      \/ /\ stream # 0 /\ publishers[stream].state = "ended" /\ stream' = 0
         /\ publishers' = Closed(stream)
      \/ /\ stream # 0 /\ UNCHANGED stream
         /\ \E n \in Nat : publishers' = WithQueued(stream, n)
  <2>1. stream # 0 => publishers[stream].queued \in Nat
    BY DEF StreamInv, StreamType, Publisher
  <2> DEFINE n == IF publishers[stream].queued < QueueDepth
                  THEN publishers[stream].queued + 1 ELSE publishers[stream].queued
  <2>2. stream # 0 => n \in Nat
    BY <2>1
  <2> QED
    BY <2>2 DEF ShowFrame, SendToStream
<1>3. /\ publishers' \in [1..MaxStreams -> Publisher]
      /\ \A h \in 1..MaxStreams : publishers'[h].state = publishers[h].state
      /\ stream' \in {0, stream}
  <2>1. CASE UNCHANGED <<stream, publishers>>
    BY <2>1 DEF StreamInv, StreamType
  <2>2. CASE stream # 0 /\ stream' = 0 /\ publishers' = Closed(stream)
    BY <2>2, UpdateOpen DEF StreamInv
  <2>3. CASE /\ stream # 0 /\ UNCHANGED stream
             /\ \E n \in Nat : publishers' = WithQueued(stream, n)
    BY <2>3, UpdateQueued DEF StreamInv
  <2> QED
    BY <1>2, <2>1, <2>2, <2>3
<1>4. StreamInv'
  <2>1. streamErrors' \in Seq(1..MaxStreams)
    BY <1>1 DEF StreamInv, StreamType
  <2>2. \A i \in 1..Len(streamErrors') :
           \E j \in 1..Len(streamErrors) : streamErrors'[i] = streamErrors[j]
    BY <1>1
  <2> QED
    BY <1>1, <1>3, <2>1, <2>2, StreamKept
<1>5. GivenUp
  BY <1>2 DEF GivenUp
<1> QED
  BY <1>4, <1>5

LEMMA StreamStep ==
    ASSUME StreamInv, [Next]_vars
    PROVE  StreamInv' /\ GivenUp
<1>1. CASE ToggleStream
  BY <1>1, StreamToggle
<1>2. CASE \E g \in 1..MaxStreams : Publish(g)
  BY <1>2, StreamPublish
<1>3. CASE StreamFailed
  BY <1>3, StreamError
<1>4. CASE ShowFrame
  BY <1>4, StreamShowFrame
<1>5. CASE UNCHANGED streamVars
  BY <1>5, StreamStutter
<1> QED
  BY <1>1, <1>2, <1>3, <1>4, <1>5
     DEF Next, vars, Callback, AddSource, RemoveSource, Submit, Edit, EventLoop, Drain,
         SubmitRequest, Failed, Compositor, CompositorStarts, TakeRequest, Compose

\* A stream is given up only by the user or after its own publisher failed,
\* however often streams are toggled and however late errors arrive.
THEOREM StreamsFailAlone == Spec => OnlyOwnErrors
<1>1. Init => StreamInv
  BY PipelineAssumption DEF Init, StreamInv, StreamType, Publisher
<1>2. StreamInv /\ [Next]_vars => StreamInv'
  BY StreamStep
<1>3. StreamInv /\ [Next]_vars =>
        [stream # 0 /\ stream' = 0 /\ generation' = generation
            => publishers[stream].state \in {"failing", "ended"}]_vars
  BY StreamStep DEF GivenUp
<1> QED
  BY <1>1, <1>2, <1>3, PTL DEF Spec, OnlyOwnErrors

-----------------------------------------------------------------------------
(* Wake-ups.  A count of one is a set of positions with one member, so that *)
(* no induction over the event channel is needed.                          *)

EventNames == {"render", "composition", "failed"}

Positions(q, e) == {i \in 1..Len(q) : q[i] = e}
Once(q, e) == \E p \in 1..Len(q) : Positions(q, e) = {p}
Never(q, e) == Positions(q, e) = {}

LEMMA CountIsPositions ==
    ASSUME events \in Seq(EventNames), NEW e
    PROVE  /\ Count(e) = 1 <=> Once(events, e)
           /\ Count(e) = 0 <=> Never(events, e)
<1> DEFINE P == Positions(events, e)
<1>1. IsFiniteSet(1..Len(events)) /\ P \subseteq 1..Len(events)
  BY FS_Interval DEF Positions
<1>2. IsFiniteSet(P)
  BY <1>1, FS_Subset
<1>3. Count(e) = Cardinality(P)
  BY DEF Count, Positions
<1>4. Cardinality(P) = 1 <=> \E x : P = {x}
  BY <1>2, FS_Singleton
<1>5. Cardinality(P) = 0 <=> P = {}
  BY <1>2, FS_EmptySet
<1>6. \A x : P = {x} => x \in 1..Len(events)
  BY <1>1
<1> QED
  BY <1>3, <1>4, <1>5, <1>6 DEF Once, Never

LEMMA SentEvent ==
    ASSUME NEW q \in Seq(EventNames), NEW x \in EventNames, NEW e \in EventNames
    PROVE  /\ Append(q, x) \in Seq(EventNames)
           /\ x = e /\ Never(q, e) => Once(Append(q, x), e)
           /\ x # e /\ Never(q, e) => Never(Append(q, x), e)
           /\ x # e /\ Once(q, e) => Once(Append(q, x), e)
<1>1. /\ Append(q, x) \in Seq(EventNames) /\ Len(Append(q, x)) = Len(q) + 1 /\ Len(q) \in Nat
      /\ \A i \in 1..Len(q) : Append(q, x)[i] = q[i]
      /\ Append(q, x)[Len(q) + 1] = x
  OBVIOUS
<1>2. \A i \in 1..(Len(q) + 1) : i \in 1..Len(q) \/ i = Len(q) + 1
  BY <1>1
<1>3. Len(q) + 1 \in 1..(Len(q) + 1) /\ 1..Len(q) \subseteq 1..(Len(q) + 1)
  BY <1>1
<1>4. Positions(Append(q, x), e) = Positions(q, e) \cup (IF x = e THEN {Len(q) + 1} ELSE {})
  BY <1>1, <1>2, <1>3 DEF Positions
<1> QED
  BY <1>1, <1>3, <1>4 DEF Once, Never

LEMMA TakenEvent ==
    ASSUME NEW q \in Seq(EventNames), q # <<>>, NEW e \in EventNames
    PROVE  /\ Tail(q) \in Seq(EventNames)
           /\ Head(q) = e /\ Once(q, e) => Never(Tail(q), e)
           /\ Head(q) = e => ~Never(q, e)
           /\ Head(q) # e /\ Once(q, e) => Once(Tail(q), e)
           /\ Head(q) # e /\ Never(q, e) => Never(Tail(q), e)
<1>1. /\ Tail(q) \in Seq(EventNames) /\ Len(Tail(q)) = Len(q) - 1
      /\ Len(q) \in Nat /\ Len(q) > 0 /\ Head(q) = q[1]
      /\ \A i \in 1..Len(Tail(q)) : Tail(q)[i] = q[i + 1]
  OBVIOUS
<1>2. 1 \in 1..Len(q) /\ \A i \in 1..Len(Tail(q)) : i + 1 \in 1..Len(q) /\ i + 1 # 1
  BY <1>1
<1>3. \A i \in 1..Len(q) : i # 1 => i - 1 \in 1..Len(Tail(q)) /\ (i - 1) + 1 = i
  BY <1>1
<1>4. \A i \in 1..Len(Tail(q)) : i \in Positions(Tail(q), e) <=> i + 1 \in Positions(q, e)
  BY <1>1, <1>2 DEF Positions
<1>5. Positions(Tail(q), e) \subseteq 1..Len(Tail(q)) /\ Positions(q, e) \subseteq 1..Len(q)
  BY DEF Positions
<1>6. Head(q) = e <=> 1 \in Positions(q, e)
  BY <1>1, <1>2 DEF Positions
<1>7. Head(q) = e /\ Once(q, e) => Never(Tail(q), e)
  BY <1>2, <1>4, <1>5, <1>6 DEF Once, Never
<1>8. ASSUME Head(q) # e, NEW p \in 1..Len(q), Positions(q, e) = {p}
      PROVE  Positions(Tail(q), e) = {p - 1} /\ p - 1 \in 1..Len(Tail(q))
  <2>1. p # 1
    BY <1>6, <1>8
  <2>2. p - 1 \in 1..Len(Tail(q)) /\ (p - 1) + 1 = p
    BY <1>3, <2>1
  <2>3. \A i \in 1..Len(Tail(q)) : i + 1 = p => i = p - 1
    BY <1>1
  <2> QED
    BY <1>4, <1>5, <1>8, <2>2, <2>3
<1>9. Head(q) # e /\ Never(q, e) => Never(Tail(q), e)
  BY <1>4, <1>5 DEF Never
<1> QED
  BY <1>1, <1>6, <1>7, <1>8, <1>9 DEF Once, Never

\* The marks of the hubs say what is in the channel, and a frame in the hub is
\* marked or its callback is about to mark it.
MarkInv ==
    /\ events \in Seq(EventNames)
    /\ renderPending \in BOOLEAN /\ composed \in BOOLEAN
    /\ renderPending => Once(events, "render")
    /\ ~renderPending => Never(events, "render")
    /\ composed => Once(events, "composition")
    /\ ~composed => Never(events, "composition")
    /\ (\E s \in Sources : frames[s] # 0) =>
          renderPending \/ \E cb \in callbacks : cb.stage = "entered"

LEMMA MarkInvIsCoalesced ==
    ASSUME MarkInv
    PROVE  WakeupPending /\ Coalesced
<1>1. \A e : (Count(e) = 1 <=> Once(events, e)) /\ (Count(e) = 0 <=> Never(events, e))
  BY CountIsPositions DEF MarkInv
<1> QED
  BY <1>1 DEF MarkInv, WakeupPending, Coalesced

\* request_render: afterwards the hub is marked, whatever it holds.
LEMMA RenderRequested ==
    ASSUME MarkInv, RequestRender, UNCHANGED composed
    PROVE  MarkInv'
<1>1. CASE renderPending
  BY <1>1 DEF MarkInv, RequestRender
<1>2. CASE ~renderPending
  <2>1. events' = Append(events, "render") /\ renderPending'
    BY <1>2 DEF RequestRender
  <2>2. /\ events' \in Seq(EventNames) /\ Once(events', "render")
        /\ Never(events, "composition") => Never(events', "composition")
        /\ Once(events, "composition") => Once(events', "composition")
    BY <1>2, <2>1, SentEvent DEF MarkInv, EventNames
  <2> QED
    BY <2>1, <2>2 DEF MarkInv
<1> QED
  BY <1>1, <1>2

\* The compositor's failure is an event of its own.
LEMMA FailureSent ==
    ASSUME MarkInv, events' = Append(events, "failed"),
           UNCHANGED <<renderPending, composed, frames, callbacks>>
    PROVE  MarkInv'
<1>1. /\ events' \in Seq(EventNames)
      /\ \A e \in {"render", "composition"} :
            /\ Never(events, e) => Never(events', e)
            /\ Once(events, e) => Once(events', e)
  BY SentEvent DEF MarkInv, EventNames
<1> QED
  BY <1>1 DEF MarkInv

LEMMA MarkStep ==
    ASSUME MarkInv, CallbackInv, FlowType, [Next]_vars
    PROVE  MarkInv'
<1>1. ASSUME NEW s \in Sources, Callback(s)
      PROVE  MarkInv'
  <2>1. UNCHANGED <<events, renderPending, composed, frames>> /\ callbacks \subseteq callbacks'
    BY <1>1 DEF Callback, composeVars
  <2> QED
    BY <2>1 DEF MarkInv
<1>2. ASSUME NEW s \in Sources, AddSource(s) \/ RemoveSource(s) \/ Edit
      PROVE  MarkInv'
  BY <1>2, RenderRequested DEF AddSource, RemoveSource, Edit, composeVars
<1>3. ASSUME NEW cb \in callbacks, Submit(cb)
      PROVE  MarkInv'
  <2>1. CASE cb.stage = "called"
    <3>1. /\ UNCHANGED <<events, renderPending, composed>>
          /\ callbacks' = (callbacks \ {cb}) \cup {[cb EXCEPT !.stage = "entered"]}
      BY <1>3, <2>1 DEF Submit, composeVars
    <3>2. [cb EXCEPT !.stage = "entered"].stage = "entered"
      BY DEF CallbackInv
    <3> QED
      BY <3>1, <3>2 DEF MarkInv
  <2>2. CASE cb.stage = "entered"
    BY <1>3, <2>2, RenderRequested DEF Submit, composeVars
  <2> QED
    BY <1>3, <2>1, <2>2 DEF Submit
<1>4. CASE Edit
  BY <1>4, RenderRequested DEF Edit, composeVars
<1>5. CASE Drain
  <2>1. /\ events # <<>> /\ Head(events) = "render" /\ events' = Tail(events)
        /\ frames' = NoFrames /\ renderPending' = FALSE /\ UNCHANGED composed
    BY <1>5 DEF Drain, Event, composeVars
  <2>2. /\ events' \in Seq(EventNames)
        /\ Never(events', "render")
        /\ Never(events, "composition") => Never(events', "composition")
        /\ Once(events, "composition") => Once(events', "composition")
    BY <2>1, TakenEvent DEF MarkInv, EventNames
  <2>3. ~\E s \in Sources : frames'[s] # 0
    BY <2>1 DEF NoFrames
  <2> QED
    BY <2>1, <2>2, <2>3 DEF MarkInv
<1>6. CASE ShowFrame
  <2>1. /\ events # <<>> /\ Head(events) = "composition" /\ events' = Tail(events)
        /\ composed' = FALSE /\ UNCHANGED <<renderPending, frames, callbacks>>
    BY <1>6 DEF ShowFrame, Event, hubVars
  <2>2. /\ events' \in Seq(EventNames)
        /\ Never(events', "composition")
        /\ Never(events, "render") => Never(events', "render")
        /\ Once(events, "render") => Once(events', "render")
    BY <2>1, TakenEvent DEF MarkInv, EventNames
  <2> QED
    BY <2>1, <2>2 DEF MarkInv
<1>7. CASE Failed
  <2>1. /\ events # <<>> /\ Head(events) = "failed" /\ events' = Tail(events)
        /\ UNCHANGED <<renderPending, frames, callbacks, composed>>
    BY <1>7 DEF Failed, Event, hubVars, composeVars
  <2>2. /\ events' \in Seq(EventNames)
        /\ \A e \in {"render", "composition"} :
              /\ Never(events, e) => Never(events', e)
              /\ Once(events, e) => Once(events', e)
    BY <2>1, TakenEvent DEF MarkInv, EventNames
  <2> QED
    BY <2>1, <2>2 DEF MarkInv
<1>8. CASE CompositorStarts
  <2>1. CASE UNCHANGED events
    BY <1>8, <2>1 DEF CompositorStarts, hubVars, MarkInv
  <2>2. CASE events' = Append(events, "failed")
    BY <1>8, <2>2, FailureSent DEF CompositorStarts, hubVars
  <2> QED
    BY <1>8, <2>1, <2>2 DEF CompositorStarts
<1>9. CASE Compose
  <2>1. UNCHANGED <<renderPending, frames, callbacks>>
    BY <1>9 DEF Compose, hubVars
  <2>2. CASE events' = Append(events, "failed") /\ UNCHANGED composed
    BY <2>1, <2>2, FailureSent
  <2>3. CASE composed /\ composed' = TRUE /\ UNCHANGED events
    BY <2>1, <2>3 DEF MarkInv
  <2>4. CASE ~composed /\ composed' = TRUE /\ events' = Append(events, "composition")
    <3>1. /\ events' \in Seq(EventNames) /\ Once(events', "composition")
          /\ Never(events, "render") => Never(events', "render")
          /\ Once(events, "render") => Once(events', "render")
      BY <2>4, SentEvent DEF MarkInv, EventNames
    <3> QED
      BY <2>1, <2>4, <3>1 DEF MarkInv
  <2> QED
    BY <1>9, <2>2, <2>3, <2>4 DEF Compose, MarkInv
<1>10. CASE UNCHANGED <<events, renderPending, composed, frames, callbacks>>
  BY <1>10 DEF MarkInv
<1> QED
  BY <1>1, <1>2, <1>3, <1>4, <1>5, <1>6, <1>7, <1>8, <1>9, <1>10
     DEF Next, vars, hubVars, composeVars, EventLoop, SubmitRequest, Compositor, TakeRequest,
         ToggleStream, Publish, StreamFailed

-----------------------------------------------------------------------------
(* Types and bounds.                                                       *)

SceneTypes ==
    /\ scene \in [version : 1..MaxVersion, sources : SUBSET Sources]
    /\ captures \in [Sources -> 0..MaxVersion]
    /\ callbacks \subseteq [source : Sources, capture : 1..MaxVersion,
                            stage : {"called", "entered"}]
    /\ removed \subseteq Sources
    /\ main \in {"idle", "drained", "quit"}
FrameTypes ==
    /\ captured \in 0..MaxFrames /\ inserted \in 0..captured
    /\ frames \in [Sources -> 0..inserted]
    /\ sourceFrames \in [Sources -> 0..inserted]
PictureTypes ==
    /\ queue \in AtMostOne(Requests)
    /\ compositor \in [pc : {"new", "idle", "taken", "ready", "ended"}, request : Requests]
    /\ latest \in AtMostOne(Pictures)
    /\ shown \in Pictures
StreamTypes ==
    /\ generation \in 0..MaxStreams /\ stream \in 0..generation
    /\ publishers \in [1..MaxStreams -> [state : {"none", "running", "failing", "ended"},
                                         queued : 0..QueueDepth, open : BOOLEAN]]
    /\ streamErrors \in Seq(1..MaxStreams)

\* Callbacks that have yet to enter their frame.
Called == {cb \in callbacks : cb.stage = "called"}

\* Every frame in the hub was captured: the callbacks that have yet to enter
\* theirs make up the difference.
BoundInv ==
    /\ SceneTypes /\ FrameTypes /\ PictureTypes /\ StreamTypes
    /\ IsFiniteSet(callbacks)
    /\ inserted + Cardinality(Called) <= captured

LEMMA TypesTogether ==
    ASSUME BoundInv, MarkInv
    PROVE  TypeOK
BY DEF BoundInv, MarkInv, TypeOK, SceneTypes, FrameTypes, PictureTypes, StreamTypes, EventNames

LEMMA SlotTypes ==
    ASSUME NEW S
    PROVE  /\ {} \in AtMostOne(S)
           /\ \A x \in S : {x} \in AtMostOne(S)
           /\ \A T \in AtMostOne(S) : T # {} => (CHOOSE x \in T : TRUE) \in S
BY DEF AtMostOne

LEMMA ComposedType ==
    ASSUME NEW r \in Requests
    PROVE  Picture(r) \in Pictures
<1>1. 0 \in 0..MaxFrames
  BY PipelineAssumption
<1> QED
  BY <1>1 DEF Picture, Pictures, Requests

LEMMA EmptyTypes == NoRequest \in Requests /\ Nothing \in Pictures
<1>1. 0 \in 0..MaxFrames /\ 0 \in 0..MaxVersion
  BY PipelineAssumption
<1> QED
  BY <1>1 DEF NoRequest, Nothing, NoFrames, Requests, Pictures

\* A callback begins, or enters its frame.
LEMMA CallbackBounds ==
    ASSUME BoundInv, NEW s \in Sources, Callback(s)
    PROVE  BoundInv'
<1> USE DEF BoundInv
<1> DEFINE new == [source |-> s, capture |-> captures[s], stage |-> "called"]
<1>1. /\ captured' = captured + 1 /\ callbacks' = callbacks \cup {new} /\ captured < MaxFrames
      /\ captures[s] # 0
      /\ UNCHANGED <<sceneVars, inserted, frames, removed, loopVars, composeVars, streamVars>>
  BY DEF Callback
<1>2. new \in [source : Sources, capture : 1..MaxVersion, stage : {"called", "entered"}]
      /\ new.stage = "called"
  BY <1>1 DEF SceneTypes
<1> HIDE DEF new
<1>3. SceneTypes'
  BY <1>1, <1>2 DEF SceneTypes, sceneVars, loopVars
<1>4. FrameTypes'
  BY <1>1, PipelineAssumption DEF FrameTypes, loopVars
<1>5. PictureTypes' /\ StreamTypes'
  BY <1>1 DEF PictureTypes, StreamTypes, composeVars, loopVars, streamVars
<1>6. IsFiniteSet(callbacks')
  BY <1>1, FS_AddElement
<1>7. inserted' + Cardinality(Called') <= captured'
  <2>1. Called' = Called \cup {new}
    BY <1>1, <1>2 DEF Called
  <2>2. IsFiniteSet(Called) /\ Cardinality(Called) \in Nat
    BY FS_Subset, FS_CardinalityType DEF Called
  <2>3. Cardinality(Called \cup {new}) \in {Cardinality(Called), Cardinality(Called) + 1}
    <3>1. Cardinality(Called \cup {new}) =
             IF new \in Called THEN Cardinality(Called) ELSE Cardinality(Called) + 1
      BY <2>2, FS_AddElement, Zenon
    <3> QED
      BY <3>1, Zenon
  <2> QED
    BY <1>1, <2>1, <2>2, <2>3, PipelineAssumption DEF FrameTypes
<1> QED
  BY <1>3, <1>4, <1>5, <1>6, <1>7

LEMMA SubmitBounds ==
    ASSUME BoundInv, NEW cb \in callbacks, Submit(cb)
    PROVE  BoundInv'
<1> USE DEF BoundInv
<1>0. /\ UNCHANGED <<sceneVars, captured, removed, loopVars, composeVars, streamVars>>
      /\ cb.source \in Sources /\ cb.stage \in {"called", "entered"}
      /\ cb \in [source : Sources, capture : 1..MaxVersion, stage : {"called", "entered"}]
  BY DEF Submit, SceneTypes
<1>1. PictureTypes' /\ StreamTypes'
  BY <1>0 DEF PictureTypes, StreamTypes, composeVars, loopVars, streamVars
<1>2. IsFiniteSet(Called) /\ Cardinality(Called) \in Nat /\ IsFiniteSet(callbacks \ {cb})
  BY FS_Subset, FS_CardinalityType DEF Called
<1>3. CASE cb.stage = "called"
  <2> DEFINE new == [cb EXCEPT !.stage = "entered"]
  <2>1. /\ callbacks' = (callbacks \ {cb}) \cup {new} /\ inserted' = inserted + 1
        /\ frames' = [frames EXCEPT ![cb.source] = inserted']
    BY <1>3 DEF Submit
  <2>2. /\ new \in [source : Sources, capture : 1..MaxVersion, stage : {"called", "entered"}]
        /\ new.stage = "entered"
    BY <1>0
  <2> HIDE DEF new
  <2>3. SceneTypes'
    BY <1>0, <2>1, <2>2 DEF SceneTypes, sceneVars, loopVars
  <2>4. IsFiniteSet(callbacks')
    BY <1>2, <2>1, FS_AddElement
  <2>5. Called' = Called \ {cb} /\ cb \in Called
    BY <1>3, <2>1, <2>2 DEF Called
  <2>6. Cardinality(Called') = Cardinality(Called) - 1 /\ Cardinality(Called') \in Nat
    <3>1. IsFiniteSet(Called \ {cb}) /\ Cardinality(Called \ {cb}) = Cardinality(Called) - 1
      BY <1>2, <2>5, FS_RemoveElement
    <3> QED
      BY <2>5, <3>1, FS_CardinalityType
  <2>7. /\ inserted' + Cardinality(Called') <= captured'
        /\ inserted' \in 0..captured' /\ captured' \in 0..MaxFrames
    BY <1>0, <1>2, <2>1, <2>6, PipelineAssumption DEF FrameTypes
  <2>8. FrameTypes'
    BY <1>0, <2>1, <2>7, PipelineAssumption DEF FrameTypes, loopVars
  <2> QED
    BY <1>1, <2>3, <2>4, <2>7, <2>8
<1>4. CASE cb.stage = "entered"
  <2>1. callbacks' = callbacks \ {cb} /\ UNCHANGED <<frames, inserted>>
    BY <1>4 DEF Submit
  <2>2. Called' = Called
    BY <1>4, <2>1 DEF Called
  <2>3. SceneTypes' /\ FrameTypes'
    BY <1>0, <2>1 DEF SceneTypes, FrameTypes, sceneVars, loopVars
  <2> QED
    BY <1>0, <1>1, <1>2, <2>1, <2>2, <2>3
<1> QED
  BY <1>0, <1>3, <1>4

\* Steps that leave the callbacks and their frames alone.
LEMMA QuietBounds ==
    ASSUME BoundInv, UNCHANGED <<callbacks, captured, inserted>>
    PROVE  IsFiniteSet(callbacks') /\ inserted' + Cardinality(Called') <= captured'
BY DEF BoundInv, Called

LEMMA SceneBounds ==
    ASSUME BoundInv, Edit \/ \E s \in Sources : AddSource(s) \/ RemoveSource(s)
    PROVE  BoundInv'
<1> USE DEF BoundInv
<1>1. /\ scene.version < MaxVersion
      /\ UNCHANGED <<callbacks, captured, inserted, loopVars, composeVars, streamVars>>
  BY DEF AddSource, RemoveSource, Edit
<1>2. /\ scene.version + 1 \in 1..MaxVersion /\ scene.version + 1 \in 0..MaxVersion
      /\ 0 \in 0..MaxVersion
  BY <1>1, PipelineAssumption DEF SceneTypes
<1>3. SceneTypes'
  BY <1>1, <1>2 DEF AddSource, RemoveSource, Edit, SceneTypes, loopVars
<1>4. FrameTypes'
  <2>1. 0 \in 0..inserted
    BY PipelineAssumption DEF FrameTypes
  <2> QED
    BY <1>1, <2>1 DEF AddSource, RemoveSource, Edit, FrameTypes, loopVars
<1>5. PictureTypes' /\ StreamTypes'
  BY <1>1 DEF PictureTypes, StreamTypes, composeVars, loopVars, streamVars
<1> QED
  BY <1>1, <1>3, <1>4, <1>5, QuietBounds

LEMMA LoopBounds ==
    ASSUME BoundInv, Drain \/ SubmitRequest \/ Failed
    PROVE  BoundInv'
<1> USE DEF BoundInv
<1>0. UNCHANGED <<callbacks, captured, inserted, scene, captures, compositor, latest, shown,
                  streamVars>>
  BY DEF Drain, SubmitRequest, Failed, sceneVars, hubVars, composeVars
<1>1. 0 \in 0..inserted /\ 0..inserted \subseteq 0..MaxFrames
  BY PipelineAssumption DEF FrameTypes
<1>2. SceneTypes'
  BY <1>0 DEF Drain, SubmitRequest, Failed, SceneTypes, hubVars
<1>3. FrameTypes'
  BY <1>0, <1>1 DEF Drain, SubmitRequest, Failed, FrameTypes, hubVars, NoFrames
<1>4. queue' \in AtMostOne(Requests)
  <2>1. CASE queue' = queue
    BY <2>1 DEF PictureTypes
  <2>2. CASE SubmitRequest
    <3>1. sourceFrames' \in [Sources -> 0..MaxFrames]
      BY <1>0, <1>1, <1>3 DEF FrameTypes
    <3>2. scene.version \in 0..MaxVersion /\ scene.sources \in SUBSET Sources
      BY PipelineAssumption DEF SceneTypes
    <3>3. [version |-> scene.version, sources |-> scene.sources, frames |-> sourceFrames']
          \in Requests
      BY <3>1, <3>2 DEF Requests
    <3> QED
      BY <2>2, <3>3, SlotTypes DEF SubmitRequest
  <2> QED
    BY <2>1, <2>2 DEF Drain, Failed, composeVars
<1>5. PictureTypes' /\ StreamTypes'
  BY <1>0, <1>4 DEF PictureTypes, StreamTypes, streamVars
<1> QED
  BY <1>0, <1>2, <1>3, <1>5, QuietBounds

LEMMA CompositorBounds ==
    ASSUME BoundInv, Compositor
    PROVE  BoundInv'
<1> USE DEF BoundInv
<1>0. UNCHANGED <<sceneVars, hubVars, loopVars, streamVars>>
  BY DEF Compositor, CompositorStarts, TakeRequest, Compose
<1>1. SceneTypes' /\ FrameTypes' /\ StreamTypes' /\ shown' \in Pictures
  BY <1>0 DEF SceneTypes, FrameTypes, StreamTypes, PictureTypes, sceneVars, hubVars, loopVars,
     streamVars
<1>2. CASE CompositorStarts
  BY <1>0, <1>1, <1>2, QuietBounds DEF CompositorStarts, PictureTypes, hubVars
<1>3. CASE TakeRequest
  <2>2. queue' \in AtMostOne(Requests) /\ latest' = latest
    BY <1>3, SlotTypes DEF TakeRequest
  <2> DEFINE next == CHOOSE r \in queue : TRUE
  <2>3. \/ compositor' = [pc |-> "taken", request |-> next]
        \/ compositor' = [pc |-> "ready", request |-> next]
    BY <1>3, Zenon DEF TakeRequest
  <2>1. next \in Requests
    BY <1>3, SlotTypes DEF TakeRequest, PictureTypes
  <2> HIDE DEF next
  <2>4. PictureTypes'
    BY <1>1, <2>1, <2>2, <2>3 DEF PictureTypes
  <2> QED
    BY <1>0, <1>1, <2>4, QuietBounds DEF hubVars
<1>4. CASE Compose
  <2>1. Picture(compositor.request) \in Pictures
    BY ComposedType DEF PictureTypes
  <2>2. latest' \in AtMostOne(Pictures)
    BY <1>4, <2>1, SlotTypes DEF Compose, PictureTypes
  <2>3. PictureTypes'
    BY <1>1, <1>4, <2>2, EmptyTypes DEF Compose, PictureTypes
  <2> QED
    BY <1>0, <1>1, <2>3, QuietBounds DEF hubVars
<1> QED
  BY <1>2, <1>3, <1>4 DEF Compositor

Sending == [state : {"none", "running", "failing", "ended"}, queued : 0..QueueDepth,
            open : BOOLEAN]

LEMMA PublisherUpdates ==
    ASSUME publishers \in [1..MaxStreams -> Sending], NEW g \in 1..MaxStreams
    PROVE  /\ Closed(g) \in [1..MaxStreams -> Sending]
           /\ \A v \in {"failing", "ended"} : WithState(g, v) \in [1..MaxStreams -> Sending]
           /\ \A n \in 0..QueueDepth : WithQueued(g, n) \in [1..MaxStreams -> Sending]
BY DEF Closed, WithState, WithQueued, Sending

LEMMA StreamBounds ==
    ASSUME BoundInv,
           ToggleStream \/ StreamFailed \/ (\E g \in 1..MaxStreams : Publish(g)) \/ ShowFrame
    PROVE  BoundInv'
<1> USE DEF BoundInv
<1>0. /\ UNCHANGED <<sceneVars, hubVars, main, sourceFrames, queue, compositor>>
      /\ publishers \in [1..MaxStreams -> Sending] /\ streamErrors \in Seq(1..MaxStreams)
      /\ generation \in 0..MaxStreams /\ stream \in 0..generation
      /\ stream # 0 => stream \in 1..MaxStreams
  BY PipelineAssumption, SMTT(30)
     DEF ToggleStream, StreamFailed, Publish, ShowFrame, StreamTypes, Sending, loopVars, composeVars
<1>1. SceneTypes' /\ FrameTypes'
  BY <1>0 DEF SceneTypes, FrameTypes, sceneVars, hubVars
<1>2. PictureTypes'
  <2>1. CASE ShowFrame
    <3>1. latest # {} => (CHOOSE p \in latest : TRUE) \in Pictures
      BY SlotTypes DEF PictureTypes
    <3>2. shown' \in Pictures /\ latest' \in AtMostOne(Pictures)
      BY <2>1, <3>1, SlotTypes DEF ShowFrame, PictureTypes
    <3> QED
      BY <1>0, <3>2 DEF PictureTypes
  <2>2. CASE UNCHANGED <<shown, latest>>
    BY <1>0, <2>2 DEF PictureTypes
  <2> QED
    BY <2>1, <2>2 DEF ToggleStream, StreamFailed, Publish, loopVars, composeVars
<1>3. StreamTypes'
  <2>1. CASE ToggleStream
    <3> DEFINE new == [state |-> "running", queued |-> 0, open |-> TRUE]
    <3>1. generation' \in 0..MaxStreams /\ generation' \in 1..MaxStreams /\ UNCHANGED streamErrors
      BY <1>0, <2>1, PipelineAssumption DEF ToggleStream
    <3>2. new \in Sending
      BY PipelineAssumption DEF Sending
    <3>3. /\ stream' \in {0, generation'}
          /\ \/ stream # 0 /\ publishers' = Closed(stream)
             \/ publishers' = [publishers EXCEPT ![generation'] = new]
             \/ publishers' = publishers
      BY <2>1 DEF ToggleStream
    <3> HIDE DEF new
    <3>4. publishers' \in [1..MaxStreams -> Sending]
      BY <1>0, <3>1, <3>2, <3>3, PublisherUpdates
    <3>5. stream' \in 0..generation'
      BY <3>1, <3>3, PipelineAssumption
    <3> QED
      BY <1>0, <3>1, <3>4, <3>5 DEF StreamTypes, Sending
  <2>2. CASE StreamFailed
    <3>1. /\ UNCHANGED generation /\ streamErrors' = Tail(streamErrors) /\ streamErrors # <<>>
          /\ \/ stream # 0 /\ stream' = 0 /\ publishers' = Closed(stream)
             \/ UNCHANGED <<stream, publishers>>
      BY <2>2 DEF StreamFailed
    <3>2. publishers' \in [1..MaxStreams -> Sending] /\ stream' \in 0..generation
      BY <1>0, <3>1, PublisherUpdates, PipelineAssumption
    <3>3. streamErrors' \in Seq(1..MaxStreams)
      BY <1>0, <3>1
    <3> QED
      BY <1>0, <3>1, <3>2, <3>3 DEF StreamTypes, Sending
  <2>3. ASSUME NEW g \in 1..MaxStreams, Publish(g)
        PROVE  StreamTypes'
    <3>1. UNCHANGED <<stream, generation>> /\ publishers[g].queued \in 0..QueueDepth
      BY <1>0, <2>3 DEF Publish, Sending
    <3>2. /\ \/ publishers' = WithState(g, "failing")
             \/ publishers' = WithState(g, "ended")
             \/ /\ publishers[g].queued > 0
                /\ publishers' = WithQueued(g, publishers[g].queued - 1)
          /\ streamErrors' = streamErrors \/ streamErrors' = Append(streamErrors, g)
      BY <2>3 DEF Publish
    <3>3. publishers[g].queued > 0 => publishers[g].queued - 1 \in 0..QueueDepth
      BY <3>1, PipelineAssumption
    <3>4. publishers' \in [1..MaxStreams -> Sending]
      BY <1>0, <3>2, <3>3, PublisherUpdates
    <3>5. Append(streamErrors, g) \in Seq(1..MaxStreams)
      BY <1>0, ChannelFacts, Zenon
    <3>6. streamErrors' \in Seq(1..MaxStreams)
      BY <1>0, <3>2, <3>5, Zenon
    <3> QED
      BY <1>0, <3>1, <3>4, <3>6 DEF StreamTypes, Sending
  <2>4. CASE ShowFrame
    <3>1. UNCHANGED <<generation, streamErrors>>
      BY <2>4 DEF ShowFrame
    <3>2. stream # 0 => publishers[stream].queued \in 0..QueueDepth
      BY <1>0 DEF Sending
    <3> DEFINE n == IF publishers[stream].queued < QueueDepth
                    THEN publishers[stream].queued + 1 ELSE publishers[stream].queued
    <3>3. stream # 0 => n \in 0..QueueDepth
      BY <3>2, PipelineAssumption
    <3>4. \/ UNCHANGED <<stream, publishers>>
          \/ stream # 0 /\ stream' = 0 /\ publishers' = Closed(stream)
          \/ stream # 0 /\ UNCHANGED stream /\ publishers' = WithQueued(stream, n)
      BY <2>4 DEF ShowFrame, SendToStream
    <3> HIDE DEF n
    <3>5. publishers' \in [1..MaxStreams -> Sending] /\ stream' \in 0..generation
      BY <1>0, <3>3, <3>4, PublisherUpdates, PipelineAssumption, SMTT(30)
    <3> QED
      BY <1>0, <3>1, <3>5 DEF StreamTypes, Sending
  <2> QED
    BY <2>1, <2>2, <2>3, <2>4
<1> QED
  BY <1>0, <1>1, <1>2, <1>3, QuietBounds DEF hubVars

LEMMA BoundStep ==
    ASSUME BoundInv, [Next]_vars
    PROVE  BoundInv'
<1>1. CASE UNCHANGED vars
  BY <1>1 DEF BoundInv, SceneTypes, FrameTypes, PictureTypes, StreamTypes, Called, vars,
     sceneVars, hubVars, loopVars, composeVars, streamVars
<1>2. ASSUME NEW s \in Sources, Callback(s) \/ AddSource(s) \/ RemoveSource(s)
      PROVE  BoundInv'
  BY <1>2, CallbackBounds, SceneBounds
<1>3. CASE \E cb \in callbacks : Submit(cb)
  BY <1>3, SubmitBounds
<1>4. CASE Edit
  BY <1>4, SceneBounds
<1>5. CASE EventLoop
  BY <1>5, LoopBounds, StreamBounds DEF EventLoop
<1>6. CASE Compositor
  BY <1>6, CompositorBounds
<1>7. CASE ToggleStream \/ StreamFailed \/ \E g \in 1..MaxStreams : Publish(g)
  BY <1>7, StreamBounds
<1> QED
  BY <1>1, <1>2, <1>3, <1>4, <1>5, <1>6, <1>7 DEF Next

LEMMA WakeupInit ==
    ASSUME Init
    PROVE  BoundInv /\ MarkInv /\ CallbackInv
<1>1. 0 \in 0..MaxFrames /\ 0 \in 0..MaxVersion /\ 1 \in 1..MaxVersion /\ 1 \in 0..MaxVersion
      /\ 0 \in 0..MaxStreams /\ 0 \in 0..QueueDepth /\ 0 \in 0..0
  BY PipelineAssumption
<1>2. SceneTypes
  BY <1>1 DEF Init, SceneTypes
<1>3. FrameTypes
  BY <1>1 DEF Init, FrameTypes, NoFrames
<1>4. PictureTypes
  BY EmptyTypes, SlotTypes DEF Init, PictureTypes
<1>5. StreamTypes
  BY <1>1 DEF Init, StreamTypes
<1>6. IsFiniteSet(callbacks) /\ inserted + Cardinality(Called) <= captured
  <2>1. callbacks = {} /\ Called = {} /\ inserted = 0 /\ captured = 0
    BY DEF Init, Called
  <2>2. Cardinality(Called) = 0 /\ IsFiniteSet(callbacks)
    BY <2>1, FS_EmptySet
  <2> QED
    BY <2>1, <2>2
<1>7. MarkInv
  <2>1. events = <<>> /\ Len(events) = 0 /\ events \in Seq(EventNames)
    BY DEF Init
  <2>2. \A e : Never(events, e)
    BY <2>1 DEF Never, Positions
  <2> QED
    BY <2>1, <2>2 DEF Init, MarkInv, NoFrames
<1> QED
  BY <1>2, <1>3, <1>4, <1>5, <1>6, <1>7 DEF BoundInv, Init, CallbackInv

\* No wake-up of the event loop is lost and none is sent twice, and the types
\* are kept: for any number of sources and frames, a frame in the hub has its
\* event on the way or a callback about to send it, and the unbounded channel
\* holds as many wake-ups of each kind as the hub's mark says, one or none.
THEOREM WakeupsAreKept == Spec => []Wakeups
<1>1. Init => FlowInv /\ BoundInv /\ MarkInv /\ CallbackInv
  BY FlowInit, WakeupInit
<1>2. FlowInv /\ BoundInv /\ MarkInv /\ CallbackInv /\ [Next]_vars
        => (FlowInv /\ BoundInv /\ MarkInv /\ CallbackInv)'
  BY FlowStep, BoundStep, MarkStep, CallbackStep DEF FlowInv
<1>3. BoundInv /\ MarkInv => Wakeups
  BY TypesTogether, MarkInvIsCoalesced DEF Wakeups
<1> QED
  BY <1>1, <1>2, <1>3, PTL DEF Spec

=============================================================================
