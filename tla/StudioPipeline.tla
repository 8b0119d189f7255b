--------------------------- MODULE StudioPipeline ---------------------------
(***************************************************************************)
(* How a picture gets from the captures to the screen and to a stream in   *)
(* Blip Studio (viewer.rs, rtmp.rs): capture callbacks put frames into the *)
(* frame hub, the main thread turns them and the scene into a render       *)
(* request, the compositor thread composes the latest request, the         *)
(* composition hub hands the result back, and the main thread shows it and *)
(* gives it to the RTMP publisher thread.                                  *)
(*                                                                         *)
(* A picture is abstracted to the version of the scene and the numbers of  *)
(* the frames it was composed of; frames are numbered in the order in      *)
(* which the callbacks enter them into the hub.  The canvas size is left   *)
(* out: compose_scene uses DEFAULT_CANVAS_DIMENSIONS or the locked size,   *)
(* which toggle_stream takes from a frame of that same size.               *)
(***************************************************************************)
EXTENDS Naturals, Sequences, FiniteSets

CONSTANTS
    Sources,        \* captured sources (displays, windows, cameras)
    MaxVersion,     \* bound: scene versions
    MaxFrames,      \* bound: frames captured
    MaxStreams,     \* bound: times the stream is toggled
    QueueDepth      \* rtmp.rs: FRAME_QUEUE_DEPTH

ASSUME PipelineAssumption ==
    /\ MaxVersion \in Nat \ {0} /\ MaxFrames \in Nat /\ MaxStreams \in Nat
    /\ QueueDepth \in Nat \ {0}

VARIABLES
    scene,          \* [version, sources]: the scene and the sources it uses
    captures,       \* source |-> the version that started its capture, 0 if none
    callbacks,      \* capture callbacks under way
    captured,       \* frames captured, for the bound
    inserted,       \* frames entered into the hub
    frames,         \* FrameHub.frames: source |-> frame, 0 if none
    removed,        \* FrameHub.removed_sources
    renderPending,  \* FrameHub.render_pending
    events,         \* the viewer's event channel
    main,           \* the event loop: idle, drained (inside RenderReady), quit
    sourceFrames,   \* source_frames of the event loop
    queue,          \* RenderQueue.pending: at most one request
    compositor,     \* [pc, request]: the compositor thread
    latest,         \* CompositionHub.latest: at most one picture
    composed,       \* CompositionHub.event_pending
    shown,          \* the picture on screen
    stream,         \* generation of the viewer's stream, 0 if none
    generation,     \* stream_generation
    publishers,     \* generation |-> [state, queued, open]
    streamErrors    \* the channel of stream errors

sceneVars == <<scene, captures>>
hubVars == <<callbacks, captured, inserted, frames, removed, renderPending>>
loopVars == <<main, sourceFrames, shown>>
composeVars == <<queue, compositor, latest, composed>>
streamVars == <<stream, generation, publishers, streamErrors>>
vars == <<sceneVars, hubVars, events, loopVars, composeVars, streamVars>>

Pictures == [version : 0..MaxVersion, frames : [Sources -> 0..MaxFrames]]
Requests == [version : 0..MaxVersion, sources : SUBSET Sources,
             frames : [Sources -> 0..MaxFrames]]
NoFrames == [s \in Sources |-> 0]
Nothing == [version |-> 0, frames |-> NoFrames]
NoRequest == [version |-> 0, sources |-> {}, frames |-> NoFrames]
AtMostOne(S) == {{}} \cup {{x} : x \in S}

TypeOK ==
    /\ scene \in [version : 1..MaxVersion, sources : SUBSET Sources]
    /\ captures \in [Sources -> 0..MaxVersion]
    /\ callbacks \subseteq [source : Sources, capture : 1..MaxVersion,
                            stage : {"called", "entered"}]
    /\ captured \in 0..MaxFrames /\ inserted \in 0..captured
    /\ frames \in [Sources -> 0..inserted]
    /\ removed \subseteq Sources
    /\ renderPending \in BOOLEAN /\ composed \in BOOLEAN
    /\ events \in Seq({"render", "composition", "failed"})
    /\ main \in {"idle", "drained", "quit"}
    /\ sourceFrames \in [Sources -> 0..inserted]
    /\ queue \in AtMostOne(Requests)
    /\ compositor \in [pc : {"new", "idle", "taken", "ready", "ended"}, request : Requests]
    /\ latest \in AtMostOne(Pictures)
    /\ shown \in Pictures
    /\ generation \in 0..MaxStreams /\ stream \in 0..generation
    /\ publishers \in [1..MaxStreams -> [state : {"none", "running", "failing", "ended"},
                                         queued : 0..QueueDepth, open : BOOLEAN]]
    /\ streamErrors \in Seq(1..MaxStreams)

Init ==
    /\ scene = [version |-> 1, sources |-> Sources]
    /\ captures = [s \in Sources |-> 1]
    /\ callbacks = {} /\ captured = 0 /\ inserted = 0
    /\ frames = NoFrames /\ removed = {} /\ renderPending = FALSE
    /\ events = <<>>
    /\ main = "idle" /\ sourceFrames = NoFrames /\ shown = Nothing
    /\ queue = {} /\ compositor = [pc |-> "new", request |-> NoRequest]
    /\ latest = {} /\ composed = FALSE
    /\ stream = 0 /\ generation = 0 /\ streamErrors = <<>>
    /\ publishers = [g \in 1..MaxStreams |-> [state |-> "none", queued |-> 0, open |-> FALSE]]

-----------------------------------------------------------------------------
(* FrameHub.                                                               *)

\* request_render: the first request since the last drain sends the event.
RequestRender ==
    /\ renderPending' = TRUE
    /\ events' = IF renderPending THEN events ELSE Append(events, "render")

\* The system calls back with a frame; one call at a time for each capture.
Callback(s) ==
    /\ captures[s] # 0 /\ captured < MaxFrames
    /\ \A cb \in callbacks : cb.source = s => cb.capture # captures[s]
    /\ captured' = captured + 1
    /\ callbacks' = callbacks \cup {[source |-> s, capture |-> captures[s], stage |-> "called"]}
    /\ UNCHANGED <<sceneVars, inserted, frames, removed, renderPending, events,
                   loopVars, composeVars, streamVars>>

\* Mutant: the render is requested before the frame is in the hub.
Submit_RequestFirst(cb) ==
    /\ cb \in callbacks
    /\ \/ /\ cb.stage = "called"
          /\ callbacks' = (callbacks \ {cb}) \cup {[cb EXCEPT !.stage = "entered"]}
          /\ RequestRender
          /\ UNCHANGED <<frames, inserted>>
       \/ /\ cb.stage = "entered"
          /\ callbacks' = callbacks \ {cb}
          /\ inserted' = inserted + 1
          /\ frames' = [frames EXCEPT ![cb.source] = inserted']
          /\ UNCHANGED <<renderPending, events>>
    /\ UNCHANGED <<sceneVars, captured, removed, loopVars, composeVars, streamVars>>

\* submit: the frame is entered under the lock, then a render is requested
\* outside it.  The capture may have been stopped since the callback began.
Submit(cb) ==
    /\ cb \in callbacks
    /\ \/ /\ cb.stage = "called"
          /\ callbacks' = (callbacks \ {cb}) \cup {[cb EXCEPT !.stage = "entered"]}
          /\ inserted' = inserted + 1
          /\ frames' = [frames EXCEPT ![cb.source] = inserted']
          /\ UNCHANGED <<renderPending, events>>
       \/ /\ cb.stage = "entered"
          /\ callbacks' = callbacks \ {cb}
          /\ RequestRender
          /\ UNCHANGED <<frames, inserted>>
    /\ UNCHANGED <<sceneVars, captured, removed, loopVars, composeVars, streamVars>>

-----------------------------------------------------------------------------
(* The user's changes of the scene, on the main thread between two events.  *)

\* scene_changed(None) after an edit that keeps the sources.
Edit ==
    /\ main = "idle" /\ scene.version < MaxVersion
    /\ scene' = [scene EXCEPT !.version = @ + 1]
    /\ RequestRender
    /\ UNCHANGED <<captures, callbacks, captured, inserted, frames, removed,
                   loopVars, composeVars, streamVars>>

\* scene_changed(None) after a source was added and its capture started.
AddSource(s) ==
    /\ main = "idle" /\ scene.version < MaxVersion
    /\ s \notin scene.sources
    /\ scene' = [version |-> scene.version + 1, sources |-> scene.sources \cup {s}]
    /\ captures' = [captures EXCEPT ![s] = scene.version + 1]
    /\ RequestRender
    /\ UNCHANGED <<callbacks, captured, inserted, frames, removed,
                   loopVars, composeVars, streamVars>>

\* scene_changed(Some(s)) after the last element of s was deleted and its
\* capture stopped.
RemoveSource(s) ==
    /\ main = "idle" /\ scene.version < MaxVersion
    /\ s \in scene.sources
    /\ scene' = [version |-> scene.version + 1, sources |-> scene.sources \ {s}]
    /\ captures' = [captures EXCEPT ![s] = 0]
    /\ frames' = [frames EXCEPT ![s] = 0]
    /\ removed' = removed \cup {s}
    /\ RequestRender
    /\ UNCHANGED <<callbacks, captured, inserted, loopVars, composeVars, streamVars>>

-----------------------------------------------------------------------------
(* The event loop.                                                         *)

Event(e) == main = "idle" /\ events # <<>> /\ Head(events) = e /\ events' = Tail(events)

\* RenderReady: drain takes the frames and re-arms the request under the lock;
\* a frame that cannot be converted ends the application.
Drain ==
    /\ Event("render")
    /\ frames' = NoFrames
    /\ renderPending' = FALSE
    /\ \/ /\ main' = "drained"
          /\ sourceFrames' = [s \in Sources |->
                                 IF frames[s] # 0 THEN frames[s] ELSE sourceFrames[s]]
       \/ /\ frames # NoFrames
          /\ main' = "quit" /\ UNCHANGED sourceFrames
    /\ UNCHANGED <<sceneVars, callbacks, captured, inserted, removed, shown,
                   composeVars, streamVars>>

\* RenderReady, the rest: frames of removed sources go, and the scene as it is
\* now is submitted, in place of a request that was not taken yet.
SubmitRequest ==
    /\ main = "drained"
    /\ main' = "idle"
    /\ sourceFrames' = [s \in Sources |-> IF s \in removed THEN 0 ELSE sourceFrames[s]]
    /\ removed' = {}
    /\ queue' = {[version |-> scene.version, sources |-> scene.sources,
                  frames |-> sourceFrames']}
    /\ UNCHANGED <<sceneVars, callbacks, captured, inserted, frames, renderPending, events,
                   shown, compositor, latest, composed, streamVars>>

\* The publishers after one of them loses its sender, or has another state or
\* queue.
Closed(g) == [publishers EXCEPT ![g].open = FALSE]
WithState(g, v) == [publishers EXCEPT ![g].state = v]
WithQueued(g, n) == [publishers EXCEPT ![g].queued = n]

\* RtmpStream.send: a full queue drops the picture, a publisher that is gone is
\* an error, after which the viewer has no stream.
SendToStream ==
    IF stream = 0 THEN UNCHANGED <<stream, publishers>>
    ELSE \/ /\ publishers[stream].state = "ended"
            /\ stream' = 0
            /\ publishers' = Closed(stream)
         \/ /\ publishers[stream].state # "ended"
            /\ publishers' = WithQueued(stream, IF publishers[stream].queued < QueueDepth
                                               THEN publishers[stream].queued + 1
                                               ELSE publishers[stream].queued)
            /\ UNCHANGED stream

\* Mutant: taking the picture does not re-arm the event.
ShowFrame_StaysPending ==
    /\ Event("composition")
    /\ latest' = {}
    /\ IF latest = {} THEN UNCHANGED <<shown, stream, publishers>>
       ELSE shown' = (CHOOSE p \in latest : TRUE) /\ SendToStream
    /\ UNCHANGED <<sceneVars, hubVars, main, sourceFrames, queue, compositor, composed,
                   generation, streamErrors>>

\* CompositionReady: CompositionHub.take, then show_frame.
ShowFrame ==
    /\ Event("composition")
    /\ composed' = FALSE
    /\ latest' = {}
    /\ IF latest = {} THEN UNCHANGED <<shown, stream, publishers>>
       ELSE shown' = (CHOOSE p \in latest : TRUE) /\ SendToStream
    /\ UNCHANGED <<sceneVars, hubVars, main, sourceFrames, queue, compositor,
                   generation, streamErrors>>

\* CompositionFailed: the application quits.
Failed ==
    /\ Event("failed")
    /\ main' = "quit"
    /\ UNCHANGED <<sceneVars, hubVars, sourceFrames, shown, composeVars, streamVars>>

-----------------------------------------------------------------------------
(* run_compositor.                                                         *)

\* FrameCompositor::new, once.
CompositorStarts ==
    /\ compositor.pc = "new"
    /\ \/ compositor' = [compositor EXCEPT !.pc = "idle"] /\ UNCHANGED events
       \/ /\ compositor' = [compositor EXCEPT !.pc = "ended"]
          /\ events' = Append(events, "failed")
    /\ UNCHANGED <<sceneVars, hubVars, loopVars, queue, latest, composed, streamVars>>

\* Mutant: the request that was taken first goes back into the queue.
TakeRequest_Requeue ==
    /\ queue # {}
    /\ \/ /\ compositor.pc = "idle"
          /\ compositor' = [pc |-> "taken", request |-> CHOOSE r \in queue : TRUE]
          /\ queue' = {}
       \/ /\ compositor.pc = "taken"
          /\ compositor' = [pc |-> "ready", request |-> CHOOSE r \in queue : TRUE]
          /\ queue' = {compositor.request}
    /\ UNCHANGED <<sceneVars, hubVars, events, loopVars, latest, composed, streamVars>>

\* RenderQueue.take, and after RENDER_INTERVAL's delay take_pending.
TakeRequest ==
    /\ queue # {}
    /\ \/ /\ compositor.pc = "idle"
          /\ compositor' = [pc |-> "taken", request |-> CHOOSE r \in queue : TRUE]
       \/ /\ compositor.pc = "taken"
          /\ compositor' = [pc |-> "ready", request |-> CHOOSE r \in queue : TRUE]
    /\ queue' = {}
    /\ UNCHANGED <<sceneVars, hubVars, events, loopVars, latest, composed, streamVars>>

\* compose_scene: what the request's scene shows of the request's frames.
Picture(r) ==
    [version |-> r.version,
     frames |-> [s \in Sources |-> IF s \in r.sources THEN r.frames[s] ELSE 0]]

\* Compose and submit to the composition hub: the latest picture replaces one
\* that was not shown; the event is sent if none is on its way.
Compose ==
    /\ compositor.pc \in {"taken", "ready"}
    /\ compositor' = [pc |-> "idle", request |-> NoRequest]
    /\ \/ /\ latest' = {Picture(compositor.request)}
          /\ composed' = TRUE
          /\ events' = IF composed THEN events ELSE Append(events, "composition")
       \/ events' = Append(events, "failed") /\ UNCHANGED <<latest, composed>>
    /\ UNCHANGED <<sceneVars, hubVars, loopVars, queue, streamVars>>

-----------------------------------------------------------------------------
(* The stream.                                                             *)

\* toggle_stream: stops the stream, or starts one once a frame was shown.
ToggleStream ==
    /\ main = "idle" /\ generation < MaxStreams
    /\ generation' = generation + 1
    /\ \/ /\ stream # 0
          /\ stream' = 0
          /\ publishers' = Closed(stream)
       \/ /\ stream = 0 /\ shown # Nothing
          /\ stream' = generation'
          /\ publishers' = [publishers EXCEPT ![generation'] =
                               [state |-> "running", queued |-> 0, open |-> TRUE]]
       \/ stream = 0 /\ UNCHANGED <<stream, publishers>>
    /\ UNCHANGED <<sceneVars, hubVars, events, loopVars, composeVars, streamErrors>>

\* publish: takes pictures while the sender lives and then flushes; any call of
\* FFmpeg may fail, which is reported before the receiver goes away.
Publish(g) ==
    /\ \/ /\ publishers[g].state = "running" /\ publishers[g].queued > 0
          /\ publishers' = WithQueued(g, publishers[g].queued - 1)
          /\ UNCHANGED streamErrors
       \/ /\ publishers[g].state = "running"
          /\ publishers' = WithState(g, "failing")
          /\ streamErrors' = Append(streamErrors, g)
       \/ /\ \/ publishers[g].state = "failing"
             \/ /\ publishers[g].state = "running"
                /\ publishers[g].queued = 0 /\ ~publishers[g].open
          /\ publishers' = WithState(g, "ended")
          /\ UNCHANGED streamErrors
    /\ UNCHANGED <<sceneVars, hubVars, events, loopVars, composeVars, stream, generation>>

\* Mutant: an error ends whatever stream there is.
StreamFailed_AnyGeneration ==
    /\ main = "idle" /\ streamErrors # <<>>
    /\ streamErrors' = Tail(streamErrors)
    /\ stream' = 0
    /\ publishers' = IF stream = 0 THEN publishers
                     ELSE Closed(stream)
    /\ UNCHANGED <<sceneVars, hubVars, events, loopVars, composeVars, generation>>

\* stream_failed: an error of another generation is ignored.
StreamFailed ==
    /\ main = "idle" /\ streamErrors # <<>>
    /\ streamErrors' = Tail(streamErrors)
    /\ IF Head(streamErrors) = generation /\ stream # 0
       THEN /\ stream' = 0
            /\ publishers' = Closed(stream)
       ELSE UNCHANGED <<stream, publishers>>
    /\ UNCHANGED <<sceneVars, hubVars, events, loopVars, composeVars, generation>>

-----------------------------------------------------------------------------
EventLoop == Drain \/ SubmitRequest \/ ShowFrame \/ Failed
Compositor == CompositorStarts \/ TakeRequest \/ Compose

\* Quitting ends the process and its threads.
Next ==
    /\ main # "quit"
    /\ \/ \E s \in Sources : Callback(s) \/ AddSource(s) \/ RemoveSource(s)
       \/ \E cb \in callbacks : Submit(cb)
       \/ Edit
       \/ EventLoop
       \/ Compositor
       \/ ToggleStream
       \/ \E g \in 1..MaxStreams : Publish(g)
       \/ StreamFailed

\* The main thread and the compositor thread run, and a callback that was
\* called finishes.  Nothing is assumed of the publisher, which may hang in a
\* network write, or of the user and the captures.
Fairness ==
    /\ WF_vars(EventLoop) /\ WF_vars(StreamFailed)
    /\ WF_vars(main # "quit" /\ Compositor)
    /\ \A s \in Sources :
          WF_vars(main # "quit" /\ \E cb \in callbacks : cb.source = s /\ Submit(cb))

Spec == Init /\ [][Next]_vars /\ Fairness

-----------------------------------------------------------------------------
(* Properties.                                                             *)

Count(e) == Cardinality({i \in 1..Len(events) : events[i] = e})

\* A frame in the hub always has a wake-up on its way: the event is queued, or
\* the callback that entered a frame has yet to request a render.
WakeupPending ==
    (\E s \in Sources : frames[s] # 0) =>
        \/ renderPending /\ Count("render") = 1
        \/ \E cb \in callbacks : cb.stage = "entered"

\* However fast captures and compositor run, the unbounded event channel holds
\* at most one wake-up of each kind, and exactly one while it is marked pending.
Coalesced ==
    /\ Count("render") = (IF renderPending THEN 1 ELSE 0)
    /\ Count("composition") = (IF composed THEN 1 ELSE 0)

\* No wake-up is lost and none is sent twice, and the types are kept.
Wakeups == TypeOK /\ WakeupPending /\ Coalesced

\* The screen never goes back to an older scene, nor to an older frame of a
\* source, although requests and pictures wait in three places and overtake
\* each other's events.
ShownGoesForward ==
    [][/\ shown'.version >= shown.version
       /\ \A s \in Sources : shown'.frames[s] # 0 => shown'.frames[s] >= shown.frames[s]]_vars

\* Every change of the scene is shown, or a later one is, unless the
\* application quits.
ChangesAreShown ==
    \A v \in 2..MaxVersion :
        scene.version = v ~> shown.version >= v \/ main = "quit"

\* A frame in the hub of a source that the scene uses is shown, or a later
\* one is, or the source is removed.  (A frame that arrives while the removal
\* of its source is still to be handled is left out: it is dropped with the
\* removed capture's frames.)
FramesAreShown ==
    \A s \in Sources, f \in 1..MaxFrames :
        frames[s] = f /\ s \in scene.sources /\ s \notin removed ~>
            \/ shown.frames[s] >= f
            \/ s \notin scene.sources
            \/ main = "quit"

\* A late error of a stream that was stopped never ends the stream that was
\* started since: without a toggle the viewer gives up a stream only when its
\* own publisher has failed.
OnlyOwnErrors ==
    [][stream # 0 /\ stream' = 0 /\ generation' = generation
           => publishers[stream].state \in {"failing", "ended"}]_vars

\* A stream whose publisher failed is given up, so that the next toggle
\* starts a new one.
FailureEndsStream ==
    \A g \in 1..MaxStreams :
        stream = g /\ publishers[g].state = "failing" ~> stream # g \/ main = "quit"

=============================================================================
