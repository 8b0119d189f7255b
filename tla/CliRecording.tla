---------------------------- MODULE CliRecording ----------------------------
(***************************************************************************)
(* The record command of the command line tool: the main thread, the       *)
(* signal handler, the thread that reads the stop key, the callbacks of    *)
(* the capture and the writer thread.  They meet in two bounded channels:  *)
(* one for the reason to stop, with room for one, and one for the frames.  *)
(*                                                                         *)
(* Frames are counted, not told apart.  The process ends with the main     *)
(* thread, whatever the others are doing.                                  *)
(***************************************************************************)
EXTENDS Integers, Sequences

CONSTANTS
    QueueDepth,     \* FRAME_QUEUE_DEPTH
    MaxFrames,      \* bound on the frames the capture delivers
    MaxSignals      \* bound on the interrupts that arrive

RecordingAssumption ==
    /\ QueueDepth \in Nat \ {0} /\ MaxFrames \in Nat /\ MaxSignals \in Nat

VARIABLES
    main,       \* where the main thread is
    reason,     \* the reason to stop that it received
    stopped,    \* what capturer.stop() returned
    result,     \* what record returned
    end,        \* the channel for the reason to stop
    key,        \* the thread that reads the stop key: "off", "reading", "done"
    signals,    \* interrupts so far
    stream,     \* the capture: "off", "running", "stopped", "lost"
    queue,      \* the channel to the writer
    writer,     \* the writer thread: "off", "run", "failed", "ok", "err"
    opened,     \* the writer has its Mp4Writer
    counts      \* delivered, appended, backpressure and queue drops

vars == <<main, reason, stopped, result, end, key, signals, stream, queue, writer, opened, counts>>

mainVars == <<main, reason, stopped, result>>
inputVars == <<key, signals>>
writerVars == <<writer, opened>>

Reasons == {"Interrupt", "CaptureError", "WriterError"}
Setup == <<"set_handler", "listen", "spawn", "build", "start", "waiting">>

TypeOK ==
    /\ main \in {Setup[i] : i \in 1 .. Len(Setup)} \cup {"stopping", "finishing", "joining", "done"}
    /\ reason \in Reasons \cup {"none"} /\ stopped \in {"none", "ok", "err"}
    /\ result \in {"none", "ok", "setup", "stop", "capture", "writer"}
    /\ end \in Seq(Reasons) /\ Len(end) <= 1
    /\ key \in {"off", "reading", "done"} /\ signals \in 0 .. MaxSignals
    /\ stream \in {"off", "running", "stopped", "lost"}
    /\ queue \in Seq({"Frame", "Finish"}) /\ Len(queue) <= QueueDepth
    /\ writer \in {"off", "run", "failed", "ok", "err"} /\ opened \in BOOLEAN
    /\ counts \in [delivered : 0 .. MaxFrames, appended : 0 .. MaxFrames,
                   backpressure : 0 .. MaxFrames, queue_drops : 0 .. MaxFrames]

Init ==
    /\ main = "set_handler" /\ reason = "none" /\ stopped = "none" /\ result = "none"
    /\ end = << >> /\ key = "off" /\ signals = 0
    /\ stream = "off" /\ queue = << >> /\ writer = "off" /\ opened = FALSE
    /\ counts = [delivered |-> 0, appended |-> 0, backpressure |-> 0, queue_drops |-> 0]

Alive == main # "done"

\* end_sender.try_send: a reason that finds the channel full is dropped.
try_send(message) == end' = IF end = << >> THEN <<message>> ELSE end

-----------------------------------------------------------------------------
\* The main thread up to the wait.  Each of these steps may fail, and then
\* record returns without waiting for anybody.

Step(from, to) == main = from /\ main' = to /\ UNCHANGED <<reason, stopped, result>>

SetupFails ==
    /\ main \in {"set_handler", "listen", "spawn", "build", "start"}
    /\ main' = "done" /\ result' = "setup"
    /\ UNCHANGED <<reason, stopped, end, key, signals, stream, queue, writer, opened, counts>>

set_handler ==
    /\ Step("set_handler", "listen")
    /\ UNCHANGED <<end, key, signals, stream, queue, writer, opened, counts>>

\* Without a terminal there is no stop key.
listen_for_stop_key ==
    /\ Step("listen", "spawn")
    /\ key' \in {"off", "reading"}
    /\ UNCHANGED <<end, signals, stream, queue, writer, opened, counts>>

spawn ==
    /\ Step("spawn", "build")
    /\ writer' = "run"
    /\ UNCHANGED <<end, key, signals, stream, queue, opened, counts>>

build ==
    /\ Step("build", "start")
    /\ UNCHANGED <<end, key, signals, stream, queue, writer, opened, counts>>

\* The stream runs before start() has returned.
StreamRuns ==
    /\ main = "start" /\ stream = "off"
    /\ stream' = "running"
    /\ UNCHANGED <<mainVars, end, inputVars, queue, writerVars, counts>>

start ==
    /\ stream # "off"
    /\ Step("start", "waiting")
    /\ UNCHANGED <<end, key, signals, stream, queue, writer, opened, counts>>

-----------------------------------------------------------------------------
\* end_receiver.recv(): a lost capture is not stopped again.
recv ==
    /\ main = "waiting" /\ end # << >>
    /\ reason' = Head(end) /\ end' = Tail(end)
    /\ main' = IF reason' = "CaptureError" THEN "finishing" ELSE "stopping"
    /\ UNCHANGED <<stopped, result, inputVars, stream, queue, writerVars, counts>>

\* Mutant: stop() returns before the stream has ended.
stop_Early ==
    /\ main = "stopping"
    /\ stopped' \in {"ok", "err"}
    /\ main' = "finishing"
    /\ UNCHANGED <<reason, result, end, inputVars, stream, queue, writerVars, counts>>

\* capturer.stop() waits for the stream to end, or gives up after a time.
stop ==
    /\ main = "stopping"
    /\ \/ stopped' = "ok" /\ stream' = "stopped"
       \/ stopped' = "err" /\ UNCHANGED stream
    /\ main' = "finishing"
    /\ UNCHANGED <<reason, result, end, inputVars, queue, writerVars, counts>>

\* writer_sender.send(Finish) waits for room, or for the writer to be gone.
SendFinish ==
    /\ main = "finishing"
    /\ \/ writer \in {"ok", "err"} /\ UNCHANGED queue
       \/ /\ writer \in {"run", "failed"} /\ Len(queue) < QueueDepth
          /\ queue' = Append(queue, "Finish")
    /\ main' = "joining"
    /\ UNCHANGED <<reason, stopped, result, end, inputVars, stream, writerVars, counts>>

\* What record returns once the writer has ended.
Returned ==
    CASE stopped = "err" -> "stop"
      [] stopped # "err" /\ reason = "CaptureError" -> "capture"
      [] stopped # "err" /\ reason # "CaptureError" /\ writer = "err" -> "writer"
      [] OTHER -> "ok"

join ==
    /\ main = "joining" /\ writer \in {"ok", "err"}
    /\ result' = Returned
    /\ main' = "done"
    /\ UNCHANGED <<reason, stopped, end, inputVars, stream, queue, writerVars, counts>>

-----------------------------------------------------------------------------
\* Ctrl-C, at any time once its handler is there.
Interrupt ==
    /\ Alive /\ main # "set_handler" /\ signals < MaxSignals
    /\ signals' = signals + 1
    /\ try_send("Interrupt")
    /\ UNCHANGED <<mainVars, key, stream, queue, writerVars, counts>>

\* Space, or Ctrl-C in raw mode; the thread reads no further keys.
StopKey ==
    /\ Alive /\ key = "reading"
    /\ key' = "done"
    /\ try_send("Interrupt")
    /\ UNCHANGED <<mainVars, signals, stream, queue, writerVars, counts>>

\* A frame that finds the queue full is counted; one that finds no writer is not.
VideoFrame ==
    /\ Alive /\ stream = "running" /\ counts.delivered < MaxFrames
    /\ LET room == Len(queue) < QueueDepth
           gone == writer \notin {"run", "failed"}
       IN  /\ queue' = IF room /\ ~gone THEN Append(queue, "Frame") ELSE queue
           /\ counts' = [counts EXCEPT !.delivered = @ + 1,
                                       !.queue_drops = IF ~room /\ ~gone THEN @ + 1 ELSE @]
    /\ UNCHANGED <<mainVars, end, inputVars, stream, writerVars>>

\* The stop callback: the capture has ended by itself.
CaptureLost ==
    /\ Alive /\ stream = "running"
    /\ stream' = "lost"
    /\ try_send("CaptureError")
    /\ UNCHANGED <<mainVars, inputVars, queue, writerVars, counts>>

-----------------------------------------------------------------------------
\* write_frames: the first frame opens the file; opening, appending and
\* finishing may fail, and a file without a frame cannot be finished.
WriteFrame ==
    /\ Alive /\ writer = "run" /\ queue # << >> /\ Head(queue) = "Frame"
    /\ queue' = Tail(queue)
    /\ \/ writer' = "failed" /\ opened' \in {opened, TRUE} /\ UNCHANGED counts
       \/ /\ UNCHANGED writer
          /\ opened' = TRUE
          /\ \E outcome \in {"appended", "backpressure"} :
                counts' = [counts EXCEPT ![outcome] = @ + 1]
    /\ UNCHANGED <<mainVars, end, inputVars, stream>>

WriteFinish ==
    /\ Alive /\ writer = "run" /\ queue # << >> /\ Head(queue) = "Finish"
    /\ queue' = Tail(queue)
    /\ \/ writer' = "failed"
       \/ opened /\ counts.appended > 0 /\ writer' = "ok"
    /\ UNCHANGED <<mainVars, end, inputVars, stream, opened, counts>>

\* Mutant: the writer's error is only reported when it is joined.
WriterEnds_Silent ==
    /\ Alive /\ writer = "failed"
    /\ writer' = "err"
    /\ queue' = << >>
    /\ UNCHANGED <<mainVars, end, inputVars, stream, opened, counts>>

\* The thread reports its error, and its end of the queue goes with it.
WriterEnds ==
    /\ Alive /\ writer = "failed"
    /\ writer' = "err"
    /\ queue' = << >>
    /\ try_send("WriterError")
    /\ UNCHANGED <<mainVars, inputVars, stream, opened, counts>>

MainStep ==
    \/ set_handler \/ listen_for_stop_key \/ spawn \/ build \/ start \/ SetupFails
    \/ recv \/ stop \/ SendFinish \/ join

WriterStep == WriteFrame \/ WriteFinish \/ WriterEnds

Done == ~Alive /\ UNCHANGED vars

Next ==
    \/ MainStep \/ WriterStep \/ StreamRuns
    \/ Interrupt \/ StopKey \/ VideoFrame \/ CaptureLost
    \/ Done

Spec == Init /\ [][Next]_vars /\ WF_vars(MainStep) /\ WF_vars(WriterStep) /\ WF_vars(StreamRuns)

-----------------------------------------------------------------------------
\* Every frame of a recording that succeeded is in the file, or in one of the
\* numbers printed at its end (recording.rs 123): none is left in the queue behind
\* Finish, none meets a writer that is gone.
FramesAddUp ==
    result = "ok" => counts.delivered = counts.appended + counts.backpressure + counts.queue_drops

\* A recording succeeds only when somebody asked for its end, and never when the
\* capture or the writer ended it, whichever of the reasons the full channel dropped.
OkMeansAsked ==
    result = "ok" => /\ signals > 0 \/ key = "done"
                     /\ writer = "ok" /\ counts.appended > 0

\* The numbers of a recording are true, and the types are kept.
NumbersAreTrue == TypeOK /\ OkMeansAsked /\ FramesAddUp

\* Once somebody asks for the end, the capture is lost or the writer has failed,
\* the command ends: no full channel and no ended thread keeps the others waiting.
RecordEnds ==
    (signals > 0 \/ key = "done" \/ stream = "lost" \/ writer = "err") ~> ~Alive
=============================================================================
