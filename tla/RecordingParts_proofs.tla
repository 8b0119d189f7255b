----------------------- MODULE RecordingParts_proofs -----------------------
(***************************************************************************)
(* Theorems of what records beside the recorder thread: `blip record`      *)
(* (CliRecording), for any depth of the frame queue and any number of      *)
(* frames and interrupts, and the tracks of a recording (RecordingTracks), *)
(* for any clock, queue and number of samples.                             *)
(*                                                                         *)
(* That every frame of `blip record` is accounted for rests on what is in  *)
(* the queue: only frames until Finish is sent, and one Finish from then   *)
(* on, which is the last message when the stream was stopped before it was *)
(* sent.  That success was asked for rests on what a reason in the channel *)
(* says of who sent it.                                                    *)
(*                                                                         *)
(* That the tracks are in sync rests on the order of capture, which a      *)
(* file, the queue before it and the next callback keep, and on a file's   *)
(* time starting at the first sample that is in it: a sample that was      *)
(* refused ends its thread.                                                *)
(***************************************************************************)
EXTENDS CliRecording, RecordingTracks, TLAPS

Messages == {"Frame", "Finish"}

Counts == [delivered : 0 .. MaxFrames, appended : 0 .. MaxFrames,
           backpressure : 0 .. MaxFrames, queue_drops : 0 .. MaxFrames]

\* What the printed numbers come to.
Sum == counts.appended + counts.backpressure + counts.queue_drops

OnlyFrames(q) == \A i \in 1 .. Len(q) : q[i] = "Frame"
FinishAt(q, p) ==
    /\ p \in 1 .. Len(q) /\ q[p] = "Finish"
    /\ \A i \in 1 .. Len(q) : i # p => q[i] = "Frame"

-----------------------------------------------------------------------------
(* The inductive invariant.                                                *)

\* Who is there, by where the main thread is.
Stages ==
    /\ main \in {"set_handler", "listen", "spawn"} => writer = "off"
    /\ main \in {"set_handler", "listen"} => key = "off"
    /\ main \in {"build", "start", "waiting", "stopping", "finishing", "joining"} => writer # "off"
    /\ main \in {"set_handler", "listen", "spawn", "build"} => stream = "off"
    /\ main # "done" => result = "none"
    /\ main \in {"stopping", "finishing", "joining"} => reason \in Reasons
    /\ main \in {"finishing", "joining"} /\ reason # "CaptureError" => stopped \in {"ok", "err"}
    /\ stopped = "ok" => stream = "stopped"

\* A reason was sent by the one it names, and the writer has ended by then.
Asked == signals > 0 \/ key = "done"
Meant(x) == (x = "Interrupt" => Asked) /\ (x = "WriterError" => writer = "err")
ReasonsMeant == Meant(reason) /\ \A i \in 1 .. Len(end) : Meant(end[i])

\* Frames that were delivered and are neither in the file nor in a number yet.
Pending == IF main = "joining" THEN Len(queue) - 1 ELSE Len(queue)

QueueHolds ==
    /\ writer = "off" => queue = << >>
    /\ main \notin {"joining", "done"} => OnlyFrames(queue) /\ writer # "ok"
    /\ main = "joining" /\ writer = "run" =>
          \E p \in 1 .. Len(queue) : FinishAt(queue, p) /\ (stopped = "ok" => p = Len(queue))
Accounts ==
    /\ Sum <= counts.delivered
    /\ main # "done" /\ writer \in {"off", "run"} => counts.delivered = Sum + Pending
    /\ writer = "ok" => opened /\ counts.appended > 0
    /\ writer = "ok" /\ stopped = "ok" => counts.delivered = Sum

Succeeded == result = "ok" => main = "done" /\ writer = "ok" /\ stopped = "ok" /\ Asked

IInv == TypeOK /\ Stages /\ ReasonsMeant /\ QueueHolds /\ Accounts /\ Succeeded

-----------------------------------------------------------------------------
(* Lemmas about the two channels.                                          *)

LEMMA SentMessage ==
    ASSUME NEW q \in Seq(Messages), NEW x \in Messages
    PROVE  /\ Append(q, x) \in Seq(Messages) /\ Len(Append(q, x)) = Len(q) + 1
           /\ x = "Frame" /\ OnlyFrames(q) => OnlyFrames(Append(q, x))
           /\ x = "Frame" => \A p \in 1 .. Len(q) : FinishAt(q, p) => FinishAt(Append(q, x), p)
           /\ x = "Finish" /\ OnlyFrames(q) => FinishAt(Append(q, x), Len(q) + 1)
<1>1. /\ Append(q, x) \in Seq(Messages) /\ Len(Append(q, x)) = Len(q) + 1 /\ Len(q) \in Nat
      /\ \A i \in 1 .. Len(q) : Append(q, x)[i] = q[i]
      /\ Append(q, x)[Len(q) + 1] = x
  OBVIOUS
<1>2. \A i \in 1 .. (Len(q) + 1) : i \in 1 .. Len(q) \/ i = Len(q) + 1
  BY <1>1
<1>3. /\ Len(q) + 1 \in 1 .. (Len(q) + 1) /\ 1 .. Len(q) \subseteq 1 .. (Len(q) + 1)
      /\ Len(q) + 1 \notin 1 .. Len(q)
  BY <1>1
<1> HIDE DEF Messages
<1> QED
  BY <1>1, <1>2, <1>3 DEF OnlyFrames, FinishAt

LEMMA TakenMessage ==
    ASSUME NEW q \in Seq(Messages), q # << >>
    PROVE  /\ Tail(q) \in Seq(Messages) /\ Len(Tail(q)) = Len(q) - 1
           /\ Len(q) \in Nat /\ Len(q) > 0 /\ Head(q) = q[1] /\ 1 \in 1 .. Len(q)
           /\ Head(q) \in Messages
           /\ OnlyFrames(q) => OnlyFrames(Tail(q))
           /\ \A p \in 1 .. Len(q) : FinishAt(q, p) =>
                 /\ Head(q) = "Finish" => p = 1
                 /\ Head(q) = "Frame" =>
                       p # 1 /\ p - 1 \in 1 .. Len(Tail(q)) /\ FinishAt(Tail(q), p - 1)
<1>1. /\ Tail(q) \in Seq(Messages) /\ Len(Tail(q)) = Len(q) - 1
      /\ Len(q) \in Nat /\ Len(q) > 0 /\ Head(q) = q[1] /\ Head(q) \in Messages
      /\ \A i \in 1 .. Len(Tail(q)) : Tail(q)[i] = q[i + 1]
  OBVIOUS
<1>2. 1 \in 1 .. Len(q) /\ \A i \in 1 .. Len(Tail(q)) : i + 1 \in 1 .. Len(q) /\ i + 1 # 1
  BY <1>1
<1>3. OnlyFrames(q) => OnlyFrames(Tail(q))
  BY <1>1, <1>2 DEF OnlyFrames
<1>4. ASSUME NEW p \in 1 .. Len(q), FinishAt(q, p)
      PROVE  /\ Head(q) = "Finish" => p = 1
             /\ Head(q) = "Frame" =>
                   p # 1 /\ p - 1 \in 1 .. Len(Tail(q)) /\ FinishAt(Tail(q), p - 1)
  <2>1. Head(q) = "Finish" => p = 1
    BY <1>1, <1>2, <1>4 DEF FinishAt
  <2>2. Head(q) = "Frame" => p # 1
    BY <1>1, <1>4 DEF FinishAt
  <2>3. ASSUME p # 1
        PROVE  p - 1 \in 1 .. Len(Tail(q)) /\ FinishAt(Tail(q), p - 1)
    <3>1. p - 1 \in 1 .. Len(Tail(q)) /\ (p - 1) + 1 = p
      BY <1>1, <2>3
    <3>2. Tail(q)[p - 1] = "Finish"
      BY <1>1, <1>4, <3>1 DEF FinishAt
    <3>3. \A i \in 1 .. Len(Tail(q)) : i # p - 1 => i + 1 # p
      BY <1>1
    <3>4. \A i \in 1 .. Len(Tail(q)) : i # p - 1 => Tail(q)[i] = "Frame"
      BY <1>1, <1>2, <1>4, <3>3 DEF FinishAt
    <3> QED
      BY <3>1, <3>2, <3>4 DEF FinishAt
  <2> QED
    BY <2>1, <2>2, <2>3
<1> QED
  BY <1>1, <1>2, <1>3, <1>4

\* try_send: the channel keeps what it has, and what comes in is meant.
LEMMA TrySend ==
    ASSUME end \in Seq(Reasons), Len(end) <= 1, NEW x \in Reasons, try_send(x),
           \A i \in 1 .. Len(end) : Meant(end[i]),
           \A y \in Reasons : Meant(y) => Meant(y)',
           Meant(x)'
    PROVE  /\ end' \in Seq(Reasons) /\ Len(end') <= 1
           /\ \A i \in 1 .. Len(end') : Meant(end[i])'
<1>1. CASE end = << >>
  <2>1. end' = <<x>> /\ Len(end') = 1 /\ end'[1] = x /\ end' \in Seq(Reasons)
    BY <1>1 DEF try_send
  <2>2. \A i \in 1 .. Len(end') : end'[i] = x
    BY <2>1
  <2> QED
    BY <2>1, <2>2 DEF Meant, Asked
<1>2. CASE end # << >>
  <2>1. end' = end /\ \A i \in 1 .. Len(end) : end[i] \in Reasons
    BY <1>2 DEF try_send
  <2> QED
    BY <2>1 DEF Meant, Asked
<1> QED
  BY <1>1, <1>2

-----------------------------------------------------------------------------
(* One lemma per group of steps.                                           *)

LEMMA InitInv ==
    ASSUME RecordingAssumption, Init
    PROVE  IInv
<1>1. queue = << >> /\ end = << >> /\ Len(queue) = 0 /\ Len(end) = 0
  BY DEF Init
<1>2. 0 \in 0 .. MaxFrames /\ 0 \in 0 .. MaxSignals /\ 0 <= QueueDepth
  BY DEF RecordingAssumption
<1>3. main \in {Setup[i] : i \in 1 .. Len(Setup)}
  <2>1. 1 \in 1 .. Len(Setup) /\ Setup[1] = "set_handler"
    BY DEF Setup
  <2> QED
    BY <2>1 DEF Init
<1>4. TypeOK
  <2>1. end \in Seq(Reasons) /\ queue \in Seq({"Frame", "Finish"})
    BY <1>1
  <2>2. Len(end) <= 1 /\ Len(queue) <= QueueDepth
    BY <1>1, <1>2
  <2>3. counts \in [delivered : 0 .. MaxFrames, appended : 0 .. MaxFrames,
                    backpressure : 0 .. MaxFrames, queue_drops : 0 .. MaxFrames]
    BY <1>2 DEF Init
  <2> QED
    BY <1>2, <1>3, <2>1, <2>2, <2>3 DEF Init, TypeOK
<1> QED
  BY <1>1, <1>4
     DEF Init, IInv, Stages, ReasonsMeant, Meant, QueueHolds, OnlyFrames, Accounts, Sum, Pending,
         Succeeded, Reasons

\* The types without the counts, and what the counts are.
LEMMA Typed ==
    ASSUME TypeOK, RecordingAssumption
    PROVE  /\ counts \in Counts
           /\ counts.delivered \in Nat /\ counts.appended \in Nat
           /\ counts.backpressure \in Nat /\ counts.queue_drops \in Nat
           /\ queue \in Seq(Messages) /\ Len(queue) \in Nat /\ Sum \in Nat
BY DEF TypeOK, Counts, Messages, Sum, RecordingAssumption

\* The main thread before it waits.
LEMMA SetupSteps ==
    ASSUME IInv, RecordingAssumption,
           \/ set_handler \/ listen_for_stop_key \/ spawn \/ build \/ start
           \/ SetupFails \/ StreamRuns
    PROVE  IInv'
<1> USE DEF IInv
<1>0. /\ UNCHANGED <<end, signals, queue, opened, counts, reason, stopped>>
      /\ main \in {"set_handler", "listen", "spawn", "build", "start"}
      /\ main' \in {"listen", "spawn", "build", "start", "waiting", "done"}
  BY DEF set_handler, listen_for_stop_key, spawn, build, start, SetupFails, StreamRuns, Step,
         mainVars, inputVars, writerVars
<1>1. TypeOK'
  BY SMTT(30) DEF TypeOK, set_handler, listen_for_stop_key, spawn, build, start, SetupFails, StreamRuns,
         Step, mainVars, inputVars, writerVars, Setup
<1>2. Stages'
  BY <1>0 DEF Stages, set_handler, listen_for_stop_key, spawn, build, start, SetupFails,
         StreamRuns, Step, mainVars, inputVars, writerVars
<1>3. UNCHANGED key \/ (key = "off" /\ signals' = signals)
  BY <1>0 DEF Stages, set_handler, listen_for_stop_key, spawn, build, start, SetupFails,
         StreamRuns, Step, mainVars, inputVars, writerVars
<1>4. UNCHANGED writer \/ (writer = "off" /\ writer' = "run")
  BY <1>0 DEF Stages, set_handler, listen_for_stop_key, spawn, build, start, SetupFails,
         StreamRuns, Step, mainVars, inputVars, writerVars
<1>5. ReasonsMeant'
  BY <1>0, <1>3, <1>4 DEF ReasonsMeant, Meant, Asked
<1>6. QueueHolds' /\ Accounts'
  BY <1>0, <1>4 DEF QueueHolds, Accounts, Sum, Pending, OnlyFrames
<1>7. Succeeded'
  <2>1. result' \in {"none", "setup"}
    BY <1>0 DEF Stages, set_handler, listen_for_stop_key, spawn, build, start, SetupFails,
         StreamRuns, Step, mainVars
  <2> QED
    BY <2>1 DEF Succeeded
<1> QED
  BY <1>1, <1>2, <1>5, <1>6, <1>7

\* recv and stop: the queue is left alone.
LEMMA WaitSteps ==
    ASSUME IInv, RecordingAssumption, recv \/ stop
    PROVE  IInv'
<1> USE DEF IInv
<1>0. /\ UNCHANGED <<result, key, signals, queue, writer, opened, counts>>
      /\ main \in {"waiting", "stopping"} /\ main' \in {"stopping", "finishing"}
  BY DEF recv, stop, inputVars, writerVars
<1>1. /\ end' \in Seq(Reasons) /\ Len(end') <= 1 /\ reason' \in Reasons
      /\ \A i \in 1 .. Len(end') : Meant(end[i])'
      /\ Meant(reason)'
  <2>1. CASE recv
    <3>1. /\ end \in Seq(Reasons) /\ Len(end) <= 1 /\ end # << >>
          /\ reason' = Head(end) /\ end' = Tail(end)
      BY <2>1 DEF recv, TypeOK
    <3> HIDE DEF Reasons
    <3>2. /\ Len(end) \in Nat /\ Len(end) # 0 /\ Head(end) = end[1]
          /\ Tail(end) \in Seq(Reasons) /\ Len(Tail(end)) = Len(end) - 1
          /\ \A i \in 1 .. Len(end) : end[i] \in Reasons
      BY <3>1
    <3>3. Len(end) = 1 /\ Len(end') = 0 /\ 1 \in 1 .. Len(end) /\ end' \in Seq(Reasons)
          /\ end[1] \in Reasons
      BY <3>1, <3>2
    <3>4. Meant(end[1])
      BY <3>3 DEF ReasonsMeant
    <3> QED
      BY <1>0, <3>1, <3>2, <3>3, <3>4 DEF Meant, Asked
  <2>2. CASE stop
    BY <1>0, <2>2 DEF stop, TypeOK, ReasonsMeant, Meant, Asked, Stages
  <2> QED
    BY <2>1, <2>2
<1>2. TypeOK'
  BY <1>0, <1>1 DEF TypeOK, recv, stop
<1>3. Stages'
  BY <1>0, <1>1 DEF Stages, recv, stop
<1>4. QueueHolds' /\ Accounts'
  BY <1>0 DEF QueueHolds, Accounts, Sum, Pending, OnlyFrames
<1>5. Succeeded' /\ ReasonsMeant'
  BY <1>0, <1>1 DEF Stages, Succeeded, ReasonsMeant
<1> QED
  BY <1>2, <1>3, <1>4, <1>5

LEMMA SendFinishStep ==
    ASSUME IInv, RecordingAssumption, SendFinish
    PROVE  IInv'
<1> USE DEF IInv
<1>0. /\ UNCHANGED <<reason, stopped, result, end, key, signals, stream, writer, opened, counts>>
      /\ main = "finishing" /\ main' = "joining"
      /\ \/ writer = "err" /\ UNCHANGED queue
         \/ /\ writer \in {"run", "failed"} /\ Len(queue) < QueueDepth
            /\ queue' = Append(queue, "Finish")
  BY DEF SendFinish, QueueHolds, inputVars, writerVars
<1>1. queue \in Seq(Messages) /\ Len(queue) \in Nat /\ QueueDepth \in Nat /\ OnlyFrames(queue)
  BY <1>0, Typed DEF QueueHolds, RecordingAssumption
<1>2. CASE queue' = Append(queue, "Finish") /\ Len(queue) < QueueDepth
  <2>1. /\ queue' \in Seq(Messages) /\ Len(queue') = Len(queue) + 1
        /\ FinishAt(queue', Len(queue'))
    BY <1>1, <1>2, SentMessage DEF Messages
  <2>2. Len(queue') \in 1 .. Len(queue') /\ Len(queue') <= QueueDepth
    BY <1>1, <1>2, <2>1
  <2>3. TypeOK'
    BY <1>0, <2>1, <2>2 DEF TypeOK, Messages
  <2>4. QueueHolds'
    BY <1>0, <1>2, <2>1, <2>2 DEF QueueHolds, Stages
  <2>5. Accounts'
    BY <1>0, <1>1, <2>1 DEF Accounts, Sum, Pending
  <2> QED
    BY <1>0, <2>3, <2>4, <2>5 DEF Stages, ReasonsMeant, Meant, Asked, Succeeded
<1>3. CASE writer = "err" /\ UNCHANGED queue
  BY <1>0, <1>3 DEF TypeOK, QueueHolds, Accounts, Sum, Stages, ReasonsMeant, Meant, Asked, Succeeded
<1> QED
  BY <1>0, <1>2, <1>3

\* join: success is what remains when no error is found.
LEMMA JoinStep ==
    ASSUME IInv, RecordingAssumption, join
    PROVE  IInv'
<1> USE DEF IInv
<1>0. /\ UNCHANGED <<reason, stopped, end, key, signals, stream, queue, writer, opened, counts>>
      /\ main = "joining" /\ main' = "done" /\ writer \in {"ok", "err"} /\ result' = Returned
  BY DEF join, inputVars, writerVars
<1>1. result' \in {"ok", "stop", "capture", "writer"}
  BY <1>0 DEF Returned
<1>2. result' = "ok" => stopped # "err" /\ reason # "CaptureError" /\ writer # "err"
  BY <1>0 DEF Returned
<1>3. result' = "ok" => stopped = "ok" /\ writer = "ok" /\ reason = "Interrupt"
  BY <1>0, <1>2 DEF Stages, ReasonsMeant, Meant, Reasons
<1>4. TypeOK' /\ Stages'
  BY <1>0, <1>1 DEF TypeOK, Stages
<1>5. ReasonsMeant' /\ QueueHolds' /\ Accounts'
  BY <1>0 DEF ReasonsMeant, Meant, Asked, QueueHolds, Accounts, Sum
<1>6. Succeeded'
  BY <1>0, <1>3 DEF Succeeded, ReasonsMeant, Meant, Asked
<1> QED
  BY <1>4, <1>5, <1>6

\* Those who ask for the end, and the capture that ends by itself.
LEMMA AskSteps ==
    ASSUME IInv, RecordingAssumption, Interrupt \/ StopKey \/ CaptureLost
    PROVE  IInv'
<1> USE DEF IInv
<1>0. /\ UNCHANGED <<main, reason, stopped, result, queue, writer, opened, counts>> /\ Alive
      /\ end \in Seq(Reasons) /\ Len(end) <= 1
      /\ signals \in 0 .. MaxSignals /\ MaxSignals \in Nat
  BY DEF Interrupt, StopKey, CaptureLost, mainVars, inputVars, writerVars, TypeOK,
         RecordingAssumption
<1>1. /\ signals' \in 0 .. MaxSignals /\ key' \in {"off", "reading", "done"}
      /\ stream' \in {"running", "lost", "stopped", "off"}
      /\ Asked => Asked'
      /\ \/ Asked' /\ try_send("Interrupt") /\ UNCHANGED stream
         \/ try_send("CaptureError") /\ stream = "running"
  BY <1>0, SMTT(30) DEF Interrupt, StopKey, CaptureLost, Asked, TypeOK, inputVars
<1>2. /\ \A y \in Reasons : Meant(y) => Meant(y)'
      /\ Asked' => Meant("Interrupt")'
      /\ Meant("CaptureError")'
  BY <1>0, <1>1 DEF Meant
<1>3. /\ end' \in Seq(Reasons) /\ Len(end') <= 1
      /\ \A i \in 1 .. Len(end') : Meant(end[i])'
  BY <1>0, <1>1, <1>2, TrySend DEF ReasonsMeant, Reasons
<1>4. TypeOK'
  BY <1>0, <1>1, <1>3 DEF TypeOK
<1>5. Stages'
  BY <1>0 DEF Stages, Interrupt, StopKey, CaptureLost, inputVars
<1>6. ReasonsMeant'
  BY <1>0, <1>1, <1>3 DEF ReasonsMeant, Meant
<1>7. QueueHolds' /\ Accounts' /\ Succeeded'
  BY <1>0, <1>1 DEF QueueHolds, Accounts, Sum, Pending, Succeeded
<1> QED
  BY <1>4, <1>5, <1>6, <1>7
\* A frame comes in: it is queued, or counted as dropped, or nobody is left to
\* miss it.
LEMMA VideoFrameStep ==
    ASSUME IInv, RecordingAssumption, VideoFrame
    PROVE  IInv'
<1> USE DEF IInv
<1>0. /\ UNCHANGED <<main, reason, stopped, result, end, key, signals, stream, writer, opened>>
      /\ main # "done" /\ stream = "running" /\ counts.delivered < MaxFrames
  BY DEF VideoFrame, Alive, mainVars, inputVars, writerVars
<1> DEFINE room == Len(queue) < QueueDepth
           gone == writer \notin {"run", "failed"}
<1>1. /\ queue' = IF room /\ ~gone THEN Append(queue, "Frame") ELSE queue
      /\ counts' = [counts EXCEPT !.delivered = @ + 1,
                                  !.queue_drops = IF ~room /\ ~gone THEN @ + 1 ELSE @]
  BY DEF VideoFrame
<1>2. /\ counts \in Counts /\ queue \in Seq(Messages) /\ Len(queue) \in Nat /\ Sum \in Nat
      /\ counts.delivered \in Nat /\ counts.appended \in Nat
      /\ counts.backpressure \in Nat /\ counts.queue_drops \in Nat
      /\ QueueDepth \in Nat /\ MaxFrames \in Nat /\ Sum <= counts.delivered
      /\ Len(queue) <= QueueDepth
  BY Typed DEF RecordingAssumption, Accounts, TypeOK
<1>3. /\ counts'.delivered = counts.delivered + 1
      /\ counts'.appended = counts.appended /\ counts'.backpressure = counts.backpressure
      /\ counts'.queue_drops = IF ~room /\ ~gone THEN counts.queue_drops + 1
                                                ELSE counts.queue_drops
      /\ counts' = [delivered |-> counts.delivered + 1, appended |-> counts.appended,
                    backpressure |-> counts.backpressure,
                    queue_drops |-> IF ~room /\ ~gone THEN counts.queue_drops + 1
                                                      ELSE counts.queue_drops]
  BY <1>1, <1>2 DEF Counts
<1>n. PICK d \in Nat, a \in Nat, b \in Nat, k \in Nat :
         /\ d = counts.delivered /\ a = counts.appended
         /\ b = counts.backpressure /\ k = counts.queue_drops
  BY <1>2
<1>s. Sum = a + b + k
  BY <1>n DEF Sum
<1>4. counts' \in Counts
  <2>1. d < MaxFrames /\ MaxFrames \in Nat /\ a + b + k <= d
    BY <1>0, <1>2, <1>n, <1>s
  <2>2. /\ d + 1 \in 0 .. MaxFrames /\ k + 1 \in 0 .. MaxFrames
        /\ k \in 0 .. MaxFrames /\ a \in 0 .. MaxFrames /\ b \in 0 .. MaxFrames
    BY <2>1
  <2> QED
    BY <1>3, <1>n, <2>2 DEF Counts
<1>5. CASE room /\ ~gone
  <2>1. /\ queue' = Append(queue, "Frame") /\ Len(queue') = Len(queue) + 1
        /\ queue' \in Seq(Messages)
        /\ OnlyFrames(queue) => OnlyFrames(queue')
        /\ \A p \in 1 .. Len(queue) : FinishAt(queue, p) => FinishAt(queue', p)
    BY <1>1, <1>2, <1>5, SentMessage DEF Messages
  <2>2. TypeOK'
    <3>1. Len(queue') <= QueueDepth
      BY <1>2, <1>5, <2>1
    <3>2. queue' \in Seq({"Frame", "Finish"})
      BY <2>1 DEF Messages
    <3>3. counts' \in [delivered : 0 .. MaxFrames, appended : 0 .. MaxFrames,
                       backpressure : 0 .. MaxFrames, queue_drops : 0 .. MaxFrames]
      BY <1>4 DEF Counts
    <3>4. TypeOK
      OBVIOUS
    <3> HIDE DEF IInv, room, gone
    <3> QED
      BY <1>0, <3>1, <3>2, <3>3, <3>4 DEF TypeOK
  <2>3. QueueHolds'
    <3>1. stopped # "ok"
      BY <1>0 DEF Stages
    <3>2. \A p \in 1 .. Len(queue) : p \in 1 .. Len(queue')
      BY <1>2, <2>1
    <3> QED
      BY <1>0, <1>5, <2>1, <3>1, <3>2 DEF QueueHolds
  <2>4. Accounts'
    <3>1. /\ Sum' = a + b + k /\ counts'.delivered = d + 1
          /\ counts'.appended = counts.appended
      BY <1>3, <1>5, <1>n DEF Sum
    <3>2. stopped # "ok" /\ a + b + k <= d
      BY <1>0, <1>2, <1>n, <1>s DEF Stages
    <3>3. Pending' = Pending + 1 /\ Pending \in Int
      BY <1>0, <1>2, <2>1 DEF Pending
    <3>4. writer \in {"off", "run"} => d = a + b + k + Pending
      BY <1>0, <1>n, <1>s DEF Accounts
    <3> HIDE DEF room, gone
    <3> QED
      BY <1>0, <3>1, <3>2, <3>3, <3>4 DEF Accounts
  <2> QED
    BY <1>0, <2>2, <2>3, <2>4 DEF Stages, ReasonsMeant, Meant, Asked, Succeeded
<1>6. CASE ~(room /\ ~gone)
  <2>1. UNCHANGED queue
    BY <1>1, <1>6
  <2>2. TypeOK' /\ QueueHolds'
    BY <1>0, <1>4, <2>1 DEF TypeOK, Counts, QueueHolds
  <2>3. writer = "off" => stream = "off"
    BY <1>0 DEF Stages, TypeOK, Setup
  <2>4. Accounts'
    <3>1. stopped # "ok" /\ writer # "off"
      BY <1>0, <2>3 DEF Stages
    <3>2. Sum' <= counts'.delivered
      BY <1>2, <1>3, SMTT(30) DEF Sum
    <3>3. writer = "run" => ~gone /\ ~room
      BY <1>6
    <3>4. writer = "run" => Sum' = Sum + 1
      BY <1>2, <1>3, <3>3, SMTT(30) DEF Sum
    <3> HIDE DEF room, gone
    <3>5. Pending' = Pending /\ Pending \in Int
      BY <1>0, <1>2, <2>1 DEF Pending
    <3>6. writer = "run" => d = a + b + k + Pending
      BY <1>0, <1>n, <1>s DEF Accounts
    <3>7. writer' \in {"off", "run"} => counts'.delivered = Sum' + Pending'
      BY <1>0, <1>3, <1>n, <1>s, <3>1, <3>4, <3>5, <3>6
    <3> QED
      BY <1>0, <1>3, <3>1, <3>2, <3>7 DEF Accounts
  <2> QED
    BY <1>0, <2>2, <2>4 DEF Stages, ReasonsMeant, Meant, Asked, Succeeded
<1> QED
  BY <1>5, <1>6

\* The writer takes a frame: it is in the file or in a number, unless it fails.
LEMMA WriteFrameStep ==
    ASSUME IInv, RecordingAssumption, WriteFrame
    PROVE  IInv'
<1> USE DEF IInv
<1>0. /\ UNCHANGED <<main, reason, stopped, result, end, key, signals, stream>>
      /\ main # "done" /\ writer = "run" /\ queue # << >> /\ Head(queue) = "Frame"
      /\ queue' = Tail(queue) /\ opened' \in BOOLEAN
  BY DEF WriteFrame, Alive, mainVars, inputVars, TypeOK
<1>1. /\ counts \in Counts /\ queue \in Seq(Messages) /\ Len(queue) \in Nat /\ Sum \in Nat
      /\ counts.delivered \in Nat /\ counts.appended \in Nat
      /\ counts.backpressure \in Nat /\ counts.queue_drops \in Nat
      /\ QueueDepth \in Nat /\ MaxFrames \in Nat /\ Len(queue) <= QueueDepth
      /\ counts.delivered <= MaxFrames
  BY Typed DEF RecordingAssumption, TypeOK
<1>2. /\ queue' \in Seq(Messages) /\ Len(queue') = Len(queue) - 1 /\ Len(queue) > 0
      /\ OnlyFrames(queue) => OnlyFrames(queue')
      /\ \A p \in 1 .. Len(queue) : FinishAt(queue, p) =>
            p # 1 /\ p - 1 \in 1 .. Len(queue') /\ FinishAt(queue', p - 1)
  BY <1>0, <1>1, TakenMessage
<1>3. QueueHolds'
  <2>1. main = "joining" => \E p \in 1 .. Len(queue) :
                               FinishAt(queue, p) /\ (stopped = "ok" => p = Len(queue))
    BY <1>0 DEF QueueHolds
  <2>2. main = "joining" => \E p \in 1 .. Len(queue') :
                               FinishAt(queue', p) /\ (stopped = "ok" => p = Len(queue'))
    BY <1>1, <1>2, <2>1
  <2>3. writer' \in {"run", "failed"}
    BY <1>0 DEF WriteFrame
  <2> QED
    BY <1>0, <1>2, <2>2, <2>3 DEF QueueHolds
<1>n. PICK d \in Nat, a \in Nat, b \in Nat, k \in Nat :
         /\ d = counts.delivered /\ a = counts.appended
         /\ b = counts.backpressure /\ k = counts.queue_drops
  BY <1>1
<1>s. Sum = a + b + k
  BY <1>n DEF Sum
<1>4. d = a + b + k + Pending /\ Pending \in Nat /\ Pending > 0
  <2>1. main = "joining" => \E p \in 1 .. Len(queue) : p # 1
    BY <1>0, <1>2 DEF QueueHolds
  <2>2. main = "joining" => Len(queue) > 1
    BY <1>1, <2>1
  <2>3. d = Sum + Pending
    BY <1>0, <1>n DEF Accounts
  <2> QED
    BY <1>0, <1>1, <1>2, <1>s, <2>2, <2>3 DEF Pending
<1>5. CASE writer' = "failed" /\ UNCHANGED counts
  <2>1. TypeOK'
    BY <1>0, <1>1, <1>2, <1>5 DEF TypeOK, Messages
  <2>2. Accounts'
    BY <1>5 DEF Accounts, Sum
  <2> QED
    BY <1>0, <1>3, <1>5, <2>1, <2>2 DEF Stages, ReasonsMeant, Meant, Asked, Succeeded
<1>6. ASSUME UNCHANGED writer,
             NEW outcome \in {"appended", "backpressure"},
             counts' = [counts EXCEPT ![outcome] = @ + 1]
      PROVE  IInv'
  <2>1. /\ counts'.delivered = counts.delivered /\ counts'.queue_drops = counts.queue_drops
        /\ \/ /\ counts'.appended = counts.appended + 1
              /\ counts'.backpressure = counts.backpressure
           \/ /\ counts'.appended = counts.appended
              /\ counts'.backpressure = counts.backpressure + 1
        /\ counts' = [delivered |-> counts'.delivered, appended |-> counts'.appended,
                      backpressure |-> counts'.backpressure, queue_drops |-> counts'.queue_drops]
    BY <1>1, <1>6 DEF Counts
  <2>2. Sum' = a + b + k + 1 /\ Pending' = Pending - 1
    <3>1. Sum' = a + b + k + 1
      BY <1>n, <2>1 DEF Sum
    <3>2. Pending' = Pending - 1
      BY <1>0, <1>1, <1>2 DEF Pending
    <3> QED
      BY <3>1, <3>2
  <2>3. counts' \in Counts
    <3>1. d <= MaxFrames /\ MaxFrames \in Nat
      BY <1>1, <1>n
    <3>2. a + b + k + 1 <= MaxFrames
      <4> HIDE DEF IInv, Pending
      <4> QED
        BY <1>4, <3>1
    <3>3. /\ a \in 0 .. MaxFrames /\ a + 1 \in 0 .. MaxFrames /\ b \in 0 .. MaxFrames
          /\ b + 1 \in 0 .. MaxFrames /\ d \in 0 .. MaxFrames /\ k \in 0 .. MaxFrames
      BY <3>1, <3>2
    <3>4. /\ counts'.appended \in 0 .. MaxFrames /\ counts'.backpressure \in 0 .. MaxFrames
          /\ counts'.delivered \in 0 .. MaxFrames /\ counts'.queue_drops \in 0 .. MaxFrames
      BY <1>n, <2>1, <3>3
    <3> QED
      BY <2>1, <3>4 DEF Counts
  <2>4. TypeOK'
    BY <1>0, <1>1, <1>2, <1>6, <2>3 DEF TypeOK, Messages, Counts
  <2>5. Accounts'
    <3>1. counts'.delivered = d /\ Sum' <= d /\ d = Sum' + Pending'
      BY <1>4, <1>n, <2>1, <2>2
    <3> QED
      BY <1>0, <1>6, <3>1 DEF Accounts
  <2> QED
    BY <1>0, <1>3, <1>6, <2>4, <2>5 DEF Stages, ReasonsMeant, Meant, Asked, Succeeded
<1> QED
  BY <1>5, <1>6 DEF WriteFrame

\* The writer takes Finish, which the main thread has sent by then.
LEMMA WriteFinishStep ==
    ASSUME IInv, RecordingAssumption, WriteFinish
    PROVE  IInv'
<1> USE DEF IInv
<1>0. /\ UNCHANGED <<main, reason, stopped, result, end, key, signals, stream, opened, counts>>
      /\ main # "done" /\ writer = "run" /\ queue # << >> /\ Head(queue) = "Finish"
      /\ queue' = Tail(queue)
      /\ writer' = "failed" \/ (writer' = "ok" /\ opened /\ counts.appended > 0)
  BY DEF WriteFinish, Alive, mainVars, inputVars
<1>1. /\ queue \in Seq(Messages) /\ Len(queue) \in Nat /\ Sum \in Nat
      /\ QueueDepth \in Nat /\ Len(queue) <= QueueDepth
  BY Typed DEF RecordingAssumption, TypeOK
<1>2. /\ queue' \in Seq(Messages) /\ Len(queue') = Len(queue) - 1 /\ Head(queue) = queue[1]
      /\ 1 \in 1 .. Len(queue)
      /\ \A p \in 1 .. Len(queue) : FinishAt(queue, p) => p = 1
  BY <1>0, <1>1, TakenMessage
<1>3. main = "joining"
  BY <1>0, <1>2 DEF QueueHolds, OnlyFrames
<1>4. stopped = "ok" => counts.delivered = Sum
  <2>1. stopped = "ok" => Len(queue) = 1
    BY <1>0, <1>2, <1>3 DEF QueueHolds
  <2> QED
    BY <1>0, <1>1, <1>3, <2>1 DEF Accounts, Pending
<1>5. TypeOK'
  BY <1>0, <1>1, <1>2 DEF TypeOK, Messages
<1>6. QueueHolds' /\ Accounts'
  BY <1>0, <1>3, <1>4 DEF QueueHolds, Accounts, Sum
<1> QED
  BY <1>0, <1>3, <1>5, <1>6 DEF Stages, ReasonsMeant, Meant, Asked, Succeeded

\* The writer that failed says so.
LEMMA WriterEndsStep ==
    ASSUME IInv, RecordingAssumption, WriterEnds
    PROVE  IInv'
<1> USE DEF IInv
<1>0. /\ UNCHANGED <<main, reason, stopped, result, key, signals, stream, opened, counts>>
      /\ main # "done" /\ writer = "failed" /\ writer' = "err" /\ queue' = << >>
      /\ try_send("WriterError")
      /\ end \in Seq(Reasons) /\ Len(end) <= 1
  BY DEF WriterEnds, Alive, mainVars, inputVars, TypeOK
<1>1. /\ \A y \in Reasons : Meant(y) => Meant(y)'
      /\ Meant("WriterError")' /\ Meant(reason)'
  BY <1>0 DEF Meant, Asked, ReasonsMeant
<1>2. /\ end' \in Seq(Reasons) /\ Len(end') <= 1
      /\ \A i \in 1 .. Len(end') : Meant(end[i])'
  BY <1>0, <1>1, TrySend DEF ReasonsMeant, Reasons
<1>3. queue' \in Seq({"Frame", "Finish"}) /\ Len(queue') = 0 /\ Len(queue') <= QueueDepth
  BY <1>0 DEF RecordingAssumption
<1>4. TypeOK'
  BY <1>0, <1>2, <1>3 DEF TypeOK
<1>5. QueueHolds' /\ Accounts'
  BY <1>0, <1>3 DEF QueueHolds, OnlyFrames, Accounts, Sum
<1> QED
  BY <1>0, <1>1, <1>2, <1>4, <1>5 DEF Stages, ReasonsMeant, Succeeded, Asked

LEMMA InvStep ==
    ASSUME IInv, RecordingAssumption, [Next]_vars
    PROVE  IInv'
<1>1. CASE UNCHANGED vars
  BY <1>1 DEF vars, IInv, TypeOK, Stages, ReasonsMeant, Meant, Asked, QueueHolds, OnlyFrames,
     FinishAt, Accounts, Sum, Pending, Succeeded
<1>2. CASE MainStep
  BY <1>2, SetupSteps, WaitSteps, SendFinishStep, JoinStep DEF MainStep
<1>3. CASE WriterStep
  BY <1>3, WriteFrameStep, WriteFinishStep, WriterEndsStep DEF WriterStep
<1>4. CASE StreamRuns \/ Interrupt \/ StopKey \/ VideoFrame \/ CaptureLost
  BY <1>4, SetupSteps, AskSteps, VideoFrameStep
<1> QED
  BY <1>1, <1>2, <1>3, <1>4 DEF Next, Done

-----------------------------------------------------------------------------
\* `blip record` succeeds only when somebody asked for its end and the writer
\* finished a file with a frame in it, and then every frame that the capture
\* delivered is in the file or in one of the numbers it prints: for any depth
\* of the queue, however slow the writer is and whoever ends the recording.
THEOREM RecordedNumbersAreTrue ==
    ASSUME RecordingAssumption
    PROVE  Spec => []NumbersAreTrue
<1>1. Init => IInv
  BY InitInv
<1>2. IInv /\ [Next]_vars => IInv'
  BY InvStep
<1>3. IInv => NumbersAreTrue
  <2> SUFFICES ASSUME IInv
               PROVE  NumbersAreTrue
    OBVIOUS
  <2>1. result = "ok" => writer = "ok" /\ stopped = "ok" /\ Asked
    BY DEF IInv, Succeeded
  <2>2. OkMeansAsked
    BY <2>1 DEF IInv, OkMeansAsked, Asked, Accounts
  <2>3. FramesAddUp
    BY <2>1 DEF IInv, FramesAddUp, Accounts, Sum
  <2> QED
    BY <2>2, <2>3 DEF IInv, NumbersAreTrue
<1> QED
  BY <1>1, <1>2, <1>3, PTL DEF Spec

-----------------------------------------------------------------------------
(* The tracks: what their inductive invariant says.                        *)

Timed == [at : Int, norm : BOOLEAN, time : Int]
WriterErrors == {"none", "ok", "NoFrames", "Overflow", "Rejected"}
FileWriter == [start : Int, last : Int, end : Int, samples : Seq(Timed), track : Seq(Timed),
               finished : BOOLEAN, error : WriterErrors]
Queued == Media!Samples \cup {Media!Finish}

ThreadOf(t) == IF t = "camera" THEN "camera" ELSE "screen"
QueueOf(t) == IF t = "camera" THEN cameraQueue ELSE trackQueue

\* A file's time starts at its first sample, and each of the others is as far in it as
\* it was captured after the first, where their clock says so.
InOrder(s) == \A i, j \in 1 .. Len(s) : i < j => s[i].at <= s[j].at
AsCaptured(s) ==
    Media!Normalized(s) /\ ~Media!Repeats(s) =>
        \A i \in 1 .. Len(s) : s[i].time = s[i].at - s[1].at
FileKept(w) ==
    /\ w \in FileWriter
    /\ w.samples = << >> => w.last = -1 /\ (w.error = "ok" => w.start = -1)
    /\ w.samples # << >> =>
          /\ w.start # -1 /\ w.samples[1].at >= 0
          /\ w.samples[1].norm => w.start = Epoch + w.samples[1].at
    /\ InOrder(w.samples) /\ AsCaptured(w.samples)

\* The last frame is the furthest; the end of a sound is beyond every packet.
VideoKept(w) ==
    /\ FileKept(w)
    /\ \A i \in 1 .. Len(w.samples) : w.samples[i].time >= 0
    /\ \A i, j \in 1 .. Len(w.samples) : i < j => w.samples[i].time < w.samples[j].time
    /\ w.samples # << >> => w.last = w.samples[Len(w.samples)].time
    /\ w.finished => \A i \in 1 .. Len(w.samples) : w.samples[i].time < w.end
SoundKept(w) == FileKept(w) /\ \A i \in 1 .. Len(w.samples) : w.samples[i].time < w.end

WritersKept ==
    /\ writers \in [Media!Tracks -> FileWriter]
    /\ VideoKept(writers["screen"]) /\ VideoKept(writers["camera"]) /\ SoundKept(writers["audio"])

\* What a thread still writes to has not failed and is not finished.
Open ==
    \A t \in Media!Tracks :
        /\ writers[t].error = "none" => writers[t] = Media!NoWriter
        /\ threads[ThreadOf(t)] = "run" => ~writers[t].finished /\ writers[t].error \in {"none", "ok"}

FirstsKept ==
    /\ first \in [Media!Tracks -> [at : Int, fallback : Int, norm : BOOLEAN]]
    /\ \A t \in Media!Tracks :
          IF writers[t].samples = << >> THEN first[t] = Media!NoTiming
          ELSE first[t].at = writers[t].samples[1].at /\ first[t].norm = writers[t].samples[1].norm

\* The samples of a track are in the order of capture, from its file through its queue
\* to the callback that comes next.
InTurn(t, s, q, c) ==
    /\ \A i \in 1 .. Len(q) : q[i].track = t =>
          /\ q[i].at <= c.at
          /\ \A k \in 1 .. Len(s) : s[k].at <= q[i].at
    /\ \A i, j \in 1 .. Len(q) : i < j /\ q[i].track = t /\ q[j].track = t => q[i].at <= q[j].at
    /\ \A k \in 1 .. Len(s) : s[k].at <= c.at
QueuesInTurn == \A t \in Media!Tracks : InTurn(t, writers[t].samples, QueueOf(t), captured[t])

QueuesTyped ==
    /\ trackQueue \in Seq(Queued) /\ Len(trackQueue) <= TracksDepth
    /\ cameraQueue \in Seq(Queued)
    /\ \A i \in 1 .. Len(trackQueue) : trackQueue[i] # Media!Finish =>
          trackQueue[i].track # "camera" /\ trackQueue[i].at >= 0 /\ trackQueue[i].fallback >= 0
    /\ \A i \in 1 .. Len(cameraQueue) :
          /\ cameraQueue[i] \in Media!Samples /\ cameraQueue[i].track = "camera"
          /\ cameraQueue[i].fallback >= 0 => cameraQueue[i].at >= 0

\* When the recording is done nobody writes any more, and the offsets say how far apart
\* the files begin.
OffsetsKept ==
    /\ offsets \in [Media!Tracks -> Int] /\ offsets["screen"] = 0
    /\ phase = "done" /\ bundle =>
          /\ \A t \in {"screen", "camera"} : threads[t] # "run"
          /\ \A t \in {"audio", "camera"} :
                offsets[t] = Media!signed_seconds_since(first[t], first["screen"])

TracksInv ==
    /\ bundle \in BOOLEAN /\ clock \in 0 .. MaxClock
    /\ captured \in [Media!Tracks -> [count : 0 .. MaxSamples, at : -1 .. MaxClock]]
    /\ threads \in [{"screen", "camera"} -> {"run", "ok", "err"}]
    /\ phase \in {"recording", "stopping", "finishing", "done", "failed"}
    /\ \A t \in Media!Tracks : first[t] = Media!NoTiming \/
          (first[t].at \in -1 .. MaxClock /\ first[t].fallback \in -1 .. MaxClock)
    /\ WritersKept /\ Open /\ FirstsKept /\ QueuesTyped /\ QueuesInTurn /\ OffsetsKept
-----------------------------------------------------------------------------
(* The writers.                                                            *)

\* What a writer has after it was given a sample: the same, the sample as well, or an
\* error.
Took(w, v, s) ==
    /\ ~v.finished /\ v.error # "none"
    /\ \/ v.samples = w.samples
       \/ /\ v.error = "ok"
          /\ \E time \in Int : v.samples = Append(w.samples, Media!Written(s, time))

\* A sequence with one more sample.
LEMMA AppendFacts ==
    ASSUME NEW q \in Seq(Timed), NEW x \in Timed, NEW r, r = Append(q, x)
    PROVE  /\ r \in Seq(Timed) /\ Len(r) = Len(q) + 1 /\ Len(q) \in Nat /\ r[Len(q) + 1] = x /\ r # << >>
           /\ \A i \in 1 .. Len(q) : r[i] = q[i] /\ q[i] \in Timed
           /\ DOMAIN r = 1 .. Len(r) /\ DOMAIN q = 1 .. Len(q)
OBVIOUS

\* A sample that is captured after the others of its file is put as far after the first
\* as it was captured after it, unless it is there already.
LEMMA LateSampleFits ==
    ASSUME NEW q \in Seq(Timed), InOrder(q), AsCaptured(q),
           NEW x \in Timed, \A k \in 1 .. Len(q) : q[k].at <= x.at,
           Media!Normalized(Append(q, x)) /\ ~Media!Repeats(Append(q, x)) =>
               x.time = x.at - Append(q, x)[1].at
    PROVE  InOrder(Append(q, x)) /\ AsCaptured(Append(q, x))
<1> DEFINE r == Append(q, x)
<1>1. /\ r \in Seq(Timed) /\ Len(r) = Len(q) + 1 /\ Len(q) \in Nat /\ r[Len(q) + 1] = x
      /\ \A i \in 1 .. Len(q) : r[i] = q[i] /\ q[i] \in Timed
      /\ DOMAIN r = 1 .. Len(r) /\ DOMAIN q = 1 .. Len(q)
    BY AppendFacts
<1>2. ASSUME NEW i \in 1 .. Len(r), NEW j \in 1 .. Len(r), i < j
      PROVE  r[i].at <= r[j].at
    <2>1. i \in 1 .. Len(q) /\ r[i] = q[i]
        BY <1>1, <1>2
    <2>2. CASE j = Len(q) + 1
        BY <1>1, <2>1, <2>2
    <2>3. CASE j # Len(q) + 1
        BY <1>1, <1>2, <2>1, <2>3 DEF InOrder
    <2> QED
        BY <2>2, <2>3
<1>3. ASSUME Media!Normalized(r), ~Media!Repeats(r), NEW i \in 1 .. Len(r)
      PROVE  r[i].time = r[i].at - r[1].at
    <2>1. Media!Normalized(q) /\ ~Media!Repeats(q)
        BY <1>1, <1>3 DEF Media!Normalized, Media!Repeats
    <2>2. CASE i = Len(q) + 1
        BY <1>1, <1>3, <2>2
    <2>3. CASE i # Len(q) + 1
        BY <1>1, <2>1, <2>3 DEF AsCaptured
    <2> QED
        BY <2>2, <2>3
<1> QED
    BY <1>2, <1>3 DEF AsCaptured, InOrder

\* Mp4Writer::append keeps the file's frames in order and in time.
LEMMA AppendKeeps ==
    ASSUME Media!TracksAssumption, NEW w, VideoKept(w), w.error = "ok", ~w.finished,
           NEW s \in Media!Samples, s.at >= 0, s.fallback >= 0,
           \A k \in 1 .. Len(w.samples) : w.samples[k].at <= s.at,
           NEW ready \in BOOLEAN, NEW accepted \in BOOLEAN,
           NEW v, v = Media!append(w, s, Media!writer_timestamp(s), ready, accepted)
    PROVE  VideoKept(v) /\ Took(w, v, s)
<1>0. /\ w \in FileWriter /\ Epoch \in Nat /\ FrameDuration \in Nat /\ MaxMicros \in Nat
      /\ s \in [track : Media!Tracks, at : -1 .. MaxClock, fallback : -1 .. MaxClock, norm : BOOLEAN]
      /\ MaxClock \in Nat
    BY DEF VideoKept, FileKept, Media!TracksAssumption, Media!Samples
<1> DEFINE q == w.samples
<1>1. PICK stamp \in Nat : /\ stamp = Media!writer_timestamp(s)
                           /\ s.norm => stamp = Epoch + s.at
    BY <1>0 DEF Media!writer_timestamp
<1>2. PICK begin \in Int : begin = Media!StartOf(w, stamp)
    BY <1>0, <1>1 DEF Media!StartOf, FileWriter
<1>3. /\ q \in Seq(Timed) /\ Len(q) \in Nat /\ (q = << >> <=> Len(q) = 0) /\ w.last \in Int
      /\ DOMAIN q = 1 .. Len(q)
      /\ q # << >> => q[1] \in Timed /\ q[Len(q)] \in Timed
    BY <1>0 DEF FileWriter
<1>4. /\ q = << >> => begin = stamp /\ w.last = -1
      /\ q # << >> => begin = w.start
      /\ begin # -1
      /\ q # << >> /\ q[1].norm => begin = Epoch + q[1].at
    BY <1>1, <1>2, <1>3 DEF VideoKept, FileKept, Media!StartOf, Media!None
<1>5. q # << >> => w.last = q[Len(q)].time /\ w.last >= 0
    BY <1>3 DEF VideoKept
<1> DEFINE relative == Media!AtLeast(stamp - begin, 0)
<1>6. PICK time \in Int : time = Media!VideoTime(w, stamp)
    BY <1>1, <1>2, <1>3 DEF Media!VideoTime, Media!AtLeast
<1>7. /\ time >= 0
      /\ q # << >> => time > w.last
      /\ w.last = -1 \/ relative > w.last => time = relative
    BY <1>1, <1>2, <1>3, <1>5, <1>6 DEF Media!VideoTime, Media!AtLeast, Media!None
<1> HIDE DEF relative
<1> DEFINE x == Media!Written(s, time)
<1>8. x = [at |-> s.at, norm |-> s.norm, time |-> time] /\ x \in Timed
    BY <1>0 DEF Media!Written, Timed
<1>9. /\ v = w
      \/ v = [w EXCEPT !.error = "Overflow"]
      \/ v = [w EXCEPT !.start = begin, !.error = "Overflow"]
      \/ v = [w EXCEPT !.start = begin, !.error = "Rejected"]
      \/ v = [w EXCEPT !.start = begin, !.last = time, !.samples = Append(@, x)]
    <2>1. \/ v = w
          \/ v = Media!Failed(w, "Overflow")
          \/ v = Media!Failed([w EXCEPT !.start = begin], "Overflow")
          \/ v = Media!Failed([w EXCEPT !.start = begin], "Rejected")
          \/ v = [w EXCEPT !.start = begin, !.last = time, !.samples = Append(@, x)]
        BY <1>1, <1>2, <1>6 DEF Media!append
    <2>2. /\ [[w EXCEPT !.start = begin] EXCEPT !.error = "Overflow"]
                = [w EXCEPT !.start = begin, !.error = "Overflow"]
          /\ [[w EXCEPT !.start = begin] EXCEPT !.error = "Rejected"]
                = [w EXCEPT !.start = begin, !.error = "Rejected"]
        BY <1>0 DEF FileWriter
    <2> QED
        BY <2>1, <2>2 DEF Media!Failed
<1>10. CASE v = w
    BY <1>10 DEF Took
<1>11. CASE \/ v = [w EXCEPT !.error = "Overflow"]
            \/ v = [w EXCEPT !.start = begin, !.error = "Overflow"]
            \/ v = [w EXCEPT !.start = begin, !.error = "Rejected"]
    <2>1. /\ v \in FileWriter /\ v.samples = w.samples /\ v.last = w.last
          /\ v.finished = w.finished /\ v.end = w.end
          /\ v.error \in {"Overflow", "Rejected"} /\ (v.start = w.start \/ v.start = begin)
        BY <1>0, <1>11 DEF FileWriter, WriterErrors
    <2> QED
        BY <2>1, <1>4 DEF VideoKept, FileKept, Took
<1>12. CASE v = [w EXCEPT !.start = begin, !.last = time, !.samples = Append(@, x)]
    <2> DEFINE r == Append(q, x)
    <2>1. /\ v \in FileWriter /\ v.samples = r /\ v.last = time /\ v.start = begin
          /\ v.finished = w.finished /\ v.error = w.error
        <3>1. w.samples \in Seq(Timed) /\ r \in Seq(Timed)
            BY <1>0, <1>8 DEF FileWriter
        <3>2. v = [w EXCEPT !.start = begin, !.last = time, !.samples = r]
            BY <1>12
        <3> HIDE DEF r
        <3> QED
            BY <1>0, <3>1, <3>2 DEF FileWriter
    <2>2. /\ r \in Seq(Timed) /\ Len(r) = Len(q) + 1 /\ r[Len(q) + 1] = x /\ r # << >>
          /\ \A i \in 1 .. Len(q) : r[i] = q[i] /\ q[i] \in Timed
          /\ DOMAIN r = 1 .. Len(r)
        <3>1. q \in Seq(Timed) /\ x \in Timed
            BY <1>3, <1>8
        <3> HIDE DEF x, q
        <3> QED
            BY <3>1, AppendFacts
    <2>3. r[1].at >= 0 /\ (r[1].norm => begin = Epoch + r[1].at)
        <3>1. CASE q = << >>
            BY <3>1, <2>2, <1>1, <1>3, <1>4, <1>8
        <3>2. CASE q # << >>
            BY <3>2, <2>2, <1>3, <1>4 DEF VideoKept, FileKept
        <3> QED
            BY <3>1, <3>2
    <2>4. ASSUME Media!Normalized(r), ~Media!Repeats(r)
          PROVE  x.time = x.at - r[1].at
        <3>1. CASE q = << >>
            BY <3>1, <2>2, <1>0, <1>1, <1>3, <1>4, <1>7, <1>8 DEF relative, Media!AtLeast
        <3>2. CASE q # << >>
            <4>1. /\ r[1] = q[1] /\ q[1].norm /\ x.norm /\ q[Len(q)].at # x.at
                  /\ q[1] \in Timed /\ q[Len(q)] \in Timed
                BY <3>2, <2>2, <2>4, <1>3 DEF Media!Normalized, Media!Repeats
            <4>2. Media!Normalized(q) /\ ~Media!Repeats(q)
                BY <2>2, <2>4, <1>3 DEF Media!Normalized, Media!Repeats
            <4>3. w.last = q[Len(q)].at - q[1].at
                BY <4>2, <3>2, <1>3, <1>5 DEF VideoKept, FileKept, AsCaptured
            <4>4. q[Len(q)].at < s.at
                BY <4>1, <3>2, <1>0, <1>3, <1>8 DEF Timed
            <4>5. stamp - begin = s.at - q[1].at
                BY <4>1, <3>2, <1>0, <1>1, <1>4, <1>8 DEF Timed
            <4>6. relative = s.at - q[1].at /\ relative > w.last
                <5>1. PICK a \in Int, b \in Int, c \in Int : a = s.at /\ b = q[1].at /\ c = q[Len(q)].at
                    BY <4>1, <1>0 DEF Timed
                <5>2. w.last = c - b /\ c < a /\ stamp - begin = a - b /\ w.last >= 0
                    BY <4>3, <4>4, <4>5, <5>1, <1>5, <3>2
                <5>3. a - b > w.last /\ a - b > 0
                    BY <5>2
                <5>4. relative = a - b
                    BY <5>2, <5>3 DEF relative, Media!AtLeast
                <5> QED
                    BY <5>1, <5>3, <5>4
            <4> QED
                BY <4>1, <4>6, <1>7, <1>8
        <3> QED
            BY <3>1, <3>2
    <2>5. \A k \in 1 .. Len(q) : q[k].at <= x.at
        BY <1>8
    <2>6. InOrder(r) /\ AsCaptured(r)
        BY <2>4, <2>5, <1>3, <1>8, LateSampleFits DEF VideoKept, FileKept
    <2>7. \A i \in 1 .. Len(r) : r[i].time >= 0
        BY <2>2, <1>3, <1>7, <1>8 DEF VideoKept
    <2>8. \A i, j \in 1 .. Len(r) : i < j => r[i].time < r[j].time
        <3> SUFFICES ASSUME NEW i \in 1 .. Len(r), NEW j \in 1 .. Len(r), i < j
                     PROVE  r[i].time < r[j].time
            OBVIOUS
        <3>1. CASE j # Len(q) + 1
            BY <3>1, <2>2, <1>3 DEF VideoKept
        <3>2. CASE j = Len(q) + 1
            <4>1. i \in 1 .. Len(q) /\ r[i] = q[i] /\ q[i] \in Timed /\ r[j].time = time /\ q # << >>
                BY <3>2, <2>2, <1>3, <1>8
            <4>2. q[i].time <= q[Len(q)].time
                <5>1. Len(q) \in 1 .. Len(q) /\ (i < Len(q) \/ i = Len(q))
                    BY <4>1, <1>3
                <5>2. i < Len(q) => q[i].time < q[Len(q)].time
                    BY <4>1, <5>1 DEF VideoKept
                <5> QED
                    BY <4>1, <5>1, <5>2, <1>3 DEF Timed
            <4> QED
                BY <4>1, <4>2, <1>3, <1>5, <1>7 DEF Timed
        <3> QED
            BY <3>1, <3>2
    <2>9. VideoKept(v)
        BY <2>1, <2>2, <2>3, <2>6, <2>7, <2>8, <1>4, <1>8 DEF VideoKept, FileKept
    <2> QED
        BY <2>1, <2>9 DEF Took
<1> QED
    BY <1>9, <1>10, <1>11, <1>12

\* Mp4Writer::append_audio leaves the frames alone.
LEMMA AppendAudioKeeps ==
    ASSUME Media!TracksAssumption, NEW w, VideoKept(w), w.error = "ok", ~w.finished,
           NEW s \in Media!Samples, s.at >= 0, s.fallback >= 0,
           NEW ready \in BOOLEAN, NEW accepted \in BOOLEAN,
           NEW v, v = Media!append_audio(w, s, Media!writer_timestamp(s), ready, accepted)
    PROVE  VideoKept(v) /\ v.samples = w.samples /\ Took(w, v, s)
<1>0. /\ w \in FileWriter /\ Epoch \in Nat
      /\ s \in [track : Media!Tracks, at : -1 .. MaxClock, fallback : -1 .. MaxClock, norm : BOOLEAN]
      /\ MaxClock \in Nat
    BY DEF VideoKept, FileKept, Media!TracksAssumption, Media!Samples
<1>1. PICK stamp \in Nat : stamp = Media!writer_timestamp(s)
    BY <1>0 DEF Media!writer_timestamp
<1>2. PICK time \in Int : time = Media!AtLeast(stamp, w.start) - w.start
    BY <1>0 DEF Media!AtLeast, FileWriter
<1> DEFINE x == Media!Written(s, time)
<1>3. x \in Timed
    BY <1>0 DEF Media!Written, Timed
<1>4. \/ v = w
      \/ \E e \in {"Overflow", "NoFrames", "Rejected"} : v = [w EXCEPT !.error = e]
      \/ v = [w EXCEPT !.track = Append(@, x)]
    BY <1>1, <1>2 DEF Media!append_audio, Media!Failed
<1>5. /\ v \in FileWriter /\ v.samples = w.samples /\ v.last = w.last /\ v.start = w.start
      /\ v.finished = w.finished /\ v.end = w.end
      /\ v.error \in {"ok", "Overflow", "NoFrames", "Rejected"}
    <2>1. CASE v = w
        BY <2>1, <1>0
    <2>2. CASE \E e \in {"Overflow", "NoFrames", "Rejected"} : v = [w EXCEPT !.error = e]
        BY <2>2, <1>0 DEF FileWriter, WriterErrors
    <2>3. CASE v = [w EXCEPT !.track = Append(@, x)]
        <3>0. w.track \in Seq(Timed)
            BY <1>0 DEF FileWriter
        <3>1. PICK r \in Seq(Timed) : r = Append(w.track, x)
            BY <3>0, <1>3, AppendFacts
        <3>2. v = [w EXCEPT !.track = r]
            BY <2>3, <3>1
        <3> QED
            BY <1>0, <3>2 DEF FileWriter
    <2> QED
        BY <1>4, <2>1, <2>2, <2>3
<1> QED
    BY <1>5 DEF VideoKept, FileKept, Took

\* AudioWriter::append keeps the packets in time and the end beyond them.
LEMMA AppendPacketKeeps ==
    ASSUME Media!TracksAssumption, NEW w, SoundKept(w), w.error = "ok", ~w.finished,
           NEW s \in Media!Samples, s.at >= 0, s.fallback >= 0,
           \A k \in 1 .. Len(w.samples) : w.samples[k].at <= s.at,
           NEW ready \in BOOLEAN, NEW accepted \in BOOLEAN,
           NEW v, v = Media!AppendPacket(w, s, Media!writer_timestamp(s), ready, accepted)
    PROVE  SoundKept(v) /\ Took(w, v, s)
<1>0. /\ w \in FileWriter /\ Epoch \in Nat /\ PacketDuration \in Nat /\ MaxMicros \in Nat
      /\ s \in [track : Media!Tracks, at : -1 .. MaxClock, fallback : -1 .. MaxClock, norm : BOOLEAN]
      /\ MaxClock \in Nat
    BY DEF SoundKept, FileKept, Media!TracksAssumption, Media!Samples
<1> DEFINE q == w.samples
<1>1. PICK stamp \in Nat : /\ stamp = Media!writer_timestamp(s)
                           /\ s.norm => stamp = Epoch + s.at
    BY <1>0 DEF Media!writer_timestamp
<1>2. PICK begin \in Int : begin = Media!StartOf(w, stamp)
    BY <1>0, <1>1 DEF Media!StartOf, FileWriter
<1>3. /\ q \in Seq(Timed) /\ Len(q) \in Nat /\ (q = << >> <=> Len(q) = 0) /\ w.last \in Int
      /\ w.end \in Int /\ DOMAIN q = 1 .. Len(q)
      /\ q # << >> => q[1] \in Timed
    BY <1>0 DEF FileWriter
<1>4. /\ q = << >> => begin = stamp /\ w.last = -1
      /\ q # << >> => begin = w.start
      /\ begin # -1
      /\ q # << >> /\ q[1].norm => begin = Epoch + q[1].at
    BY <1>1, <1>2, <1>3 DEF SoundKept, FileKept, Media!StartOf, Media!None
<1>5. PICK time \in Int : /\ time = Media!AtLeast(stamp - begin, 0)
                          /\ stamp >= begin => time = stamp - begin
    BY <1>1, <1>2 DEF Media!AtLeast
<1>6. PICK past \in Int : /\ past = Media!AtLeast(w.end, time + Media!AtLeast(PacketDuration, 1))
                          /\ past > time /\ past >= w.end
    BY <1>0, <1>3, <1>5 DEF Media!AtLeast
<1> DEFINE x == Media!Written(s, time)
<1>7. x = [at |-> s.at, norm |-> s.norm, time |-> time] /\ x \in Timed
    BY <1>0 DEF Media!Written, Timed
<1>8. \/ v = w
      \/ v = [w EXCEPT !.error = "Overflow"]
      \/ v = [w EXCEPT !.start = begin, !.error = "Rejected"]
      \/ v = [w EXCEPT !.start = begin, !.end = past, !.samples = Append(@, x)]
    <2>1. \/ v = w
          \/ v = Media!Failed(w, "Overflow")
          \/ v = Media!Failed([w EXCEPT !.start = begin], "Rejected")
          \/ v = [w EXCEPT !.start = begin, !.end = past, !.samples = Append(@, x)]
        BY <1>1, <1>2, <1>5, <1>6 DEF Media!AppendPacket
    <2>2. [[w EXCEPT !.start = begin] EXCEPT !.error = "Rejected"]
                = [w EXCEPT !.start = begin, !.error = "Rejected"]
        BY <1>0 DEF FileWriter
    <2> QED
        BY <2>1, <2>2 DEF Media!Failed
<1>9. CASE v = w
    BY <1>9 DEF Took
<1>10. CASE \/ v = [w EXCEPT !.error = "Overflow"]
            \/ v = [w EXCEPT !.start = begin, !.error = "Rejected"]
    <2>1. /\ v \in FileWriter /\ v.samples = w.samples /\ v.last = w.last
          /\ v.finished = w.finished /\ v.end = w.end
          /\ v.error \in {"Overflow", "Rejected"} /\ (v.start = w.start \/ v.start = begin)
        BY <1>0, <1>10 DEF FileWriter, WriterErrors
    <2> QED
        BY <2>1, <1>4 DEF SoundKept, FileKept, Took
<1>11. CASE v = [w EXCEPT !.start = begin, !.end = past, !.samples = Append(@, x)]
    <2> DEFINE r == Append(q, x)
    <2>1. /\ v \in FileWriter /\ v.samples = r /\ v.end = past /\ v.start = begin
          /\ v.finished = w.finished /\ v.error = w.error
        <3>1. w.samples \in Seq(Timed) /\ r \in Seq(Timed)
            BY <1>0, <1>7 DEF FileWriter
        <3>2. v = [w EXCEPT !.start = begin, !.end = past, !.samples = r]
            BY <1>11
        <3> HIDE DEF r
        <3> QED
            BY <1>0, <3>1, <3>2 DEF FileWriter
    <2>2. /\ r \in Seq(Timed) /\ Len(r) = Len(q) + 1 /\ r[Len(q) + 1] = x /\ r # << >>
          /\ \A i \in 1 .. Len(q) : r[i] = q[i] /\ q[i] \in Timed
          /\ DOMAIN r = 1 .. Len(r)
        <3>1. q \in Seq(Timed) /\ x \in Timed
            BY <1>3, <1>7
        <3> HIDE DEF x, q
        <3> QED
            BY <3>1, AppendFacts
    <2>3. r[1].at >= 0 /\ (r[1].norm => begin = Epoch + r[1].at)
        <3>1. CASE q = << >>
            BY <3>1, <2>2, <1>1, <1>3, <1>4, <1>7
        <3>2. CASE q # << >>
            BY <3>2, <2>2, <1>3, <1>4 DEF SoundKept, FileKept
        <3> QED
            BY <3>1, <3>2
    <2>4. ASSUME Media!Normalized(r), ~Media!Repeats(r)
          PROVE  x.time = x.at - r[1].at
        <3>1. CASE q = << >>
            BY <3>1, <2>2, <1>0, <1>1, <1>3, <1>4, <1>5, <1>7
        <3>2. CASE q # << >>
            <4>1. /\ r[1] = q[1] /\ q[1].norm /\ x.norm /\ q[1] \in Timed /\ q[1].at <= s.at
                BY <3>2, <2>2, <2>4, <1>3 DEF Media!Normalized
            <4>2. PICK a \in Int, b \in Int : a = s.at /\ b = q[1].at
                BY <4>1, <1>0 DEF Timed
            <4>3. stamp = Epoch + a /\ begin = Epoch + b /\ b <= a
                BY <4>1, <4>2, <3>2, <1>1, <1>4, <1>7
            <4>4. time = a - b
                BY <4>3, <1>0, <1>5
            <4> QED
                BY <4>1, <4>2, <4>4, <1>7
        <3> QED
            BY <3>1, <3>2
    <2>5. \A k \in 1 .. Len(q) : q[k].at <= x.at
        BY <1>7
    <2>6. InOrder(r) /\ AsCaptured(r)
        BY <2>4, <2>5, <1>3, <1>7, LateSampleFits DEF SoundKept, FileKept
    <2>7. \A i \in 1 .. Len(r) : r[i].time < past
        <3> SUFFICES ASSUME NEW i \in 1 .. Len(r) PROVE r[i].time < past
            OBVIOUS
        <3>1. CASE i = Len(q) + 1
            BY <3>1, <2>2, <1>6, <1>7
        <3>2. CASE i # Len(q) + 1
            <4>0. i \in 1 .. Len(q) /\ r[i] = q[i] /\ q[i] \in Timed
                BY <3>2, <2>2, <1>3
            <4>1. i \in 1 .. Len(q) /\ r[i] = q[i] /\ q[i].time \in Int
                BY <4>0 DEF Timed
            <4> QED
                BY <4>1, <1>3, <1>6 DEF SoundKept
        <3> QED
            BY <3>1, <3>2
    <2>8. SoundKept(v)
        BY <2>1, <2>2, <2>3, <2>6, <2>7, <1>4, <1>7 DEF SoundKept, FileKept
    <2> QED
        BY <2>1, <2>8 DEF Took
<1> QED
    BY <1>8, <1>9, <1>10, <1>11

\* The end of a video file is past its last frame, whether the writer says that it is
\* finished or why it is not.
LEMMA FinishKeeps ==
    ASSUME Media!TracksAssumption, NEW w, VideoKept(w), w.error # "none", NEW v, v = Media!finish(w)
    PROVE  VideoKept(v) /\ v.samples = w.samples /\ v.error # "none"
<1>0. w \in FileWriter /\ FrameDuration \in Nat
    BY DEF VideoKept, FileKept, Media!TracksAssumption
<1>1. PICK past \in Int : past = w.last + Media!AtLeast(FrameDuration, 1) /\ past > w.last
    BY <1>0 DEF FileWriter, Media!AtLeast
<1>2. \/ v = w
      \/ v = [w EXCEPT !.error = "NoFrames"] \/ v = [w EXCEPT !.error = "Overflow"]
      \/ v = [w EXCEPT !.end = past, !.finished = TRUE] /\ w.last # -1
    BY <1>1 DEF Media!finish, Media!Failed, Media!None
<1>3. CASE v = w
    BY <1>3
<1>4. CASE v = [w EXCEPT !.error = "NoFrames"] \/ v = [w EXCEPT !.error = "Overflow"]
    <2>1. /\ v \in FileWriter /\ v.samples = w.samples /\ v.last = w.last /\ v.start = w.start
          /\ v.finished = w.finished /\ v.end = w.end /\ v.error \in {"NoFrames", "Overflow"}
        BY <1>0, <1>4 DEF FileWriter, WriterErrors
    <2> QED
        BY <2>1 DEF VideoKept, FileKept
<1>5. CASE v = [w EXCEPT !.end = past, !.finished = TRUE] /\ w.last # -1
    <2> DEFINE q == w.samples
    <2>1. /\ v \in FileWriter /\ v.samples = w.samples /\ v.last = w.last /\ v.start = w.start
          /\ v.end = past /\ v.error = w.error
        BY <1>0, <1>5 DEF FileWriter
    <2>2. q \in Seq(Timed) /\ q # << >> /\ Len(q) \in 1 .. Len(q) /\ w.last = q[Len(q)].time
        BY <1>0, <1>5 DEF VideoKept, FileKept, FileWriter
    <2>3. ASSUME NEW i \in 1 .. Len(q) PROVE q[i].time < past
        <3>0. q[i] \in Timed /\ w.last \in Int
            BY <1>0, <2>2 DEF FileWriter
        <3>1. q[i].time \in Int /\ (i < Len(q) \/ i = Len(q)) /\ w.last \in Int
            BY <3>0, <2>2 DEF Timed
        <3>2. i < Len(q) => q[i].time < q[Len(q)].time
            BY <2>2 DEF VideoKept
        <3> QED
            BY <3>1, <3>2, <2>2, <1>1
    <2> QED
        BY <2>1, <2>3 DEF VideoKept, FileKept
<1> QED
    BY <1>2, <1>3, <1>4, <1>5

\* The end of a sound file stays past its packets.
LEMMA FinishPacketsKeeps ==
    ASSUME NEW w, SoundKept(w), w.error # "none", NEW v, v = Media!FinishPackets(w)
    PROVE  SoundKept(v) /\ v.samples = w.samples /\ v.error # "none"
<1>0. w \in FileWriter
    BY DEF SoundKept, FileKept
<1>1. v = w \/ v = [w EXCEPT !.error = "NoFrames"] \/ v = [w EXCEPT !.finished = TRUE]
    BY DEF Media!FinishPackets, Media!Failed
<1>2. /\ v \in FileWriter /\ v.samples = w.samples /\ v.last = w.last /\ v.start = w.start
      /\ v.end = w.end /\ v.error \in {w.error, "NoFrames"}
    BY <1>0, <1>1 DEF FileWriter, WriterErrors
<1> QED
    BY <1>2 DEF SoundKept, FileKept

\* What is known of the writer of a track.
Kept(t, w) == IF t = "audio" THEN SoundKept(w) ELSE VideoKept(w)

\* A writer that fails keeps what it has.
LEMMA FailedKeeps ==
    ASSUME NEW t, NEW w, Kept(t, w), NEW e \in {"NoFrames", "Rejected"}
    PROVE  LET v == Media!Failed(w, e) IN Kept(t, v) /\ v.samples = w.samples /\ v.error # "none"
<1>0. w \in FileWriter
    BY DEF Kept, SoundKept, VideoKept, FileKept
<1> DEFINE v == [w EXCEPT !.error = e]
<1>1. /\ v \in FileWriter /\ v.samples = w.samples /\ v.last = w.last /\ v.start = w.start
      /\ v.finished = w.finished /\ v.end = w.end /\ v.error \in {"NoFrames", "Rejected"}
    BY <1>0 DEF FileWriter, WriterErrors
<1> HIDE DEF v
<1>2. Kept(t, v)
    BY <1>1 DEF Kept, SoundKept, VideoKept, FileKept
<1> QED
    BY <1>1, <1>2 DEF Media!Failed, v

\* Whatever the end of a writer's loop comes to, the samples stay, and the writer is there.
LEMMA EndedKeeps ==
    ASSUME Media!TracksAssumption, WritersKept, Open, NEW t \in Media!Tracks,
           NEW written \in BOOLEAN, NEW v, v = Media!Ended(t, written)
    PROVE  Kept(t, v) /\ v.samples = writers[t].samples /\ v.error # "none"
<1> DEFINE w == writers[t]
<1>1. Kept(t, w)
    BY DEF WritersKept, Kept, Media!Tracks
<1>2. CASE ~Media!Made(t) \/ ~written
    BY <1>1, <1>2, FailedKeeps DEF Media!Ended
<1>3. CASE Media!Made(t) /\ written
    <2>1. w.error # "none"
        BY <1>3 DEF Open, Media!Made
    <2>2. v = IF t = "audio" THEN Media!FinishPackets(w) ELSE Media!finish(w)
        BY <1>3 DEF Media!Ended
    <2> QED
        BY <2>1, <2>2, <1>1, FinishKeeps, FinishPacketsKeeps DEF Kept
<1> QED
    BY <1>2, <1>3

\* A writer that was just made, and the one that is not there, have no samples.
LEMMA NoWriterFacts ==
    ASSUME NEW t \in Media!Tracks
    PROVE  /\ Kept(t, Media!NewWriter) /\ Kept(t, Media!NoWriter)
           /\ Media!NewWriter.samples = << >> /\ Media!NoWriter.samples = << >>
           /\ Media!NewWriter.error = "ok" /\ Media!NoWriter.error = "none"
           /\ ~Media!NewWriter.finished /\ ~Media!NoWriter.finished
           /\ Media!NewWriter \in FileWriter /\ Media!NoWriter \in FileWriter
<1>1. << >> \in Seq(Timed) /\ Len(<< >>) = 0
    OBVIOUS
<1> DEFINE Fields(w) == /\ w.start = -1 /\ w.last = -1 /\ w.samples = << >> /\ w.finished = FALSE
                        /\ w \in FileWriter
<1>2. Fields(Media!NewWriter) /\ Media!NewWriter.error = "ok"
    BY <1>1 DEF Media!NewWriter, Media!None, FileWriter, WriterErrors
<1>3. Fields(Media!NoWriter) /\ Media!NoWriter.error = "none"
    BY <1>2 DEF Media!NoWriter, FileWriter, WriterErrors
<1> QED
    BY <1>1, <1>2, <1>3 DEF Kept, SoundKept, VideoKept, FileKept, InOrder, AsCaptured

\* A thread that is handed the next sample of its track makes the writer for it if there
\* is none.
LEMMA WriteKeeps ==
    ASSUME Media!TracksAssumption, WritersKept, Open, NEW t \in Media!Tracks,
           threads[ThreadOf(t)] = "run",
           NEW s \in Media!Samples, s.at >= 0, s.fallback >= 0,
           \A k \in 1 .. Len(writers[t].samples) : writers[t].samples[k].at <= s.at,
           NEW ready \in BOOLEAN, NEW accepted \in BOOLEAN,
           NEW v, v = Media!Write(t, s, ready, accepted)
    PROVE  Kept(t, v) /\ Took(writers[t], v, s)
<1>1. PICK w : w = IF Media!Made(t) THEN writers[t] ELSE Media!NewWriter
    OBVIOUS
<1>2. Kept(t, w) /\ w.samples = writers[t].samples /\ w.error = "ok" /\ ~w.finished
    <2>1. CASE Media!Made(t)
        BY <2>1, <1>1 DEF WritersKept, Open, Kept, Media!Made, Media!Tracks
    <2>2. CASE ~Media!Made(t)
        BY <2>2, <1>1, NoWriterFacts DEF Media!Made
    <2> QED
        BY <2>1, <2>2
<1>3. /\ t = "audio" => v = Media!AppendPacket(w, s, Media!writer_timestamp(s), ready, accepted)
      /\ t # "audio" => v = Media!append(w, s, Media!writer_timestamp(s), ready, accepted)
    BY <1>1 DEF Media!Write
<1>4. \A k \in 1 .. Len(w.samples) : w.samples[k].at <= s.at
    BY <1>2
<1>5. CASE t = "audio"
    <2>1. SoundKept(w) /\ v = Media!AppendPacket(w, s, Media!writer_timestamp(s), ready, accepted)
        BY <1>2, <1>3, <1>5 DEF Kept
    <2>2. SoundKept(v) /\ Took(w, v, s)
        BY <2>1, <1>2, <1>4, AppendPacketKeeps
    <2> QED
        BY <2>2, <1>2, <1>5 DEF Kept, Took
<1>6. CASE t # "audio"
    BY <1>2, <1>3, <1>4, <1>6, AppendKeeps DEF Kept, Took
<1> QED
    BY <1>5, <1>6

-----------------------------------------------------------------------------
(* The threads and the queues.                                             *)

\* What a step does to the samples of the tracks: one more of those of track t, or none.
Grew(t, s) ==
    \A u \in Media!Tracks :
        \/ writers'[u].samples = writers[u].samples
        \/ /\ u = t /\ s.track = t
           /\ \E time \in Int :
                 writers'[u].samples = Append(writers[u].samples, Media!Written(s, time))

\* A sample is stored: the writers, their threads and the first timings fit together again.
LEMMA StoredKeeps ==
    ASSUME Media!TracksAssumption, TracksInv, NEW t \in Media!Tracks, NEW thread, thread = ThreadOf(t),
           threads[thread] = "run",
           NEW s \in Media!Samples, s.at >= 0, s.fallback >= 0,
           NEW v, Kept(t, v), Took(writers[t], v, s),
           s.track = t \/ v.samples = writers[t].samples,
           Media!Stored(t, s, thread, v)
    PROVE  /\ WritersKept' /\ Open' /\ FirstsKept' /\ Grew(t, s)
           /\ threads' \in [{"screen", "camera"} -> {"run", "ok", "err"}]
           /\ \A u \in Media!Tracks : first'[u] = Media!NoTiming \/
                 (first'[u].at \in -1 .. MaxClock /\ first'[u].fallback \in -1 .. MaxClock)
<1> DEFINE q == writers[t].samples
<1>0. /\ WritersKept /\ Open /\ FirstsKept /\ writers \in [Media!Tracks -> FileWriter]
      /\ threads \in [{"screen", "camera"} -> {"run", "ok", "err"}]
      /\ first \in [Media!Tracks -> [at : Int, fallback : Int, norm : BOOLEAN]]
      /\ thread \in {"screen", "camera"} /\ v \in FileWriter /\ q \in Seq(Timed)
      /\ s \in [track : Media!Tracks, at : -1 .. MaxClock, fallback : -1 .. MaxClock, norm : BOOLEAN]
      /\ MaxClock \in Nat
    BY DEF TracksInv, WritersKept, FirstsKept, ThreadOf, Kept, SoundKept, VideoKept, FileKept, FileWriter,
           Media!Samples, Media!TracksAssumption
<1>1. /\ writers' = [writers EXCEPT ![t] = v]
      /\ threads' = IF v.error = "ok" THEN threads ELSE [threads EXCEPT ![thread] = "err"]
      /\ first' = IF v.error = "ok" /\ v.samples # << >> /\ first[t] = Media!NoTiming
                  THEN [first EXCEPT ![t] = [at |-> s.at, fallback |-> s.fallback, norm |-> s.norm]]
                  ELSE first
    BY DEF Media!Stored
<1>2. /\ writers' \in [Media!Tracks -> FileWriter] /\ writers'[t] = v
      /\ \A u \in Media!Tracks : u # t => writers'[u] = writers[u]
    BY <1>0, <1>1
<1>3. WritersKept'
    BY <1>0, <1>2 DEF WritersKept, Kept, Media!Tracks
<1>4. threads' \in [{"screen", "camera"} -> {"run", "ok", "err"}]
    BY <1>0, <1>1
<1>5. Open'
    <2> SUFFICES ASSUME NEW u \in Media!Tracks
                 PROVE  /\ writers'[u].error = "none" => writers'[u] = Media!NoWriter
                        /\ threads'[ThreadOf(u)] = "run" =>
                              ~writers'[u].finished /\ writers'[u].error \in {"none", "ok"}
        BY DEF Open
    <2>1. CASE u = t
        <3>1. v.error # "none" /\ ~v.finished
            BY DEF Took
        <3>2. threads'[thread] = "run" => v.error = "ok"
            BY <1>0, <1>1
        <3> QED
            BY <2>1, <3>1, <3>2, <1>2
    <2>2. CASE u # t
        <3>1. threads'[ThreadOf(u)] = "run" => threads[ThreadOf(u)] = "run"
            BY <1>0, <1>1 DEF ThreadOf
        <3> QED
            BY <2>2, <3>1, <1>0, <1>2 DEF Open
    <2> QED
        BY <2>1, <2>2
<1>6. Grew(t, s)
    BY <1>2 DEF Grew, Took
<1>7. /\ first' \in [Media!Tracks -> [at : Int, fallback : Int, norm : BOOLEAN]]
      /\ \A u \in Media!Tracks : u # t => first'[u] = first[u]
    BY <1>0, <1>1
<1>8. \/ first'[t] = first[t]
      \/ /\ first[t] = Media!NoTiming /\ v.error = "ok" /\ v.samples # << >>
         /\ first'[t] = [at |-> s.at, fallback |-> s.fallback, norm |-> s.norm]
    BY <1>0, <1>1
<1>9. /\ q = << >> => first[t] = Media!NoTiming
      /\ q # << >> => first[t] # Media!NoTiming /\ first'[t] = first[t] /\ q[1].at >= 0
                      /\ first[t].at = q[1].at /\ first[t].norm = q[1].norm
    <2>1. q # << >> => q[1].at >= 0
        BY <1>0 DEF WritersKept, VideoKept, SoundKept, FileKept, Media!Tracks
    <2>2. Media!NoTiming.at = -1
        BY DEF Media!NoTiming, Media!None
    <2> QED
        BY <2>1, <2>2, <1>0, <1>8 DEF FirstsKept
<1>10. IF v.samples = << >> THEN first'[t] = Media!NoTiming
       ELSE first'[t].at = v.samples[1].at /\ first'[t].norm = v.samples[1].norm
    <2>1. CASE v.samples = q
        BY <2>1, <1>8, <1>9
    <2>2. CASE v.samples # q
        <3>1. PICK time \in Int : v.samples = Append(q, Media!Written(s, time)) /\ v.error = "ok"
            BY <2>2 DEF Took
        <3> DEFINE x == Media!Written(s, time)
        <3>2. x \in Timed /\ x.at = s.at /\ x.norm = s.norm
            BY <1>0 DEF Media!Written, Timed
        <3> HIDE DEF x
        <3>3. v.samples # << >> /\ v.samples = Append(q, x) /\ Len(q) \in Nat
            <4>1. v.samples = Append(q, x)
                BY <3>1 DEF x
            <4>2. q \in Seq(Timed)
                BY <1>0
            <4> HIDE DEF q
            <4> QED
                BY <4>1, <4>2, <3>2, AppendFacts
        <3>4. CASE q = << >>
            <4>1. v.samples[1] = x
                BY <3>2, <3>3, <3>4
            <4>2. first'[t] = [at |-> s.at, fallback |-> s.fallback, norm |-> s.norm]
                BY <3>1, <3>3, <3>4, <1>0, <1>1, <1>9
            <4> QED
                BY <4>1, <4>2, <3>2, <3>3
        <3>5. CASE q # << >>
            <4>1. v.samples[1] = q[1]
                <5>1. 1 \in 1 .. Len(q)
                    BY <3>5, <1>0
                <5> QED
                    BY <5>1, <3>2, <3>3, <1>0, AppendFacts
            <4> QED
                BY <4>1, <3>3, <3>5, <1>9
        <3> QED
            BY <3>4, <3>5
    <2> QED
        BY <2>1, <2>2
<1>11. FirstsKept'
    BY <1>0, <1>2, <1>7, <1>10 DEF FirstsKept
<1>12. ASSUME NEW u \in Media!Tracks
       PROVE  first'[u] = Media!NoTiming \/
                 (first'[u].at \in -1 .. MaxClock /\ first'[u].fallback \in -1 .. MaxClock)
    <2>1. CASE first'[u] = first[u]
        BY <2>1 DEF TracksInv
    <2>2. CASE first'[u] # first[u]
        BY <2>2, <1>0, <1>7, <1>8
    <2> QED
        BY <2>1, <2>2
<1> QED
    BY <1>3, <1>4, <1>5, <1>6, <1>11, <1>12

\* Whoever takes the next message and writes it leaves the rest in turn.
LEMMA TurnTail ==
    ASSUME NEW t \in Media!Tracks, NEW a \in Seq(Timed), NEW q \in Seq(Queued), q # << >>,
           NEW c, InTurn(t, a, q, c),
           NEW b, \/ b = a
                  \/ /\ Head(q).track = t
                     /\ \E time \in Int : b = Append(a, Media!Written(Head(q), time))
    PROVE  InTurn(t, b, Tail(q), c)
<1> DEFINE r == Tail(q)
<1>1. /\ Len(q) \in Nat /\ Len(q) > 0 /\ Len(r) = Len(q) - 1 /\ Head(q) = q[1] /\ 1 \in 1 .. Len(q)
      /\ \A i \in 1 .. Len(r) : r[i] = q[i + 1] /\ i + 1 \in 1 .. Len(q) /\ 1 < i + 1
    OBVIOUS
<1>2. \A i, j \in 1 .. Len(r) : i < j => i + 1 < j + 1
    BY <1>1
<1> HIDE DEF r
<1>3. InTurn(t, a, r, c)
    BY <1>1, <1>2 DEF InTurn
<1>4. CASE b = a
    BY <1>3, <1>4 DEF r
<1>5. CASE /\ Head(q).track = t
           /\ \E time \in Int : b = Append(a, Media!Written(Head(q), time))
    <2>1. PICK time \in Int : b = Append(a, Media!Written(q[1], time))
        BY <1>5, <1>1
    <2> DEFINE x == Media!Written(q[1], time)
    <2>2. q[1] \in Media!Samples /\ x.at = q[1].at /\ x \in Timed
        <3>1. q[1] \in Queued /\ q[1].track = t
            BY <1>1, <1>5
        <3>2. q[1] \in Media!Samples
            BY <3>1 DEF Queued, Media!Finish, Media!Tracks
        <3> QED
            BY <3>2 DEF Media!Written, Media!Samples, Timed
    <2> HIDE DEF x
    <2>3. /\ Len(b) = Len(a) + 1 /\ Len(a) \in Nat /\ b[Len(a) + 1] = x
          /\ \A i \in 1 .. Len(a) : b[i] = a[i]
        BY <2>1, <2>2, AppendFacts DEF x
    <2>4. \A k \in 1 .. Len(b) : b[k] = x \/ \E i \in 1 .. Len(a) : b[k] = a[i]
        BY <2>3
    <2>5. x.at <= c.at /\ \A i \in 1 .. Len(r) : r[i].track = t => x.at <= r[i].at
        BY <1>1, <1>5, <2>2 DEF InTurn
    <2> QED
        BY <2>4, <2>5, <1>3 DEF InTurn, r
<1> QED
    BY <1>4, <1>5

\* A callback's sample comes after all of its track.
LEMMA TurnAppend ==
    ASSUME NEW t \in Media!Tracks, NEW a \in Seq(Timed), NEW q \in Seq(Queued),
           NEW c, NEW d, c.at \in Int, d.at \in Int, c.at <= d.at, InTurn(t, a, q, c),
           NEW x \in Queued, x.track = t => x.at = d.at
    PROVE  InTurn(t, a, q, d) /\ InTurn(t, a, Append(q, x), d)
<1> DEFINE r == Append(q, x)
<1>1. /\ Len(r) = Len(q) + 1 /\ Len(q) \in Nat /\ r[Len(q) + 1] = x
      /\ \A i \in 1 .. Len(q) : r[i] = q[i] /\ q[i] \in Queued
    OBVIOUS
<1> HIDE DEF r
<1>2. \A i \in 1 .. Len(q) : q[i].track = t => q[i].at \in Int
    BY <1>1 DEF Queued, Media!Finish, Media!Tracks, Media!Samples
<1>3. \A k \in 1 .. Len(a) : a[k].at \in Int
    <2>1. \A k \in 1 .. Len(a) : a[k] \in Timed
        OBVIOUS
    <2> QED
        BY <2>1 DEF Timed
<1>4. InTurn(t, a, q, d)
    <2>1. ASSUME NEW i \in 1 .. Len(q), q[i].track = t PROVE q[i].at <= d.at
        <3>1. q[i].at <= c.at /\ q[i].at \in Int
            BY <1>2, <2>1 DEF InTurn
        <3> QED
            BY <3>1
    <2>2. ASSUME NEW k \in 1 .. Len(a) PROVE a[k].at <= d.at
        <3>1. a[k].at <= c.at /\ a[k].at \in Int
            BY <1>3 DEF InTurn
        <3> QED
            BY <3>1
    <2> QED
        BY <2>1, <2>2 DEF InTurn
<1>5. \A i \in 1 .. Len(r) : i = Len(q) + 1 \/ i \in 1 .. Len(q)
    BY <1>1
<1>6. InTurn(t, a, r, d)
    <2>1. \A i \in 1 .. Len(r) : r[i].track = t =>
              r[i].at <= d.at /\ \A k \in 1 .. Len(a) : a[k].at <= r[i].at
        BY <1>1, <1>4, <1>5 DEF InTurn
    <2>2. \A i, j \in 1 .. Len(r) : i < j /\ r[i].track = t /\ r[j].track = t => r[i].at <= r[j].at
        <3> SUFFICES ASSUME NEW i \in 1 .. Len(r), NEW j \in 1 .. Len(r), i < j,
                            r[i].track = t, r[j].track = t
                     PROVE  r[i].at <= r[j].at
            OBVIOUS
        <3>1. i \in 1 .. Len(q)
            BY <1>1
        <3>2. CASE j = Len(q) + 1
            BY <3>1, <3>2, <1>1, <1>4 DEF InTurn
        <3>3. CASE j \in 1 .. Len(q)
            BY <3>1, <3>3, <1>1, <1>4 DEF InTurn
        <3> QED
            BY <3>2, <3>3, <1>5
    <2> QED
        BY <2>1, <2>2, <1>4 DEF InTurn
<1> QED
    BY <1>4, <1>6 DEF r

-----------------------------------------------------------------------------
(* The tracks start well and every step keeps them so.                     *)

\* The types of the tracks.
LEMMA TracksTypes ==
    ASSUME Media!TracksAssumption, TracksInv
    PROVE  /\ MaxClock \in Nat /\ MaxSamples \in Nat /\ TracksDepth \in Nat
           /\ bundle \in BOOLEAN /\ clock \in 0 .. MaxClock
           /\ captured \in [Media!Tracks -> [count : 0 .. MaxSamples, at : -1 .. MaxClock]]
           /\ threads \in [{"screen", "camera"} -> {"run", "ok", "err"}]
           /\ writers \in [Media!Tracks -> FileWriter]
           /\ trackQueue \in Seq(Queued) /\ cameraQueue \in Seq(Queued)
           /\ \A t \in Media!Tracks : writers[t].samples \in Seq(Timed) /\ captured[t].at \in Int
           /\ offsets \in [Media!Tracks -> Int]
           /\ first \in [Media!Tracks -> [at : Int, fallback : Int, norm : BOOLEAN]]
<1>1. \A t \in Media!Tracks : writers[t].samples \in Seq(Timed)
    BY DEF TracksInv, WritersKept, FileWriter
<1>2. \A t \in Media!Tracks : captured[t].at \in Int
    BY DEF TracksInv, Media!TracksAssumption
<1> QED
    BY <1>1, <1>2 DEF TracksInv, WritersKept, QueuesTyped, OffsetsKept, FirstsKept, Media!TracksAssumption

\* The invariant of the tracks holds at first.
LEMMA TracksStart ==
    ASSUME Media!TracksAssumption, Media!Init
    PROVE  TracksInv
<1>0. /\ MaxClock \in Nat /\ MaxSamples \in Nat /\ TracksDepth \in Nat
      /\ Media!NoTiming = [at |-> -1, fallback |-> -1, norm |-> FALSE]
    BY DEF Media!TracksAssumption, Media!NoTiming, Media!None
<1>1. /\ writers = [t \in Media!Tracks |-> Media!NoWriter] /\ first = [t \in Media!Tracks |-> Media!NoTiming]
      /\ captured = [t \in Media!Tracks |-> [count |-> 0, at |-> -1]]
      /\ trackQueue = << >> /\ phase = "recording" /\ offsets = [t \in Media!Tracks |-> 0]
      /\ \/ cameraQueue = << >>
         \/ \E n \in BOOLEAN :
               cameraQueue = <<[track |-> "camera", at |-> -1, fallback |-> -1, norm |-> n]>>
    BY DEF Media!Init
<1>2. \A t \in Media!Tracks : /\ writers[t].samples = << >> /\ writers[t].error = "none"
                              /\ ~writers[t].finished /\ writers[t] \in FileWriter /\ Kept(t, writers[t])
                              /\ writers[t] = Media!NoWriter
    BY <1>1, NoWriterFacts
<1>3. WritersKept
    BY <1>1, <1>2 DEF WritersKept, Kept, Media!Tracks
<1>4. Open
    BY <1>2 DEF Open
<1>5. FirstsKept
    BY <1>0, <1>1, <1>2 DEF FirstsKept
<1>6. /\ cameraQueue \in Seq(Queued)
      /\ \A i \in 1 .. Len(cameraQueue) :
            /\ cameraQueue[i] \in Media!Samples /\ cameraQueue[i].track = "camera"
            /\ cameraQueue[i].at = -1 /\ cameraQueue[i].fallback = -1
      /\ Len(cameraQueue) <= 1
    <2>1. CASE cameraQueue = << >>
        BY <2>1
    <2>2. CASE cameraQueue # << >>
        <3>1. PICK n \in BOOLEAN :
                  cameraQueue = <<[track |-> "camera", at |-> -1, fallback |-> -1, norm |-> n]>>
            BY <2>2, <1>1
        <3>2. [track |-> "camera", at |-> -1, fallback |-> -1, norm |-> n] \in Media!Samples
            BY <1>0 DEF Media!Samples, Media!Tracks
        <3> QED
            BY <3>1, <3>2 DEF Queued
    <2> QED
        BY <2>1, <2>2
<1>7. QueuesTyped
    BY <1>0, <1>1, <1>6 DEF QueuesTyped
<1>8. QueuesInTurn
    <2> SUFFICES ASSUME NEW t \in Media!Tracks
                 PROVE  InTurn(t, << >>, QueueOf(t), captured[t])
        BY <1>2 DEF QueuesInTurn
    <2>1. CASE t = "camera"
        BY <2>1, <1>1, <1>6 DEF InTurn, QueueOf
    <2>2. CASE t # "camera"
        BY <2>2, <1>1 DEF InTurn, QueueOf
    <2> QED
        BY <2>1, <2>2
<1>9. OffsetsKept
    BY <1>1 DEF OffsetsKept, Media!Tracks
<1>10. /\ threads \in [{"screen", "camera"} -> {"run", "ok", "err"}] /\ bundle \in BOOLEAN
       /\ clock \in 0 .. MaxClock /\ \A t \in Media!Tracks : first[t] = Media!NoTiming
       /\ captured \in [Media!Tracks -> [count : 0 .. MaxSamples, at : -1 .. MaxClock]]
       /\ phase \in {"recording", "stopping", "finishing", "done", "failed"}
    BY <1>0, <1>1 DEF Media!Init
<1> QED
    BY <1>3, <1>4, <1>5, <1>7, <1>8, <1>9, <1>10 DEF TracksInv

\* The sample a thread takes from its queue is not captured before those in the file.
LEMMA HeadFacts ==
    ASSUME Media!TracksAssumption, TracksInv, NEW t \in Media!Tracks, QueueOf(t) # << >>,
           Head(QueueOf(t)).track = t, t = "camera" => Head(QueueOf(t)).fallback >= 0
    PROVE  LET s == Head(QueueOf(t))
           IN  /\ s \in Media!Samples /\ s.at >= 0 /\ s.fallback >= 0
               /\ \A k \in 1 .. Len(writers[t].samples) : writers[t].samples[k].at <= s.at
<1> DEFINE q == QueueOf(t)
<1>1. q \in Seq(Queued) /\ InTurn(t, writers[t].samples, q, captured[t])
    BY DEF TracksInv, QueuesTyped, QueuesInTurn, QueueOf
<1>2. Head(q) = q[1] /\ 1 \in 1 .. Len(q) /\ q[1] \in Queued
    BY <1>1
<1>3. q[1] \in Media!Samples /\ q[1] # Media!Finish
    BY <1>2 DEF Queued, Media!Finish, Media!Tracks
<1>4. q[1].at >= 0 /\ q[1].fallback >= 0
    <2>1. CASE t = "camera"
        BY <2>1, <1>2, <1>3 DEF TracksInv, QueuesTyped, QueueOf
    <2>2. CASE t # "camera"
        BY <2>2, <1>2, <1>3 DEF TracksInv, QueuesTyped, QueueOf
    <2> QED
        BY <2>1, <2>2
<1> QED
    BY <1>1, <1>2, <1>3, <1>4 DEF InTurn

\* A thread has taken the next message of its queue.
LEMMA QueuesShrink ==
    ASSUME Media!TracksAssumption, TracksInv, NEW h \in {"screen", "camera"},
           QueueOf(h) # << >>, QueueOf(h)' = Tail(QueueOf(h)),
           h = "screen" => cameraQueue' = cameraQueue, h = "camera" => trackQueue' = trackQueue,
           UNCHANGED captured, NEW t \in Media!Tracks, ThreadOf(t) = h, Grew(t, Head(QueueOf(h)))
    PROVE  QueuesTyped' /\ QueuesInTurn'
<1>0. /\ trackQueue \in Seq(Queued) /\ cameraQueue \in Seq(Queued) /\ TracksDepth \in Nat
      /\ \A u \in Media!Tracks : writers[u].samples \in Seq(Timed)
    BY TracksTypes
<1>1. ASSUME NEW q \in Seq(Queued), q # << >>
      PROVE  /\ Tail(q) \in Seq(Queued) /\ Len(Tail(q)) = Len(q) - 1 /\ Len(q) \in Nat
             /\ \A i \in 1 .. Len(Tail(q)) : \E j \in 1 .. Len(q) : Tail(q)[i] = q[j]
    <2>1. /\ Tail(q) \in Seq(Queued) /\ Len(Tail(q)) = Len(q) - 1 /\ Len(q) \in Nat
          /\ \A i \in 1 .. Len(Tail(q)) : i + 1 \in 1 .. Len(q) /\ Tail(q)[i] = q[i + 1]
        BY <1>1
    <2> QED
        BY <2>1
<1>2. QueuesTyped'
    <2>1. CASE h = "screen"
        <3>1. trackQueue # << >> /\ trackQueue' = Tail(trackQueue) /\ cameraQueue' = cameraQueue
            BY <2>1 DEF QueueOf
        <3>2. /\ trackQueue' \in Seq(Queued) /\ Len(trackQueue') = Len(trackQueue) - 1
              /\ Len(trackQueue) \in Nat
              /\ \A i \in 1 .. Len(trackQueue') : \E j \in 1 .. Len(trackQueue) : trackQueue'[i] = trackQueue[j]
            BY <3>1, <1>0, <1>1
        <3> QED
            <4>1. QueuesTyped
                BY DEF TracksInv
            <4>2. ASSUME NEW i \in 1 .. Len(trackQueue'), trackQueue'[i] # Media!Finish
                  PROVE  /\ trackQueue'[i].track # "camera" /\ trackQueue'[i].at >= 0
                         /\ trackQueue'[i].fallback >= 0
                BY <3>2, <4>1, <4>2 DEF QueuesTyped
            <4>3. Len(trackQueue') <= TracksDepth
                BY <3>2, <4>1, <1>0 DEF QueuesTyped
            <4>4. \A i \in 1 .. Len(cameraQueue') :
                      /\ cameraQueue'[i] \in Media!Samples /\ cameraQueue'[i].track = "camera"
                      /\ cameraQueue'[i].fallback >= 0 => cameraQueue'[i].at >= 0
                BY <3>1, <4>1 DEF QueuesTyped
            <4> QED
                BY <3>1, <3>2, <4>2, <4>3, <4>4, <1>0 DEF QueuesTyped
    <2>2. CASE h = "camera"
        <3>1. cameraQueue # << >> /\ cameraQueue' = Tail(cameraQueue) /\ trackQueue' = trackQueue
            BY <2>2 DEF QueueOf
        <3>2. /\ cameraQueue' \in Seq(Queued)
              /\ \A i \in 1 .. Len(cameraQueue') : \E j \in 1 .. Len(cameraQueue) : cameraQueue'[i] = cameraQueue[j]
            BY <3>1, <1>0, <1>1
        <3> QED
            BY <3>1, <3>2, <1>0 DEF TracksInv, QueuesTyped
    <2> QED
        BY <2>1, <2>2
<1>3. ASSUME NEW u \in Media!Tracks
      PROVE  InTurn(u, writers'[u].samples, QueueOf(u)', captured'[u])
    <2>0. InTurn(u, writers[u].samples, QueueOf(u), captured[u]) /\ captured'[u] = captured[u]
        BY DEF TracksInv, QueuesInTurn
    <2>1. CASE ThreadOf(u) = h
        <3>1. QueueOf(u) = QueueOf(h) /\ QueueOf(u)' = QueueOf(h)' /\ QueueOf(u) \in Seq(Queued)
            BY <2>1, <1>0 DEF QueueOf, ThreadOf, Media!Tracks
        <3>2. \/ writers'[u].samples = writers[u].samples
              \/ /\ Head(QueueOf(u)).track = u
                 /\ \E time \in Int : writers'[u].samples
                                         = Append(writers[u].samples, Media!Written(Head(QueueOf(u)), time))
            BY <3>1 DEF Grew
        <3>3. InTurn(u, writers'[u].samples, Tail(QueueOf(u)), captured[u])
            BY <3>1, <3>2, <2>0, <1>0, TurnTail
        <3> QED
            BY <3>1, <3>3, <2>0
    <2>2. CASE ThreadOf(u) # h
        <3>1. u # t /\ QueueOf(u)' = QueueOf(u)
            BY <2>2 DEF QueueOf, ThreadOf
        <3>2. writers'[u].samples = writers[u].samples
            BY <3>1 DEF Grew
        <3> QED
            BY <3>1, <3>2, <2>0
    <2> QED
        BY <2>1, <2>2
<1> QED
    BY <1>2, <1>3 DEF QueuesInTurn

\* The steps of a thread: what it takes is written, or skipped, and the rest stays.
LEMMA ThreadSteps ==
    ASSUME Media!TracksAssumption, TracksInv, NEW h \in {"screen", "camera"}, threads[h] = "run",
           QueueOf(h) # << >>, QueueOf(h)' = Tail(QueueOf(h)),
           h = "screen" => cameraQueue' = cameraQueue, h = "camera" => trackQueue' = trackQueue,
           UNCHANGED <<bundle, clock, captured, phase, offsets>>,
           NEW t \in Media!Tracks, ThreadOf(t) = h, Grew(t, Head(QueueOf(h))),
           WritersKept', Open', FirstsKept',
           threads' \in [{"screen", "camera"} -> {"run", "ok", "err"}],
           \A u \in Media!Tracks : first'[u] = Media!NoTiming \/
               (first'[u].at \in -1 .. MaxClock /\ first'[u].fallback \in -1 .. MaxClock)
    PROVE  TracksInv'
<1>1. QueuesTyped' /\ QueuesInTurn'
    BY QueuesShrink
<1>2. OffsetsKept'
    BY DEF TracksInv, OffsetsKept
<1> QED
    BY <1>1, <1>2 DEF TracksInv

\* Every step of the callbacks, the writer threads and record() keeps the invariant.
LEMMA TracksStep ==
    ASSUME Media!TracksAssumption, TracksInv, [Media!Next]_tracksVars
    PROVE  TracksInv'
<1>0. /\ MaxClock \in Nat /\ MaxSamples \in Nat /\ TracksDepth \in Nat
      /\ bundle \in BOOLEAN /\ clock \in 0 .. MaxClock
      /\ captured \in [Media!Tracks -> [count : 0 .. MaxSamples, at : -1 .. MaxClock]]
      /\ threads \in [{"screen", "camera"} -> {"run", "ok", "err"}]
      /\ writers \in [Media!Tracks -> FileWriter]
      /\ trackQueue \in Seq(Queued) /\ cameraQueue \in Seq(Queued)
      /\ \A t \in Media!Tracks : writers[t].samples \in Seq(Timed) /\ captured[t].at \in Int
      /\ offsets \in [Media!Tracks -> Int]
      /\ first \in [Media!Tracks -> [at : Int, fallback : Int, norm : BOOLEAN]]
    BY TracksTypes
<1>12. WritersKept /\ Open /\ FirstsKept /\ QueuesTyped /\ QueuesInTurn /\ OffsetsKept
    BY DEF TracksInv
<1>1. CASE Media!Tick
    <2>1. clock' \in 0 .. MaxClock
        BY <1>0, <1>1 DEF Media!Tick
    <2> QED
        BY <2>1, <1>1 DEF Media!Tick, TracksInv, WritersKept, Open, FirstsKept, QueuesTyped, QueuesInTurn,
           QueueOf, OffsetsKept
<1>2. ASSUME NEW t \in Media!Tracks, Media!Capture(t) PROVE TracksInv'
    <2>1. PICK at \in Media!AtLeast(captured[t].at, 0) .. clock, n \in BOOLEAN :
              LET s == [track |-> t, at |-> at, fallback |-> clock, norm |-> n]
                  full == Len(IF t = "camera" THEN cameraQueue ELSE trackQueue) >= TracksDepth
              IN  /\ captured' = [captured EXCEPT ![t] = [count |-> @.count + 1, at |-> at]]
                  /\ trackQueue' = IF full \/ t = "camera" THEN trackQueue ELSE Append(trackQueue, s)
                  /\ cameraQueue' = IF full \/ t # "camera" THEN cameraQueue ELSE Append(cameraQueue, s)
        BY <1>2 DEF Media!Capture
    <2>2. PICK s : s = [track |-> t, at |-> at, fallback |-> clock, norm |-> n]
        OBVIOUS
    <2>3. at \in 0 .. MaxClock /\ captured[t].at <= at
        BY <1>0, <2>1 DEF Media!AtLeast
    <2>4. s \in Media!Samples /\ s \in Queued /\ s.track = t /\ s.at = at /\ s.at >= 0 /\ s.fallback >= 0
        BY <1>0, <2>2, <2>3 DEF Media!Samples, Queued
    <2>5. /\ captured' = [captured EXCEPT ![t] = [count |-> captured[t].count + 1, at |-> at]]
          /\ \/ trackQueue' = trackQueue
             \/ trackQueue' = Append(trackQueue, s) /\ t # "camera" /\ Len(trackQueue) < TracksDepth
          /\ \/ cameraQueue' = cameraQueue
             \/ cameraQueue' = Append(cameraQueue, s) /\ t = "camera"
        BY <1>0, <2>1, <2>2
    <2>6. UNCHANGED <<bundle, clock, writers, first, threads, phase, offsets>> /\ captured[t].count < MaxSamples
        BY <1>2 DEF Media!Capture
    <2>7. /\ captured' \in [Media!Tracks -> [count : 0 .. MaxSamples, at : -1 .. MaxClock]]
          /\ captured'[t].at = at /\ \A u \in Media!Tracks : u # t => captured'[u] = captured[u]
        <3>1. [count |-> captured[t].count + 1, at |-> at] \in [count : 0 .. MaxSamples, at : -1 .. MaxClock]
            BY <1>0, <2>3, <2>6
        <3> QED
            BY <3>1, <1>0, <2>5
    <2>8. ASSUME NEW q \in Seq(Queued)
          PROVE  /\ Append(q, s) \in Seq(Queued) /\ Len(Append(q, s)) = Len(q) + 1 /\ Len(q) \in Nat
                 /\ \A i \in 1 .. Len(Append(q, s)) : Append(q, s)[i] = s \/ \E j \in 1 .. Len(q) : Append(q, s)[i] = q[j]
        <3>1. /\ Append(q, s) \in Seq(Queued) /\ Len(Append(q, s)) = Len(q) + 1 /\ Len(q) \in Nat
              /\ Append(q, s)[Len(q) + 1] = s /\ \A i \in 1 .. Len(q) : Append(q, s)[i] = q[i]
            BY <2>4, <2>8
        <3> QED
            BY <3>1
    <2>9. /\ trackQueue' \in Seq(Queued) /\ Len(trackQueue') <= TracksDepth
          /\ \A i \in 1 .. Len(trackQueue') : trackQueue'[i] # Media!Finish =>
                trackQueue'[i].track # "camera" /\ trackQueue'[i].at >= 0 /\ trackQueue'[i].fallback >= 0
        <3>1. CASE trackQueue' = trackQueue
            BY <3>1, <1>12 DEF QueuesTyped
        <3>2. CASE trackQueue' # trackQueue
            <4>0. trackQueue' = Append(trackQueue, s) /\ t # "camera" /\ Len(trackQueue) < TracksDepth
                BY <3>2, <2>5
            <4>1. /\ trackQueue' \in Seq(Queued) /\ Len(trackQueue') = Len(trackQueue) + 1 /\ t # "camera"
                  /\ Len(trackQueue) \in Nat /\ Len(trackQueue) < TracksDepth
                  /\ \A i \in 1 .. Len(trackQueue') :
                        trackQueue'[i] = s \/ \E j \in 1 .. Len(trackQueue) : trackQueue'[i] = trackQueue[j]
                BY <4>0, <1>0, <2>8
            <4>2. Len(trackQueue') <= TracksDepth
                BY <4>1, <1>0
            <4> QED
                BY <4>1, <4>2, <2>4, <1>12 DEF QueuesTyped
        <3> QED
            BY <3>1, <3>2
    <2>10. /\ cameraQueue' \in Seq(Queued)
           /\ \A i \in 1 .. Len(cameraQueue') :
                 /\ cameraQueue'[i] \in Media!Samples /\ cameraQueue'[i].track = "camera"
                 /\ cameraQueue'[i].fallback >= 0 => cameraQueue'[i].at >= 0
        <3>1. CASE cameraQueue' = cameraQueue
            BY <3>1, <1>12 DEF QueuesTyped
        <3>2. CASE cameraQueue' # cameraQueue
            <4>0. cameraQueue' = Append(cameraQueue, s) /\ t = "camera"
                BY <3>2, <2>5
            <4>1. /\ cameraQueue' \in Seq(Queued) /\ t = "camera"
                  /\ \A i \in 1 .. Len(cameraQueue') :
                        cameraQueue'[i] = s \/ \E j \in 1 .. Len(cameraQueue) : cameraQueue'[i] = cameraQueue[j]
                BY <4>0, <1>0, <2>8
            <4> QED
                BY <4>1, <2>4, <1>12 DEF QueuesTyped
        <3> QED
            BY <3>1, <3>2
    <2>11. ASSUME NEW u \in Media!Tracks
           PROVE  InTurn(u, writers'[u].samples, QueueOf(u)', captured'[u])
        <3>1. /\ InTurn(u, writers[u].samples, QueueOf(u), captured[u]) /\ writers' = writers
              /\ QueueOf(u) \in Seq(Queued)
            BY <1>0, <1>12, <2>6 DEF QueuesInTurn, QueueOf
        <3>2. QueueOf(u)' = QueueOf(u) \/ QueueOf(u)' = Append(QueueOf(u), s)
            BY <2>5 DEF QueueOf
        <3>3. /\ captured[u].at \in Int /\ captured'[u].at \in Int /\ captured[u].at <= captured'[u].at
              /\ s.track = u => s.at = captured'[u].at
            BY <1>0, <2>3, <2>4, <2>7
        <3>4. /\ InTurn(u, writers[u].samples, QueueOf(u), captured'[u])
              /\ InTurn(u, writers[u].samples, Append(QueueOf(u), s), captured'[u])
            BY <3>1, <3>3, <1>0, <2>4, TurnAppend
        <3> QED
            BY <3>1, <3>2, <3>4
    <2>12. OffsetsKept' /\ WritersKept' /\ Open' /\ FirstsKept'
        BY <2>6, <1>12 DEF OffsetsKept, WritersKept, Open, FirstsKept
    <2> QED
        BY <2>6, <2>7, <2>9, <2>10, <2>11, <2>12 DEF TracksInv, QueuesTyped, QueuesInTurn
<1>3. CASE Media!WriteFrame
    <2> DEFINE s == Head(trackQueue)
    <2>1. /\ threads["screen"] = "run" /\ trackQueue # << >> /\ s.track = "screen"
          /\ trackQueue' = Tail(trackQueue)
          /\ UNCHANGED <<bundle, clock, captured, cameraQueue, phase, offsets>>
        BY <1>3 DEF Media!WriteFrame
    <2>0. PICK ready \in BOOLEAN, accepted \in BOOLEAN :
              Media!Stored("screen", s, "screen", Media!Write("screen", s, ready, accepted))
        BY <1>3 DEF Media!WriteFrame
    <2>2. PICK v : v = Media!Write("screen", s, ready, accepted) /\ Media!Stored("screen", s, "screen", v)
        BY <2>0
    <2>3. QueueOf("screen") = trackQueue /\ QueueOf("screen")' = trackQueue' /\ ThreadOf("screen") = "screen"
          /\ "screen" \in Media!Tracks
        BY DEF QueueOf, ThreadOf, Media!Tracks
    <2>4. /\ s \in Media!Samples /\ s.at >= 0 /\ s.fallback >= 0
          /\ \A k \in 1 .. Len(writers["screen"].samples) : writers["screen"].samples[k].at <= s.at
        BY <2>1, <2>3, HeadFacts
    <2> HIDE DEF s
    <2>5. Kept("screen", v) /\ Took(writers["screen"], v, s)
        BY <2>1, <2>2, <2>3, <2>4, <1>12, WriteKeeps
    <2>6. /\ WritersKept' /\ Open' /\ FirstsKept' /\ Grew("screen", s)
          /\ threads' \in [{"screen", "camera"} -> {"run", "ok", "err"}]
          /\ \A u \in Media!Tracks : first'[u] = Media!NoTiming \/
                (first'[u].at \in -1 .. MaxClock /\ first'[u].fallback \in -1 .. MaxClock)
        BY <2>1, <2>2, <2>3, <2>4, <2>5, StoredKeeps
    <2> QED
        BY <2>1, <2>3, <2>6, ThreadSteps DEF s
<1>4. CASE Media!WriteAudio
    <2> DEFINE s == Head(trackQueue)
    <2>1. /\ threads["screen"] = "run" /\ trackQueue # << >> /\ s.track = "audio"
          /\ trackQueue' = Tail(trackQueue)
          /\ UNCHANGED <<bundle, clock, captured, cameraQueue, phase, offsets>>
        BY <1>4 DEF Media!WriteAudio
    <2>2. PICK ready \in BOOLEAN, accepted \in BOOLEAN :
              IF bundle THEN Media!Stored("audio", s, "screen", Media!Write("audio", s, ready, accepted))
              ELSE IF Media!Made("screen")
              THEN Media!Stored("screen", s, "screen",
                       Media!append_audio(writers["screen"], s, Media!writer_timestamp(s), ready, accepted))
              ELSE ready /\ accepted /\ UNCHANGED <<writers, threads, first>>
        BY <1>4 DEF Media!WriteAudio
    <2>3. /\ QueueOf("audio") = trackQueue /\ QueueOf("screen") = trackQueue
          /\ QueueOf("screen")' = trackQueue' /\ ThreadOf("screen") = "screen"
          /\ ThreadOf("audio") = "screen" /\ "screen" \in Media!Tracks /\ "audio" \in Media!Tracks
        BY DEF QueueOf, ThreadOf, Media!Tracks
    <2>4. /\ s \in Media!Samples /\ s.at >= 0 /\ s.fallback >= 0
          /\ \A k \in 1 .. Len(writers["audio"].samples) : writers["audio"].samples[k].at <= s.at
        BY <2>1, <2>3, HeadFacts
    <2> HIDE DEF s
    <2>5. CASE bundle
        <3>1. PICK v : v = Media!Write("audio", s, ready, accepted) /\ Media!Stored("audio", s, "screen", v)
            BY <2>2, <2>5
        <3>2. Kept("audio", v) /\ Took(writers["audio"], v, s)
            BY <3>1, <2>1, <2>3, <2>4, <1>12, WriteKeeps
        <3>3. /\ WritersKept' /\ Open' /\ FirstsKept' /\ Grew("audio", s)
              /\ threads' \in [{"screen", "camera"} -> {"run", "ok", "err"}]
              /\ \A u \in Media!Tracks : first'[u] = Media!NoTiming \/
                    (first'[u].at \in -1 .. MaxClock /\ first'[u].fallback \in -1 .. MaxClock)
            BY <3>1, <3>2, <2>1, <2>3, <2>4, StoredKeeps
        <3> QED
            BY <3>3, <2>1, <2>3, ThreadSteps DEF s
    <2>6. CASE ~bundle /\ Media!Made("screen")
        <3>1. PICK v : /\ v = Media!append_audio(writers["screen"], s, Media!writer_timestamp(s), ready, accepted)
                       /\ Media!Stored("screen", s, "screen", v)
            BY <2>2, <2>6
        <3>2. VideoKept(writers["screen"]) /\ writers["screen"].error = "ok" /\ ~writers["screen"].finished
            BY <2>1, <2>3, <2>6, <1>12 DEF WritersKept, Open, Media!Made
        <3>3. VideoKept(v) /\ v.samples = writers["screen"].samples /\ Took(writers["screen"], v, s)
            BY <3>1, <3>2, <2>4, AppendAudioKeeps
        <3>4. Kept("screen", v)
            BY <3>3 DEF Kept
        <3>5. /\ WritersKept' /\ Open' /\ FirstsKept' /\ Grew("screen", s)
              /\ threads' \in [{"screen", "camera"} -> {"run", "ok", "err"}]
              /\ \A u \in Media!Tracks : first'[u] = Media!NoTiming \/
                    (first'[u].at \in -1 .. MaxClock /\ first'[u].fallback \in -1 .. MaxClock)
            BY <3>1, <3>3, <3>4, <2>1, <2>3, <2>4, StoredKeeps
        <3> QED
            BY <3>5, <2>1, <2>3, ThreadSteps DEF s
    <2>7. CASE ~bundle /\ ~Media!Made("screen")
        <3>1. UNCHANGED <<writers, threads, first>>
            BY <2>2, <2>7
        <3>2. Grew("screen", s) /\ WritersKept' /\ Open' /\ FirstsKept'
            BY <3>1, <1>12 DEF Grew, WritersKept, Open, FirstsKept
        <3>3. \A u \in Media!Tracks : first'[u] = Media!NoTiming \/
                  (first'[u].at \in -1 .. MaxClock /\ first'[u].fallback \in -1 .. MaxClock)
            BY <3>1 DEF TracksInv
        <3> QED
            BY <3>1, <3>2, <3>3, <2>1, <2>3, <1>0, ThreadSteps DEF s
    <2> QED
        BY <2>5, <2>6, <2>7
<1>5. CASE Media!WriteCamera
    <2> DEFINE s == Head(cameraQueue)
    <2>1. /\ threads["camera"] = "run" /\ cameraQueue # << >> /\ cameraQueue' = Tail(cameraQueue)
          /\ UNCHANGED <<bundle, clock, captured, trackQueue, phase, offsets>>
        BY <1>5 DEF Media!WriteCamera
    <2>2. PICK ready \in BOOLEAN, accepted \in BOOLEAN :
              IF s.fallback < 0 THEN ready /\ accepted /\ UNCHANGED <<writers, threads, first>>
              ELSE Media!Stored("camera", s, "camera", Media!Write("camera", s, ready, accepted))
        BY <1>5 DEF Media!WriteCamera
    <2>3. /\ QueueOf("camera") = cameraQueue /\ QueueOf("camera")' = cameraQueue'
          /\ ThreadOf("camera") = "camera" /\ "camera" \in Media!Tracks
        BY DEF QueueOf, ThreadOf, Media!Tracks
    <2>4. s.track = "camera" /\ s.fallback \in Int
        <3>1. s = cameraQueue[1] /\ 1 \in 1 .. Len(cameraQueue)
            BY <1>0, <2>1
        <3>2. s \in Media!Samples /\ s.track = "camera"
            BY <3>1, <1>12 DEF QueuesTyped
        <3> HIDE DEF s
        <3> QED
            BY <3>2, <1>0 DEF Media!Samples
    <2>5. CASE s.fallback < 0
        <3>1. UNCHANGED <<writers, threads, first>>
            BY <2>2, <2>5
        <3>2. Grew("camera", s) /\ WritersKept' /\ Open' /\ FirstsKept'
            BY <3>1, <1>12 DEF Grew, WritersKept, Open, FirstsKept
        <3>3. \A u \in Media!Tracks : first'[u] = Media!NoTiming \/
                  (first'[u].at \in -1 .. MaxClock /\ first'[u].fallback \in -1 .. MaxClock)
            BY <3>1 DEF TracksInv
        <3> QED
            BY <3>1, <3>2, <3>3, <2>1, <2>3, <1>0, ThreadSteps
    <2>6. CASE s.fallback >= 0
        <3>1. PICK v : v = Media!Write("camera", s, ready, accepted) /\ Media!Stored("camera", s, "camera", v)
            BY <2>2, <2>4, <2>6
        <3>2. /\ s \in Media!Samples /\ s.at >= 0
              /\ \A k \in 1 .. Len(writers["camera"].samples) : writers["camera"].samples[k].at <= s.at
            BY <2>1, <2>3, <2>4, <2>6, HeadFacts
        <3> HIDE DEF s
        <3>3. Kept("camera", v) /\ Took(writers["camera"], v, s)
            BY <3>1, <3>2, <2>1, <2>3, <2>6, <1>12, WriteKeeps
        <3>4. /\ WritersKept' /\ Open' /\ FirstsKept' /\ Grew("camera", s)
              /\ threads' \in [{"screen", "camera"} -> {"run", "ok", "err"}]
              /\ \A u \in Media!Tracks : first'[u] = Media!NoTiming \/
                    (first'[u].at \in -1 .. MaxClock /\ first'[u].fallback \in -1 .. MaxClock)
            BY <3>1, <3>2, <3>3, <2>1, <2>3, <2>4, <2>6, StoredKeeps
        <3> QED
            BY <3>4, <2>1, <2>3, ThreadSteps DEF s
    <2> QED
        BY <2>4, <2>5, <2>6
<1>6. ASSUME NEW written \in BOOLEAN, NEW audioWritten \in BOOLEAN, Media!FinishScreen(written, audioWritten)
      PROVE  TracksInv'
    <2>1. \E screen, audio :
              /\ screen = Media!Ended("screen", written)
              /\ audio = writers["audio"] \/ audio = Media!Ended("audio", audioWritten)
              /\ writers' = [writers EXCEPT !["screen"] = screen, !["audio"] = audio]
        <3>1. PICK screen : screen = Media!Ended("screen", written)
            OBVIOUS
        <3>2. PICK audio : audio = IF screen.finished
                                   THEN IF bundle THEN Media!Ended("audio", audioWritten) ELSE writers["audio"]
                                   ELSE writers["audio"]
            OBVIOUS
        <3>3. writers' = [writers EXCEPT !["screen"] = screen, !["audio"] = audio]
            BY <1>6, <3>1, <3>2, <1>0 DEF Media!FinishScreen, Media!Tracks
        <3> QED
            BY <3>1, <3>2, <3>3
    <2>13. PICK screen, audio :
              /\ screen = Media!Ended("screen", written)
              /\ audio = writers["audio"] \/ audio = Media!Ended("audio", audioWritten)
              /\ writers' = [writers EXCEPT !["screen"] = screen, !["audio"] = audio]
        BY <2>1
    <2>14. PICK outcome \in {"ok", "err"} : threads' = [threads EXCEPT !["screen"] = outcome]
        BY <1>6 DEF Media!FinishScreen
    <2>2. /\ threads["screen"] = "run" /\ trackQueue # << >> /\ Head(trackQueue) = Media!Finish
          /\ trackQueue' = Tail(trackQueue)
          /\ UNCHANGED <<bundle, clock, captured, cameraQueue, first, phase, offsets>>
        BY <1>6 DEF Media!FinishScreen
    <2>3. VideoKept(screen) /\ screen.samples = writers["screen"].samples /\ screen.error # "none"
        BY <2>13, <1>12, EndedKeeps DEF Kept, Media!Tracks
    <2>4. SoundKept(audio) /\ audio.samples = writers["audio"].samples
          /\ (audio.error = "none" => audio = Media!NoWriter)
        <3>1. CASE audio = writers["audio"]
            BY <3>1, <1>12 DEF WritersKept, Open, Media!Tracks
        <3>2. CASE audio = Media!Ended("audio", audioWritten)
            BY <3>2, <1>12, EndedKeeps DEF Kept, Media!Tracks
        <3> QED
            BY <3>1, <3>2, <2>13
    <2>5. /\ writers' \in [Media!Tracks -> FileWriter] /\ writers'["screen"] = screen
          /\ writers'["audio"] = audio /\ writers'["camera"] = writers["camera"]
        BY <2>13, <2>3, <2>4, <1>0 DEF VideoKept, SoundKept, FileKept, Media!Tracks
    <2>6. WritersKept'
        BY <2>3, <2>4, <2>5, <1>12 DEF WritersKept
    <2>7. /\ threads' \in [{"screen", "camera"} -> {"run", "ok", "err"}]
          /\ threads'["screen"] # "run" /\ threads'["camera"] = threads["camera"]
        BY <2>14, <1>0
    <2>8. Open'
        BY <2>3, <2>4, <2>5, <2>7, <1>12 DEF Open, ThreadOf, Media!Tracks
    <2>9. \A u \in Media!Tracks : writers'[u].samples = writers[u].samples
        BY <2>3, <2>4, <2>5 DEF Media!Tracks
    <2>10. FirstsKept' /\ Grew("screen", Head(trackQueue))
        BY <2>2, <2>9, <1>12 DEF FirstsKept, Grew
    <2>11. /\ QueueOf("screen") = trackQueue /\ QueueOf("screen")' = trackQueue'
           /\ ThreadOf("screen") = "screen" /\ "screen" \in Media!Tracks
        BY DEF QueueOf, ThreadOf, Media!Tracks
    <2>12. \A u \in Media!Tracks : first'[u] = Media!NoTiming \/
               (first'[u].at \in -1 .. MaxClock /\ first'[u].fallback \in -1 .. MaxClock)
        BY <2>2 DEF TracksInv
    <2> QED
        BY <2>2, <2>6, <2>7, <2>8, <2>10, <2>11, <2>12, ThreadSteps
<1>7. ASSUME NEW written \in BOOLEAN, Media!FinishCamera(written) PROVE TracksInv'
    <2>0. PICK outcome \in {"ok", "err"} : threads' = [threads EXCEPT !["camera"] = outcome]
        BY <1>7 DEF Media!FinishCamera
    <2>1. PICK w : w = Media!Ended("camera", written) /\ writers' = [writers EXCEPT !["camera"] = w]
        BY <1>7 DEF Media!FinishCamera
    <2>2. /\ threads["camera"] = "run"
          /\ UNCHANGED <<bundle, clock, captured, trackQueue, cameraQueue, first, phase, offsets>>
        BY <1>7 DEF Media!FinishCamera
    <2>3. VideoKept(w) /\ w.samples = writers["camera"].samples /\ w.error # "none"
        BY <2>1, <1>12, EndedKeeps DEF Kept, Media!Tracks
    <2>4. /\ writers' \in [Media!Tracks -> FileWriter] /\ writers'["camera"] = w
          /\ writers'["screen"] = writers["screen"] /\ writers'["audio"] = writers["audio"]
        BY <2>1, <2>3, <1>0 DEF VideoKept, FileKept, Media!Tracks
    <2>5. WritersKept'
        BY <2>3, <2>4, <1>12 DEF WritersKept
    <2>6. /\ threads' \in [{"screen", "camera"} -> {"run", "ok", "err"}]
          /\ threads'["camera"] # "run" /\ threads'["screen"] = threads["screen"]
        BY <2>0, <1>0
    <2>7. Open'
        BY <2>3, <2>4, <2>6, <1>12 DEF Open, ThreadOf, Media!Tracks
    <2>8. \A u \in Media!Tracks : writers'[u].samples = writers[u].samples
        BY <2>3, <2>4 DEF Media!Tracks
    <2>9. FirstsKept' /\ QueuesTyped' /\ QueuesInTurn'
        BY <2>2, <2>8, <1>12 DEF FirstsKept, QueuesTyped, QueuesInTurn, QueueOf
    <2>10. OffsetsKept'
        BY <2>2, <2>6, <1>12 DEF OffsetsKept
    <2> QED
        BY <2>2, <2>5, <2>6, <2>7, <2>9, <2>10 DEF TracksInv
<1>8. CASE Media!Stop
    BY <1>8, <1>12 DEF Media!Stop, TracksInv, WritersKept, Open, FirstsKept, QueuesTyped, QueuesInTurn, QueueOf,
       OffsetsKept
<1>9. CASE Media!SendFinish
    <2>1. /\ UNCHANGED <<bundle, clock, captured, cameraQueue, writers, first, threads, offsets>>
          /\ phase' \in {"failed", "finishing"}
          /\ \/ trackQueue' = trackQueue
             \/ Len(trackQueue) < TracksDepth /\ trackQueue' = Append(trackQueue, Media!Finish)
        BY <1>9 DEF Media!SendFinish
    <2>2. Media!Finish \in Queued /\ \A u \in Media!Tracks : Media!Finish.track # u
        BY DEF Queued, Media!Finish, Media!Tracks
    <2>3. /\ trackQueue' \in Seq(Queued) /\ Len(trackQueue') <= TracksDepth
          /\ \A i \in 1 .. Len(trackQueue') : trackQueue'[i] # Media!Finish =>
                trackQueue'[i].track # "camera" /\ trackQueue'[i].at >= 0 /\ trackQueue'[i].fallback >= 0
        <3>1. CASE trackQueue' = trackQueue
            BY <3>1, <1>12 DEF QueuesTyped
        <3>2. CASE trackQueue' # trackQueue
            <4>1. /\ trackQueue' \in Seq(Queued) /\ Len(trackQueue') = Len(trackQueue) + 1
                  /\ Len(trackQueue) \in Nat /\ Len(trackQueue) < TracksDepth
                  /\ trackQueue'[Len(trackQueue) + 1] = Media!Finish
                  /\ \A i \in 1 .. Len(trackQueue) : trackQueue'[i] = trackQueue[i]
                <5>1. trackQueue' = Append(trackQueue, Media!Finish) /\ Len(trackQueue) < TracksDepth
                    BY <3>2, <2>1
                <5>2. \A x \in Queued : /\ Append(trackQueue, x) \in Seq(Queued) /\ Len(trackQueue) \in Nat
                                        /\ Len(Append(trackQueue, x)) = Len(trackQueue) + 1
                                        /\ Append(trackQueue, x)[Len(trackQueue) + 1] = x
                                        /\ \A i \in 1 .. Len(trackQueue) : Append(trackQueue, x)[i] = trackQueue[i]
                    BY <1>0
                <5> QED
                    BY <5>1, <5>2, <2>2
            <4>2. Len(trackQueue') <= TracksDepth
                BY <4>1, <1>0
            <4>3. \A i \in 1 .. Len(trackQueue') : trackQueue'[i] # Media!Finish => i \in 1 .. Len(trackQueue)
                BY <4>1
            <4> QED
                BY <4>1, <4>2, <4>3, <1>12 DEF QueuesTyped
        <3> QED
            BY <3>1, <3>2
    <2>4. ASSUME NEW u \in Media!Tracks
          PROVE  InTurn(u, writers'[u].samples, QueueOf(u)', captured'[u])
        <3>1. /\ InTurn(u, writers[u].samples, QueueOf(u), captured[u]) /\ writers' = writers
              /\ captured'[u] = captured[u] /\ QueueOf(u) \in Seq(Queued) /\ captured[u].at \in Int
            BY <1>0, <1>12, <2>1 DEF QueuesInTurn, QueueOf
        <3>2. QueueOf(u)' = QueueOf(u) \/ QueueOf(u)' = Append(QueueOf(u), Media!Finish)
            BY <2>1 DEF QueueOf
        <3>3. /\ InTurn(u, writers[u].samples, QueueOf(u), captured'[u])
              /\ InTurn(u, writers[u].samples, Append(QueueOf(u), Media!Finish), captured'[u])
            <4>1. /\ captured'[u].at \in Int /\ captured[u].at <= captured'[u].at
                  /\ Media!Finish.track = u => Media!Finish.at = captured'[u].at
                BY <3>1, <2>2
            <4> QED
                BY <4>1, <3>1, <1>0, <2>2, TurnAppend
        <3> QED
            BY <3>1, <3>2, <3>3
    <2>5. /\ \A i \in 1 .. Len(cameraQueue') :
                 /\ cameraQueue'[i] \in Media!Samples /\ cameraQueue'[i].track = "camera"
                 /\ cameraQueue'[i].fallback >= 0 => cameraQueue'[i].at >= 0
          /\ cameraQueue' \in Seq(Queued)
        BY <2>1, <1>12 DEF QueuesTyped
    <2>6. OffsetsKept' /\ WritersKept' /\ Open' /\ FirstsKept'
        BY <2>1, <1>12 DEF OffsetsKept, WritersKept, Open, FirstsKept
    <2> QED
        BY <2>1, <2>3, <2>4, <2>5, <2>6 DEF TracksInv, QueuesTyped, QueuesInTurn
<1>10. CASE Media!Join
    <2> DEFINE Offset(t) == Media!signed_seconds_since(first[t], first["screen"])
    <2>1. /\ UNCHANGED <<bundle, clock, captured, trackQueue, cameraQueue, writers, first, threads>>
          /\ \/ /\ phase' = "done" /\ \A h \in DOMAIN threads : threads[h] = "ok"
                /\ offsets' = IF bundle THEN [offsets EXCEPT !["camera"] = Offset("camera"),
                                                             !["audio"] = Offset("audio")]
                              ELSE offsets
             \/ phase' = "failed" /\ UNCHANGED offsets
        BY <1>10 DEF Media!Join
    <2>2. \A t \in Media!Tracks : Offset(t) \in Int
        <3>1. \A t \in Media!Tracks : first[t].at \in Int /\ first[t].fallback \in Int
            BY <1>0
        <3> QED
            BY <3>1 DEF Media!signed_seconds_since, Media!Tracks
    <2>3. OffsetsKept'
        <3>1. CASE phase' = "failed" /\ UNCHANGED offsets
            BY <3>1, <2>1, <1>12 DEF OffsetsKept
        <3>2. CASE phase' = "done" /\ ~bundle /\ UNCHANGED offsets
            BY <3>2, <2>1, <1>12 DEF OffsetsKept
        <3>3. CASE /\ phase' = "done" /\ bundle /\ \A h \in DOMAIN threads : threads[h] = "ok"
                   /\ offsets' = [offsets EXCEPT !["camera"] = Offset("camera"), !["audio"] = Offset("audio")]
            <4>1. \A h \in {"screen", "camera"} : threads'[h] # "run"
                BY <3>3, <2>1, <1>0
            <4>2. /\ offsets' \in [Media!Tracks -> Int] /\ offsets'["screen"] = 0
                  /\ \A t \in {"audio", "camera"} : offsets'[t] = Offset(t)
                BY <3>3, <2>2, <1>0, <1>12 DEF OffsetsKept, Media!Tracks
            <4> QED
                BY <4>1, <4>2, <2>1 DEF OffsetsKept
        <3> QED
            BY <3>1, <3>2, <3>3, <2>1
    <2>4. WritersKept' /\ Open' /\ FirstsKept' /\ QueuesTyped' /\ QueuesInTurn'
        BY <2>1, <1>12 DEF WritersKept, Open, FirstsKept, QueuesTyped, QueuesInTurn, QueueOf
    <2>5. phase' \in {"recording", "stopping", "finishing", "done", "failed"}
        BY <2>1
    <2> QED
        BY <2>1, <2>3, <2>4, <2>5 DEF TracksInv
<1>11. CASE UNCHANGED tracksVars
    BY <1>11 DEF tracksVars, TracksInv, WritersKept, Open, FirstsKept, QueuesTyped, QueuesInTurn, QueueOf,
       OffsetsKept
<1> QED
    BY <1>1, <1>2, <1>3, <1>4, <1>5, <1>6, <1>7, <1>8, <1>9, <1>10, <1>11 DEF Media!Next

\* What the invariant says of the files.
LEMMA TracksAreInSync ==
    ASSUME Media!TracksAssumption, TracksInv
    PROVE  TracksInSync
<1>0. /\ MaxClock \in Nat /\ MaxSamples \in Nat /\ TracksDepth \in Nat
      /\ bundle \in BOOLEAN /\ clock \in 0 .. MaxClock
      /\ captured \in [Media!Tracks -> [count : 0 .. MaxSamples, at : -1 .. MaxClock]]
      /\ threads \in [{"screen", "camera"} -> {"run", "ok", "err"}]
      /\ writers \in [Media!Tracks -> FileWriter]
      /\ trackQueue \in Seq(Queued) /\ cameraQueue \in Seq(Queued)
      /\ offsets \in [Media!Tracks -> Int]
      /\ first \in [Media!Tracks -> [at : Int, fallback : Int, norm : BOOLEAN]]
      /\ \A t \in Media!Tracks : writers[t].samples \in Seq(Timed)
    BY TracksTypes
<1>1. WritersKept /\ FirstsKept /\ QueuesTyped /\ OffsetsKept
    BY DEF TracksInv
<1>2. \A t \in Media!Tracks : DOMAIN writers[t].samples = 1 .. Len(writers[t].samples)
    BY <1>0
<1>3. Media!TypeOK
    <2>1. \A i \in DOMAIN trackQueue : trackQueue[i] = Media!Finish \/ trackQueue[i] \in Media!Samples
        BY <1>0 DEF Queued
    <2>2. \A i \in DOMAIN cameraQueue : cameraQueue[i] \in Media!Samples
        BY <1>0, <1>1 DEF QueuesTyped
    <2>3. ASSUME NEW t \in Media!Tracks
          PROVE  /\ writers[t].error \in {"none", "ok", "NoFrames", "Overflow", "Rejected"}
                 /\ first[t] = Media!NoTiming \/
                       [track |-> t, at |-> first[t].at, norm |-> first[t].norm,
                        fallback |-> first[t].fallback] \in Media!Samples
        <3>1. writers[t].error \in WriterErrors
            BY <1>0 DEF FileWriter
        <3>2. first[t].norm \in BOOLEAN
            BY <1>0
        <3>3. first[t] = Media!NoTiming \/
                  (first[t].at \in -1 .. MaxClock /\ first[t].fallback \in -1 .. MaxClock)
            BY DEF TracksInv
        <3> QED
            BY <3>1, <3>2, <3>3 DEF WriterErrors, Media!Samples
    <2>4. \A t \in Media!Tracks : offsets[t] \in Int
        BY <1>0
    <2> QED
        BY <2>1, <2>2, <2>3, <2>4, <1>0, <1>1 DEF Media!TypeOK, TracksInv, QueuesTyped
<1>4. Media!FramesAdvance
    BY <1>1, <1>2 DEF WritersKept, VideoKept, Media!FramesAdvance, Media!Tracks
<1>5. Media!EndIsPastAll
    BY <1>1, <1>2 DEF WritersKept, VideoKept, SoundKept, Media!EndIsPastAll, Media!Tracks
<1>6. Media!TracksInSync
    <2> SUFFICES ASSUME phase = "done", bundle, NEW t \in Media!Tracks,
                        Media!Normalized(writers[t].samples), first["screen"].norm,
                        ~Media!Repeats(writers[t].samples), NEW i \in DOMAIN writers[t].samples
                 PROVE  writers[t].samples[i].time + offsets[t]
                            = writers[t].samples[i].at - first["screen"].at
        BY DEF Media!TracksInSync
    <2> DEFINE s == writers[t].samples
    <2>1. /\ s \in Seq(Timed) /\ i \in 1 .. Len(s) /\ 1 \in 1 .. Len(s) /\ s # << >>
          /\ s[i] \in Timed /\ s[1] \in Timed
        BY <1>0
    <2>2. s[i].time = s[i].at - s[1].at
        BY <2>1, <1>1 DEF WritersKept, VideoKept, SoundKept, FileKept, AsCaptured, Media!Tracks
    <2>3. first[t].at = s[1].at /\ first[t].norm = s[1].norm
        BY <2>1, <1>1 DEF FirstsKept
    <2>4. s[1].norm
        BY <2>1, <1>2 DEF Media!Normalized
    <2>5. PICK a \in Int, b \in Int, c \in Int : a = s[i].at /\ b = s[1].at /\ c = first["screen"].at
        BY <2>1, <1>0 DEF Timed, Media!Tracks
    <2>6. offsets[t] = b - c
        <3>1. CASE t = "screen"
            BY <3>1, <2>3, <2>5, <1>1 DEF OffsetsKept
        <3>2. CASE t # "screen"
            <4>1. offsets[t] = Media!signed_seconds_since(first[t], first["screen"])
                BY <3>2, <1>1 DEF OffsetsKept, Media!Tracks
            <4>2. Media!signed_seconds_since(first[t], first["screen"]) = first[t].at - first["screen"].at
                BY <2>3, <2>4 DEF Media!signed_seconds_since
            <4> QED
                BY <4>1, <4>2, <2>3, <2>5
        <3> QED
            BY <3>1, <3>2
    <2> QED
        BY <2>2, <2>5, <2>6
<1> QED
    BY <1>3, <1>4, <1>5, <1>6 DEF TracksInSync

\* In a bundle each sample is played exactly as long after the first screen frame as it
\* was captured after it, frames follow each other in a file and it ends after them
\* (recording.rs, write_frames and record; blip-avfoundation, append and finish).
THEOREM TracksStayInSync ==
    ASSUME Media!TracksAssumption
    PROVE  Media!Spec => []TracksInSync
<1>1. Media!Init => TracksInv
    BY TracksStart
<1>2. TracksInv /\ [Media!Next]_(Media!vars) => TracksInv'
    BY TracksStep DEF Media!vars, tracksVars
<1>3. TracksInv => TracksInSync
    BY TracksAreInSync
<1> QED
    BY <1>1, <1>2, <1>3, PTL DEF Media!Spec
=============================================================================
