------------------------ MODULE EditorExport_proofs -------------------------
(***************************************************************************)
(* Theorems of EditorExport, for any names, formats, documents and numbers *)
(* of frames, packets, exports and windows.                                *)
(*                                                                         *)
(* That a file is whole when the dialog says so is about a moment after    *)
(* the export's thread has ended: the event waits in the channel while     *)
(* another thread may write to the path.  The invariant therefore says who *)
(* can: a path is written by one thread, unless two exports clashed there, *)
(* and a window that shows or awaits an answer has started no other.       *)
(***************************************************************************)
EXTENDS EditorExport, EditorDocument, CropDialog, SequenceTheorems, TLAPS

Stages == {"open", "create", "render", "failed", "ended"}
JobType == [pc : Stages, output : Paths, doc : 0..MaxDoc, frame : 0..Frames, packet : 0..Packets]
EventType == [kind : {"progress", "ok", "failed"}, frame : 0..Frames]
Contents == {Nothing, Other, Partial} \cup {Whole(d) : d \in 0..MaxDoc}

-----------------------------------------------------------------------------
(* The inductive invariant.                                                *)

Flags == {prompt, exporting, error, window} \subseteq BOOLEAN

Types ==
    /\ Flags
    /\ doc \in 0..MaxDoc /\ format \in Formats /\ destination \in Paths \cup {NoPath}
    /\ progress \in 0..Frames /\ exported \in Paths \cup {NoPath}
    /\ jobs \in Seq(JobType) /\ mine \in 0..Len(jobs)
    /\ events \in Seq(EventType)
    /\ files \in [Paths -> Contents]
    /\ windows \in Nat /\ windows > 0
    /\ clashed \subseteq Paths

\* Two threads write to one path only where they clashed.
Alone ==
    \A j, k \in 1..Len(jobs) :
        Running(j) /\ Running(k) /\ j # k /\ jobs[j].output = jobs[k].output
            => jobs[j].output \in clashed

\* A path at which a whole file will stay: no thread is to write there.
Settled(p) ==
    \/ p \in clashed
    \/ /\ \A k \in 1..Len(jobs) : Running(k) => jobs[k].output # p
       /\ \E j \in 1..Len(jobs) : /\ jobs[j].output = p /\ ~Running(j)
                                  /\ files[p] = Whole(jobs[j].doc)

\* The channel of the window's export: the last event says that its thread has
\* ended, and an "ok" that its file is whole.
Answers ==
    /\ exporting <=> mine # 0
    /\ mine # 0 => window
    /\ mine = 0 => events = <<>>
    /\ \A i \in 1..Len(events) :
          events[i].kind # "progress" => i = Len(events) /\ ~Running(mine)
    /\ \A i \in 1..Len(events) : events[i].kind = "ok" => Settled(jobs[mine].output)
    /\ exported # NoPath => Settled(exported)

\* In the first window a thread that runs is the window's own.
First ==
    windows = 1 =>
        /\ window => \A j \in 1..Len(jobs) : Running(j) => j = mine
        /\ \A j, k \in 1..Len(jobs) : Running(j) /\ Running(k) => j = k

IInv == Types /\ Alone /\ NoBrokenFile /\ Answers /\ First

-----------------------------------------------------------------------------
(* Lemmas.                                                                 *)

\* A thread changes its own job only, and not what the job is for.
ThreadMoves(j) ==
    /\ j \in 1..Len(jobs) /\ Running(j)
    /\ jobs' \in Seq(JobType) /\ Len(jobs') = Len(jobs)
    /\ jobs'[j].output = jobs[j].output /\ jobs'[j].doc = jobs[j].doc
    /\ \A k \in 1..Len(jobs) : k # j => jobs'[k] = jobs[k]
    /\ UNCHANGED untouched

LEMMA Bounds == Frames \in Nat /\ Packets \in Nat /\ MaxDoc \in Nat
BY ExportAssumption

LEMMA JobAt ==
    ASSUME NEW js \in Seq(JobType), NEW j \in 1..Len(js)
    PROVE  js[j] \in JobType
OBVIOUS

LEMMA JobChanged ==
    ASSUME NEW js \in Seq(JobType), NEW j \in 1..Len(js), NEW c \in JobType,
           NEW ks, ks = [js EXCEPT ![j] = c]
    PROVE  /\ ks \in Seq(JobType) /\ Len(ks) = Len(js) /\ ks[j] = c
           /\ \A k \in 1..Len(js) : k # j => ks[k] = js[k]
OBVIOUS

LEMMA MineIsJob ==
    ASSUME Types, mine # 0
    PROVE  mine \in 1..Len(jobs) /\ jobs[mine].output \in Paths
<1>1. mine \in 1..Len(jobs) /\ jobs \in Seq(JobType)
  BY DEF Types
<1>2. jobs[mine] \in JobType
  BY <1>1, JobAt
<1> QED BY <1>1, <1>2 DEF JobType

\* The stage of a thread's job changes.
LEMMA GotoMoves ==
    ASSUME Types, NEW j \in 1..Len(jobs), Running(j), NEW pc \in Stages, Goto(j, pc),
           UNCHANGED untouched
    PROVE  ThreadMoves(j) /\ jobs'[j].pc = pc
<1> DEFINE c == [jobs[j] EXCEPT !.pc = pc]
<1>1. jobs \in Seq(JobType) /\ jobs[j] \in JobType
  BY JobAt DEF Types
<1>2. c \in JobType /\ c.output = jobs[j].output /\ c.doc = jobs[j].doc /\ c.pc = pc
  BY <1>1 DEF JobType
<1>3. jobs' = [jobs EXCEPT ![j] = c]
  BY <1>1 DEF Goto
<1> HIDE DEF c
<1> QED BY <1>1, <1>2, <1>3, JobChanged DEF ThreadMoves

\* What a thread does leaves every settled path alone, and the others to
\* themselves, as long as it writes to its own path.
LEMMA ThreadKeeps ==
    ASSUME IInv, NEW j, ThreadMoves(j),
           \A p \in Paths : p # jobs[j].output => files'[p] = files[p]
    PROVE  /\ Alone' /\ First'
           /\ \A p \in Paths : Settled(p) => Settled(p)'
           /\ \A k \in 1..Len(jobs) : Running(k)' => Running(k)
<1>1. \A k \in 1..Len(jobs) : Running(k)' => Running(k)
  BY DEF ThreadMoves, Running
<1>2. \A k \in 1..Len(jobs) : jobs'[k].output = jobs[k].output /\ jobs'[k].doc = jobs[k].doc
  BY DEF ThreadMoves
<1>3. Len(jobs') = Len(jobs) /\ clashed' = clashed /\ window' = window /\ windows' = windows
      /\ mine' = mine
  BY DEF ThreadMoves, untouched
<1>4. Alone'
  BY <1>1, <1>2, <1>3 DEF IInv, Alone
<1>5. First'
  BY <1>1, <1>3 DEF IInv, First
<1>6. ASSUME NEW p \in Paths, Settled(p) PROVE Settled(p)'
  <2>1. CASE p \in clashed
    BY <1>3, <2>1 DEF Settled
  <2>2. CASE p \notin clashed
    <3>1. \A k \in 1..Len(jobs) : Running(k) => jobs[k].output # p
      BY <1>6, <2>2 DEF Settled
    <3>2. PICK i \in 1..Len(jobs) : /\ jobs[i].output = p /\ ~Running(i)
                                    /\ files[p] = Whole(jobs[i].doc)
      BY <1>6, <2>2 DEF Settled
    <3>3. files'[p] = files[p]
      BY <3>1 DEF ThreadMoves
    <3>4. \A k \in 1..Len(jobs') : Running(k)' => jobs'[k].output # p
      BY <1>1, <1>2, <1>3, <3>1
    <3>5. i \in 1..Len(jobs') /\ jobs'[i].output = p /\ ~Running(i)' /\ files'[p] = Whole(jobs'[i].doc)
      BY <1>1, <1>2, <1>3, <3>2, <3>3
    <3> QED BY <3>4, <3>5 DEF Settled, Whole
  <2> QED BY <2>1, <2>2
<1> QED BY <1>1, <1>4, <1>5, <1>6

\* A thread that leaves the files alone leaves unfinished ones to a thread that
\* runs, itself if it goes on.
LEMMA KeepsUnbroken ==
    ASSUME IInv, NEW j, ThreadMoves(j), Running(j)', files' = files
    PROVE  NoBrokenFile'
<1>1. ASSUME NEW p \in Paths \ clashed', files'[p] = Partial
      PROVE  \E k \in DOMAIN jobs' : Running(k)' /\ jobs'[k].output = p
  <2>1. PICK k \in DOMAIN jobs : Running(k) /\ jobs[k].output = p
    BY <1>1 DEF IInv, NoBrokenFile, ThreadMoves, untouched
  <2>2. k \in 1..Len(jobs) /\ DOMAIN jobs' = 1..Len(jobs)
    BY <2>1 DEF IInv, Types, ThreadMoves
  <2> QED BY <2>1, <2>2 DEF ThreadMoves, Running
<1> QED BY <1>1 DEF NoBrokenFile, Partial

\* The events that the window has received so far, and one more.
LEMMA SentEvent ==
    ASSUME NEW es \in Seq(EventType), NEW e \in EventType, NEW fs, fs = Append(es, e)
    PROVE  /\ fs \in Seq(EventType) /\ Len(fs) = Len(es) + 1 /\ fs[Len(es) + 1] = e
           /\ \A i \in 1..Len(es) : fs[i] = es[i]
OBVIOUS

\* While the thread of the window's export runs there is no answer in the channel,
\* so that what it sends comes last.
LEMMA SendAnswers ==
    ASSUME IInv, NEW j, ThreadMoves(j),
           \A p \in Paths : Settled(p) => Settled(p)',
           NEW e \in EventType, Send(j, e),
           e.kind # "progress" => ~Running(j)',
           e.kind = "ok" => Settled(jobs[j].output)'
    PROVE  Answers' /\ events' \in Seq(EventType)
<1>1. /\ mine' = mine /\ exporting' = exporting /\ window' = window /\ exported' = exported
      /\ Len(jobs') = Len(jobs) /\ j \in 1..Len(jobs) /\ Running(j)
  BY DEF ThreadMoves, untouched, dialog
<1>2. exported' # NoPath => Settled(exported)'
  BY <1>1, SMTT(30) DEF IInv, Types, Answers, Settled
<1>3. events \in Seq(EventType) /\ (mine = 0 => events = <<>>)
  BY DEF IInv, Types, Answers
<1>4. CASE mine # j
  <2>1. events' = events
    BY <1>4 DEF Send
  <2>2. mine # 0 => /\ mine \in 1..Len(jobs) /\ jobs'[mine] = jobs[mine]
                    /\ jobs[mine].output \in Paths
    BY <1>4, MineIsJob DEF IInv, ThreadMoves
  <2>3. ASSUME NEW i \in 1..Len(events') PROVE mine # 0 /\ events'[i] = events[i] /\ i \in 1..Len(events)
    BY <1>3, <2>1
  <2>4. \A i \in 1..Len(events') :
           events'[i].kind # "progress" => i = Len(events') /\ ~Running(mine)'
    BY <1>1, <2>1, <2>2, <2>3 DEF IInv, Answers, Running
  <2>5. \A i \in 1..Len(events') : events'[i].kind = "ok" => Settled(jobs[mine].output)'
    BY <1>1, <2>1, <2>2, <2>3, SMTT(30) DEF IInv, Answers, Settled
  <2> QED BY <1>1, <1>2, <1>3, <2>1, <2>4, <2>5 DEF IInv, Answers
<1>5. CASE mine = j
  <2>1. events' = Append(events, e)
    BY <1>5 DEF Send
  <2>2. \A i \in 1..Len(events) : events[i].kind = "progress"
    BY <1>1, <1>5 DEF IInv, Answers
  <2>3. /\ events' \in Seq(EventType) /\ Len(events') = Len(events) + 1
        /\ events'[Len(events) + 1] = e /\ \A i \in 1..Len(events) : events'[i] = events[i]
    BY <1>3, <2>1, SentEvent
  <2>4. \A i \in 1..Len(events') : events'[i].kind # "progress" => i = Len(events') /\ events'[i] = e
    BY <1>3, <2>2, <2>3
  <2>5. \A i \in 1..Len(events') :
           events'[i].kind # "progress" => i = Len(events') /\ ~Running(mine)'
    BY <1>1, <1>5, <2>4
  <2>6. jobs'[j].output = jobs[j].output /\ mine # 0
    BY <1>1, <1>5 DEF ThreadMoves
  <2>7. \A i \in 1..Len(events') : events'[i].kind = "ok" => Settled(jobs[mine].output)'
    BY <1>1, <1>5, <2>4, <2>6
  <2> QED BY <1>1, <1>2, <2>3, <2>5, <2>6, <2>7 DEF IInv, Answers
<1> QED BY <1>4, <1>5

\* A thread that sends nothing.
LEMMA SilentAnswers ==
    ASSUME IInv, NEW j, ThreadMoves(j),
           \A p \in Paths : Settled(p) => Settled(p)', UNCHANGED events
    PROVE  Answers'
<1>1. /\ mine' = mine /\ exporting' = exporting /\ window' = window /\ exported' = exported
      /\ Len(jobs') = Len(jobs) /\ j \in 1..Len(jobs) /\ Running(j)
  BY DEF ThreadMoves, untouched, dialog
<1>2. exported' # NoPath => Settled(exported)'
  BY <1>1 DEF IInv, Types, Answers, Settled
<1>3. mine # 0 => /\ mine \in 1..Len(jobs) /\ jobs[mine].output \in Paths
                  /\ jobs'[mine].output = jobs[mine].output /\ (~Running(mine) => ~Running(mine)')
  BY <1>1, MineIsJob DEF IInv, ThreadMoves, Running
<1>4. ASSUME NEW i \in 1..Len(events) PROVE mine # 0
  BY DEF IInv, Types, Answers
<1>5. \A i \in 1..Len(events') :
         events'[i].kind # "progress" => i = Len(events') /\ ~Running(mine)'
  BY <1>1, <1>3, <1>4 DEF IInv, Answers
<1>6. \A i \in 1..Len(events') : events'[i].kind = "ok" => Settled(jobs[mine].output)'
  BY <1>1, <1>3, <1>4, SMTT(30) DEF IInv, Answers, Settled
<1> QED BY <1>1, <1>2, <1>5, <1>6 DEF IInv, Answers

\* The types that a thread's step cannot change.
LEMMA ThreadTypes ==
    ASSUME IInv, NEW j, ThreadMoves(j), events' \in Seq(EventType), files' \in [Paths -> Contents]
    PROVE  Types'
<1>1. Flags'
  BY DEF IInv, Types, Flags, ThreadMoves, untouched, dialog
<1> QED BY <1>1 DEF IInv, Types, ThreadMoves, untouched, dialog

\* A path is written by its thread.
LEMMA FileWritten ==
    ASSUME Types, NEW j \in 1..Len(jobs), NEW content \in Contents, File(j, content)
    PROVE  /\ files' \in [Paths -> Contents] /\ files'[jobs[j].output] = content
           /\ jobs[j].output \in Paths
           /\ \A p \in Paths : p # jobs[j].output => files'[p] = files[p]
<1>1. jobs[j].output \in Paths
  BY JobAt DEF Types, JobType
<1> QED BY <1>1 DEF Types, File

\* After its last write a thread leaves no unfinished file, here or elsewhere.
LEMMA WritesUnbroken ==
    ASSUME IInv, NEW j, ThreadMoves(j), NEW content \in Contents, File(j, content),
           content = Partial => Running(j)'
    PROVE  NoBrokenFile'
<1>1. j \in 1..Len(jobs) /\ Types
  BY DEF IInv, ThreadMoves
<1>2. /\ files'[jobs[j].output] = content
      /\ \A p \in Paths : p # jobs[j].output => files'[p] = files[p]
  BY <1>1, FileWritten
<1>3. DOMAIN jobs = 1..Len(jobs) /\ DOMAIN jobs' = 1..Len(jobs) /\ clashed' = clashed
  BY DEF IInv, Types, ThreadMoves, untouched
<1>4. ASSUME NEW p \in Paths \ clashed', files'[p] = Partial
      PROVE  \E k \in DOMAIN jobs' : Running(k)' /\ jobs'[k].output = p
  <2>1. CASE p = jobs[j].output
    BY <1>1, <1>2, <1>3, <1>4, <2>1 DEF ThreadMoves
  <2>2. CASE p # jobs[j].output
    <3>1. files[p] = Partial
      BY <1>2, <1>4, <2>2
    <3>2. PICK k \in DOMAIN jobs : Running(k) /\ jobs[k].output = p
      BY <1>3, <1>4, <3>1 DEF IInv, NoBrokenFile
    <3>3. k # j /\ jobs'[k] = jobs[k]
      BY <1>3, <2>2, <3>2 DEF ThreadMoves
    <3> QED BY <1>3, <3>2, <3>3 DEF Running
  <2> QED BY <2>1, <2>2
<1> QED BY <1>4 DEF NoBrokenFile, Partial

-----------------------------------------------------------------------------
(* The steps of a thread.                                                  *)

LEMMA OpenInputsHolds == ASSUME IInv, NEW j \in 1..Len(jobs), OpenInputs(j) PROVE IInv'
<1>1. Running(j) /\ Types
  BY DEF OpenInputs, Running, IInv
<1>2. ThreadMoves(j) /\ Running(j)'
  BY <1>1, GotoMoves DEF OpenInputs, Stages, Running
<1>3. files' = files /\ events' = events
  BY DEF OpenInputs
<1>4. Types'
  BY <1>1, <1>2, <1>3, ThreadTypes DEF Types
<1> QED BY <1>2, <1>3, <1>4, ThreadKeeps, KeepsUnbroken, SilentAnswers DEF IInv

LEMMA CreateWriterHolds == ASSUME IInv, NEW j \in 1..Len(jobs), CreateWriter(j) PROVE IInv'
<1>1. Running(j) /\ Types
  BY DEF CreateWriter, Running, IInv
<1>2. ThreadMoves(j) /\ Running(j)'
  BY <1>1, GotoMoves DEF CreateWriter, Stages, Running
<1>3. PICK content \in {Partial, Nothing} : File(j, content)
  BY DEF CreateWriter
<1>4. content \in Contents /\ events' = events
  BY DEF Contents, CreateWriter
<1>5. files' \in [Paths -> Contents] /\ \A p \in Paths : p # jobs[j].output => files'[p] = files[p]
  BY <1>1, <1>3, <1>4, FileWritten
<1>6. Types'
  BY <1>1, <1>2, <1>4, <1>5, ThreadTypes DEF Types
<1>7. NoBrokenFile'
  BY <1>2, <1>3, <1>4, WritesUnbroken
<1> QED BY <1>2, <1>4, <1>5, <1>6, <1>7, ThreadKeeps, SilentAnswers DEF IInv

LEMMA RenderFrameHolds == ASSUME IInv, NEW j \in 1..Len(jobs), RenderFrame(j) PROVE IInv'
<1>1. Running(j) /\ Types /\ files' = files /\ UNCHANGED untouched
  BY DEF RenderFrame, Running, IInv
<1>2. CASE Goto(j, "failed") /\ UNCHANGED events
  <2>1. ThreadMoves(j) /\ Running(j)'
    BY <1>1, <1>2, GotoMoves DEF Stages, Running
  <2>2. Types'
    BY <1>1, <1>2, <2>1, ThreadTypes DEF Types
  <2> QED BY <1>1, <1>2, <2>1, <2>2, ThreadKeeps, KeepsUnbroken, SilentAnswers DEF IInv
<1>3. CASE /\ jobs' = [jobs EXCEPT ![j].frame = @ + 1]
           /\ Send(j, [kind |-> "progress", frame |-> jobs[j].frame + 1])
  <2> DEFINE c == [jobs[j] EXCEPT !.frame = @ + 1]
             e == [kind |-> "progress", frame |-> jobs[j].frame + 1]
  <2>1. jobs \in Seq(JobType) /\ jobs[j] \in JobType
    BY <1>1, JobAt DEF Types
  <2>2. jobs[j].frame + 1 \in 0..Frames
    BY <2>1, Bounds, SMTT(30) DEF JobType, RenderFrame
  <2>3. /\ c \in JobType /\ c.output = jobs[j].output /\ c.doc = jobs[j].doc /\ c.pc = jobs[j].pc
        /\ jobs' = [jobs EXCEPT ![j] = c]
    BY <1>3, <2>1, <2>2 DEF JobType
  <2>4. e \in EventType /\ e.kind = "progress" /\ Send(j, e)
    BY <1>3, <2>2 DEF EventType
  <2> HIDE DEF c, e
  <2>5. ThreadMoves(j) /\ Running(j)'
    BY <1>1, <2>1, <2>3, JobChanged DEF ThreadMoves, Running
  <2>6. Alone' /\ First' /\ NoBrokenFile' /\ \A p \in Paths : Settled(p) => Settled(p)'
    BY <1>1, <2>5, ThreadKeeps, KeepsUnbroken
  <2>7. Answers' /\ events' \in Seq(EventType)
    BY <2>4, <2>5, <2>6, SendAnswers
  <2>8. Types'
    BY <1>1, <2>5, <2>7, ThreadTypes DEF Types
  <2> QED BY <2>6, <2>7, <2>8 DEF IInv
<1> QED BY <1>2, <1>3 DEF RenderFrame

LEMMA RenderAudioHolds == ASSUME IInv, NEW j \in 1..Len(jobs), RenderAudio(j) PROVE IInv'
<1>1. Running(j) /\ Types /\ files' = files /\ events' = events /\ UNCHANGED untouched
  BY DEF RenderAudio, Running, IInv
<1>2. ThreadMoves(j) /\ Running(j)'
  <2>1. CASE Goto(j, "failed")
    BY <1>1, <2>1, GotoMoves DEF Stages, Running
  <2>2. CASE jobs' = [jobs EXCEPT ![j].packet = @ + 1]
    <3> DEFINE c == [jobs[j] EXCEPT !.packet = @ + 1]
    <3>1. jobs \in Seq(JobType) /\ jobs[j] \in JobType
      BY <1>1, JobAt DEF Types
    <3>2. jobs[j].packet + 1 \in 0..Packets
      BY <3>1, Bounds, SMTT(30) DEF JobType, RenderAudio
    <3>3. /\ c \in JobType /\ c.output = jobs[j].output /\ c.doc = jobs[j].doc /\ c.pc = jobs[j].pc
          /\ jobs' = [jobs EXCEPT ![j] = c]
      BY <2>2, <3>1, <3>2 DEF JobType
    <3> HIDE DEF c
    <3> QED BY <1>1, <3>1, <3>3, JobChanged DEF ThreadMoves, Running
  <2> QED BY <2>1, <2>2 DEF RenderAudio
<1>3. Types'
  BY <1>1, <1>2, ThreadTypes DEF Types
<1> QED BY <1>1, <1>2, <1>3, ThreadKeeps, KeepsUnbroken, SilentAnswers DEF IInv

\* The finished file is settled: where no two exports clashed, the other threads
\* write elsewhere.
LEMMA FinishWriterHolds == ASSUME IInv, NEW j \in 1..Len(jobs), FinishWriter(j) PROVE IInv'
<1>1. Running(j) /\ Types /\ UNCHANGED untouched
  BY DEF FinishWriter, Running, IInv
<1>2. CASE Goto(j, "failed") /\ UNCHANGED <<files, events>>
  <2>1. ThreadMoves(j) /\ Running(j)'
    BY <1>1, <1>2, GotoMoves DEF Stages, Running
  <2>2. Types'
    BY <1>1, <1>2, <2>1, ThreadTypes DEF Types
  <2> QED BY <1>1, <1>2, <2>1, <2>2, ThreadKeeps, KeepsUnbroken, SilentAnswers DEF IInv
<1>3. CASE /\ File(j, Whole(jobs[j].doc)) /\ Goto(j, "ended")
           /\ Send(j, [kind |-> "ok", frame |-> Frames])
  <2> DEFINE content == Whole(jobs[j].doc)
             e == [kind |-> "ok", frame |-> Frames]
             path == jobs[j].output
  <2>1. ThreadMoves(j) /\ ~Running(j)'
    BY <1>1, <1>3, GotoMoves DEF Stages, Running
  <2>2. content \in Contents /\ content # Partial
    <3>1. jobs[j].doc \in 0..MaxDoc
      BY <1>1, JobAt DEF Types, JobType
    <3> QED BY <3>1 DEF Contents, Whole, Partial
  <2>3. e \in EventType /\ e.kind = "ok" /\ Send(j, e) /\ File(j, content)
    BY <1>3, Bounds DEF EventType
  <2> HIDE DEF content, e
  <2>4. /\ files' \in [Paths -> Contents] /\ files'[path] = content /\ path \in Paths
        /\ \A p \in Paths : p # path => files'[p] = files[p]
    BY <1>1, <2>2, <2>3, FileWritten
  <2>5. Alone' /\ First' /\ \A p \in Paths : Settled(p) => Settled(p)'
    BY <2>1, <2>4, ThreadKeeps
  <2>6. NoBrokenFile'
    BY <2>1, <2>2, <2>3, WritesUnbroken
  <2>7. Settled(jobs[j].output)'
    <3>1. jobs'[j].output = path /\ jobs'[j].doc = jobs[j].doc /\ clashed' = clashed
          /\ Len(jobs') = Len(jobs) /\ Len(jobs) \in Nat
      BY <2>1, <1>1 DEF ThreadMoves, untouched, Types
    <3>2. CASE path \in clashed
      BY <3>1, <3>2 DEF Settled
    <3>3. CASE path \notin clashed
      <4>1. \A k \in 1..Len(jobs) : Running(k) /\ k # j => jobs[k].output # path
        BY <1>1, <3>3 DEF IInv, Alone
      <4>2. \A k \in 1..Len(jobs') : Running(k)' => jobs'[k].output # path
        BY <2>1, <3>1, <4>1 DEF ThreadMoves, Running
      <4>3. files'[path] = Whole(jobs'[j].doc)
        BY <2>4, <3>1 DEF content
      <4> HIDE DEF path
      <4> QED BY <2>1, <3>1, <4>2, <4>3 DEF Settled, Whole
    <3> QED BY <3>2, <3>3
  <2>8. Answers' /\ events' \in Seq(EventType)
    BY <2>1, <2>3, <2>5, <2>7, SendAnswers
  <2>9. Types'
    BY <2>1, <2>4, <2>8, ThreadTypes
  <2> QED BY <2>5, <2>6, <2>8, <2>9 DEF IInv
<1> QED BY <1>2, <1>3 DEF FinishWriter

LEMMA CleanUpHolds == ASSUME IInv, NEW j \in 1..Len(jobs), CleanUp(j) PROVE IInv'
<1> DEFINE e == [kind |-> "failed", frame |-> 0]
<1>1. Running(j) /\ Types /\ UNCHANGED untouched
  BY DEF CleanUp, Running, IInv
<1>2. ThreadMoves(j) /\ ~Running(j)'
  BY <1>1, GotoMoves DEF CleanUp, Stages, Running
<1>3. Nothing \in Contents /\ Nothing # Partial /\ File(j, Nothing)
  BY DEF Contents, Nothing, Partial, CleanUp
<1>4. e \in EventType /\ e.kind = "failed" /\ Send(j, e)
  BY Bounds DEF EventType, CleanUp
<1> HIDE DEF e
<1>5. files' \in [Paths -> Contents] /\ \A p \in Paths : p # jobs[j].output => files'[p] = files[p]
  BY <1>1, <1>3, FileWritten
<1>6. Alone' /\ First' /\ \A p \in Paths : Settled(p) => Settled(p)'
  BY <1>2, <1>5, ThreadKeeps
<1>7. NoBrokenFile'
  BY <1>2, <1>3, WritesUnbroken
<1>8. Answers' /\ events' \in Seq(EventType)
  BY <1>2, <1>4, <1>6, SendAnswers
<1>9. Types'
  BY <1>2, <1>5, <1>8, ThreadTypes
<1> QED BY <1>6, <1>7, <1>8, <1>9 DEF IInv

LEMMA ThreadHolds == ASSUME IInv, NEW j \in DOMAIN jobs, ExportStep(j) PROVE IInv'
<1>1. j \in 1..Len(jobs)
  BY DEF IInv, Types
<1> QED BY <1>1, OpenInputsHolds, CreateWriterHolds, RenderFrameHolds, RenderAudioHolds,
           FinishWriterHolds, CleanUpHolds DEF ExportStep

-----------------------------------------------------------------------------
(* The dialog.                                                             *)

\* What touches neither jobs nor files leaves every path as it is.
LEMMA DialogKeeps ==
    ASSUME IInv, UNCHANGED <<jobs, files, clashed>>
    PROVE  /\ Alone' /\ NoBrokenFile'
           /\ \A p \in Paths : Settled(p) => Settled(p)'
<1>1. \A k : Running(k)' = Running(k)
  BY DEF Running
<1>2. Alone' /\ NoBrokenFile'
  BY <1>1 DEF IInv, Alone, NoBrokenFile
<1>3. \A p \in Paths : Settled(p) => Settled(p)'
  BY <1>1 DEF Settled
<1> QED BY <1>2, <1>3

\* Edits, options and the panel: what the export says is kept or taken back.
LEMMA DialogHolds ==
    ASSUME IInv, Edit \/ (\E f \in Formats : export_option(f)) \/ choose_export_destination \/ Chosen
    PROVE  IInv'
<1>1. /\ UNCHANGED <<jobs, files, clashed>> /\ UNCHANGED <<exporting, mine, events, window, windows>>
      /\ exported' = exported \/ exported' = NoPath
  BY DEF Edit, export_option, choose_export_destination, Chosen, dialog
<1>2. Types'
  <2>1. doc' \in 0..MaxDoc
    BY Bounds DEF IInv, Types, Edit, export_option, choose_export_destination, Chosen
  <2>2. /\ format' \in Formats /\ destination' \in Paths \cup {NoPath}
        /\ progress' \in 0..Frames
    BY DEF IInv, Types, Edit, export_option, choose_export_destination, Chosen, dialog
  <2>3. Flags'
    BY Zenon DEF IInv, Types, Flags, Edit, export_option, choose_export_destination, Chosen, dialog
  <2> QED BY <1>1, <2>1, <2>2, <2>3 DEF IInv, Types
<1>3. Alone' /\ NoBrokenFile' /\ \A p \in Paths : Settled(p) => Settled(p)'
  BY <1>1, DialogKeeps
<1>4. First'
  BY <1>1 DEF IInv, First, Running
<1>5. Answers'
  <2>1. exported' # NoPath => Settled(exported)'
    BY <1>1, <1>3 DEF IInv, Types, Answers, Settled
  <2>2. \A i \in 1..Len(events') :
           events'[i].kind # "progress" => i = Len(events') /\ ~Running(mine)'
    BY <1>1 DEF IInv, Answers, Running
  <2>3. \A i \in 1..Len(events') : events'[i].kind = "ok" => Settled(jobs[mine].output)'
    BY <1>1 DEF IInv, Answers, Settled, Running
  <2> QED BY <1>1, <2>1, <2>2, <2>3 DEF IInv, Answers
<1> QED BY <1>2, <1>3, <1>4, <1>5 DEF IInv

\* A window starts an export only when it awaits none, so that in the first window
\* no other thread runs.
LEMMA StartExportHolds == ASSUME IInv, start_export PROVE IInv'
<1>1. CASE error' = TRUE
  <2>1. /\ UNCHANGED <<jobs, files, clashed, doc, format, prompt, window, windows>>
        /\ UNCHANGED <<destination, exporting, progress, exported, mine, events>> /\ error' = TRUE
    BY <1>1 DEF start_export
  <2>2. Types'
    <3>1. Flags'
      BY <2>1 DEF IInv, Types, Flags
    <3> QED BY <2>1, <3>1 DEF IInv, Types
  <2>3. Alone' /\ NoBrokenFile' /\ \A p \in Paths : Settled(p) => Settled(p)'
    BY <2>1, DialogKeeps
  <2>4. First' /\ Answers'
    BY <2>1 DEF IInv, First, Answers, Settled, Running
  <2> QED BY <2>2, <2>3, <2>4 DEF IInv
<1>2. CASE error' = FALSE
  <2> DEFINE output == with_extension(destination, format)
             n == Len(jobs) + 1
  <2>1. /\ destination # NoPath
        /\ jobs' = Append(jobs, Job(output)) /\ destination' = output
        /\ clashed' = IF \E j \in DOMAIN jobs : Running(j) /\ jobs[j].output = output
                      THEN clashed \cup {output} ELSE clashed
        /\ mine' = Len(jobs') /\ events' = <<>> /\ window /\ ~exporting
        /\ exporting' = TRUE /\ progress' = 0 /\ error' = FALSE /\ exported' = NoPath
        /\ UNCHANGED <<doc, format, prompt, files, window, windows>>
    BY <1>2 DEF start_export
  <2>2. output \in Paths
    BY <2>1 DEF IInv, Types, Paths, with_extension
  <2>3. Job(output) \in JobType /\ Job(output).output = output /\ Job(output).pc = "open"
    BY <2>2, Bounds DEF Job, JobType, Stages, IInv, Types
  <2> HIDE DEF output
  <2>4. /\ jobs \in Seq(JobType) /\ Len(jobs) \in Nat /\ DOMAIN jobs = 1..Len(jobs)
        /\ jobs' \in Seq(JobType) /\ Len(jobs') = n /\ DOMAIN jobs' = 1..n /\ jobs'[n] = Job(output)
        /\ \A k \in 1..Len(jobs) : jobs'[k] = jobs[k]
    BY <2>1, <2>3 DEF IInv, Types
  <2>5. /\ \A k \in 1..Len(jobs) : Running(k)' = Running(k)
        /\ clashed \subseteq clashed' /\ clashed' \subseteq Paths
    BY <2>1, <2>2, <2>4 DEF Running, IInv, Types
  <2>6. Types'
    <3>1. Flags'
      BY <2>1 DEF IInv, Types, Flags
    <3>2. mine' \in 0..Len(jobs') /\ progress' \in 0..Frames /\ events' \in Seq(EventType)
      BY <2>1, <2>4, Bounds
    <3> QED BY <2>1, <2>2, <2>4, <2>5, <3>1, <3>2 DEF IInv, Types
  <2>7. Alone'
    <3>1. ASSUME NEW j \in 1..n, NEW k \in 1..n,
                 Running(j)', Running(k)', j # k, jobs'[j].output = jobs'[k].output
          PROVE  jobs'[j].output \in clashed'
      <4>1. CASE j # n /\ k # n
        BY <2>4, <2>5, <3>1, <4>1 DEF IInv, Alone
      <4>2. CASE j = n \/ k = n
        <5>1. PICK i \in 1..Len(jobs) : Running(i) /\ jobs[i].output = output
          BY <2>3, <2>4, <2>5, <3>1, <4>2
        <5>2. output \in clashed'
          BY <2>1, <2>4, <5>1
        <5> QED BY <2>3, <2>4, <3>1, <4>2, <5>2
      <4> QED BY <4>1, <4>2
    <3> QED BY <2>4, <3>1 DEF Alone
  <2>8. NoBrokenFile'
    <3>1. ASSUME NEW p \in Paths \ clashed', files'[p] = Partial
          PROVE  \E k \in DOMAIN jobs' : Running(k)' /\ jobs'[k].output = p
      <4>1. PICK k \in DOMAIN jobs : Running(k) /\ jobs[k].output = p
        BY <2>1, <2>5, <3>1 DEF IInv, NoBrokenFile
      <4> QED BY <2>4, <2>5, <4>1
    <3> QED BY <3>1 DEF NoBrokenFile, Partial
  <2>9. Answers'
    BY <2>1, <2>4 DEF Answers
  <2>10. First'
    <3>1. windows = 1 => \A k \in 1..Len(jobs) : ~Running(k)
      BY <2>1, <2>4 DEF IInv, First, Answers
    <3>2. windows = 1 => \A k \in 1..n : Running(k)' => k = n
      BY <2>4, <2>5, <3>1
    <3> QED BY <2>1, <2>4, <3>2 DEF First
  <2> QED BY <2>6, <2>7, <2>8, <2>9, <2>10 DEF IInv
<1> QED BY <1>1, <1>2 DEF start_export

\* An answer is the last event, and says that the thread has ended.
LEMMA ReceiveEventHolds == ASSUME IInv, ReceiveEvent PROVE IInv'
<1> DEFINE e == Head(events)
<1>1. /\ UNCHANGED <<jobs, files, clashed, doc, format, destination, prompt, window, windows>>
      /\ events # <<>> /\ events' = Tail(events)
  BY DEF ReceiveEvent
<1>2. /\ events \in Seq(EventType) /\ Len(events) \in Nat /\ Len(events) > 0 /\ e = events[1]
      /\ e \in EventType /\ events' \in Seq(EventType) /\ Len(events') = Len(events) - 1
      /\ \A i \in 1..Len(events') : events'[i] = events[i + 1] /\ i + 1 \in 1..Len(events)
  BY <1>1 DEF IInv, Types
<1>3. mine # 0 /\ mine \in 1..Len(jobs) /\ jobs[mine].output \in Paths
  BY <1>1, MineIsJob DEF IInv, Answers
<1>4. Alone' /\ NoBrokenFile' /\ \A p \in Paths : Settled(p) => Settled(p)'
  BY <1>1, DialogKeeps
<1> HIDE DEF e
<1>5. CASE e.kind = "progress"
  <2>1. UNCHANGED <<exporting, error, exported, mine>> /\ progress' = e.frame
    BY <1>5 DEF ReceiveEvent, e
  <2>2. Types'
    <3>1. Flags'
      BY <1>1, <2>1 DEF IInv, Types, Flags
    <3> QED BY <1>1, <1>2, <2>1, <3>1 DEF IInv, Types, EventType
  <2>3. First'
    BY <1>1, <2>1 DEF IInv, First, Running
  <2>4. exported' # NoPath => Settled(exported)'
    BY <1>4, <2>1 DEF IInv, Types, Answers, Settled
  <2>5. \A i \in 1..Len(events') :
           events'[i].kind # "progress" => i = Len(events') /\ ~Running(mine)'
    <3>1. \A i \in 1..Len(events) :
             events[i].kind # "progress" => i = Len(events) /\ jobs[mine].pc = "ended"
      BY DEF IInv, Answers, Running
    <3>2. ASSUME NEW i \in 1..Len(events'), events'[i].kind # "progress"
          PROVE  i = Len(events') /\ jobs[mine].pc = "ended"
      <4>1. i + 1 \in 1..Len(events) /\ events'[i] = events[i + 1]
        BY <1>2
      <4>2. i + 1 = Len(events) /\ jobs[mine].pc = "ended"
        BY <3>1, <3>2, <4>1
      <4> QED BY <1>2, <4>2
    <3>3. jobs[mine].pc = "ended" => ~Running(mine)'
      BY <1>1, <2>1 DEF Running
    <3> QED BY <3>2, <3>3
  <2>6. \A i \in 1..Len(events') : events'[i].kind = "ok" => Settled(jobs[mine].output)'
    BY <1>1, <1>2, <2>1 DEF IInv, Answers, Settled, Running
  <2>7. Answers'
    BY <1>1, <1>3, <2>1, <2>4, <2>5, <2>6 DEF IInv, Answers
  <2> QED BY <1>4, <2>2, <2>3, <2>7 DEF IInv
<1>6. CASE e.kind \in {"ok", "failed"}
  <2>1. Len(events) = 1 /\ ~Running(mine)
    BY <1>2, <1>6 DEF IInv, Answers
  <2>2. events' = <<>> /\ mine' = 0 /\ exporting' = FALSE
    BY <1>1, <1>2, <1>6, <2>1 DEF ReceiveEvent, e
  <2>3. First'
    <3>1. windows = 1 /\ window => \A k \in 1..Len(jobs) : ~Running(k)
      BY <2>1 DEF IInv, First
    <3> QED BY <1>1, <3>1 DEF IInv, First, Running
  <2>4. /\ \/ exported' = jobs[mine].output /\ e.kind = "ok"
           \/ exported' = exported
        /\ progress' \in 0..Frames
    BY <1>6, Bounds DEF ReceiveEvent, e, IInv, Types
  <2>5. exported' \in Paths \cup {NoPath} /\ (exported' # NoPath => Settled(exported)')
    <3>1. CASE exported' = exported
      BY <1>4, <3>1 DEF IInv, Types, Answers, Settled
    <3>2. CASE exported' = jobs[mine].output /\ e.kind = "ok"
      <4>1. Settled(jobs[mine].output)
        BY <1>2, <2>1, <3>2 DEF IInv, Answers
      <4>2. PICK p \in Paths : p = jobs[mine].output
        BY <1>3
      <4>3. Settled(p)'
        BY <1>4, <4>1, <4>2
      <4> QED BY <3>2, <4>2, <4>3 DEF Settled
    <3> QED BY <2>4, <3>1, <3>2
  <2>6. Types'
    <3>1. Flags'
      BY <1>1, <2>2, Zenon DEF ReceiveEvent, IInv, Types, Flags
    <3> QED BY <1>1, <1>2, <2>2, <2>4, <2>5, <3>1 DEF IInv, Types
  <2>7. Answers'
    BY <2>2, <2>5 DEF Answers
  <2> QED BY <1>4, <2>3, <2>6, <2>7 DEF IInv
<1> QED BY <1>2, <1>5, <1>6 DEF EventType

\* The threads of a closed window go on; the next window is not the first.
LEMMA WindowHolds == ASSUME IInv, Close \/ Reopen PROVE IInv'
<1>1. UNCHANGED <<jobs, files, clashed, doc, format, destination>>
  BY DEF Close, Reopen
<1>2. Alone' /\ NoBrokenFile' /\ \A p \in Paths : Settled(p) => Settled(p)'
  BY <1>1, DialogKeeps
<1>3. CASE Close
  <2>1. Types'
    <3>1. Flags'
      BY <1>3 DEF Close, IInv, Types, Flags
    <3>2. mine' \in 0..Len(jobs') /\ progress' \in 0..Frames
      BY <1>3, Bounds DEF Close, IInv, Types
    <3> QED BY <1>3, <3>1, <3>2 DEF Close, IInv, Types
  <2>2. Answers' /\ First'
    BY <1>3 DEF Close, IInv, Answers, First, Running
  <2> QED BY <1>2, <2>1, <2>2 DEF IInv
<1>4. CASE Reopen
  <2>1. Types' /\ windows' # 1
    <3>1. Flags'
      BY <1>4 DEF Reopen, dialog, IInv, Types, Flags
    <3> QED BY <1>4, <3>1 DEF Reopen, dialog, IInv, Types
  <2>2. mine = 0 /\ ~exporting /\ events = <<>> /\ UNCHANGED <<mine, exporting, events, exported>>
    BY <1>4 DEF Reopen, dialog, IInv, Answers
  <2>3. exported' # NoPath => Settled(exported)'
    BY <1>2, <2>2 DEF IInv, Types, Answers, Settled
  <2>4. Answers'
    BY <2>2, <2>3 DEF Answers
  <2>5. First'
    BY <2>1 DEF First
  <2> QED BY <1>2, <2>1, <2>4, <2>5 DEF IInv
<1> QED BY <1>3, <1>4

-----------------------------------------------------------------------------
(* Theorems.                                                               *)

LEMMA InitHolds == ASSUME Init PROVE IInv
<1>1. Types
  <2>1. Flags
    BY DEF Init, Flags
  <2>2. files \in [Paths -> Contents]
    BY DEF Init, Contents
  <2>3. jobs \in Seq(JobType) /\ Len(jobs) = 0 /\ events \in Seq(EventType)
    BY DEF Init
  <2> QED BY <2>1, <2>2, <2>3, Bounds DEF Init, Types
<1>2. Alone /\ First /\ Answers
  BY DEF Init, Alone, First, Answers
<1>3. NoBrokenFile
  BY DEF Init, NoBrokenFile, Nothing, Other, Partial
<1> QED BY <1>1, <1>2, <1>3 DEF IInv

LEMMA NextHolds == ASSUME IInv, [Next]_vars PROVE IInv'
<1>1. CASE UNCHANGED vars
  <2>1. UNCHANGED <<jobs, files, clashed, exported, mine, events, exporting, window, windows>>
    BY <1>1 DEF vars, dialog
  <2>2. Types'
    <3>1. Flags'
      BY <1>1 DEF vars, dialog, IInv, Types, Flags
    <3> QED BY <1>1, <3>1 DEF vars, dialog, IInv, Types
  <2>3. Alone' /\ NoBrokenFile' /\ First'
    BY <2>1, DialogKeeps DEF IInv, First, Running
  <2>4. Answers'
    BY <2>1 DEF IInv, Answers, Settled, Running
  <2> QED BY <2>2, <2>3, <2>4 DEF IInv
<1> QED BY <1>1, DialogHolds, StartExportHolds, ReceiveEventHolds, WindowHolds, ThreadHolds DEF Next

\* The inductive invariant holds of every behaviour of exports and dialog.
THEOREM ExportInvariant == Spec => []IInv
<1>1. Init => IInv
  BY InitHolds
<1>2. IInv /\ [Next]_vars => IInv'
  BY NextHolds
<1> QED BY <1>1, <1>2, PTL DEF Spec

\* However exports of several windows interleave and wherever they fail, "Export
\* complete" stands for a whole file of one version of the document, no broken file
\* is left behind, and one window runs one export (start_export, export_worker).
THEOREM CompleteExportIsWhole == Spec => []ExportIsWhole
<1>1. IInv => ExportIsWhole
  <2> SUFFICES ASSUME IInv PROVE ExportIsWhole
    OBVIOUS
  <2>1. DOMAIN jobs = 1..Len(jobs)
    BY DEF IInv, Types
  <2>2. TypeOK
    <3>1. \A c \in Contents : c.kind \in {"none", "other", "partial", "whole"}
      BY DEF Contents, Nothing, Other, Partial, Whole
    <3>2. prompt \in BOOLEAN /\ exporting \in BOOLEAN /\ error \in BOOLEAN
      BY DEF IInv, Types, Flags
    <3> QED BY <3>1, <3>2 DEF IInv, Types, TypeOK
  <2>3. CompleteIsWhole
    BY <2>1 DEF IInv, Answers, Settled, CompleteIsWhole
  <2>4. OneExport
    BY <2>1 DEF IInv, Types, Answers, First, OneExport
  <2> QED BY <2>2, <2>3, <2>4 DEF IInv, ExportIsWhole
<1> QED BY <1>1, ExportInvariant, PTL

-----------------------------------------------------------------------------
(***************************************************************************)
(* The document of the editor, for any bounds.  The gestures that edit without *)
(* saving are the move of a zoom segment and a slider; all else that edits *)
(* ends in save_bundle.                                                    *)
(***************************************************************************)
\* Only the move of a zoom segment and a slider change the document before it
\* is saved.
Unsaved == gesture.kind \in {"move", "slider"}
DocumentInv == ~Unsaved /\ edited /\ saved => disk = Document!Written(Document!Config)

\* Whatever ends in save_bundle is harmless.
LEMMA SaveBundle ==
    ASSUME Document!save_bundle
    PROVE  DocumentInv'
  BY DEF DocumentInv, Document!save_bundle

\* So is what leaves document and file alone and ends no gesture that edits.
LEMMA NothingEdited ==
    ASSUME DocumentInv, UNCHANGED <<segments, zooms, look, disk, saved, edited>>, Unsaved => Unsaved'
    PROVE  DocumentInv'
  BY DEF DocumentInv, Document!Config

\* Between gestures none that edits is under way.
LEMMA IdleIsSaved ==
    ASSUME Document!Idle
    PROVE  ~Unsaved
  BY DEF Document!Idle, Document!NoGesture, Unsaved

\* Every action saves, edits nothing, or belongs to a gesture that edits.
LEMMA DocumentStep ==
    ASSUME DocumentInv, Document!Next
    PROVE  DocumentInv'
  <1>1. CASE Document!Reopen
    BY <1>1 DEF DocumentInv, Document!Reopen
  <1>2. CASE Document!toggle_cut_mode \/ Document!Escape
    BY <1>2, NothingEdited DEF Document!toggle_cut_mode, Document!Escape, Document!document, Document!file, Unsaved
  <1>3. ASSUME NEW id, NEW time, Document!activate_video_segment(id, time)
        PROVE  DocumentInv'
    BY <1>3, SaveBundle, NothingEdited, IdleIsSaved
       DEF Document!activate_video_segment, Document!document, Document!file
  <1>4. ASSUME NEW id, Document!activate_video_cut(id)
        PROVE  DocumentInv'
    BY <1>4, SaveBundle DEF Document!activate_video_cut
  <1>5. ASSUME NEW edge, Document!activate_video_segment_edge(edge)
        PROVE  DocumentInv'
    BY <1>5, SaveBundle DEF Document!activate_video_segment_edge
  <1>6. ASSUME NEW time, Document!ClickTimeline(time)
        PROVE  DocumentInv'
    BY <1>6, NothingEdited, IdleIsSaved DEF Document!ClickTimeline, Document!document, Document!file
  <1>7. CASE Document!delete_selected
    BY <1>7, SaveBundle DEF Document!delete_selected
  <1>8. ASSUME NEW id, NEW edge, Document!begin_video_segment_drag(id, edge)
        PROVE  DocumentInv'
    BY <1>8, NothingEdited, IdleIsSaved DEF Document!begin_video_segment_drag, Document!document, Document!file
  <1>9. ASSUME NEW delta, Document!drag_video_segment(delta)
        PROVE  DocumentInv'
    BY <1>9, NothingEdited DEF Document!drag_video_segment, Document!document, Document!file, Unsaved
  <1>10. CASE Document!finish_video_segment_drag
    BY <1>10, SaveBundle, NothingEdited
       DEF Document!finish_video_segment_drag, Document!document, Document!file, Unsaved
  <1>11. ASSUME NEW time, Document!ClickZooms(time)
         PROVE  DocumentInv'
    <2>1. CASE Document!ClickTimeline(time)
      BY <2>1, <1>6
    <2>2. CASE Document!save_bundle
      BY <2>2, SaveBundle
    <2>3. CASE UNCHANGED <<Document!document, Document!file>> /\ Document!Idle
      BY <2>3, NothingEdited, IdleIsSaved DEF Document!document, Document!file
    <2> QED
      BY <1>11, <2>1, <2>2, <2>3 DEF Document!ClickZooms
  <1>12. ASSUME NEW id, NEW edge, Document!BeginZoomResize(id, edge)
         PROVE  DocumentInv'
    BY <1>12, NothingEdited, IdleIsSaved DEF Document!BeginZoomResize, Document!document, Document!file
  <1>13. ASSUME NEW delta, NEW time, Document!drag_zoom_segment(delta, time)
         PROVE  DocumentInv'
    <2>1. CASE gesture.kind = "move" /\ UNCHANGED gesture
      BY <2>1 DEF DocumentInv, Unsaved
    <2>2. CASE gesture.kind = "resize" /\ UNCHANGED zooms
      BY <1>13, <2>2, NothingEdited DEF Document!drag_zoom_segment, Document!file, Unsaved
    <2> QED
      BY <1>13, <2>1, <2>2 DEF Document!drag_zoom_segment
  <1>14. CASE Document!finish_zoom_segment_drag
    BY <1>14, SaveBundle DEF Document!finish_zoom_segment_drag
  <1>15. ASSUME NEW value, Document!set_slider_value(value)
         PROVE  DocumentInv'
    BY <1>15 DEF Document!set_slider_value, DocumentInv, Unsaved
  <1>16. CASE Document!finish_slider
    BY <1>16, SaveBundle DEF Document!finish_slider
  <1>17. ASSUME NEW value, Document!set_option(value)
         PROVE  DocumentInv'
    BY <1>17, SaveBundle DEF Document!set_option
  <1> QED
    BY <1>1, <1>2, <1>3, <1>4, <1>5, <1>6, <1>7, <1>8, <1>9, <1>10, <1>11, <1>12, <1>13,
       <1>14, <1>15, <1>16, <1>17 DEF Document!Next

\* After any edits, gestures, failed writes and reopenings the file holds the document
\* whenever no gesture is under way and the last write succeeded.
THEOREM DocumentIsSaved == Document!Spec => []SavedBetweenGestures
  <1>1. Document!Init => DocumentInv
    BY DEF Document!Init, DocumentInv
  <1>2. DocumentInv /\ [Document!Next]_(Document!vars) => DocumentInv'
    <2>1. ASSUME DocumentInv, UNCHANGED Document!vars
          PROVE  DocumentInv'
      BY <2>1, NothingEdited DEF Document!vars, Unsaved
    <2> QED
      BY <2>1, DocumentStep
  <1>3. DocumentInv => SavedBetweenGestures
    BY IdleIsSaved DEF DocumentInv, SavedBetweenGestures, Document!SavedBetweenGestures
  <1> QED
    BY <1>1, <1>2, <1>3, PTL DEF Document!Spec


-----------------------------------------------------------------------------
(***************************************************************************)
(* The crop dialog, for any unit: Full, the minimum and the radius of a    *)
(* handle are what CropAssumption says of them and no more.                *)
(***************************************************************************)
\* Only a press at the right border leaves less than the minimum.
ThinAtBorder(crop) == crop.size < Minimum => Crop!Right(crop) = Full

\* What a drag began with; a draft that thin cannot be moved, for its handles
\* cover it.
DragInv ==
    /\ drag.kind \in {"Move", "Resize"} =>
          Crop!Right(drag.original) <= Full /\ ThinAtBorder(drag.original)
    /\ drag.kind = "Move" => drag.original.size >= Minimum
    /\ drag.kind = "Resize" /\ drag.handle = "Middle" /\ drag.original.size >= Minimum =>
          draft = drag.original

CropInv ==
    /\ Crop!TypeOK /\ Crop!StoredIsUsable /\ ThinAtBorder(draft) /\ DragInv
    /\ Crop!CreateCoversDrag /\ Crop!MoveKeepsSize

\* Whatever is normalised is usable, and what is usable stays as it is.
LEMMA NormalizedCrop ==
    ASSUME Crop!CropAssumption, NEW p \in Int, NEW s \in Int
    PROVE  LET crop == Crop!normalize_screen_crop([pos |-> p, size |-> s])
           IN  /\ crop \in Crop!Usable /\ crop.pos \in Int /\ crop.size \in Int
               /\ p >= 0 /\ s >= Minimum /\ p + s <= Full => crop = [pos |-> p, size |-> s]
               /\ p \in 0 .. Full /\ s >= 0 /\ s < Minimum /\ p + s = Full =>
                     crop = [pos |-> Full - Minimum, size |-> Minimum]
               /\ p \in 0 .. Full /\ s >= Minimum =>
                     crop.pos <= p /\ (Crop!Right(crop) >= p + s \/ Crop!Right(crop) = Full)
  <1> DEFINE pos == Crop!Clamp(p, 0, Full - Minimum)
             size == IF s <= 0 THEN Full - pos ELSE s
             kept == Crop!Least(Crop!Greatest(size, Crop!Least(Minimum, Full - pos)), Full - pos)
  <1>0. Full \in Nat /\ Minimum \in Nat /\ Minimum >= 1 /\ Minimum < Full
    BY DEF Crop!CropAssumption
  <1>1. /\ pos \in 0 .. Full - Minimum /\ (p \in 0 .. Full - Minimum => pos = p)
        /\ p > Full - Minimum => pos = Full - Minimum
    BY <1>0 DEF Crop!Clamp, Crop!Least, Crop!Greatest
  <1>2. Crop!normalize_screen_crop([pos |-> p, size |-> s]) = [pos |-> pos, size |-> kept]
    BY DEF Crop!normalize_screen_crop
  <1> HIDE DEF pos
  <1>3. /\ kept \in Minimum .. Full - pos
        /\ s >= Minimum => kept = s \/ (kept = Full - pos /\ s >= Full - pos)
        /\ s < Minimum /\ s > 0 => kept = Minimum
        /\ s <= 0 => kept = Full - pos
    BY <1>0, <1>1 DEF Crop!Least, Crop!Greatest
  <1> HIDE DEF kept
  <1>4. [pos |-> pos, size |-> kept] \in Crop!Usable
    BY <1>0, <1>1, <1>3 DEF Crop!Usable, Crop!Crops, Crop!Right
  <1>5. p >= 0 /\ s >= Minimum /\ p + s <= Full => pos = p /\ kept = s
    BY <1>0, <1>1, <1>3
  <1>6. p \in 0 .. Full /\ s >= 0 /\ s < Minimum /\ p + s = Full => pos = Full - Minimum /\ kept = Minimum
    BY <1>0, <1>1, <1>3
  <1>7. p \in 0 .. Full /\ s >= Minimum => pos <= p /\ (pos + kept >= p + s \/ pos + kept = Full)
    BY <1>0, <1>1, <1>3
  <1> QED
    BY <1>1, <1>2, <1>3, <1>4, <1>5, <1>6, <1>7 DEF Crop!Right

\* A new crop, normalised, covers the drag that made it.
LEMMA CreatedCrop ==
    ASSUME Crop!CropAssumption, NEW start \in 0 .. Full, NEW x \in 0 .. Full
    PROVE  LET crop == Crop!normalize_screen_crop(Crop!Created(start, x))
           IN  crop \in Crop!Usable /\ Crop!crop_contains(crop, start) /\ Crop!crop_contains(crop, x)
  <1> DEFINE p == Crop!Least(start, x)
             s == Crop!Greatest(Crop!Distance(start, x), Minimum)
             crop == Crop!normalize_screen_crop([pos |-> p, size |-> s])
  <1>1. Full \in Nat /\ Minimum \in Nat
    BY DEF Crop!CropAssumption
  <1>2. /\ p \in 0 .. Full /\ s \in Int /\ s >= Minimum
        /\ p <= start /\ p <= x /\ p + s >= start /\ p + s >= x
    BY <1>1 DEF Crop!Least, Crop!Greatest, Crop!Distance
  <1>3. Crop!Created(start, x) = [pos |-> p, size |-> s]
    BY DEF Crop!Created
  <1> HIDE DEF p, s
  <1>4. /\ crop \in Crop!Usable /\ crop.pos \in Int /\ crop.size \in Int
        /\ crop.pos <= p /\ (Crop!Right(crop) >= p + s \/ Crop!Right(crop) = Full)
    BY <1>1, <1>2, NormalizedCrop
  <1> HIDE DEF crop
  <1>5. Crop!Right(crop) \in Int
    BY <1>4 DEF Crop!Right
  <1>6. Crop!crop_contains(crop, start) /\ Crop!crop_contains(crop, x)
    BY <1>1, <1>2, <1>4, <1>5 DEF Crop!crop_contains
  <1> QED
    BY <1>3, <1>4, <1>6 DEF crop

\* A moved crop keeps its size, also normalised.
LEMMA MovedCrop ==
    ASSUME Crop!CropAssumption, NEW o \in Crop!Crops, Crop!Right(o) <= Full, o.size >= Minimum,
           NEW start \in 0 .. Full, NEW x \in 0 .. Full
    PROVE  LET crop == Crop!normalize_screen_crop(Crop!Moved(o, start, x))
           IN  crop \in Crop!Usable /\ crop.size = o.size
  <1> DEFINE p == Crop!Clamp(o.pos + x - start, 0, Full - o.size)
  <1>1. /\ Full \in Nat /\ Minimum \in Nat /\ o.pos \in 0 .. Full /\ o.size \in 0 .. Full
        /\ o = [pos |-> o.pos, size |-> o.size]
    BY DEF Crop!CropAssumption, Crop!Crops
  <1>2. p \in Int /\ p >= 0 /\ p + o.size <= Full
    BY <1>1 DEF Crop!Clamp, Crop!Least, Crop!Greatest
  <1>3. Crop!Moved(o, start, x) = [pos |-> p, size |-> o.size]
    BY <1>1 DEF Crop!Moved
  <1> HIDE DEF p
  <1> QED
    BY <1>1, <1>2, <1>3, NormalizedCrop

\* A resized crop keeps its opposite edge, also normalised.
LEMMA ResizedCrop ==
    ASSUME Crop!CropAssumption, NEW o \in Crop!Crops, Crop!Right(o) <= Full, ThinAtBorder(o),
           NEW handle \in {"Start", "Middle", "End"}, NEW x \in 0 .. Full,
           handle = "Start" => Crop!Right(o) >= Minimum,
           handle = "End" => o.pos + Minimum <= Full
    PROVE  LET crop == Crop!normalize_screen_crop(Crop!resized_screen_crop(o, handle, x))
           IN  /\ crop \in Crop!Usable
               /\ \/ handle = "Start" /\ Crop!Right(crop) = Crop!Right(o)
                  \/ handle = "End" /\ crop.pos = o.pos
                  \/ handle = "Middle" /\ o.size >= Minimum /\ crop = o
                  \/ /\ handle = "Middle" /\ o.size < Minimum
                     /\ crop = [pos |-> Full - Minimum, size |-> Minimum]
  <1>1. /\ Full \in Nat /\ Minimum \in Nat /\ o.pos \in 0 .. Full /\ o.size \in 0 .. Full
        /\ o = [pos |-> o.pos, size |-> o.size] /\ Minimum < Full /\ Minimum >= 1
    BY DEF Crop!CropAssumption, Crop!Crops
  <1>2. CASE handle = "Start"
    <2> DEFINE right == Crop!Right(o)
               left == Crop!Clamp(x, 0, right - Minimum)
    <2>1. right \in Int /\ right >= Minimum
      BY <1>1, <1>2 DEF Crop!Right
    <2>2. Crop!resized_screen_crop(o, handle, x) = [pos |-> left, size |-> right - left]
      BY <1>2 DEF Crop!resized_screen_crop
    <2> HIDE DEF right
    <2>3. left \in Int /\ left >= 0 /\ right - left >= Minimum
      BY <1>1, <2>1 DEF Crop!Clamp, Crop!Least, Crop!Greatest
    <2> HIDE DEF left
    <2>4. right <= Full
      BY DEF right
    <2>5. /\ Crop!normalize_screen_crop([pos |-> left, size |-> right - left])
                = [pos |-> left, size |-> right - left]
          /\ [pos |-> left, size |-> right - left] \in Crop!Usable
      BY <1>1, <2>1, <2>3, <2>4, NormalizedCrop
    <2>6. Crop!Right([pos |-> left, size |-> right - left]) = right
      BY <2>1, <2>3 DEF Crop!Right
    <2> QED
      BY <1>2, <2>2, <2>5, <2>6 DEF right
  <1>3. CASE handle = "End"
    <2> DEFINE right == Crop!Clamp(x, o.pos + Minimum, Full)
               size == right - o.pos
    <2>1. size \in Int /\ size >= Minimum /\ o.pos + size <= Full
      BY <1>1, <1>3 DEF Crop!Clamp, Crop!Least, Crop!Greatest
    <2>2. Crop!resized_screen_crop(o, handle, x) = [pos |-> o.pos, size |-> size]
      BY <1>1, <1>3 DEF Crop!resized_screen_crop
    <2> HIDE DEF size
    <2> QED
      BY <1>1, <1>3, <2>1, <2>2, NormalizedCrop
  <1>4. CASE handle = "Middle"
    <2>1. Crop!resized_screen_crop(o, handle, x) = [pos |-> o.pos, size |-> o.size]
      BY <1>1, <1>4 DEF Crop!resized_screen_crop
    <2>2. /\ o.pos + o.size <= Full
          /\ o.size < Minimum => o.pos + o.size = Full
      BY DEF ThinAtBorder, Crop!Right
    <2>3. CASE o.size < Minimum
      BY <1>1, <1>4, <2>1, <2>2, <2>3, NormalizedCrop
    <2>4. CASE o.size >= Minimum
      BY <1>1, <1>4, <2>1, <2>2, <2>4, NormalizedCrop
    <2> QED
      BY <1>1, <2>3, <2>4
  <1> QED
    BY <1>2, <1>3, <1>4

\* A crop that is usable is none of the thin ones, and lies inside the picture.
LEMMA UsableCrop ==
    ASSUME Crop!CropAssumption, NEW crop \in Crop!Usable
    PROVE  crop \in Crop!Crops /\ Crop!Right(crop) <= Full /\ ThinAtBorder(crop)
  BY DEF Crop!Usable, Crop!Crops, ThinAtBorder, Crop!CropAssumption

\* What a drag under way may do to the draft.
EdgeStays ==
    drag.kind = "Resize" /\ draft' # draft =>
        \/ drag.handle = "Start" /\ Crop!Right(draft') = Crop!Right(drag.original)
        \/ drag.handle = "End" /\ draft'.pos = drag.original.pos
        \/ /\ drag.handle = "Middle" /\ drag.original.size < Minimum
           /\ draft' = [pos |-> Full - Minimum, size |-> Minimum]

\* The pointer is taken to the nearest point of the picture.
LEMMA Positions ==
    ASSUME Crop!CropAssumption, NEW x \in Int
    PROVE  Crop!crop_position_at(x) \in 0 .. Full
  BY DEF Crop!CropAssumption, Crop!crop_position_at, Crop!Clamp, Crop!Least, Crop!Greatest

\* A drag from one point to the next.
LEMMA DragCrop ==
    ASSUME Crop!CropAssumption, CropInv, NEW x \in Int, Crop!drag_screen_crop(x)
    PROVE  CropInv' /\ EdgeStays
  <1> USE DEF CropInv
  <1>0. /\ drag # Crop!NoDrag /\ pointer' \in 0 .. Full /\ UNCHANGED <<stored, open, drag>>
        /\ \/ Crop!ClampPanics(drag) /\ crashed' = TRUE /\ UNCHANGED draft
           \/ /\ ~Crop!ClampPanics(drag) /\ UNCHANGED crashed
              /\ draft' = Crop!normalize_screen_crop(Crop!Dragged(drag, pointer'))
    BY Positions DEF Crop!drag_screen_crop
  <1>1. CASE Crop!ClampPanics(drag) /\ crashed' = TRUE /\ UNCHANGED draft
    <2>1. drag.kind = "Resize"
      BY <1>1 DEF Crop!ClampPanics
    <2>2. Crop!TypeOK'
      <3>1. crashed' \in BOOLEAN
        BY <1>1, Zenon
      <3> QED
        BY <1>0, <1>1, <3>1 DEF Crop!TypeOK
    <2> QED
      BY <1>0, <1>1, <2>1, <2>2
         DEF Crop!StoredIsUsable, ThinAtBorder, DragInv, Crop!CreateCoversDrag, Crop!MoveKeepsSize, EdgeStays
  <1>2. ASSUME ~Crop!ClampPanics(drag), UNCHANGED crashed,
               draft' = Crop!normalize_screen_crop(Crop!Dragged(drag, pointer'))
        PROVE  CropInv' /\ EdgeStays
    <2>1. ASSUME draft' \in Crop!Usable
          PROVE  Crop!TypeOK' /\ Crop!StoredIsUsable' /\ ThinAtBorder(draft')
      BY <1>0, <1>2, <2>1, UsableCrop DEF Crop!TypeOK, Crop!StoredIsUsable
    <2>2. CASE drag.kind = "Create"
      <3>1. drag.start \in 0 .. Full
        BY <1>0, <2>2 DEF Crop!TypeOK, Crop!Drags, Crop!NoDrag
      <3>2. /\ draft' \in Crop!Usable /\ Crop!crop_contains(draft', drag.start)
            /\ Crop!crop_contains(draft', pointer')
        BY <1>0, <1>2, <2>2, <3>1, CreatedCrop DEF Crop!Dragged
      <3> QED
        BY <1>0, <2>1, <2>2, <3>2
           DEF DragInv, Crop!CreateCoversDrag, Crop!MoveKeepsSize, EdgeStays, ThinAtBorder
    <2>3. CASE drag.kind = "Move"
      <3>1. /\ drag.start \in 0 .. Full /\ drag.original \in Crop!Crops
            /\ Crop!Right(drag.original) <= Full /\ drag.original.size >= Minimum
        BY <1>0, <2>3 DEF Crop!TypeOK, Crop!Drags, Crop!NoDrag, DragInv
      <3>2. draft' \in Crop!Usable /\ draft'.size = drag.original.size
        BY <1>0, <1>2, <2>3, <3>1, MovedCrop DEF Crop!Dragged
      <3> QED
        BY <1>0, <2>1, <2>3, <3>2
           DEF DragInv, Crop!CreateCoversDrag, Crop!MoveKeepsSize, EdgeStays, ThinAtBorder
    <2>4. CASE drag.kind = "Resize"
      <3> DEFINE o == drag.original
      <3>1. /\ drag.handle \in {"Start", "Middle", "End"} /\ o \in Crop!Crops
            /\ Crop!Right(o) <= Full /\ ThinAtBorder(o)
        BY <1>0, <2>4 DEF Crop!TypeOK, Crop!Drags, Crop!NoDrag, DragInv
      <3>2. /\ drag.handle = "Start" => Crop!Right(o) >= Minimum
            /\ drag.handle = "End" => o.pos + Minimum <= Full
        <4>1. Crop!Right(o) \in Int /\ o.pos \in Int /\ Minimum \in Int /\ Full \in Int
          BY <3>1 DEF Crop!Crops, Crop!Right, Crop!CropAssumption
        <4> QED
          BY <1>2, <2>4, <4>1 DEF Crop!ClampPanics
      <3>3. draft' = Crop!normalize_screen_crop(Crop!resized_screen_crop(o, drag.handle, pointer'))
        BY <1>2, <2>4 DEF Crop!Dragged
      <3>4. /\ draft' \in Crop!Usable
            /\ \/ drag.handle = "Start" /\ Crop!Right(draft') = Crop!Right(o)
               \/ drag.handle = "End" /\ draft'.pos = o.pos
               \/ drag.handle = "Middle" /\ o.size >= Minimum /\ draft' = o
               \/ /\ drag.handle = "Middle" /\ o.size < Minimum
                  /\ draft' = [pos |-> Full - Minimum, size |-> Minimum]
        <4> HIDE DEF o
        <4> QED
          BY <1>0, <3>1, <3>2, <3>3, ResizedCrop
      <3>5. drag.handle = "Middle" /\ o.size >= Minimum => draft = o
        BY <2>4 DEF DragInv
      <3>6. EdgeStays
        BY <2>4, <3>4, <3>5 DEF EdgeStays
      <3>7. DragInv'
        <4>1. o.size \in Int /\ Minimum \in Int
          BY <3>1 DEF Crop!Crops, Crop!CropAssumption
        <4> QED
          BY <1>0, <2>4, <3>1, <3>4, <4>1 DEF DragInv, ThinAtBorder
      <3> QED
        BY <1>0, <2>1, <2>4, <3>4, <3>6, <3>7
           DEF Crop!CreateCoversDrag, Crop!MoveKeepsSize, ThinAtBorder
    <2> QED
      BY <1>0, <2>2, <2>3, <2>4 DEF Crop!TypeOK, Crop!Drags, Crop!NoDrag
  <1> QED
    BY <1>0, <1>1, <1>2

\* A press near the right edge of the draft takes up a handle, in every row.
LEMMA EndIsNear ==
    ASSUME NEW x \in Int, NEW row \in {"top", "middle", "bottom"}, NEW crop,
           Crop!Distance(2 * x, 2 * Crop!Right(crop)) <= 2 * Radius
    PROVE  Crop!crop_handle_at(x, row, crop) # {}
  <1> DEFINE points == Crop!crop_handle_points(row)
             Near(i) == Crop!Distance(2 * x, Crop!HandlePlace(crop, points[i])) <= 2 * Radius
  <1>1. Crop!crop_handle_at(x, row, crop)
           = {points[i] : i \in {j \in DOMAIN points : Near(j) /\ \A k \in 1 .. j - 1 : ~Near(k)}}
    BY DEF Crop!crop_handle_at
  <1>2. Crop!HandlePlace(crop, "End") = 2 * Crop!Right(crop)
    BY DEF Crop!HandlePlace
  <1>3. DOMAIN points \in {1 .. 2, 1 .. 3} /\ \E n \in DOMAIN points : points[n] = "End"
    BY DEF Crop!crop_handle_points
  <1> HIDE DEF points
  <1>4. PICK n \in DOMAIN points : Near(n)
    BY <1>2, <1>3
  <1> HIDE DEF Near
  <1>5. n \in 1 .. 3 /\ 1 .. n \subseteq DOMAIN points
    BY <1>3
  <1>6. \E j \in 1 .. n : Near(j) /\ \A k \in 1 .. j - 1 : ~Near(k)
    <2>1. CASE Near(1)
      BY <1>5, <2>1
    <2>2. CASE ~Near(1) /\ Near(2)
      BY <1>4, <1>5, <2>2
    <2>3. CASE ~Near(1) /\ ~Near(2)
      <3>1. n = 3
        BY <1>4, <1>5, <2>3
      <3> QED
        BY <1>4, <2>3, <3>1
    <2> QED
      BY <2>1, <2>2, <2>3
  <1> QED
    BY <1>1, <1>5, <1>6

\* So a draft that is thinner than the minimum is never taken up to be moved.
LEMMA MovedIsWide ==
    ASSUME Crop!CropAssumption, CropInv, NEW x \in Int,
           NEW row \in {"top", "middle", "bottom", "off"},
           x <= Full + Radius,
           row # "off" \/ draft.size >= Minimum,
           Crop!crop_handle_at(x, row, draft) = {},
           Crop!crop_contains(draft, Crop!crop_position_at(x))
    PROVE  draft.size >= Minimum
  <1> SUFFICES ASSUME draft.size < Minimum PROVE FALSE
    BY DEF CropInv, Crop!TypeOK, Crop!Crops, Crop!CropAssumption
  <1>1. /\ draft.pos \in 0 .. Full /\ draft.size \in 0 .. Full /\ Full \in Nat /\ Minimum \in Nat
        /\ Radius \in Nat /\ Minimum <= Radius /\ Minimum < Full
        /\ Crop!Right(draft) = Full /\ Full = draft.pos + draft.size
    BY DEF CropInv, Crop!TypeOK, Crop!Crops, Crop!CropAssumption, ThinAtBorder, Crop!Right
  <1>2. x >= draft.pos
    BY <1>1 DEF Crop!crop_contains, Crop!crop_position_at, Crop!Clamp, Crop!Least, Crop!Greatest
  <1>3. Crop!Distance(2 * x, 2 * Crop!Right(draft)) <= 2 * Radius
    BY <1>1, <1>2 DEF Crop!Distance, Crop!Greatest
  <1>4. row # "off"
    BY <1>1
  <1> QED
    BY <1>3, <1>4, EndIsNear

\* A handle is one of the three of an axis.
LEMMA CropHandles ==
    ASSUME NEW x, NEW row \in {"top", "middle", "bottom", "off"}, NEW crop
    PROVE  Crop!crop_handle_at(x, row, crop) \subseteq {"Start", "Middle", "End"}
  <1>1. \A i \in DOMAIN Crop!crop_handle_points(row) :
           Crop!crop_handle_points(row)[i] \in {"Start", "Middle", "End"}
    BY DEF Crop!crop_handle_points
  <1> QED
    BY <1>1 DEF Crop!crop_handle_at

\* A press.
LEMMA BeginCrop ==
    ASSUME Crop!CropAssumption, CropInv, NEW x \in -Radius .. Full + Radius,
           NEW row \in {"top", "middle", "bottom", "off"}, NEW level \in BOOLEAN,
           Crop!begin_screen_crop(x, row, level)
    PROVE  CropInv' /\ EdgeStays
  <1> USE DEF CropInv
  <1> DEFINE start == Crop!crop_position_at(x)
             handles == Crop!crop_handle_at(x, row, draft)
  <1>0. /\ open /\ drag = Crop!NoDrag /\ UNCHANGED <<stored, open, crashed>> /\ pointer' = start
        /\ level => row # "off" \/ draft.size >= Minimum
    BY DEF Crop!begin_screen_crop
  <1>1. start \in 0 .. Full /\ x \in Int /\ x <= Full + Radius
    BY Positions DEF Crop!CropAssumption
  <1>2. EdgeStays
    BY <1>0 DEF EdgeStays, Crop!NoDrag
  <1>3. \/ /\ UNCHANGED draft
           /\ \E handle \in {"Start", "Middle", "End"} :
                 drag' = [kind |-> "Resize", handle |-> handle, original |-> draft]
        \/ /\ UNCHANGED draft /\ draft.size >= Minimum
           /\ drag' = [kind |-> "Move", start |-> start, original |-> draft]
        \/ /\ drag' = [kind |-> "Create", start |-> start]
           /\ draft' = [pos |-> start, size |-> Crop!Least(Minimum, Full - start)]
    <2>1. CASE handles # {}
      BY <2>1, CropHandles DEF Crop!begin_screen_crop
    <2>2. CASE handles = {} /\ level /\ Crop!crop_contains(draft, start)
      <3>1. draft.size >= Minimum
        BY <1>0, <1>1, <2>2, MovedIsWide
      <3> QED
        BY <2>2, <3>1 DEF Crop!begin_screen_crop
    <2>3. CASE handles = {} /\ ~(level /\ Crop!crop_contains(draft, start))
      BY <2>3 DEF Crop!begin_screen_crop
    <2> QED
      BY <2>1, <2>2, <2>3
  <1> HIDE DEF start
  <1>4. /\ draft \in Crop!Crops /\ Crop!Right(draft) <= Full /\ ThinAtBorder(draft)
    BY DEF Crop!TypeOK
  <1>5. CASE /\ UNCHANGED draft
             /\ \E handle \in {"Start", "Middle", "End"} :
                   drag' = [kind |-> "Resize", handle |-> handle, original |-> draft]
    <2>1. drag' \in Crop!Drags /\ drag'.kind = "Resize" /\ drag'.original = draft
      BY <1>4, <1>5 DEF Crop!Drags
    <2>2. Crop!TypeOK' /\ Crop!StoredIsUsable'
      BY <1>0, <1>1, <1>5, <2>1 DEF Crop!TypeOK, Crop!StoredIsUsable
    <2> QED
      BY <1>2, <1>4, <1>5, <2>1, <2>2
         DEF DragInv, ThinAtBorder, Crop!CreateCoversDrag, Crop!MoveKeepsSize
  <1>6. CASE /\ UNCHANGED draft /\ draft.size >= Minimum
             /\ drag' = [kind |-> "Move", start |-> start, original |-> draft]
    <2>1. drag' \in Crop!Drags /\ drag'.kind = "Move" /\ drag'.original = draft
      BY <1>1, <1>4, <1>6 DEF Crop!Drags
    <2>2. Crop!TypeOK' /\ Crop!StoredIsUsable'
      BY <1>0, <1>1, <1>6, <2>1 DEF Crop!TypeOK, Crop!StoredIsUsable
    <2> QED
      BY <1>2, <1>4, <1>6, <2>1, <2>2
         DEF DragInv, ThinAtBorder, Crop!CreateCoversDrag, Crop!MoveKeepsSize
  <1>7. CASE /\ drag' = [kind |-> "Create", start |-> start]
             /\ draft' = [pos |-> start, size |-> Crop!Least(Minimum, Full - start)]
    <2>1. drag' \in Crop!Drags /\ drag'.kind = "Create" /\ drag'.start = start
      BY <1>1, <1>7 DEF Crop!Drags
    <2>2. /\ Full \in Nat /\ Minimum \in Nat
          /\ Crop!Least(Minimum, Full - start) \in 0 .. Full - start
          /\ Crop!Least(Minimum, Full - start) < Minimum => Crop!Least(Minimum, Full - start) = Full - start
      BY <1>1 DEF Crop!CropAssumption, Crop!Least
    <2>3. /\ draft' \in Crop!Crops /\ Crop!Right(draft') <= Full /\ ThinAtBorder(draft')
          /\ Crop!crop_contains(draft', start)
      BY <1>1, <1>7, <2>2 DEF Crop!Crops, Crop!Right, ThinAtBorder, Crop!crop_contains
    <2>4. Crop!TypeOK' /\ Crop!StoredIsUsable'
      BY <1>0, <1>1, <2>1, <2>3 DEF Crop!TypeOK, Crop!StoredIsUsable
    <2> QED
      BY <1>0, <1>2, <2>1, <2>3, <2>4
         DEF DragInv, ThinAtBorder, Crop!CreateCoversDrag, Crop!MoveKeepsSize
  <1> QED
    BY <1>3, <1>5, <1>6, <1>7

\* The buttons of the dialog, and the release.
LEMMA OtherCropSteps ==
    ASSUME Crop!CropAssumption, CropInv,
           \/ Crop!open_crop_dialog \/ Crop!MouseUp \/ Crop!Reset
           \/ Crop!apply_screen_crop \/ Crop!close_crop_dialog
    PROVE  CropInv' /\ EdgeStays
  <1> USE DEF CropInv
  <1>1. /\ stored \in Crop!Usable /\ stored \in Crop!Crops /\ Crop!Right(stored) <= Full
        /\ ThinAtBorder(stored)
    BY UsableCrop DEF Crop!StoredIsUsable
  <1>2. /\ Crop!FULL \in Crop!Crops /\ Crop!Right(Crop!FULL) <= Full /\ ThinAtBorder(Crop!FULL)
    BY DEF Crop!FULL, Crop!Crops, Crop!Right, ThinAtBorder, Crop!CropAssumption
  <1>3. /\ drag' = Crop!NoDrag /\ UNCHANGED <<pointer, crashed>> /\ open' \in BOOLEAN
        /\ draft' \in {draft, stored, Crop!FULL}
        /\ drag = Crop!NoDrag \/ draft' = draft
    <2>1. open' \in BOOLEAN
      BY DEF Crop!open_crop_dialog, Crop!MouseUp, Crop!Reset, Crop!apply_screen_crop,
             Crop!close_crop_dialog, Crop!TypeOK
    <2> QED
      BY <2>1 DEF Crop!open_crop_dialog, Crop!MouseUp, Crop!Reset, Crop!apply_screen_crop,
                  Crop!close_crop_dialog, Crop!TypeOK
  <1>4. stored' \in Crop!Usable
    <2>1. draft.pos \in Int /\ draft.size \in Int /\ draft = [pos |-> draft.pos, size |-> draft.size]
      BY DEF Crop!TypeOK, Crop!Crops, Crop!CropAssumption
    <2>2. Crop!normalize_screen_crop(draft) \in Crop!Usable
      BY <2>1, NormalizedCrop
    <2> QED
      BY <1>1, <2>2 DEF Crop!open_crop_dialog, Crop!MouseUp, Crop!Reset, Crop!apply_screen_crop,
                        Crop!close_crop_dialog
  <1>5. stored' \in Crop!Crops
    BY <1>4, UsableCrop
  <1>6. Crop!TypeOK' /\ Crop!StoredIsUsable' /\ ThinAtBorder(draft)'
    BY <1>1, <1>2, <1>3, <1>4, <1>5 DEF Crop!TypeOK, Crop!StoredIsUsable, Crop!Drags, ThinAtBorder
  <1>7. DragInv' /\ Crop!CreateCoversDrag' /\ Crop!MoveKeepsSize'
    BY <1>3 DEF DragInv, Crop!CreateCoversDrag, Crop!MoveKeepsSize, Crop!NoDrag
  <1>8. EdgeStays
    BY <1>3 DEF EdgeStays, Crop!NoDrag
  <1> QED
    BY <1>6, <1>7, <1>8

\* Every step.
LEMMA CropStep ==
    ASSUME Crop!CropAssumption, CropInv, [Crop!Next]_(Crop!vars)
    PROVE  CropInv' /\ EdgeStays
  <1>1. CASE UNCHANGED Crop!vars
    BY <1>1 DEF Crop!vars, CropInv, EdgeStays, DragInv, ThinAtBorder, Crop!TypeOK,
                Crop!StoredIsUsable, Crop!CreateCoversDrag, Crop!MoveKeepsSize
  <1>2. CASE Crop!Next
    <2>1. ASSUME NEW x \in -Radius .. Full + Radius, NEW row \in {"top", "middle", "bottom", "off"},
                 NEW level \in BOOLEAN, Crop!begin_screen_crop(x, row, level)
          PROVE  CropInv' /\ EdgeStays
      BY <2>1, BeginCrop
    <2>2. ASSUME NEW x \in -Radius .. Full + Radius, Crop!drag_screen_crop(x)
          PROVE  CropInv' /\ EdgeStays
      <3>1. x \in Int
        BY DEF Crop!CropAssumption
      <3> QED
        BY <2>2, <3>1, DragCrop
    <2> QED
      BY <1>2, <2>1, <2>2, OtherCropSteps DEF Crop!Next
  <1> QED
    BY <1>1, <1>2

\* Whatever is pressed, dragged, reset and applied in the crop dialog, the crop
\* kept with the bundle is usable and the gestures do what they show.
THEOREM CropHolds ==
    ASSUME Crop!CropAssumption
    PROVE  Crop!Spec => CropIsUsable
  <1>1. Crop!Init => CropInv
    <2> SUFFICES ASSUME Crop!Init PROVE CropInv
      OBVIOUS
    <2>1. /\ stored \in Crop!Usable /\ draft = stored /\ drag = Crop!NoDrag /\ pointer = 0
          /\ open = FALSE /\ crashed = FALSE
      BY DEF Crop!Init
    <2>2. /\ stored \in Crop!Crops /\ Crop!Right(stored) <= Full /\ ThinAtBorder(stored)
      BY <2>1, UsableCrop
    <2>3. open \in BOOLEAN /\ crashed \in BOOLEAN
      BY <2>1, Zenon
    <2>4. pointer \in 0 .. Full
      BY <2>1 DEF Crop!CropAssumption
    <2>5. Crop!TypeOK
      BY <2>1, <2>2, <2>3, <2>4 DEF Crop!TypeOK, Crop!Drags
    <2> QED
      BY <2>1, <2>2, <2>5
         DEF CropInv, Crop!StoredIsUsable, DragInv, Crop!CreateCoversDrag, Crop!MoveKeepsSize, Crop!NoDrag
  <1>2. CropInv /\ [Crop!Next]_(Crop!vars) => CropInv'
    BY CropStep
  <1>3. CropInv /\ [Crop!Next]_(Crop!vars) => [EdgeStays]_(Crop!vars)
    BY CropStep
  <1>4. CropInv => /\ Crop!TypeOK /\ Crop!StoredIsUsable /\ Crop!CreateCoversDrag /\ Crop!MoveKeepsSize
    BY DEF CropInv
  <1> QED
    BY <1>1, <1>2, <1>3, <1>4, PTL
       DEF CropIsUsable, Crop!Spec, Crop!CropIsUsable, Crop!OppositeEdgeStays, EdgeStays
=============================================================================
