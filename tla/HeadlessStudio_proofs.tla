----------------------- MODULE HeadlessStudio_proofs ------------------------
(***************************************************************************)
(* Theorems of HeadlessStudio, for any cameras and any number of frames.   *)
(*                                                                         *)
(* The numbers rest on Accounts, which says of every state what            *)
(* CountsAddUp says of those in which no callback counts: one capture is   *)
(* owed while a callback has only that count left to make.  That pictures  *)
(* go forward rests on a camera's frames being numbered: what waits is     *)
(* newer than what the pipeline keeps, and a picture is never newer than   *)
(* that.                                                                   *)
(***************************************************************************)
EXTENDS HeadlessStudio, FiniteSetTheorems, TLAPS

Counts == [captured : Nat, overwritten : Nat, composed : Nat]

\* What was counted since the start, in a report or not.
Captured == metrics.captured + reported.captured
Overwritten == metrics.overwritten + reported.overwritten
Composed == metrics.composed + reported.composed

-----------------------------------------------------------------------------
(* The inductive invariant.                                                *)

Owed == IF \E c \in Cameras : callback[c] = "capture" THEN 1 ELSE 0

Accounts ==
    /\ metrics \in Counts /\ reported \in Counts /\ drained \in Nat
    /\ Captured + Owed = Overwritten + drained + Cardinality(Filled(latest))

\* The picture of the frames that were just drained is not counted yet.
Pictures ==
    /\ Composed <= drained
    /\ pipeline = "drained" /\ received => Composed < drained

\* A camera's frames come in the order of their numbers.
Ordered ==
    \A c \in Cameras :
       /\ picture[c] <= frames[c] /\ frames[c] <= sent[c] /\ latest[c] <= sent[c]
       /\ latest[c] # 0 => frames[c] < latest[c]
       /\ c \notin Shown => picture[c] = 0

IInv == TypeOK /\ Accounts /\ Pictures /\ Ordered

-----------------------------------------------------------------------------
(* Lemmas.                                                                 *)

LEMMA FilledIsFinite ==
    ASSUME HeadlessAssumption, NEW f
    PROVE  IsFiniteSet(Filled(f)) /\ Cardinality(Filled(f)) \in Nat
<1>1. IsFiniteSet(Cameras) /\ Filled(f) \subseteq Cameras
  BY DEF HeadlessAssumption, Filled
<1>2. IsFiniteSet(Filled(f))
  BY <1>1, FS_Subset
<1> QED BY <1>2, FS_CardinalityType

LEMMA NothingFilled ==
    ASSUME HeadlessAssumption
    PROVE  Nothing \in Numbers /\ Filled(Nothing) = {} /\ Cardinality(Filled(Nothing)) = 0
<1>1. Filled(Nothing) = {}
  BY DEF Filled, Nothing
<1>2. Nothing \in Numbers
  BY DEF HeadlessAssumption, Nothing, Numbers
<1> QED BY <1>1, <1>2, FS_EmptySet

\* The counts as numbers, and what they come to.
LEMMA CountsAreNumbers ==
    ASSUME metrics \in Counts, reported \in Counts
    PROVE  /\ metrics.captured \in Nat /\ metrics.overwritten \in Nat /\ metrics.composed \in Nat
           /\ reported.captured \in Nat /\ reported.overwritten \in Nat /\ reported.composed \in Nat
           /\ Captured \in Nat /\ Overwritten \in Nat /\ Composed \in Nat
BY DEF Counts, Captured, Overwritten, Composed

\* A report moves the counts and changes no sum.
LEMMA TakeKeepsSums ==
    ASSUME metrics \in Counts, reported \in Counts, take
    PROVE  /\ metrics' \in Counts /\ reported' \in Counts
           /\ Captured' = Captured /\ Overwritten' = Overwritten /\ Composed' = Composed
<1>1. DOMAIN reported = {"captured", "overwritten", "composed"}
  BY DEF Counts
<1>2. /\ reported'.captured = reported.captured + metrics.captured
      /\ reported'.overwritten = reported.overwritten + metrics.overwritten
      /\ reported'.composed = reported.composed + metrics.composed
      /\ metrics'.captured = 0 /\ metrics'.overwritten = 0 /\ metrics'.composed = 0
      /\ metrics' \in Counts
  BY <1>1 DEF take, NoCounts, Counts
<1>3. reported' = [captured |-> reported'.captured, overwritten |-> reported'.overwritten,
                   composed |-> reported'.composed]
  BY <1>1 DEF take
<1>4. /\ reported'.captured \in Nat /\ reported'.overwritten \in Nat /\ reported'.composed \in Nat
  BY <1>2, CountsAreNumbers
<1>5. reported' \in Counts
  BY <1>3, <1>4 DEF Counts
<1> QED BY <1>2, <1>5, CountsAreNumbers DEF Captured, Overwritten, Composed

\* What a step keeps that leaves the counts, the frames and the callbacks alone.
LEMMA CountsKept ==
    ASSUME IInv, UNCHANGED <<captureVars, latest, metrics, reported, drained>>
    PROVE  Accounts' /\ Composed' = Composed
BY DEF IInv, Accounts, Captured, Overwritten, Composed, Owed, captureVars

LEMMA FramesKept ==
    ASSUME IInv, UNCHANGED <<captureVars, latest, frames, picture>>
    PROVE  Ordered'
BY DEF IInv, Ordered, captureVars

-----------------------------------------------------------------------------
(* The steps.                                                              *)

LEMMA InitHolds == ASSUME HeadlessAssumption, Init PROVE IInv
<1> USE NothingFilled DEF Init
<1>1. TypeOK
  <2>1. callback \in [Cameras -> {"idle", "overwrite", "capture"}] /\ None \notin Cameras
    BY DEF HeadlessAssumption
  <2>2. \A c \in Cameras : callback[c] # "idle" <=> lock = c
    BY <2>1
  <2>3. received \in BOOLEAN /\ expired \in BOOLEAN
    OBVIOUS
  <2> QED BY <2>1, <2>2, <2>3 DEF TypeOK
<1>2. Owed = 0
  BY DEF Owed
<1>3. Accounts
  BY <1>2 DEF Accounts, Captured, Overwritten, Counts, NoCounts
<1>4. Pictures
  BY DEF Pictures, Composed, NoCounts
<1>5. Ordered
  BY DEF Ordered, Nothing
<1> QED BY <1>1, <1>3, <1>4, <1>5 DEF IInv

LEMMA StartHolds ==
    ASSUME HeadlessAssumption, IInv,
           (\E c \in Cameras : StartCamera(c)) \/ RunPipeline \/ Stop \/ Expire
    PROVE  IInv'
<1>1. /\ UNCHANGED <<captureVars, latest, frames, received, picture, metrics, reported, drained>>
      /\ pipeline' \in {"starting", "loop", "drained", "composed", "stopping", "stopped"}
      /\ pipeline' = "drained" => pipeline = "drained"
      /\ started' \subseteq Cameras /\ expired' \in BOOLEAN
  BY DEF IInv, TypeOK, StartCamera, RunPipeline, Stop, Expire
<1>2. TypeOK'
  BY <1>1 DEF IInv, TypeOK, captureVars
<1>3. Accounts' /\ Composed' = Composed /\ Ordered'
  BY <1>1, CountsKept, FramesKept
<1>4. Pictures'
  BY <1>1, <1>3 DEF IInv, Pictures
<1> QED BY <1>2, <1>3, <1>4 DEF IInv

LEMMA SubmitHolds ==
    ASSUME HeadlessAssumption, IInv, NEW c \in Cameras, Submit(c)
    PROVE  IInv'
<1>1. /\ MaxFrames \in Nat /\ None \notin Cameras /\ TypeOK /\ Accounts /\ Ordered
      /\ sent \in Numbers /\ latest \in Numbers /\ frames \in Numbers /\ picture \in Numbers
  BY DEF HeadlessAssumption, IInv, TypeOK
<1>2. /\ lock = None /\ sent[c] < MaxFrames /\ lock' = c
      /\ sent' = [sent EXCEPT ![c] = sent[c] + 1] /\ latest' = [latest EXCEPT ![c] = sent[c] + 1]
      /\ callback' = [callback EXCEPT ![c] = IF latest[c] # 0 THEN "overwrite" ELSE "capture"]
      /\ UNCHANGED <<pipeline, started, frames, received, picture, metrics, reported, drained, expired>>
  BY DEF Submit
<1>3. sent[c] \in Nat /\ sent[c] + 1 \in 0 .. MaxFrames /\ sent[c] + 1 # 0
  BY <1>1, <1>2 DEF Numbers
<1>4. \A d \in Cameras : callback[d] = "idle"
  BY <1>1, <1>2 DEF TypeOK
<1>5. callback \in [Cameras -> {"idle", "overwrite", "capture"}]
  BY <1>1 DEF TypeOK
<1>6. TypeOK'
  <2>1. sent' \in Numbers /\ latest' \in Numbers
    BY <1>1, <1>2, <1>3 DEF Numbers
  <2>2. callback' \in [Cameras -> {"idle", "overwrite", "capture"}]
    BY <1>2, <1>5
  <2>3. \A d \in Cameras : callback'[d] # "idle" <=> lock' = d
    BY <1>2, <1>4, <1>5
  <2> QED BY <1>1, <1>2, <2>1, <2>2, <2>3 DEF TypeOK
<1>7. Accounts'
  <2>1. Owed = 0
    BY <1>4 DEF Owed
  <2>2. Captured = Overwritten + drained + Cardinality(Filled(latest))
    BY <1>1, <2>1, CountsAreNumbers DEF Accounts
  <2>3. Captured' = Captured /\ Overwritten' = Overwritten /\ drained' = drained
    BY <1>2 DEF Captured, Overwritten
  <2>4. Filled(latest') = Filled(latest) \cup {c}
    BY <1>1, <1>2, <1>3 DEF Filled, Numbers
  <2>5. CASE latest[c] # 0
    <3>1. Filled(latest') = Filled(latest)
      BY <2>4, <2>5 DEF Filled
    <3>2. Owed' = 0
      BY <1>2, <1>4, <1>5, <2>5 DEF Owed
    <3> QED BY <1>1, <1>2, <2>2, <2>3, <3>1, <3>2, CountsAreNumbers DEF Accounts
  <2>6. CASE latest[c] = 0
    <3>1. c \notin Filled(latest)
      BY <2>6 DEF Filled
    <3>2. Cardinality(Filled(latest) \cup {c}) = Cardinality(Filled(latest)) + 1
      BY <3>1, FilledIsFinite, FS_AddElement
    <3>3. Owed' = 1
      BY <1>2, <1>5, <2>6 DEF Owed
    <3>4. PICK k \in Nat : k = Cardinality(Filled(latest)) /\ Cardinality(Filled(latest')) = k + 1
      BY <2>4, <3>2, FilledIsFinite
    <3>5. Captured \in Nat /\ Overwritten \in Nat /\ drained \in Nat
      BY <1>1, CountsAreNumbers DEF Accounts
    <3>6. Captured' + Owed' = Overwritten' + drained' + Cardinality(Filled(latest'))
      BY <2>2, <2>3, <3>3, <3>4, <3>5
    <3>7. Filled(latest') = Filled(latest)'
      BY DEF Filled
    <3> QED BY <1>1, <1>2, <3>6, <3>7 DEF Accounts
  <2> QED BY <2>5, <2>6
<1>8. Pictures'
  BY <1>2 DEF IInv, Pictures, Composed
<1>9. Ordered'
  <2> SUFFICES ASSUME NEW d \in Cameras
               PROVE  /\ picture'[d] <= frames'[d] /\ frames'[d] <= sent'[d] /\ latest'[d] <= sent'[d]
                      /\ latest'[d] # 0 => frames'[d] < latest'[d]
                      /\ d \notin Shown => picture'[d] = 0
    BY DEF Ordered
  <2>1. picture[d] \in Nat /\ frames[d] \in Nat /\ sent[d] \in Nat
    BY <1>1 DEF Numbers
  <2>2. CASE d = c
    BY <1>1, <1>2, <2>1, <2>2 DEF Ordered, Numbers
  <2>3. CASE d # c
    BY <1>1, <1>2, <2>1, <2>3 DEF Ordered, Numbers
  <2> QED BY <2>2, <2>3
<1> QED BY <1>6, <1>7, <1>8, <1>9 DEF IInv

LEMMA CallbackHolds ==
    ASSUME HeadlessAssumption, IInv, NEW c \in Cameras, Callback(c)
    PROVE  IInv'
<1>1. /\ TypeOK /\ Accounts /\ metrics \in Counts /\ reported \in Counts /\ drained \in Nat
      /\ callback \in [Cameras -> {"idle", "overwrite", "capture"}] /\ None \notin Cameras
  BY DEF HeadlessAssumption, IInv, TypeOK, Accounts
<1>2. UNCHANGED <<pipeline, started, sent, latest, frames, received, picture, reported, drained, expired>>
  BY DEF Callback, record_overwrite, record_capture
<1>3. lock = c /\ \A d \in Cameras : d # c => callback[d] = "idle"
  BY <1>1 DEF TypeOK, Callback, record_overwrite, record_capture
<1>4. Ordered'
  BY <1>2 DEF IInv, Ordered
<1>5. PICK k \in Nat : k = Cardinality(Filled(latest)) /\ k = Cardinality(Filled(latest))'
  BY <1>2, FilledIsFinite DEF Filled
<1>6. CASE record_overwrite(c)
  <2>1. /\ callback[c] = "overwrite" /\ callback' = [callback EXCEPT ![c] = "capture"] /\ lock' = lock
        /\ metrics' = [metrics EXCEPT !.overwritten = @ + 1]
    BY <1>6 DEF record_overwrite
  <2>2. TypeOK'
    BY <1>1, <1>2, <1>3, <2>1 DEF TypeOK
  <2>3. Owed = 0 /\ Owed' = 1
    BY <1>1, <1>3, <2>1 DEF Owed
  <2>4. /\ metrics' \in Counts /\ metrics'.captured = metrics.captured
        /\ metrics'.overwritten = metrics.overwritten + 1 /\ metrics'.composed = metrics.composed
    BY <1>1, <2>1 DEF Counts
  <2>5. Captured' = Captured /\ Overwritten' = Overwritten + 1 /\ Composed' = Composed
    BY <1>1, <1>2, <2>4, CountsAreNumbers DEF Captured, Overwritten, Composed
  <2>6. Captured + 0 = Overwritten + drained + k
    BY <1>1, <1>5, <2>3 DEF Accounts
  <2>7. Captured' + Owed' = Overwritten' + drained' + Cardinality(Filled(latest))'
    BY <1>1, <1>2, <1>5, <2>3, <2>5, <2>6, CountsAreNumbers
  <2>8. Accounts'
    BY <1>1, <1>2, <2>4, <2>7 DEF Accounts
  <2>9. Pictures'
    BY <1>2, <2>5 DEF IInv, Pictures
  <2> QED BY <1>4, <2>2, <2>8, <2>9 DEF IInv
<1>7. CASE record_capture(c)
  <2>1. /\ callback[c] = "capture" /\ callback' = [callback EXCEPT ![c] = "idle"] /\ lock' = None
        /\ metrics' = [metrics EXCEPT !.captured = @ + 1]
    BY <1>7 DEF record_capture
  <2>2. TypeOK'
    BY <1>1, <1>2, <1>3, <2>1 DEF TypeOK
  <2>3. Owed = 1 /\ Owed' = 0
    BY <1>1, <1>3, <2>1 DEF Owed
  <2>4. /\ metrics' \in Counts /\ metrics'.captured = metrics.captured + 1
        /\ metrics'.overwritten = metrics.overwritten /\ metrics'.composed = metrics.composed
    BY <1>1, <2>1 DEF Counts
  <2>5. Captured' = Captured + 1 /\ Overwritten' = Overwritten /\ Composed' = Composed
    BY <1>1, <1>2, <2>4, CountsAreNumbers DEF Captured, Overwritten, Composed
  <2>6. Captured + 1 = Overwritten + drained + k
    BY <1>1, <1>5, <2>3 DEF Accounts
  <2>7. Captured' + Owed' = Overwritten' + drained' + Cardinality(Filled(latest))'
    BY <1>1, <1>2, <1>5, <2>3, <2>5, <2>6, CountsAreNumbers
  <2>8. Accounts'
    BY <1>1, <1>2, <2>4, <2>7 DEF Accounts
  <2>9. Pictures'
    BY <1>2, <2>5 DEF IInv, Pictures
  <2> QED BY <1>4, <2>2, <2>8, <2>9 DEF IInv
<1> QED BY <1>6, <1>7 DEF Callback

LEMMA DrainHolds ==
    ASSUME HeadlessAssumption, IInv, wait_and_drain
    PROVE  IInv'
<1>1. /\ TypeOK /\ Accounts /\ Ordered /\ None \notin Cameras
      /\ sent \in Numbers /\ latest \in Numbers /\ frames \in Numbers /\ picture \in Numbers
      /\ callback \in [Cameras -> {"idle", "overwrite", "capture"}]
  BY DEF HeadlessAssumption, IInv, TypeOK
<1>2. /\ lock = None /\ latest' = Nothing /\ pipeline' = "drained"
      /\ frames' = [c \in Cameras |-> IF latest[c] # 0 THEN latest[c] ELSE frames[c]]
      /\ UNCHANGED <<started, captureVars, picture, metrics, reported, expired>>
  BY DEF wait_and_drain
<1>3. received' = (Filled(latest) # {}) /\ received' \in BOOLEAN
  BY DEF wait_and_drain
<1>4. PICK k \in Nat : k = Cardinality(Filled(latest)) /\ drained' = drained + k
  BY FilledIsFinite DEF wait_and_drain
<1>5. Nothing \in Numbers /\ Cardinality(Filled(Nothing)) = 0
  BY NothingFilled
<1>6. frames' \in Numbers
  BY <1>1, <1>2 DEF Numbers
<1>7. TypeOK'
  BY <1>1, <1>2, <1>3, <1>5, <1>6 DEF TypeOK, captureVars
<1>8. Owed = 0 /\ Owed' = 0
  BY <1>1, <1>2 DEF Owed, TypeOK, captureVars
<1>9. /\ metrics \in Counts /\ reported \in Counts /\ drained \in Nat
      /\ Captured \in Nat /\ Overwritten \in Nat /\ Composed \in Nat
  BY <1>1, CountsAreNumbers DEF Accounts
<1>10. Captured' = Captured /\ Overwritten' = Overwritten /\ Composed' = Composed
  BY <1>2 DEF Captured, Overwritten, Composed
<1>11. Accounts'
  <2>1. Cardinality(Filled(latest))' = 0
    BY <1>2, <1>5 DEF Filled
  <2>2. Captured + 0 = Overwritten + drained + k
    BY <1>1, <1>4, <1>8 DEF Accounts
  <2>3. Captured' + Owed' = Overwritten' + drained' + Cardinality(Filled(latest))'
    BY <1>4, <1>8, <1>9, <1>10, <2>1, <2>2
  <2>4. drained' \in Nat
    BY <1>4, <1>9
  <2> QED BY <1>2, <1>9, <2>3, <2>4 DEF Accounts
<1>12. Pictures'
  <2>1. received' => k # 0
    <3>1. k = 0 => Filled(latest) = {}
      BY <1>4, FilledIsFinite, FS_EmptySet
    <3> QED BY <1>3, <3>1
  <2>2. Composed <= drained
    BY DEF IInv, Pictures
  <2> QED BY <1>4, <1>9, <1>10, <2>1, <2>2 DEF Pictures
<1>13. Ordered'
  <2> SUFFICES ASSUME NEW d \in Cameras
               PROVE  /\ picture'[d] <= frames'[d] /\ frames'[d] <= sent'[d] /\ latest'[d] <= sent'[d]
                      /\ latest'[d] # 0 => frames'[d] < latest'[d]
                      /\ d \notin Shown => picture'[d] = 0
    BY DEF Ordered
  <2>1. picture[d] \in Nat /\ frames[d] \in Nat /\ sent[d] \in Nat /\ latest[d] \in Nat
    BY <1>1 DEF Numbers
  <2> QED BY <1>1, <1>2, <2>1 DEF Ordered, Nothing, captureVars
<1> QED BY <1>7, <1>11, <1>12, <1>13 DEF IInv

LEMMA ComposeHolds ==
    ASSUME HeadlessAssumption, IInv, compose
    PROVE  IInv' /\ \A c \in Cameras : picture'[c] >= picture[c]
<1>1. /\ TypeOK /\ Accounts /\ Ordered /\ MaxFrames \in Nat
      /\ sent \in Numbers /\ latest \in Numbers /\ frames \in Numbers /\ picture \in Numbers
      /\ metrics \in Counts /\ reported \in Counts /\ drained \in Nat
  BY DEF HeadlessAssumption, IInv, TypeOK, Accounts
<1>2. /\ pipeline = "drained"
      /\ UNCHANGED <<started, captureVars, latest, frames, received, reported, drained, expired>>
  BY DEF compose
<1>3. CASE pipeline' \in {"composed", "stopping"} /\ UNCHANGED <<picture, metrics>>
  <2>1. TypeOK'
    BY <1>1, <1>2, <1>3 DEF TypeOK, captureVars
  <2>2. Accounts' /\ Composed' = Composed /\ Ordered'
    BY <1>2, <1>3, CountsKept, FramesKept
  <2>3. Pictures'
    BY <1>2, <1>3, <2>2 DEF IInv, Pictures
  <2>4. \A c \in Cameras : picture'[c] >= picture[c]
    BY <1>1, <1>3 DEF Numbers
  <2> QED BY <2>1, <2>2, <2>3, <2>4 DEF IInv
<1>4. CASE /\ received /\ pipeline' = "composed"
           /\ picture' = [c \in Cameras |-> IF c \in Shown THEN frames[c] ELSE 0]
           /\ metrics' = [metrics EXCEPT !.composed = @ + 1]
  <2>1. picture' \in Numbers
    BY <1>1, <1>4 DEF Numbers
  <2>2. TypeOK'
    BY <1>1, <1>2, <1>4, <2>1 DEF TypeOK, captureVars
  <2>3. /\ metrics' \in Counts /\ metrics'.captured = metrics.captured
        /\ metrics'.overwritten = metrics.overwritten /\ metrics'.composed = metrics.composed + 1
    BY <1>1, <1>4 DEF Counts
  <2>4. Captured' = Captured /\ Overwritten' = Overwritten /\ Composed' = Composed + 1
    BY <1>1, <1>2, <2>3, CountsAreNumbers DEF Captured, Overwritten, Composed
  <2>5. Accounts'
    BY <1>1, <1>2, <2>3, <2>4 DEF Accounts, Owed, captureVars
  <2>6. Pictures'
    <3>1. Composed < drained
      BY <1>2, <1>4 DEF IInv, Pictures
    <3> QED BY <1>1, <1>2, <1>4, <2>4, <3>1, CountsAreNumbers DEF Pictures
  <2>7. \A c \in Cameras : picture'[c] <= frames[c] /\ (c \notin Shown => picture'[c] = 0)
    BY <1>1, <1>4 DEF Numbers
  <2>8. Ordered'
    BY <1>1, <1>2, <2>7 DEF Ordered, captureVars
  <2>9. \A c \in Cameras : picture'[c] >= picture[c]
    <3> SUFFICES ASSUME NEW c \in Cameras PROVE picture'[c] >= picture[c]
      OBVIOUS
    <3>1. /\ picture[c] \in Nat /\ frames[c] \in Nat /\ picture[c] <= frames[c]
          /\ c \notin Shown => picture[c] = 0
      BY <1>1 DEF Ordered, Numbers
    <3> QED BY <1>4, <3>1
  <2> QED BY <2>2, <2>5, <2>6, <2>8, <2>9 DEF IInv
<1> QED BY <1>3, <1>4 DEF compose, Composes

LEMMA ReportHolds ==
    ASSUME HeadlessAssumption, IInv, Report \/ Deadline
    PROVE  IInv'
<1>1. /\ pipeline' \in {"loop", "stopping"}
      /\ UNCHANGED <<started, captureVars, latest, frames, received, picture, drained, expired>>
      /\ take \/ UNCHANGED <<metrics, reported>>
  BY DEF Report, Deadline
<1>2. TypeOK' /\ Ordered'
  BY <1>1, FramesKept DEF IInv, TypeOK, captureVars
<1>3. /\ metrics' \in Counts /\ reported' \in Counts
      /\ Captured' = Captured /\ Overwritten' = Overwritten /\ Composed' = Composed
  BY <1>1, TakeKeepsSums DEF IInv, Accounts, Captured, Overwritten, Composed
<1>4. Accounts'
  BY <1>1, <1>3 DEF IInv, Accounts, Owed, captureVars
<1>5. Pictures'
  BY <1>1, <1>3 DEF IInv, Pictures
<1> QED BY <1>2, <1>4, <1>5 DEF IInv

-----------------------------------------------------------------------------
(* The theorems.                                                           *)

LEMMA NextHolds ==
    ASSUME HeadlessAssumption, IInv, [Next]_vars
    PROVE  IInv'
<1>1. CASE (\E c \in Cameras : StartCamera(c)) \/ RunPipeline \/ Stop \/ Expire
  BY <1>1, StartHolds
<1>2. CASE \E c \in Cameras : Submit(c)
  BY <1>2, SubmitHolds
<1>3. CASE \E c \in Cameras : Callback(c)
  BY <1>3, CallbackHolds
<1>4. CASE wait_and_drain
  BY <1>4, DrainHolds
<1>5. CASE compose
  BY <1>5, ComposeHolds
<1>6. CASE Report \/ Deadline
  BY <1>6, ReportHolds
<1>7. CASE UNCHANGED vars
  <2>1. TypeOK' /\ Accounts' /\ Composed' = Composed /\ Ordered'
    BY <1>7, CountsKept, FramesKept DEF IInv, TypeOK, vars, captureVars
  <2>2. Pictures'
    BY <1>7, <2>1 DEF IInv, Pictures, vars
  <2> QED BY <2>1, <2>2 DEF IInv
<1> QED BY <1>1, <1>2, <1>3, <1>4, <1>5, <1>6, <1>7 DEF Next, PipelineStep, Done

THEOREM HeadlessInvariant == ASSUME HeadlessAssumption PROVE Spec => []IInv
<1>1. Init => IInv
  BY InitHolds
<1>2. IInv /\ [Next]_vars => IInv'
  BY NextHolds
<1> QED BY <1>1, <1>2, PTL DEF Spec

\* However callbacks, drains and reports interleave, every captured frame is in one
\* of the numbers, and there are no more pictures than drained frames
\* (LatestFrames::submit, wait_and_drain, Metrics::take).
THEOREM ReportedNumbersAreTrue == ASSUME HeadlessAssumption PROVE Spec => []NumbersAreTrue
<1>1. IInv => NumbersAreTrue
  <2> SUFFICES ASSUME IInv PROVE NumbersAreTrue
    OBVIOUS
  <2>1. CountsAddUp
    <3> SUFFICES ASSUME lock = None PROVE Captured = Overwritten + drained + Cardinality(Filled(latest))
      BY DEF CountsAddUp, Captured, Overwritten
    <3>1. Owed = 0
      BY DEF HeadlessAssumption, IInv, TypeOK, Owed
    <3>2. Captured \in Nat
      BY CountsAreNumbers DEF IInv, Accounts
    <3> QED BY <3>1, <3>2 DEF IInv, Accounts
  <2>2. PicturesNeedFrames
    BY DEF IInv, Pictures, Composed, PicturesNeedFrames
  <2> QED BY <2>1, <2>2 DEF IInv, NumbersAreTrue
<1> QED BY <1>1, HeadlessInvariant, PTL

\* A camera's frame in the picture is never replaced by an older one (wait_and_drain,
\* compose).
THEOREM NoPictureGoesBack == ASSUME HeadlessAssumption PROVE Spec => PicturesGoForward
<1>1. IInv /\ [Next]_vars => [\A c \in Cameras : picture'[c] >= picture[c]]_vars
  <2> SUFFICES ASSUME IInv, Next PROVE \A c \in Cameras : picture'[c] >= picture[c]
    OBVIOUS
  <2>1. CASE compose
    BY <2>1, ComposeHolds
  <2>2. CASE picture' = picture
    BY <2>2 DEF IInv, TypeOK, Numbers
  <2> QED BY <2>1, <2>2 DEF Next, StartCamera, Submit, Callback, record_overwrite, record_capture,
          RunPipeline, PipelineStep, wait_and_drain, Report, Deadline, Stop, Expire, Done, vars
<1> QED BY <1>1, HeadlessInvariant, PTL DEF Spec, PicturesGoForward
=============================================================================
