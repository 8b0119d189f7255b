------------------------- MODULE StudioCaptures_proofs -----------------------
(***************************************************************************)
(* Theorems of the studio: of StudioCaptures, for any screens, cameras and *)
(* bounds, and of StudioParts, for any captures, colours, layouts, places  *)
(* of the pointer and bounds.                                              *)
(*                                                                         *)
(* CapturesOwned is inductive once the generations are brought in: a start *)
(* has a generation of its own, below the next one and not above the one   *)
(* its camera waits for, and a start that succeeded knows the capturer it  *)
(* built.                                                                  *)
(*                                                                         *)
(* SceneIsKept is inductive once the list, the pictures and the file are   *)
(* described: ids are distinct and below the next one, also those that     *)
(* pictures and gestures still refer to, a colour is kept for each colour  *)
(* source in use and no other, and the file is one that a start accepts    *)
(* and restores.  DragsKeepTheRest follows from that for the list; for the *)
(* canvas it needs what a gesture knows of the element it began on, and    *)
(* that boxes are a whole number of what is drawn of them.                 *)
(***************************************************************************)
EXTENDS StudioCaptures, StudioParts, Integers, FiniteSetTheorems, WellFoundedInduction,
        SequenceTheorems, TLAPS

AnyCapturer == [source : Sources, generation : Nat, state : CapturerStates]

\* Elements that were not added yet show nothing.
FreshElements == \A e \in Elements : e >= nextId => scene[e] = NoSource

\* The generations of starts.
Generations ==
    /\ nextGen > 0
    /\ \A st \in starts :
          /\ 0 < st.generation /\ st.generation < nextGen
          /\ pending[st.source] # 0 => st.generation <= pending[st.source]
    /\ \A st1, st2 \in starts : st1.generation = st2.generation => st1 = st2

\* A start that succeeded has built the capturer that it names.
StartsBuild ==
    \A st \in starts :
        IF st.result = "ok"
        THEN /\ st.capturer \in 1..Len(capturers)
             /\ capturers[st.capturer].source = st.source
             /\ capturers[st.capturer].generation = st.generation
        ELSE st.capturer = 0

\* Only screen captures report their end.
ErrorsOfScreens == \A k \in 1..Len(errors) : capturers[errors[k]].source \in Screens

IInv ==
    CapturesOwned /\ FreshElements /\ Generations /\ StartsBuild /\ ErrorsOfScreens

-----------------------------------------------------------------------------
(* Lemmas on lists of capturers.                                           *)

\* ds continues cs: the same capturers, of which some ended, and new ones.
Continues(cs, ds) ==
    /\ cs \in Seq(AnyCapturer) /\ ds \in Seq(AnyCapturer)
    /\ Len(cs) \in Nat /\ Len(ds) \in Nat /\ Len(cs) <= Len(ds)
    /\ \A i \in 1..Len(cs) :
          /\ ds[i].source = cs[i].source /\ ds[i].generation = cs[i].generation
          /\ ds[i].state = "running" => cs[i].state = "running"

LEMMA ContinuesSelf ==
    ASSUME NEW cs \in Seq(AnyCapturer)
    PROVE  Continues(cs, cs)
BY DEF Continues

LEMMA CapturerType ==
    ASSUME NEW s \in Sources, NEW g \in Nat
    PROVE  /\ Capturer(s, g) \in AnyCapturer
           /\ Capturer(s, g).source = s /\ Capturer(s, g).generation = g
BY DEF Capturer, AnyCapturer, CapturerStates

\* build_capturer adds one capturer at the end.
LEMMA BuiltContinues ==
    ASSUME NEW cs \in Seq(AnyCapturer), NEW s \in Sources, NEW g \in Nat
    PROVE  /\ Continues(cs, Append(cs, Capturer(s, g)))
           /\ Len(Append(cs, Capturer(s, g))) = Len(cs) + 1
           /\ Append(cs, Capturer(s, g))[Len(cs) + 1].source = s
           /\ Append(cs, Capturer(s, g))[Len(cs) + 1].generation = g
<1> DEFINE c == Capturer(s, g)
<1>1. c \in AnyCapturer /\ c.source = s /\ c.generation = g
  BY CapturerType
<1> HIDE DEF c
<1>2. /\ Append(cs, c) \in Seq(AnyCapturer) /\ Len(Append(cs, c)) = Len(cs) + 1
      /\ Len(cs) \in Nat
      /\ \A i \in 1..Len(cs) : Append(cs, c)[i] = cs[i]
      /\ Append(cs, c)[Len(cs) + 1] = c
  BY <1>1
<1>3. Continues(cs, Append(cs, c))
  BY <1>2 DEF Continues
<1> QED
  BY <1>1, <1>2, <1>3 DEF c

\* A capturer that ends, by stop(), by being released or by itself.
LEMMA EndedContinues ==
    ASSUME NEW cs \in Seq(AnyCapturer), NEW i \in 1..Len(cs),
           NEW st \in CapturerStates \ {"running"}
    PROVE  /\ Continues(cs, [cs EXCEPT ![i].state = st])
           /\ Len([cs EXCEPT ![i].state = st]) = Len(cs)
           /\ [cs EXCEPT ![i].state = st][i].state # "running"
<1> DEFINE ds == [cs EXCEPT ![i].state = st]
<1>1. Len(cs) \in Nat /\ \A j \in 1..Len(cs) : cs[j] \in AnyCapturer
  OBVIOUS
<1>2. [cs[i] EXCEPT !.state = st] \in AnyCapturer
  BY <1>1 DEF AnyCapturer
<1>3. ds \in Seq(AnyCapturer) /\ Len(ds) = Len(cs)
  BY <1>2
<1>4. \A j \in 1..Len(cs) : ds[j] = IF j = i THEN [cs[i] EXCEPT !.state = st] ELSE cs[j]
  OBVIOUS
<1>5. \A j \in 1..Len(cs) :
          /\ ds[j].source = cs[j].source /\ ds[j].generation = cs[j].generation
          /\ ds[j].state = "running" => cs[j].state = "running"
  BY <1>1, <1>4 DEF AnyCapturer
<1>6. ds[i].state # "running"
  BY <1>1, <1>4 DEF AnyCapturer
<1> HIDE DEF ds
<1>7. Continues(cs, ds)
  BY <1>1, <1>3, <1>5 DEF Continues
<1> QED
  BY <1>3, <1>6, <1>7 DEF ds

LEMMA StoppedContinues ==
    ASSUME NEW cs \in Seq(AnyCapturer), NEW i \in 0..Len(cs)
    PROVE  /\ Continues(cs, Stopped(cs, i)) /\ Len(Stopped(cs, i)) = Len(cs)
           /\ i # 0 => Stopped(cs, i)[i].state # "running"
<1>1. CASE i = 0 \/ cs[i].state # "running"
  BY <1>1, ContinuesSelf DEF Stopped
<1>2. CASE i # 0 /\ cs[i].state = "running"
  <2>1. i \in 1..Len(cs) /\ "stopped" \in CapturerStates \ {"running"}
    BY <1>2 DEF CapturerStates
  <2>2. Stopped(cs, i) = [cs EXCEPT ![i].state = "stopped"]
    BY <1>2 DEF Stopped
  <2>3. /\ Continues(cs, [cs EXCEPT ![i].state = "stopped"])
        /\ Len([cs EXCEPT ![i].state = "stopped"]) = Len(cs)
        /\ [cs EXCEPT ![i].state = "stopped"][i].state # "running"
    BY <2>1, EndedContinues
  <2> QED
    BY <2>2, <2>3, Zenon
<1> QED
  BY <1>1, <1>2

LEMMA ReleasedContinues ==
    ASSUME capturers \in Seq(AnyCapturer), NEW i \in 1..Len(capturers)
    PROVE  /\ Continues(capturers, Released(i)) /\ Len(Released(i)) = Len(capturers)
           /\ Released(i)[i].state # "running"
<1>1. CASE capturers[i].state # "running"
  BY <1>1, ContinuesSelf DEF Released
<1>2. CASE capturers[i].state = "running"
  <2>1. "dropped" \in CapturerStates \ {"running"}
    BY DEF CapturerStates
  <2>2. Released(i) = [capturers EXCEPT ![i].state = "dropped"]
    BY <1>2 DEF Released
  <2>3. /\ Continues(capturers, [capturers EXCEPT ![i].state = "dropped"])
        /\ Len([capturers EXCEPT ![i].state = "dropped"]) = Len(capturers)
        /\ [capturers EXCEPT ![i].state = "dropped"][i].state # "running"
    BY <2>1, EndedContinues
  <2> QED
    BY <2>2, <2>3, Zenon
<1> QED
  BY <1>1, <1>2

-----------------------------------------------------------------------------
(* Lemmas on the steps.                                                    *)

\* What the types say of capturers and captures.
LEMMA CapturersTyped ==
    ASSUME IInv
    PROVE  /\ capturers \in Seq(AnyCapturer) /\ captures \in [Sources -> 0..Len(capturers)]
           /\ Len(capturers) \in Nat /\ starts \subseteq Start
           /\ \A i \in 1..Len(capturers) :
                 /\ capturers[i].source \in Sources /\ capturers[i].generation \in Nat
                 /\ capturers[i].state \in CapturerStates
<1>1. capturers \in Seq(AnyCapturer) /\ captures \in [Sources -> 0..Len(capturers)]
      /\ starts \subseteq Start
  BY DEF IInv, CapturesOwned, TypeOK, AnyCapturer
<1>2. Len(capturers) \in Nat /\ \A i \in 1..Len(capturers) : capturers[i] \in AnyCapturer
  BY <1>1
<1> QED
  BY <1>1, <1>2 DEF AnyCapturer

LEMMA LargerSeq ==
    ASSUME NEW S, NEW T, S \subseteq T, NEW q \in Seq(S)
    PROVE  q \in Seq(T)
OBVIOUS

\* The errors on their way stay errors of screens.
LEMMA ErrorsKept ==
    ASSUME IInv, Continues(capturers, capturers'), UNCHANGED errors
    PROVE  errors' \in Seq(1..Len(capturers')) /\ ErrorsOfScreens'
<1>1. errors \in Seq(1..Len(capturers)) /\ 1..Len(capturers) \subseteq 1..Len(capturers')
  BY DEF IInv, CapturesOwned, TypeOK, Continues
<1>2. errors \in Seq(1..Len(capturers'))
  BY <1>1, LargerSeq
<1>3. \A k \in 1..Len(errors) : errors[k] \in 1..Len(capturers)
  BY <1>1
<1> QED
  BY <1>2, <1>3 DEF IInv, ErrorsOfScreens, Continues

\* A step that gives up captures only after they ended, that builds only what
\* it makes the capture of a screen, and that leaves the starts alone.
LEMMA OwnersKept ==
    ASSUME IInv, Continues(capturers, capturers'), UNCHANGED <<starts, nextGen>>,
           \A s \in Sources :
              \/ captures'[s] = captures[s]
              \/ /\ s \in Screens \/ captures'[s] = 0
                 /\ captures[s] # 0 => capturers'[captures[s]].state # "running",
           \A i \in 1..Len(capturers') :
              i > Len(capturers) => captures'[capturers'[i].source] = i,
           \A c \in Cameras : pending'[c] \in {0, pending[c]}
    PROVE  RunningIsOwned' /\ NewestStartWins' /\ Generations' /\ StartsBuild'
<1> USE DEF IInv, CapturesOwned
<1>0. /\ captures \in [Sources -> 0..Len(capturers)]
      /\ Len(capturers) \in Nat /\ starts \subseteq Start
      /\ \A i \in 1..Len(capturers) : capturers[i].source \in Sources
  BY CapturersTyped
<1>1. RunningIsOwned'
  <2> SUFFICES ASSUME NEW i \in 1..Len(capturers'), capturers'[i].state = "running",
                      i <= Len(capturers)
               PROVE  \/ captures'[capturers'[i].source] = i
                      \/ \E st \in starts : st.capturer = i
    BY <1>0 DEF RunningIsOwned, Continues
  <2>1. /\ i \in 1..Len(capturers) /\ capturers[i].state = "running"
        /\ capturers'[i].source = capturers[i].source
    BY <1>0 DEF Continues
  <2>2. CASE captures[capturers[i].source] = i
    BY <1>0, <2>1, <2>2
  <2>3. CASE \E st \in starts : st.capturer = i
    BY <2>3
  <2> QED
    BY <2>1, <2>2, <2>3 DEF RunningIsOwned
<1>2. NewestStartWins'
  <2> SUFFICES ASSUME NEW st \in starts, captures'[st.source] # 0
               PROVE  st.generation < capturers'[captures'[st.source]].generation
    BY DEF NewestStartWins
  <2>1. st.source \in Cameras /\ st.source \in Sources /\ st.source \notin Screens
    BY <1>0, StudioAssumption DEF Start, Sources
  <2>2. captures'[st.source] = captures[st.source] /\ captures[st.source] \in 1..Len(capturers)
    BY <1>0, <2>1
  <2> QED
    BY <2>2 DEF NewestStartWins, Continues
<1>3. Generations'
  <2>1. \A st \in starts : st.source \in Cameras
    BY <1>0 DEF Start
  <2> QED
    BY <2>1 DEF Generations
<1>4. StartsBuild'
  BY <1>0, SMTT(30) DEF StartsBuild, Continues
<1> QED
  BY <1>1, <1>2, <1>3, <1>4

\* An element that is added uses its source and takes no other's place.
LEMMA AddedElement ==
    ASSUME IInv, nextId <= MaxElements, NEW s \in Sources,
           scene' = [scene EXCEPT ![nextId] = s], nextId' = nextId + 1
    PROVE  /\ scene' \in [Elements -> Sources \cup {NoSource}]
           /\ nextId' \in 1..(MaxElements + 1)
           /\ FreshElements'
           /\ \A t \in Sources : Uses(scene', t) <=> t = s \/ Uses(scene, t)
<1>1. /\ nextId \in Elements /\ nextId \in Nat /\ scene[nextId] = NoSource
      /\ scene \in [Elements -> Sources \cup {NoSource}] /\ Elements \subseteq Nat
  BY StudioAssumption DEF IInv, CapturesOwned, TypeOK, Elements, FreshElements
<1>2. /\ scene' \in [Elements -> Sources \cup {NoSource}]
      /\ \A e \in Elements : scene'[e] = IF e = nextId THEN s ELSE scene[e]
  BY <1>1
<1>3. nextId' \in 1..(MaxElements + 1)
  BY <1>1, StudioAssumption
<1>4. FreshElements'
  BY <1>1, <1>2 DEF IInv, FreshElements
<1>5. \A t \in Sources : Uses(scene', t) <=> t = s \/ Uses(scene, t)
  BY <1>1, <1>2, StudioAssumption DEF Uses
<1> QED
  BY <1>2, <1>3, <1>4, <1>5

-----------------------------------------------------------------------------
(* One lemma per action.                                                   *)

LEMMA AddScreenKeeps ==
    ASSUME IInv, NEW s \in Screens, AddScreen(s)
    PROVE  IInv'
<1> USE DEF IInv, CapturesOwned
<1>0. s \in Sources /\ s \notin Cameras /\ Cameras \subseteq Sources
  BY StudioAssumption DEF Sources
<1>1. /\ Continues(capturers, capturers')
      /\ captures' \in [Sources -> 0..Len(capturers')]
      /\ \A t \in Sources : captures'[t] = captures[t] \/ (t = s /\ captures[s] = 0)
      /\ \A i \in 1..Len(capturers') : i > Len(capturers) => captures'[capturers'[i].source] = i
  <2>1. CASE UNCHANGED <<captures, capturers>>
    BY <2>1, CapturersTyped, ContinuesSelf
  <2>2. CASE /\ captures[s] = 0
             /\ Build(s, 1)
             /\ captures' = [captures EXCEPT ![s] = Len(capturers')]
    <3>1. /\ Continues(capturers, capturers') /\ Len(capturers') = Len(capturers) + 1
          /\ capturers'[Len(capturers')].source = s
      BY <2>2, CapturersTyped, BuiltContinues, <1>0 DEF Build
    <3> QED
      BY <1>0, <2>2, <3>1, CapturersTyped
  <2> QED
    BY <2>1, <2>2 DEF AddScreen
<1>2. /\ nextId <= MaxElements
      /\ scene' = [scene EXCEPT ![nextId] = s] /\ nextId' = nextId + 1
      /\ UNCHANGED <<pending, failed, nextGen, starts, errors>>
  BY DEF AddScreen
<1>3. /\ scene' \in [Elements -> Sources \cup {NoSource}]
      /\ nextId' \in 1..(MaxElements + 1)
      /\ FreshElements'
      /\ \A t \in Sources : Uses(scene', t) <=> t = s \/ Uses(scene, t)
  BY <1>0, <1>2, AddedElement
<1>4. errors' \in Seq(1..Len(capturers')) /\ ErrorsOfScreens'
  BY <1>1, <1>2, ErrorsKept
<1>5. TypeOK'
  BY <1>1, <1>2, <1>3, <1>4 DEF TypeOK, Continues, AnyCapturer
<1>6. CapturedIsUsed'
  BY <1>0, <1>1, <1>3 DEF CapturedIsUsed
<1>7. PendingIsStarting'
  BY <1>0, <1>1, <1>2, <1>3 DEF PendingIsStarting
<1>8. \A c \in Cameras : pending'[c] \in {0, pending[c]}
  BY <1>2
<1>9. RunningIsOwned' /\ NewestStartWins' /\ Generations' /\ StartsBuild'
  BY <1>0, <1>1, <1>2, <1>8, OwnersKept
<1> QED
  BY <1>3, <1>4, <1>5, <1>6, <1>7, <1>9

\* The last element of a source goes: what is known of the source goes with it.
LEMMA GivenUp ==
    ASSUME IInv, NEW s \in Sources, Forget(s)
    PROVE  /\ pending' \in [Cameras -> Nat] /\ failed' \subseteq Cameras
           /\ failed' \subseteq failed
           /\ \A c \in Cameras : pending'[c] = IF c = s THEN 0 ELSE pending[c]
BY DEF IInv, CapturesOwned, TypeOK, Forget

LEMMA ReplaceSelectedKeeps ==
    ASSUME IInv, NEW e \in Elements, NEW s \in Screens, ReplaceSelected(e, s)
    PROVE  IInv'
<1> USE DEF IInv, CapturesOwned
<1> DEFINE previous == scene[e]
           built == IF captures[s] # 0 THEN capturers ELSE Append(capturers, Capturer(s, 1))
           added == IF captures[s] # 0 THEN captures ELSE [captures EXCEPT ![s] = Len(built)]
           last == ~Uses(scene', previous)
<1>0. /\ s \in Sources /\ s \notin Cameras /\ Cameras \subseteq Sources
      /\ scene \in [Elements -> Sources \cup {NoSource}]
      /\ previous \in Sources /\ previous # s /\ NoSource \notin Sources
  BY StudioAssumption DEF Sources, ReplaceSelected, TypeOK
<1>1. /\ scene' = [scene EXCEPT ![e] = s]
      /\ UNCHANGED <<nextId, nextGen, starts, errors>>
      /\ IF last
         THEN /\ Forget(previous)
              /\ captures' = [added EXCEPT ![previous] = 0]
              /\ capturers' = Stopped(built, captures[previous])
         ELSE captures' = added /\ capturers' = built /\ UNCHANGED <<pending, failed>>
  BY DEF ReplaceSelected
<1>2. /\ Continues(capturers, built) /\ built \in Seq(AnyCapturer)
      /\ added \in [Sources -> 0..Len(built)]
      /\ \A t \in Sources : t # s => added[t] = captures[t]
      /\ captures[s] # 0 => added[s] = captures[s]
      /\ \A i \in 1..Len(built) : i > Len(capturers) => built[i].source = s /\ added[s] = i
  <2>1. CASE captures[s] # 0
    BY <2>1, CapturersTyped, ContinuesSelf
  <2>2. CASE captures[s] = 0
    <3>1. /\ Continues(capturers, built) /\ Len(built) = Len(capturers) + 1
          /\ built[Len(built)].source = s
      BY <2>2, CapturersTyped, BuiltContinues, <1>0
    <3>2. added = [captures EXCEPT ![s] = Len(built)]
      BY <2>2
    <3> HIDE DEF built, added
    <3> QED
      BY <1>0, <2>2, <3>1, <3>2, CapturersTyped DEF Continues
  <2> QED
    BY <2>1, <2>2
<1> HIDE DEF built, added
<1>3. /\ Continues(capturers, capturers') /\ Len(capturers') = Len(built)
      /\ \A i \in 1..Len(built) : capturers'[i].source = built[i].source
      /\ last /\ captures[previous] # 0 => capturers'[captures[previous]].state # "running"
  <2>1. CASE ~last
    BY <1>1, <1>2, <2>1 DEF Continues
  <2>2. CASE last
    <3>1. captures[previous] \in 0..Len(built)
      BY <1>0, <1>2, CapturersTyped DEF Continues
    <3>2. /\ Continues(built, capturers') /\ Len(capturers') = Len(built)
          /\ captures[previous] # 0 => capturers'[captures[previous]].state # "running"
      BY <1>1, <1>2, <2>2, <3>1, StoppedContinues
    <3> QED
      BY <1>2, <2>2, <3>2, SMTT(30) DEF Continues
  <2> QED
    BY <2>1, <2>2
<1>4. /\ captures' \in [Sources -> 0..Len(capturers')]
      /\ \A t \in Sources : t \notin {s, previous} => captures'[t] = captures[t]
      /\ captures'[s] = added[s]
      /\ captures'[previous] = IF last THEN 0 ELSE captures[previous]
  <2>1. CASE ~last
    BY <1>0, <1>1, <1>2, <1>3, <2>1
  <2>2. CASE last
    <3>1. captures' = [added EXCEPT ![previous] = 0] /\ added \in [Sources -> 0..Len(capturers')]
      BY <1>1, <1>2, <1>3, <2>2
    <3>2. 0 \in 0..Len(capturers')
      BY <1>3 DEF Continues
    <3> QED
      BY <1>0, <1>2, <2>2, <3>1, <3>2
  <2> QED
    BY <2>1, <2>2
<1>5. /\ pending' \in [Cameras -> Nat] /\ failed' \subseteq Cameras /\ failed' \subseteq failed
      /\ \A c \in Cameras : pending'[c] = IF c = previous /\ last THEN 0 ELSE pending[c]
  <2>1. CASE ~last
    BY <1>1, <2>1 DEF TypeOK
  <2>2. CASE last
    BY <1>0, <1>1, <2>2, GivenUp
  <2> QED
    BY <2>1, <2>2
<1>6. /\ scene' \in [Elements -> Sources \cup {NoSource}]
      /\ \A t \in Sources : t # previous /\ Uses(scene, t) => Uses(scene', t)
      /\ Uses(scene', s)
      /\ FreshElements'
  BY <1>0, <1>1 DEF Uses, FreshElements
<1> HIDE DEF last
<1>7. errors' \in Seq(1..Len(capturers')) /\ ErrorsOfScreens'
  BY <1>1, <1>3, ErrorsKept
<1>8. TypeOK'
  BY <1>1, <1>3, <1>4, <1>5, <1>6, <1>7 DEF TypeOK, Continues, AnyCapturer
<1>9. CapturedIsUsed'
  BY <1>0, <1>4, <1>6 DEF CapturedIsUsed, last
<1>10. PendingIsStarting'
  <2> SUFFICES ASSUME NEW c \in Cameras, pending'[c] # 0
               PROVE  /\ Uses(scene', c) /\ captures'[c] = 0 /\ c \notin failed'
                      /\ \E st \in starts : st.source = c /\ st.generation = pending'[c]
    BY <1>1 DEF PendingIsStarting
  <2>1. pending'[c] = pending[c] /\ (c = previous => ~last) /\ c # s /\ c \in Sources
    BY <1>0, <1>5
  <2> QED
    BY <1>4, <1>5, <1>6, <2>1 DEF PendingIsStarting, last
<1>11. RunningIsOwned' /\ NewestStartWins' /\ Generations' /\ StartsBuild'
  <2>1. \A t \in Sources :
           \/ captures'[t] = captures[t]
           \/ /\ t \in Screens \/ captures'[t] = 0
              /\ captures[t] # 0 => capturers'[captures[t]].state # "running"
    BY <1>0, <1>2, <1>3, <1>4
  <2>2. \A i \in 1..Len(capturers') : i > Len(capturers) => captures'[capturers'[i].source] = i
    BY <1>2, <1>3, <1>4
  <2>3. \A c \in Cameras : pending'[c] \in {0, pending[c]}
    BY <1>5
  <2> QED
    BY <1>1, <1>3, <2>1, <2>2, <2>3, OwnersKept
<1> QED
  BY <1>6, <1>7, <1>8, <1>9, <1>10, <1>11

LEMMA DeleteSelectedKeeps ==
    ASSUME IInv, NEW e \in Elements, DeleteSelected(e)
    PROVE  IInv'
<1> USE DEF IInv, CapturesOwned
<1> DEFINE source == scene[e]
           last == ~Uses(scene', source)
<1>0. /\ scene \in [Elements -> Sources \cup {NoSource}] /\ Cameras \subseteq Sources
      /\ source \in Sources /\ NoSource \notin Sources
  BY StudioAssumption DEF Sources, DeleteSelected, TypeOK
<1>1. /\ scene' = [scene EXCEPT ![e] = NoSource]
      /\ UNCHANGED <<nextId, nextGen, starts, errors>>
      /\ IF last
         THEN /\ Forget(source)
              /\ captures' = [captures EXCEPT ![source] = 0]
              /\ capturers' = Stopped(capturers, captures[source])
         ELSE UNCHANGED <<captures, capturers, pending, failed>>
  BY DEF DeleteSelected
<1>2. /\ Continues(capturers, capturers') /\ Len(capturers') = Len(capturers)
      /\ last /\ captures[source] # 0 => capturers'[captures[source]].state # "running"
  <2>1. CASE ~last
    BY <1>1, <2>1, CapturersTyped, ContinuesSelf
  <2>2. CASE last
    BY <1>0, <1>1, <2>2, CapturersTyped, StoppedContinues
  <2> QED
    BY <2>1, <2>2
<1>3. /\ captures' \in [Sources -> 0..Len(capturers')]
      /\ \A t \in Sources : captures'[t] = IF t = source /\ last THEN 0 ELSE captures[t]
  BY <1>0, <1>1, <1>2, CapturersTyped, SMTT(30)
<1>4. /\ pending' \in [Cameras -> Nat] /\ failed' \subseteq Cameras /\ failed' \subseteq failed
      /\ \A c \in Cameras : pending'[c] = IF c = source /\ last THEN 0 ELSE pending[c]
  <2>1. CASE ~last
    BY <1>1, <2>1 DEF TypeOK
  <2>2. CASE last
    BY <1>0, <1>1, <2>2, GivenUp
  <2> QED
    BY <2>1, <2>2
<1>5. /\ scene' \in [Elements -> Sources \cup {NoSource}]
      /\ \A t \in Sources : t # source /\ Uses(scene, t) => Uses(scene', t)
      /\ FreshElements'
  BY <1>0, <1>1 DEF Uses, FreshElements
<1> HIDE DEF last
<1>6. errors' \in Seq(1..Len(capturers')) /\ ErrorsOfScreens'
  BY <1>1, <1>2, ErrorsKept
<1>7. TypeOK'
  BY <1>1, <1>2, <1>3, <1>4, <1>5, <1>6 DEF TypeOK, Continues, AnyCapturer
<1>8. CapturedIsUsed'
  BY <1>0, <1>3, <1>5 DEF CapturedIsUsed, last
<1>9. PendingIsStarting'
  BY <1>0, <1>1, <1>3, <1>4, <1>5 DEF PendingIsStarting, last
<1>10. RunningIsOwned' /\ NewestStartWins' /\ Generations' /\ StartsBuild'
  <2>1. \A t \in Sources :
           \/ captures'[t] = captures[t]
           \/ /\ t \in Screens \/ captures'[t] = 0
              /\ captures[t] # 0 => capturers'[captures[t]].state # "running"
    BY <1>0, <1>2, <1>3
  <2>2. \A i \in 1..Len(capturers') : i > Len(capturers) => captures'[capturers'[i].source] = i
    BY <1>2, CapturersTyped
  <2>3. \A c \in Cameras : pending'[c] \in {0, pending[c]}
    BY <1>4
  <2> QED
    BY <1>1, <1>2, <2>1, <2>2, <2>3, OwnersKept
<1> QED
  BY <1>5, <1>6, <1>7, <1>8, <1>9, <1>10

\* A new start has the newest generation, and its camera waits for it.
LEMMA AddCameraKeeps ==
    ASSUME IInv, NEW c \in Cameras, AddCamera(c)
    PROVE  IInv'
<1> USE DEF IInv, CapturesOwned
<1> DEFINE new == [source |-> c, generation |-> nextGen, result |-> "none", capturer |-> 0]
<1>0. c \in Sources /\ Cameras \subseteq Sources /\ c \in Cameras
  BY DEF Sources
<1>1. /\ scene' = [scene EXCEPT ![nextId] = c] /\ nextId' = nextId + 1
      /\ nextId <= MaxElements /\ UNCHANGED <<captures, capturers, errors>>
  BY DEF AddCamera
<1>2. /\ scene' \in [Elements -> Sources \cup {NoSource}]
      /\ nextId' \in 1..(MaxElements + 1)
      /\ FreshElements'
      /\ \A t \in Sources : Uses(scene', t) <=> t = c \/ Uses(scene, t)
  BY <1>0, <1>1, AddedElement
<1>3. ErrorsOfScreens' /\ CapturedIsUsed'
  BY <1>1, <1>2 DEF ErrorsOfScreens, CapturedIsUsed
<1>4. CASE UNCHANGED <<pending, failed, nextGen, starts>>
  <2>1. TypeOK'
    BY <1>1, <1>2, <1>4 DEF TypeOK
  <2>2. RunningIsOwned' /\ NewestStartWins' /\ Generations' /\ StartsBuild'
    BY <1>1, <1>4 DEF RunningIsOwned, NewestStartWins, Generations, StartsBuild
  <2>3. PendingIsStarting'
    BY <1>0, <1>1, <1>2, <1>4 DEF PendingIsStarting
  <2> QED
    BY <1>2, <1>3, <2>1, <2>2, <2>3
<1>5. CASE /\ captures[c] = 0 /\ pending[c] = 0
           /\ pending' = [pending EXCEPT ![c] = nextGen]
           /\ nextGen' = nextGen + 1
           /\ failed' = failed \ {c}
           /\ starts' = starts \cup {new}
  <2>1. /\ new \in Start /\ new.source = c /\ new.generation = nextGen
        /\ new.result = "none" /\ new.capturer = 0 /\ nextGen \in Nat
        /\ starts \subseteq Start /\ \A st \in starts : st.generation \in Nat /\ st.source \in Cameras
    BY DEF TypeOK, Start
  <2> HIDE DEF new
  <2>2. /\ pending' \in [Cameras -> Nat] /\ pending \in [Cameras -> Nat]
        /\ \A d \in Cameras : pending'[d] = IF d = c THEN nextGen ELSE pending[d]
    BY <1>5, <2>1 DEF TypeOK
  <2>3. TypeOK'
    BY <1>1, <1>2, <1>5, <2>1, <2>2 DEF TypeOK
  <2>4. RunningIsOwned' /\ StartsBuild'
    BY <1>1, <1>5, <2>1 DEF RunningIsOwned, StartsBuild
  <2>5. NewestStartWins'
    BY <1>1, <1>5, <2>1 DEF NewestStartWins
  <2>6. Generations'
    <3>1. nextGen' > 0
      BY <1>5, <2>1
    <3>2. \A st \in starts' : /\ 0 < st.generation /\ st.generation < nextGen'
                              /\ pending'[st.source] # 0 => st.generation <= pending'[st.source]
      BY <1>5, <2>1, <2>2 DEF Generations
    <3>3. \A st1, st2 \in starts' : st1.generation = st2.generation => st1 = st2
      BY <1>5, <2>1 DEF Generations
    <3> QED
      BY <3>1, <3>2, <3>3 DEF Generations
  <2>7. PendingIsStarting'
    <3> SUFFICES ASSUME NEW d \in Cameras, pending'[d] # 0
                 PROVE  /\ Uses(scene', d) /\ captures[d] = 0 /\ d \notin failed'
                        /\ \E st \in starts' : st.source = d /\ st.generation = pending'[d]
      BY <1>1 DEF PendingIsStarting
    <3>1. CASE d = c
      BY <1>0, <1>2, <1>5, <2>1, <2>2, <3>1
    <3>2. CASE d # c
      BY <1>0, <1>2, <1>5, <2>2, <3>2 DEF PendingIsStarting
    <3> QED
      BY <3>1, <3>2
  <2> QED
    BY <1>2, <1>3, <2>3, <2>4, <2>5, <2>6, <2>7
<1> QED
  BY <1>4, <1>5 DEF AddCamera

\* A camera that started belongs to its start.
LEMMA CameraTaskKeeps ==
    ASSUME IInv, NEW st \in starts, CameraTask(st)
    PROVE  IInv'
<1> USE DEF IInv, CapturesOwned
<1>1. /\ st.result = "none" /\ UNCHANGED <<viewer, errors>>
      /\ UNCHANGED <<scene, nextId, captures, pending, failed, nextGen>>
  BY DEF CameraTask, viewer
<1>2. /\ st \in Start /\ st.source \in Cameras /\ st.source \in Sources
      /\ st.generation \in Nat /\ st.capturer = 0
  BY <1>1, CapturersTyped DEF Start, Sources, StartsBuild
<1>3. \E new \in Start :
         /\ starts' = (starts \ {st}) \cup {new}
         /\ new.source = st.source /\ new.generation = st.generation
         /\ Continues(capturers, capturers')
         /\ \/ new.result # "ok" /\ new.capturer = 0 /\ UNCHANGED capturers
            \/ /\ new.result = "ok" /\ new.capturer = Len(capturers')
               /\ Len(capturers') = Len(capturers) + 1
               /\ capturers'[Len(capturers')].source = st.source
               /\ capturers'[Len(capturers')].generation = st.generation
  <2>1. CASE /\ Build(st.source, st.generation)
             /\ starts' = (starts \ {st}) \cup
                          {[st EXCEPT !.result = "ok", !.capturer = Len(capturers')]}
    <3>1. /\ Continues(capturers, capturers') /\ Len(capturers') = Len(capturers) + 1
          /\ capturers'[Len(capturers')].source = st.source
          /\ capturers'[Len(capturers')].generation = st.generation
          /\ Len(capturers') \in Nat
      BY <1>2, <2>1, CapturersTyped, BuiltContinues DEF Build, Continues
    <3> DEFINE new == [st EXCEPT !.result = "ok", !.capturer = Len(capturers')]
    <3>2. /\ new \in Start /\ new.source = st.source /\ new.generation = st.generation
          /\ new.result = "ok" /\ new.capturer = Len(capturers')
      BY <1>2, <3>1 DEF Start
    <3>3. starts' = (starts \ {st}) \cup {new}
      BY <2>1
    <3> HIDE DEF new
    <3> QED
      BY <3>1, <3>2, <3>3
  <2>2. CASE /\ starts' = (starts \ {st}) \cup {[st EXCEPT !.result = "err"]}
             /\ UNCHANGED capturers
    <3> DEFINE new == [st EXCEPT !.result = "err"]
    <3>1. /\ new \in Start /\ new.source = st.source /\ new.generation = st.generation
          /\ new.result = "err" /\ new.capturer = 0
      BY <1>2 DEF Start
    <3>2. starts' = (starts \ {st}) \cup {new}
      BY <2>2
    <3>3. Continues(capturers, capturers')
      BY <2>2, CapturersTyped, ContinuesSelf
    <3> HIDE DEF new
    <3> QED
      BY <2>2, <3>1, <3>2, <3>3
  <2> QED
    BY <2>1, <2>2 DEF CameraTask
<1>4. PICK new \in Start :
         /\ starts' = (starts \ {st}) \cup {new}
         /\ new.source = st.source /\ new.generation = st.generation
         /\ Continues(capturers, capturers')
         /\ \/ new.result # "ok" /\ new.capturer = 0 /\ UNCHANGED capturers
            \/ /\ new.result = "ok" /\ new.capturer = Len(capturers')
               /\ Len(capturers') = Len(capturers) + 1
               /\ capturers'[Len(capturers')].source = st.source
               /\ capturers'[Len(capturers')].generation = st.generation
  BY <1>3
<1>5. errors' \in Seq(1..Len(capturers')) /\ ErrorsOfScreens'
  BY <1>1, <1>4, ErrorsKept
<1>6. TypeOK'
  <2>1. captures \in [Sources -> 0..Len(capturers')]
    BY <1>4, CapturersTyped DEF Continues
  <2>2. starts' \subseteq Start /\ capturers' \in Seq(AnyCapturer)
    BY <1>4, CapturersTyped DEF Continues
  <2> QED
    BY <1>1, <1>5, <2>1, <2>2 DEF TypeOK, AnyCapturer
<1>7. CapturedIsUsed' /\ FreshElements'
  BY <1>1 DEF CapturedIsUsed, FreshElements, Uses
<1>8. RunningIsOwned'
  <2> SUFFICES ASSUME NEW i \in 1..Len(capturers'), capturers'[i].state = "running"
               PROVE  \/ captures[capturers'[i].source] = i
                      \/ \E t \in starts' : t.capturer = i
    BY <1>1 DEF RunningIsOwned
  <2>1. CASE i <= Len(capturers)
    <3>1. /\ i \in 1..Len(capturers) /\ capturers[i].state = "running"
          /\ capturers'[i].source = capturers[i].source
      BY <1>4, <2>1 DEF Continues
    <3>2. \A t \in starts : t.capturer = i => t \in starts'
      BY <1>2, <1>4, <3>1
    <3> QED
      BY <3>1, <3>2 DEF RunningIsOwned
  <2>2. CASE i > Len(capturers)
    BY <1>4, <2>2, CapturersTyped
  <2> QED
    BY <2>1, <2>2, CapturersTyped
<1>9. PendingIsStarting'
  BY <1>1, <1>4 DEF PendingIsStarting
<1>10. NewestStartWins'
  <2>1. \A s \in Sources : captures[s] # 0 =>
           capturers'[captures[s]].generation = capturers[captures[s]].generation
    BY <1>4, CapturersTyped DEF Continues
  <2>2. \A t \in starts : t.source \in Sources
    BY CapturersTyped DEF Start, Sources
  <2> QED
    BY <1>1, <1>4, <2>1, <2>2 DEF NewestStartWins
<1>11. Generations'
  BY <1>1, <1>4 DEF Generations
<1>12. StartsBuild'
  <2>1. \A t \in starts : t.result = "ok" =>
           /\ t.capturer \in 1..Len(capturers')
           /\ capturers'[t.capturer].source = t.source
           /\ capturers'[t.capturer].generation = t.generation
    BY <1>4, CapturersTyped, SMTT(30) DEF StartsBuild, Continues
  <2>2. new.result = "ok" => new.capturer \in 1..Len(capturers')
    BY <1>4, CapturersTyped
  <2> QED
    BY <1>4, <2>1, <2>2 DEF StartsBuild
<1> QED
  BY <1>5, <1>6, <1>7, <1>8, <1>9, <1>10, <1>11, <1>12

\* The start that its camera waits for is the newest of its camera; any other
\* start is looked at only to stop what it built.
LEMMA CameraStartedKeeps ==
    ASSUME IInv, NEW st \in starts, CameraStarted(st)
    PROVE  IInv'
<1> USE DEF IInv, CapturesOwned
<1> DEFINE c == st.source
<1>1. /\ st.result # "none" /\ starts' = starts \ {st}
      /\ UNCHANGED <<scene, nextId, nextGen, errors>>
  BY DEF CameraStarted
<1>2. /\ c \in Cameras /\ c \in Sources /\ st.generation \in Nat /\ Cameras \subseteq Sources
      /\ st.result \in {"ok", "err"} /\ c \notin Screens /\ st.capturer \in 0..Len(capturers)
      /\ \A t \in starts : t.source \in Cameras /\ t.source \in Sources /\ t.generation \in Nat
  <2>1. \A t \in starts : t \in Start
    BY CapturersTyped
  <2>2. st.capturer \in 0..Len(capturers)
    BY CapturersTyped DEF StartsBuild
  <2> QED
    BY <1>1, <2>1, <2>2, StudioAssumption DEF Start, Sources
<1>3. FreshElements' /\ starts' \subseteq Start
  BY <1>1, CapturersTyped DEF FreshElements
<1> HIDE DEF c
<1>4. CASE ShouldFinish(st)
  <2>1. /\ pending' = [pending EXCEPT ![c] = 0] /\ UNCHANGED capturers
        /\ pending[c] = st.generation /\ Uses(scene, c)
    BY <1>4 DEF CameraStarted, ShouldFinish, c
  <2>2. /\ pending' \in [Cameras -> Nat]
        /\ \A d \in Cameras : pending'[d] = IF d = c THEN 0 ELSE pending[d]
    BY <1>2, <2>1 DEF TypeOK
  <2>3. failed' \subseteq Cameras /\ \A d \in Cameras : d # c => (d \in failed' <=> d \in failed)
    BY <1>2, <1>4 DEF CameraStarted, TypeOK, c
  <2>4. Generations'
    BY <1>1, <1>2, <2>2 DEF Generations
  <2>5. StartsBuild' /\ ErrorsOfScreens'
    BY <1>1, <2>1 DEF StartsBuild, ErrorsOfScreens
  <2>6. st.generation # 0 /\ captures[c] = 0
    BY <1>2, <2>1 DEF PendingIsStarting, Generations
  <2>7. CASE /\ st.result = "ok"
             /\ captures' = [captures EXCEPT ![c] = st.capturer]
    <3>1. /\ st.capturer \in 1..Len(capturers) /\ capturers[st.capturer].source = c
          /\ capturers[st.capturer].generation = st.generation
      BY <2>7 DEF StartsBuild, c
    <3>2. /\ captures' \in [Sources -> 0..Len(capturers)]
          /\ \A s \in Sources : captures'[s] = IF s = c THEN st.capturer ELSE captures[s]
      BY <1>2, <2>7, CapturersTyped
    <3>3. TypeOK'
      BY <1>1, <1>3, <2>1, <2>2, <2>3, <3>2 DEF TypeOK
    <3>4. CapturedIsUsed'
      BY <1>1, <2>1, <3>2 DEF CapturedIsUsed
    <3>5. RunningIsOwned'
      <4> SUFFICES ASSUME NEW i \in 1..Len(capturers), capturers[i].state = "running"
                   PROVE  \/ captures'[capturers[i].source] = i
                          \/ \E t \in starts' : t.capturer = i
        BY <2>1 DEF RunningIsOwned
      <4>1. capturers[i].source \in Sources /\ i # 0
        BY CapturersTyped
      <4>2. CASE captures[capturers[i].source] = i
        BY <2>6, <3>2, <4>1, <4>2
      <4>3. CASE \E t \in starts : t.capturer = i
        BY <1>1, <3>1, <3>2, <4>1, <4>3
      <4> QED
        BY <4>2, <4>3 DEF RunningIsOwned
    <3>6. PendingIsStarting'
      BY <1>1, <1>2, <2>2, <2>3, <3>2 DEF PendingIsStarting, c
    <3>7. NewestStartWins'
      <4> SUFFICES ASSUME NEW t \in starts, t # st, captures'[t.source] # 0
                   PROVE  t.generation < capturers[captures'[t.source]].generation
        BY <1>1, <2>1 DEF NewestStartWins
      <4>1. CASE t.source = c
        BY <1>2, <2>1, <2>6, <3>1, <3>2, <4>1 DEF Generations
      <4>2. CASE t.source # c
        BY <1>2, <3>2, <4>2 DEF NewestStartWins
      <4> QED
        BY <4>1, <4>2
    <3> QED
      BY <1>3, <2>4, <2>5, <3>3, <3>4, <3>5, <3>6, <3>7
  <2>8. CASE st.result = "err" /\ UNCHANGED captures
    <3>1. st.capturer = 0
      BY <2>8 DEF StartsBuild
    <3>2. TypeOK'
      BY <1>1, <1>3, <2>1, <2>2, <2>3, <2>8 DEF TypeOK
    <3>3. CapturedIsUsed' /\ NewestStartWins'
      BY <1>1, <2>1, <2>8 DEF CapturedIsUsed, NewestStartWins
    <3>4. RunningIsOwned'
      BY <1>1, <2>1, <2>8, <3>1 DEF RunningIsOwned
    <3>5. PendingIsStarting'
      BY <1>1, <1>2, <2>2, <2>3, <2>8 DEF PendingIsStarting, c
    <3> QED
      BY <1>3, <2>4, <2>5, <3>2, <3>3, <3>4, <3>5
  <2> QED
    BY <1>4, <2>7, <2>8 DEF CameraStarted, c
<1>5. CASE ~ShouldFinish(st)
  <2>1. /\ capturers' = Stopped(capturers, st.capturer)
        /\ UNCHANGED <<captures, pending, failed>>
    BY <1>5 DEF CameraStarted
  <2>2. /\ Continues(capturers, capturers') /\ Len(capturers') = Len(capturers)
        /\ st.capturer # 0 => capturers'[st.capturer].state # "running"
    BY <1>2, <2>1, StoppedContinues, CapturersTyped
  <2>3. errors' \in Seq(1..Len(capturers')) /\ ErrorsOfScreens'
    BY <1>1, <2>2, ErrorsKept
  <2>4. TypeOK'
    BY <1>1, <1>3, <2>1, <2>2, <2>3 DEF TypeOK, Continues, AnyCapturer
  <2>5. CapturedIsUsed'
    BY <1>1, <2>1 DEF CapturedIsUsed
  <2>6. RunningIsOwned'
    <3> SUFFICES ASSUME NEW i \in 1..Len(capturers), capturers'[i].state = "running"
                 PROVE  \/ captures[capturers[i].source] = i
                        \/ \E t \in starts' : t.capturer = i
      BY <2>1, <2>2 DEF RunningIsOwned, Continues
    <3>1. capturers[i].state = "running" /\ i # st.capturer
      BY <2>2, CapturersTyped DEF Continues
    <3> QED
      BY <1>1, <3>1 DEF RunningIsOwned
  <2>7. PendingIsStarting'
    BY <1>1, <1>5, <2>1 DEF PendingIsStarting, ShouldFinish
  <2>8. NewestStartWins'
    BY <1>1, <1>2, <2>1, <2>2, CapturersTyped, SMTT(30) DEF NewestStartWins, Continues
  <2>9. Generations'
    BY <1>1, <2>1 DEF Generations
  <2>10. StartsBuild'
    BY <1>1, <2>2 DEF StartsBuild, Continues
  <2> QED
    BY <1>3, <2>3, <2>4, <2>5, <2>6, <2>7, <2>8, <2>9, <2>10
<1> QED
  BY <1>4, <1>5

LEMMA ScreenFailsKeeps ==
    ASSUME IInv, NEW i \in 1..Len(capturers), ScreenFails(i)
    PROVE  IInv'
<1> USE DEF IInv, CapturesOwned
<1>1. /\ capturers' = [capturers EXCEPT ![i].state = "dead"] /\ errors' = Append(errors, i)
      /\ capturers[i].source \in Screens
      /\ UNCHANGED <<scene, nextId, captures, pending, failed, nextGen, starts>>
  BY DEF ScreenFails, viewer
<1>2. Continues(capturers, capturers') /\ Len(capturers') = Len(capturers)
  <2>1. "dead" \in CapturerStates \ {"running"}
    BY DEF CapturerStates
  <2> QED
    BY <1>1, <2>1, EndedContinues, CapturersTyped
<1>3. /\ errors' \in Seq(1..Len(capturers'))
      /\ \A k \in 1..Len(errors') : \/ errors'[k] = i
                                    \/ k \in 1..Len(errors) /\ errors'[k] = errors[k]
  BY <1>1, <1>2 DEF TypeOK
<1>4. ErrorsOfScreens'
  <2>0. errors \in Seq(1..Len(capturers))
    BY DEF TypeOK
  <2>1. \A k \in 1..Len(errors) : errors[k] \in 1..Len(capturers)
    BY <2>0
  <2> QED
    BY <1>1, <1>2, <1>3, <2>1, SMTT(30) DEF ErrorsOfScreens, Continues
<1>5. TypeOK'
  BY <1>1, <1>2, <1>3 DEF TypeOK, Continues, AnyCapturer
<1>6. CapturedIsUsed' /\ PendingIsStarting' /\ FreshElements'
  BY <1>1 DEF CapturedIsUsed, PendingIsStarting, FreshElements
<1>7. RunningIsOwned' /\ NewestStartWins' /\ Generations' /\ StartsBuild'
  <2>1. \A c \in Cameras : pending'[c] \in {0, pending[c]}
    BY <1>1
  <2>2. \A j \in 1..Len(capturers') : j > Len(capturers) => captures'[capturers'[j].source] = j
    BY <1>2, CapturersTyped
  <2> QED
    BY <1>1, <1>2, <2>1, <2>2, OwnersKept
<1> QED
  BY <1>4, <1>5, <1>6, <1>7

LEMMA CaptureFailedKeeps ==
    ASSUME IInv, CaptureFailed
    PROVE  IInv'
<1> USE DEF IInv, CapturesOwned
<1> DEFINE s == capturers[Head(errors)].source
           g == capturers[Head(errors)].generation
<1>0. /\ errors \in Seq(1..Len(capturers)) /\ errors # <<>>
      /\ errors' = Tail(errors) /\ UNCHANGED <<scene, nextId, pending, failed, nextGen, starts>>
  BY DEF CaptureFailed, TypeOK
<1>1. /\ Head(errors) \in 1..Len(capturers) /\ Head(errors) = errors[1] /\ 1 \in 1..Len(errors)
      /\ Tail(errors) \in Seq(1..Len(capturers))
      /\ \A k \in 1..Len(Tail(errors)) :
            k + 1 \in 1..Len(errors) /\ Tail(errors)[k] = errors[k + 1]
  BY <1>0
<1>2. s \in Screens /\ s \in Sources /\ s \notin Cameras /\ g \in Nat /\ g + 1 \in Nat
  BY <1>1, CapturersTyped, StudioAssumption DEF ErrorsOfScreens, Sources
<1>3. IF ShouldRestart(s, g)
      THEN \/ /\ capturers' = Append(Released(captures[s]), Capturer(s, g + 1))
              /\ captures' = [captures EXCEPT ![s] = Len(capturers')]
           \/ /\ capturers' = Released(captures[s])
              /\ captures' = [captures EXCEPT ![s] = 0]
      ELSE UNCHANGED <<captures, capturers>>
  BY DEF CaptureFailed
<1> HIDE DEF s, g
<1>4. /\ Continues(capturers, capturers')
      /\ captures' \in [Sources -> 0..Len(capturers')]
      /\ \A t \in Sources : \/ captures'[t] = captures[t]
                            \/ /\ t = s /\ (captures'[s] # 0 => Uses(scene, s))
                               /\ captures[s] # 0 => capturers'[captures[s]].state # "running"
      /\ \A i \in 1..Len(capturers') : i > Len(capturers) => captures'[capturers'[i].source] = i
  <2>1. CASE ~ShouldRestart(s, g)
    BY <1>3, <2>1, CapturersTyped, ContinuesSelf
  <2>2. CASE ShouldRestart(s, g)
    <3> DEFINE released == Released(captures[s])
    <3>1. captures[s] \in 1..Len(capturers) /\ Uses(scene, s)
      BY <1>2, <2>2, CapturersTyped DEF ShouldRestart
    <3>2. /\ Continues(capturers, released) /\ Len(released) = Len(capturers)
          /\ released \in Seq(AnyCapturer) /\ released[captures[s]].state # "running"
      BY <3>1, ReleasedContinues, CapturersTyped DEF Continues
    <3> HIDE DEF released
    <3>3. CASE /\ capturers' = Append(released, Capturer(s, g + 1))
               /\ captures' = [captures EXCEPT ![s] = Len(capturers')]
      <4>1. /\ Continues(released, capturers') /\ Len(capturers') = Len(released) + 1
            /\ capturers'[Len(released) + 1].source = s
        BY <1>2, <3>2, <3>3, BuiltContinues
      <4>2. Continues(capturers, capturers') /\ capturers'[captures[s]].state # "running"
        BY <3>1, <3>2, <4>1 DEF Continues
      <4>3. /\ captures' \in [Sources -> 0..Len(capturers')]
            /\ \A t \in Sources : captures'[t] = IF t = s THEN Len(capturers') ELSE captures[t]
        BY <1>2, <3>2, <3>3, <4>1, CapturersTyped
      <4>4. \A i \in 1..Len(capturers') : i > Len(capturers) => captures'[capturers'[i].source] = i
        BY <1>2, <3>2, <4>1, <4>3, CapturersTyped
      <4> QED
        BY <3>1, <4>2, <4>3, <4>4
    <3>4. CASE /\ capturers' = released
               /\ captures' = [captures EXCEPT ![s] = 0]
      <4>1. /\ captures' \in [Sources -> 0..Len(capturers')]
            /\ \A t \in Sources : captures'[t] = IF t = s THEN 0 ELSE captures[t]
        BY <1>2, <3>2, <3>4, CapturersTyped
      <4> QED
        BY <3>2, <3>4, <4>1, CapturersTyped
    <3> QED
      BY <1>3, <2>2, <3>3, <3>4 DEF released
  <2> QED
    BY <2>1, <2>2
<1>5. errors' \in Seq(1..Len(capturers')) /\ ErrorsOfScreens'
  <2>1. 1..Len(capturers) \subseteq 1..Len(capturers')
    BY <1>4 DEF Continues
  <2>2. errors' \in Seq(1..Len(capturers'))
    BY <1>0, <1>1, <2>1, LargerSeq
  <2>3. \A k \in 1..Len(errors) : errors[k] \in 1..Len(capturers)
    BY <1>0
  <2> QED
    BY <1>0, <1>1, <1>4, <2>2, <2>3, SMTT(30) DEF ErrorsOfScreens, Continues
<1>6. TypeOK'
  BY <1>0, <1>4, <1>5 DEF TypeOK, Continues, AnyCapturer
<1>7. CapturedIsUsed' /\ FreshElements'
  BY <1>0, <1>4 DEF CapturedIsUsed, FreshElements
<1>8. PendingIsStarting'
  <2>1. \A c \in Cameras : c \in Sources /\ captures'[c] = captures[c]
    BY <1>2, <1>4 DEF Sources
  <2> QED
    BY <1>0, <2>1 DEF PendingIsStarting
<1>9. RunningIsOwned' /\ NewestStartWins' /\ Generations' /\ StartsBuild'
  <2>1. \A t \in Sources :
           \/ captures'[t] = captures[t]
           \/ /\ t \in Screens \/ captures'[t] = 0
              /\ captures[t] # 0 => capturers'[captures[t]].state # "running"
    BY <1>2, <1>4
  <2>2. \A c \in Cameras : pending'[c] \in {0, pending[c]}
    BY <1>0
  <2> QED
    BY <1>0, <1>4, <2>1, <2>2, OwnersKept
<1> QED
  BY <1>5, <1>6, <1>7, <1>8, <1>9

-----------------------------------------------------------------------------
(* The theorem.                                                            *)

\* The first scene has one element, or two that show the initial source.
LEMMA FirstScene ==
    ASSUME scene \in FirstScenes,
           nextId = 1 + Cardinality({e \in Elements : scene[e] # NoSource})
    PROVE  /\ scene \in [Elements -> Sources \cup {NoSource}]
           /\ nextId \in 1..(MaxElements + 1) /\ FreshElements
           /\ \E s \in Sources : \A t \in Sources \ {Initial} : Uses(scene, t) => t = s
<1> USE StudioAssumption
<1>0. Initial \in Sources /\ 1 \in Elements /\ 2 \in Elements /\ Elements \subseteq Nat
  BY DEF Sources, Elements
<1>1. CASE scene = [e \in Elements |-> IF e \in {1, 2} THEN Initial ELSE NoSource]
  <2>1. {e \in Elements : scene[e] # NoSource} = {1, 2}
    BY <1>0, <1>1
  <2>2. Cardinality({1, 2}) = 2
    <3>1. {1, 2} = {1} \cup {2} /\ 2 \notin {1}
      OBVIOUS
    <3>2. IsFiniteSet({1}) /\ Cardinality({1}) = 1
      BY FS_Singleton
    <3>3. Cardinality({1} \cup {2}) = Cardinality({1}) + 1
      BY <3>1, <3>2, FS_AddElement, Zenon
    <3> QED
      BY <3>1, <3>2, <3>3
  <2>3. nextId = 3
    BY <2>1, <2>2
  <2> QED
    BY <1>0, <1>1, <2>3 DEF FreshElements, Uses
<1>2. ASSUME NEW s \in Sources, scene = [e \in Elements |-> IF e = 1 THEN s ELSE NoSource]
      PROVE  /\ scene \in [Elements -> Sources \cup {NoSource}]
             /\ nextId \in 1..(MaxElements + 1) /\ FreshElements
             /\ \A t \in Sources \ {Initial} : Uses(scene, t) => t = s
  <2>1. {e \in Elements : scene[e] # NoSource} = {1}
    BY <1>0, <1>2
  <2>2. Cardinality({1}) = 1
    BY FS_Singleton
  <2>3. nextId = 2
    BY <2>1, <2>2
  <2>4. nextId \in 1..(MaxElements + 1)
    BY <2>3
  <2>5. /\ scene \in [Elements -> Sources \cup {NoSource}]
        /\ \A e \in Elements : scene[e] = IF e = 1 THEN s ELSE NoSource
    BY <1>2
  <2>6. FreshElements
    BY <1>0, <2>3, <2>5 DEF FreshElements
  <2>7. \A t \in Sources \ {Initial} : Uses(scene, t) => t = s
    BY <2>5 DEF Uses
  <2> QED
    BY <2>4, <2>5, <2>6, <2>7
<1> QED
  BY <1>1, <1>2 DEF FirstScenes

LEMMA InitKeeps ==
    ASSUME Init
    PROVE  IInv
<1>1. PICK others \in SUBSET {s \in Sources \ {Initial} : Uses(scene, s)} :
          /\ capturers = <<Capturer(Initial, 1)>> \o
                         (IF others = {} THEN <<>>
                          ELSE <<Capturer(CHOOSE s \in others : TRUE, 2)>>)
          /\ captures = [s \in Sources |->
                            IF s = Initial THEN 1 ELSE IF s \in others THEN 2 ELSE 0]
          /\ nextGen = 2 + Cardinality(others)
  BY DEF Init
<1>2. /\ scene \in [Elements -> Sources \cup {NoSource}]
      /\ nextId \in 1..(MaxElements + 1) /\ FreshElements
      /\ \E s \in Sources : \A t \in Sources \ {Initial} : Uses(scene, t) => t = s
  BY FirstScene DEF Init
<1>3. PICK o \in Sources : others \subseteq {o}
  BY <1>2
<1>4. Initial \in Sources /\ Initial \notin others
  BY StudioAssumption DEF Sources
<1>5. /\ nextGen \in Nat /\ nextGen > 0
      /\ pending = [c \in Cameras |-> 0] /\ failed = {} /\ starts = {} /\ errors = <<>>
  <2>1. Cardinality(others) \in Nat
    BY <1>3, FS_Singleton, FS_Subset, FS_CardinalityType
  <2> QED
    BY <1>1, <2>1 DEF Init
<1>6. /\ capturers \in Seq(AnyCapturer)
      /\ Len(capturers) = IF others = {} THEN 1 ELSE 2
      /\ capturers[1].source = Initial
      /\ others # {} => capturers[2].source = o
  <2>1. CASE others = {}
    <3>1. capturers = <<Capturer(Initial, 1)>>
      BY <1>1, <2>1, CapturerType, <1>4
    <3> QED
      BY <1>4, <2>1, <3>1, CapturerType
  <2>2. CASE others # {}
    <3>1. (CHOOSE s \in others : TRUE) = o
      BY <1>3, <2>2
    <3>2. capturers = <<Capturer(Initial, 1)>> \o <<Capturer(o, 2)>>
      BY <1>1, <2>2, <3>1
    <3>3. /\ Capturer(Initial, 1) \in AnyCapturer /\ Capturer(o, 2) \in AnyCapturer
          /\ Capturer(Initial, 1).source = Initial /\ Capturer(o, 2).source = o
      BY <1>4, CapturerType
    <3> QED
      BY <2>2, <3>2, <3>3
  <2> QED
    BY <2>1, <2>2
<1>7. TypeOK
  <2>1. captures \in [Sources -> 0..Len(capturers)]
    BY <1>1, <1>6
  <2> QED
    BY <1>2, <1>5, <1>6, <2>1, SMTT(30) DEF TypeOK, AnyCapturer
<1>8. CapturedIsUsed
  BY <1>1 DEF CapturedIsUsed
<1>9. RunningIsOwned
  <2>1. captures[Initial] = 1 /\ (others # {} => captures[o] = 2)
    BY <1>1, <1>3, <1>4
  <2>2. \A i \in 1..Len(capturers) : i = 1 \/ (i = 2 /\ others # {})
    BY <1>6
  <2> QED
    BY <1>6, <2>1, <2>2 DEF RunningIsOwned
<1>10. PendingIsStarting /\ NewestStartWins /\ Generations /\ StartsBuild /\ ErrorsOfScreens
  BY <1>5 DEF PendingIsStarting, NewestStartWins, Generations, StartsBuild, ErrorsOfScreens
<1> QED
  BY <1>2, <1>7, <1>8, <1>9, <1>10 DEF IInv, CapturesOwned

\* CapturesOwned: whatever the user adds, replaces and deletes while cameras
\* start and screens fail, no capture of viewer.rs is left behind, runs without
\* an owner, loads without a start or loses to an older start.
THEOREM CapturesStayOwned == Spec => []CapturesOwned
<1>1. Init => IInv
  BY InitKeeps
<1>2. IInv /\ [Next]_vars => IInv'
  <2> SUFFICES ASSUME IInv, [Next]_vars
               PROVE  IInv'
    OBVIOUS
  <2>1. CASE \E s \in Screens : AddScreen(s)
    BY <2>1, AddScreenKeeps
  <2>2. CASE \E e \in Elements, s \in Screens : ReplaceSelected(e, s)
    BY <2>2, ReplaceSelectedKeeps
  <2>3. CASE \E e \in Elements : DeleteSelected(e)
    BY <2>3, DeleteSelectedKeeps
  <2>4. CASE \E c \in Cameras : AddCamera(c)
    BY <2>4, AddCameraKeeps
  <2>5. CASE \E st \in starts : CameraTask(st) \/ CameraStarted(st)
    BY <2>5, CameraTaskKeeps, CameraStartedKeeps
  <2>6. CASE \E i \in 1..Len(capturers) : ScreenFails(i)
    BY <2>6, ScreenFailsKeeps
  <2>7. CASE CaptureFailed
    BY <2>7, CaptureFailedKeeps
  <2>8. CASE UNCHANGED vars
    BY <2>8 DEF IInv, CapturesOwned, vars, TypeOK, CapturedIsUsed, RunningIsOwned,
       PendingIsStarting, NewestStartWins, FreshElements, Generations, StartsBuild,
       ErrorsOfScreens, Uses
  <2> QED
    BY <2>1, <2>2, <2>3, <2>4, <2>5, <2>6, <2>7, <2>8 DEF Next
<1>3. IInv => CapturesOwned
  BY DEF IInv
<1> QED
  BY <1>1, <1>2, <1>3, PTL DEF Spec

-----------------------------------------------------------------------------
(* The scene of StudioParts: its ids.                                      *)

\* Of a set of numbers up to n that has 0, and with each of them below n the next.
LEMMA Counting ==
    ASSUME NEW n \in Nat, NEW S, 0 \in S, \A i \in 0 .. n - 1 : i \in S => i + 1 \in S
    PROVE  \A i \in 0 .. n : i \in S
  <1> DEFINE T == {i \in 0 .. n : i \notin S}
             B == {0 .. i : i \in T}
             R == StrictSubsetOrdering(0 .. n)
  <1>1. SUFFICES ASSUME T # {} PROVE FALSE
    OBVIOUS
  <1>2. IsWellFoundedOn(R, FiniteSubsetsOf(0 .. n))
    BY FS_StrictSubsetOrderingWellFounded
  <1>3. B \subseteq FiniteSubsetsOf(0 .. n) /\ B # {}
    <2>1. \A i \in T : IsFiniteSet(0 .. i) /\ 0 .. i \subseteq 0 .. n
      BY FS_Interval
    <2> QED BY <1>1, <2>1 DEF FiniteSubsetsOf
  <1>4. PICK x \in B : \A y \in B : <<y, x>> \notin R
    <2> HIDE DEF B, R
    <2> QED BY <1>2, <1>3, WFMin
  <1>5. PICK i \in T : x = 0 .. i
    OBVIOUS
  <1>6. i - 1 \in T /\ i - 1 < i /\ i \in Nat
    OBVIOUS
  <1>7. 0 .. (i - 1) \in B /\ 0 .. (i - 1) \subseteq 0 .. i /\ 0 .. (i - 1) # 0 .. i /\ 0 .. i \subseteq 0 .. n
    BY <1>6
  <1>8. <<0 .. (i - 1), 0 .. i>> \in R
    BY <1>7 DEF StrictSubsetOrdering
  <1> QED BY <1>4, <1>5, <1>7, <1>8

\* The id after those in use is above all of them and not above the bound.
LEMMA NextAfterAll ==
    ASSUME NEW n \in Nat, NEW S, S \subseteq 1 .. n
    PROVE  Scene!NextAfter(S) \in 1 .. n + 1 /\ \A i \in S : i < Scene!NextAfter(S)
  <1> DEFINE U == S \cup {0}
             T == {k \in 0 .. n : \E j \in U : j >= k}
  <1>1. \E m \in U : \A j \in U : m >= j
    <2> SUFFICES ASSUME \A m \in U : \E j \in U : j > m PROVE FALSE
      OBVIOUS
    <2>1. 0 \in T
      OBVIOUS
    <2>2. \A k \in 0 .. n - 1 : k \in T => k + 1 \in T
      <3> SUFFICES ASSUME NEW k \in 0 .. n - 1, NEW j \in U, j >= k PROVE \E i \in U : i >= k + 1
        OBVIOUS
      <3>1. PICK i \in U : i > j
        OBVIOUS
      <3> QED
        BY <3>1
    <2>3. n \in T
      <3> HIDE DEF T
      <3>1. \A k \in 0 .. n : k \in T
        BY <2>1, <2>2, Counting, Zenon
      <3> QED
        BY <3>1
    <2>4. PICK j \in U : j >= n
      BY <2>3
    <2>5. PICK i \in U : i > j
      OBVIOUS
    <2> QED
      BY <2>4, <2>5
  <1>2. Scene!NextAfter(S) = 1 + Scene!Max(U)
    BY DEF Scene!NextAfter
  <1>3. Scene!Max(U) = CHOOSE m \in U : \A j \in U : m >= j
    BY DEF Scene!Max
  <1>4. Scene!Max(U) \in U /\ \A j \in U : Scene!Max(U) >= j
    <2> HIDE DEF U
    <2> QED
      BY <1>1, <1>3
  <1> DEFINE m == Scene!Max(U)
  <1>5. m \in U /\ (\A j \in U : m >= j) /\ Scene!NextAfter(S) = 1 + m
    BY <1>2, <1>4
  <1> HIDE DEF m
  <1> QED
    BY <1>5

-----------------------------------------------------------------------------
(* Lists of elements.                                                      *)

LEMMA ElementAway ==
    ASSUME NEW S, NEW s \in Seq(S), NEW j \in 1 .. Len(s)
    PROVE  LET w == Scene!RemoveAt(s, j)
           IN  /\ w \in Seq(S) /\ Len(w) = Len(s) - 1
               /\ \A i \in 1 .. Len(s) - 1 : w[i] = IF i < j THEN s[i] ELSE s[i + 1]
  <1> DEFINE a == SubSeq(s, 1, j - 1)
             b == SubSeq(s, j + 1, Len(s))
  <1>1. /\ a \in Seq(S) /\ Len(a) = j - 1 /\ \A i \in 1 .. j - 1 : a[i] = s[i]
        /\ b \in Seq(S) /\ Len(b) = Len(s) - j /\ \A i \in 1 .. Len(s) - j : b[i] = s[j + i]
    OBVIOUS
  <1>0. Len(s) \in Nat /\ j \in Int
    OBVIOUS
  <1>2. Scene!RemoveAt(s, j) = a \o b
    BY DEF Scene!RemoveAt
  <1> HIDE DEF a, b
  <1>3. /\ a \o b \in Seq(S) /\ Len(a \o b) = Len(a) + Len(b)
        /\ \A i \in 1 .. Len(a) + Len(b) : (a \o b)[i] = IF i <= Len(a) THEN a[i] ELSE b[i - Len(a)]
    BY <1>1, ConcatProperties
  <1>4. ASSUME NEW i \in 1 .. Len(s) - 1
        PROVE  (a \o b)[i] = IF i < j THEN s[i] ELSE s[i + 1]
    <2>1. CASE i < j
      BY <1>1, <1>3, <2>1, SMTT(30)
    <2>2. CASE i >= j
      <3>1. (a \o b)[i] = b[i - (j - 1)] /\ i - (j - 1) \in 1 .. Len(s) - j
        BY <1>1, <1>3, <2>2, SMTT(30)
      <3>2. b[i - (j - 1)] = s[j + (i - (j - 1))] /\ j + (i - (j - 1)) = i + 1
        BY <1>1, <3>1
      <3> QED
        BY <1>0, <2>2, <3>1, <3>2
    <2>3. i < j \/ i >= j
      BY <1>0
    <2> QED
      BY <2>1, <2>2, <2>3
  <1> QED
    BY <1>0, <1>1, <1>2, <1>3, <1>4

LEMMA ElementPutIn ==
    ASSUME NEW S, NEW w \in Seq(S), NEW to \in 1 .. Len(w) + 1, NEW e \in S
    PROVE  LET r == Scene!InsertAt(w, to, e)
           IN  /\ r \in Seq(S) /\ Len(r) = Len(w) + 1
               /\ \A k \in 1 .. Len(w) + 1 :
                     r[k] = IF k < to THEN w[k] ELSE IF k = to THEN e ELSE w[k - 1]
  <1> DEFINE a == SubSeq(w, 1, to - 1)
             b == SubSeq(w, to, Len(w))
             h == Append(a, e)
  <1>0. Len(w) \in Nat /\ to \in Int
    OBVIOUS
  <1>1. /\ a \in Seq(S) /\ Len(a) = to - 1 /\ \A i \in 1 .. to - 1 : a[i] = w[i]
        /\ b \in Seq(S) /\ Len(b) = Len(w) - to + 1 /\ \A i \in 1 .. Len(w) - to + 1 : b[i] = w[to + i - 1]
    OBVIOUS
  <1>2. Scene!InsertAt(w, to, e) = (a \o <<e>>) \o b
    BY DEF Scene!InsertAt
  <1> HIDE DEF a, b
  <1>3. a \o <<e>> = h
    BY <1>1, AppendIsConcat
  <1>4. /\ h \in Seq(S) /\ Len(h) = to /\ h[to] = e /\ \A i \in 1 .. to - 1 : h[i] = w[i]
    BY <1>0, <1>1
  <1> HIDE DEF h
  <1>5. /\ h \o b \in Seq(S) /\ Len(h \o b) = Len(h) + Len(b)
        /\ \A i \in 1 .. Len(h) + Len(b) : (h \o b)[i] = IF i <= Len(h) THEN h[i] ELSE b[i - Len(h)]
    BY <1>1, <1>4, ConcatProperties
  <1>6. ASSUME NEW k \in 1 .. Len(w) + 1
        PROVE  (h \o b)[k] = IF k < to THEN w[k] ELSE IF k = to THEN e ELSE w[k - 1]
    <2>1. CASE k <= to
      BY <1>0, <1>1, <1>4, <1>5, <2>1, SMTT(30)
    <2>2. CASE k > to
      <3>1. (h \o b)[k] = b[k - to] /\ k - to \in 1 .. Len(w) - to + 1
        BY <1>0, <1>1, <1>4, <1>5, <2>2, SMTT(30)
      <3>2. b[k - to] = w[to + (k - to) - 1] /\ to + (k - to) - 1 = k - 1
        BY <1>0, <1>1, <3>1
      <3> QED
        BY <1>0, <2>2, <3>1, <3>2
    <2>3. k <= to \/ k > to
      BY <1>0
    <2> QED
      BY <2>1, <2>2, <2>3
  <1>7. Scene!InsertAt(w, to, e) = h \o b
    BY <1>2, <1>3
  <1> QED
    BY <1>0, <1>1, <1>4, <1>5, <1>6, <1>7

\* What makes up a list of elements.
LEMMA ElementParts ==
    ASSUME NEW e \in Scene!Element
    PROVE  /\ e.id \in 1 .. MaxId /\ e.source \in Scene!Sources /\ e.layout \in Layouts
           /\ e = [id |-> e.id, source |-> e.source, layout |-> e.layout]
  BY DEF Scene!Element, Scene!Ids

\* The place of an element that is in the list.
LEMMA ItsPlace ==
    ASSUME NEW s \in Seq(Scene!Element), NEW id \in Scene!IdsOf(s)
    PROVE  /\ Scene!PlaceOf(s, id) \in 1 .. Len(s) /\ s[Scene!PlaceOf(s, id)].id = id
           /\ Scene!ElementOf(s, id) = s[Scene!PlaceOf(s, id)]
           /\ Scene!ElementOf(s, id) \in Scene!Element
  <1>1. DOMAIN s = 1 .. Len(s)
    OBVIOUS
  <1>2. \E i \in DOMAIN s : s[i].id = id
    BY DEF Scene!IdsOf
  <1>3. Scene!PlaceOf(s, id) \in DOMAIN s /\ s[Scene!PlaceOf(s, id)].id = id
    BY <1>2 DEF Scene!PlaceOf
  <1>4. Scene!ElementOf(s, id) = s[Scene!PlaceOf(s, id)]
    BY DEF Scene!ElementOf
  <1>5. s[Scene!PlaceOf(s, id)] \in Scene!Element
    BY <1>1, <1>3, ElementOfSeq
  <1> QED
    BY <1>1, <1>3, <1>4, <1>5

\* The only place that has an id is the one that is found.
LEMMA OnePlace ==
    ASSUME NEW s \in Seq(Scene!Element), Scene!Distinct(s), NEW i \in 1 .. Len(s)
    PROVE  s[i].id \in Scene!IdsOf(s) /\ Scene!PlaceOf(s, s[i].id) = i
  <1>1. DOMAIN s = 1 .. Len(s)
    OBVIOUS
  <1>2. s[i].id \in Scene!IdsOf(s)
    BY <1>1 DEF Scene!IdsOf
  <1>3. Scene!PlaceOf(s, s[i].id) \in 1 .. Len(s) /\ s[Scene!PlaceOf(s, s[i].id)].id = s[i].id
    BY <1>2, ItsPlace
  <1> QED
    BY <1>1, <1>2, <1>3 DEF Scene!Distinct

\* Scene::remove.
LEMMA WithoutOne ==
    ASSUME NEW s \in Seq(Scene!Element), Scene!Distinct(s), NEW id \in Scene!IdsOf(s)
    PROVE  LET w == Scene!Without(s, id)
           IN  /\ w \in Seq(Scene!Element) /\ Scene!Distinct(w)
               /\ Scene!IdsOf(w) = Scene!IdsOf(s) \ {id}
               /\ \A c : Scene!Uses(w, c) => Scene!Uses(s, c)
               /\ \A c : Scene!Uses(s, c) /\ c # Scene!ElementOf(s, id).source => Scene!Uses(w, c)
  <1> DEFINE w == Scene!Without(s, id)
             j == Scene!PlaceOf(s, id)
  <1>0. /\ j \in 1 .. Len(s) /\ s[j].id = id /\ Scene!ElementOf(s, id) = s[j]
        /\ Len(s) \in Nat /\ DOMAIN s = 1 .. Len(s)
    BY ItsPlace
  <1>1. w = Scene!RemoveAt(s, j)
    BY DEF Scene!Without
  <1> HIDE DEF j
  <1>2. /\ w \in Seq(Scene!Element) /\ Len(w) = Len(s) - 1 /\ DOMAIN w = 1 .. Len(s) - 1
        /\ \A i \in 1 .. Len(s) - 1 : w[i] = IF i < j THEN s[i] ELSE s[i + 1]
    <2>1. w \in Seq(Scene!Element) => DOMAIN w = 1 .. Len(w)
      OBVIOUS
    <2> QED
      BY <1>0, <1>1, <2>1, ElementAway
  <1> HIDE DEF w
  <1>3. \A i \in 1 .. Len(s) - 1 : \E k \in 1 .. Len(s) : k # j /\ w[i] = s[k] /\ k = IF i < j THEN i ELSE i + 1
    <2> TAKE i \in 1 .. Len(s) - 1
    <2>1. CASE i < j
      BY <1>0, <1>2, <2>1
    <2>2. CASE ~(i < j)
      <3>1. i + 1 \in 1 .. Len(s) /\ i + 1 # j /\ w[i] = s[i + 1]
        BY <1>0, <1>2, <2>2
      <3> QED
        BY <2>2, <3>1
    <2> QED
      BY <2>1, <2>2
  <1>4. \A k \in 1 .. Len(s) : k # j => \E i \in 1 .. Len(s) - 1 : w[i] = s[k]
    <2> SUFFICES ASSUME NEW k \in 1 .. Len(s), k # j PROVE \E i \in 1 .. Len(s) - 1 : w[i] = s[k]
      OBVIOUS
    <2>1. CASE k < j
      <3>1. k \in 1 .. Len(s) - 1 /\ w[k] = s[k]
        BY <1>0, <1>2, <2>1
      <3> QED
        BY <3>1
    <2>2. CASE k > j
      <3>1. k - 1 \in 1 .. Len(s) - 1 /\ ~(k - 1 < j) /\ (k - 1) + 1 = k
        BY <1>0, <2>2
      <3>2. w[k - 1] = s[(k - 1) + 1]
        BY <1>2, <3>1
      <3> QED
        BY <3>1, <3>2
    <2>3. k < j \/ k > j
      BY <1>0
    <2> QED
      BY <2>1, <2>2, <2>3
  <1>5. Scene!Distinct(w)
    <2> SUFFICES ASSUME NEW a \in 1 .. Len(s) - 1, NEW b \in 1 .. Len(s) - 1, w[a].id = w[b].id PROVE a = b
      BY <1>2 DEF Scene!Distinct
    <2>1. PICK k \in 1 .. Len(s) : k # j /\ w[a] = s[k] /\ k = IF a < j THEN a ELSE a + 1
      BY <1>3
    <2>2. PICK l \in 1 .. Len(s) : l # j /\ w[b] = s[l] /\ l = IF b < j THEN b ELSE b + 1
      BY <1>3
    <2>3. k = l
      BY <1>0, <2>1, <2>2 DEF Scene!Distinct
    <2> QED
      BY <1>0, <2>1, <2>2, <2>3
  <1>6. Scene!IdsOf(w) = Scene!IdsOf(s) \ {id}
    <2>1. ASSUME NEW x \in Scene!IdsOf(w) PROVE x \in Scene!IdsOf(s) \ {id}
      <3>1. PICK i \in 1 .. Len(s) - 1 : x = w[i].id
        BY <1>2 DEF Scene!IdsOf
      <3>2. PICK k \in 1 .. Len(s) : k # j /\ w[i] = s[k]
        BY <1>3
      <3> QED
        BY <1>0, <3>1, <3>2 DEF Scene!IdsOf, Scene!Distinct
    <2>2. ASSUME NEW x \in Scene!IdsOf(s), x # id PROVE x \in Scene!IdsOf(w)
      <3>1. PICK k \in 1 .. Len(s) : x = s[k].id
        BY <1>0 DEF Scene!IdsOf
      <3>2. PICK i \in 1 .. Len(s) - 1 : w[i] = s[k]
        BY <1>0, <1>4, <2>2, <3>1
      <3> QED
        BY <1>2, <3>1, <3>2 DEF Scene!IdsOf
    <2> QED
      BY <2>1, <2>2
  <1>7. ASSUME NEW c, Scene!Uses(w, c) PROVE Scene!Uses(s, c)
    <2>1. PICK i \in 1 .. Len(s) - 1 : w[i].source = c
      BY <1>2, <1>7 DEF Scene!Uses
    <2>2. PICK k \in 1 .. Len(s) : w[i] = s[k]
      BY <1>3
    <2> QED
      BY <1>0, <2>1, <2>2 DEF Scene!Uses
  <1>8. ASSUME NEW c, Scene!Uses(s, c), c # s[j].source PROVE Scene!Uses(w, c)
    <2>1. PICK k \in 1 .. Len(s) : s[k].source = c
      BY <1>0, <1>8 DEF Scene!Uses
    <2>2. PICK i \in 1 .. Len(s) - 1 : w[i] = s[k]
      BY <1>4, <1>8, <2>1
    <2> QED
      BY <1>2, <2>1, <2>2 DEF Scene!Uses
  <1> QED
    BY <1>0, <1>2, <1>5, <1>6, <1>7, <1>8 DEF w

\* Scene::add.
LEMMA OneAdded ==
    ASSUME NEW s \in Seq(Scene!Element), Scene!Distinct(s), NEW e \in Scene!Element,
           e.id \notin Scene!IdsOf(s)
    PROVE  LET w == Append(s, e)
           IN  /\ w \in Seq(Scene!Element) /\ Scene!Distinct(w)
               /\ Scene!IdsOf(w) = Scene!IdsOf(s) \cup {e.id}
               /\ \A c : Scene!Uses(w, c) <=> Scene!Uses(s, c) \/ c = e.source
  <1> DEFINE w == Append(s, e)
  <1>1. /\ w \in Seq(Scene!Element) /\ DOMAIN w = 1 .. Len(s) + 1 /\ DOMAIN s = 1 .. Len(s)
        /\ Len(s) \in Nat /\ w[Len(s) + 1] = e /\ \A i \in 1 .. Len(s) : w[i] = s[i]
    OBVIOUS
  <1> HIDE DEF w
  <1>2. Scene!Distinct(w)
    <2> SUFFICES ASSUME NEW a \in 1 .. Len(s) + 1, NEW b \in 1 .. Len(s) + 1, w[a].id = w[b].id PROVE a = b
      BY <1>1 DEF Scene!Distinct
    <2>1. CASE a \in 1 .. Len(s) /\ b \in 1 .. Len(s)
      BY <1>1, <2>1 DEF Scene!Distinct
    <2>2. CASE a = Len(s) + 1 /\ b \in 1 .. Len(s)
      BY <1>1, <2>2 DEF Scene!IdsOf
    <2>3. CASE b = Len(s) + 1 /\ a \in 1 .. Len(s)
      BY <1>1, <2>3 DEF Scene!IdsOf
    <2> QED
      BY <1>1, <2>1, <2>2, <2>3
  <1>3. Scene!IdsOf(w) = Scene!IdsOf(s) \cup {e.id}
    <2>1. \A i \in 1 .. Len(s) + 1 : i \in 1 .. Len(s) \/ i = Len(s) + 1
      BY <1>1
    <2>2. \A i \in 1 .. Len(s) : i \in 1 .. Len(s) + 1
      BY <1>1
    <2> QED
      BY <1>1, <2>1, <2>2 DEF Scene!IdsOf
  <1>4. \A c : Scene!Uses(w, c) <=> Scene!Uses(s, c) \/ c = e.source
    BY <1>1 DEF Scene!Uses
  <1> QED
    BY <1>1, <1>2, <1>3, <1>4 DEF w

\* A list of which elements change, but none its id.
LEMMA SameIds ==
    ASSUME NEW s \in Seq(Scene!Element), Scene!Distinct(s), NEW w,
           w = [i \in DOMAIN s |-> w[i]],
           \A i \in DOMAIN s : w[i] \in Scene!Element /\ w[i].id = s[i].id
    PROVE  /\ w \in Seq(Scene!Element) /\ Scene!Distinct(w)
           /\ Scene!IdsOf(w) = Scene!IdsOf(s)
  <1>1. Len(s) \in Nat /\ DOMAIN s = 1 .. Len(s)
    OBVIOUS
  <1>2. DOMAIN w = DOMAIN s /\ w \in [1 .. Len(s) -> Scene!Element]
    BY <1>1
  <1>3. w \in Seq(Scene!Element)
    BY <1>1, <1>2
  <1> QED
    BY <1>2, <1>3 DEF Scene!Distinct, Scene!IdsOf

\* Scene::move_to_index.
LEMMA OneMoved ==
    ASSUME NEW s \in Seq(Scene!Element), Scene!Distinct(s),
           NEW j \in 1 .. Len(s), NEW to \in 1 .. Len(s)
    PROVE  LET r == Scene!Moved(s, j, to)
           IN  /\ r \in Seq(Scene!Element) /\ Scene!Distinct(r)
               /\ Len(r) = Len(s) /\ r[to] = s[j]
               /\ Scene!IdsOf(r) = Scene!IdsOf(s)
               /\ \A c : Scene!Uses(r, c) <=> Scene!Uses(s, c)
               /\ Scene!RemoveAt(r, to) = Scene!RemoveAt(s, j)
  <1> DEFINE w == Scene!RemoveAt(s, j)
             r == Scene!Moved(s, j, to)
             v == Scene!RemoveAt(r, to)
             From(k) == IF k = to THEN j
                        ELSE IF k < to THEN (IF k < j THEN k ELSE k + 1)
                        ELSE (IF k - 1 < j THEN k - 1 ELSE k)
             To(l) == IF l = j THEN to
                      ELSE IF l < j THEN (IF l < to THEN l ELSE l + 1)
                      ELSE (IF l - 1 < to THEN l - 1 ELSE l)
  <1>0. Len(s) \in Nat /\ DOMAIN s = 1 .. Len(s) /\ s[j] \in Scene!Element /\ j \in Int /\ to \in Int
    OBVIOUS
  <1>1. /\ w \in Seq(Scene!Element) /\ Len(w) = Len(s) - 1
        /\ \A i \in 1 .. Len(s) - 1 : w[i] = IF i < j THEN s[i] ELSE s[i + 1]
    BY ElementAway
  <1>2. r = Scene!InsertAt(w, to, s[j])
    BY DEF Scene!Moved
  <1> HIDE DEF w, r
  <1>3. /\ r \in Seq(Scene!Element) /\ Len(r) = Len(s) /\ DOMAIN r = 1 .. Len(s)
        /\ \A k \in 1 .. Len(s) :
              r[k] = IF k < to THEN w[k] ELSE IF k = to THEN s[j] ELSE w[k - 1]
    <2>1. to \in 1 .. Len(w) + 1 /\ Len(w) + 1 = Len(s)
      BY <1>0, <1>1
    <2>2. /\ r \in Seq(Scene!Element) /\ Len(r) = Len(w) + 1
          /\ \A k \in 1 .. Len(w) + 1 :
                r[k] = IF k < to THEN w[k] ELSE IF k = to THEN s[j] ELSE w[k - 1]
      <3> DEFINE q == Scene!InsertAt(w, to, s[j])
      <3>1. w \in Seq(Scene!Element) /\ to \in 1 .. Len(w) + 1 /\ s[j] \in Scene!Element
        BY <1>0, <1>1, <2>1
      <3>2. /\ q \in Seq(Scene!Element) /\ Len(q) = Len(w) + 1
            /\ \A k \in 1 .. Len(w) + 1 :
                  q[k] = IF k < to THEN w[k] ELSE IF k = to THEN s[j] ELSE w[k - 1]
        BY <3>1, ElementPutIn, SMTT(60)
      <3>3. r = q
        BY <1>2
      <3> HIDE DEF q
      <3> QED
        BY <3>2, <3>3
    <2>3. DOMAIN r = 1 .. Len(r)
      BY <2>2
    <2> QED
      BY <2>1, <2>2, <2>3
  <1>4. \A k \in 1 .. Len(s) : From(k) \in 1 .. Len(s) /\ r[k] = s[From(k)]
    <2> SUFFICES ASSUME NEW k \in 1 .. Len(s) PROVE From(k) \in 1 .. Len(s) /\ r[k] = s[From(k)]
      OBVIOUS
    <2>1. CASE k = to
      BY <1>3, <2>1
    <2>2. CASE k < to
      <3>1. k \in 1 .. Len(s) - 1 /\ r[k] = w[k]
        BY <1>0, <1>3, <2>2
      <3> QED
        BY <1>0, <1>1, <2>2, <3>1
    <2>3. CASE k > to
      <3>1. k - 1 \in 1 .. Len(s) - 1 /\ r[k] = w[k - 1] /\ (k - 1) + 1 = k
        BY <1>0, <1>3, <2>3
      <3>2. w[k - 1] = IF k - 1 < j THEN s[k - 1] ELSE s[k]
        BY <1>1, <3>1
      <3> QED
        BY <1>0, <2>3, <3>1, <3>2
    <2> QED
      BY <1>0, <2>1, <2>2, <2>3
  <1>5. \A l \in 1 .. Len(s) : To(l) \in 1 .. Len(s) /\ From(To(l)) = l
    BY <1>0
  <1>6. \A k \in 1 .. Len(s) : To(From(k)) = k
    BY <1>0
  <1> HIDE DEF From, To
  <1>7. Scene!Distinct(r)
    <2> SUFFICES ASSUME NEW a \in 1 .. Len(s), NEW b \in 1 .. Len(s), r[a].id = r[b].id PROVE a = b
      BY <1>3 DEF Scene!Distinct
    <2>1. From(a) = From(b)
      <3>1. PICK f \in 1 .. Len(s), g \in 1 .. Len(s) :
               f = From(a) /\ g = From(b) /\ r[a] = s[f] /\ r[b] = s[g]
        BY <1>4
      <3>2. f = g
        BY <1>0, <3>1 DEF Scene!Distinct
      <3> QED
        BY <3>1, <3>2
    <2> QED
      BY <1>6, <2>1
  <1>8. Scene!IdsOf(r) = Scene!IdsOf(s)
    <2>1. ASSUME NEW x \in Scene!IdsOf(r) PROVE x \in Scene!IdsOf(s)
      BY <1>0, <1>3, <1>4 DEF Scene!IdsOf
    <2>2. ASSUME NEW x \in Scene!IdsOf(s) PROVE x \in Scene!IdsOf(r)
      <3>1. PICK l \in 1 .. Len(s) : x = s[l].id
        BY <1>0 DEF Scene!IdsOf
      <3>2. To(l) \in 1 .. Len(s) /\ r[To(l)] = s[l]
        BY <1>4, <1>5
      <3> QED
        BY <1>3, <3>1, <3>2 DEF Scene!IdsOf
    <2> QED
      BY <2>1, <2>2
  <1>9. \A c : Scene!Uses(r, c) <=> Scene!Uses(s, c)
    <2>1. ASSUME NEW c, Scene!Uses(r, c) PROVE Scene!Uses(s, c)
      BY <1>0, <1>3, <1>4, <2>1 DEF Scene!Uses
    <2>2. ASSUME NEW c, Scene!Uses(s, c) PROVE Scene!Uses(r, c)
      <3>1. PICK l \in 1 .. Len(s) : s[l].source = c
        BY <1>0, <2>2 DEF Scene!Uses
      <3>2. To(l) \in 1 .. Len(s) /\ r[To(l)] = s[l]
        BY <1>4, <1>5
      <3> QED
        BY <1>3, <3>1, <3>2 DEF Scene!Uses
    <2> QED
      BY <2>1, <2>2
  <1>10. v = w
    <2>1. /\ v \in Seq(Scene!Element) /\ Len(v) = Len(s) - 1
          /\ \A i \in 1 .. Len(s) - 1 : v[i] = IF i < to THEN r[i] ELSE r[i + 1]
      <3>1. to \in 1 .. Len(r) /\ Len(r) = Len(s) /\ r \in Seq(Scene!Element)
        BY <1>3
      <3>2. /\ v \in Seq(Scene!Element) /\ Len(v) = Len(r) - 1
            /\ \A i \in 1 .. Len(r) - 1 : v[i] = IF i < to THEN r[i] ELSE r[i + 1]
        BY <3>1, ElementAway, Zenon
      <3> HIDE DEF v
      <3> QED
        BY <3>1, <3>2
    <2> HIDE DEF v
    <2>2. ASSUME NEW i \in 1 .. Len(s) - 1 PROVE v[i] = w[i]
      <3>1. CASE i < to
        BY <1>0, <1>3, <2>1, <3>1
      <3>2. CASE i >= to
        <4>1. i + 1 \in 1 .. Len(s) /\ ~(i + 1 < to) /\ i + 1 # to /\ (i + 1) - 1 = i
          BY <1>0, <3>2
        <4>2. r[i + 1] = w[(i + 1) - 1]
          BY <1>3, <4>1
        <4> QED
          BY <1>0, <2>1, <3>2, <4>1, <4>2
      <3> QED
        BY <1>0, <3>1, <3>2
    <2> QED
      BY <1>0, <1>1, <2>1, <2>2, SeqEqual
  <1>11. r[to] = s[j]
    BY <1>3
  <1> QED
    BY <1>3, <1>7, <1>8, <1>9, <1>10, <1>11 DEF r, w, v

-----------------------------------------------------------------------------
(* The inductive invariant.                                                *)

\* Elements have ids of their own, below the next one; colours are those of the
\* colour sources in use.
ListOk(els, id, cols, color) ==
    /\ els \in Seq(Scene!Element) /\ Scene!Distinct(els)
    /\ id \in 1 .. MaxId + 1 /\ \A e \in Scene!IdsOf(els) : e < id
    /\ cols \in [Scene!ColorIds -> Colors \cup {NoColor}]
    /\ color \in 1 .. MaxColorId + 1
    /\ \A c \in Scene!ColorIds : cols[c] # NoColor <=> Scene!Uses(els, c)
ListInv == ListOk(elements, nextElement, colors, nextColor)

\* Selection, gestures and pictures are of ids that were given.
ViewInv ==
    /\ {selected, drag, listDrag} \subseteq 0 .. nextElement - 1
    /\ \A p \in {request, composed} : p = Scene!NoPicture \/ p \subseteq 1 .. nextElement - 1
    /\ rendered \subseteq 1 .. nextElement - 1
    /\ framed \subseteq Captures /\ shown \in BOOLEAN

\* A file whose elements the next start accepts, and whose colours it restores.
GoodFile(p) ==
    /\ p \in [elements : Seq(Scene!SavedElement), selected : 0 .. MaxId]
    /\ Scene!Distinct(p.elements)
    /\ \A i \in DOMAIN p.elements :
          IF p.elements[i].source \in Scene!ColorIds
          THEN p.elements[i].color \in Colors ELSE p.elements[i].color = NoColor
    /\ \A i, j \in DOMAIN p.elements :
          p.elements[i].source = p.elements[j].source => p.elements[i].color = p.elements[j].color
FileInv ==
    /\ saved = Scene!NoProject \/ GoodFile(saved)
    /\ stale \in BOOLEAN /\ failures \in 0 .. MaxFailures

SceneInv == ListInv /\ ViewInv /\ FileInv /\ Scene!SavedBetweenGestures

-----------------------------------------------------------------------------
(* The file.                                                               *)

\* The bounds and colours as single facts.
LEMMA SceneFacts ==
    ASSUME Scene!SceneAssumption
    PROVE  /\ FirstDisplay \in Captures /\ DefaultColor \in Colors /\ NoColor \notin Colors
           /\ NewLayout \in Layouts /\ MaxId \in Nat /\ MaxId >= 2 /\ MaxColorId \in Nat
           /\ MaxFailures \in Nat
           /\ Scene!ColorIds = 1 .. MaxColorId /\ Scene!Ids = 1 .. MaxId
           /\ Scene!Sources = Captures \cup Scene!ColorIds
           /\ \A s \in Captures : s \notin Scene!ColorIds
  BY DEF Scene!SceneAssumption, Scene!ColorIds, Scene!Ids, Scene!Sources

\* One element as it is written.
Written(e, cols) ==
    [id |-> e.id, source |-> e.source, layout |-> e.layout,
     color |-> IF e.source \in Scene!ColorIds THEN cols[e.source] ELSE NoColor]

LEMMA SnapshotParts ==
    ASSUME NEW els, NEW cols, NEW sel
    PROVE  LET p == Scene!Snapshot(els, cols, sel)
           IN  /\ p = [elements |-> [i \in DOMAIN els |-> Written(els[i], cols)], selected |-> sel]
               /\ p.elements = [i \in DOMAIN els |-> Written(els[i], cols)] /\ p.selected = sel
  BY DEF Scene!Snapshot, Written

\* What is written can be read back.
LEMMA SnapshotIsGood ==
    ASSUME Scene!SceneAssumption, NEW els, NEW id, NEW cols, NEW color, ListOk(els, id, cols, color),
           NEW sel \in 0 .. MaxId
    PROVE  GoodFile(Scene!Snapshot(els, cols, sel))
  <1> DEFINE w == [i \in DOMAIN els |-> Written(els[i], cols)]
             p == Scene!Snapshot(els, cols, sel)
  <1>1. p = [elements |-> w, selected |-> sel]
    BY DEF Scene!Snapshot, Written
  <1>2. DOMAIN els = 1 .. Len(els) /\ Len(els) \in Nat /\ \A i \in DOMAIN els : els[i] \in Scene!Element
    BY ElementOfSeq DEF ListOk
  <1>3. ASSUME NEW i \in DOMAIN els
        PROVE  /\ Written(els[i], cols) \in Scene!SavedElement
               /\ Written(els[i], cols).id = els[i].id /\ Written(els[i], cols).source = els[i].source
               /\ IF els[i].source \in Scene!ColorIds
                  THEN Written(els[i], cols).color = cols[els[i].source] /\ cols[els[i].source] \in Colors
                  ELSE Written(els[i], cols).color = NoColor
    <2>1. els[i].id \in Scene!Ids /\ els[i].source \in Scene!Sources /\ els[i].layout \in Layouts
      BY <1>2 DEF Scene!Element
    <2>2. ASSUME els[i].source \in Scene!ColorIds
          PROVE  cols[els[i].source] \in Colors
      <3>1. Scene!Uses(els, els[i].source)
        BY DEF Scene!Uses
      <3> QED
        BY <2>2, <3>1 DEF ListOk
    <2> QED
      BY <2>1, <2>2 DEF Written, Scene!SavedElement
  <1>4. DOMAIN w = DOMAIN els /\ \A i \in DOMAIN els : w[i] = Written(els[i], cols)
    OBVIOUS
  <1>5. w \in Seq(Scene!SavedElement)
    <2>1. w \in [1 .. Len(els) -> Scene!SavedElement]
      BY <1>2, <1>3
    <2> QED
      BY <1>2, <2>1
  <1> HIDE DEF w, p
  <1>6. p.elements = w /\ p \in [elements : Seq(Scene!SavedElement), selected : 0 .. MaxId]
    BY <1>1, <1>5
  <1>7. Scene!Distinct(p.elements)
    BY <1>3, <1>4, <1>6 DEF ListOk, Scene!Distinct
  <1>8. \A i \in DOMAIN p.elements :
          IF p.elements[i].source \in Scene!ColorIds
          THEN p.elements[i].color \in Colors ELSE p.elements[i].color = NoColor
    BY <1>3, <1>4, <1>6
  <1>9. \A i, j \in DOMAIN p.elements :
          p.elements[i].source = p.elements[j].source => p.elements[i].color = p.elements[j].color
    BY <1>3, <1>4, <1>6
  <1> QED
    BY <1>6, <1>7, <1>8, <1>9 DEF GoodFile, p

\* Whatever ends in save_project keeps the invariant, if it keeps the scene.
LEMMA SaveKeeps ==
    ASSUME Scene!SceneAssumption, FileInv, ListInv', ViewInv', Scene!Save
    PROVE  SceneInv'
  <1>1. selected' \in 0 .. MaxId
    BY SceneFacts DEF ListInv, ListOk, ViewInv
  <1>2. CASE saved' = Scene!Snapshot(elements', colors', selected') /\ stale' = FALSE /\ failures' = failures
    <2>1. GoodFile(saved')
      BY <1>1, <1>2, SnapshotIsGood DEF ListInv
    <2> QED
      BY <1>2, <2>1 DEF SceneInv, FileInv, Scene!SavedBetweenGestures
  <1>3. CASE failures < MaxFailures /\ failures' = failures + 1 /\ stale' = TRUE /\ saved' = saved
    BY <1>3, SceneFacts DEF SceneInv, FileInv, GoodFile, Scene!SavedBetweenGestures
  <1> QED
    BY <1>2, <1>3 DEF Scene!Save

\* A change of selection, gesture or picture that does not end a gesture.
LEMMA UnsavedKeeps ==
    ASSUME SceneInv, ListInv', ViewInv',
           UNCHANGED <<elements, colors, saved, failures, stale>>,
           drag' = 0 /\ listDrag' = 0 => drag = 0 /\ listDrag = 0
    PROVE  SceneInv'
  <1>1. FileInv'
    BY DEF SceneInv, FileInv, GoodFile
  <1>2. Scene!Snapshot(elements', colors', selected').elements
            = Scene!Snapshot(elements, colors, selected).elements
    BY DEF Scene!Snapshot
  <1>3. Scene!SavedBetweenGestures'
    BY <1>2 DEF SceneInv, Scene!SavedBetweenGestures
  <1> QED
    BY <1>1, <1>3 DEF SceneInv

-----------------------------------------------------------------------------
(* A start.                                                                *)

\* The project of a first start is like one that was saved.
LEMMA DefaultIsGood ==
    ASSUME Scene!SceneAssumption
    PROVE  GoodFile(Scene!DefaultProject) /\ Scene!IsValid(Scene!DefaultProject)
  <1> DEFINE a == [id |-> 1, source |-> FirstDisplay, layout |-> NewLayout, color |-> NoColor]
             b == [id |-> 2, source |-> FirstDisplay, layout |-> NewLayout, color |-> NoColor]
             els == <<a, b>>
             p == Scene!DefaultProject
  <1>1. p = [elements |-> els, selected |-> 2]
    BY DEF Scene!DefaultProject
  <1>2. a \in Scene!SavedElement /\ b \in Scene!SavedElement
    BY SceneFacts DEF Scene!SavedElement
  <1>3. els \in Seq(Scene!SavedElement) /\ DOMAIN els = {1, 2} /\ els[1] = a /\ els[2] = b
    <2> HIDE DEF a, b
    <2> QED
      BY <1>2
  <1>4. /\ a.id = 1 /\ b.id = 2 /\ a.source = FirstDisplay /\ b.source = FirstDisplay
        /\ a.color = NoColor /\ b.color = NoColor
    OBVIOUS
  <1> HIDE DEF a, b, els, p
  <1>5. p.elements = els /\ p.selected = 2 /\ p \in [elements : Seq(Scene!SavedElement), selected : 0 .. MaxId]
    BY <1>1, <1>3, SceneFacts
  <1>6. Scene!Distinct(els)
    BY <1>3, <1>4 DEF Scene!Distinct
  <1>7. 2 \in Scene!IdsOf(els)
    BY <1>3, <1>4 DEF Scene!IdsOf
  <1>8. FirstDisplay \notin Scene!ColorIds
    BY SceneFacts
  <1>9. GoodFile(p)
    BY <1>3, <1>4, <1>5, <1>6, <1>8 DEF GoodFile
  <1>10. Scene!IsValid(p)
    BY <1>5, <1>6, <1>7 DEF Scene!IsValid
  <1> QED
    BY <1>9, <1>10 DEF p

\* restore_project: a project that was saved and is accepted becomes a scene as it
\* should be, and the one that would be saved is the same again.
LEMMA StartIsOk ==
    ASSUME Scene!SceneAssumption, NEW p, GoodFile(p), Scene!IsValid(p),
           NEW els, NEW id, NEW cols, NEW color, NEW sel, Scene!Start(p, els, id, cols, color, sel)
    PROVE  /\ ListOk(els, id, cols, color) /\ sel \in 0 .. id - 1
           /\ Scene!Snapshot(els, cols, sel).elements = p.elements
  <1> DEFINE q == p.elements
             used == {c \in Scene!ColorIds : Scene!Uses(q, c)}
  <1>1. /\ q \in Seq(Scene!SavedElement) /\ DOMAIN q = 1 .. Len(q) /\ Len(q) \in Nat
        /\ \A i \in DOMAIN q :
              /\ q[i] \in Scene!SavedElement /\ q[i].id \in Scene!Ids /\ q[i].source \in Scene!Sources
              /\ q[i].layout \in Layouts
              /\ q[i] = [id |-> q[i].id, source |-> q[i].source, layout |-> q[i].layout,
                         color |-> q[i].color]
    <2>1. q \in Seq(Scene!SavedElement) /\ DOMAIN q = 1 .. Len(q) /\ Len(q) \in Nat
      BY DEF GoodFile
    <2> HIDE DEF q
    <2>2. \A i \in DOMAIN q : q[i] \in Scene!SavedElement
      BY <2>1, ElementOfSeq
    <2> QED
      BY <2>1, <2>2 DEF Scene!SavedElement
  <1>2. els = [i \in DOMAIN q |-> [id |-> q[i].id, source |-> q[i].source, layout |-> q[i].layout]]
    BY DEF Scene!Start, Scene!RestoredElements
  <1>3. /\ DOMAIN els = DOMAIN q
        /\ \A i \in DOMAIN q :
              /\ els[i] \in Scene!Element /\ els[i].id = q[i].id /\ els[i].source = q[i].source
              /\ els[i].layout = q[i].layout
    <2> HIDE DEF q
    <2> QED
      BY <1>1, <1>2 DEF Scene!Element
  <1>4. els \in Seq(Scene!Element)
    <2>1. els \in [1 .. Len(q) -> Scene!Element]
      BY <1>1, <1>2, <1>3
    <2> QED
      BY <1>1, <2>1
  <1>5. Scene!Distinct(els)
    BY <1>3 DEF GoodFile, Scene!Distinct
  <1>6. Scene!IdsOf(els) = Scene!IdsOf(q) /\ Scene!IdsOf(q) \subseteq 1 .. MaxId
    <2>1. \A i \in DOMAIN q : q[i].id \in 1 .. MaxId
      BY <1>1, SceneFacts
    <2> HIDE DEF q
    <2>2. Scene!IdsOf(els) = Scene!IdsOf(q)
      BY <1>3 DEF Scene!IdsOf
    <2>3. Scene!IdsOf(q) \subseteq 1 .. MaxId
      BY <2>1 DEF Scene!IdsOf
    <2> QED
      BY <2>2, <2>3
  <1>7. \A c : Scene!Uses(els, c) <=> Scene!Uses(q, c)
    BY <1>3 DEF Scene!Uses
  <1>8. id \in 1 .. MaxId + 1 /\ \A e \in Scene!IdsOf(els) : e < id
    <2>1. id = Scene!NextAfter(Scene!IdsOf(q)) /\ MaxId \in Nat
      BY SceneFacts DEF Scene!Start
    <2> QED
      BY <2>1, <1>6, NextAfterAll
  <1>9. color \in 1 .. MaxColorId + 1
    <2>1. color = Scene!NextAfter(used) /\ MaxColorId \in Nat /\ used \subseteq 1 .. MaxColorId
      BY SceneFacts DEF Scene!Start
    <2> QED
      BY <2>1, NextAfterAll
  <1>10. ASSUME NEW c \in Scene!ColorIds
         PROVE  /\ cols[c] \in Colors \cup {NoColor} /\ (cols[c] # NoColor <=> Scene!Uses(q, c))
                /\ \A i \in DOMAIN q : q[i].source = c => cols[c] = q[i].color
    <2>1. cols[c] = IF Scene!Uses(q, c) THEN q[CHOOSE i \in DOMAIN q : q[i].source = c].color
                    ELSE NoColor
      BY DEF Scene!Start, Scene!RestoredColors
    <2>2. CASE Scene!Uses(q, c)
      <3> DEFINE k == CHOOSE i \in DOMAIN q : q[i].source = c
      <3>1. k \in DOMAIN q /\ q[k].source = c
        BY <2>2 DEF Scene!Uses
      <3>2. cols[c] = q[k].color
        BY <2>1, <2>2
      <3> HIDE DEF k
      <3>3. q[k].color \in Colors /\ \A i \in DOMAIN q : q[i].source = c => q[k].color = q[i].color
        BY <3>1 DEF GoodFile
      <3> QED
        BY <2>2, <3>2, <3>3, SceneFacts
    <2>3. CASE ~Scene!Uses(q, c)
      BY <2>1, <2>3 DEF Scene!Uses
    <2> QED
      BY <2>2, <2>3
  <1>11. cols \in [Scene!ColorIds -> Colors \cup {NoColor}]
    <2>1. cols = [c \in Scene!ColorIds |-> cols[c]]
      BY DEF Scene!Start, Scene!RestoredColors
    <2> QED
      BY <1>10, <2>1
  <1>12. sel \in 0 .. id - 1
    <2>1. sel = 0 \/ sel \in Scene!IdsOf(q)
      BY DEF Scene!Start, Scene!IsValid
    <2> QED
      BY <1>6, <1>8, <2>1, SceneFacts
  <1>13. Scene!Snapshot(els, cols, sel).elements = q
    <2>1. ASSUME NEW i \in DOMAIN q PROVE Written(els[i], cols) = q[i]
      <3>1. (IF els[i].source \in Scene!ColorIds THEN cols[els[i].source] ELSE NoColor) = q[i].color
        BY <1>3, <1>10 DEF GoodFile
      <3> HIDE DEF q
      <3> QED
        BY <1>1, <1>3, <3>1 DEF Written
    <2>2. Scene!Snapshot(els, cols, sel).elements = [i \in DOMAIN q |-> Written(els[i], cols)]
      BY <1>3, SnapshotParts
    <2>3. q = [i \in DOMAIN q |-> q[i]]
      BY <1>1
    <2> HIDE DEF q
    <2> QED
      BY <2>1, <2>2, <2>3
  <1> QED
    BY <1>4, <1>5, <1>7, <1>8, <1>9, <1>10, <1>11, <1>12, <1>13 DEF ListOk

-----------------------------------------------------------------------------
(* Elements that are added and changed.                                    *)

LEMMA AddStep ==
    ASSUME Scene!SceneAssumption, ListInv, ViewInv, NEW source \in Scene!Sources, Scene!Add(source)
    PROVE  /\ elements' \in Seq(Scene!Element) /\ Scene!Distinct(elements')
           /\ nextElement' \in 1 .. MaxId + 1 /\ nextElement' = nextElement + 1
           /\ \A e \in Scene!IdsOf(elements') : e < nextElement'
           /\ selected' \in 0 .. nextElement' - 1
           /\ \A c : Scene!Uses(elements', c) <=> Scene!Uses(elements, c) \/ c = source
  <1> DEFINE e == [id |-> nextElement, source |-> source, layout |-> NewLayout]
  <1>1. /\ nextElement \in 1 .. MaxId /\ nextElement' = nextElement + 1 /\ selected' = nextElement
        /\ elements' = Append(elements, e) /\ MaxId \in Nat
    BY SceneFacts DEF Scene!Add, ListInv, ListOk
  <1>2. e \in Scene!Element /\ e.id = nextElement /\ e.source = source
    BY <1>1, SceneFacts DEF Scene!Element
  <1>3. e.id \notin Scene!IdsOf(elements)
    BY <1>1, <1>2 DEF ListInv, ListOk
  <1> HIDE DEF e
  <1>4. /\ elements' \in Seq(Scene!Element) /\ Scene!Distinct(elements')
        /\ Scene!IdsOf(elements') = Scene!IdsOf(elements) \cup {e.id}
        /\ \A c : Scene!Uses(elements', c) <=> Scene!Uses(elements, c) \/ c = e.source
    BY <1>1, <1>2, <1>3, OneAdded DEF ListInv, ListOk
  <1>5. \A x \in Scene!IdsOf(elements) : x \in Int /\ x < nextElement
    <2>1. \A i \in DOMAIN elements : elements[i].id \in 1 .. MaxId
      BY ElementOfSeq, ElementParts DEF ListInv, ListOk
    <2> QED
      BY <2>1 DEF ListInv, ListOk, Scene!IdsOf
  <1> QED
    BY <1>1, <1>2, <1>4, <1>5

LEMMA AddCaptureKeeps ==
    ASSUME Scene!SceneAssumption, SceneInv, NEW s \in Captures, Scene!AddCapture(s)
    PROVE  SceneInv'
  <1>1. s \in Scene!Sources /\ Scene!Add(s) /\ s \notin Scene!ColorIds
    BY SceneFacts DEF Scene!AddCapture
  <1>2. UNCHANGED <<colors, nextColor, framed, request, composed, rendered, shown, drag, listDrag>>
    BY DEF Scene!AddCapture, Scene!pictureVars, Scene!gestureVars
  <1>3. ListInv'
    BY <1>1, <1>2, AddStep DEF SceneInv, ListInv, ListOk
  <1>4. ViewInv'
    BY <1>1, <1>2, AddStep DEF SceneInv, ViewInv, ListInv, ListOk
  <1> QED
    BY <1>3, <1>4, SaveKeeps DEF SceneInv, Scene!AddCapture

LEMMA AddColorKeeps ==
    ASSUME Scene!SceneAssumption, SceneInv, Scene!AddColor
    PROVE  SceneInv'
  <1>0. nextColor \in 1 .. MaxColorId /\ MaxColorId \in Nat
    BY SceneFacts DEF Scene!AddColor, SceneInv, ListInv, ListOk
  <1>1. nextColor \in Scene!Sources /\ nextColor \in Scene!ColorIds /\ Scene!Add(nextColor)
    BY <1>0, SceneFacts DEF Scene!AddColor
  <1>2. /\ UNCHANGED <<framed, request, composed, rendered, shown, drag, listDrag>>
        /\ nextColor' = nextColor + 1 /\ colors' = [colors EXCEPT ![nextColor] = DefaultColor]
    BY DEF Scene!AddColor, Scene!pictureVars, Scene!gestureVars
  <1>3. ListInv'
    <2>1. \A c \in Scene!ColorIds : colors'[c] = IF c = nextColor THEN DefaultColor ELSE colors[c]
      BY <1>2 DEF SceneInv, ListInv, ListOk
    <2>2. colors' \in [Scene!ColorIds -> Colors \cup {NoColor}]
      BY <1>1, <1>2, SceneFacts DEF SceneInv, ListInv, ListOk
    <2>3. \A c \in Scene!ColorIds : colors'[c] # NoColor <=> Scene!Uses(elements', c)
      BY <1>1, <2>1, AddStep, SceneFacts DEF SceneInv, ListInv, ListOk
    <2> QED
      BY <1>0, <1>1, <1>2, <2>2, <2>3, AddStep DEF SceneInv, ListInv, ListOk
  <1>4. ViewInv'
    BY <1>1, <1>2, AddStep DEF SceneInv, ViewInv, ListInv, ListOk
  <1> QED
    BY <1>3, <1>4, SaveKeeps DEF SceneInv, Scene!AddColor

\* A list in which elements got another source or layout.
LEMMA ChangedStep ==
    ASSUME ListInv, UNCHANGED <<nextElement, nextColor>>,
           elements' = [i \in DOMAIN elements |-> elements'[i]],
           \A i \in DOMAIN elements :
              elements'[i] \in Scene!Element /\ elements'[i].id = elements[i].id,
           colors' \in [Scene!ColorIds -> Colors \cup {NoColor}],
           \A c \in Scene!ColorIds : colors'[c] # NoColor <=> Scene!Uses(elements', c)
    PROVE  ListInv'
  <1>1. /\ elements' \in Seq(Scene!Element) /\ Scene!Distinct(elements')
        /\ Scene!IdsOf(elements') = Scene!IdsOf(elements)
    BY SameIds DEF ListInv, ListOk
  <1> QED
    BY <1>1 DEF ListInv, ListOk

LEMMA ReplaceKeeps ==
    ASSUME Scene!SceneAssumption, SceneInv, NEW s \in Captures, Scene!ReplaceSelected(s)
    PROVE  SceneInv'
  <1> DEFINE j == Scene!PlaceOf(elements, selected)
             previous == elements[j].source
  <1>0. /\ elements \in Seq(Scene!Element) /\ Scene!Distinct(elements) /\ DOMAIN elements = 1 .. Len(elements)
        /\ \A i \in DOMAIN elements : elements[i] \in Scene!Element
    BY ElementOfSeq DEF SceneInv, ListInv, ListOk
  <1>1. /\ j \in DOMAIN elements /\ elements[j].id = selected
        /\ Scene!ElementOf(elements, selected) = elements[j]
    BY <1>0, ItsPlace DEF Scene!ReplaceSelected
  <1>2. /\ previous \in Captures
        /\ elements' = [i \in DOMAIN elements |->
                           IF elements[i].id = selected
                           THEN [elements[i] EXCEPT !.source = s] ELSE elements[i]]
        /\ framed' \subseteq framed
        /\ UNCHANGED <<nextElement, colors, nextColor, selected, request, composed, rendered, shown,
                       drag, listDrag>>
    BY <1>1 DEF Scene!ReplaceSelected, Scene!gestureVars
  <1>3. \A i \in DOMAIN elements :
           /\ elements'[i] = IF i = j THEN [elements[i] EXCEPT !.source = s] ELSE elements[i]
    BY <1>0, <1>1, <1>2 DEF Scene!Distinct
  <1>4. /\ elements' = [i \in DOMAIN elements |-> elements'[i]] /\ DOMAIN elements' = DOMAIN elements
        /\ \A i \in DOMAIN elements :
              /\ elements'[i] \in Scene!Element /\ elements'[i].id = elements[i].id
              /\ elements'[i].source = IF i = j THEN s ELSE elements[i].source
    <2>1. s \in Scene!Sources
      BY SceneFacts
    <2>2. ASSUME NEW i \in DOMAIN elements
          PROVE  /\ elements'[i] \in Scene!Element /\ elements'[i].id = elements[i].id
                 /\ elements'[i].source = IF i = j THEN s ELSE elements[i].source
      <3>1. elements[i] \in Scene!Element
        BY <1>0
      <3>2. [elements[i] EXCEPT !.source = s] \in Scene!Element
        BY <2>1, <3>1 DEF Scene!Element
      <3>3. [elements[i] EXCEPT !.source = s].id = elements[i].id /\ [elements[i] EXCEPT !.source = s].source = s
        BY <3>1 DEF Scene!Element
      <3> HIDE DEF j
      <3> QED
        BY <1>3, <3>1, <3>2, <3>3
    <2> QED
      BY <1>2, <2>2
  <1> HIDE DEF j
  <1>5. \A c \in Scene!ColorIds : Scene!Uses(elements', c) <=> Scene!Uses(elements, c)
    <2>1. \A c \in Scene!ColorIds : c # s /\ c # previous
      BY <1>2, SceneFacts
    <2>2. \A c \in Scene!ColorIds, i \in DOMAIN elements : elements'[i].source = c <=> elements[i].source = c
      BY <1>4, <2>1
    <2> QED
      BY <1>4, <2>2 DEF Scene!Uses
  <1>6. ListInv'
    BY <1>2, <1>4, <1>5, ChangedStep DEF SceneInv, ListInv, ListOk
  <1>7. ViewInv'
    BY <1>2 DEF SceneInv, ViewInv
  <1> QED
    BY <1>6, <1>7, SaveKeeps DEF SceneInv, Scene!ReplaceSelected

LEMMA SetColorKeeps ==
    ASSUME Scene!SceneAssumption, SceneInv, NEW k \in Colors, Scene!SetSelectedColor(k)
    PROVE  SceneInv'
  <1> DEFINE source == Scene!ElementOf(elements, selected).source
  <1>1. /\ source \in Scene!ColorIds /\ colors[source] # NoColor
        /\ colors' = [colors EXCEPT ![source] = k]
        /\ UNCHANGED <<elements, nextElement, nextColor, selected, framed, request, composed, rendered,
                       shown, drag, listDrag>>
    BY DEF Scene!SetSelectedColor, Scene!pictureVars, Scene!gestureVars
  <1> HIDE DEF source
  <1>2. ListInv'
    <2>1. \A c \in Scene!ColorIds : colors'[c] = IF c = source THEN k ELSE colors[c]
      BY <1>1 DEF SceneInv, ListInv, ListOk
    <2>2. colors' \in [Scene!ColorIds -> Colors \cup {NoColor}]
      BY <1>1 DEF SceneInv, ListInv, ListOk
    <2>3. \A c \in Scene!ColorIds : colors'[c] # NoColor <=> Scene!Uses(elements', c)
      BY <1>1, <2>1, SceneFacts DEF SceneInv, ListInv, ListOk
    <2> QED
      BY <1>1, <2>2, <2>3 DEF SceneInv, ListInv, ListOk
  <1>3. ViewInv'
    BY <1>1 DEF SceneInv, ViewInv
  <1> QED
    BY <1>2, <1>3, SaveKeeps DEF SceneInv, Scene!SetSelectedColor

\* A layout that changes: by a key, by typing, or in a gesture.
LEMMA RelayoutStep ==
    ASSUME SceneInv, NEW id, Scene!Relayout(id), UNCHANGED <<nextElement, colors, nextColor>>
    PROVE  ListInv'
  <1>0. /\ elements \in Seq(Scene!Element) /\ DOMAIN elements = 1 .. Len(elements)
        /\ \A i \in DOMAIN elements : elements[i] \in Scene!Element
    BY ElementOfSeq DEF SceneInv, ListInv, ListOk
  <1>1. PICK l \in Layouts :
           elements' = [i \in DOMAIN elements |->
                           IF elements[i].id = id THEN [elements[i] EXCEPT !.layout = l] ELSE elements[i]]
    BY DEF Scene!Relayout
  <1>2. ASSUME NEW i \in DOMAIN elements
        PROVE  /\ elements'[i] \in Scene!Element /\ elements'[i].id = elements[i].id
               /\ elements'[i].source = elements[i].source
    <2>1. elements[i] \in Scene!Element
      BY <1>0
    <2>2. /\ [elements[i] EXCEPT !.layout = l] \in Scene!Element
          /\ [elements[i] EXCEPT !.layout = l].id = elements[i].id
          /\ [elements[i] EXCEPT !.layout = l].source = elements[i].source
      BY <2>1 DEF Scene!Element
    <2>3. elements'[i] = [elements[i] EXCEPT !.layout = l] \/ elements'[i] = elements[i]
      BY <1>1
    <2> QED
      BY <2>1, <2>2, <2>3
  <1>3. elements' = [i \in DOMAIN elements |-> elements'[i]] /\ DOMAIN elements' = DOMAIN elements
    BY <1>1
  <1>4. \A c : Scene!Uses(elements', c) <=> Scene!Uses(elements, c)
    BY <1>2, <1>3 DEF Scene!Uses
  <1> QED
    BY <1>2, <1>3, <1>4, ChangedStep DEF SceneInv, ListInv, ListOk

LEMMA MoveSelectedKeeps ==
    ASSUME Scene!SceneAssumption, SceneInv, Scene!MoveSelected
    PROVE  SceneInv'
  <1>1. /\ Scene!Relayout(selected) /\ Scene!Save
        /\ UNCHANGED <<nextElement, colors, nextColor, selected, framed, request, composed, rendered,
                       shown, drag, listDrag>>
    BY DEF Scene!MoveSelected, Scene!pictureVars, Scene!gestureVars
  <1>2. ListInv'
    BY <1>1, RelayoutStep
  <1>3. ViewInv'
    BY <1>1 DEF SceneInv, ViewInv
  <1> QED
    BY <1>1, <1>2, <1>3, SaveKeeps DEF SceneInv

LEMMA DragInsetKeeps ==
    ASSUME SceneInv, Scene!DragInset
    PROVE  SceneInv'
  <1>1. /\ Scene!Relayout(drag) /\ drag # 0
        /\ UNCHANGED <<nextElement, colors, nextColor, selected, framed, request, composed, rendered,
                       shown, drag, listDrag, saved, failures, stale>>
    BY DEF Scene!DragInset, Scene!pictureVars, Scene!gestureVars, Scene!fileVars
  <1>2. ListInv'
    BY <1>1, RelayoutStep
  <1>3. ViewInv'
    BY <1>1 DEF SceneInv, ViewInv
  <1>4. FileInv' /\ Scene!SavedBetweenGestures'
    BY <1>1 DEF SceneInv, FileInv, GoodFile, Scene!SavedBetweenGestures
  <1> QED
    BY <1>2, <1>3, <1>4 DEF SceneInv

LEMMA DeleteKeeps ==
    ASSUME Scene!SceneAssumption, SceneInv, Scene!DeleteSelected
    PROVE  SceneInv'
  <1> DEFINE source == Scene!ElementOf(elements, selected).source
  <1>0. nextElement \in Nat \ {0}
    BY SceneFacts DEF SceneInv, ListInv, ListOk
  <1>1. CASE selected \notin Scene!IdsOf(elements)
    <2>1. /\ selected' = 0
          /\ UNCHANGED <<elements, nextElement, colors, nextColor, framed, request, composed, rendered,
                         shown, drag, listDrag, saved, failures, stale>>
      BY <1>1 DEF Scene!DeleteSelected, Scene!fileVars
    <2>2. ListInv'
      BY <2>1 DEF SceneInv, ListInv, ListOk
    <2>3. ViewInv'
      BY <1>0, <2>1 DEF SceneInv, ViewInv
    <2> QED
      BY <2>1, <2>2, <2>3, UnsavedKeeps
  <1>2. CASE selected \in Scene!IdsOf(elements)
    <2> DEFINE gone == ~Scene!Uses(elements', source)
    <2>1. /\ selected' = 0 /\ drag' = 0 /\ Scene!Save
          /\ elements' = Scene!Without(elements, selected)
          /\ colors' = [c \in Scene!ColorIds |-> IF gone /\ c = source THEN NoColor ELSE colors[c]]
          /\ framed' \subseteq framed /\ rendered' \subseteq rendered
          /\ UNCHANGED <<nextElement, nextColor, request, composed, shown, listDrag>>
      BY <1>2 DEF Scene!DeleteSelected
    <2>2. /\ elements' \in Seq(Scene!Element) /\ Scene!Distinct(elements')
          /\ Scene!IdsOf(elements') \subseteq Scene!IdsOf(elements)
          /\ \A c : Scene!Uses(elements', c) => Scene!Uses(elements, c)
          /\ \A c : Scene!Uses(elements, c) /\ c # source => Scene!Uses(elements', c)
      BY <1>2, <2>1, WithoutOne DEF SceneInv, ListInv, ListOk
    <2> HIDE DEF source
    <2>3. \A c \in Scene!ColorIds :
             colors'[c] = IF ~Scene!Uses(elements', source) /\ c = source THEN NoColor ELSE colors[c]
      BY <2>1
    <2>4. colors' \in [Scene!ColorIds -> Colors \cup {NoColor}]
      BY <2>1 DEF SceneInv, ListInv, ListOk
    <2>5. \A c \in Scene!ColorIds : colors'[c] # NoColor <=> Scene!Uses(elements', c)
      BY <2>2, <2>3 DEF SceneInv, ListInv, ListOk
    <2>6. ListInv'
      BY <2>1, <2>2, <2>4, <2>5 DEF SceneInv, ListInv, ListOk
    <2>7. ViewInv'
      BY <1>0, <2>1 DEF SceneInv, ViewInv
    <2> QED
      BY <2>1, <2>6, <2>7, SaveKeeps DEF SceneInv
  <1> QED
    BY <1>1, <1>2

-----------------------------------------------------------------------------
(* The list and the preview.                                               *)

\* Ids in the list are of elements that were added.
LEMMA ListedIsOld ==
    ASSUME Scene!SceneAssumption, SceneInv, NEW id \in Scene!IdsOf(elements)
    PROVE  id \in 1 .. nextElement - 1 /\ id \in 0 .. nextElement - 1
  <1>1. \A i \in DOMAIN elements : elements[i].id \in 1 .. MaxId
    BY ElementOfSeq, ElementParts DEF SceneInv, ListInv, ListOk
  <1>2. id \in 1 .. MaxId /\ id < nextElement /\ nextElement \in Int
    BY <1>1, SceneFacts DEF SceneInv, ListInv, ListOk, Scene!IdsOf
  <1> QED
    BY <1>2

\* The scene does not change.
LEMMA ListKept ==
    ASSUME ListInv, UNCHANGED <<elements, nextElement, colors, nextColor>>
    PROVE  ListInv'
  BY DEF ListInv, ListOk

LEMMA ListStepKeeps ==
    ASSUME Scene!SceneAssumption, SceneInv, NEW id,
           Scene!SelectRow(id) \/ Scene!BeginRowDrag(id) \/ Scene!DropRow \/ Scene!EndDrag
    PROVE  SceneInv'
  <1>0. nextElement \in Nat \ {0}
    BY SceneFacts DEF SceneInv, ListInv, ListOk
  <1>1. UNCHANGED <<elements, nextElement, colors, nextColor, framed, request, composed, rendered, shown>>
    BY DEF Scene!SelectRow, Scene!BeginRowDrag, Scene!DropRow, Scene!EndDrag, Scene!sceneVars,
           Scene!pictureVars
  <1>2. ListInv'
    BY <1>1, ListKept DEF SceneInv
  <1>3. {selected', drag', listDrag'} \subseteq {selected, drag, listDrag, 0, id}
    BY DEF Scene!SelectRow, Scene!BeginRowDrag, Scene!DropRow, Scene!EndDrag, Scene!gestureVars
  <1>4. (Scene!SelectRow(id) \/ Scene!BeginRowDrag(id)) => id \in Scene!IdsOf(elements)
    BY DEF Scene!SelectRow, Scene!BeginRowDrag
  <1>5. ViewInv'
    <2>1. CASE Scene!SelectRow(id) \/ Scene!BeginRowDrag(id)
      BY <1>0, <1>1, <1>3, <1>4, <2>1, ListedIsOld DEF SceneInv, ViewInv
    <2>2. CASE Scene!DropRow
      BY <1>0, <1>1, <2>2 DEF SceneInv, ViewInv, Scene!DropRow
    <2>3. CASE Scene!EndDrag
      BY <1>0, <1>1, <2>3 DEF SceneInv, ViewInv, Scene!EndDrag
    <2> QED
      BY <2>1, <2>2, <2>3
  <1>6. CASE Scene!BeginRowDrag(id)
    <2>1. /\ drag = 0 /\ listDrag = 0
          /\ UNCHANGED <<elements, colors, saved, failures, stale>>
      BY <1>1, <1>6 DEF Scene!BeginRowDrag, Scene!fileVars
    <2> QED
      BY <1>2, <1>5, <2>1, UnsavedKeeps
  <1>7. CASE ~Scene!BeginRowDrag(id)
    <2>1. Scene!Save
      BY <1>7 DEF Scene!SelectRow, Scene!DropRow, Scene!EndDrag
    <2> QED
      BY <1>2, <1>5, <2>1, SaveKeeps DEF SceneInv
  <1> QED
    BY <1>6, <1>7

\* A row that is dragged over another.
LEMMA RowMoves ==
    ASSUME Scene!SceneAssumption, SceneInv, NEW to, Scene!DragRowOver(to)
    PROVE  LET j == Scene!PlaceOf(elements, listDrag)
           IN  /\ j \in 1 .. Len(elements) /\ to \in 1 .. Len(elements)
               /\ elements' = Scene!Moved(elements, j, to) /\ elements[j].id = listDrag
               /\ elements \in Seq(Scene!Element) /\ Scene!Distinct(elements)
  <1>1. elements \in Seq(Scene!Element) /\ Scene!Distinct(elements) /\ DOMAIN elements = 1 .. Len(elements)
    BY DEF SceneInv, ListInv, ListOk
  <1> QED
    BY <1>1, ItsPlace DEF Scene!DragRowOver

LEMMA DragRowKeeps ==
    ASSUME Scene!SceneAssumption, SceneInv, NEW to, Scene!DragRowOver(to)
    PROVE  SceneInv'
  <1> DEFINE j == Scene!PlaceOf(elements, listDrag)
  <1>1. /\ j \in 1 .. Len(elements) /\ to \in 1 .. Len(elements)
        /\ elements' = Scene!Moved(elements, j, to)
        /\ elements \in Seq(Scene!Element) /\ Scene!Distinct(elements)
    BY RowMoves
  <1> HIDE DEF j
  <1>2. /\ elements' \in Seq(Scene!Element) /\ Scene!Distinct(elements')
        /\ Scene!IdsOf(elements') = Scene!IdsOf(elements)
        /\ \A c : Scene!Uses(elements', c) <=> Scene!Uses(elements, c)
    BY <1>1, OneMoved
  <1>3. UNCHANGED <<nextElement, colors, nextColor, selected, framed, request, composed, rendered,
                    shown, drag, listDrag>>
    BY DEF Scene!DragRowOver, Scene!pictureVars, Scene!gestureVars
  <1>4. ListInv'
    BY <1>2, <1>3 DEF SceneInv, ListInv, ListOk
  <1>5. ViewInv'
    BY <1>3 DEF SceneInv, ViewInv
  <1> QED
    BY <1>4, <1>5, SaveKeeps DEF SceneInv, Scene!DragRowOver

\* A press in the preview, and pictures on their way to it.
LEMMA PreviewStepKeeps ==
    ASSUME Scene!SceneAssumption, SceneInv,
           \/ Scene!Press \/ Scene!RenderReady \/ Scene!Compose \/ Scene!ShowFrame
           \/ \E s \in Captures : Scene!FrameArrives(s)
    PROVE  SceneInv'
  <1>0. nextElement \in Nat \ {0}
    BY SceneFacts DEF SceneInv, ListInv, ListOk
  <1>1. UNCHANGED <<elements, nextElement, colors, nextColor, listDrag, saved, failures, stale>>
    BY DEF Scene!Press, Scene!RenderReady, Scene!Compose, Scene!ShowFrame, Scene!FrameArrives,
           Scene!sceneVars, Scene!gestureVars, Scene!fileVars
  <1>2. ListInv'
    BY <1>1, ListKept DEF SceneInv
  <1>3. CASE Scene!Press
    <2>1. /\ UNCHANGED <<framed, request, composed, rendered, shown>>
          /\ selected' \in rendered \cup {selected, 0} /\ drag' \in rendered \cup {selected, 0}
          /\ drag = 0 /\ listDrag = 0
      BY <1>3 DEF Scene!Press, Scene!pictureVars
    <2>2. rendered \subseteq 0 .. nextElement - 1
      BY <1>0 DEF SceneInv, ViewInv
    <2>3. ViewInv'
      BY <1>0, <1>1, <2>1, <2>2 DEF SceneInv, ViewInv
    <2> QED
      BY <1>1, <1>2, <2>1, <2>3, UnsavedKeeps
  <1>4. CASE Scene!RenderReady
    <2>1. request' = Scene!Drawn /\ UNCHANGED <<selected, framed, composed, rendered, shown, drag>>
      BY <1>4 DEF Scene!RenderReady, Scene!gestureVars
    <2>2. Scene!Drawn \subseteq Scene!IdsOf(elements)
      BY DEF Scene!Drawn, Scene!IdsOf
    <2>3. request' \subseteq 1 .. nextElement - 1
      BY <2>1, <2>2, ListedIsOld
    <2>4. ViewInv'
      BY <1>1, <2>1, <2>3 DEF SceneInv, ViewInv
    <2> QED
      BY <1>1, <1>2, <2>1, <2>4, UnsavedKeeps
  <1>5. CASE Scene!Compose
    <2>1. /\ composed' = request /\ request' = Scene!NoPicture
          /\ UNCHANGED <<selected, framed, rendered, shown, drag>>
      BY <1>5 DEF Scene!Compose, Scene!gestureVars
    <2>2. ViewInv'
      BY <1>1, <2>1 DEF SceneInv, ViewInv
    <2> QED
      BY <1>1, <1>2, <2>1, <2>2, UnsavedKeeps
  <1>6. CASE Scene!ShowFrame
    <2>1. /\ composed # Scene!NoPicture /\ rendered' = composed /\ composed' = Scene!NoPicture
          /\ shown' = TRUE /\ UNCHANGED <<selected, framed, request, drag>>
      BY <1>6 DEF Scene!ShowFrame, Scene!gestureVars
    <2>2. ViewInv'
      BY <1>1, <2>1 DEF SceneInv, ViewInv
    <2> QED
      BY <1>1, <1>2, <2>1, <2>2, UnsavedKeeps
  <1>7. CASE \E s \in Captures : Scene!FrameArrives(s)
    <2>1. /\ framed' \subseteq Captures
          /\ UNCHANGED <<selected, request, composed, rendered, shown, drag>>
      BY <1>7 DEF Scene!FrameArrives, Scene!gestureVars, SceneInv, ViewInv
    <2>2. ViewInv'
      BY <1>1, <2>1 DEF SceneInv, ViewInv
    <2> QED
      BY <1>1, <1>2, <2>1, <2>2, UnsavedKeeps
  <1> QED
    BY <1>3, <1>4, <1>5, <1>6, <1>7

LEMMA RestartKeeps ==
    ASSUME Scene!SceneAssumption, SceneInv, Scene!Restart
    PROVE  SceneInv'
  <1> DEFINE p == Scene!Loaded(saved)
  <1>1. GoodFile(p) /\ Scene!IsValid(p)
    BY DefaultIsGood DEF SceneInv, FileInv, Scene!Loaded
  <1>2. saved # Scene!NoProject /\ Scene!IsValid(saved) => p = saved
    BY DEF Scene!Loaded
  <1>3. Scene!Start(p, elements', nextElement', colors', nextColor', selected')
    BY DEF Scene!Restart
  <1> HIDE DEF p
  <1>4. /\ ListOk(elements', nextElement', colors', nextColor') /\ selected' \in 0 .. nextElement' - 1
        /\ Scene!Snapshot(elements', colors', selected').elements = p.elements
    BY <1>1, <1>3, StartIsOk
  <1>5. /\ framed' = {} /\ request' = Scene!NoPicture /\ composed' = Scene!NoPicture
        /\ rendered' = {} /\ shown' = FALSE /\ drag' = 0 /\ listDrag' = 0 /\ stale' = FALSE
        /\ UNCHANGED <<saved, failures>>
    BY DEF Scene!Restart
  <1>6. ListInv'
    BY <1>4 DEF ListInv
  <1>7. ViewInv'
    <2>1. nextElement' \in 1 .. MaxId + 1 /\ MaxId \in Nat
      BY <1>4, SceneFacts DEF ListOk
    <2>2. 0 \in 0 .. nextElement' - 1
      <3>1. \A n \in Int, m \in Nat : n \in 1 .. m + 1 => 0 \in 0 .. n - 1
        OBVIOUS
      <3>2. nextElement' \in Int
        BY <2>1
      <3> QED
        BY <2>1, <3>1, <3>2
    <2> QED
      BY <1>4, <1>5, <2>2 DEF ViewInv
  <1>8. FileInv'
    BY <1>5 DEF SceneInv, FileInv, GoodFile
  <1>9. Scene!SavedBetweenGestures'
    BY <1>2, <1>4, <1>5 DEF Scene!SavedBetweenGestures
  <1> QED
    BY <1>6, <1>7, <1>8, <1>9 DEF SceneInv

LEMMA SceneBegins ==
    ASSUME Scene!SceneAssumption, Scene!Init
    PROVE  SceneInv
  <1>1. Scene!Start(Scene!DefaultProject, elements, nextElement, colors, nextColor, selected)
    BY DEF Scene!Init
  <1>2. ListOk(elements, nextElement, colors, nextColor) /\ selected \in 0 .. nextElement - 1
    BY <1>1, StartIsOk, DefaultIsGood
  <1>3. nextElement \in Nat \ {0}
    BY <1>2, SceneFacts DEF ListOk
  <1>4. /\ framed = {} /\ request = Scene!NoPicture /\ composed = Scene!NoPicture
        /\ rendered = {} /\ shown = FALSE /\ drag = 0 /\ listDrag = 0
        /\ saved = Scene!NoProject /\ failures = 0 /\ stale = FALSE
    BY DEF Scene!Init
  <1>5. ViewInv
    <2>1. 0 \in 0 .. nextElement - 1
      BY <1>3
    <2> QED
      BY <1>2, <1>4, <2>1 DEF ViewInv
  <1>6. FileInv /\ Scene!SavedBetweenGestures
    <2>1. 0 \in 0 .. MaxFailures
      BY SceneFacts
    <2>2. FileInv
      BY <1>4, <2>1 DEF FileInv
    <2> QED
      BY <1>4, <2>2 DEF Scene!SavedBetweenGestures
  <1> QED
    BY <1>2, <1>5, <1>6 DEF SceneInv, ListInv

LEMMA SceneStep ==
    ASSUME Scene!SceneAssumption, SceneInv, [Scene!Next]_(Scene!vars)
    PROVE  SceneInv'
  <1>1. CASE UNCHANGED Scene!vars
    BY <1>1 DEF Scene!vars, Scene!sceneVars, Scene!pictureVars, Scene!gestureVars, Scene!fileVars,
           SceneInv, ListInv, ListOk, ViewInv, FileInv, GoodFile, Scene!SavedBetweenGestures
  <1>2. CASE Scene!Next
    BY <1>2, AddCaptureKeeps, ReplaceKeeps, AddColorKeeps, SetColorKeeps, DeleteKeeps,
       MoveSelectedKeeps, ListStepKeeps, DragRowKeeps, DragInsetKeeps, PreviewStepKeeps, RestartKeeps
       DEF Scene!Next
  <1> QED
    BY <1>1, <1>2

\* What the invariant says of the scene, its ids and its file.
LEMMA InvariantKeepsScene ==
    ASSUME Scene!SceneAssumption, SceneInv
    PROVE  SceneIsKept
  <1>0. /\ nextElement \in 1 .. MaxId + 1 /\ MaxId \in Nat /\ Scene!Ids = 1 .. MaxId
        /\ Scene!NoPicture = {0}
    BY SceneFacts DEF SceneInv, ListInv, ListOk, Scene!NoPicture
  <1>1. Scene!TypeOK
    <2>1. \A p \in {request, composed} : p = Scene!NoPicture \/ p \subseteq Scene!Ids
      <3>1. 1 .. nextElement - 1 \subseteq Scene!Ids
        BY <1>0
      <3> QED
        BY <3>1 DEF SceneInv, ViewInv
    <2>2. {selected, drag, listDrag} \subseteq 0 .. MaxId /\ rendered \subseteq Scene!Ids
      BY <1>0 DEF SceneInv, ViewInv
    <2>3. saved # Scene!NoProject =>
             saved.elements \in Seq(Scene!SavedElement) /\ saved.selected \in 0 .. MaxId
      BY DEF SceneInv, FileInv, GoodFile
    <2> QED
      BY <2>1, <2>2, <2>3 DEF Scene!TypeOK, SceneInv, ListInv, ListOk, ViewInv, FileInv
  <1>2. Scene!OnlySelectionRefused
    <2> SUFFICES ASSUME GoodFile(saved) PROVE Scene!IsValid([saved EXCEPT !.selected = 0])
      BY DEF Scene!OnlySelectionRefused, SceneInv, FileInv
    <2>1. [saved EXCEPT !.selected = 0].elements = saved.elements /\ [saved EXCEPT !.selected = 0].selected = 0
      BY DEF GoodFile
    <2> QED
      BY <2>1 DEF Scene!IsValid, GoodFile
  <1>3. Scene!FreshId
    <2>1. nextElement \notin Scene!IdsOf(elements)
      BY <1>0, ListedIsOld
    <2>2. nextElement \notin request \cup composed \cup rendered \cup {selected, drag, listDrag}
      BY <1>0 DEF SceneInv, ViewInv
    <2> QED
      BY <2>1, <2>2 DEF Scene!FreshId
  <1>4. Scene!ColorsAreUsed
    BY DEF SceneInv, ListInv, ListOk, Scene!ColorsAreUsed
  <1> QED
    BY <1>1, <1>2, <1>3, <1>4 DEF SceneIsKept, SceneInv

\* The scene on the screen, its file and its ids: whatever is added, replaced, deleted,
\* dragged, recoloured and restored, while pictures of older scenes come late.
THEOREM SceneStaysKept ==
    ASSUME Scene!SceneAssumption
    PROVE  Scene!Spec => []SceneIsKept
  <1>1. Scene!Init => SceneInv
    BY SceneBegins
  <1>2. SceneInv /\ [Scene!Next]_(Scene!vars) => SceneInv'
    BY SceneStep
  <1>3. SceneInv => SceneIsKept
    BY InvariantKeepsScene
  <1> QED
    BY <1>1, <1>2, <1>3, PTL DEF Scene!Spec

\* A row that is dragged over another comes to its place, past the others.
LEMMA RowStaysItself ==
    ASSUME Scene!SceneAssumption, SceneInv, NEW to, Scene!DragRowOver(to)
    PROVE  /\ Scene!Without(elements', listDrag) = Scene!Without(elements, listDrag)
           /\ elements'[to].id = listDrag
  <1> DEFINE j == Scene!PlaceOf(elements, listDrag)
             r == Scene!Moved(elements, j, to)
  <1>1. /\ j \in 1 .. Len(elements) /\ to \in 1 .. Len(elements)
        /\ elements' = r /\ elements[j].id = listDrag
        /\ elements \in Seq(Scene!Element) /\ Scene!Distinct(elements)
    BY RowMoves
  <1>2. /\ r \in Seq(Scene!Element) /\ Scene!Distinct(r) /\ Len(r) = Len(elements)
        /\ r[to] = elements[j] /\ Scene!RemoveAt(r, to) = Scene!RemoveAt(elements, j)
    BY <1>1, OneMoved
  <1>3. Scene!PlaceOf(r, listDrag) = to
    <2> HIDE DEF r
    <2> QED
      BY <1>1, <1>2, OnePlace
  <1> HIDE DEF r
  <1> QED
    BY <1>1, <1>2, <1>3 DEF Scene!Without

-----------------------------------------------------------------------------
(* The canvas of StudioParts.                                              *)

CanvasNumbers ==
    /\ CanvasSize \in Nat \ {0} /\ CanvasSize % 4 = 0
    /\ Pointers \subseteq Int /\ Typed \subseteq Int
    /\ Threshold \in Nat /\ MinSize \in Nat /\ MinSize >= 2 /\ MaxSize \in Nat
    /\ MaxEdits \in Nat

\* A move knows where on the element it began, and a resize the box that what was
\* drawn belongs to, if the picture was that of the layout.
Moving(o) ==
    /\ handle = [kind |-> "move", offset |-> o]
    /\ pressed.pointer \in 0 .. CanvasSize => o = 2 * pressed.pointer - pressed.center
Resizing(side, size, drawn, anchor) ==
    /\ handle = [kind |-> "resize", side |-> side, size |-> size, drawn |-> drawn, anchor |-> anchor]
    /\ pressed.current => size = shrink * drawn

\* A box is a whole number of what is drawn of it.
BoxInv ==
    /\ layout \in [center : Int, size : Nat \ {0}] /\ layout.size % shrink = 0
    /\ shrink \in {1, 2} /\ edits \in 0 .. MaxEdits
    /\ onScreen \in [center : Int, size : Nat \ {0}]

GestureInv ==
    /\ pressed \in [pointer : Int, center : Int, current : BOOLEAN]
    /\ \/ handle = Canvas!NoDrag
       \/ \E o \in Int : Moving(o)
       \/ \E side \in {-1, 1}, size \in Nat \ {0}, drawn \in Nat \ {0}, anchor \in Int :
             Resizing(side, size, drawn, anchor)

CanvasInv == BoxInv /\ GestureInv

\* The bounds as facts about numbers.
LEMMA CanvasFacts ==
    ASSUME Canvas!LayoutAssumption
    PROVE  CanvasNumbers
  BY DEF Canvas!LayoutAssumption, CanvasNumbers

\* A product is divided by one of its factors.
LEMMA ExactDivision ==
    ASSUME NEW a \in Int, NEW b \in Nat \ {0}
    PROVE  (a * b) \div b = a
  BY SMTT(20)

\* What is drawn of a box that is a whole number of it.
LEMMA DrawnPart ==
    ASSUME NEW s \in {1, 2}, NEW l \in [center : Int, size : Nat \ {0}], l.size % s = 0
    PROVE  /\ Canvas!Transform(l, s) = [center |-> l.center, size |-> l.size \div s]
           /\ Canvas!Transform(l, s) \in [center : Int, size : Nat \ {0}]
           /\ l.size = s * (l.size \div s)
  <1>1. l.size \in Nat \ {0} /\ l.center \in Int
    OBVIOUS
  <1>2. l.size \div s \in Nat \ {0} /\ l.size = s * (l.size \div s)
    <2>1. CASE s = 1
      BY <1>1, <2>1
    <2>2. CASE s = 2
      BY <1>1, <2>2
    <2> QED
      BY <2>1, <2>2
  <1> QED
    BY <1>1, <1>2 DEF Canvas!Transform

LEMMA CanvasBegins ==
    ASSUME Canvas!LayoutAssumption, Canvas!Init
    PROVE  CanvasInv
  <1>1. PICK size \in {CanvasSize, CanvasSize \div 2} : layout = [center |-> CanvasSize, size |-> size]
    BY DEF Canvas!Init, Canvas!NewLayouts
  <1>2. size \in Nat \ {0} /\ size % 2 = 0 /\ size % 1 = 0 /\ CanvasSize \in Int /\ 0 \in 0 .. MaxEdits
    BY CanvasFacts, <1>1 DEF CanvasNumbers
  <1>3. shrink \in {1, 2} /\ onScreen = Canvas!Transform(layout, shrink) /\ handle = Canvas!NoDrag
        /\ pressed = [pointer |-> 0, center |-> 0, current |-> FALSE] /\ edits = 0
    BY DEF Canvas!Init, Canvas!NotPressed
  <1>4. layout \in [center : Int, size : Nat \ {0}] /\ layout.size % shrink = 0
    BY <1>1, <1>2, <1>3
  <1>5. BoxInv
    BY <1>2, <1>3, <1>4, DrawnPart DEF BoxInv
  <1>6. GestureInv
    BY <1>3 DEF GestureInv
  <1> QED
    BY <1>5, <1>6 DEF CanvasInv

\* While no gesture is under way anything may happen to the layout.
LEMMA FreeGesture ==
    ASSUME GestureInv, handle = Canvas!NoDrag \/ shrink' = shrink, UNCHANGED <<handle, pressed>>
    PROVE  GestureInv'
  <1>1. CASE handle = Canvas!NoDrag
    BY <1>1 DEF GestureInv, Canvas!NoDrag
  <1>2. CASE shrink' = shrink
    BY <1>2 DEF GestureInv, Moving, Resizing, Canvas!NoDrag
  <1> QED
    BY <1>1, <1>2

LEMMA NewBox ==
    ASSUME Canvas!LayoutAssumption, BoxInv, NEW c \in Int, NEW n \in Nat, NEW s \in {1, 2},
           Canvas!Whole(n, s), shrink' = s,
           layout' = [center |-> c, size |-> n], edits' \in 0 .. MaxEdits, UNCHANGED onScreen
    PROVE  BoxInv'
  <1>1. n \in Nat \ {0} /\ n % s = 0
    BY CanvasFacts DEF CanvasNumbers, Canvas!Whole
  <1> QED
    BY <1>1 DEF BoxInv

LEMMA EditCounts ==
    ASSUME Canvas!LayoutAssumption, BoxInv, Canvas!Edit
    PROVE  edits' \in 0 .. MaxEdits
  BY CanvasFacts DEF CanvasNumbers, BoxInv, Canvas!Edit

\* How a gesture begins.
LEMMA BegunParts ==
    ASSUME NEW p \in Int, BoxInv
    PROVE  /\ Canvas!Begun(p) \in [pointer : Int, center : Int, current : BOOLEAN]
           /\ Canvas!Begun(p).pointer = p /\ Canvas!Begun(p).center = onScreen.center
           /\ Canvas!Begun(p).current <=> onScreen = Canvas!Transform(layout, shrink)
  <1>1. onScreen.center \in Int
    BY DEF BoxInv
  <1> QED
    BY <1>1 DEF Canvas!Begun

LEMMA PressKeeps ==
    ASSUME Canvas!LayoutAssumption, CanvasInv,
           (\E p \in Pointers : Canvas!PressToMove(p)) \/ (\E side \in {-1, 1} : Canvas!PressToResize(side))
    PROVE  CanvasInv'
  <1>1. Canvas!Edit /\ UNCHANGED <<layout, shrink, onScreen>>
    BY DEF Canvas!PressToMove, Canvas!PressToResize
  <1>2. BoxInv'
    BY <1>1, EditCounts DEF CanvasInv, BoxInv
  <1>3. layout.size \in Nat \ {0} /\ onScreen.size \in Nat \ {0} /\ onScreen.center \in Int /\ shrink \in {1, 2}
    BY DEF CanvasInv, BoxInv
  <1>4. CASE \E p \in Pointers : Canvas!PressToMove(p)
    <2>1. PICK p \in Pointers :
             /\ handle' = [kind |-> "move", offset |-> 2 * Canvas!Clamp(p, 0, CanvasSize) - onScreen.center]
             /\ pressed' = Canvas!Begun(p)
      BY <1>4 DEF Canvas!PressToMove
    <2>2. p \in Int /\ CanvasSize \in Nat
      BY CanvasFacts DEF CanvasNumbers
    <2>3. PICK o \in Int : /\ o = 2 * Canvas!Clamp(p, 0, CanvasSize) - onScreen.center
                           /\ p \in 0 .. CanvasSize => o = 2 * p - onScreen.center
      BY <1>3, <2>2 DEF Canvas!Clamp
    <2>4. pressed' \in [pointer : Int, center : Int, current : BOOLEAN]
          /\ pressed'.pointer = p /\ pressed'.center = onScreen.center
      BY <2>1, <2>2, BegunParts DEF CanvasInv
    <2>5. Moving(o)'
      BY <2>1, <2>3, <2>4 DEF Moving
    <2> QED
      BY <1>2, <2>4, <2>5 DEF CanvasInv, GestureInv
  <1>5. CASE \E side \in {-1, 1} : Canvas!PressToResize(side)
    <2>1. PICK side \in {-1, 1} :
             /\ handle' = [kind |-> "resize", side |-> side, size |-> layout.size, drawn |-> onScreen.size,
                           anchor |-> Canvas!Edge(onScreen, -side)]
             /\ pressed' = Canvas!Begun(0)
      BY <1>5 DEF Canvas!PressToResize
    <2>2. PICK size \in Nat \ {0}, drawn \in Nat \ {0}, a \in Int :
             size = layout.size /\ drawn = onScreen.size /\ a = Canvas!Edge(onScreen, -side)
      BY <1>3 DEF Canvas!Edge
    <2>3. /\ pressed' \in [pointer : Int, center : Int, current : BOOLEAN]
          /\ pressed'.current <=> onScreen = Canvas!Transform(layout, shrink)
      BY <2>1, BegunParts DEF CanvasInv
    <2>4. pressed'.current => layout.size = shrink * onScreen.size
      BY <2>3, DrawnPart DEF CanvasInv, BoxInv
    <2>5. Resizing(side, size, drawn, a)'
      BY <1>1, <2>1, <2>2, <2>4 DEF Resizing
    <2> QED
      BY <1>2, <2>3, <2>5 DEF CanvasInv, GestureInv
  <1> QED
    BY <1>4, <1>5

\* Where the move takes the element, whatever it snaps to.
LEMMA SnapIsNearest ==
    ASSUME Canvas!LayoutAssumption, NEW c \in Int, NEW size \in Int
    PROVE  LET m == Canvas!SnappedMove(c, size)
               near == {a \in {size, CanvasSize, 2 * CanvasSize - size} : Canvas!Abs(a - c) <= 2 * Threshold}
           IN  /\ m \in Int
               /\ IF near = {} THEN m = c
                  ELSE m \in near /\ \A a \in near : Canvas!Abs(m - c) <= Canvas!Abs(a - c)
  <1> DEFINE snaps == Canvas!Snaps(c, size)
             away(i) == Canvas!Abs(snaps[i].target - snaps[i].at)
             close == {i \in 1 .. 3 : away(i) <= 2 * Threshold}
             first(i) == \A j \in close : away(i) < away(j) \/ (away(i) = away(j) /\ i <= j)
             m == Canvas!SnappedMove(c, size)
             near == {a \in {size, CanvasSize, 2 * CanvasSize - size} : Canvas!Abs(a - c) <= 2 * Threshold}
  <1>1. CanvasSize \in Int /\ Threshold \in Int
    BY CanvasFacts DEF CanvasNumbers
  <1>2. /\ snaps[1].center = size /\ snaps[2].center = CanvasSize /\ snaps[3].center = 2 * CanvasSize - size
        /\ snaps[1].target - snaps[1].at = 0 - (c - size)
        /\ snaps[2].target - snaps[2].at = CanvasSize - c
        /\ snaps[3].target - snaps[3].at = 2 * CanvasSize - (c + size)
    BY <1>1 DEF Canvas!Snaps
  <1>3. \A i \in 1 .. 3 : away(i) = Canvas!Abs(snaps[i].center - c) /\ away(i) \in Int /\ snaps[i].center \in Int
    <2>1. away(1) = Canvas!Abs(snaps[1].center - c) /\ away(1) \in Int /\ snaps[1].center \in Int
      BY <1>1, <1>2 DEF Canvas!Abs
    <2>2. away(2) = Canvas!Abs(snaps[2].center - c) /\ away(2) \in Int /\ snaps[2].center \in Int
      BY <1>1, <1>2 DEF Canvas!Abs
    <2>3. away(3) = Canvas!Abs(snaps[3].center - c) /\ away(3) \in Int /\ snaps[3].center \in Int
      BY <1>1, <1>2 DEF Canvas!Abs
    <2>4. \A i \in 1 .. 3 : i = 1 \/ i = 2 \/ i = 3
      OBVIOUS
    <2> QED
      BY <2>1, <2>2, <2>3, <2>4
  <1>4. near = {snaps[i].center : i \in close}
    <2>1. {size, CanvasSize, 2 * CanvasSize - size} = {snaps[i].center : i \in 1 .. 3}
      BY <1>2
    <2> HIDE DEF snaps
    <2> QED
      BY <1>3, <2>1
  <1>5. m = IF close = {} THEN c ELSE snaps[CHOOSE i \in close : first(i)].center
    BY DEF Canvas!SnappedMove
  <1>6. CASE close = {}
    BY <1>4, <1>5, <1>6
  <1>7. CASE close # {}
    <2> HIDE DEF snaps, m
    <2>1. close \subseteq 1 .. 3 /\ \A i \in close : away(i) \in Int
      BY <1>3
    <2> HIDE DEF away, close
    <2>2. \E i \in close : first(i)
      <3>0. /\ \A j \in close : j = 1 \/ j = 2 \/ j = 3
            /\ 1 \in close \/ 2 \in close \/ 3 \in close
        <4>1. \A j \in close : j = 1 \/ j = 2 \/ j = 3
          BY <2>1
        <4>2. PICK j : j \in close
          BY <1>7
        <4> QED
          BY <4>1, <4>2
      <3>1. CASE 1 \in close /\ (2 \in close => away(1) <= away(2)) /\ (3 \in close => away(1) <= away(3))
        BY <2>1, <3>0, <3>1
      <3>2. CASE 2 \in close /\ (1 \in close => away(2) < away(1)) /\ (3 \in close => away(2) <= away(3))
        BY <2>1, <3>0, <3>2
      <3>3. CASE 3 \in close /\ (1 \in close => away(3) < away(1)) /\ (2 \in close => away(3) < away(2))
        BY <2>1, <3>0, <3>3
      <3>4. \A i \in {1, 2, 3} : i \in close => away(i) \in Int
        BY <2>1
      <3> QED
        BY <3>0, <3>1, <3>2, <3>3, <3>4
    <2>3. PICK i \in close : first(i) /\ m = snaps[i].center
      BY <1>5, <1>7, <2>2
    <2>4. \A j \in close : away(i) <= away(j)
      BY <2>1, <2>3
    <2>5. \A j \in close : away(j) = Canvas!Abs(snaps[j].center - c) /\ snaps[j].center \in Int
      BY <1>3, <2>1 DEF away
    <2> HIDE DEF first, near
    <2>6. m \in near /\ m \in Int
      BY <1>4, <2>3, <2>5
    <2>7. ASSUME NEW a \in near PROVE Canvas!Abs(m - c) <= Canvas!Abs(a - c)
      <3>1. PICK j \in close : a = snaps[j].center
        BY <1>4, <2>7
      <3> QED
        BY <2>3, <2>4, <2>5, <3>1
    <2>8. near # {}
      BY <2>6
    <2> QED
      BY <2>6, <2>7, <2>8 DEF near, m
  <1> QED
    BY <1>6, <1>7

LEMMA RepositionKeeps ==
    ASSUME Canvas!LayoutAssumption, CanvasInv, NEW p \in Pointers, Canvas!Reposition(p)
    PROVE  CanvasInv'
  <1>1. p \in Int /\ handle.kind = "move"
    BY CanvasFacts DEF CanvasNumbers, Canvas!Reposition
  <1>2. PICK o \in Int : Moving(o)
    BY <1>1 DEF CanvasInv, GestureInv, Resizing, Canvas!NoDrag
  <1>3. PICK c \in Int : layout' = [layout EXCEPT !.center = c]
    <2>1. handle.offset = o /\ onScreen.size \in Int
      BY <1>2 DEF Moving, CanvasInv, BoxInv
    <2>2. \A c, size \in Int : Canvas!SnappedMove(c, size) \in Int
      BY SnapIsNearest
    <2>3. 2 * p - o \in Int
      BY <1>1
    <2> QED
      BY <2>1, <2>2, <2>3 DEF Canvas!Reposition
  <1>4. UNCHANGED <<shrink, onScreen, handle, pressed, edits>>
    BY DEF Canvas!Reposition
  <1>5. BoxInv'
    BY <1>3, <1>4 DEF CanvasInv, BoxInv
  <1> QED
    BY <1>4, <1>5, FreeGesture DEF CanvasInv

\* How far an edge may go: to a place, or to the least size.
Reached(side, anchor, least, x) ==
    IF side * (x - (anchor + 2 * side * least)) > 0 THEN x ELSE anchor + 2 * side * least

LEMMA EdgeReaches ==
    ASSUME NEW side \in {-1, 1}, NEW anchor \in Int, NEW least \in Int, NEW x \in Int
    PROVE  LET n == Canvas!Greater((side * (x - anchor)) \div 2, least)
           IN  /\ n \in Int /\ n >= least
               /\ Canvas!Abs((anchor + 2 * side * n) - Reached(side, anchor, least, x)) <= 1
  <1>1. CASE side = 1
    BY <1>1 DEF Canvas!Greater, Canvas!Abs, Reached
  <1>2. CASE side = -1
    BY <1>2 DEF Canvas!Greater, Canvas!Abs, Reached
  <1> QED
    BY <1>1, <1>2

\* The least size is one that the box may have.
LEMMA LeastIsEnough ==
    ASSUME Canvas!LayoutAssumption, NEW d, NEW size \in Nat \ {0}, NEW drawn \in Nat \ {0},
           d.size = size, d.drawn = drawn
    PROVE  /\ Canvas!LeastDrawn(d) \in Int
           /\ \A s \in {1, 2}, n \in Int :
                 size = s * drawn /\ n >= Canvas!LeastDrawn(d) => s * n >= MinSize /\ n >= 1
  <1>1. MinSize \in Nat /\ MinSize >= 2
    BY CanvasFacts DEF CanvasNumbers
  <1>2. PICK m \in Int : m = MinSize * drawn
    BY <1>1
  <1>3. Canvas!LeastDrawn(d) = (m + size - 1) \div size
    BY <1>2 DEF Canvas!LeastDrawn
  <1>4. PICK q \in Int : q = (m + size - 1) \div size /\ size * q >= m
    <2>1. PICK x \in Int : x = m + size - 1
      BY <1>2
    <2>2. PICK q \in Int : q = x \div size /\ size * q > x - size
      BY SMTT(20)
    <2> QED
      BY <2>1, <2>2
  <1>5. ASSUME NEW s \in {1, 2}, NEW n \in Int, size = s * drawn, n >= q
        PROVE  s * n >= MinSize /\ n >= 1
    <2>1. size * n >= size * q
      <3>1. \A a \in Int : a >= 0 => size * a >= 0
        OBVIOUS
      <3>2. size * (n - q) >= 0
        BY <1>5, <3>1
      <3> QED
        BY <3>2
    <2>2. drawn * (s * n - MinSize) >= 0
      <3>1. size * n = drawn * (s * n)
        BY <1>5
      <3>2. drawn * (s * n - MinSize) = drawn * (s * n) - MinSize * drawn
        BY <1>1
      <3> QED
        BY <1>1, <1>2, <1>4, <2>1, <3>1, <3>2
    <2>3. \A a \in Int : drawn * a >= 0 => a >= 0
      OBVIOUS
    <2>4. s * n >= MinSize
      BY <1>1, <2>2, <2>3
    <2> QED
      BY <1>1, <2>4
  <1> QED
    BY <1>3, <1>4, <1>5

\* A dragged edge reaches the pointer, or the border that is near it.
LEMMA SnappedReaches ==
    ASSUME Canvas!LayoutAssumption, NEW d, NEW p \in Int, NEW side \in {-1, 1}, NEW anchor \in Int,
           NEW size \in Nat \ {0}, NEW drawn \in Nat \ {0},
           d.side = side, d.anchor = anchor, d.size = size, d.drawn = drawn,
           NEW b \in Int, b = Canvas!Border(side),
           NEW n, n = Canvas!SnappedDrawn(d, p), NEW least, least = Canvas!LeastDrawn(d)
    PROVE  /\ n \in Int /\ n >= least
           /\ \/ Canvas!Abs((anchor + 2 * side * n) - Reached(side, anchor, least, 2 * p)) <= 1
              \/ /\ Canvas!Abs((anchor + 2 * side * n) - Reached(side, anchor, least, b)) <= 1
                 /\ Canvas!Abs(Reached(side, anchor, least, b) - Reached(side, anchor, least, 2 * p))
                       <= 2 * Threshold + 1
  <1> DEFINE to(x) == Canvas!Greater((side * (x - anchor)) \div 2, least)
             reach(x) == Reached(side, anchor, least, x)
  <1>0. CanvasSize \in Nat /\ Threshold \in Nat /\ least \in Int
    BY CanvasFacts, LeastIsEnough DEF CanvasNumbers
  <1>2. n = IF Canvas!Abs(anchor + 2 * side * to(2 * p) - b) > 2 * Threshold
            THEN to(2 * p) ELSE to(b)
    BY DEF Canvas!SnappedDrawn, Canvas!Drawn
  <1>3. \A x \in Int : /\ to(x) \in Int /\ to(x) >= least
                      /\ Canvas!Abs((anchor + 2 * side * to(x)) - reach(x)) <= 1
    BY <1>0, EdgeReaches
  <1> HIDE DEF to
  <1>4. PICK n1 \in Int, n2 \in Int :
           /\ n1 = to(2 * p) /\ n2 = to(b) /\ n1 >= least /\ n2 >= least
           /\ Canvas!Abs((anchor + 2 * side * n1) - reach(2 * p)) <= 1
           /\ Canvas!Abs((anchor + 2 * side * n2) - reach(b)) <= 1
    <2>1. 2 * p \in Int
      OBVIOUS
    <2> QED
      BY <1>3, <2>1
  <1>5. ASSUME Canvas!Abs(anchor + 2 * side * n1 - b) <= 2 * Threshold
        PROVE  Canvas!Abs(reach(b) - reach(2 * p)) <= 2 * Threshold + 1
    <2>1. CASE side = 1
      BY <1>0, <1>4, <1>5, <2>1 DEF Canvas!Abs, Reached
    <2>2. CASE side = -1
      BY <1>0, <1>4, <1>5, <2>2 DEF Canvas!Abs, Reached
    <2> QED
      BY <2>1, <2>2
  <1> DEFINE near(m) == \/ Canvas!Abs((anchor + 2 * side * m) - reach(2 * p)) <= 1
                        \/ /\ Canvas!Abs((anchor + 2 * side * m) - reach(b)) <= 1
                           /\ Canvas!Abs(reach(b) - reach(2 * p)) <= 2 * Threshold + 1
  <1>6. ASSUME Canvas!Abs(anchor + 2 * side * n1 - b) <= 2 * Threshold PROVE near(n)
    <2>1. n = n2
      BY <1>0, <1>2, <1>4, <1>6 DEF Canvas!Abs
    <2> QED
      BY <1>4, <1>5, <1>6, <2>1
  <1>7. ASSUME Canvas!Abs(anchor + 2 * side * n1 - b) > 2 * Threshold PROVE near(n)
    <2>1. n = n1
      BY <1>2, <1>4, <1>7
    <2> QED
      BY <1>4, <2>1
  <1>8. Canvas!Abs(anchor + 2 * side * n1 - b) \in Int
    BY <1>4 DEF Canvas!Abs
  <1>9. n \in Int /\ n >= least /\ near(n)
    <2>1. n = n1 \/ n = n2
      BY <1>0, <1>2, <1>4
    <2>2. n \in Int /\ n >= least
      BY <1>4, <2>1
    <2>3. near(n)
      <3> HIDE DEF near
      <3>1. CASE Canvas!Abs(anchor + 2 * side * n1 - b) <= 2 * Threshold
        BY <1>6, <3>1
      <3> QED
        BY <1>0, <1>6, <1>7, <1>8, <3>1
    <2> QED
      BY <2>2, <2>3
  <1> QED
    BY <1>9

LEMMA ResizeKnows ==
    ASSUME CanvasInv, handle.kind = "resize"
    PROVE  \E side \in {-1, 1}, size \in Nat \ {0}, drawn \in Nat \ {0}, anchor \in Int :
              Resizing(side, size, drawn, anchor)
  BY DEF CanvasInv, GestureInv, Moving, Canvas!NoDrag

LEMMA ResizeKeeps ==
    ASSUME Canvas!LayoutAssumption, CanvasInv, NEW p \in Pointers, Canvas!Resize(p)
    PROVE  CanvasInv'
  <1>1. p \in Int /\ handle.kind = "resize"
    BY CanvasFacts DEF CanvasNumbers, Canvas!Resize
  <1>2. PICK side \in {-1, 1}, size \in Nat \ {0}, drawn \in Nat \ {0}, anchor \in Int :
           Resizing(side, size, drawn, anchor)
    BY <1>1, ResizeKnows
  <1>3. handle.side = side /\ handle.size = size /\ handle.drawn = drawn /\ handle.anchor = anchor
    BY <1>2 DEF Resizing
  <1>4. PICK n \in Int : n = Canvas!SnappedDrawn(handle, p)
    <2>1. PICK b \in Int : b = Canvas!Border(side)
      BY CanvasFacts DEF CanvasNumbers, Canvas!Border
    <2> QED
      BY <1>1, <1>3, <2>1, SnappedReaches DEF Canvas!LeastDrawn
  <1>5. /\ layout' = [center |-> anchor + side * n, size |-> (size * n) \div drawn]
        /\ Canvas!Whole((size * n) \div drawn, shrink)
        /\ UNCHANGED <<shrink, onScreen, handle, pressed, edits>>
    BY <1>3, <1>4 DEF Canvas!Resize, Canvas!Resized
  <1>6. shrink \in {1, 2} /\ edits \in 0 .. MaxEdits
    BY DEF CanvasInv, BoxInv
  <1>7. PICK c \in Int, m \in Nat : c = anchor + side * n /\ m = (size * n) \div drawn
    <2>1. (size * n) \div drawn \in Nat
      BY <1>5, <1>6, CanvasFacts DEF CanvasNumbers, Canvas!Whole
    <2> QED
      BY <2>1
  <1>8. BoxInv'
    BY <1>5, <1>6, <1>7, NewBox DEF CanvasInv
  <1> QED
    BY <1>5, <1>8, FreeGesture DEF CanvasInv

LEMMA KeysKeep ==
    ASSUME Canvas!LayoutAssumption, CanvasInv,
           \/ \E delta \in {-1, 1} : Canvas!MoveSelected(delta)
           \/ \E v \in Typed : Canvas!TypePosition(v) \/ Canvas!TypeSize(v)
           \/ Canvas!ReplaceSource
    PROVE  CanvasInv'
  <1>1. /\ layout \in [center : Int, size : Nat \ {0}] /\ shrink \in {1, 2} /\ onScreen.size \in Nat \ {0}
        /\ CanvasSize \in Nat /\ MaxSize \in Nat /\ \A v \in Typed : v \in Int
    BY CanvasFacts DEF CanvasNumbers, CanvasInv, BoxInv
  <1>2. edits' \in 0 .. MaxEdits /\ UNCHANGED <<onScreen, handle, pressed>>
        /\ (handle = Canvas!NoDrag \/ shrink' = shrink)
    <2>1. Canvas!Edit /\ UNCHANGED <<onScreen, handle, pressed>> /\ (handle = Canvas!NoDrag \/ shrink' = shrink)
      BY DEF Canvas!MoveSelected, Canvas!TypePosition, Canvas!TypeSize, Canvas!ReplaceSource
    <2> QED
      BY <2>1, EditCounts DEF CanvasInv
  <1>3. CASE \E delta \in {-1, 1} : Canvas!MoveSelected(delta)
    <2>1. PICK delta \in {-1, 1} : layout' = [layout EXCEPT !.center = Canvas!Nudged(layout.center, delta)]
                                  /\ shrink' = shrink
      BY <1>3 DEF Canvas!MoveSelected
    <2>2. Canvas!Nudged(layout.center, delta) \in Int
      BY <1>1 DEF Canvas!Nudged, Canvas!Clamp
    <2> QED
      BY <1>2, <2>1, <2>2, FreeGesture DEF CanvasInv, BoxInv
  <1>4. CASE \E v \in Typed : Canvas!TypePosition(v)
    <2>1. PICK v \in Typed : layout' = [layout EXCEPT !.center = 2 * v + onScreen.size] /\ shrink' = shrink
      BY <1>4 DEF Canvas!TypePosition
    <2>2. 2 * v + onScreen.size \in Int
      BY <1>1
    <2> QED
      BY <1>2, <2>1, <2>2, FreeGesture DEF CanvasInv, BoxInv
  <1>5. CASE \E v \in Typed : Canvas!TypeSize(v)
    <2>1. PICK size : layout' = [layout EXCEPT !.size = size] /\ shrink' = shrink /\ Canvas!Whole(size, shrink)
      BY <1>5 DEF Canvas!TypeSize
    <2>2. size \in Nat
      BY <1>1, <2>1 DEF Canvas!Whole
    <2>3. layout' = [center |-> layout.center, size |-> size] /\ layout.center \in Int
      BY <1>1, <2>1
    <2>4. BoxInv'
      BY <1>1, <1>2, <2>1, <2>2, <2>3, NewBox DEF CanvasInv
    <2> QED
      BY <1>2, <2>4, FreeGesture DEF CanvasInv
  <1>6. CASE Canvas!ReplaceSource
    <2>1. layout' = layout /\ shrink' = 3 - shrink /\ Canvas!Whole(layout.size, shrink')
      BY <1>6 DEF Canvas!ReplaceSource
    <2>2. shrink' \in {1, 2} /\ layout.size % shrink' = 0
      BY <1>1, <2>1 DEF Canvas!Whole
    <2> QED
      BY <1>2, <2>1, <2>2, FreeGesture DEF CanvasInv, BoxInv
  <1> QED
    BY <1>3, <1>4, <1>5, <1>6

LEMMA CanvasStep ==
    ASSUME Canvas!LayoutAssumption, CanvasInv, [Canvas!Next]_(Canvas!vars)
    PROVE  CanvasInv'
  <1>1. CASE UNCHANGED Canvas!vars
    BY <1>1 DEF Canvas!vars, CanvasInv, BoxInv, GestureInv, Moving, Resizing
  <1>2. CASE Canvas!EndDrag
    <2>1. handle' = Canvas!NoDrag /\ pressed' = [pointer |-> 0, center |-> 0, current |-> FALSE]
          /\ UNCHANGED <<layout, shrink, onScreen, edits>>
      BY <1>2 DEF Canvas!EndDrag, Canvas!NotPressed
    <2> QED
      BY <2>1 DEF CanvasInv, BoxInv, GestureInv, Canvas!NoDrag
  <1>3. CASE Canvas!ShowFrame
    <2>1. onScreen' = Canvas!Transform(layout, shrink) /\ UNCHANGED <<layout, shrink, handle, pressed, edits>>
      BY <1>3 DEF Canvas!ShowFrame
    <2>2. BoxInv'
      BY <2>1, DrawnPart DEF CanvasInv, BoxInv
    <2> QED
      BY <2>1, <2>2, FreeGesture DEF CanvasInv
  <1> QED
    BY <1>1, <1>2, <1>3, PressKeeps, RepositionKeeps, ResizeKeeps, KeysKeep DEF Canvas!Next

LEMMA CanvasTyped ==
    ASSUME CanvasInv
    PROVE  Canvas!TypeOK
  BY DEF CanvasInv, BoxInv, GestureInv, Moving, Resizing, Canvas!TypeOK, Canvas!Box, Canvas!NoDrag

\* What a resize makes of an element when the drag began on its picture.
LEMMA ResizeHolds ==
    ASSUME Canvas!LayoutAssumption, CanvasInv, NEW p \in Pointers, Canvas!Resize(p), pressed.current
    PROVE  /\ Canvas!Edge(Canvas!Transform(layout', shrink), -handle.side) = handle.anchor
           /\ LET edge == Canvas!Edge(Canvas!Transform(layout', shrink), handle.side)
                  held == Canvas!Reach(2 * p)
                  border == Canvas!Reach(Canvas!Border(handle.side))
              IN  /\ layout'.size >= MinSize
                  /\ \/ Canvas!Abs(edge - held) <= 1
                     \/ Canvas!Abs(edge - border) <= 1 /\ Canvas!Abs(border - held) <= 2 * Threshold + 1
  <1>1. p \in Int /\ handle.kind = "resize"
    BY CanvasFacts DEF CanvasNumbers, Canvas!Resize
  <1>2. PICK side \in {-1, 1}, size \in Nat \ {0}, drawn \in Nat \ {0}, anchor \in Int :
           Resizing(side, size, drawn, anchor)
    BY <1>1, ResizeKnows
  <1>3. /\ handle.side = side /\ handle.size = size /\ handle.drawn = drawn /\ handle.anchor = anchor
        /\ size = shrink * drawn /\ shrink \in {1, 2}
    BY <1>2 DEF Resizing, CanvasInv, BoxInv
  <1>4. PICK b \in Int : b = Canvas!Border(side)
    BY CanvasFacts DEF CanvasNumbers, Canvas!Border
  <1>5. PICK n, least : n = Canvas!SnappedDrawn(handle, p) /\ least = Canvas!LeastDrawn(handle)
    OBVIOUS
  <1>6. /\ n \in Int /\ n >= least /\ least \in Int
        /\ \/ Canvas!Abs((anchor + 2 * side * n) - Reached(side, anchor, least, 2 * p)) <= 1
           \/ /\ Canvas!Abs((anchor + 2 * side * n) - Reached(side, anchor, least, b)) <= 1
              /\ Canvas!Abs(Reached(side, anchor, least, b) - Reached(side, anchor, least, 2 * p))
                    <= 2 * Threshold + 1
    BY <1>1, <1>3, <1>4, <1>5, SnappedReaches, LeastIsEnough
  <1>7. shrink * n >= MinSize /\ n >= 1
    BY <1>3, <1>5, <1>6, LeastIsEnough
  <1>8. (size * n) \div drawn = shrink * n
    <2>1. shrink * n \in Int /\ size * n = (shrink * n) * drawn
      BY <1>3, <1>6
    <2> QED
      BY <2>1, ExactDivision
  <1>9. layout' = [center |-> anchor + side * n, size |-> shrink * n]
    BY <1>3, <1>5, <1>8 DEF Canvas!Resize, Canvas!Resized
  <1>10. Canvas!Transform(layout', shrink) = [center |-> anchor + side * n, size |-> n]
    <2>1. (shrink * n) \div shrink = n
      BY <1>3, <1>6
    <2> QED
      BY <1>9, <2>1 DEF Canvas!Transform
  <1>11. /\ Canvas!Edge(Canvas!Transform(layout', shrink), -handle.side) = anchor
         /\ Canvas!Edge(Canvas!Transform(layout', shrink), handle.side) = anchor + 2 * side * n
    BY <1>3, <1>6, <1>10 DEF Canvas!Edge
  <1>12. /\ Canvas!Reach(2 * p) = Reached(side, anchor, least, 2 * p)
         /\ Canvas!Reach(Canvas!Border(handle.side)) = Reached(side, anchor, least, b)
    BY <1>3, <1>4, <1>5 DEF Canvas!Reach, Reached
  <1>13. layout'.size >= MinSize
    BY <1>7, <1>9
  <1> DEFINE edge == Canvas!Edge(Canvas!Transform(layout', shrink), handle.side)
             held == Canvas!Reach(2 * p)
             border == Canvas!Reach(Canvas!Border(handle.side))
  <1>14. \/ Canvas!Abs(edge - held) <= 1
         \/ /\ Canvas!Abs(edge - border) <= 1
            /\ Canvas!Abs(border - held) <= 2 * Threshold + 1
    BY <1>6, <1>11, <1>12
  <1>15. Canvas!Edge(Canvas!Transform(layout', shrink), -handle.side) = handle.anchor
    BY <1>3, <1>11
  <1> QED
    BY <1>13, <1>14, <1>15

\* Where a move puts an element when the drag began on the canvas.
LEMMA MoveSnaps ==
    ASSUME Canvas!LayoutAssumption, CanvasInv, NEW p \in Pointers, Canvas!Reposition(p),
           pressed.pointer \in 0 .. CanvasSize
    PROVE  LET off(c) == Canvas!Abs(c - Canvas!Wanted(p))
               aligned == {onScreen.size, CanvasSize, 2 * CanvasSize - onScreen.size}
               near == {c \in aligned : off(c) <= 2 * Threshold}
           IN  IF near = {} THEN layout'.center = Canvas!Wanted(p)
               ELSE /\ layout'.center \in near
                    /\ \A c \in near : off(layout'.center) <= off(c)
  <1>1. p \in Int /\ handle.kind = "move"
    BY CanvasFacts DEF CanvasNumbers, Canvas!Reposition
  <1>2. PICK o \in Int : Moving(o)
    BY <1>1 DEF CanvasInv, GestureInv, Resizing, Canvas!NoDrag
  <1>3. pressed.pointer \in Int /\ pressed.center \in Int /\ onScreen.size \in Int
        /\ "center" \in DOMAIN layout
    BY DEF CanvasInv, BoxInv, GestureInv
  <1>4. handle.offset = o /\ o = 2 * pressed.pointer - pressed.center
    BY <1>2 DEF Moving
  <1>5. Canvas!Wanted(p) \in Int /\ 2 * p - handle.offset = Canvas!Wanted(p)
    BY <1>1, <1>3, <1>4 DEF Canvas!Wanted
  <1>6. layout'.center = Canvas!SnappedMove(Canvas!Wanted(p), onScreen.size)
    BY <1>3, <1>5 DEF Canvas!Reposition
  <1> QED
    BY <1>3, <1>5, <1>6, SnapIsNearest

\* The canvas part of DragsKeepTheRest.
LEMMA CanvasDrags ==
    ASSUME Canvas!LayoutAssumption
    PROVE  Canvas!Spec =>
              /\ Canvas!AnchorStays /\ Canvas!ResizeReachesPointer /\ Canvas!MoveSnapsToNearest
              /\ []Canvas!TypeOK
  <1>1. Canvas!Init => CanvasInv
    BY CanvasBegins
  <1>2. CanvasInv /\ [Canvas!Next]_(Canvas!vars) => CanvasInv'
    BY CanvasStep
  <1>3. CanvasInv => Canvas!TypeOK
    BY CanvasTyped
  <1>4. CanvasInv => \A p \in Pointers : (Canvas!Resize(p) /\ pressed.current) =>
           Canvas!Edge(Canvas!Transform(layout', shrink), -handle.side) = handle.anchor
    BY ResizeHolds
  <1>5. CanvasInv => \A p \in Pointers : (Canvas!Resize(p) /\ pressed.current) =>
           LET edge == Canvas!Edge(Canvas!Transform(layout', shrink), handle.side)
               held == Canvas!Reach(2 * p)
               border == Canvas!Reach(Canvas!Border(handle.side))
           IN  /\ layout'.size >= MinSize
               /\ \/ Canvas!Abs(edge - held) <= 1
                  \/ Canvas!Abs(edge - border) <= 1 /\ Canvas!Abs(border - held) <= 2 * Threshold + 1
    BY ResizeHolds
  <1>6. CanvasInv => \A p \in Pointers : (Canvas!Reposition(p) /\ pressed.pointer \in 0 .. CanvasSize) =>
           LET off(c) == Canvas!Abs(c - Canvas!Wanted(p))
               aligned == {onScreen.size, CanvasSize, 2 * CanvasSize - onScreen.size}
               near == {c \in aligned : off(c) <= 2 * Threshold}
           IN  IF near = {} THEN layout'.center = Canvas!Wanted(p)
               ELSE /\ layout'.center \in near
                    /\ \A c \in near : off(layout'.center) <= off(c)
    BY MoveSnaps
  <1> QED
    BY <1>1, <1>2, <1>3, <1>4, <1>5, <1>6, PTL
       DEF Canvas!Spec, Canvas!AnchorStays, Canvas!ResizeReachesPointer, Canvas!MoveSnapsToNearest
-----------------------------------------------------------------------------
(* The drags.                                                              *)

\* The rows of the list that are not dragged, the edge that is not dragged, and the
\* places things snap to: in every gesture, on a picture that may be an older one.
THEOREM DragsStayKept ==
    ASSUME Scene!SceneAssumption, Canvas!LayoutAssumption
    PROVE  Scene!Spec /\ Canvas!Spec => DragsKeepTheRest
  <1>1. Scene!Init => SceneInv
    BY SceneBegins
  <1>2. SceneInv /\ [Scene!Next]_(Scene!vars) => SceneInv'
    BY SceneStep
  <1>3. SceneInv => \A to \in Scene!Ids : Scene!DragRowOver(to) =>
           /\ Scene!Without(elements', listDrag) = Scene!Without(elements, listDrag)
           /\ elements'[to].id = listDrag
    BY RowStaysItself
  <1>4. Scene!Spec => Scene!OthersKeepOrder
    BY <1>1, <1>2, <1>3, PTL DEF Scene!Spec, Scene!OthersKeepOrder
  <1> QED
    BY <1>4, CanvasDrags DEF DragsKeepTheRest
=============================================================================
