--------------------------- MODULE MCUploadServer ---------------------------
(***************************************************************************)
(* Requests that race: over one recording ("race"), over who may watch it  *)
(* ("viewing"), and over more unlocked recordings than a cookie holds      *)
(* ("cookies").  The upload API and the playback API are checked apart,    *)
(* with rows of their own: `part` says which one moves.                    *)
(***************************************************************************)
EXTENDS UploadServer, PlaybackApi, TLC

CONSTANTS u1, u2, v1, c1, p1, p2, a1, n1, h1, w1, w2

VARIABLE part

allVars == <<part, vars, viewVars>>

\* A payload of operation `op` by the owner; unused fields have one value.
Ask(op) == [op |-> op, user |-> u1, video |-> v1, valid |-> TRUE, hls |-> TRUE,
            part |-> p1, asset |-> a1, parts |-> {p1}, name |-> n1,
            privacy |-> "public", hash |-> NoHash, newConfig |-> c1]

\* The request slots of each API are interchangeable.
Slots == Permutations(Requests) \cup Permutations(Visits)

\* Clients that upload, complete, retry and abort one recording at once.
RaceInputs ==
    {Ask(op) : op \in {"create", "complete", "abort", "setStorage"}}
    \cup {[Ask("signPart") EXCEPT !.part = p] : p \in {p1, p2}}
    \cup {[Ask("complete") EXCEPT !.parts = {p1, p2}]}
    \cup {[Ask("abort") EXCEPT !.user = u2]}

\* Two requests at once, of a recording whose password is set twice.
Viewing == INSTANCE Viewing WITH
    Videos <- {"v1"}, Passwords <- {"p1"}, Requests <- Visits, MaxHashes <- 2,
    rows <- viewRows, req <- viewReq

\* One hash more than a cookie holds, and passwords that are wrong.
Cookies == INSTANCE Viewing WITH
    Videos <- Watched, Requests <- {w1}, rows <- viewRows, req <- viewReq

ASSUME PartsAssumption ==
    Playback!ViewingAssumption /\ Viewing!ViewingAssumption /\ Cookies!ViewingAssumption

RaceInit ==
    /\ part \in {"race", "viewing", "cookies"}
    /\ Init
    /\ IF part = "cookies" THEN Cookies!Init ELSE Viewing!Init

RaceNext ==
    \/ part = "race" /\ Next /\ UNCHANGED <<part, viewVars>>
    \/ part = "viewing" /\ Viewing!Next /\ UNCHANGED <<part, vars>>
    \/ part = "cookies" /\ Cookies!Next /\ UNCHANGED <<part, vars>>

RaceSpec == RaceInit /\ [][RaceNext]_allVars
=============================================================================
