------------------------------- MODULE Viewing -------------------------------
(***************************************************************************)
(* Watching a recording (Http.ts: view, playlist, unlock and privacy;      *)
(* VideosPolicy.ts: canView): the owner decides who may watch, a browser   *)
(* that gives the right password keeps, in an encrypted cookie, the hash   *)
(* that it matched, and each request works with the row and the cookie it  *)
(* has read while others change both.                                      *)
(*                                                                         *)
(* A hash is a number; password[h] is what it was made from (hashPassword  *)
(* salts, so no hash is made twice).  No browser can make a cookie itself. *)
(***************************************************************************)
EXTENDS Integers, Sequences, FiniteSets, SequencesExt

CONSTANTS
    Videos, Browsers,
    Owner,                  \* the browser with the owner's session
    Passwords,
    Requests,               \* how many requests run at once
    MAX_VERIFIED_HASHES,
    MaxHashes               \* bound: passwords set

ViewingAssumption ==
    /\ Owner \in Browsers /\ Videos # {} /\ Passwords # {}
    /\ MAX_VERIFIED_HASHES \in Nat \ {0} /\ MaxHashes \in Nat

VARIABLES
    rows,                   \* the videos table
    password,               \* the password of each hash made
    cookie,                 \* x-blip-password of each browser
    req,                    \* the requests
    proved,                 \* the hashes each browser has matched, oldest first
    raced                   \* browsers that have had two unlocks under way

vars == <<rows, password, cookie, req, proved, raced>>

NoPassword == 0
Privacies == {"public", "password", "private"}
Row == [status : {"uploading", "complete"}, privacy : Privacies, hash : 0..MaxHashes]
\* What is kept of an answer: whether it had a source.
Answers == {"none", "source"}

NoRequest ==
    [step |-> "idle", op |-> "view", browser |-> Owner, video |-> CHOOSE v \in Videos : TRUE,
     cookie |-> <<>>, typed |-> CHOOSE p \in Passwords : TRUE, keep |-> FALSE,
     privacy |-> "public",
     row |-> [status |-> "uploading", privacy |-> "public", hash |-> NoPassword],
     answer |-> "none"]

TypeOK ==
    /\ rows \in [Videos -> Row]
    /\ password \in Seq(Passwords) /\ Len(password) <= MaxHashes
    /\ cookie \in [Browsers -> Seq(1..MaxHashes)] /\ proved \in [Browsers -> Seq(1..MaxHashes)]
    /\ \A b \in Browsers : Len(cookie[b]) <= MAX_VERIFIED_HASHES
    /\ req \in [Requests -> [step : {"idle", "find", "answer"},
                             op : {"view", "playlist", "unlock", "privacy"}, browser : Browsers,
                             video : Videos, cookie : Seq(1..MaxHashes), typed : Passwords,
                             keep : BOOLEAN, privacy : Privacies, row : Row, answer : Answers]]
    /\ raced \subseteq Browsers

Init ==
    /\ rows = [v \in Videos |-> [status |-> "uploading", privacy |-> "public", hash |-> NoPassword]]
    /\ password = <<>>
    /\ cookie = [b \in Browsers |-> <<>>] /\ proved = [b \in Browsers |-> <<>>]
    /\ req = [r \in Requests |-> NoRequest] /\ raced = {}

(* The requests *)

\* markVideoComplete, of the upload API.
Complete(v) ==
    /\ rows[v].status = "uploading"
    /\ rows' = [rows EXCEPT ![v].status = "complete"]
    /\ UNCHANGED <<password, cookie, req, proved, raced>>

\* A request takes the browser's cookie along.
Send(r, b, v, in) ==
    /\ req[r].step = "idle"
    /\ in.op = "privacy" => Len(password) < MaxHashes
    /\ req' = [req EXCEPT ![r] = [NoRequest EXCEPT !.step = "find", !.op = in.op, !.browser = b,
                                              !.video = v, !.cookie = cookie[b],
                                              !.typed = in.typed, !.keep = in.keep,
                                              !.privacy = in.privacy]]
    /\ raced' = IF in.op = "unlock" /\ \E q \in Requests : /\ req[q].step # "idle"
                                                          /\ req[q].op = "unlock"
                                                          /\ req[q].browser = b
                THEN raced \cup {b} ELSE raced
    /\ UNCHANGED <<rows, password, cookie, proved>>

\* The inputs of each kind of request; the password of a privacy request is optional.
Payloads ==
    [op : {"view", "playlist"}, typed : {NoRequest.typed}, keep : {FALSE}, privacy : {"public"}]
    \cup [op : {"unlock"}, typed : Passwords, keep : {FALSE}, privacy : {"public"}]
    \cup [op : {"privacy"}, typed : {NoRequest.typed}, keep : {FALSE}, privacy : {"public", "private"}]
    \cup [op : {"privacy"}, typed : Passwords, keep : {FALSE}, privacy : {"password"}]
    \cup [op : {"privacy"}, typed : {NoRequest.typed}, keep : {TRUE}, privacy : {"password"}]

\* The request ends; what it was about is kept with a source.
Done(r, answer) ==
    req' = [req EXCEPT ![r] = IF answer = "source"
                              THEN [NoRequest EXCEPT !.browser = req[r].browser, !.row = req[r].row,
                                                !.answer = answer]
                              ELSE NoRequest]

\* What the request finds when it reads the row, if it is to go on.
Found(q, row) ==
    CASE q.op \in {"view", "playlist"} -> row.status = "complete"
      [] q.op = "unlock" -> row.status = "complete" /\ row.privacy = "password" /\ row.hash # NoPassword
      [] q.op = "privacy" -> q.browser = Owner

Find(r) ==
    LET row == rows[req[r].video]
    IN
    /\ req[r].step = "find"
    /\ IF Found(req[r], row)
       THEN req' = [req EXCEPT ![r].step = "answer", ![r].row = row]
       ELSE Done(r, "NotFound")
    /\ UNCHANGED <<rows, password, cookie, proved, raced>>

Verified(hashes, row) == row.hash # NoPassword /\ row.hash \in ToSet(hashes)

ViewAnswer(owner, hashes, row) ==
    CASE owner \/ row.privacy = "public" -> "source"
      [] ~owner /\ row.privacy = "password" -> IF Verified(hashes, row) THEN "source"
                                               ELSE "PasswordRequired"
      [] OTHER -> "bare"

PlaylistAnswer(owner, hashes, row) ==
    CASE owner \/ row.privacy = "public" \/ (row.privacy = "password" /\ Verified(hashes, row))
            -> "source"
      [] ~owner /\ row.privacy = "password" /\ ~Verified(hashes, row) -> "PasswordRequired"
      [] OTHER -> "NotFound"

\* The policy of VideosPolicy.ts: TRUE, FALSE or the demand for a password.
canView(owner, hashes, row) ==
    IF row.status # "complete" \/ owner \/ row.privacy = "public" THEN "true"
    ELSE IF row.privacy = "password"
    THEN IF row.hash = NoPassword THEN "false"
         ELSE IF Verified(hashes, row) THEN "true" ELSE "PasswordRequired"
    ELSE "false"

Answer(r) ==
    LET q == req[r]
    IN
    /\ q.step = "answer" /\ q.op \in {"view", "playlist"}
    /\ Done(r, IF q.op = "view" THEN ViewAnswer(q.browser = Owner, q.cookie, q.row)
               ELSE PlaylistAnswer(q.browser = Owner, q.cookie, q.row))
    /\ UNCHANGED <<rows, password, cookie, proved, raced>>

LastOf(seq) == SubSeq(seq, IF Len(seq) > MAX_VERIFIED_HASHES
                           THEN Len(seq) - MAX_VERIFIED_HASHES + 1 ELSE 1, Len(seq))

\* No list has a hash twice, so at most one is dropped.
MovedToEnd(seq, h) ==
    Append(IF h \in ToSet(seq) THEN RemoveAt(seq, CHOOSE i \in DOMAIN seq : seq[i] = h) ELSE seq, h)

\* Mutant: the oldest hashes are kept.
setVerifiedPasswordCookie_Oldest(hashes, h) ==
    LET all == MovedToEnd(hashes, h)
    IN  SubSeq(all, 1, IF Len(all) > MAX_VERIFIED_HASHES THEN MAX_VERIFIED_HASHES ELSE Len(all))

setVerifiedPasswordCookie(hashes, h) == LastOf(MovedToEnd(hashes, h))

\* The cookie that was sent, with the hash of the row that was read, replaces the browser's.
Unlock(r) ==
    LET q == req[r]
    IN
    /\ q.step = "answer" /\ q.op = "unlock"
    /\ IF password[q.row.hash] = q.typed
       THEN /\ Done(r, "ok")
            /\ cookie' = [cookie EXCEPT ![q.browser] = setVerifiedPasswordCookie(q.cookie, q.row.hash)]
            /\ proved' = [proved EXCEPT ![q.browser] = MovedToEnd(@, q.row.hash)]
       ELSE Done(r, "Unauthorized") /\ UNCHANGED <<cookie, proved>>
    /\ UNCHANGED <<rows, password, raced>>

\* Without a new password the hash that was read stays; there must be one.
SetPrivacy(r) ==
    LET q == req[r]
        new == q.privacy = "password" /\ ~q.keep
        hash == IF q.privacy # "password" THEN NoPassword
                ELSE IF q.keep THEN q.row.hash ELSE Len(password) + 1
    IN
    /\ q.step = "answer" /\ q.op = "privacy"
    /\ new => Len(password) < MaxHashes
    /\ IF q.privacy = "password" /\ hash = NoPassword
       THEN Done(r, "bare") /\ UNCHANGED <<rows, password>>         \* InvalidRequest
       ELSE /\ Done(r, "ok")
            /\ rows' = [rows EXCEPT ![q.video].privacy = q.privacy, ![q.video].hash = hash]
            /\ password' = IF new THEN Append(password, q.typed) ELSE password
    /\ UNCHANGED <<cookie, proved, raced>>

Next ==
    \/ \E v \in Videos : Complete(v)
    \/ \E r \in Requests :
          \/ \E b \in Browsers, v \in Videos, in \in Payloads : Send(r, b, v, in)
          \/ Find(r) \/ Answer(r) \/ Unlock(r) \/ SetPrivacy(r)

Spec == Init /\ [][Next]_vars

(* Properties *)

\* Who may watch, by what the browser has done: the owner, anyone when the recording is
\* public, and those who have given the password that it has.
MayWatch(b, row) ==
    \/ b = Owner \/ row.privacy = "public"
    \/ row.privacy = "password" /\ row.hash \in ToSet(proved[b])

\* Only who may watch the recording as the request found it is given a source: no cookie
\* opens a recording whose password it was not given for, whatever was set, unlocked or
\* overwritten by other requests meanwhile.
SourceIsAllowed ==
    \A r \in DOMAIN req : req[r].answer = "source" =>
        req[r].row.status = "complete" /\ MayWatch(req[r].browser, req[r].row)

\* A browser that never has two unlocks under way remembers the last recordings that it
\* unlocked, up to the limit of the cookie: an unlock is answered by a view that opens.
CookieRemembersLast ==
    \A b \in DOMAIN cookie \ raced : cookie[b] = LastOf(proved[b])

\* The three places that decide who may watch agree on every row and cookie there is:
\* what canView allows, view and playlist give a source for, and what they refuse with a
\* password prompt it refuses with one.
PolicyAgrees ==
    \A v \in DOMAIN rows, b \in DOMAIN cookie :
        LET row == rows[v]
            policy == canView(b = Owner, cookie[b], row)
        IN  row.status = "complete" =>
              /\ (policy = "true") = (ViewAnswer(b = Owner, cookie[b], row) = "source")
              /\ (policy = "true") = (PlaylistAnswer(b = Owner, cookie[b], row) = "source")
              /\ \A answer \in {ViewAnswer(b = Owner, cookie[b], row),
                                PlaylistAnswer(b = Owner, cookie[b], row)} :
                    (policy = "PasswordRequired") = (answer = "PasswordRequired")

\* All of it: a source is given to those who may watch, and to all of them.
UnlockedCanWatch == SourceIsAllowed /\ CookieRemembersLast /\ PolicyAgrees
=============================================================================
