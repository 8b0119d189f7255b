---------------------------- MODULE PlaybackApi -----------------------------
(***************************************************************************)
(* The playback API of Http.ts under names of its own, for modules that    *)
(* have the upload API beside it: both serve requests over recordings, but *)
(* neither waits for the other.                                            *)
(***************************************************************************)
CONSTANTS
    Watched,                    \* recordings
    Browsers, Owner, Passwords,
    Visits,                     \* how many requests run at once
    MAX_VERIFIED_HASHES, MaxHashes

VARIABLES viewRows, password, cookie, viewReq, proved, raced

Playback == INSTANCE Viewing WITH
    Videos <- Watched, Requests <- Visits, rows <- viewRows, req <- viewReq

viewVars == <<viewRows, password, cookie, viewReq, proved, raced>>

-----------------------------------------------------------------------------
\* Only who may watch a recording as the request found it is given a source,
\* whatever other requests set, unlock or overwrite meanwhile, and the three
\* places of Http.ts that decide it agree; and a browser that never has two
\* unlocks under way can watch the last recordings it unlocked, up to the limit of
\* the cookie (Viewing!SourceIsAllowed, PolicyAgrees, CookieRemembersLast).
UnlockedCanWatch == Playback!UnlockedCanWatch
=============================================================================
