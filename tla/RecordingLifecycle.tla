------------------------- MODULE RecordingLifecycle -------------------------
(***************************************************************************)
(* What the upload API promises about one recording, with no requests, no  *)
(* rows and no multipart uploads: it is begun in one bucket, its content is *)
(* assembled there at most once, and it is then either published or        *)
(* discarded, never both.  Assembled content is never discarded, and a     *)
(* client told that its recording is published is never told wrong.        *)
(***************************************************************************)
CONSTANTS Videos, Configs, Parts, NoPlace

VARIABLES
    phase,      \* "none", "uploading", "published" or "discarded"
    place,      \* the bucket the recording lives in
    content,    \* the parts it was assembled from, {} before that
    told        \* recordings whose client was given the viewer URL

lifeVars == <<phase, place, content, told>>

LifeInit ==
    /\ phase = [v \in Videos |-> "none"]
    /\ place = [v \in Videos |-> NoPlace]
    /\ content = [v \in Videos |-> {}]
    /\ told = {}

\* create succeeded: the recording exists in the configured bucket.
Begin(v, c) ==
    /\ phase[v] = "none"
    /\ phase' = [phase EXCEPT ![v] = "uploading"]
    /\ place' = [place EXCEPT ![v] = c]
    /\ UNCHANGED <<content, told>>

\* The store assembles the uploaded parts.
Assemble(v, P) ==
    /\ phase[v] = "uploading"
    /\ content[v] = {}
    /\ P # {}
    /\ content' = [content EXCEPT ![v] = P]
    /\ UNCHANGED <<phase, place, told>>

\* complete: the recording becomes visible to viewers, and the client may be
\* told in the same step, later, or never.
Publish(v) ==
    /\ phase[v] = "uploading"
    /\ content[v] # {}
    /\ phase' = [phase EXCEPT ![v] = "published"]
    /\ told' \in {told, told \cup {v}}
    /\ UNCHANGED <<place, content>>

Tell(v) ==
    /\ phase[v] = "published"
    /\ told' = told \cup {v}
    /\ UNCHANGED <<phase, place, content>>

\* abort, or a create that failed half way: only a recording with no content
\* may go, and its id is never used again.
Discard(v) ==
    /\ phase[v] \in {"none", "uploading"}
    /\ content[v] = {}
    /\ phase' = [phase EXCEPT ![v] = "discarded"]
    /\ place' = [place EXCEPT ![v] = NoPlace]
    /\ UNCHANGED <<content, told>>

LifeNext ==
    \E v \in Videos :
        \/ \E c \in Configs : Begin(v, c)
        \/ \E P \in SUBSET Parts : Assemble(v, P)
        \/ Publish(v) \/ Tell(v) \/ Discard(v)

LifeSpec == LifeInit /\ [][LifeNext]_lifeVars

=============================================================================
