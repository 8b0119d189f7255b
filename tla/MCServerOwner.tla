--------------------------- MODULE MCServerOwner ---------------------------
(* The upload API while the owner switches buckets and settings under a   *)
(* recording in progress.                                                 *)
EXTENDS UploadServer, TLC

CONSTANTS u1, v1, c1, c2, p1, a1, n1, h1

\* A payload of operation `op` by the owner; unused fields have one value.
Ask(op) == [op |-> op, user |-> u1, video |-> v1, valid |-> TRUE, hls |-> TRUE,
            part |-> p1, asset |-> a1, parts |-> {p1}, name |-> n1,
            privacy |-> "public", hash |-> NoHash, newConfig |-> c1]

\* The request slots are interchangeable.
Slots == Permutations(Requests)

\* A password is set, kept (without a hash of its own) and taken away.
OwnerInputs ==
    {Ask(op) : op \in {"create", "signAsset", "signPart", "complete", "abort", "rename",
                       "privacy", "archive", "removeStorage"}}
    \cup {[Ask("setStorage") EXCEPT !.newConfig = c] : c \in {c1, c2}}
    \cup {[Ask("privacy") EXCEPT !.privacy = "password", !.hash = h] : h \in {h1, NoHash}}
=============================================================================
