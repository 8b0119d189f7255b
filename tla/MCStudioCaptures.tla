-------------------------- MODULE MCStudioCaptures --------------------------
(* Instances of StudioCaptures for TLC.                                    *)
EXTENDS StudioCaptures
=============================================================================
