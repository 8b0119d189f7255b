-------------------------- MODULE MCStudioPipeline --------------------------
(***************************************************************************)
(* A behaviour of StudioPipeline is restricted in one of two ways (`part`): *)
(* "frames" has many versions of the scene and no stream, "stream" has     *)
(* fewer versions and a stream that is started, stopped and started.  Both *)
(* restrictions are tighter bounds in the guards, so every step is a step  *)
(* of StudioPipeline.                                                      *)
(***************************************************************************)
EXTENDS StudioPipeline

VARIABLE part

Framing == INSTANCE StudioPipeline WITH MaxStreams <- 0
Streaming == INSTANCE StudioPipeline WITH MaxVersion <- 2

ASSUME BoundsAssumption == Framing!PipelineAssumption /\ Streaming!PipelineAssumption

PartsInit == part \in {"frames", "stream"} /\ Init

PartsNext ==
    \/ part = "frames" /\ Framing!Next /\ UNCHANGED part
    \/ part = "stream" /\ Streaming!Next /\ UNCHANGED part

\* No bound is in the actions that are fair.
PartsSpec == PartsInit /\ [][PartsNext]_<<part, vars>> /\ Fairness

-----------------------------------------------------------------------------
\* Every change of the scene and every frame is shown, or a later one is, and a
\* stream whose publisher failed is given up (StudioPipeline!ChangesAreShown,
\* FramesAreShown, FailureEndsStream).
ViewerSettles == ChangesAreShown /\ FramesAreShown /\ FailureEndsStream
=============================================================================
