---------------------------- MODULE MCARPipeline ----------------------------
(***************************************************************************)
(* The recipe with queues of two frames, so that the detector can be ahead *)
(* of the renderer and the player ahead of both, and one unreadable image. *)
(***************************************************************************)
EXTENDS ARPipeline

MCQueueSize == [s \in Streams |-> IF s \in {"detect", "render"} THEN 2 ELSE 1]
=============================================================================
