---------------------------- MODULE MCVRPipeline ----------------------------
(***************************************************************************)
(* The data set is cut to a few images, enough to fill the queues after    *)
(* losses and to get the two kernels stuck.                                *)
(***************************************************************************)
EXTENDS VRPipeline
=============================================================================
