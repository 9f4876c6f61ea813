---------------------------- MODULE MCRtpPlugin ----------------------------
(* A table of three slots, four sessions, and the sizes of MCKernelRun.    *)
EXTENDS RtpPlugin

MCSizes == {0, PoseMeta - PtrMeta, FrameMeta - PtrMeta}
(* 12 fits a matrix of 48 bytes, 10 is too small for one.                  *)
MCAreas == {10, 12}
=============================================================================
