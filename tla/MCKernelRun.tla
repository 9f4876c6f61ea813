---------------------------- MODULE MCKernelRun ----------------------------
(* Every class, alone, for five runs.  The objects have the sizes they    *)
(* have on a 64-bit machine, scaled down in nothing but the word; payloads *)
(* include the sizes at which an object plus payload is as large as        *)
(* another object.                                                         *)
EXTENDS KernelRun

MCClasses == DOMAIN Programs
MCSizes == {0, PoseMeta - PtrMeta, FrameMeta - PtrMeta}
(* All bags of up to three images, skipping and caching up to two more.    *)
MCBags == [start : {0, 1, 4}, cache : {0, 2, 4},
           images : UNION {[1..n -> Images] : n \in 0..3}]
(* As many images as listed, more, fewer, or none.                         *)
MCFolders == [listed : {1, 2, 3}, there : {0, 1, 2, 3}, iterate : BOOLEAN,
              preload : BOOLEAN]
=============================================================================
