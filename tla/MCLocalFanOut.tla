--------------------------- MODULE MCLocalFanOut ---------------------------
(***************************************************************************)
(* A camera whose frame goes to a nonblocking RaftLib duplicate, to a      *)
(* blocking shared-memory duplicate that takes only small frames, and to   *)
(* the blocking RaftLib original port.                                     *)
(***************************************************************************)
EXTENDS FleXRPortManager

MCChannel  == <<"RAFTLIB", "SHM", "RAFTLIB">>
MCOutSem   == <<"NONBLOCKING", "BLOCKING", "BLOCKING">>
MCInSem    == <<"BLOCKING", "BLOCKING", "NONBLOCKING">>
MCCap      == <<1, 1, 2>>
MCElemSize == <<0, 1, 0>>
=============================================================================
