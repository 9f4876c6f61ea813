-------------------------- MODULE MCFanOutLiveness --------------------------
(***************************************************************************)
(* The fan-out of the sample pipelines: a nonblocking RaftLib duplicate    *)
(* whose receiver may stop at any point, a TCP duplicate, and the blocking *)
(* RaftLib original port.                                                  *)
(***************************************************************************)
EXTENDS FleXRPortManager

MCChannel  == <<"RAFTLIB", "TCP", "RAFTLIB">>
MCOutSem   == <<"NONBLOCKING", "NONBLOCKING", "BLOCKING">>
MCInSem    == <<"BLOCKING", "BLOCKING", "BLOCKING">>
MCCap      == <<1, 1, 1>>
MCElemSize == <<0, 0, 0>>
=============================================================================
