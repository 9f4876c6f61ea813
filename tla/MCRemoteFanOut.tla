--------------------------- MODULE MCRemoteFanOut ---------------------------
(***************************************************************************)
(* A camera whose frame is sent to another host over TCP and over RTP by   *)
(* two duplicates, and to a nonblocking shared-memory original port.       *)
(***************************************************************************)
EXTENDS FleXRPortManager

MCChannel  == <<"TCP", "RTP", "SHM">>
MCOutSem   == <<"BLOCKING", "BLOCKING", "NONBLOCKING">>
MCInSem    == <<"BLOCKING", "NONBLOCKING", "BLOCKING">>
MCCap      == <<1, 2, 1>>
MCElemSize == <<0, 0, 1>>
=============================================================================
