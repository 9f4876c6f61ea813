------------------------ MODULE MCNonblockingOriginal ------------------------
(***************************************************************************)
(* One RaftLib port that is not duplicated, deployed with nonblocking      *)
(* semantics, as out_pose in examples/game_engine/orb_remote.yaml.         *)
(***************************************************************************)
EXTENDS FleXRPortManager

MCChannel  == <<"RAFTLIB">>
MCOutSem   == <<"NONBLOCKING">>
MCInSem    == <<"BLOCKING">>
MCCap      == <<1>>
MCElemSize == <<0>>
=============================================================================
