------------------------- MODULE MCFrequencyManager -------------------------
(***************************************************************************)
(* Times of three bits, a second of six ticks, and a run long enough for   *)
(* them to wrap three times.                                               *)
(***************************************************************************)
EXTENDS FrequencyManager

MCFrequencies == {-1, 0, 1, 2, 3, 7}
MCOffsets     == {-3, 0, 5}
=============================================================================
