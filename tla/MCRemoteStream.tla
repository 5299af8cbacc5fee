--------------------------- MODULE MCRemoteStream ---------------------------
(* Small instances of RemoteStream: Cloud ends lines in any of the three ways, *)
(* and everything may interfere.                                               *)
EXTENDS RemoteStream

AllLineEnds == {<<LF>>, <<CR>>, <<CR, LF>>}
AllFaults == FaultNames
=============================================================================
