------------------------- MODULE MCIceAgentInternal -------------------------
(* IceAgentInternal with one local and one remote address.                *)
EXTENDS IceAgentInternal

CONSTANTS l1, r1

MCLocalAddrs == {l1}
MCRemoteAddrs == {r1}
=============================================================================
