----------------------------- MODULE MCIceAgent -----------------------------
(* Bounds for checking IceAgent with TLC.                                  *)
EXTENDS IceAgent

CONSTANTS l1, r1

MCLocalAddrs == {l1}
MCRemoteAddrs == {r1}

\* Bound on binding requests put on the wire.
MaxWire == 3

WireBound == a.nextTid <= MaxWire + 1
=============================================================================
