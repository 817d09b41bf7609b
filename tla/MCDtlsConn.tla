------------------------------ MODULE MCDtlsConn ------------------------------
(***************************************************************************)
(* Model-checking instance of DtlsConn: the constants are given in the    *)
(* .cfg files; the state constraint keeps the in-flight set small.        *)
(***************************************************************************)
EXTENDS DtlsConn

\* No more than MaxInFlight datagrams on the wire at once.
MaxInFlight == 4
InFlightBound == Cardinality(net) <= MaxInFlight
=============================================================================
