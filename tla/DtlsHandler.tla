----------------------------- MODULE DtlsHandler -----------------------------
(***************************************************************************)
(* DtlsHandler (dtls/src/dtls_handler/mod.rs): the retty pipeline handler *)
(* in front of a DTLS Endpoint.  Every entry point (transport_active,     *)
(* read, handle_timeout, write, close) calls the endpoint and then        *)
(* handle_outgoing, which drains poll_transmit into fire_write.  The      *)
(* endpoint is the one of DtlsEndpoint; the datagrams fired downstream    *)
(* are wire, the messages fired upstream are counted in reads, the        *)
(* errors fired as exceptions are kept in exceptions.                     *)
(***************************************************************************)
EXTENDS DtlsEndpoint

CONSTANT MaxCalls           \* bound: entry-point calls

VARIABLES
    ep,             \* the endpoint shared by the inbound and outbound halves
    clientConfig,   \* inbound.client_config is Some
    peerAddr,       \* inbound.peer_addr is Some
    wire,           \* datagrams handed to fire_write, in order
    reads,          \* application messages handed to fire_read
    exceptions,     \* errors handed to fire_read/write_exception
    calls           \* entry-point calls so far

vars == <<ep, clientConfig, peerAddr, wire, reads, exceptions, calls>>

\* DtlsHandler::new: a client keeps the handshake config (and maybe a peer
\* address) for transport_active, a server gives it to the endpoint.
Init ==
    /\ \E isClient \in BOOLEAN :
          /\ clientConfig = isClient
          /\ peerAddr \in IF isClient THEN BOOLEAN ELSE {FALSE}
    /\ ep = NewEndpoint("none")
    /\ wire = << >>
    /\ reads = 0
    /\ exceptions = << >>
    /\ calls = 0

\* Mutant: `if let` for `while let`, one transmit per call.
HandleOutgoingOnce(e) ==
    /\ wire' = wire \o SubSeq(e.pending, 1, IF e.pending = << >> THEN 0 ELSE 1)
    /\ ep' = [e EXCEPT !.pending = IF @ = << >> THEN @ ELSE Tail(@)]

\* handle_outgoing: every queued transmit, in poll order, to fire_write.
HandleOutgoing(e) ==
    /\ wire' = wire \o e.pending
    /\ ep' = [e EXCEPT !.pending = << >>]

Call == calls < MaxCalls /\ calls' = calls + 1

Fire(err) == exceptions' = IF err = "none" THEN exceptions ELSE Append(exceptions, err)

\* transport_active on a client: peer_addr.take() then client_config.take()
\* (a missing peer address fails before the config is taken), connect,
\* and handle_outgoing.  A server only fires transport_active on.
TransportActive ==
    /\ Call
    /\ clientConfig
    /\ \/ /\ ~peerAddr
          /\ Fire("ClientTransportNotSet")
          /\ HandleOutgoing(ep)
          /\ UNCHANGED <<clientConfig, peerAddr>>
       \/ /\ peerAddr
          /\ peerAddr' = FALSE /\ clientConfig' = FALSE
          /\ \E r \in EndpointConnect(ep) : Fire(r.err) /\ HandleOutgoing(r.ep)
    /\ UNCHANGED reads

\* read: endpoint.read, each message to fire_read or the error to
\* fire_read_exception, then handle_outgoing.
Read ==
    /\ Call
    /\ \E r \in EndpointRead(ep) :
          /\ reads' = reads + (IF r.err = "none" THEN r.app ELSE 0)
          /\ Fire(r.err)
          /\ HandleOutgoing(r.ep)
    /\ UNCHANGED <<clientConfig, peerAddr>>

\* handle_timeout: endpoint.handle_timeout for every connection (its
\* errors ignored), then handle_outgoing.
HandleTimeout ==
    /\ Call
    /\ \E e \in EndpointTimeout(ep) : HandleOutgoing(e)
    /\ UNCHANGED <<clientConfig, peerAddr, reads, exceptions>>

\* write: endpoint.write, its error to fire_write_exception, then
\* handle_outgoing.
Write ==
    /\ Call
    /\ Room(ep)
    /\ LET r == EndpointWrite(ep) IN Fire(r.err) /\ HandleOutgoing(r.ep)
    /\ UNCHANGED <<clientConfig, peerAddr, reads>>

\* close: endpoint.close for every connection, then handle_outgoing.
Close ==
    /\ Call
    /\ Room(ep)
    /\ HandleOutgoing(EndpointClose(ep))
    /\ UNCHANGED <<clientConfig, peerAddr, reads, exceptions>>

Next == TransportActive \/ Read \/ HandleTimeout \/ Write \/ Close

Spec == Init /\ [][Next]_vars

-----------------------------------------------------------------------------
TypeOK ==
    /\ ep \in Endpoint
    /\ clientConfig \in BOOLEAN /\ peerAddr \in BOOLEAN
    /\ wire \in Seq(Datagram)
    /\ reads \in Nat
    /\ exceptions \in Seq({"ClientTransportNotSet", "AlertFatalOrClose", "Other"})
    /\ calls \in 0..MaxCalls

\* Between calls, every datagram the endpoint has produced has been handed
\* to fire_write, once and in the order it was produced (spec 5): each
\* entry point ends with handle_outgoing, which drains poll_transmit.
WireInProductionOrder == Ids(wire) = Made(ep)
=============================================================================
