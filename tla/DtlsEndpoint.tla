---------------------------- MODULE DtlsEndpoint ----------------------------
(***************************************************************************)
(* The DTLS Endpoint as the two glue layers consume it: one connection to *)
(* one peer and the queue of datagrams poll_transmit hands out.  The      *)
(* endpoint itself is not under src/; its operations are modelled from    *)
(* the spec (section 4.4, the handshake engine; section 5, "outbound      *)
(* packets leave the connection in the order they were produced" and     *)
(* "close() ... emits CloseNotify if possible"), and only as far as the   *)
(* glue can tell them apart: which datagrams are queued, which events a  *)
(* read yields, and which error it returns.                               *)
(*                                                                         *)
(* Every datagram carries the number of datagrams the endpoint had made  *)
(* before it (id), so that the order it leaves in can be checked.        *)
(***************************************************************************)
EXTENDS Naturals, Sequences

CONSTANT MaxMade            \* bound: datagrams one endpoint produces

Conns == {"none", "handshaking", "connected", "closed"}

Datagram == [id : 1..MaxMade, kind : {"hs", "app", "close_notify"}]

Endpoint == [conn : Conns, keyed : BOOLEAN, made : 0..MaxMade,
             pending : Seq(Datagram)]

NewEndpoint(c) == [conn |-> c, keyed |-> FALSE, made |-> 0, pending |-> << >>]

\* Queue n datagrams of kind k behind those not yet polled.
Queue(ep, k, n) ==
    [ep EXCEPT !.made = @ + n,
               !.pending = @ \o [i \in 1..n |-> [id |-> ep.made + i, kind |-> k]]]

\* A handshake flight: one datagram, or two when the flight's records do
\* not fit one MTU (compact_raw_packets).
Flight(ep) == {Queue(ep, "hs", n) : n \in {n \in 1..2 : ep.made + n <= MaxMade}}

\* A handshake datagram may be answered with a flight or ignored (a
\* duplicate, or a message the engine buffers).
Answered(ep) == Flight(ep) \cup {ep}

\* What read returns: the endpoint afterwards, the error (or "none"), and
\* the events: HandshakeComplete and the number of ApplicationData.
Result(ep, err, complete, app) ==
    [ep |-> ep, err |-> err, complete |-> complete, app |-> app]

\* get_connection_state(peer) is Some while the connection exists.
HasState(ep) == ep.conn \in {"handshaking", "connected"}

\* read(peer, datagram): a ClientHello opens a server-side connection; a
\* handshake datagram is answered, or completes the handshake (the last
\* flight may go out and application data may follow in the same
\* datagram); an established connection yields application data; a fatal
\* alert or close_notify is returned as AlertFatalOrClose; anything else
\* that fails (a closed connection, a bad record) as another error.
EndpointRead(ep) ==
    LET Failed == {Result(ep, "AlertFatalOrClose", FALSE, 0),
                   Result(ep, "Other", FALSE, 0)}
    IN  CASE ep.conn = "none" ->
               {Result([e EXCEPT !.conn = "handshaking"], "none", FALSE, 0) :
                  e \in Flight(ep)}
          [] ep.conn = "handshaking" ->
               {Result(e, "none", FALSE, 0) : e \in Answered(ep)}
               \cup {Result([e EXCEPT !.conn = "connected", !.keyed = TRUE],
                            "none", TRUE, a) : e \in Answered(ep), a \in 0..1}
               \cup Failed
          [] ep.conn = "connected" ->
               {Result(ep, "none", FALSE, 1)} \cup Failed
          [] ep.conn = "closed" ->
               {Result(ep, "Other", FALSE, 0)}

\* connect(peer, config): a client connection and its first flight.
EndpointConnect(ep) ==
    IF ep.conn = "none"
    THEN {[ep |-> [e EXCEPT !.conn = "handshaking"], err |-> "none"] : e \in Flight(ep)}
    ELSE {[ep |-> ep, err |-> "Other"]}

\* write(peer, data): one application record once connected,
\* HandshakeInProgress or ConnClosed otherwise.
EndpointWrite(ep) ==
    IF ep.conn = "connected"
    THEN [ep |-> Queue(ep, "app", 1), err |-> "none"]
    ELSE [ep |-> ep, err |-> "Other"]

\* handle_timeout(peer, now): a handshaking connection may retransmit its
\* last flight (or its timer is not yet due).
EndpointTimeout(ep) ==
    IF ep.conn = "handshaking" THEN Answered(ep) ELSE {ep}

\* close(peer): the connection is closed and a close_notify queued; no
\* connection, nothing to do.
EndpointClose(ep) ==
    IF HasState(ep) THEN [Queue(ep, "close_notify", 1) EXCEPT !.conn = "closed"]
    ELSE ep

\* Room for one more datagram under the bound MaxMade; the handlers take
\* a step that may queue one only when there is.
Room(ep) == ep.made < MaxMade

\* The ids of a sequence of datagrams.
Ids(s) == [i \in DOMAIN s |-> s[i].id]

\* Every datagram made so far, in the order it was made.
Made(ep) == [i \in 1..ep.made |-> i]
=============================================================================
