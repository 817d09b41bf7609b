------------------------------- MODULE DtlsConn -------------------------------
(***************************************************************************)
(* A DTLS client and a DTLS server connection (src/dtls/src/conn/mod.rs,  *)
(* the flight FSM of src/dtls/src/handshaker.rs) driven by the retty       *)
(* handler of src/dtls/src/dtls_handlers/dtls_connection_handler.rs, over *)
(* a datagram network that loses, duplicates and reorders datagrams.      *)
(*                                                                         *)
(* Each handler entry point (transport_active, read, handle_timeout,      *)
(* write, close) is one atomic action: the code is single-threaded and    *)
(* every call runs to completion, including its trailing handshake() loop *)
(* and handle_outgoing.  The state of one connection is a record conn[p]; *)
(* the operators below are the code's methods as functions on it.         *)
(***************************************************************************)
EXTENDS Naturals, Sequences, FiniteSets, DtlsFlights, DtlsFragment

CONSTANTS
    WaitReturns,      \* FALSE: handshake() as written, spinning in Waiting;
                      \* TRUE: it returns there, as spec.md section 4.4 says
    SpuriousTimeouts, \* TRUE: handle_timeout may fire whenever a timer is
                      \* armed; FALSE: only when no datagram is in flight
    Mtu,              \* maximum_transmission_unit, in records (see Compact)
    MaxSeqNum,        \* MAX_SEQUENCE_NUMBER, scaled down
    ReplayWindow,     \* replay_protection_window
    MaxLoss,          \* bound on datagrams the network drops
    MaxDup,           \* bound on datagrams the network duplicates
    MaxTimeouts,      \* bound on handle_timeout calls per connection
    MaxWrites,        \* bound on write calls per connection
    Closers           \* peers whose application calls close

ASSUME WaitReturns \in BOOLEAN /\ SpuriousTimeouts \in BOOLEAN
ASSUME Mtu \in Nat \ {0} /\ MaxSeqNum \in Nat /\ ReplayWindow \in Nat \ {0}
ASSUME {MaxLoss, MaxDup, MaxTimeouts, MaxWrites} \subseteq Nat
ASSUME Closers \subseteq {"client", "server"}

VARIABLES
    conn,      \* conn[p]: the DTLSConn of peer p
    net,       \* datagrams in flight: sequences of records
    active,    \* transport_active has been delivered to p's handler
    transport, \* p's handler knows the transport to send on
    received,  \* application data p's handler has passed up, in order
    notifies,  \* close_notify alerts p has put on the wire
    drops, dups, timeouts, writes

vars == <<conn, net, active, transport, received, notifies, drops, dups, timeouts, writes>>

Peers == {"client", "server"}
IsClient(p) == p = "client"
Epochs == 0..1
States == {"Errored", "Preparing", "Sending", "Waiting", "Finished"}
Alerts == {"close_notify", "unexpected_message"}
NoAlert == "none"

Min2(a, b) == IF a < b THEN a ELSE b
MaxOf(S) == CHOOSE x \in S : \A y \in S : y <= x

(***************************************************************************)
(* DTLSConn::new without an initial state: the client starts in Flight1,  *)
(* the server in Flight0, both Preparing.                                 *)
(***************************************************************************)
NewConn(p) ==
    [hstate |-> "Preparing",
     flight |-> IF IsClient(p) THEN "Flight1" ELSE "Flight0",
     flights |-> << >>, retransmit |-> FALSE, hsSendSeq |-> 0,
     localEpoch |-> 0, remoteEpoch |-> 0, cipher |-> FALSE,
     rx |-> FALSE, completed |-> FALSE, closed |-> FALSE, timer |-> FALSE,
     cache |-> {}, lsn |-> [e \in Epochs |-> 0], replay |-> [e \in Epochs |-> {}],
     queue |-> << >>, fbSeq |-> 0, fbuf |-> {}, appIn |-> << >>,
     out |-> << >>, hung |-> FALSE]

\* A handshake-cache key: (epoch, message_sequence, type, is_client origin).
CacheEntry(epoch, mseq, typ, client) ==
    [epoch |-> epoch, mseq |-> mseq, typ |-> typ, client |-> client]

\* notify(): an alert record at the local epoch, encrypted once the
\* handshake has completed.
AlertPkt(c, a) == Pkt("alert", c.localEpoch, a, c.completed)

(***************************************************************************)
(* Outbound path: handle_outgoing_packets.  Every queued packet takes the *)
(* next sequence number of its epoch (process_packet and                  *)
(* process_handshake_packet); a handshake message is first pushed to the  *)
(* cache.  A sequence number above MAX_SEQUENCE_NUMBER is                 *)
(* ErrSequenceNumberOverflow and nothing of the batch is sent.  The       *)
(* counter is saturated at MaxSeqNum + 1: every larger value overflows    *)
(* alike.  A record is encrypted when should_encrypt and a cipher suite   *)
(* is installed.                                                          *)
(***************************************************************************)
\* Fault: the MAX_SEQUENCE_NUMBER check of process_packet left out.
RECURSIVE EmitUnchecked(_, _, _, _)
EmitUnchecked(c, pkts, recs, p) ==
    IF pkts = << >> THEN [c |-> c, recs |-> recs]
    ELSE LET pk == Head(pkts)
             n  == c.lsn[pk.epoch]
             c1 == [c EXCEPT !.lsn[pk.epoch] = n + 1,
                             !.cache = IF pk.typ = "hs"
                                       THEN @ \cup {CacheEntry(pk.epoch, pk.mseq,
                                                          pk.msg, IsClient(p))}
                                       ELSE @]
             rec == [from |-> p, typ |-> pk.typ, epoch |-> pk.epoch, seq |-> n,
                     msg |-> pk.msg, mseq |-> pk.mseq, enc |-> pk.enc /\ c.cipher]
         IN EmitUnchecked(c1, Tail(pkts), Append(recs, rec), p)

RECURSIVE Emit(_, _, _, _)
Emit(c, pkts, recs, p) ==
    IF pkts = << >> THEN [c |-> c, recs |-> recs]
    ELSE LET pk == Head(pkts)
             n  == c.lsn[pk.epoch]
             c1 == [c EXCEPT !.lsn[pk.epoch] = Min2(n + 1, MaxSeqNum + 1),
                             !.cache = IF pk.typ = "hs"
                                       THEN @ \cup {CacheEntry(pk.epoch, pk.mseq,
                                                          pk.msg, IsClient(p))}
                                       ELSE @]
             rec == [from |-> p, typ |-> pk.typ, epoch |-> pk.epoch, seq |-> n,
                     msg |-> pk.msg, mseq |-> pk.mseq, enc |-> pk.enc /\ c.cipher]
         IN IF n > MaxSeqNum THEN [c |-> c1, recs |-> << >>]
            ELSE Emit(c1, Tail(pkts), Append(recs, rec), p)

(***************************************************************************)
(* compact_raw_packets (DtlsFragment) over the records: every record of  *)
(* the model is one unit long, so records share a datagram while the      *)
(* datagram stays below Mtu records.                                      *)
(***************************************************************************)
Compact(recs) ==
    LET g == CompactRawPackets([i \in DOMAIN recs |-> 1], Mtu)
    IN  [k \in DOMAIN g |-> [j \in DOMAIN g[k] |-> recs[g[k][j]]]]

\* handle_outgoing: drain the outgoing queue into datagrams.
Flush(c, p) ==
    LET e   == Emit([c EXCEPT !.out = << >>], c.out, << >>, p)
        dgs == Compact(e.recs)
    IN [c |-> e.c,
        dgs |-> IF e.recs = << >> THEN {} ELSE {dgs[i] : i \in DOMAIN dgs},
        closeNotifies |-> Cardinality({i \in DOMAIN e.recs :
                                         e.recs[i].typ = "alert"
                                         /\ e.recs[i].msg = "close_notify"})]

(***************************************************************************)
(* The handshake engine (handshaker.rs).  Each operator is one state of   *)
(* the flight FSM as a function on the connection.                        *)
(***************************************************************************)
\* Number of handshake packets among the first i - 1 of pkts.
HsBefore(pkts, i) == Cardinality({j \in 1..(i - 1) : pkts[j].typ = "hs"})

\* prepare: generate the flight, stamp each handshake message with the next
\* handshake_send_sequence, and move to the flight's highest epoch.  The
\* initial epoch is 0, so the rebase by cfg.initial_epoch leaves epochs as
\* generated.
Prepare(c) ==
    LET pkts == Generate(c.flight)
        base == IF GenerateResetsSeq(c.flight) THEN 0 ELSE c.hsSendSeq
        next == MaxOf({0} \cup {pkts[i].epoch : i \in DOMAIN pkts})
    IN [c EXCEPT
          !.retransmit = HasRetransmit(c.flight),
          !.flights = [i \in DOMAIN pkts |->
                         IF pkts[i].typ = "hs"
                         THEN [pkts[i] EXCEPT !.mseq = base + HsBefore(pkts, i)]
                         ELSE pkts[i]],
          !.hsSendSeq = base + HsBefore(pkts, Len(pkts) + 1),
          !.localEpoch = IF next # 0 THEN next ELSE @,
          !.cipher = @ \/ GenerateInitsCipher(c.flight),
          !.hstate = "Sending"]

\* send: queue the prepared flight; after the last flight go to Finished,
\* otherwise arm the retransmit timer and wait.
Send(c) ==
    [c EXCEPT !.out = @ \o c.flights,
              !.hstate = IF IsLastSendFlight(c.flight) THEN "Finished" ELSE "Waiting",
              !.timer = IF IsLastSendFlight(c.flight) THEN @ ELSE TRUE]

\* Types of the peer's messages in the handshake cache.
PeerMsgs(c, client) == {e.typ : e \in {x \in c.cache : x.client # client}}

\* Fault: a parse that repeats the current flight finishes the handshake,
\* whatever the flight.
WaitRepeatFinishes(c, client) ==
    LET peer == PeerMsgs(c, client)
        nf   == Parse(c.flight, peer)
        c1   == [c EXCEPT !.rx = FALSE,
                          !.cipher = @ \/ ParseInitsCipher(c.flight, peer)]
    IN IF nf = NotReady THEN c1
       ELSE IF nf = c.flight
            THEN [c1 EXCEPT !.hstate = "Finished"]
            ELSE [c1 EXCEPT !.flight = nf, !.hstate = "Preparing"]

\* wait with handshake_rx set: take it and parse the current flight.
Wait(c, client) ==
    LET peer == PeerMsgs(c, client)
        nf   == Parse(c.flight, peer)
        c1   == [c EXCEPT !.rx = FALSE,
                          !.cipher = @ \/ ParseInitsCipher(c.flight, peer)]
    IN IF nf = NotReady THEN c1
       ELSE IF IsLastRecvFlight(nf) /\ nf = c.flight
            THEN [c1 EXCEPT !.hstate = "Finished"]
            ELSE [c1 EXCEPT !.flight = nf, !.hstate = "Preparing"]

\* finish: take handshake_rx and parse the current flight again; for the
\* last flight that parse only checks the peer's retransmission and
\* changes nothing the model tracks.
Finish(c) == IF c.rx THEN [c EXCEPT !.rx = FALSE] ELSE c

\* The loop makes no progress: wait() without handshake_rx answers Waiting,
\* and finish() on a completed connection answers Finished.
NoProgress(c) ==
    /\ ~c.rx
    /\ \/ c.hstate = "Waiting"
       \/ c.hstate = "Finished" /\ c.completed

\* handshake(): iterate the FSM.  A call ends when Finished is reached for
\* the first time.  Where the loop makes no progress the code spins; the
\* model marks the connection hung, unless WaitReturns.  Fuel bounds the
\* recursion: one call takes at most five steps.
RECURSIVE HandshakeLoop(_, _, _)
HandshakeLoop(c, client, fuel) ==
    IF fuel = 0 THEN c
    ELSE IF c.hstate = "Finished" /\ ~c.completed THEN [c EXCEPT !.completed = TRUE]
    ELSE IF NoProgress(c)
         THEN IF WaitReturns THEN c ELSE [c EXCEPT !.hung = TRUE]
    ELSE LET n == CASE c.hstate = "Preparing" -> Prepare(c)
                    [] c.hstate = "Sending"   -> Send(c)
                    [] c.hstate = "Waiting"   -> Wait(c, client)
                    [] c.hstate = "Finished"  -> Finish(c)
         IN HandshakeLoop(n, client, fuel - 1)

Handshake(c, client) == HandshakeLoop(c, client, 8)

\* handshake_timeout: retransmit from Waiting (or re-arm the timer for a
\* flight without retransmission) and from Finished, then run the loop.
\* Fault: a timeout in Waiting goes back to Preparing, so the flight is
\* generated and stamped again instead of resent.
HandshakeTimeoutRestamp(c, client) ==
    CASE c.hstate = "Waiting" /\ c.retransmit ->
             Handshake([c EXCEPT !.hstate = "Preparing"], client)
      [] c.hstate = "Waiting" ->
             Handshake([c EXCEPT !.timer = TRUE], client)
      [] c.hstate = "Finished" ->
             Handshake([c EXCEPT !.hstate = "Sending"], client)
      [] OTHER -> c

\* Fault: a timeout in Waiting only re-arms the timer.
HandshakeTimeoutNoRetransmit(c, client) ==
    CASE c.hstate = "Waiting" ->
             Handshake([c EXCEPT !.timer = TRUE], client)
      [] c.hstate = "Finished" ->
             Handshake([c EXCEPT !.hstate = "Sending"], client)
      [] OTHER -> c

HandshakeTimeout(c, client) ==
    CASE c.hstate = "Waiting" /\ c.retransmit ->
             Handshake([c EXCEPT !.hstate = "Sending"], client)
      [] c.hstate = "Waiting" ->
             Handshake([c EXCEPT !.timer = TRUE], client)
      [] c.hstate = "Finished" ->
             Handshake([c EXCEPT !.hstate = "Sending"], client)
      [] OTHER -> c

(***************************************************************************)
(* Inbound path.  The replay detector and the fragment buffer are not in  *)
(* src/; they follow spec.md section 4.1 (SlidingWindowDetector) and the  *)
(* reassembly order of message_sequence.                                  *)
(***************************************************************************)
Latest(S) == MaxOf(S \cup {0})

\* SlidingWindowDetector::check: fresh, not above the maximum, and not
\* older than the window behind the latest accepted number.
ReplayCheck(S, seq) ==
    /\ seq <= MaxSeqNum
    /\ seq \notin S
    /\ seq > Latest(S) \/ Latest(S) - seq < ReplayWindow

Accept(c, r) == [c EXCEPT !.replay[r.epoch] = @ \cup {r.seq}]

Enqueue(c, r, enqueue) == IF enqueue THEN [c EXCEPT !.queue = Append(@, r)] ELSE c
Res(c, hs, alert) == [c |-> c, hs |-> hs, alert |-> alert]
Discard(c) == Res(c, FALSE, NoAlert)

\* fragment_buffer.pop until no complete message is left: each message in
\* message_sequence order goes to the handshake cache as the peer's.
RECURSIVE PopCompleted(_, _)
PopCompleted(c, client) ==
    IF \E f \in c.fbuf : f.mseq = c.fbSeq
    THEN LET f == CHOOSE x \in c.fbuf : x.mseq = c.fbSeq
         IN PopCompleted([c EXCEPT !.fbuf = @ \ {f}, !.fbSeq = @ + 1,
                            !.cache = @ \cup {CacheEntry(f.epoch, f.mseq, f.typ, ~client)}],
                         client)
    ELSE c

(***************************************************************************)
(* handle_incoming_packet, in the code's order of early returns.  Headers *)
(* always decode (malformed bytes are not modelled).  A record is         *)
(* decrypted when it was encrypted: one sent unencrypted at epoch 1 fails *)
(* decryption.  Every alert result comes with an error.                   *)
(***************************************************************************)
\* Fault: application data is delivered without accept() on its number.
HandleContentAppNoAccept(c, r, client, enqueue) ==
    CASE r.typ = "hs" ->
            LET c1 == IF r.mseq < c.fbSeq THEN c
                      ELSE [c EXCEPT !.fbuf = @ \cup {[epoch |-> r.epoch,
                                                      mseq |-> r.mseq, typ |-> r.msg]}]
            IN Res(PopCompleted(Accept(c1, r), client), TRUE, NoAlert)
      [] r.typ = "alert" -> Res(Accept(c, r), FALSE, r.msg)
      [] r.typ = "ccs" ->
            IF ~c.cipher THEN Res(Enqueue(c, r, enqueue), FALSE, NoAlert)
            ELSE IF c.remoteEpoch + 1 = r.epoch + 1
                 THEN Discard([Accept(c, r) EXCEPT !.remoteEpoch = r.epoch + 1])
                 ELSE Discard(c)
      [] r.typ = "app" ->
            IF r.epoch = 0 THEN Res(c, FALSE, "unexpected_message")
            ELSE Discard([c EXCEPT !.appIn = Append(@, r.msg)])

HandleContent(c, r, client, enqueue) ==
    CASE r.typ = "hs" ->
            LET c1 == IF r.mseq < c.fbSeq THEN c
                      ELSE [c EXCEPT !.fbuf = @ \cup {[epoch |-> r.epoch,
                                                      mseq |-> r.mseq, typ |-> r.msg]}]
            IN Res(PopCompleted(Accept(c1, r), client), TRUE, NoAlert)
      [] r.typ = "alert" ->
            \* a close_notify is answered with a close_notify, any other
            \* alert is sent back as it came
            Res(Accept(c, r), FALSE, r.msg)
      [] r.typ = "ccs" ->
            IF ~c.cipher THEN Res(Enqueue(c, r, enqueue), FALSE, NoAlert)
            ELSE IF c.remoteEpoch + 1 = r.epoch + 1
                 THEN Discard([Accept(c, r) EXCEPT !.remoteEpoch = r.epoch + 1])
                 ELSE Discard(c)
      [] r.typ = "app" ->
            IF r.epoch = 0 THEN Res(c, FALSE, "unexpected_message")
            ELSE Discard([Accept(c, r) EXCEPT !.appIn = Append(@, r.msg)])

\* Fault: a record of the next epoch is not queued but read at once.
HandleIncomingNoQueue(c, r, client, enqueue) ==
    IF r.epoch > c.remoteEpoch + 1 THEN Discard(c)
    ELSE IF ~ReplayCheck(c.replay[r.epoch], r.seq) THEN Discard(c)
    ELSE IF r.epoch # 0 /\ ~c.cipher THEN Discard(Enqueue(c, r, enqueue))
    ELSE IF r.epoch # 0 /\ ~r.enc THEN Discard(c)
    ELSE HandleContent(c, r, client, enqueue)

\* Fault: the replay check is skipped.
HandleIncomingNoReplayCheck(c, r, client, enqueue) ==
    IF r.epoch > c.remoteEpoch
    THEN IF r.epoch > c.remoteEpoch + 1 THEN Discard(c)
         ELSE Discard(Enqueue(c, r, enqueue))
    ELSE IF r.epoch # 0 /\ ~c.cipher THEN Discard(Enqueue(c, r, enqueue))
    ELSE IF r.epoch # 0 /\ ~r.enc THEN Discard(c)
    ELSE HandleContent(c, r, client, enqueue)

HandleIncoming(c, r, client, enqueue) ==
    IF r.epoch > c.remoteEpoch
    THEN IF r.epoch > c.remoteEpoch + 1 THEN Discard(c)
         ELSE Discard(Enqueue(c, r, enqueue))
    ELSE IF ~ReplayCheck(c.replay[r.epoch], r.seq) THEN Discard(c)
    ELSE IF r.epoch # 0 /\ ~c.cipher THEN Discard(Enqueue(c, r, enqueue))
    ELSE IF r.epoch # 0 /\ ~r.enc THEN Discard(c)
    ELSE HandleContent(c, r, client, enqueue)

\* read_and_buffer over the records of one datagram.  An alert is queued
\* for sending and ends the datagram with an error, as does any error.
\* Fault: a handshake record does not set handshake_rx.
RECURSIVE ReadRecordsNoRx(_, _, _)
ReadRecordsNoRx(c, recs, client) ==
    IF recs = << >> THEN [c |-> c, err |-> FALSE]
    ELSE LET res == HandleIncoming(c, Head(recs), client, TRUE)
         IN IF res.alert # NoAlert
            THEN [c |-> [res.c EXCEPT !.out = Append(@, AlertPkt(res.c, res.alert))],
                  err |-> TRUE]
            ELSE ReadRecordsNoRx(res.c, Tail(recs), client)

RECURSIVE ReadRecords(_, _, _)
ReadRecords(c, recs, client) ==
    IF recs = << >> THEN [c |-> c, err |-> FALSE]
    ELSE LET res == HandleIncoming(c, Head(recs), client, TRUE)
         IN IF res.alert # NoAlert
            THEN [c |-> [res.c EXCEPT !.out = Append(@, AlertPkt(res.c, res.alert))],
                  err |-> TRUE]
            ELSE ReadRecords(IF res.hs THEN [res.c EXCEPT !.rx = TRUE] ELSE res.c,
                             Tail(recs), client)

\* handle_queued_packets: once the handshake has completed, process the
\* queued records without queueing them again.
RECURSIVE ProcessQueued(_, _, _)
ProcessQueued(c, q, client) ==
    IF q = << >> THEN [c |-> c, err |-> FALSE]
    ELSE LET res == HandleIncoming(c, Head(q), client, FALSE)
         IN IF res.alert # NoAlert
            THEN [c |-> [res.c EXCEPT !.out = Append(@, AlertPkt(res.c, res.alert))],
                  err |-> TRUE]
            ELSE ProcessQueued(res.c, Tail(q), client)

HandleQueued(c, client) ==
    IF c.completed THEN ProcessQueued([c EXCEPT !.queue = << >>], c.queue, client)
    ELSE [c |-> c, err |-> FALSE]

\* The handler's read: buffer the datagram; while the handshake is not
\* complete, run it and the queued records.  A call that never returns
\* counts as an error: nothing is passed up.
OnRead(c, d, client) ==
    LET rb == ReadRecords(c, d, client)
        h  == Handshake(rb.c, client)
    IN IF rb.err \/ rb.c.completed THEN rb
       ELSE IF h.hung THEN [c |-> h, err |-> TRUE]
       ELSE HandleQueued(h, client)

(***************************************************************************)
(* The handler (DtlsConnectionHandler).  Every entry point ends in        *)
(* handle_outgoing, which sends only once the handler knows its           *)
(* transport: the client is built with it, the server learns it from its  *)
(* first read or write.  A call that never returned sends nothing.        *)
(***************************************************************************)
Complete(p, c, tr, base) ==
    LET f    == Flush(c, p)
        send == tr /\ ~c.hung
    IN /\ conn' = [conn EXCEPT ![p] = IF send THEN f.c ELSE c]
       /\ net' = IF send THEN base \cup f.dgs ELSE base
       /\ notifies' = [notifies EXCEPT ![p] = @ + (IF send THEN f.closeNotifies ELSE 0)]
       /\ transport' = [transport EXCEPT ![p] = tr]

Init ==
    /\ conn = [p \in Peers |-> NewConn(p)]
    /\ net = {}
    /\ active = [p \in Peers |-> FALSE]
    /\ transport = [p \in Peers |-> IsClient(p)]
    /\ received = [p \in Peers |-> << >>]
    /\ notifies = [p \in Peers |-> 0]
    /\ drops = 0 /\ dups = 0
    /\ timeouts = [p \in Peers |-> 0]
    /\ writes = [p \in Peers |-> 0]

\* transport_active: start the handshake.
TransportActive(p) ==
    /\ ~active[p]
    /\ active' = [active EXCEPT ![p] = TRUE]
    /\ Complete(p, Handshake(conn[p], IsClient(p)), transport[p], net)
    /\ UNCHANGED <<received, drops, dups, timeouts, writes>>

\* DTLSConn::read, called until it yields nothing: the decrypted
\* application data, none before the handshake has completed.
ReadDecrypted(c) == IF c.completed THEN c.appIn ELSE << >>

\* DTLSConn::write: ErrConnClosed when closed, ErrHandshakeInProgress
\* before completion (both leave the connection as it is), otherwise one
\* application-data packet at the local epoch.
ConnWrite(c, data) ==
    IF c.closed \/ ~c.completed THEN c
    ELSE [c EXCEPT !.out = Append(@, Pkt("app", c.localEpoch, data, TRUE))]

\* DTLSConn::close: the first call marks the connection closed and sends
\* a close_notify; later calls change nothing.
ConnClose(c) ==
    IF c.closed THEN c
    ELSE [c EXCEPT !.closed = TRUE, !.out = Append(@, AlertPkt(c, "close_notify"))]

\* read: one datagram from the peer, possibly a duplicate the network
\* keeps delivering.  Application data is passed up once the handshake has
\* completed and the call did not fail.  timeouts counts retransmissions
\* of the current flight, so it restarts when the flight changes.
Read(p) ==
    /\ active[p]
    /\ ~conn[p].hung
    /\ \E d \in net, keep \in BOOLEAN :
          /\ d[1].from # p
          /\ keep => dups < MaxDup
          /\ dups' = dups + (IF keep THEN 1 ELSE 0)
          /\ LET r  == OnRead(conn[p], d, IsClient(p))
                 up == IF r.err THEN << >> ELSE ReadDecrypted(r.c)
             IN /\ received' = [received EXCEPT ![p] = @ \o up]
                /\ timeouts' = IF r.c.flight # conn[p].flight
                               THEN [timeouts EXCEPT ![p] = 0] ELSE timeouts
                /\ Complete(p, [r.c EXCEPT !.appIn = IF up = << >> THEN @ ELSE << >>],
                            TRUE, IF keep THEN net ELSE net \ {d})
    /\ UNCHANGED <<active, drops, writes>>

\* A timeout that would retransmit a flight.
Retransmits(c) ==
    /\ ~c.completed
    /\ \/ c.hstate = "Finished"
       \/ c.hstate = "Waiting" /\ c.retransmit

\* handle_timeout: take the timer; before completion run
\* handshake_timeout.  The handler does not compare now with the
\* deadline, so a timeout may come early: with SpuriousTimeouts any armed
\* timer may fire, otherwise only when nothing is in flight.
Timeout(p) ==
    LET c == conn[p]
        c0 == [c EXCEPT !.timer = FALSE]
    IN /\ c.timer
       /\ ~c.hung
       /\ SpuriousTimeouts \/ net = {}
       /\ Retransmits(c) => timeouts[p] < MaxTimeouts
       /\ timeouts' = IF Retransmits(c) THEN [timeouts EXCEPT ![p] = @ + 1] ELSE timeouts
       /\ Complete(p, IF c0.completed THEN c0 ELSE HandshakeTimeout(c0, IsClient(p)),
                   transport[p], net)
       /\ UNCHANGED <<active, received, drops, dups, writes>>

\* The outbound handler's write: learn the transport, write the data (an
\* error only fires an exception), then handle_outgoing.
Write(p) ==
    /\ active[p]
    /\ ~conn[p].hung
    /\ writes[p] < MaxWrites
    /\ writes' = [writes EXCEPT ![p] = @ + 1]
    /\ Complete(p, ConnWrite(conn[p], writes[p] + 1), TRUE, net)
    /\ UNCHANGED <<active, received, drops, dups, timeouts>>

\* The outbound handler's close: close the connection, then
\* handle_outgoing.
Close(p) ==
    /\ p \in Closers
    /\ ~conn[p].hung
    /\ Complete(p, ConnClose(conn[p]), transport[p], net)
    /\ UNCHANGED <<active, received, drops, dups, timeouts, writes>>

\* The network loses a datagram.
Drop ==
    /\ drops < MaxLoss
    /\ \E d \in net : net' = net \ {d}
    /\ drops' = drops + 1
    /\ UNCHANGED <<conn, active, transport, received, notifies, dups, timeouts, writes>>

Next ==
    \/ \E p \in Peers :
          \/ TransportActive(p)
          \/ Read(p)
          \/ Timeout(p)
          \/ Write(p)
          \/ Close(p)
    \/ Drop

\* When Read(p) and Timeout(p) can take a step that changes the state.
\* Every conjunct of Read after these guards only assigns; a Timeout that
\* neither retransmits nor finds the handshake completed re-arms the timer
\* of a waiting flight and returns with nothing changed.
ReadEnabled(p) ==
    /\ active[p]
    /\ ~conn[p].hung
    /\ \E d \in net : d[1].from # p

TimeoutEnabled(p) ==
    /\ conn[p].timer
    /\ ~conn[p].hung
    /\ SpuriousTimeouts \/ net = {}
    /\ Retransmits(conn[p]) => timeouts[p] < MaxTimeouts
    /\ Retransmits(conn[p]) \/ conn[p].completed \/ ~WaitReturns

\* The event loop delivers every datagram and every expired timer; the
\* application's writes and closes, and the network's losses, are not
\* owed to anyone.  Weak fairness of Read and Timeout is written out with
\* the enabledness conditions above.
Fairness ==
    \A p \in Peers :
        /\ WF_vars(TransportActive(p))
        /\ []<>~ReadEnabled(p) \/ []<><<Read(p)>>_vars
        /\ []<>~TimeoutEnabled(p) \/ []<><<Timeout(p)>>_vars

Spec == Init /\ [][Next]_vars /\ Fairness

(***************************************************************************)
(* Properties                                                              *)
(***************************************************************************)
RecordOK(r) ==
    /\ r.from \in Peers /\ r.epoch \in Epochs /\ r.seq \in 0..MaxSeqNum
    /\ r.mseq \in Nat /\ r.enc \in BOOLEAN
    /\ \/ r.typ = "hs" /\ r.msg \in HsTypes
       \/ r.typ = "ccs" /\ r.msg = "ccs"
       \/ r.typ = "alert" /\ r.msg \in Alerts
       \/ r.typ = "app" /\ r.msg \in 1..MaxWrites

TypeOK ==
    /\ \A p \in Peers :
          /\ conn[p].hstate \in States
          /\ conn[p].flight \in Flights
          /\ {conn[p].localEpoch, conn[p].remoteEpoch} \subseteq Epochs
          /\ conn[p].lsn \in [Epochs -> 0..(MaxSeqNum + 1)]
          /\ \A e \in Epochs : conn[p].replay[e] \subseteq 0..MaxSeqNum
          /\ \A i \in DOMAIN conn[p].queue : RecordOK(conn[p].queue[i])
          /\ \A e \in conn[p].cache : e.typ \in HsTypes /\ e.epoch \in Epochs
          /\ {conn[p].completed, conn[p].closed, conn[p].rx, conn[p].hung,
              conn[p].timer, conn[p].cipher} \subseteq BOOLEAN
    /\ \A d \in net : d # << >> /\ \A i \in DOMAIN d : RecordOK(d[i])
    /\ received \in [Peers -> Seq(1..MaxWrites)]
    /\ drops <= MaxLoss /\ dups <= MaxDup

\* Every handshake message both sides know of, with its origin.
Transcript == UNION {conn[p].cache : p \in Peers}

\* Within each origin, a message_sequence names one handshake message and
\* a message keeps its message_sequence: retransmissions from Waiting or
\* Finished resend the stamped flight (handshake_timeout -> send) and never
\* stamp it again, and each side reassembles the other's messages in that
\* numbering.
HandshakeSeqConsistent ==
    \A e1, e2 \in Transcript :
        e1.client = e2.client => (e1.mseq = e2.mseq <=> e1.typ = e2.typ)

\* A connection completes only after it has taken the peer's
\* ChangeCipherSpec and the peer's Finished, sent under the new epoch,
\* has reached its handshake cache: records of the next epoch are queued,
\* not read, until the ChangeCipherSpec arrives (handle_incoming_packet).
CompletedAfterPeerFinished ==
    \A p \in Peers :
        conn[p].completed =>
            /\ conn[p].remoteEpoch = 1
            /\ \E e \in conn[p].cache :
                  e.typ = "FIN" /\ e.epoch = 1 /\ e.client # IsClient(p)

\* The application never receives the same written message twice, however
\* the network duplicates datagrams: the replay detector rejects a record
\* number it has accepted.
AppDataAtMostOnce ==
    \A p \in Peers :
        \A i, j \in DOMAIN received[p] :
            i # j => received[p][i] # received[p][j]

\* Every handshake() call returns to the handler (spec.md 4.4: it runs
\* until Finished is reached or Waiting is entered with no pending input).
HandshakeCallReturns == \A p \in Peers : ~conn[p].hung

\* The record layer's byte algorithms meet spec 4.1: fragment_handshake
\* and split_bytes cut every bounded body into the fragments the spec
\* asks for, which the peer's fragment buffer rebuilds in any arrival
\* order (completing only with the last missing one), and
\* compact_raw_packets packs every bounded run of sized packets in order,
\* greedily and below the MTU; and every datagram handle_outgoing_packets
\* put on the wire with more than one record stays below the MTU.
RecordLayerMeetsSpec ==
    /\ FragmentationMeetsSpec
    /\ CompactionMeetsSpec
    /\ \A d \in net : Len(d) > 1 => Len(d) < Mtu

\* Each side sends at most one close_notify: close() sends it once, and a
\* received close_notify is answered at most once (RFC 5246 7.2.1).
CloseNotifyOnce == \A p \in Peers : notifies[p] <= 1

\* Refinement of the abstract handshake: the flight each side has reached,
\* numbered as in DtlsHandshake, and its handshake_completed flag.
FlightNumber ==
    [f \in Flights |-> CASE f = "Flight0" -> 0 [] f = "Flight1" -> 1
                         [] f = "Flight2" -> 2 [] f = "Flight3" -> 3
                         [] f = "Flight4" -> 4 [] f = "Flight5" -> 5
                         [] f = "Flight6" -> 6]

Abstract == INSTANCE DtlsHandshake
                WITH flight <- [p \in Peers |-> FlightNumber[conn[p].flight]],
                     done <- [p \in Peers |-> conn[p].completed]

\* The two connections, with their handler, their timers and a faulty
\* network, implement the abstract handshake: every step either leaves the
\* flights and completion flags as they were or is one side answering the
\* other's latest flight (handshaker.rs wait/prepare, driven by the cache
\* the record layer fills), and a side completes only once the flight
\* protocol has run to its end on both sides.
HandshakeRefinement == Abstract!HSpec

\* Under the handler's scheduling, each side eventually completes its
\* handshake.
ServerEventuallyCompletes == <>conn["server"].completed
ClientEventuallyCompletes == <>conn["client"].completed

\* On a run where the network loses nothing (duplicates and reorders it
\* still may), both sides eventually complete: without a loss no flight
\* has to be resent after completion, which the handler cannot do.
BothCompleteUnlessLost ==
    [](drops = 0) => <>(\A p \in Peers : conn[p].completed)
=============================================================================
