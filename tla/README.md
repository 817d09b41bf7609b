# TLA+ models of the DTLS connection and the ICE agent

These modules model the two state machines of this repository that carry
real protocol logic:
- the DTLS 1.2 connection and its handshake engine, driven by the connection
  handler;
- the ICE-lite agent of `rtc-ice`.

Each module translates the code's control flow from the Rust source. The
checks are run with TLC.

## The system and its parts

| Part | Source | Model |
|---|---|---|
| DTLS handshake engine (flight FSM Preparing/Sending/Waiting/Finished, retransmission) | `src/dtls/src/handshaker.rs` | `DtlsConn` (operators), `DtlsFlights` (flights, from spec.md), `DtlsHandshake` (the abstract handshake it refines) |
| DTLS connection: record numbering, handshake cache, datagram packing, inbound epoch/replay/queue/decrypt/content path, queued-record replay, read, write, close | `src/dtls/src/conn/mod.rs` | `DtlsConn` |
| DTLS fragmentation and datagram packing: split_bytes, fragment_handshake, compact_raw_packets | `src/dtls/src/conn/mod.rs` | `DtlsFragment` (pure operators; the fragment buffer that reassembles is from spec.md 4.2) |
| DTLS connection handler: transport_active, read, handle_timeout, write, close, each followed by handle_outgoing | `src/dtls/src/dtls_handlers/dtls_connection_handler.rs` | `DtlsConn` (actions) |
| DTLS endpoint handler (retty): transport_active, read, handle_timeout, write, close, each followed by handle_outgoing | `src/dtls/src/dtls_handler/mod.rs` | `DtlsHandler`, over `DtlsEndpoint` (the `Endpoint`, from spec.md) |
| RTC DTLS/SRTP glue: handle_transmit, update_srtp_contexts | `src/rtc/src/handlers/dtls.rs` | `RtcDtlsTransport`, over `DtlsEndpoint` |
| ICE agent: candidates, checklist, pending binding requests, selected pair, connection state | `src/rtc-ice/src/agent/mod.rs` | `IceAgent` |
| ICE agent internal (older copy of the same logic, candidates per network type) | `src/ice/src/agent/agent_internal.rs` | `IceAgentInternal` |
| ICE host candidate constructor | `src/ice/src/candidate/candidate_host.rs` | not modelled: a constructor |
| SCTP parameter dispatch | `src/sctp/src/param/mod.rs` | not modelled: a stateless dispatch to parsers outside src/ |

How the DTLS parts interact:
- A peer's connection handler owns one `DTLSConn`.
- Every handler entry point ends with `handle_outgoing`. That drains the connection's outgoing packets: they are numbered, cached if they are handshake messages, packed into datagrams of at most the MTU, and written to the transport.
- `read` runs `read_and_buffer` on a datagram, then `handshake()`, then `handle_queued_packets`.
- `handle_timeout` takes the retransmission timer and calls `handshake_timeout`.

The ICE agent is driven in three ways:
- by the application (`add_local_candidate`, `add_remote_candidate`, `set_remote_credentials`, `restart`, `start_connectivity_checks`, `close`);
- by inbound datagrams (`handle_inbound_candidate_msg` → `handle_inbound`);
- by the connectivity-check loop, which calls `contact()` once per interval.

The two glue layers drive a `dtls::endpoint::Endpoint` (not under src/), which owns the connections and a queue of datagrams handed out by `poll_transmit`:
- the retty `DtlsHandler` calls the endpoint from each pipeline entry point and then drains the queue into `fire_write`;
- the RTC stack's `RTCDtlsTransport::handle_transmit` reads an inbound DTLS datagram into the endpoint, keys the SRTP contexts when the handshake completes, drains the queue into `self.transmits` and passes application data on. Its `handle_timeout` and `poll_write` are commented out, so nothing else drains the endpoint.

In this version the loop (`connectivity_checks`) and the candidate-pair selector (`contact_candidates`, `ping_candidate`, `handle_success_response`, `handle_binding_request`) are commented out or not under src/. They are modelled from spec.md section 4.5 and marked `spec_modelled` in PROJECT.json.

## Modules

### `DtlsFlights`

The seven flights of a PSK handshake as stateless values, from spec.md section 3. The flight implementations are not under src/.
- `Generate(f)` gives the packets of a flight, with handshake messages abstracted to their type.
- `Parse(f, peer)` gives the next flight from the types of the peer's cached messages, or `NotReady`.
- There are also queries for has_retransmit and last send/receive flight.

### `DtlsConn`

Two peers, `client` and `server`.

State:
- `conn[p]` is one record per peer holding the fields of `DTLSConn` the code reads or writes:
  - handshake state and flight;
  - the flights to send, and the retransmit flag;
  - the handshake send sequence;
  - local and remote epoch;
  - cipher initialised;
  - `handshake_rx`, completed, closed, the timer;
  - the handshake cache;
  - the local sequence number per epoch;
  - the replay window per epoch;
  - the encrypted-packet queue;
  - the fragment buffer;
  - application data received;
  - the out queue.
- `net` is the set of datagrams in flight, each a sequence of records. Loss and duplication are bounded, and reordering comes from the set.
- `transport[p]` says whether the handler knows its peer's address.

Operators and actions:
- Every code function is an operator on the peer's record:
  - `Prepare`, `Send`, `Wait` and `HandshakeLoop` (`handshake()`, RECURSIVE with fuel);
  - `Finish` (finish), `HandshakeTimeout`, `Emit` (process_packet), `Compact` (compact_raw_packets from `DtlsFragment`, every record one unit long) and `Flush` (handle_outgoing_packets);
  - `ReadDecrypted` (`DTLSConn::read`), `ConnWrite` (`DTLSConn::write`) and `ConnClose` (`DTLSConn::close`);
  - `HandleIncoming`, `HandleContent`, `ReadRecords` (read_and_buffer) and `HandleQueued`.
- The actions are the handler's entry points, each ending with `Complete` (handle_outgoing): `TransportActive`, `Read`, `Timeout`, `Write` and `Close`.
- `Drop` loses a datagram.

Two constants choose between code behaviours:
- `WaitReturns`: FALSE is the code as written, where `handshake()` loops in Waiting. TRUE lets the loop return, so that the rest of the protocol can be explored.
- `SpuriousTimeouts`: the handler ignores `now`, so a timer may fire while replies are in flight.

### `DtlsFragment`

The record layer's byte algorithms as pure operators, with no state:
- `SplitBytes` (split_bytes, RECURSIVE): slices of the MTU, the last one shorter;
- `FragmentHandshake` (fragment_handshake): one fragment per slice, or one empty fragment for an empty body, each carrying the message's length and sequence, the running offset and its own length;
- `CompactRawPackets` (compact_raw_packets, via the RECURSIVE `CompactFrom`): packets, given by their sizes, share a datagram until the next would bring it to the MTU; datagrams are sequences of packet indices so that `DtlsConn` can pack its records with the same operator.
- `NoSlots`, `Push`, `IsComplete` and `Reassembled` are the fragment buffer of spec.md 4.2 (`fragment_buffer.rs` is not under src/): byte slots keyed by offset, complete when `[0, length)` is present.

`FragmentsOK` and `CompactOK` are the reference definitions, from spec.md 4.1. `FragmentationMeetsSpec` and `CompactionMeetsSpec` quantify them over every body of up to `MaxBody` (4) bytes at MTUs 1..3, and over every run of up to 4 packets of 1..3 bytes at MTUs 1..4; the first also feeds the fragments to the fragment buffer in every order (`SetToSeqs`). They are constant, so TLC evaluates them once. `DtlsConn` extends the module and states them, together with the fact that every multi-record datagram on its network is below `Mtu`, as the invariant `RecordLayerMeetsSpec` of the `safety` run.

### `IceAgent`

The whole `Agent` struct is one record `a`. Each method is an operator from agent to agent, and each entry point is an action:
- `AddLocalCandidate`, `AddRemoteCandidate`, `SetRemoteCredentials`, `Restart`, `StartConnectivityChecks`, `Close`. `close()` only deletes the candidates and sets Closed; it does not touch the loop;
- `Contact`: one loop interval elapses, then `contact()` runs, on an agent that is not Closed;
- `LoopExit`: the loop's next iteration finds the agent Closed and ends (spec 5). Between `Close` and `LoopExit` a `Restart` can move the agent back to Checking while the loop still runs.
- `Receive`: a datagram arrives. A request is answered by `SendBindingSuccess` (send_binding_success).

Candidates live in arenas (`lcands`, `rcands`) indexed by creation:
- A pair holds its own `Rc` to both candidate objects, so a deleted candidate survives inside its pairs.
- A re-added address is a new object.

Time is counted in loop intervals. Inbound messages are chosen from a small set of STUN classes with:
- role attributes and USE-CANDIDATE;
- `auth`, meaning built with the agent's current credentials;
- a transaction id taken from the requests the agent put on the wire, or an unknown one.

### `DtlsHandshake`

The abstract handshake: what the two connections promise to the layer above. Flights are numbered in RFC 6347 order (server 0, client 1, ..., server 6).
- `Answer(p)`: a side that has the peer's latest flight answers it with the next one; sending flight 6 completes the sender.
- `Finish(p)`: the side one flight short of the last gets flight 6 and completes.
- Retransmissions, duplicates and repeated answers are stuttering steps.

`DtlsConn` refines it. The refinement mapping sends each peer's `conn[p].flight` to its number (`FlightNumber`) and `conn[p].completed` to `done`. The `safety` run checks `HandshakeRefinement == Abstract!HSpec` as a property. It is the one place where loss, duplication, spurious timers and retransmission are all shown not to let a side run ahead, skip a flight or complete early.

### `IceAgentInternal`

The ice crate's `AgentInternal` (`src/ice/src/agent/agent_internal.rs`), an older copy of the rtc-ice agent with its I/O stubbed:
- `send_stun`'s write is commented out, so `SendStun`, and `SendBindingSuccess` (send_binding_success) built on it, is the identity: no request ever leaves the agent, no local candidate's `last_sent` moves, and an inbound success response can only carry a transaction id the agent never issued.
- `recv_loop` and `connectivity_checks` are commented out. `Receive` and `Contact` stand for them, following spec 4.5. The loop takes its receivers on the first `start_connectivity_checks` only (`loop.taken`), so a second start, after `close`, runs no loop.

All candidate objects live in one arena `a.cands`. `a.locals` and `a.remotes` are the per-network-type vectors, as sequences of ids, so the code's first-match searches (`find_pair`, `find_remote_candidate`) keep their order. The actions are the entry points: `AddCandidate` (a duplicate leaves the agent unchanged), `AddRemoteCandidate`, `SetRemoteCredentials`, `StartConnectivityChecks`, `Close`, `LoopExit`, `Contact` and `Receive`. As in `IceAgent`, `Close` leaves the loop alone and `LoopExit` ends it once it finds the agent Closed. `is_controlling` comes from the config, so both roles are initial states.

### `DtlsEndpoint`

The `Endpoint` as both glue layers see it, for one peer, modelled from spec.md (4.4 and 5) because its crate is not under src/. `ep.conn` is none, handshaking, connected or closed; `ep.keyed` records a completed handshake; `ep.pending` is the `poll_transmit` queue; `ep.made` numbers every datagram produced, so that the order they leave in can be compared with the order they were made. `EndpointRead` returns the set of outcomes a read may have: a flight of one or two datagrams, HandshakeComplete (with or without application data in the same datagram), application data, `AlertFatalOrClose` or another error. `EndpointConnect`, `EndpointWrite`, `EndpointTimeout` and `EndpointClose` are the other calls. The number of datagrams is bounded by `MaxMade`, and `Room` guards a step that would queue one.

### `DtlsHandler`

`DtlsHandler` (`src/dtls/src/dtls_handler/mod.rs`). Its state is the endpoint, the client-only `client_config` and `peer_addr` options, the datagrams given to `fire_write` (`wire`), the messages given to `fire_read` and the exceptions fired. The actions are the entry points. Each calls the endpoint and ends with `HandleOutgoing`:
- `TransportActive`: only while `client_config` is Some. `peer_addr.take()` fails first when there is no peer address; otherwise both options are taken and `connect` is called.
- `Read`, `HandleTimeout` (endpoint errors ignored, as in the code), `Write` and `Close`.

The code passes the inbound context to `handle_outgoing`, which takes an outbound one. The model gives it the meaning the names say: the datagrams are fired downstream.

### `RtcDtlsTransport`

`RTCDtlsTransport::handle_transmit` (`src/rtc/src/handlers/dtls.rs`):
- `HandleTransmitDtls` is the whole `try_read` closure and its error handling. The endpoint reads; HandshakeComplete runs `update_srtp_contexts`, whose `?` on an unsupported profile (`ErrNoSuchSrtpProfile`) leaves before the drain; ApplicationData is collected; then `poll_transmit` is drained (`DrainTransmits`) and the contexts set (`SetContexts`). On `AlertFatalOrClose` the endpoint is closed and its close_notify stays queued; any other error goes to `handle_error`.
- `HandleTransmitBypass` passes any other message on.
- `Send` is the framework taking `self.transmits` in order (not under src/).

The negotiated profile is chosen at `Init` from `SrtpProfiles`, which includes one `update_srtp_contexts` does not map. Key extraction and `Context::new` belong to the srtp crate and are taken to succeed. The declared `Vec` return of `handle_transmit` is never produced (the body ends in `()`). The model keeps what the body does: the messages go to the next handler.

### `MCDtlsConn`, `MCIceAgent`, `MCIceAgentInternal`, `MCDtlsGlue`

These supply the bounds:
- `MCDtlsConn` adds a state constraint of at most 4 datagrams in flight.
- `MCIceAgent` gives one local and one remote address as model values, and at most 3 binding requests on the wire.
- `MCIceAgentInternal` gives one local and one remote address as model values.
- `MCDtlsGlue` instantiates `DtlsHandler` and `RtcDtlsTransport`, each with its own endpoint. They share no state, so their steps interleave; one run checks both.

## Runs

| Run | Checks | Result |
|---|---|---|
| `safety` | TypeOK, HandshakeSeqConsistent, AppDataAtMostOnce, RecordLayerMeetsSpec, HandshakeRefinement | pass: under one loss, one duplication, spurious timers and retransmission, each sender's handshake messages keep one message sequence per type, no application record is delivered twice, and the connections implement `DtlsHandshake`; fragment_handshake gives the fragments spec 4.1 asks for, which reassemble in any order, and compact_raw_packets packs in order, greedily and below the MTU |
| `reorder` | AppDataAtMostOnce, CompletedAfterPeerFinished | pass: with one record per datagram, one duplication and a client close racing the handshake and one write, completion only follows the peer's CCS and Finished at epoch 1, and no record is delivered twice |
| `live` | ServerEventuallyCompletes, BothCompleteUnlessLost | pass, under fairness: the server always completes, and both sides complete in every behaviour that loses nothing |
| `client_live` | ClientEventuallyCompletes | violation: a lost server Flight6 is never resent (`handle_timeout` requires `!is_handshake_completed()`) |
| `hang` | HandshakeCallReturns | violation: `handshake()` spins in Waiting (WaitReturns = FALSE) |
| `close` | CloseNotifyOnce | violation: close_notify is echoed back and forth |
| `ice_safety` | TypeOK, StaleResponseNeverAccepted, UnauthenticatedIsInert | pass: across candidate churn, a restart, `close` racing the check loop, and late or forged STUN traffic, no expired request is correlated and unauthenticated messages change nothing |
| `ice_failed` | FailedTimeoutHonoured | violation: `validate_selected_pair` widens failed_timeout on every call (mod.rs:665), so a pair silent for longer than disconnected_timeout + failed_timeout (spec 4.5) is still only Disconnected. The counterexample needs the threshold to have grown: with it held at disconnected_timeout + failed_timeout, the same configuration passes |
| `ice_stale_pair` | ConnectedPeerFresh | violation: pairs outlive deleted candidates, and a re-added candidate's request selects the stale pair |
| `ice_restart` | ClosedIsFinal | violation: `close()` then `restart()` takes the agent from Closed to Checking (mod.rs:385-387); spec 4.5 has no transition out of Closed |
| `glue` | TypeOK, WireInProductionOrder, OutboundInProductionOrder, KeyedOnCompletion | pass: `DtlsHandler` has handed every datagram to `fire_write`, in production order, after each call. `RTCDtlsTransport` keeps the endpoint's output in order across failed reads, a failed SRTP keying and a fatal-alert close, and a completed handshake either keys both SRTP contexts with the negotiated profile or reports `ErrNoSuchSrtpProfile` |
| `ice_internal` | TypeOK, UnauthenticatedIsInert | pass: in the ice crate's agent, transaction ids of pending requests stay below `nextTid`, and unauthenticated STUN changes nothing |

Each property of a passing run has a mutant in PROJECT.json: a plausible bug in the mapped definition that TLC catches under the run's configuration.

## Bounds and why they are enough

DTLS:
- One loss and one duplication reach every retransmission path: a lost flight, a replayed record, and a duplicated flight arriving after its successor.
- The 4-datagram constraint keeps the network within what a handshake produces. A flight is at most three records, and the default Mtu of 4 packs it into one datagram.
- The reorder run uses Mtu 2, one record per datagram. That way CCS, Finished and the preceding messages can arrive in any order.
- `MaxSeqNum` 5 exercises sequence-number saturation in the safety runs. The liveness runs use 15, so that overflow does not mask progress.
- `ReplayWindow` 2 is small enough that old records fall out of the window.

Fragmentation and packing:
- Bodies of 0 to 4 bytes at MTUs 1 to 3 reach the empty body, a body shorter than the MTU, an exact multiple and a short last fragment, and up to four fragments, whose 24 arrival orders are all tried.
- Runs of up to 4 packets of 1 to 3 bytes at MTUs 1 to 4 reach a packet alone at or over the MTU, a datagram closed exactly at the MTU and one closed just below it.
- The MTU starts at 1: `split_bytes` panics on 0 (`step_by(0)`).

Glue:
- `MaxMade` 4 datagrams per endpoint allow a two-datagram flight followed by more output.
- `MaxCalls` 3 calls per layer reach a completion with an unsupported profile followed by a successful read that drains the stranded flight. They also reach a fatal alert after completion, and a client connect followed by a read and a close.
- Three profiles: the two `update_srtp_contexts` maps and one it refuses.

ICE:
- `MaxBindingRequests` 1 lets a pair exhaust its budget within 3 loop ticks.
- `ice_safety` runs 4 loop ticks with 2 candidates (one pair, or one re-added after close) and 2 inbound datagrams. This is enough for a request to expire (`BindingRequestTimeout` 2) before its reply arrives.
- `ice_failed` runs 5 ticks: the silence must pass disconnected_timeout + failed_timeout = 2 while the threshold has grown past it, which takes three validations.
- `BindingRequestTimeout` 2 lets a reply arrive both in time and late.
- `MaxCandidates` 3 (2 in `ice_safety`, 4 in the stale-pair run) allows re-adding a candidate after close or Failed.
- A single restart and two inbound datagrams let a request and a reply, authentic or not, land around every application call.
- `ice_internal` uses 5 loop ticks: with both timeouts 1, an agent started at tick 0 fails its checking phase at tick 3, and later ticks run `contact()` on a Failed agent whose pairs are still live. `MaxCandidates` 3 allows a candidate added after the failure.
- The `reorder` run has no loss and no timer, so that the close, the write and the reordering fit in one run. Loss and retransmission are covered by `safety` and `live`.

## Fairness

The handler is driven by an event loop that delivers every datagram it receives and fires every expired timer. So `Read` and `Timeout` are weakly fair, and so is the handler's `TransportActive`. `Drop`, `Write` and `Close` are not: the application may never write or close, and the network may never lose anything.

In the `live`, `client_live`, `close` and `reorder` runs `SpuriousTimeouts` is FALSE, so a timer fires only when no datagram is in flight. The handler does not compare `now` with the deadline. But the framework calls `handle_timeout` only once the deadline `poll_timeout` reported has passed, and the retransmit timer is at least `INITIAL_TICKER_INTERVAL` (1 s, conn/mod.rs:36) ahead. The liveness runs assume that a datagram in flight on a working path is delivered or lost before that. Early timers would spend the bounded retransmissions (`MaxTimeouts`) on flights that are still in flight. A liveness failure found that way would come from the bound, not from the code. The live configuration with early timers also does not finish within 10 minutes. The `safety` and `hang` runs keep `SpuriousTimeouts` TRUE, so safety is checked with early timers too.

`ENABLED` of the recursive `Read` action is too costly for TLC to evaluate. The fairness conditions are therefore written with `ReadEnabled` and `TimeoutEnabled`, whose guards are copied from the actions.

The glue models check only safety; their steps are driven by the pipeline's caller.

The ICE models check only safety, so they assume no fairness. The check loop of either crate cannot justify fairness: in both (`connectivity_checks`, rtc-ice mod.rs:460-525 and the ice crate's agent_internal.rs) its body is commented out, so nothing in the code calls `contact()` on a schedule.

## What is not modelled

- Fragmentation inside `DtlsConn`: a record there stands for a whole handshake message. `fragment_handshake` and reassembly are checked on their own in `DtlsFragment`; putting byte-level fragments on the network of `DtlsConn` would multiply its state space without touching the flight logic.
- Malformed bytes, cipher suites and encryption: encryption is a flag on the record.
- The `Endpoint`'s own state machine: `DtlsEndpoint` keeps only what the glue can observe. The connection underneath is what `DtlsConn` models.
- That a close_notify queued by `RTCDtlsTransport` after a fatal alert waits for ever once the peer is silent. It is a liveness claim and would need a run of its own. `glue` checks only that it is neither lost nor reordered.
- A lossless handshake without retransmission: it stalls, because the records queued before the cipher exists are only replayed after completion. `CompletedAfterPeerFinished` (`reorder`) checks the queue's ordering; no run checks the stall itself.
- `HandshakeConfig::get_certificate`: `name_to_certificate` is never filled (its population is commented out), so it returns the first certificate or `ErrNoCertificates`, and its callers are flights that are not under src/.
- The ICE host-candidate constructor: it parses an address into a candidate and has no state machine.
- SCTP parameters (`build_param`): it rejects a header shorter than 4 bytes and dispatches on the type code to `unmarshal` functions that are not under src/; the only property worth stating, the round trip of spec.md, has both halves outside src/.
- mDNS candidates, which `add_remote_candidate` rejects before any change.
- Peer-reflexive candidates, whose creation is commented out in the code.
- Multiple network types.
- In the ice crate, `start_on_connection_state_change_routine` and the channel notifications of `update_connection_state`, `set_selected_pair` and `add_candidate`: their bodies are commented out and they hold no agent state.

## Plan for further work

- Liveness for the ICE agent: a selected pair with a live peer stays Connected, and a Checking agent eventually leaves Checking. Both need a fairness assumption on the check loop.
- Two ICE agents talking to each other, with the selector's controlling side modelled.
