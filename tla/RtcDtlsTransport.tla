--------------------------- MODULE RtcDtlsTransport ---------------------------
(***************************************************************************)
(* RTCDtlsTransport as an RTCHandler (rtc/src/handlers/dtls.rs): the glue *)
(* that feeds inbound DTLS datagrams to the DTLS Endpoint, moves what the *)
(* endpoint queues for sending into self.transmits, keys the SRTP         *)
(* contexts when the handshake completes, and passes application data    *)
(* (and every non-DTLS message) to the next handler.                      *)
(*                                                                         *)
(* handle_timeout and poll_write are commented out in the source, so      *)
(* handle_transmit is the only step: nothing else drains the endpoint.    *)
(* The framework that pops self.transmits is not under src/ (Send).       *)
(***************************************************************************)
EXTENDS DtlsEndpoint

CONSTANTS
    MaxCalls,       \* bound: handle_transmit calls
    SrtpProfiles    \* SRTP protection profiles a DTLS state may carry

\* The profiles update_srtp_contexts maps to an srtp ProtectionProfile.
Supported == {"Aes128CmHmacSha1_80", "AeadAes128Gcm"}

VARIABLES
    ep,             \* the transport's DTLS Endpoint
    profile,        \* srtp_protection_profile() of the connection state
    transmits,      \* self.transmits
    sent,           \* transmits the framework has taken, in order
    localCtx,       \* profile of the local SRTP context, or "none"
    remoteCtx,      \* profile of the remote SRTP context, or "none"
    nextApp,        \* DTLS application messages passed to the next handler
    nextOther,      \* non-DTLS messages passed to the next handler
    errors,         \* errors given to handle_error
    calls           \* handle_transmit calls so far

vars == <<ep, profile, transmits, sent, localCtx, remoteCtx, nextApp,
          nextOther, errors, calls>>

Init ==
    /\ ep \in {NewEndpoint("none"), NewEndpoint("handshaking")}
    /\ profile \in SrtpProfiles
    /\ transmits = << >> /\ sent = << >>
    /\ localCtx = "none" /\ remoteCtx = "none"
    /\ nextApp = 0 /\ nextOther = 0
    /\ errors = << >>
    /\ calls = 0

\* Mutant: a match arm that takes any profile.
UpdateSrtpContextsAnyProfile(p) == [err |-> "none", ctx |-> p]

\* update_srtp_contexts: the profile mapped, or ErrNoSuchSrtpProfile; key
\* extraction and Context::new are the srtp crate's and do not fail here.
UpdateSrtpContexts(p) ==
    IF p \in Supported THEN [err |-> "none", ctx |-> p]
    ELSE [err |-> "NoSuchSrtpProfile", ctx |-> "none"]

\* Mutant: push_front for push_back.
DrainTransmitsFront(e) == e.pending \o transmits

\* while let Some(transmit) = poll_transmit(): push_back.
DrainTransmits(e) == transmits \o e.pending

\* Mutant: the remote context is never set.
SetContextsLocalOnly(ctx) == localCtx' = ctx /\ remoteCtx' = remoteCtx

\* for (local, remote) in contexts: set_local_srtp_context and
\* set_remote_srtp_context.
SetContexts(ctx) == localCtx' = ctx /\ remoteCtx' = ctx

\* handle_transmit of a DTLS Raw message.  try_read: endpoint.read `?`;
\* for each event, HandshakeComplete keys the contexts with
\* update_srtp_contexts `?` (a state is always found: the read has just
\* completed it), ApplicationData is collected; then poll_transmit is
\* drained and the contexts are set.  On Err, AlertFatalOrClose closes the
\* endpoint, whose close_notify stays queued; any other error goes to
\* handle_error.  The collected application data goes to the next handler.
HandleTransmitDtls ==
    /\ calls < MaxCalls /\ calls' = calls + 1
    /\ \E r \in EndpointRead(ep) :
          LET srtp == UpdateSrtpContexts(profile)
              err  == IF r.err # "none" THEN r.err
                      ELSE IF r.complete /\ HasState(r.ep) THEN srtp.err
                      ELSE "none"
          IN  \/ /\ err = "none"
                 /\ transmits' = DrainTransmits(r.ep)
                 /\ ep' = [r.ep EXCEPT !.pending = << >>]
                 /\ IF r.complete THEN SetContexts(srtp.ctx)
                    ELSE UNCHANGED <<localCtx, remoteCtx>>
                 /\ nextApp' = nextApp + r.app
                 /\ UNCHANGED errors
              \/ /\ err = "AlertFatalOrClose"
                 /\ Room(r.ep)
                 /\ ep' = EndpointClose(r.ep)
                 /\ UNCHANGED <<transmits, localCtx, remoteCtx, nextApp, errors>>
              \/ /\ err \notin {"none", "AlertFatalOrClose"}
                 /\ ep' = r.ep
                 /\ errors' = Append(errors, err)
                 /\ UNCHANGED <<transmits, localCtx, remoteCtx, nextApp>>
    /\ UNCHANGED <<profile, sent, nextOther>>

\* handle_transmit of any other message: passed on as it is.
HandleTransmitBypass ==
    /\ calls < MaxCalls /\ calls' = calls + 1
    /\ nextOther' = nextOther + 1
    /\ UNCHANGED <<ep, profile, transmits, sent, localCtx, remoteCtx,
                   nextApp, errors>>

\* The framework takes the oldest transmit.
Send ==
    /\ transmits # << >>
    /\ sent' = Append(sent, Head(transmits))
    /\ transmits' = Tail(transmits)
    /\ UNCHANGED <<ep, profile, localCtx, remoteCtx, nextApp, nextOther,
                   errors, calls>>

Next == HandleTransmitDtls \/ HandleTransmitBypass \/ Send

Spec == Init /\ [][Next]_vars

-----------------------------------------------------------------------------
\* Contexts only ever carry a profile update_srtp_contexts maps.
TypeOK ==
    /\ ep \in Endpoint
    /\ profile \in SrtpProfiles
    /\ transmits \in Seq(Datagram) /\ sent \in Seq(Datagram)
    /\ localCtx \in Supported \cup {"none"}
    /\ remoteCtx \in Supported \cup {"none"}
    /\ nextApp \in Nat /\ nextOther \in Nat
    /\ errors \in Seq({"NoSuchSrtpProfile", "Other"})
    /\ calls \in 0..MaxCalls

\* What the endpoint produced leaves in the order it was produced (spec
\* 5): taken by the framework, then waiting in self.transmits, then still
\* queued in the endpoint, with nothing lost or repeated, across failed
\* reads, a failed SRTP keying and a close that are not drained.
OutboundInProductionOrder == Ids(sent \o transmits \o ep.pending) = Made(ep)

\* Once the endpoint has completed the handshake, both SRTP contexts carry
\* the negotiated profile, or the profile is one update_srtp_contexts
\* refuses and ErrNoSuchSrtpProfile went to handle_error; the keying is
\* never left half done.
KeyedOnCompletion ==
    ep.keyed =>
        \/ localCtx = profile /\ remoteCtx = profile
        \/ profile \notin Supported
           /\ \E i \in DOMAIN errors : errors[i] = "NoSuchSrtpProfile"
=============================================================================
