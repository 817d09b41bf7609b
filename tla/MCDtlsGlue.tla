----------------------------- MODULE MCDtlsGlue -----------------------------
(***************************************************************************)
(* The two glue layers over the DTLS Endpoint, side by side: the retty    *)
(* DtlsHandler and the RTC stack's RTCDtlsTransport, each with its own    *)
(* endpoint.  They share no state, so their steps interleave freely.      *)
(***************************************************************************)
EXTENDS Naturals

CONSTANTS MaxMade, MaxCalls, SrtpProfiles

VARIABLES hEp, clientConfig, peerAddr, wire, reads, exceptions, hCalls,
          rEp, profile, transmits, sent, localCtx, remoteCtx, nextApp,
          nextOther, errors, rCalls

H == INSTANCE DtlsHandler WITH ep <- hEp, calls <- hCalls
R == INSTANCE RtcDtlsTransport WITH ep <- rEp, calls <- rCalls

hVars == <<hEp, clientConfig, peerAddr, wire, reads, exceptions, hCalls>>
rVars == <<rEp, profile, transmits, sent, localCtx, remoteCtx, nextApp,
           nextOther, errors, rCalls>>

Init == H!Init /\ R!Init

\* Every step is a step of one layer; the other keeps its state.
HandlerStep(A) == A /\ UNCHANGED rVars
TransportStep(A) == A /\ UNCHANGED hVars

Next ==
    \/ HandlerStep(H!TransportActive)
    \/ HandlerStep(H!Read)
    \/ HandlerStep(H!HandleTimeout)
    \/ HandlerStep(H!Write)
    \/ HandlerStep(H!Close)
    \/ TransportStep(R!HandleTransmitDtls)
    \/ TransportStep(R!HandleTransmitBypass)
    \/ TransportStep(R!Send)

Spec == Init /\ [][Next]_<<hVars, rVars>>

\* Both layers keep their types, and no SRTP context carries a profile
\* update_srtp_contexts does not map.
TypeOK == H!TypeOK /\ R!TypeOK

\* DtlsHandler: everything produced has gone to fire_write, in order.
WireInProductionOrder == H!WireInProductionOrder

\* RTCDtlsTransport: what the endpoint produced leaves in order.
OutboundInProductionOrder == R!OutboundInProductionOrder

\* RTCDtlsTransport: a completed handshake keys both SRTP contexts or
\* reports an unsupported profile.
KeyedOnCompletion == R!KeyedOnCompletion
=============================================================================
