----------------------------- MODULE DtlsFlights -----------------------------
(***************************************************************************)
(* The DTLS 1.2 flights (RFC 6347 section 4.2.4) as the handshake engine   *)
(* sees them: a closed set of stateless values with three queries and two  *)
(* operations, generate and parse.  The flight implementations are not in *)
(* the repository's src/, so this module follows spec.md (section 3,       *)
(* "Flight") for a PSK handshake without client certificates; every        *)
(* handshake message is abstracted to its type.                            *)
(*                                                                         *)
(*   client: Flight1 --HVR--> Flight3 --SH,SHD--> Flight5 --FIN--> done    *)
(*   server: Flight0 --CH--> Flight2 --CH2--> Flight4 --CKE,FIN--> Flight6 *)
(***************************************************************************)
EXTENDS Naturals, Sequences

Flights == {"Flight0", "Flight1", "Flight2", "Flight3",
            "Flight4", "Flight5", "Flight6"}

\* Result of a parse whose peer flight is not complete yet: the code's
\* Err((None, None)), which leaves the engine in Waiting.
NotReady == "NotReady"

\* Handshake message types.  CH2 is the ClientHello that echoes the cookie.
HsTypes == {"CH", "HVR", "CH2", "SH", "SHD", "CKE", "FIN"}

HasRetransmit(f) == f \notin {"Flight0", "Flight2"}
IsLastSendFlight(f) == f = "Flight6"
IsLastRecvFlight(f) == f = "Flight5"

\* An outbound packet before the record layer numbers it: content type,
\* epoch relative to the initial epoch, the message, its handshake message
\* sequence (stamped by the engine) and should_encrypt.
Pkt(typ, epoch, msg, enc) ==
    [typ |-> typ, epoch |-> epoch, msg |-> msg, mseq |-> 0, enc |-> enc]

Hs(m) == Pkt("hs", 0, m, FALSE)

Generate(f) ==
    CASE f = "Flight0" -> << >>
      [] f = "Flight1" -> << Hs("CH") >>
      [] f = "Flight2" -> << Hs("HVR") >>
      [] f = "Flight3" -> << Hs("CH2") >>
      [] f = "Flight4" -> << Hs("SH"), Hs("SHD") >>
      [] f = "Flight5" -> << Hs("CKE"), Pkt("ccs", 0, "ccs", FALSE),
                             Pkt("hs", 1, "FIN", TRUE) >>
      [] f = "Flight6" -> << Pkt("ccs", 0, "ccs", FALSE),
                             Pkt("hs", 1, "FIN", TRUE) >>

\* Flight2 restarts the send sequence: every HelloVerifyRequest is message 0.
GenerateResetsSeq(f) == f = "Flight2"

\* The client derives its keys while generating Flight5.
GenerateInitsCipher(f) == f = "Flight5"

\* parse, given the types of the peer's messages in the handshake cache.
\* Flight2 without the second ClientHello parses as Flight0 does, so a
\* retransmitted first ClientHello is answered again (RFC 6347 4.2.1).
Parse(f, peer) ==
    CASE f = "Flight0" -> IF "CH" \in peer THEN "Flight2" ELSE NotReady
      [] f = "Flight1" -> IF "HVR" \in peer THEN "Flight3" ELSE NotReady
      [] f = "Flight2" -> IF "CH2" \in peer THEN "Flight4"
                          ELSE IF "CH" \in peer THEN "Flight2" ELSE NotReady
      [] f = "Flight3" -> IF {"SH", "SHD"} \subseteq peer THEN "Flight5"
                                                         ELSE NotReady
      [] f = "Flight4" -> IF {"CKE", "FIN"} \subseteq peer THEN "Flight6"
                                                          ELSE NotReady
      [] f = "Flight5" -> IF "FIN" \in peer THEN "Flight5" ELSE NotReady
      [] f = "Flight6" -> "Flight6"

\* The server derives its keys as soon as Flight4's parse sees the
\* ClientKeyExchange, before the client's Finished has arrived.
ParseInitsCipher(f, peer) == f = "Flight4" /\ "CKE" \in peer
=============================================================================
