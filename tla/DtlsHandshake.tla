---------------------------- MODULE DtlsHandshake ----------------------------
(***************************************************************************)
(* What a DTLS handshake promises, seen from above the record layer: the  *)
(* two sides take turns.  Flights are numbered in the order of RFC 6347   *)
(* 4.2.4 (server 0, client 1, server 2, ... server 6); a side only ever   *)
(* answers the peer's latest flight with the flight that follows it, so   *)
(* no side gets more than one flight ahead of the other, whatever the     *)
(* network loses, duplicates or reorders.  The side that sends the last   *)
(* flight completes as it sends it; the other completes once it has that  *)
(* flight.  Retransmissions and repeated answers are stuttering steps.    *)
(***************************************************************************)
EXTENDS Naturals

VARIABLES
    flight,  \* flight[p]: number of the flight p has reached
    done     \* done[p]: p reports its handshake completed

hvars == <<flight, done>>

Sides == {"client", "server"}
Other(p) == IF p = "client" THEN "server" ELSE "client"
LastFlight == 6

HInit ==
    /\ flight = [p \in Sides |-> IF p = "client" THEN 1 ELSE 0]
    /\ done = [p \in Sides |-> FALSE]

\* p has the peer's flight and answers it with the next one; sending the
\* last flight completes the sender.
Answer(p) ==
    /\ flight[p] < flight[Other(p)]
    /\ flight[Other(p)] < LastFlight
    /\ flight' = [flight EXCEPT ![p] = flight[Other(p)] + 1]
    /\ done' = [done EXCEPT ![p] = (flight[Other(p)] + 1 = LastFlight)]

\* The side one flight short of the last has the last flight and completes.
Finish(p) ==
    /\ ~done[p]
    /\ flight[Other(p)] = LastFlight
    /\ flight[p] = LastFlight - 1
    /\ done' = [done EXCEPT ![p] = TRUE]
    /\ UNCHANGED flight

HNext == \E p \in Sides : Answer(p) \/ Finish(p)

HSpec == HInit /\ [][HNext]_hvars
=============================================================================
