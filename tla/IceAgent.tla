------------------------------ MODULE IceAgent ------------------------------
(***************************************************************************)
(* The ICE-lite agent of src/rtc-ice/src/agent/mod.rs: candidates, the     *)
(* candidate-pair checklist, the pending binding-request list, the         *)
(* selected pair and the connection state, driven by the application's     *)
(* calls, by inbound STUN traffic and by the connectivity-check loop.      *)
(*                                                                         *)
(* The agent is one record `a`; every method of the code is an operator    *)
(* from agent to agent, and an action is one entry point run to            *)
(* completion (the agent is single-owner, spec section 5).                *)
(*                                                                         *)
(* Time is counted in ticks of the check loop: one Contact step is one     *)
(* interval of sleep followed by contact().  The timeouts are constants in *)
(* ticks.  Candidates are kept in arenas (lcands, rcands) indexed by       *)
(* creation, because a pair holds its own Rc to the candidate objects:     *)
(* a deleted candidate survives in the pairs that reference it, and a      *)
(* re-added address is a new object.                                       *)
(*                                                                         *)
(* Not in src/ and modelled from spec section 4.5 (the selector): the      *)
(* check loop (connectivity_checks is a commented-out TODO),              *)
(* contact_candidates, ping_candidate, handle_success_response and         *)
(* handle_binding_request.                                                 *)
(***************************************************************************)
EXTENDS Integers, Sequences, FiniteSets, SequencesExt

CONSTANTS
    LocalAddrs,             \* addresses of local host candidates
    RemoteAddrs,            \* addresses of remote candidates and peers
    MaxBindingRequests,     \* max_binding_requests
    DisconnectedTimeout,    \* disconnected_timeout, in ticks
    FailedTimeout,          \* failed_timeout (as configured), in ticks
    KeepaliveInterval,      \* keepalive_interval, in ticks
    BindingRequestTimeout,  \* MAX_BINDING_REQUEST_TIMEOUT, in ticks
    MaxTime,                \* bound: ticks of the check loop
    MaxCandidates,          \* bound: candidate objects ever created
    MaxRestarts,            \* bound: calls of restart
    MaxInbound              \* bound: inbound datagrams

ASSUME /\ MaxBindingRequests \in Nat
       /\ {DisconnectedTimeout, FailedTimeout, KeepaliveInterval} \subseteq Nat
       /\ BindingRequestTimeout \in Nat \ {0}
       /\ {MaxTime, MaxCandidates, MaxRestarts, MaxInbound} \subseteq Nat

VARIABLES
    a,        \* the Agent struct
    loop,     \* the check loop: running, last_connection_state, checking_duration
    nIn,      \* inbound datagrams so far
    corrAge,  \* history: age of the request matched by the last correlation
    lastIn,   \* history: the message handled by the last step, or NoMsg
    lastDisc  \* history: disconnected_time seen by this step's validation, or -1

vars == <<a, loop, nIn, corrAge, lastIn, lastDisc>>

ConnectionStates ==
    {"New", "Checking", "Connected", "Disconnected", "Failed", "Closed"}

PairStates == {"Waiting", "InProgress", "Succeeded", "Failed", "Frozen"}

NoMsg == [class |-> "none"]

\* Inbound datagrams, abstracted to what handle_inbound_candidate_msg and
\* handle_inbound look at.  auth: the USERNAME and MESSAGE-INTEGRITY were
\* built with the credentials this agent currently holds.  A success
\* response carries one of the transaction ids put on the wire, or 0 for
\* one this agent never sent.
Msgs(tids) ==
    [class: {"request"}, controlling: {TRUE}, controlled: {FALSE},
     useCand: BOOLEAN, auth: BOOLEAN, tid: {0}]
    \cup [class: {"request"}, controlling: {FALSE}, controlled: {TRUE},
          useCand: {FALSE}, auth: BOOLEAN, tid: {0}]
    \cup [class: {"success"}, controlling: {FALSE}, controlled: {FALSE},
          useCand: {FALSE}, auth: BOOLEAN, tid: tids \cup {0}]
    \cup [class: {"indication", "error", "data"}, controlling: {FALSE},
          controlled: {FALSE}, useCand: {FALSE}, auth: {TRUE}, tid: {0}]

Cand(addr, t) == [addr |-> addr, last |-> t]

\* CandidatePair::new
NewPair(l, r) ==
    [local |-> l, remote |-> r, state |-> "Waiting", nominated |-> FALSE,
     count |-> 0]

Ascending(S) == SetToSortSeq(S, <)

-----------------------------------------------------------------------------
(* Helpers of the Agent impl                                               *)

\* delete_all_candidates: both candidate lists are emptied; the checklist
\* and the selected pair keep their references.
DeleteAllCandidates(x) == [x EXCEPT !.locals = {}, !.remotes = {}]

UpdateConnectionState(x, s) ==
    IF x.state = s THEN x
    ELSE [(IF s = "Failed" THEN DeleteAllCandidates(x) ELSE x)
            EXCEPT !.state = s]

SetSelectedPair(x, i) ==
    IF i = 0 THEN [x EXCEPT !.selected = 0]
    ELSE UpdateConnectionState(
             [x EXCEPT !.checklist[i].nominated = TRUE, !.selected = i],
             "Connected")

\* find_pair: the first pair whose candidates are equal (same address).
FindPair(x, l, r) ==
    SelectInSeq(x.checklist,
                LAMBDA p : /\ x.lcands[p.local].addr = x.lcands[l].addr
                           /\ x.rcands[p.remote].addr = x.rcands[r].addr)

FindRemoteCandidate(x, addr) ==
    LET ids == {i \in x.remotes : x.rcands[i].addr = addr}
    IN  IF ids = {} THEN 0 ELSE CHOOSE i \in ids : TRUE

\* candidate.seen(false): last_received of that candidate object.
Seen(x, rc) == [x EXCEPT !.rcands[rc].last = x.now]

\* send_stun through local.write_to: last_sent of the local object.
SendStun(x, l) == [x EXCEPT !.lcands[l].last = x.now]

InvalidatePendingBindingRequests(x) ==
    [x EXCEPT !.pending = {r \in @ : x.now - r.ts < BindingRequestTimeout}]

SendBindingRequest(x, l, r, useCand) ==
    LET y   == InvalidatePendingBindingRequests(x)
        req == [ts |-> y.now, tid |-> y.nextTid, dest |-> y.rcands[r].addr,
                useCand |-> useCand]
    IN  SendStun([y EXCEPT !.pending = @ \cup {req}, !.wire = @ \cup {req},
                           !.nextTid = @ + 1], l)

\* ping_candidate (selector): a controlling agent nominates aggressively,
\* so its checks carry USE-CANDIDATE.
PingCandidate(x, l, r) == SendBindingRequest(x, l, r, x.controlling)

PingAllCandidates(x) ==
    LET cl == x.checklist
        Live(p) == p.state \in {"Waiting", "InProgress"}
        Step(p) ==
            CASE Live(p) /\ p.count > MaxBindingRequests ->
                     [p EXCEPT !.state = "Failed"]
              [] Live(p) -> [p EXCEPT !.state = "InProgress", !.count = @ + 1]
              [] OTHER -> p
        pinged == SelectSeq([i \in DOMAIN cl |-> i],
                            LAMBDA i : Live(cl[i])
                                       /\ cl[i].count <= MaxBindingRequests)
    IN  FoldLeft(LAMBDA y, i : PingCandidate(y, cl[i].local, cl[i].remote),
                 [x EXCEPT !.checklist = [i \in DOMAIN cl |-> Step(cl[i])]],
                 pinged)

DisconnectedTime(x) == x.now - x.rcands[x.checklist[x.selected].remote].last

\* validate_selected_pair, for a selected pair: failed_timeout is widened
\* by disconnected_timeout on every call before it is compared.
ValidateSelectedPair(x) ==
    LET disc == DisconnectedTime(x)
        ft   == IF x.failedTimeout # 0
                THEN x.failedTimeout + DisconnectedTimeout ELSE 0
        y    == [x EXCEPT !.failedTimeout = ft]
    IN  CASE ft # 0 /\ disc > ft -> UpdateConnectionState(y, "Failed")
          [] DisconnectedTimeout # 0 /\ disc > DisconnectedTimeout ->
                 UpdateConnectionState(y, "Disconnected")
          [] OTHER -> UpdateConnectionState(y, "Connected")

CheckKeepalive(x) ==
    LET p == x.checklist[x.selected]
    IN  IF /\ KeepaliveInterval # 0
           /\ \/ x.now - x.lcands[p.local].last > KeepaliveInterval
              \/ x.now - x.rcands[p.remote].last > KeepaliveInterval
        THEN PingCandidate(x, p.local, p.remote)
        ELSE x

\* contact_candidates (selector)
ContactCandidates(x) ==
    IF x.selected # 0 THEN CheckKeepalive(ValidateSelectedPair(x))
                      ELSE PingAllCandidates(x)

\* Mutant: the pending list is searched without purging expired entries.
HandleInboundBindingSuccessNoPurge(x, tid) ==
    LET match == {r \in x.pending : r.tid = tid}
        r     == IF match = {} THEN [tid |-> 0]
                 ELSE CHOOSE q \in match : TRUE
    IN  <<[x EXCEPT !.pending = @ \ {r}], r>>

\* handle_inbound_binding_success: the matching pending request, removed,
\* after the expired ones are purged.  NoRequest when none matches.
NoRequest == [tid |-> 0]

HandleInboundBindingSuccess(x, tid) ==
    LET y     == InvalidatePendingBindingRequests(x)
        match == {r \in y.pending : r.tid = tid}
        r     == IF match = {} THEN NoRequest ELSE CHOOSE q \in match : TRUE
    IN  <<[y EXCEPT !.pending = @ \ {r}], r>>

\* handle_success_response (selector): the pair is Succeeded, and nominated
\* and selected (if none is) when the request carried USE-CANDIDATE.
HandleSuccessResponse(x, l, rc, m) ==
    LET res == HandleInboundBindingSuccess(x, m.tid)
        y   == res[1]
        r   == res[2]
        i   == FindPair(y, l, rc)
        z   == [y EXCEPT !.checklist[i].state = "Succeeded",
                         !.checklist[i].nominated = @ \/ r.useCand]
    IN  CASE r = NoRequest \/ i = 0 -> y
          [] r.useCand /\ z.selected = 0 -> SetSelectedPair(z, i)
          [] OTHER -> z

\* send_binding_success: build the success response (XOR-MAPPED-ADDRESS,
\* integrity under the local password, fingerprint) and send it.  The
\* build cannot fail for a decoded request, so the message is sent.
SendBindingSuccess(x, l) == SendStun(x, l)

\* handle_binding_request (selector): answer, and when controlled and the
\* request carries USE-CANDIDATE, nominate the pair and select it.
HandleBindingRequest(x, l, rc, m) ==
    LET y == SendBindingSuccess(x, l)
        i == FindPair(y, l, rc)
        z == [y EXCEPT !.checklist[i].nominated = TRUE]
    IN  CASE ~m.useCand \/ y.controlling \/ i = 0 -> y
          [] z.selected = 0 -> SetSelectedPair(z, i)
          [] OTHER -> z

RoleConflict(x, m) ==
    IF x.controlling THEN m.controlling \/ m.useCand ELSE m.controlled

\* USERNAME and MESSAGE-INTEGRITY check against the current credentials:
\* nothing checks while the remote credentials are empty.
Authentic(x, m) == m.auth /\ x.remoteSet

\* Mutant: the sender is marked seen before the message is checked.
HandleInboundSeenFirst(x, l, rc, m) ==
    LET y == IF rc = 0 THEN x ELSE Seen(x, rc)
    IN  CASE m.class \notin {"request", "success", "indication"} -> y
          [] RoleConflict(y, m) -> y
          [] m.class \in {"request", "success"} /\ ~Authentic(y, m) -> y
          [] rc = 0 -> y
          [] m.class = "success" -> HandleSuccessResponse(y, l, rc, m)
          [] m.class = "request" -> HandleBindingRequest(y, l, rc, m)
          [] OTHER -> y

HandleInbound(x, l, rc, m) ==
    CASE m.class \notin {"request", "success", "indication"} -> x
      [] RoleConflict(x, m) -> x
      [] m.class \in {"request", "success"} /\ ~Authentic(x, m) -> x
      [] rc = 0 -> x
      [] m.class = "success" -> Seen(HandleSuccessResponse(x, l, rc, m), rc)
      [] m.class = "request" -> Seen(HandleBindingRequest(x, l, rc, m), rc)
      [] OTHER -> Seen(x, rc)

\* handle_inbound_candidate_msg: STUN goes to handle_inbound; other traffic
\* only marks a known remote candidate as seen.
HandleInboundCandidateMsg(x, l, from, m) ==
    LET rc == FindRemoteCandidate(x, from)
    IN  IF m.class = "data" THEN IF rc = 0 THEN x ELSE Seen(x, rc)
                            ELSE HandleInbound(x, l, rc, m)

\* The request a success response is correlated with, or NoRequest.
Correlated(x, from, m) ==
    LET rc == FindRemoteCandidate(x, from)
    IN  IF /\ m.class = "success"
           /\ ~RoleConflict(x, m) /\ Authentic(x, m) /\ rc # 0
        THEN HandleInboundBindingSuccess(x, m.tid)[2]
        ELSE NoRequest

-----------------------------------------------------------------------------
(* Entry points                                                            *)

Init ==
    /\ a = [state |-> "New", controlling |-> FALSE,
            lcands |-> << >>, rcands |-> << >>, locals |-> {}, remotes |-> {},
            checklist |-> << >>, selected |-> 0, pending |-> {}, wire |-> {},
            nextTid |-> 1, remoteSet |-> FALSE, failedTimeout |-> FailedTimeout,
            now |-> 0, restarts |-> 0]
    /\ loop = [on |-> FALSE, lastState |-> "Unspecified", since |-> 0]
    /\ nIn = 0
    /\ corrAge = -1
    /\ lastIn = NoMsg
    /\ lastDisc = -1

\* add_local_candidate: a duplicate is closed and leaves the agent as it is
\* (a stuttering step); a new one is paired with every remote candidate.
AddLocalCandidate(addr) ==
    /\ ~\E i \in a.locals : a.lcands[i].addr = addr
    /\ Len(a.lcands) + Len(a.rcands) < MaxCandidates
    /\ LET id == Len(a.lcands) + 1
           rs == Ascending(a.remotes)
       IN  a' = [a EXCEPT !.lcands = Append(@, Cand(addr, a.now)),
                          !.locals = @ \cup {id},
                          !.checklist = @ \o [k \in DOMAIN rs |->
                                                  NewPair(id, rs[k])]]
    /\ lastIn' = NoMsg
    /\ lastDisc' = -1
    /\ UNCHANGED <<loop, nIn, corrAge>>

\* add_remote_candidate (mDNS candidates are refused before any change).
AddRemoteCandidate(addr) ==
    /\ ~\E i \in a.remotes : a.rcands[i].addr = addr
    /\ Len(a.lcands) + Len(a.rcands) < MaxCandidates
    /\ LET id == Len(a.rcands) + 1
           ls == Ascending(a.locals)
       IN  a' = [a EXCEPT !.rcands = Append(@, Cand(addr, a.now)),
                          !.remotes = @ \cup {id},
                          !.checklist = @ \o [k \in DOMAIN ls |->
                                                  NewPair(ls[k], id)]]
    /\ lastIn' = NoMsg
    /\ lastDisc' = -1
    /\ UNCHANGED <<loop, nIn, corrAge>>

SetRemoteCredentials ==
    /\ ~a.remoteSet
    /\ a' = [a EXCEPT !.remoteSet = TRUE]
    /\ lastIn' = NoMsg
    /\ lastDisc' = -1
    /\ UNCHANGED <<loop, nIn, corrAge>>

\* Mutant: restart forgets to drop the selected pair.
RestartKeepsSelected ==
    /\ a.restarts < MaxRestarts
    /\ LET x == [a EXCEPT !.remoteSet = FALSE, !.pending = {},
                          !.checklist = << >>, !.restarts = @ + 1]
           y == DeleteAllCandidates(x)
       IN  a' = IF y.state # "New" THEN UpdateConnectionState(y, "Checking")
                                   ELSE y
    /\ lastIn' = NoMsg
    /\ lastDisc' = -1
    /\ UNCHANGED <<loop, nIn, corrAge>>

\* restart: new local credentials, remote ones cleared, pending requests
\* and checklist dropped, no selected pair, no candidates; failed_timeout
\* is left as the validations have widened it.
Restart ==
    /\ a.restarts < MaxRestarts
    /\ LET x == [a EXCEPT !.remoteSet = FALSE, !.pending = {},
                          !.checklist = << >>, !.restarts = @ + 1]
           y == DeleteAllCandidates(SetSelectedPair(x, 0))
       IN  a' = IF y.state # "New" THEN UpdateConnectionState(y, "Checking")
                                   ELSE y
    /\ lastIn' = NoMsg
    /\ lastDisc' = -1
    /\ UNCHANGED <<loop, nIn, corrAge>>

\* start_connectivity_checks, and the check loop it starts (spec 4.5).
StartConnectivityChecks(controlling) ==
    /\ a' = UpdateConnectionState(
                [a EXCEPT !.remoteSet = TRUE, !.controlling = controlling],
                "Checking")
    /\ loop' = IF loop.on THEN loop
               ELSE [on |-> TRUE, lastState |-> "Unspecified", since |-> a.now]
    /\ lastIn' = NoMsg
    /\ lastDisc' = -1
    /\ UNCHANGED <<nIn, corrAge>>

\* close: candidates deleted, Closed.  The selected pair, the checklist
\* and the check loop are left as they are.
Close ==
    /\ a' = UpdateConnectionState(DeleteAllCandidates(a), "Closed")
    /\ lastIn' = NoMsg
    /\ lastDisc' = -1
    /\ UNCHANGED <<loop, nIn, corrAge>>

\* The check loop (spec 5: close "drains on the next step") sees a Closed
\* agent on its next iteration and ends.
LoopExit ==
    /\ loop.on
    /\ a.state = "Closed"
    /\ loop' = [loop EXCEPT !.on = FALSE]
    /\ lastIn' = NoMsg
    /\ lastDisc' = -1
    /\ UNCHANGED <<a, nIn, corrAge>>

\* One iteration of the check loop: an interval elapses, then contact().
Contact ==
    /\ loop.on
    /\ a.state # "Closed"
    /\ a.now < MaxTime
    /\ LET x       == [a EXCEPT !.now = @ + 1]
           since   == IF a.state = "Checking" /\ loop.lastState # "Checking"
                      THEN x.now ELSE loop.since
           expired == /\ a.state = "Checking"
                      /\ x.now - since > DisconnectedTimeout + a.failedTimeout
           y       == CASE a.state = "Failed" -> x
                        [] expired -> UpdateConnectionState(x, "Failed")
                        [] OTHER -> ContactCandidates(x)
       IN  /\ a' = y
           /\ loop' = [loop EXCEPT !.lastState = y.state, !.since = since]
           /\ lastDisc' = IF a.state # "Failed" /\ ~expired /\ a.selected # 0
                          THEN DisconnectedTime(x) ELSE -1
    /\ lastIn' = NoMsg
    /\ UNCHANGED <<nIn, corrAge>>

\* A datagram from `from` arrives at the live local candidate l.
Receive(l, from, m) ==
    /\ nIn < MaxInbound
    /\ l \in a.locals
    /\ a' = HandleInboundCandidateMsg(a, l, from, m)
    /\ nIn' = nIn + 1
    /\ lastIn' = m
    /\ LET r == Correlated(a, from, m)
       IN  corrAge' = IF r = NoRequest THEN corrAge ELSE a.now - r.ts
    /\ lastDisc' = -1
    /\ UNCHANGED loop

Next ==
    \/ \E addr \in LocalAddrs : AddLocalCandidate(addr)
    \/ \E addr \in RemoteAddrs : AddRemoteCandidate(addr)
    \/ SetRemoteCredentials
    \/ Restart
    \/ \E c \in BOOLEAN : StartConnectivityChecks(c)
    \/ Close
    \/ LoopExit
    \/ Contact
    \/ \E l \in a.locals, from \in RemoteAddrs,
          m \in Msgs({w.tid : w \in a.wire}) : Receive(l, from, m)

Spec == Init /\ [][Next]_vars

-----------------------------------------------------------------------------
(* Properties                                                              *)

Request == [ts: Int, tid: Nat, dest: RemoteAddrs, useCand: BOOLEAN]

PairOK(p, x) ==
    /\ p.local \in DOMAIN x.lcands /\ p.remote \in DOMAIN x.rcands
    /\ p.state \in PairStates /\ p.nominated \in BOOLEAN /\ p.count \in Nat

TypeOK ==
    /\ a.state \in ConnectionStates
    /\ a.controlling \in BOOLEAN /\ a.remoteSet \in BOOLEAN
    /\ \A i \in DOMAIN a.lcands : a.lcands[i].addr \in LocalAddrs
    /\ \A i \in DOMAIN a.rcands : a.rcands[i].addr \in RemoteAddrs
    /\ a.locals \subseteq DOMAIN a.lcands /\ a.remotes \subseteq DOMAIN a.rcands
    /\ \A i \in DOMAIN a.checklist : PairOK(a.checklist[i], a)
    /\ a.selected \in 0..Len(a.checklist)
    /\ a.pending \subseteq a.wire /\ a.wire \subseteq Request
    /\ a.now \in 0..MaxTime /\ a.failedTimeout \in Nat
    /\ loop.lastState \in ConnectionStates \cup {"Unspecified"}

\* The pending-request list is purged before every correlation, so a
\* success response is never matched with a request older than
\* MAX_BINDING_REQUEST_TIMEOUT (handle_inbound_binding_success), however
\* late the answer arrives.
StaleResponseNeverAccepted == corrAge < BindingRequestTimeout

\* A request or success response whose USERNAME or MESSAGE-INTEGRITY does
\* not check leaves the agent exactly as it was: no pair, state, pending
\* request or selection changes and nothing is sent (handle_inbound; spec
\* section 8, scenario 6).
UnauthenticatedIsInert ==
    [][lastIn'.class \in {"request", "success"} /\ ~lastIn'.auth => a' = a]_vars

\* Spec 4.5: Connected becomes Disconnected once the selected remote has
\* been silent for more than disconnected_timeout, and Disconnected becomes
\* Failed when the disconnect persists beyond failed_timeout, that is once
\* the silence exceeds disconnected_timeout + failed_timeout.  Checked in
\* the state right after validate_selected_pair has looked at the pair.
FailedTimeoutHonoured ==
    FailedTimeout # 0 /\ lastDisc > DisconnectedTimeout + FailedTimeout
        => a.state = "Failed"

\* Spec 4.5 lists every connection-state transition, and none leaves
\* Closed: close() is the end of the agent.  No entry point (restart
\* included) and no iteration of the check loop takes a Closed agent
\* anywhere else.
ClosedIsFinal == [][a.state = "Closed" => a'.state = "Closed"]_vars

\* An agent that reports Connected has heard from the remote candidate of
\* its selected pair within disconnected_timeout.
ConnectedPeerFresh ==
    a.state = "Connected" => DisconnectedTime(a) <= DisconnectedTimeout
=============================================================================
