-------------------------- MODULE IceAgentInternal --------------------------
(***************************************************************************)
(* AgentInternal of the older ice crate (src/ice/src/agent/                *)
(* agent_internal.rs): the same ICE-lite protocol as rtc-ice's Agent,      *)
(* with candidates kept per network type (one type here) and without       *)
(* restart.  Its I/O is stubbed out in this version:                       *)
(*   - send_stun's write_to is commented out, so nothing the agent builds *)
(*     ever reaches the peer and the local candidates' last_sent never    *)
(*     moves;                                                             *)
(*   - recv_loop and the check loop (connectivity_checks) are commented   *)
(*     out.  Their place is taken, as in IceAgent, by Receive and Contact,*)
(*     which follow spec.md section 4.5.                                  *)
(* The agent is one record `a`; every method is an operator from agent to *)
(* agent; time is counted in ticks of the check loop.                     *)
(***************************************************************************)
EXTENDS Integers, Sequences, FiniteSets, SequencesExt

CONSTANTS
    LocalAddrs,             \* addresses of local host candidates
    RemoteAddrs,            \* addresses of remote candidates and peers
    MaxBindingRequests,     \* max_binding_requests
    DisconnectedTimeout,    \* disconnected_timeout, in ticks
    FailedTimeout,          \* failed_timeout (as configured), in ticks
    KeepaliveInterval,      \* keepalive_interval, in ticks
    BindingRequestTimeout,  \* MAX_BINDING_REQUEST_TIMEOUT, in ticks
    MaxTime,                \* bound: ticks of the check loop
    MaxCandidates,          \* bound: candidate objects ever created
    MaxInbound              \* bound: inbound datagrams

ASSUME /\ MaxBindingRequests \in Nat
       /\ {DisconnectedTimeout, FailedTimeout, KeepaliveInterval} \subseteq Nat
       /\ BindingRequestTimeout \in Nat \ {0}
       /\ {MaxTime, MaxCandidates, MaxInbound} \subseteq Nat

VARIABLES
    a,       \* the AgentInternal struct
    loop,    \* the check loop: on, last_connection_state, checking_duration
    nIn,     \* inbound datagrams so far
    lastIn   \* history: the message handled by the last step, or NoMsg

vars == <<a, loop, nIn, lastIn>>

NoMsg == [class |-> "none"]

\* Inbound datagrams.  No binding request of this agent ever leaves it, so
\* a success response can only carry a transaction id it never sent (0).
Msgs ==
    [class: {"request"}, controlling: {TRUE}, controlled: {FALSE},
     useCand: BOOLEAN, auth: BOOLEAN, tid: {0}]
    \cup [class: {"request"}, controlling: {FALSE}, controlled: {TRUE},
          useCand: {FALSE}, auth: BOOLEAN, tid: {0}]
    \cup [class: {"success"}, controlling: {FALSE}, controlled: {FALSE},
          useCand: {FALSE}, auth: BOOLEAN, tid: {0}]
    \cup [class: {"indication", "error", "data"}, controlling: {FALSE},
          controlled: {FALSE}, useCand: {FALSE}, auth: {TRUE}, tid: {0}]

\* A candidate object: its address and last_sent / last_received.
NewCandidate(addr, t) == [addr |-> addr, sent |-> t, rcvd |-> t]

\* add_pair: CandidatePair::new, appended to the checklist.
AddPair(x, l, r) ==
    [x EXCEPT !.checklist = Append(@, [local |-> l, remote |-> r,
                                       state |-> "Waiting",
                                       nominated |-> FALSE, count |-> 0])]

-----------------------------------------------------------------------------
(* Helpers of impl AgentInternal                                           *)

\* delete_all_candidates: both candidate lists emptied (and each closed);
\* pairs and the selected pair keep their references.
DeleteAllCandidates(x) == [x EXCEPT !.locals = << >>, !.remotes = << >>]

UpdateConnectionState(x, s) ==
    IF x.state = s THEN x
    ELSE [(IF s = "Failed" THEN DeleteAllCandidates(x) ELSE x)
            EXCEPT !.state = s]

SetSelectedPair(x, i) ==
    IF i = 0 THEN [x EXCEPT !.selected = 0]
    ELSE UpdateConnectionState(
             [x EXCEPT !.checklist[i].nominated = TRUE, !.selected = i],
             "Connected")

\* find_pair: the first pair whose candidates equal (same address) the two.
FindPair(x, l, r) ==
    SelectInSeq(x.checklist,
                LAMBDA p : /\ x.cands[p.local].addr = x.cands[l].addr
                           /\ x.cands[p.remote].addr = x.cands[r].addr)

\* find_remote_candidate: the first remote candidate of the network type
\* with that address, or 0.
FindRemoteCandidate(x, addr) ==
    LET k == SelectInSeq(x.remotes, LAMBDA c : x.cands[c].addr = addr)
    IN  IF k = 0 THEN 0 ELSE x.remotes[k]

\* Candidate::seen(false) on a remote candidate.
Seen(x, c) == [x EXCEPT !.cands[c].rcvd = x.now]

\* send_stun: the write is commented out; the agent is left as it is.
SendStun(x, l) == x

InvalidatePendingBindingRequests(x) ==
    [x EXCEPT !.pending = SelectSeq(@, LAMBDA r : x.now - r.ts < BindingRequestTimeout)]

\* Mutant: the transaction id is not renewed per request.
SendBindingRequestSameTid(x, l, r, useCand) ==
    LET y == InvalidatePendingBindingRequests(x)
    IN  SendStun([y EXCEPT !.pending = Append(@, [ts |-> y.now, tid |-> y.nextTid,
                                                    dest |-> y.cands[r].addr,
                                                    useCand |-> useCand])], l)

SendBindingRequest(x, l, r, useCand) ==
    LET y == InvalidatePendingBindingRequests(x)
    IN  SendStun([y EXCEPT !.pending = Append(@, [ts |-> y.now, tid |-> y.nextTid,
                                                    dest |-> y.cands[r].addr,
                                                    useCand |-> useCand]),
                           !.nextTid = @ + 1], l)

\* ping_candidate (selector): USE-CANDIDATE iff controlling.
PingCandidate(x, l, r) == SendBindingRequest(x, l, r, x.controlling)

\* ping_all_candidates: a Waiting pair becomes InProgress first; then a
\* pair whose count exceeds max_binding_requests is Failed, any other live
\* pair has its count raised and is pinged once the loop is done.
PingAllCandidates(x) ==
    LET cl == x.checklist
        Live(p) == p.state \in {"Waiting", "InProgress"}
        Step(p) ==
            CASE ~Live(p) -> p
              [] p.count > MaxBindingRequests -> [p EXCEPT !.state = "Failed"]
              [] OTHER -> [p EXCEPT !.state = "InProgress", !.count = @ + 1]
        pinged == SelectSeq([i \in DOMAIN cl |-> i],
                            LAMBDA i : Live(cl[i]) /\ cl[i].count <= MaxBindingRequests)
    IN  FoldLeft(LAMBDA y, i : PingCandidate(y, cl[i].local, cl[i].remote),
                 [x EXCEPT !.checklist = [i \in DOMAIN cl |-> Step(cl[i])]],
                 pinged)

DisconnectedTime(x) == x.now - x.cands[x.checklist[x.selected].remote].rcvd

\* validate_selected_pair, for a selected pair.
ValidateSelectedPair(x) ==
    LET disc == DisconnectedTime(x)
        ft   == IF x.failedTimeout # 0
                THEN x.failedTimeout + DisconnectedTimeout ELSE 0
        y    == [x EXCEPT !.failedTimeout = ft]
    IN  CASE ft # 0 /\ disc > ft -> UpdateConnectionState(y, "Failed")
          [] DisconnectedTimeout # 0 /\ disc > DisconnectedTimeout ->
                 UpdateConnectionState(y, "Disconnected")
          [] OTHER -> UpdateConnectionState(y, "Connected")

\* check_keepalive: last_sent of the local candidate, which send_stun no
\* longer moves, or last_received of the remote one, older than the
\* interval.
CheckKeepalive(x) ==
    LET p == x.checklist[x.selected]
    IN  IF /\ KeepaliveInterval # 0
           /\ \/ x.now - x.cands[p.local].sent > KeepaliveInterval
              \/ x.now - x.cands[p.remote].rcvd > KeepaliveInterval
        THEN PingCandidate(x, p.local, p.remote)
        ELSE x

\* contact_candidates (selector)
ContactCandidates(x) ==
    IF x.selected # 0 THEN CheckKeepalive(ValidateSelectedPair(x))
                      ELSE PingAllCandidates(x)

\* handle_inbound_binding_success: purge, then take the pending request
\* with that transaction id, or NoRequest.
NoRequest == [tid |-> 0]

HandleInboundBindingSuccess(x, tid) ==
    LET y == InvalidatePendingBindingRequests(x)
        k == SelectInSeq(y.pending, LAMBDA r : r.tid = tid)
    IN  IF k = 0 THEN <<y, NoRequest>>
        ELSE <<[y EXCEPT !.pending = RemoveAt(@, k)], y.pending[k]>>

\* handle_success_response (selector): Succeeded, and nominated and
\* selected (if none is) when the request carried USE-CANDIDATE.
HandleSuccessResponse(x, l, rc, m) ==
    LET res == HandleInboundBindingSuccess(x, m.tid)
        y   == res[1]
        r   == res[2]
        i   == FindPair(y, l, rc)
        z   == [y EXCEPT !.checklist[i].state = "Succeeded",
                         !.checklist[i].nominated = @ \/ r.useCand]
    IN  CASE r = NoRequest \/ i = 0 -> y
          [] r.useCand /\ z.selected = 0 -> SetSelectedPair(z, i)
          [] OTHER -> z

\* send_binding_success: build the success response (XOR-MAPPED-ADDRESS,
\* integrity under the local password, fingerprint) and send it.  The
\* build cannot fail for a decoded request, so the message is sent.
SendBindingSuccess(x, l) == SendStun(x, l)

\* handle_binding_request (selector): send_binding_success, and when
\* controlled and the request carries USE-CANDIDATE, nominate and select.
HandleBindingRequest(x, l, rc, m) ==
    LET y == SendBindingSuccess(x, l)
        i == FindPair(y, l, rc)
        z == [y EXCEPT !.checklist[i].nominated = TRUE]
    IN  CASE ~m.useCand \/ y.controlling \/ i = 0 -> y
          [] z.selected = 0 -> SetSelectedPair(z, i)
          [] OTHER -> z

\* The role attributes handle_inbound refuses.
RoleConflict(x, m) ==
    IF x.controlling THEN m.controlling \/ m.useCand ELSE m.controlled

\* assert_inbound_username / assert_inbound_message_integrity: the message
\* was built with the credentials this agent holds; none hold before the
\* remote ones are set.
Authentic(x, m) == m.auth /\ x.remoteSet

\* Mutant: the sender is marked seen before the message is checked.
HandleInboundSeenFirst(x, l, rc, m) ==
    LET y == IF rc = 0 THEN x ELSE Seen(x, rc)
    IN  CASE m.class \notin {"request", "success", "indication"} -> y
          [] RoleConflict(y, m) -> y
          [] m.class \in {"request", "success"} /\ ~Authentic(y, m) -> y
          [] m.class = "success" /\ rc = 0 -> y
          [] m.class = "success" -> Seen(HandleSuccessResponse(y, l, rc, m), rc)
          [] m.class = "request" /\ rc # 0 -> Seen(HandleBindingRequest(y, l, rc, m), rc)
          [] rc # 0 -> Seen(y, rc)
          [] OTHER -> y

\* handle_inbound, in the code's order of early returns.
HandleInbound(x, l, rc, m) ==
    CASE m.class \notin {"request", "success", "indication"} -> x
      [] RoleConflict(x, m) -> x
      [] m.class \in {"request", "success"} /\ ~Authentic(x, m) -> x
      [] m.class = "success" /\ rc = 0 -> x
      [] m.class = "success" -> Seen(HandleSuccessResponse(x, l, rc, m), rc)
      [] m.class = "request" /\ rc # 0 -> Seen(HandleBindingRequest(x, l, rc, m), rc)
      [] rc # 0 -> Seen(x, rc)
      [] OTHER -> x

\* validate_non_stun_traffic: a known sender is marked seen.
ValidateNonStunTraffic(x, from) ==
    LET rc == FindRemoteCandidate(x, from)
    IN  IF rc = 0 THEN x ELSE Seen(x, rc)

\* handle_inbound_candidate_msg: STUN goes to handle_inbound.
HandleInboundCandidateMsg(x, l, from, m) ==
    IF m.class = "data" THEN ValidateNonStunTraffic(x, from)
    ELSE HandleInbound(x, l, FindRemoteCandidate(x, from), m)

-----------------------------------------------------------------------------
(* Entry points                                                            *)

\* AgentInternal::new, is_controlling from the config.
Init ==
    /\ a \in {[state |-> "New", controlling |-> c, cands |-> << >>,
               locals |-> << >>, remotes |-> << >>, checklist |-> << >>,
               selected |-> 0, pending |-> << >>, nextTid |-> 1,
               remoteSet |-> FALSE, failedTimeout |-> FailedTimeout,
               now |-> 0] : c \in BOOLEAN}
    /\ loop = [on |-> FALSE, taken |-> FALSE, lastState |-> "Unspecified",
               since |-> 0]
    /\ nIn = 0
    /\ lastIn = NoMsg

HasAddr(x, ids, addr) == \E k \in DOMAIN ids : x.cands[ids[k]].addr = addr

\* add_candidate: start_candidate only logs (its receive task is commented
\* out); a duplicate is closed and the call returns; a new one is paired
\* with every remote candidate of its type.
AddCandidate(addr) ==
    /\ ~HasAddr(a, a.locals, addr)
    /\ Len(a.cands) < MaxCandidates
    /\ LET id == Len(a.cands) + 1
           x  == [a EXCEPT !.cands = Append(@, NewCandidate(addr, a.now)),
                           !.locals = Append(@, id)]
       IN  a' = FoldLeft(LAMBDA y, r : AddPair(y, id, r), x, a.remotes)
    /\ lastIn' = NoMsg
    /\ UNCHANGED <<loop, nIn>>

\* add_remote_candidate: a duplicate returns at once; a new one is paired
\* with every local candidate of its type.
AddRemoteCandidate(addr) ==
    /\ ~HasAddr(a, a.remotes, addr)
    /\ Len(a.cands) < MaxCandidates
    /\ LET id == Len(a.cands) + 1
           x  == [a EXCEPT !.cands = Append(@, NewCandidate(addr, a.now)),
                           !.remotes = Append(@, id)]
       IN  a' = FoldLeft(LAMBDA y, l : AddPair(y, l, id), x, a.locals)
    /\ lastIn' = NoMsg
    /\ UNCHANGED <<loop, nIn>>

\* set_remote_credentials: an empty ufrag or pwd is an error and changes
\* nothing.
SetRemoteCredentials(nonEmpty) ==
    /\ a' = IF nonEmpty THEN [a EXCEPT !.remoteSet = TRUE] ELSE a
    /\ lastIn' = NoMsg
    /\ UNCHANGED <<loop, nIn>>

\* start_connectivity_checks: returns early when the credentials are
\* refused; otherwise the role is set and the agent is Checking.  The check
\* loop (connectivity_checks, commented out) takes the done/force-contact
\* receivers, so only the first call starts it.
StartConnectivityChecks(controlling, nonEmpty) ==
    /\ IF nonEmpty
       THEN /\ a' = UpdateConnectionState(
                        [a EXCEPT !.remoteSet = TRUE, !.controlling = controlling],
                        "Checking")
            /\ loop' = IF loop.taken THEN loop
                       ELSE [on |-> TRUE, taken |-> TRUE,
                             lastState |-> "Unspecified", since |-> a.now]
       ELSE UNCHANGED <<a, loop>>
    /\ lastIn' = NoMsg
    /\ UNCHANGED nIn

\* close: candidates deleted, Closed; the check loop is left as it is.
Close ==
    /\ a' = UpdateConnectionState(DeleteAllCandidates(a), "Closed")
    /\ lastIn' = NoMsg
    /\ UNCHANGED <<loop, nIn>>

\* The check loop sees a Closed agent on its next iteration and ends
\* (spec 5: close "drains on the next step").
LoopExit ==
    /\ loop.on
    /\ a.state = "Closed"
    /\ loop' = [loop EXCEPT !.on = FALSE]
    /\ lastIn' = NoMsg
    /\ UNCHANGED <<a, nIn>>

\* One iteration of the check loop: an interval elapses, then contact().
Contact ==
    /\ loop.on
    /\ a.state # "Closed"
    /\ a.now < MaxTime
    /\ LET x       == [a EXCEPT !.now = @ + 1]
           since   == IF a.state = "Checking" /\ loop.lastState # "Checking"
                      THEN x.now ELSE loop.since
           expired == /\ a.state = "Checking"
                      /\ x.now - since > DisconnectedTimeout + a.failedTimeout
           y       == CASE a.state = "Failed" -> x
                        [] expired -> UpdateConnectionState(x, "Failed")
                        [] OTHER -> ContactCandidates(x)
       IN  /\ a' = y
           /\ loop' = [loop EXCEPT !.lastState = y.state, !.since = since]
    /\ lastIn' = NoMsg
    /\ UNCHANGED nIn

\* A datagram from `from` reaches the local candidate l.
Receive(l, from, m) ==
    /\ nIn < MaxInbound
    /\ a' = HandleInboundCandidateMsg(a, l, from, m)
    /\ nIn' = nIn + 1
    /\ lastIn' = m
    /\ UNCHANGED loop

Next ==
    \/ \E addr \in LocalAddrs : AddCandidate(addr)
    \/ \E addr \in RemoteAddrs : AddRemoteCandidate(addr)
    \/ \E ok \in BOOLEAN : SetRemoteCredentials(ok)
    \/ \E c, ok \in BOOLEAN : StartConnectivityChecks(c, ok)
    \/ Close
    \/ LoopExit
    \/ Contact
    \/ \E k \in DOMAIN a.locals, from \in RemoteAddrs, m \in Msgs :
          Receive(a.locals[k], from, m)

Spec == Init /\ [][Next]_vars

-----------------------------------------------------------------------------
(* Properties                                                              *)

States == {"New", "Checking", "Connected", "Disconnected", "Failed", "Closed"}
PairStates == {"Waiting", "InProgress", "Succeeded", "Failed"}

TypeOK ==
    /\ a.state \in States
    /\ a.controlling \in BOOLEAN /\ a.remoteSet \in BOOLEAN
    /\ Len(a.cands) <= MaxCandidates
    /\ \A k \in DOMAIN a.cands : a.cands[k].rcvd \in 0..MaxTime
    /\ {a.locals[k] : k \in DOMAIN a.locals} \subseteq DOMAIN a.cands
    /\ {a.remotes[k] : k \in DOMAIN a.remotes} \subseteq DOMAIN a.cands
    /\ \A i \in DOMAIN a.checklist :
          /\ a.checklist[i].state \in PairStates
          /\ {a.checklist[i].local, a.checklist[i].remote} \subseteq DOMAIN a.cands
    /\ a.selected \in 0..Len(a.checklist)
    /\ \A k \in DOMAIN a.pending : a.pending[k].tid \in 1..(a.nextTid - 1)
    /\ loop.lastState \in States \cup {"Unspecified"}
    /\ nIn \in 0..MaxInbound

\* handle_inbound discards a binding request or success response that fails
\* the username or message-integrity check before it touches anything: such
\* a message, whatever its role attributes and sender, leaves the agent as
\* it was (the sender is not even marked seen).
UnauthenticatedIsInert ==
    [][lastIn'.class \in {"request", "success"} /\ ~lastIn'.auth => a' = a]_vars
=============================================================================
