----------------------------- MODULE BgpSession -----------------------------
(***************************************************************************)
(* The life of the sessions of one BGP neighbour: the thread master of     *)
(* lib/thread.c that picks what runs, and every callback bgpd registers    *)
(* for the neighbour (bgp_fsm.c, bgp_packet.c, bgp_network.c), together    *)
(* with the operator's commands and nexthop tracking that act on it.       *)
(*                                                                         *)
(* The process is single threaded, so one callback is one step; what the   *)
(* scheduler put on the ready list earlier still runs after a callback     *)
(* that made it pointless, unless the callback cancels it.                 *)
(***************************************************************************)
EXTENDS BgpFsm, SequencesExt

CONSTANTS
    Inputs,         \* which callbacks of others may run: a subset of Externals
    LocalLower,     \* our router identifier is lower than the neighbour's
    HoldTimeZero,   \* the neighbour may ask for hold time 0
    MaxPrefix,      \* neighbor ... maximum-prefix: "none", "stay" or "restart"
    ConnectedOnly,  \* gtsm_hops = 1: ttl-security hops 1
    DynamicCapability, \* neighbor ... capability dynamic
    MaxBatch        \* how many timers and descriptors one thread_fetch finds due

VARIABLES
    peer,   \* the two struct peer
    event,  \* thread master: the event list
    ready,  \* thread master: the ready list
    socks,  \* how many sockets of the neighbour the process has open
    rib,    \* the route learned from the neighbour
    clearq  \* its entries in peer->clear_node_queue

vars == <<peer, event, ready, socks, rib, clearq>>

World == [peer |-> peer, event |-> event, ready |-> ready,
          socks |-> socks, rib |-> rib, clearq |-> clearq]

\* The callback left this world.
Becomes(w) ==
    /\ peer' = w.peer
    /\ event' = w.event
    /\ ready' = w.ready
    /\ socks' = w.socks
    /\ rib' = w.rib
    /\ clearq' = w.clearq

-----------------------------------------------------------------------------
(***************************************************************************)
(* Timers other than those that only post their event.                     *)
(***************************************************************************)
bgp_connect_timer(w, p) ==
    IF w.peer[p].accept THEN {bgp_stop(w, p).w}
    ELSE bgp_event_update(w, p, "ConnectRetry_timer_expired")

bgp_graceful_stale_timer_expire(w, p) ==
    IF w.peer[p].nsf THEN bgp_clear_stale_route(w) ELSE w

bgp_graceful_restart_timer_expire(w, p) ==
    LET x == bgp_graceful_stale_timer_expire(w, p)
    IN  bgp_timer_set(OFF([x EXCEPT !.peer[p].wait = FALSE], p, {"gr_stale"}), p)

bgp_session_reset(w, p) ==
    BGP_EVENT_ADD(IF p = "cfg" /\ w.peer[p].dopp THEN peer_delete(w, Other(p)) ELSE w,
                  p, "BGP_Stop")

\* clear ip bgp NEIGHBOR, and the end of the maximum-prefix restart time
peer_clear(w, p) ==
    LET r == w.peer[p]
        freed == OFF([w EXCEPT !.peer[p].overflow = FALSE], p, {"pmax_restart"})
    IN  IF r.shutdown THEN {w}
        ELSE IF r.overflow THEN {BGP_EVENT_ADD(freed, p, "BGP_Start")}
        ELSE IF r.status \in ValidStateForNotif THEN bgp_notify_send(w, p)
        ELSE {bgp_session_reset(w, p)}

timer_expire(w, p, t) ==
    CASE t = "start"        -> bgp_event_update(w, p, "BGP_Start")
      [] t = "connect"      -> bgp_connect_timer(w, p)
      [] t = "holdtime"     -> bgp_event_update(w, p, "Hold_Timer_expired")
      [] t = "keepalive"    -> bgp_event_update(w, p, "KeepAlive_timer_expired")
      [] t = "routeadv"     -> {packet_send(w, p)}
      [] t = "gr_restart"   -> {bgp_graceful_restart_timer_expire(w, p)}
      [] t = "gr_stale"     -> {bgp_graceful_stale_timer_expire(w, p)}
      [] t = "pmax_restart" -> peer_clear(w, p)

-----------------------------------------------------------------------------
(***************************************************************************)
(* Descriptors.                                                            *)
(***************************************************************************)
\* The outcome of a connect that went on in the background.
bgp_connect_check(w, p) ==
    {BGP_EVENT_ADD(OFF(w, p, {"read", "write"}), p, e) :
        e \in {"TCP_fatal_error", "TCP_connection_open", "TCP_connection_open_failed"}}

\* A NOTIFICATION stays at the head of the output queue once written; any
\* other packet leaves it, and there may be more.
bgp_write(w, p) ==
    LET again == ON(w, p, {"write"})
        error == BGP_EVENT_ADD(w, p, "TCP_fatal_error")
    IN  IF w.peer[p].status = "Connect" THEN bgp_connect_check(w, p)
        ELSE IF w.peer[p].notify THEN {again, error, BGP_EVENT_ADD(w, p, "BGP_Stop")}
        ELSE {again, error, w}

\* Of two connections with an OPEN one is closed: ours if our identifier is
\* the lower one, theirs if it is not.  A session that exists already wins.
bgp_collision_detect(w, p) ==
    LET o == Other(p)
        newer == {Result(x, -1) : x \in bgp_notify_send(w, p)}
        older == {Result(x, 1) : x \in bgp_notify_send(w, o)}
    IN  IF ~w.peer[p].dopp THEN {Result(w, 0)}
        ELSE IF w.peer[o].status \in {"Established", "Clearing"} THEN newer
        ELSE IF w.peer[o].status \notin {"OpenConfirm", "OpenSent"} THEN {Result(w, 0)}
        ELSE IF LocalLower # w.peer[o].accept THEN older ELSE newer

\* An OPEN that is refused before or after the hold time is read from it, or
\* one that is good.
bgp_open_receive(w, p) ==
    LET read == {[w EXCEPT !.peer[p].hold = h] : h \in {TRUE, ~HoldTimeZero}}
        good(x) == IF x.ret < 0 THEN {x.w}
                   ELSE UNION {IF ok THEN bgp_event_update(x.w, p, "Receive_OPEN_message")
                               ELSE {x.w} : ok \in bgp_getsockname}
    IN  UNION {bgp_notify_send(x, p) : x \in read \cup {w}}
        \cup UNION {UNION {good(y) : y \in bgp_collision_detect(x, p)} : x \in read}

\* maximum-prefix reached: the overflow and then the failed parse each send
\* a NOTIFICATION.
bgp_maximum_prefix_overflow(w, p) ==
    LET timer == IF MaxPrefix = "restart" THEN {"pmax_restart"} ELSE {}
        first == bgp_notify_send([w EXCEPT !.peer[p].overflow = TRUE, !.rib = "fresh"], p)
    IN  IF MaxPrefix = "none" THEN {}
        ELSE UNION {bgp_notify_send(ON(x, p, timer), p) : x \in first}

\* Variation: stops the hold timer and does not start it again.
update_no_rearm(w, p) ==
    IF w.peer[p].status # "Established" THEN bgp_notify_send(w, p)
    ELSE {OFF([w EXCEPT !.rib = r], p, {"holdtime"}) : r \in {"fresh", "none"}}

\* An announcement, a withdrawal, an End-of-RIB, or one too many or unreadable
bgp_update_receive(w, p) ==
    LET done(x) == bgp_timer_set(OFF(x, p, {"holdtime"}), p)
        eor == IF w.peer[p].nsf THEN bgp_clear_stale_route(w) ELSE w
    IN  IF w.peer[p].status # "Established" THEN bgp_notify_send(w, p)
        ELSE {done([w EXCEPT !.rib = r]) : r \in {"fresh", "none"}} \cup {done(eor)}
             \cup bgp_notify_send(w, p) \cup bgp_maximum_prefix_overflow(w, p)

\* Bound: with so many entries queued no further message withdraws a family.
MaxClear == 1

\* Families withdrawn, the last one or one of several, or a message that is
\* refused part of the way.  bgp_clear_route queues the routes of a family.
bgp_capability_receive(w, p) ==
    LET some == IF w.clearq < MaxClear THEN {w, bgp_clear_route_all(w, p)} ELSE {w}
        all  == {BGP_EVENT_ADD(x, p, "BGP_Stop") : x \in some}
    IN  IF ~DynamicCapability \/ w.peer[p].status # "Established" THEN bgp_notify_send(w, p)
        ELSE some \cup all \cup UNION {bgp_notify_send(x, p) : x \in some \cup all}

\* End of file or an error on the descriptor
bgp_read_packet(w, p) ==
    LET r == w.peer[p]
        x == IF r.status = "Established" /\ r.nsf
             THEN [w EXCEPT !.peer[p].wait = TRUE] ELSE w
    IN  {BGP_EVENT_ADD(x, p, e) : e \in {"TCP_fatal_error", "TCP_connection_closed"}}

\* One packet, or part of one, or one with a bad header or of the kinds that
\* do not concern the session.
bgp_read(w, p) ==
    IF w.peer[p].status = "Connect" THEN bgp_connect_check(w, p)
    ELSE IF ~w.peer[p].fd THEN {w}
    ELSE LET x == ON(w, p, {"read"})
         IN  {x} \cup bgp_read_packet(x, p) \cup bgp_notify_send(x, p)
             \cup bgp_open_receive(x, p) \cup bgp_update_receive(x, p)
             \cup bgp_capability_receive(x, p)
             \cup {BGP_EVENT_ADD(x, p, e) :
                      e \in {"Receive_KEEPALIVE_message", "Receive_NOTIFICATION_message"}}

\* A connection from the neighbour.  With graceful restart it tells that the
\* neighbour restarted: the session that exists ends at once.
bgp_accept(w) ==
    LET c    == w.peer["cfg"]
        x    == IF c.dopp THEN peer_delete(w, "acc") ELSE w
        new  == [peer_new EXCEPT !.status = "Active", !.accept = TRUE, !.dopp = TRUE,
                                 !.fd = TRUE, !.hold = c.hold]
        y    == [x EXCEPT !.peer["acc"] = new, !.peer["cfg"].dopp = TRUE, !.socks = @ + 1]
        gone == bgp_event_update([y EXCEPT !.peer["cfg"].wait = TRUE], "cfg",
                                 "TCP_connection_closed")
    IN  IF c.shutdown \/ c.status \in {"Clearing", "Deleted"} THEN {w}
        ELSE {BGP_EVENT_ADD(z, "acc", "TCP_connection_open") :
                 z \in IF c.status = "Established" /\ c.nsf THEN gone ELSE {y}}

-----------------------------------------------------------------------------
(***************************************************************************)
(* The operator, nexthop tracking, and the queue that clears routes.       *)
(***************************************************************************)
peer_flag_modify(w, set) ==
    LET r == w.peer["cfg"]
        x == [w EXCEPT !.peer["cfg"].shutdown = set]
        y == IF r.wait THEN peer_nsf_stop(x, "cfg") ELSE x
        z == OFF([y EXCEPT !.peer["cfg"].overflow = FALSE], "cfg", {"pmax_restart"})
    IN  IF r.shutdown = set THEN {w}
        ELSE IF ~set THEN {BGP_EVENT_ADD(x, "cfg", "BGP_Stop")}
        ELSE IF r.status \in ValidStateForNotif THEN bgp_notify_send(z, "cfg")
        ELSE {bgp_session_reset(z, "cfg")}

bgp_fsm_nht_update(w, valid) ==
    LET s == w.peer["cfg"].status
        post(x, e) == BGP_EVENT_ADD(x, "cfg", e)
        quiet == OFF(w, "cfg", {"connect"})
    IN  CASE s = "Idle" /\ valid     -> post(w, "BGP_Start")
          [] s = "Connect" /\ ~valid -> post(quiet, "TCP_fatal_error")
          [] s = "Active" /\ valid   -> post(quiet, "ConnectRetry_timer_expired")
          [] s \in ValidStateForNotif /\ ~valid /\ ConnectedOnly -> post(w, "TCP_fatal_error")
          [] OTHER -> w

\* Visits of the node by the work queue: some, then it yields, or all.
ClearVisits(w) ==
    LET once  == bgp_clear_route_node(w.rib, w.peer["cfg"])
        twice == bgp_clear_route_node(once, w.peer["cfg"])
    IN  {[w EXCEPT !.rib = IF k = 1 THEN once ELSE twice, !.clearq = @ - k]
         : k \in 1 .. w.clearq}

bgp_clear_node_queue_run(w) ==
    {IF x.clearq = 0 THEN BGP_EVENT_ADD(x, "cfg", "Clearing_Completed") ELSE x
     : x \in ClearVisits(w)}

external_run(w, x) ==
    CASE x = <<"listener", "accept">>       -> bgp_accept(w)
      [] x = <<"vty", "clear">>             -> peer_clear(w, "cfg")
      [] x = <<"vty", "shutdown">>          -> peer_flag_modify(w, TRUE)
      [] x = <<"vty", "no_shutdown">>       -> peer_flag_modify(w, FALSE)
      [] x = <<"zclient", "nht_valid">>     -> {bgp_fsm_nht_update(w, TRUE)}
      [] x = <<"zclient", "nht_invalid">>   -> {bgp_fsm_nht_update(w, FALSE)}
      [] x = <<"clear_node_queue", "run">>  -> bgp_clear_node_queue_run(w)

-----------------------------------------------------------------------------
(***************************************************************************)
(* The thread master.  thread_fetch looks for work only when the ready     *)
(* list is empty, and then queues all there is: the events, the timers     *)
(* that expired, the descriptors that are ready, then background work.     *)
(***************************************************************************)
Kind(x) == IF x[2] \in Timers THEN 1 ELSE IF x[1] = "clear_node_queue" THEN 3 ELSE 2

Due(p, t) == peer[p].th[t] = "on"

Armed == {x \in Peers \X Threads : Due(x[1], x[2])}
         \cup Inputs
         \cup {x \in {<<"clear_node_queue", "run">>} : clearq > 0}

Batches ==
    {b \in UNION {[1 .. n -> Armed] : n \in 0 .. MaxBatch} :
        \A i, j \in DOMAIN b : i < j => b[i] # b[j] /\ Kind(b[i]) =< Kind(b[j])}

thread_fetch ==
    /\ ready = <<>>
    /\ \E b \in Batches :
          /\ event \o b # <<>>
          /\ ready' = event \o b
          /\ LET due == Range(b)
             IN  peer' = [p \in Peers |-> [peer[p] EXCEPT !.th =
                     [t \in Threads |-> IF <<p, t>> \in due THEN "ready" ELSE @[t]]]]
    /\ event' = <<>>
    /\ UNCHANGED <<socks, rib, clearq>>

\* thread_call: the callback of the head of the ready list.
Popped == [World EXCEPT !.ready = Tail(@)]

Running(p, t) == ready # <<>> /\ Head(ready) = <<p, t>>

EventCall ==
    \E p \in Peers, e \in Events :
        Running(p, e) /\ \E w \in bgp_event_update(Popped, p, e) : Becomes(w)

TimerCall ==
    \E p \in Peers, t \in Timers :
        Running(p, t) /\ \E w \in timer_expire(Fired(Popped, p, t), p, t) : Becomes(w)

ReadCall ==
    \E p \in Peers :
        Running(p, "read") /\ \E w \in bgp_read(Fired(Popped, p, "read"), p) : Becomes(w)

WriteCall ==
    \E p \in Peers :
        Running(p, "write") /\ \E w \in bgp_write(Fired(Popped, p, "write"), p) : Becomes(w)

ExternalCall ==
    \E x \in Externals :
        Running(x[1], x[2]) /\ \E w \in external_run(Popped, x) : Becomes(w)

Init ==
    /\ peer = [p \in Peers |-> IF p = "cfg" THEN [peer_new EXCEPT !.th["start"] = "on"]
                               ELSE Freed]
    /\ event = <<>>
    /\ ready = <<>>
    /\ socks = 0
    /\ rib = "none"
    /\ clearq = 0

Next == thread_fetch \/ EventCall \/ TimerCall \/ ReadCall \/ WriteCall \/ ExternalCall

Spec == Init /\ [][Next]_vars

\* The main loop runs what is ready, and a background thread that is due is
\* put on the ready list by the next thread_fetch, which comes round again.
FetchClear == clearq > 0 /\ thread_fetch /\ <<"clear_node_queue", "run">> \in Range(ready')

Fairness == WF_vars(Next) /\ SF_vars(FetchClear)

FairSpec == Spec /\ Fairness

-----------------------------------------------------------------------------
(***************************************************************************)
(* Properties.                                                             *)
(***************************************************************************)
cfg == peer["cfg"]
acc == peer["acc"]

Queued(x) == x \in Range(event) \cup Range(ready)

EventQueued(p) == \E e \in Events : Queued(<<p, e>>)

\* One that the table sends to bgp_stop or bgp_stop_with_notify from every
\* state in which an OPEN was sent.
EndQueued(p) ==
    \E e \in {"BGP_Stop", "TCP_connection_closed", "Hold_Timer_expired", "TCP_fatal_error"} :
        Queued(<<p, e>>)

\* The thread of the pointer exists: it waits, or is on the ready list.
Live(p, t) == peer[p].th[t] = "on" \/ (peer[p].th[t] = "ready" /\ Queued(<<p, t>>))

TypeOK ==
    /\ peer \in [Peers -> Peer]
    /\ event \in Seq(Thread)
    /\ ready \in Seq(Thread)
    /\ socks \in Nat
    /\ rib \in Rib
    /\ clearq \in Nat

\* The two peers of a neighbour point at each other, or there is one only:
\* no order of accept, stop, transfer and reset leaves half a pair.
DoppelgangerLinked ==
    /\ cfg.dopp = acc.dopp
    /\ acc.dopp = (acc.status # "Deleted")
    /\ acc.status = "Deleted" => ~EventQueued("acc") /\ \A t \in Threads : ~Live("acc", t)

\* Every socket the process has open is the fd of a peer: none is leaked when
\* bgp_connect overwrites peer->fd, when the connections of the two peers are
\* swapped, or when one of them is deleted.
SocketsOwned == socks = Cardinality({p \in Peers : peer[p].fd})

\* A peer in Clearing always has the end of Clearing ahead of it: the queue
\* is scheduled, or its completion event is on its way and was not flushed.
ClearingWillEnd ==
    cfg.status = "Clearing" => clearq > 0 \/ Queued(<<"cfg", "Clearing_Completed">>)

\* The state machine of the configured peer never waits for nothing: there is
\* an event, a timer, a descriptor or the clear queue that will move it, but
\* where it is told to wait for the operator or for the neighbour.
NeverStuck ==
    \/ EventQueued("cfg")
    \/ \E t \in Threads : Live("cfg", t)
    \/ clearq > 0
    \/ cfg.status = "Idle" /\ BGP_PEER_START_SUPPRESSED(cfg)
    \/ cfg.status = "Active" /\ Passive

\* A session starts with no route of the one before it that is not flagged
\* stale.
NoOldRoutes == rib # "old"

\* The queue that deletes the routes of the last session never runs in the
\* next one, unless the end of that one is already queued.  bgp_clear_route:
\* sessions stay in Clearing to protect against a "race with routes from the
\* new session being installed before clear_route_node visits the node".
ClearedBeforeSession ==
    clearq > 0 /\ cfg.status = "Established" => EndQueued("cfg")

\* No thread is lost: a pointer that is not NULL is that of a thread that
\* waits or is on the ready list.  thread_cancel_event, behind BGP_EVENT_FLUSH:
\* "Delete all events which has argument value arg."
NoThreadLost == \A p \in Peers, t \in Threads : peer[p].th[t] = "off" \/ Live(p, t)

\* A route flagged stale is one that the code can still find: it belongs to a
\* family with peer->nsf set, the only ones whose stale routes the two timers,
\* the End-of-RIB and the next OPEN remove, or the clear queue will visit it.
StaleCanGo == rib = "stale" => cfg.nsf \/ clearq > 0

\* While the restart of the neighbour is waited for, from the end of the
\* session on, no step of the clear queue, a timer or another connection
\* removes a route that was learned in the session: it is kept and flagged.
KeptThroughRestart ==
    [][cfg.wait /\ cfg'.wait /\ cfg.status # "Established" /\ rib = "fresh"
          => rib' # "none"]_vars

\* The session that won a collision is the configured peer's: the doppelganger
\* is never left with a session of its own.
OneSession == acc.status # "Established"

\* Once an OPEN was sent the hold timer guards the connection, unless hold
\* time 0 was agreed or an event that ends the connection is already queued.
HoldTimerGuards ==
    \A p \in Peers :
        peer[p].status \in ValidStateForNotif /\ peer[p].hold
            => Live(p, "holdtime") \/ EndQueued(p)

\* Clearing ends, whatever else the main loop has to do.
ClearingEnds == (cfg.status = "Clearing") ~> (cfg.status # "Clearing")

\* A neighbour that is shut down, or over its prefix limit, has no session,
\* but for one whose end is queued.
NoSessionIfSuppressed ==
    cfg.status = "Established" /\ BGP_PEER_START_SUPPRESSED(cfg) => EndQueued("cfg")

=============================================================================
