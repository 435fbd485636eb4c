------------------------------- MODULE BgpFsm -------------------------------
(***************************************************************************)
(* The finite state machine of a BGP neighbour: the table FSM, the action  *)
(* functions it names, bgp_event_update (bgpd/bgp_fsm.c), and what they    *)
(* call of bgpd.c, bgp_packet.c and bgp_route.c: deletion of a peer, the   *)
(* NOTIFICATION write, and the queue that withdraws a peer's routes.       *)
(*                                                                         *)
(* A world w has the two peers, the event and the ready list of the        *)
(* thread master, socks (the connected or connecting sockets the process   *)
(* has open), rib (the one route learned from the neighbour) and clearq    *)
(* (the entries of that route in clear_node_queue).                        *)
(***************************************************************************)
EXTENDS BgpThreads

CONSTANTS
    GracefulRestart, \* bgp graceful-restart: both sides announce it
    SockNameFails,   \* bgp_getsockname may fail
    Unnumbered,      \* neighbor IFNAME interface: the address may be unknown
    Unused           \* threads on the unuse list when bgp_stop begins

\* The route learned from the neighbour: "fresh" came over the present
\* session, "old" over an earlier one, "stale" is flagged BGP_INFO_STALE.
Rib == {"none", "fresh", "stale", "old"}

Result(w, ret) == [w |-> w, ret |-> ret]

-----------------------------------------------------------------------------
(***************************************************************************)
(* Withdrawing the routes of a peer.                                       *)
(***************************************************************************)
\* Every node with a route of the peer is queued once more.
bgp_clear_route_all(w, p) ==
    IF p = "cfg" /\ w.rib # "none"
    THEN [w EXCEPT !.clearq = @ + 1] ELSE w

work_queue_is_scheduled(w, p) == p = "cfg" /\ w.clearq > 0

bgp_clear_stale_route(w) == [w EXCEPT !.rib = IF @ = "stale" THEN "none" ELSE @]

\* Variation: removes the route whether or not a restart is waited for.
clear_node_removes(rib, r) == "none"

\* One visit of the node: the route turns stale or goes.
bgp_clear_route_node(rib, r) ==
    IF r.wait /\ r.nsf /\ rib \in {"fresh", "old"} THEN "stale" ELSE "none"

\* Variation: the completion event is left to the queue, even an idle one.
change_status_no_event(w, p, s) ==
    [IF s \in {"Clearing", "Deleted"} THEN bgp_clear_route_all(w, p) ELSE w
        EXCEPT !.peer[p].status = s, !.peer[p].accept = @ /\ s # "Established"]

\* Variation: the completion event is posted while the queue still works.
change_status_early_event(w, p, s) ==
    [IF s \in {"Clearing", "Deleted"}
     THEN BGP_EVENT_ADD(bgp_clear_route_all(w, p), p, "Clearing_Completed") ELSE w
        EXCEPT !.peer[p].status = s, !.peer[p].accept = @ /\ s # "Established"]

\* Variation: entering Clearing does not queue the routes.
change_status_keeps_routes(w, p, s) ==
    [IF s \in {"Clearing", "Deleted"} THEN BGP_EVENT_ADD(w, p, "Clearing_Completed") ELSE w
        EXCEPT !.peer[p].status = s, !.peer[p].accept = @ /\ s # "Established"]

bgp_fsm_change_status(w, p, s) ==
    LET cleared == bgp_clear_route_all(w, p)
        posted  == IF work_queue_is_scheduled(cleared, p) THEN cleared
                   ELSE BGP_EVENT_ADD(cleared, p, "Clearing_Completed")
        before  == IF s \in {"Clearing", "Deleted"} THEN posted ELSE w
    IN  [before EXCEPT !.peer[p].status = s,
                       !.peer[p].accept = @ /\ s # "Established"]

peer_nsf_stop(w, p) ==
    bgp_clear_route_all(OFF([w EXCEPT !.peer[p].wait = FALSE, !.peer[p].nsf = FALSE],
                            p, {"gr_restart", "gr_stale"}), p)

-----------------------------------------------------------------------------
(***************************************************************************)
(* bgp_stop and peer_delete call each other: bgp_stop of a peer that is    *)
(* not configured deletes it, peer_delete runs bgp_stop with               *)
(* PEER_FLAG_DELETE set, which then does not delete.  stop_session is the  *)
(* part of bgp_stop that both share.                                       *)
(***************************************************************************)
stop_graceful_restart(w, p) ==
    LET r       == w.peer[p]
        nostale == OFF(w, p, {"gr_stale"})
    IN  IF r.status # "Established" THEN w
        ELSE IF r.wait THEN ON(nostale, p, {"gr_restart", "gr_stale"})
        ELSE [nostale EXCEPT !.peer[p].nsf = FALSE]

\* Variation: closes whether or not there is a descriptor.
stop_close_always(w, p) ==
    [w EXCEPT !.peer[p].notify = FALSE, !.peer[p].hold = TRUE, !.peer[p].fd = FALSE,
              !.socks = @ - 1]

stop_close(w, p) ==
    [w EXCEPT !.peer[p].notify = FALSE, !.peer[p].hold = TRUE, !.peer[p].fd = FALSE,
              !.socks = IF w.peer[p].fd THEN @ - 1 ELSE @]

\* Variation: flushes in Clearing too.
stop_flush_always(w, p) == BGP_EVENT_FLUSH(w, p)

stop_flush(w, p) == IF w.peer[p].status # "Clearing" THEN BGP_EVENT_FLUSH(w, p) ELSE w

\* Variation: leaves the timers to bgp_timer_set.
stop_leaves_timers(w, p) ==
    stop_close(OFF(stop_graceful_restart(stop_flush(w, p), p), p, {"read", "write"}), p)

StoppedThreads == SessionTimers \cup {"read", "write"}

\* The graceful restart timers that bgp_stop starts on a structure the flush
\* has put on the unuse list and a pointer of StoppedThreads still points at:
\* turning that thread off cancels them.  thread_get takes the structure that
\* was put on the unuse list first.
Reused(w, p) ==
    LET freed == SelectSeq(w.event \o w.ready, LAMBDA x : x[1] = p)
        new   == SelectSeq(<<"gr_restart", "gr_stale">>,
                           LAMBDA t : t = "gr_stale" \/ w.peer[p].th[t] = "off")
        dangling(i) == i \in DOMAIN freed /\ freed[i][2] \in StoppedThreads
    IN  IF w.peer[p].status = "Established" /\ w.peer[p].wait
        THEN {new[k] : k \in {j \in DOMAIN new : dangling(j - Unused)}} ELSE {}

\* A timer that is cancelled through another pointer is not queued, and its
\* own pointer stays.
stop_session(w, p) ==
    LET off == OFF(stop_graceful_restart(stop_flush(w, p), p), p, StoppedThreads)
    IN  stop_close([off EXCEPT !.peer[p].th =
            [t \in Threads |-> IF t \in Reused(w, p) THEN "ready" ELSE @[t]]], p)

\* Variation: the other peer keeps its pointer.
delete_half(w, p) ==
    [BGP_EVENT_FLUSH(stop_session(w, p), p) EXCEPT !.peer[p] = Freed]

\* Only a doppelganger is deleted here.  It holds no route, so its last
\* reference goes with peer_delete and peer_free follows.
peer_delete(w, p) ==
    LET nonsf   == IF w.peer[p].wait THEN peer_nsf_stop(w, p) ELSE w
        stopped == stop_session(nonsf, p)
        unlink  == [stopped EXCEPT !.peer[Other(p)].dopp = FALSE,
                                   !.peer[p].dopp = FALSE]
        deleted == bgp_fsm_change_status(unlink, p, "Deleted")
    IN  [BGP_EVENT_FLUSH(bgp_timer_set(deleted, p), p) EXCEPT !.peer[p] = Freed]

bgp_stop(w, p) ==
    IF p = "cfg" THEN Result(stop_session(w, p), 0)
    ELSE Result(peer_delete(stop_session(w, p), p), -1)

\* Only the process's own socket number makes the write fail for sure.
bgp_write_notify(w, p) ==
    {BGP_EVENT_ADD(w, p, e) : e \in IF w.peer[p].fd THEN {"TCP_fatal_error", "BGP_Stop"}
                                    ELSE {"TCP_fatal_error"}}

bgp_notify_send(w, p) ==
    bgp_write_notify(OFF([w EXCEPT !.peer[p].notify = TRUE], p, {"write"}), p)

bgp_stop_with_notify(w, p) == {bgp_stop(x, p) : x \in bgp_notify_send(w, p)}

bgp_getsockname == IF SockNameFails THEN {TRUE, FALSE} ELSE {TRUE}

\* OPEN, KEEPALIVE and the like: one more packet to write.
packet_send(w, p) == ON(w, p, {"write"})

-----------------------------------------------------------------------------
(***************************************************************************)
(* Opening a connection.                                                   *)
(***************************************************************************)
\* bgp_connect overwrites peer->fd.  Its result: it may fail before there is
\* a socket or after, in a way bgp_start's switch has a case for (an event)
\* or has not (-1); it may succeed at once or go on in the background.  That
\* the address is unknown has been asked by bgp_start, its only caller.
bgp_connect(w, p) ==
    LET sock == [w EXCEPT !.peer[p].fd = TRUE, !.socks = @ + 1]
    IN  {[w EXCEPT !.peer[p].fd = FALSE], sock,
         BGP_EVENT_ADD(sock, p, "TCP_connection_open_failed"),
         BGP_EVENT_ADD(sock, p, "TCP_connection_open"),
         ON(sock, p, {"read", "write"})}

\* Variation: starts a suppressed peer.
start_always(w, p) ==
    IF Passive THEN {Result(BGP_EVENT_ADD(w, p, "TCP_connection_open_failed"), 0)}
    ELSE {Result(x, 0) : x \in bgp_connect(w, p)}

bgp_start(w, p) ==
    (IF Unnumbered THEN {Result(w, -1)} ELSE {})
    \cup
    IF BGP_PEER_START_SUPPRESSED(w.peer[p]) THEN {Result(w, -1)}
    ELSE IF Passive THEN {Result(BGP_EVENT_ADD(w, p, "TCP_connection_open_failed"), 0)}
    ELSE {Result(x, 0) : x \in bgp_connect(w, p)}

\* Variation: connects again without stopping first.
reconnect_no_stop(w, p) == {Result(x.w, 0) : x \in bgp_start(w, p)}

bgp_reconnect(w, p) ==
    LET stopped == bgp_stop(w, p)
    IN  IF stopped.ret < 0 THEN {stopped}
        ELSE {Result(x.w, 0) : x \in bgp_start(stopped.w, p)}

bgp_connect_success(w, p) ==
    IF ~w.peer[p].fd THEN {Result(bgp_stop(w, p).w, -1)}
    ELSE UNION {IF ok THEN {Result(packet_send(ON(w, p, {"read"}), p), 0)}
                ELSE {Result(x, -1) : x \in bgp_notify_send(w, p)}
                : ok \in bgp_getsockname}

-----------------------------------------------------------------------------
(***************************************************************************)
(* Establishing a session.  The connection of a doppelganger moves to the  *)
(* configured peer: the two exchange descriptor and status.                *)
(***************************************************************************)
\* Variation: the descriptor of the configured peer is forgotten.
xfer_forgets_fd(w) ==
    LET c == w.peer["cfg"]
        a == w.peer["acc"]
    IN  [OFF(OFF(w, "cfg", {"read", "write", "routeadv"}), "acc", {"read", "write", "routeadv"})
            EXCEPT !.peer["cfg"].fd = a.fd, !.peer["acc"].fd = FALSE,
                   !.peer["cfg"].status = a.status, !.peer["acc"].status = c.status,
                   !.peer["cfg"].hold = a.hold]

xfer_swap(w) ==
    LET quiet == OFF(OFF(w, "cfg", {"read", "write", "routeadv"}),
                     "acc", {"read", "write", "routeadv"})
        c == w.peer["cfg"]
        a == w.peer["acc"]
    IN  [quiet EXCEPT !.peer["cfg"].fd = a.fd, !.peer["acc"].fd = c.fd,
                      !.peer["cfg"].status = a.status, !.peer["acc"].status = c.status,
                      !.peer["cfg"].hold = a.hold,
                      !.peer["cfg"].notify = FALSE, !.peer["acc"].notify = FALSE]

\* ret 0: the connection is that of "cfg" now; -1: peer_xfer_conn gave NULL
peer_xfer_conn(w) ==
    LET x    == xfer_swap(w)
        both == bgp_stop(bgp_stop(x, "cfg").w, "acc").w
        on(y) == Result(ON(y, "cfg", {"read", "write"}), 0)
        one  == IF x.peer["acc"].status \in AboveActive
                THEN {on(IF ok THEN x ELSE bgp_stop(x, "acc").w) : ok \in bgp_getsockname}
                ELSE {on(x)}
    IN  UNION {IF ok THEN one ELSE {Result(both, -1)} : ok \in bgp_getsockname}

\* Variation: stale routes stay when graceful restart is announced no more.
establish_keeps_stale(w, nsf, preserved) ==
    LET x == IF w.peer["cfg"].nsf /\ nsf /\ ~preserved THEN bgp_clear_stale_route(w) ELSE w
    IN  OFF([x EXCEPT !.peer["cfg"].wait = FALSE, !.peer["cfg"].nsf = nsf],
            "cfg", IF nsf THEN {"gr_restart"} ELSE {"gr_restart", "gr_stale"})

\* What the OPEN said of graceful restart: not announced for the family, or
\* announced and the forwarding state preserved or not.
establish_nsf(w, nsf, preserved) ==
    LET p == w.peer["cfg"]
        x == IF p.nsf /\ ~(nsf /\ preserved) THEN bgp_clear_stale_route(w) ELSE w
    IN  OFF([x EXCEPT !.peer["cfg"].wait = FALSE, !.peer["cfg"].nsf = nsf],
            "cfg", IF nsf THEN {"gr_restart"} ELSE {"gr_restart", "gr_stale"})

establish_end_doppelganger(w) ==
    IF ~w.peer["cfg"].dopp THEN {w}
    ELSE IF w.peer["acc"].status \in AboveActive THEN bgp_notify_send(w, "acc")
    ELSE {peer_delete(w, "acc")}

\* From bgp_fsm_change_status on, for the configured peer.  The routes of
\* an earlier session that are not flagged are "old" from here.
establish_session(w) ==
    LET up == [bgp_fsm_change_status(w, "cfg", "Established")
                  EXCEPT !.rib = IF @ = "fresh" THEN "old" ELSE @]
        gr == {establish_nsf(up, n, q) : n \in {FALSE, GracefulRestart}, q \in BOOLEAN}
        ra(x) == ON(OFF(x, "cfg", {"routeadv"}), "cfg", {"routeadv"})
    IN  UNION {establish_end_doppelganger(ra(x)) : x \in gr}

\* Variation: does not tell that the connection moved.
establish_silent(w, p) ==
    LET conn == IF p = "acc" THEN peer_xfer_conn(w) ELSE {Result(w, 0)}
    IN  UNION {IF x.ret < 0 THEN {x} ELSE {Result(y, 0) : y \in establish_session(x.w)}
               : x \in conn}

\* ret 1 tells bgp_event_update that the connection moved.
bgp_establish(w, p) ==
    LET conn == IF p = "acc" THEN peer_xfer_conn(w) ELSE {Result(w, 0)}
    IN  UNION {IF x.ret < 0 THEN {x}
               ELSE {Result(y, IF p = "acc" THEN 1 ELSE 0) : y \in establish_session(x.w)}
               : x \in conn}

-----------------------------------------------------------------------------
(***************************************************************************)
(* The table: for a status and an event the function called and the next   *)
(* status.  bgp_fsm_exeption only logs before bgp_stop, and bgp_fsm_update *)
(* does what bgp_fsm_keepalive does.                                       *)
(***************************************************************************)
FSM(s, e) ==
    CASE s = "Idle" ->
           CASE e = "BGP_Start" -> <<"bgp_start", "Connect">>
             [] e \in {"BGP_Stop", "TCP_connection_open", "TCP_connection_closed",
                       "TCP_fatal_error"} -> <<"bgp_stop", "Idle">>
             [] OTHER -> <<"bgp_ignore", "Idle">>
      [] s = "Connect" ->
           CASE e = "BGP_Start" -> <<"bgp_ignore", "Connect">>
             [] e = "TCP_connection_open" -> <<"bgp_connect_success", "OpenSent">>
             [] e = "TCP_connection_open_failed" -> <<"bgp_stop", "Active">>
             [] e = "ConnectRetry_timer_expired" -> <<"bgp_reconnect", "Connect">>
             [] OTHER -> <<"bgp_stop", "Idle">>
      [] s = "Active" ->
           CASE e \in {"BGP_Start", "TCP_connection_open_failed"} -> <<"bgp_ignore", "Active">>
             [] e = "TCP_connection_open" -> <<"bgp_connect_success", "OpenSent">>
             [] e = "ConnectRetry_timer_expired" -> <<"bgp_start", "Connect">>
             [] OTHER -> <<"bgp_stop", "Idle">>
      [] s = "OpenSent" ->
           CASE e = "BGP_Start" -> <<"bgp_ignore", "OpenSent">>
             [] e \in {"TCP_connection_open", "TCP_connection_closed",
                       "TCP_connection_open_failed", "TCP_fatal_error"} -> <<"bgp_stop", "Active">>
             [] e \in {"Hold_Timer_expired", "Receive_KEEPALIVE_message",
                       "Receive_UPDATE_message"} -> <<"bgp_stop_with_notify", "Idle">>
             [] e = "Receive_OPEN_message" -> <<"bgp_fsm_open", "OpenConfirm">>
             [] OTHER -> <<"bgp_stop", "Idle">>
      [] s = "OpenConfirm" ->
           CASE e \in {"BGP_Start", "KeepAlive_timer_expired"} -> <<"bgp_ignore", "OpenConfirm">>
             [] e = "Hold_Timer_expired" -> <<"bgp_stop_with_notify", "Idle">>
             [] e = "Receive_KEEPALIVE_message" -> <<"bgp_establish", "Established">>
             [] OTHER -> <<"bgp_stop", "Idle">>
      [] s = "Established" ->
           CASE e = "BGP_Start" -> <<"bgp_ignore", "Established">>
             [] e = "Hold_Timer_expired" -> <<"bgp_stop_with_notify", "Clearing">>
             [] e = "KeepAlive_timer_expired" -> <<"bgp_fsm_keepalive_expire", "Established">>
             [] e \in {"Receive_KEEPALIVE_message", "Receive_UPDATE_message"} ->
                   <<"bgp_fsm_keepalive", "Established">>
             [] e = "Clearing_Completed" -> <<"bgp_stop", "Idle">>
             [] OTHER -> <<"bgp_stop", "Clearing">>
      [] s = "Clearing" ->
           CASE e = "BGP_Start" -> <<"bgp_ignore", "Clearing">>
             [] e = "Clearing_Completed" -> <<"bgp_clearing_completed", "Idle">>
             [] OTHER -> <<"bgp_stop", "Clearing">>
      [] s = "Deleted" -> <<"bgp_ignore", "Deleted">>

bgp_clearing_completed(w, p) ==
    LET x == bgp_stop(w, p)
    IN  IF x.ret >= 0 THEN Result(BGP_EVENT_FLUSH(x.w, p), x.ret) ELSE x

CallFunc(f, w, p) ==
    CASE f = "bgp_ignore"               -> {Result(w, 0)}
      [] f = "bgp_stop"                 -> {bgp_stop(w, p)}
      [] f = "bgp_start"                -> bgp_start(w, p)
      [] f = "bgp_reconnect"            -> bgp_reconnect(w, p)
      [] f = "bgp_connect_success"      -> bgp_connect_success(w, p)
      [] f = "bgp_stop_with_notify"     -> bgp_stop_with_notify(w, p)
      [] f = "bgp_fsm_open"             -> {Result(OFF(packet_send(w, p), p, {"holdtime"}), 0)}
      [] f = "bgp_fsm_keepalive_expire" -> {Result(packet_send(w, p), 0)}
      [] f = "bgp_fsm_keepalive"        -> {Result(OFF(w, p, {"holdtime"}), 0)}
      [] f = "bgp_establish"            -> bgp_establish(w, p)
      [] f = "bgp_clearing_completed"   -> {bgp_clearing_completed(w, p)}

\* Variation: sets the timers only when the status changes.
event_done_lazy(w, p, next) ==
    IF next # w.peer[p].status
    THEN bgp_timer_set(bgp_fsm_change_status(w, p, next), p) ELSE w

\* After a function that returned 0 or more: the status of the table, and
\* the timers of the status.
event_done(w, p, next) ==
    bgp_timer_set(IF next # w.peer[p].status THEN bgp_fsm_change_status(w, p, next) ELSE w, p)

\* After one that failed: restart the machine, unless the peer was one that
\* deletes itself.
event_failed(w, p) ==
    bgp_timer_set(bgp_fsm_change_status(bgp_stop(w, p).w, p, "Idle"), p)

bgp_event_update(w, p, e) ==
    LET entry   == FSM(w.peer[p].status, e)
        next    == entry[2]
        passive == w.peer[p].accept
        moved(x) == x.ret = 1 /\ next = "Established"
    IN  {IF x.ret >= 0 THEN event_done(x.w, IF moved(x) THEN Other(p) ELSE p, next)
         ELSE IF ~passive THEN event_failed(x.w, p)
         ELSE x.w : x \in CallFunc(entry[1], w, p)}

=============================================================================
