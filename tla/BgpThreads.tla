----------------------------- MODULE BgpThreads -----------------------------
(***************************************************************************)
(* The state of one BGP neighbour of bgpd and the thread macros its code   *)
(* is written with (bgpd/bgp_fsm.h, lib/thread.h, lib/thread.c).           *)
(*                                                                         *)
(* A neighbour has up to two struct peer: the configured one, "cfg"        *)
(* (PEER_FLAG_CONFIG_NODE), which connects, and its doppelganger "acc",    *)
(* made by bgp_accept for a connection the remote side opened.  A handler  *)
(* is a sequential C function that calls others, so it is written here as  *)
(* an operator from a world (everything the handler may touch) to the      *)
(* world, or to the set of the worlds, it may leave.                       *)
(***************************************************************************)
EXTENDS Integers, Sequences

CONSTANT
    Passive     \* neighbor ... passive: PEER_FLAG_PASSIVE

Peers == {"cfg", "acc"}

Other(p) == IF p = "cfg" THEN "acc" ELSE "cfg"

Status == {"Idle", "Connect", "Active", "OpenSent", "OpenConfirm",
           "Established", "Clearing", "Deleted"}

\* status > Active in the numbering of bgpd.h
AboveActive == {"OpenSent", "OpenConfirm", "Established", "Clearing", "Deleted"}

ValidStateForNotif == {"OpenSent", "OpenConfirm", "Established"}

Events == {"BGP_Start", "BGP_Stop", "TCP_connection_open", "TCP_connection_closed",
           "TCP_connection_open_failed", "TCP_fatal_error",
           "ConnectRetry_timer_expired", "Hold_Timer_expired",
           "KeepAlive_timer_expired", "Receive_OPEN_message",
           "Receive_KEEPALIVE_message", "Receive_UPDATE_message",
           "Receive_NOTIFICATION_message", "Clearing_Completed"}

SessionTimers == {"start", "connect", "holdtime", "keepalive", "routeadv"}

Timers == SessionTimers \cup {"gr_restart", "gr_stale", "pmax_restart"}

Threads == Timers \cup {"read", "write"}

(***************************************************************************)
(* A thread is the pair of its argument and of what it runs: an event, a   *)
(* timer or an I/O callback of a peer, or a callback of somebody else.     *)
(* th[t] is the pointer peer->t_t: "off" is NULL, "on" a thread waiting    *)
(* in a timer queue or for its descriptor, "ready" one that thread_fetch   *)
(* moved to the ready list.                                                *)
(***************************************************************************)
Externals == {<<"listener", "accept">>, <<"vty", "clear">>, <<"vty", "shutdown">>,
              <<"vty", "no_shutdown">>, <<"zclient", "nht_valid">>,
              <<"zclient", "nht_invalid">>, <<"clear_node_queue", "run">>}

Thread == (Peers \X (Events \cup Threads)) \cup Externals

NoThreads == [t \in Threads |-> "off"]

\* struct peer: the fields the session logic reads, after peer_new
Peer == [status : Status, fd : BOOLEAN, th : [Threads -> {"off", "on", "ready"}],
         accept : BOOLEAN, dopp : BOOLEAN, notify : BOOLEAN, hold : BOOLEAN,
         nsf : BOOLEAN, wait : BOOLEAN, overflow : BOOLEAN, shutdown : BOOLEAN]

peer_new == [status |-> "Idle", fd |-> FALSE, th |-> NoThreads, accept |-> FALSE,
             dopp |-> FALSE, notify |-> FALSE, hold |-> TRUE, nsf |-> FALSE,
             wait |-> FALSE, overflow |-> FALSE, shutdown |-> FALSE]

\* What bgp_accept finds where there is no doppelganger: a freed struct.
Freed == [peer_new EXCEPT !.status = "Deleted"]

-----------------------------------------------------------------------------
(***************************************************************************)
(* The macros.  The _ON ones do nothing for a Deleted peer or when the     *)
(* thread exists; thread_cancel takes a thread out of wherever it is.  It  *)
(* does nothing to one that is on the unuse list already, as the ones are  *)
(* that BGP_EVENT_FLUSH took: the pointer is cleared and that is all.  The *)
(* structure may have been used again, though; see Reused in BgpFsm.       *)
(***************************************************************************)
ON(w, p, T) ==
    IF w.peer[p].status = "Deleted" THEN w
    ELSE [w EXCEPT !.peer[p].th =
             [t \in Threads |-> IF t \in T /\ @[t] = "off" THEN "on" ELSE @[t]]]

OFF(w, p, T) ==
    [w EXCEPT !.peer[p].th = [t \in Threads |-> IF t \in T THEN "off" ELSE @[t]],
              !.ready = SelectSeq(@, LAMBDA x : ~(x[1] = p /\ x[2] \in T))]

BGP_EVENT_ADD(w, p, e) ==
    IF w.peer[p].status = "Deleted" THEN w
    ELSE [w EXCEPT !.event = Append(@, <<p, e>>)]

\* thread_cancel_event: everything of the peer on the event list, and
\* everything of the peer, of whatever kind, on the ready list.  The pointer
\* of a timer that was there keeps its value.
BGP_EVENT_FLUSH(w, p) ==
    [w EXCEPT !.event = SelectSeq(@, LAMBDA x : x[1] # p),
              !.ready = SelectSeq(@, LAMBDA x : x[1] # p)]

\* The thread of a callback is gone when the callback runs: its first
\* statement clears the pointer.
Fired(w, p, t) == [w EXCEPT !.peer[p].th[t] = "off"]

-----------------------------------------------------------------------------
BGP_PEER_START_SUPPRESSED(r) == r.shutdown \/ r.overflow

\* Which timers of bgp_timer_set a peer's state turns on, and which it
\* leaves alone; it turns every other one of its five off.
TimersOn(r) ==
    CASE r.status = "Idle"    -> IF BGP_PEER_START_SUPPRESSED(r) THEN {} ELSE {"start"}
      [] r.status = "Connect" -> {"connect"}
      [] r.status = "Active"  -> IF Passive \/ r.wait THEN {} ELSE {"connect"}
      [] r.status = "OpenSent" -> IF r.hold THEN {"holdtime"} ELSE {}
      [] r.status \in {"OpenConfirm", "Established"} ->
            IF r.hold THEN {"holdtime", "keepalive"} ELSE {}
      [] r.status \in {"Clearing", "Deleted"} -> {}

TimersKept(r) == IF r.status = "Established" THEN {"routeadv"} ELSE {}

bgp_timer_set(w, p) ==
    LET r    == w.peer[p]
        on   == TimersOn(r)
        gone == IF r.status = "Deleted" THEN Timers
                ELSE SessionTimers \ (on \cup TimersKept(r))
    IN  ON(OFF(w, p, gone), p, on)

=============================================================================
