# Quagga: a TLA+ verification project

Quagga is a suite of routing daemons. `zebra` owns the kernel's routing table;
`bgpd`, `ospfd`, `ospf6d`, `ripd`, `ripngd`, `isisd`, `pimd` and `ldpd` speak one
protocol each and talk to `zebra` over a socket; `watchquagga` supervises them
all; `vtysh` is their common command line. Every daemon is one thread driven by
the event loop of `lib/thread.c`.

What makes this code hard is the same everywhere. A handler runs to completion,
but it leaves timers, queued events and half-open sockets behind, and the next
handler meets them in a state its author did not think of. A unit test runs one
such order; the models here run all of them.

Contents: [the parts](#1-the-parts-of-the-system), [the plan](#2-plan),
[the modules](#3-the-modules-and-the-code), [the runs](#4-the-runs),
[bounds](#5-bounds), [fairness](#6-fairness), [proofs](#7-what-is-proved),
[findings](#8-where-the-code-and-its-documentation-disagree),
[what is left out](#9-what-is-not-modelled).

## 1. The parts of the system

"Modelled" says how far the project is; `PROJECT.json` lists the sources of every
part.

| Part | State | Operations | Talks to | Why it is hard, and what must hold | Modelled |
|---|---|---|---|---|---|
| `watchquagga` | per daemon: state, socket, wake-up timer; per restart command: pid, kill timer, back-off | connect, ping, time out, run a command, kill it, reap it | the vty socket of every daemon, systemd, child processes | Timers outlive their reason, several children share one SIGCHLD flag. Every daemon stays watched, the count of daemons down is exact, only own children are killed, readiness is announced when all are up. | yes |
| `bgpd`: sessions | two `struct peer` per neighbour, 8 states, 10 threads each, event and ready lists | 14 events, packets, accept, shutdown, clear, limits, nexthop tracking, graceful restart | TCP, the clear queue, `zebra`, the operator | Collisions, transfer of a live connection between two structures, flushing events that are needed. One session, no lost thread, socket or peer, no state that waits for nothing. | one neighbour, partly |
| `lib/thread.c` | lists of events, timers, descriptors, ready and background threads | add, cancel, fetch, call | every daemon | Cancelling what is already on the ready list. A pointer to a thread is NULL or that of a thread that will run. | as far as `bgpd` and `watchquagga` rely on it |
| `lib/workqueue.c` | items with retry counts, one background thread | add, run, plug, unplug, free | `zebra` (routes), `bgpd` (clearing, best path) | Retries, requeues and yields in one loop. Every item is finished and freed once; completion is called on an empty queue. | planned |
| `lib/zclient.c`, `zebra/zserv.c` | socket, write buffer, fail counter, registrations | connect, retry, register, send, close | every daemon and `zebra` | Reconnection after a restart of `zebra`; what was registered before must be again. | planned |
| `zebra`: RIB | route nodes, entries, five sub-queues, selected and FIB flags | add, delete, process, install, sweep | clients, kernel, nexthop tracking, FPM | Changes while a node is queued. At most one selected entry; the kernel has what is selected once the queues are empty. | planned |
| `zebra`: nexthop tracking | registered nexthops, resolving routes, clients | register, evaluate, notify | RIB, `bgpd`, `pimd` | Evaluation runs only after the queue is empty; no change may be missed. | planned |
| `zebra`: FPM | connection state, queue of destinations, two table walks | connect, walk, write, drop | forwarding plane manager | Walks of one connection still queued when the next comes up. What the manager was sent equals what it should have. | planned |
| `bgpd`: routes | adjacency and local RIB, best path, clear queue | announce, withdraw, select, advertise | update groups, `zebra` | The comparison must be an order; no route of a closed session survives. | clear queue only |
| `bgpd`: update groups | groups, subgroups, packet queues | join, split, merge, send | peers | A merge checked later than it was asked for. Every peer gets every route once. | planned |
| `bgpd`: damping | penalties, reuse lists | withdraw, update, reuse timer | routes | List membership against flags when the ring index wraps. | planned |
| `ospfd`: neighbours, interfaces | neighbour state, lists of requests and retransmissions, DR and BDR | 13 neighbour and 7 interface events | the other routers, over a lossy network | Queued events that are stale when they run, duplicated database packets. Both ends reach Full with equal databases; one DR. | planned |
| `ospfd`: flooding, LSDB | instances with age and sequence number | originate, refresh, flood, flush | neighbours | Sequence number wrap, MaxAge removal while retransmitting. | planned |
| `ospfd`: SPF, areas | graph, routing table | compute | `zebra` | Pure graph algorithms on large inputs. | no |
| `ospf6d` | as `ospfd` | as `ospfd` | as `ospfd` | as `ospfd` | later |
| `ripd`, `ripngd` | routes with time-out and garbage timers, equal-cost lists | response, time-out, collect, triggered update | neighbours, `zebra` | An update races the collection of the entry it refreshes. | planned |
| `isisd` | circuits, adjacencies, LSPs | circuit events, hello, DIS election, LSP refresh and purge | neighbours | Circuit start that fails half-way, election on two levels. | planned |
| `pimd` | upstream and interface channels, assert state | join, prune, expiry, assert | neighbours, IGMP, kernel | Prune-pending against an overriding join. | planned |
| `pimd`: MSDP | peers, source-active cache | connect, keepalive, hold, cache update | peers | Retry while a connect is in progress; references of a cached source. | planned |
| `ldpd` | three processes: parent, session engine, label engine | adjacency, session, mapping, withdraw, release | neighbours, `zebra` | Messages between the processes cross; a withdraw crosses a new mapping. | planned |
| `vtysh`, `lib/vty.c`, `lib/command.c` | text | parse, print | daemons | Text processing. | no |
| attributes, route maps, prefix lists, TLVs | none | parse, match | | Pure functions of packets and text. | no |
| kernel interface of `zebra` | kernel tables | netlink and ioctl | kernel | The other side is not in this repository. | no |
| packaging and scripts | none | | | | no |

The hazards of each part, at the line where they bite, are in `PROJECT.json`.

## 2. Plan

The project starts from the two parts in which scheduling matters most: the
watchdog, small enough to be modelled whole and proved about, and the BGP session
machine, where the worst interleavings of the suite are. The rest follows in this
order, each step with its type invariant, the properties named, and runs of a few
hundred to a few hundred thousand states.

| Step | Module | Models | Properties aimed at | To be proved |
|---|---|---|---|---|
| done | `Watchquagga` | `watchquagga.c` | see section 4 | section 7 |
| done | `BgpThreads`, `BgpFsm`, `BgpSession` | sessions of one neighbour | see section 4 | socket and doppelganger invariants, next |
| 1 | `WorkQueue` | `lib/workqueue.c`, with an abstract bag of items it implements | every item is finished once; completion on empty; progress unless plugged | the refinement of the abstract queue |
| 2 | `ZebraFpm` | `zebra_fpm.c`: connection states, queue, two walks | assertions never fail; what was sent equals the table once idle; reconnection | queue and flags agree |
| 3 | `OspfNsm`, `OspfIsm`, composed in `OspfLink` | two routers on a lossy link; election on a small segment | both Full with nothing outstanding; one DR; no stale LoadingDone | lists are empty below Exchange |
| 4 | `ZebraRib` | meta queue and selection of one prefix over `WorkQueue` | one selected entry; kernel equals selection when idle | flags and sub-queues agree |
| 5 | `RipRoute` | timers and equal-cost list of one prefix | no collected route is installed; the first entry is kept | timers against metric |
| 6 | `LdpLabels`, `LdpSession` | label engine of two neighbours; session machine | forwarding label equals the last valid mapping | |
| 7 | `PimChannel`, `MsdpPeer`, `IsisCircuit` | their machines | timers agree with states | |
| 8 | `BgpUpdateGroups`, `BgpDamping`, `BgpBestPath` | see section 1 | lists agree with flags; the comparison is an order | the order, for the comparisons without MED |

Components that share code are composed, not copied: the RIB and the BGP clear
queue are instances of the work queue, the OSPF link is two neighbour machines and
a network. Runs stay few: a new component brings one passing run, or two where its
options exclude each other, and a violation run only for a disagreement worth
keeping.

## 3. The modules and the code

### `Watchquagga.tla`: the watchdog

One action per timer, socket and signal handler of `watchquagga/watchquagga.c`;
`handle_read` is two actions, one for each of its ends. Variables keep the C names:
`state`, `t_read`, `t_write`, `t_wakeup`, `echo_sent` and `connect_tries` are the
fields of `struct daemon`; `pid`, `t_kill`, `kills`, `interval` and `elapsed` those
of `struct restart_info`; `numdown` and `numpids` are fields of `gs`.

- `t_wakeup` is the pointer, `pending` what is really queued, by handler. The two
  differ when code overwrites the pointer without cancelling the timer, which
  `check_connect` does.
- `proc` is the kernel's view of the children. A child becomes a zombie when it
  ends (`ChildExits`) and sets the `caught` flag of `lib/sigevent.c`;
  `sigevent_process` clears the flag before it calls `sigchild`, and a child may
  exit in between (`handling`).
- `try_connect`, `daemon_down`, `daemon_up`, `run_job` and `try_restart` are
  operators used by the actions, so a handler is one step with all it calls.
- `gs.phase` is not a variable: `set_phase` is called only from `phase_check` and
  the time-outs it starts, and only when the phase differs from `PHASE_NONE`, its
  initial value.

Time is abstract, and a queued timer may fire at any moment, except for the restart
back-off: `elapsed` counts ticks, because `run_job` compares it with an interval
that doubles.

### `BgpThreads.tla`, `BgpFsm.tla`, `BgpSession.tla`: BGP sessions

`bgp_fsm.c` handlers call one another deeply, so a handler is an operator from a
*world* (peers, event list, ready list, sockets, the route, the clear queue) to the
set of worlds it may leave; `Result` carries the C return value where the caller
looks at it.

- `BgpThreads` has `struct peer` and the macros of `bgp_fsm.h` over `lib/thread.c`:
  `ON`, `OFF`, `BGP_EVENT_ADD`, `BGP_EVENT_FLUSH`, and `bgp_timer_set`. The pointer
  of a thread and the lists that hold it are separate, since the flush takes ready
  timers from the list and leaves their pointers.
- `BgpFsm` has the table `FSM`, every function in it, `bgp_event_update`, the
  transfer of a connection from the doppelganger (`peer_xfer_conn`), deletion of a
  peer, and the part of `bgp_clear_route` the sessions wait for.
- `BgpSession` adds the scheduler and what it calls. `thread_fetch` runs when the
  ready list is empty and moves to it the events, then timers that are due, then
  descriptors, then background work, as `lib/thread.c` does; the other five actions
  each run the head of the ready list. A callback made pointless by an earlier one
  of the same batch still runs unless it was cancelled. Packets are
  abstracted to what the machine does about them; a CAPABILITY message
  (`DynamicCapability`) may withdraw families, which queues their routes for
  clearing and, with the last one, stops the session.
- `bgp_stop` starts the graceful-restart timers between the flush and the macros
  that turn the other threads off. `Reused` says which of them were given a
  structure that one of those stale pointers still points at, and so are cancelled
  at once; `Unused` is how many free structures come before the flushed ones. One
  is certain, that of the callback that is running.
- `Unnumbered` is a neighbour on an interface whose address may not be known yet:
  `bgp_start` then returns before it connects. The same test in `bgp_connect` cannot
  be true when `bgp_start`, its only caller, gets there.
- External to the source: the neighbour and TCP (any packet, end of file, error or
  connection at any moment) and the results of system calls.

`MCBgpSession` names the sets of inputs the configurations choose from.

### Proof modules

`WatchquaggaProofs` (jobs and children) and `WatchquaggaSupervision` (types and the
books on each daemon) extend `Watchquagga`; section 7.

## 4. The runs

Run one with `tlc -workers 4 -config <cfg> <module>`.

| Run | Configuration | Question | States |
|---|---|---|---|
| `watch_global` | `WatchGlobal` | two daemons, one restart command for all, pings, restarts of silent daemons: are the books right, and does supervision go on for ever? | 30 thousand |
| `watch_jobs` | `WatchJobs` | separate restarts, connects that take time, `write integrated` competing for SIGCHLD: do the job records agree with the kernel? | a few thousand |
| `bgp_collision` | `BgpCollision` | connections from both sides with every operator command and nexthop tracking: is the result one sound session? | 1.3 million |
| `bgp_admin` | `BgpAdmin` | connections of our own; shutdown, clear, maximum-prefix with restart, families withdrawn: can a suppressed neighbour have a session, does Clearing end? | 46 thousand |
| `bgp_restart` | `BgpRestart` | graceful restart, the neighbour connecting first, `getsockname` failing, timers lost: what becomes of old and stale routes? | 971 thousand |
| `watch_unreaped`, `watch_phased_kill`, `watch_delayed_connect`, `bgp_thread_lost`, `bgp_transfer_fails`, `bgp_shutdown_session`, `bgp_clear_race` | of the same names | violations, section 8 | |

What the passing runs show:

- **watchquagga.** `NumDownExact`: the count that decides readiness is the number of
  daemons that are down, though it is only ever adjusted by one.
  `ReadyMeansAllUp`: systemd is told "ready" only at a moment when every daemon is
  up. `StillWatched`: no handler forgets to arm what brings the program back to a
  daemon. `UnresponsiveCancelled`: the time-out of a silent daemon is queued only
  while it is silent. `KillsOwnChild`: the kill timer signals a child that has not
  been reaped, so its number cannot have been reused. `NumPidsExact`. And, under
  fairness, `HungJobsEnd` (a restart command that never returns is
  killed) and `RestartsKeepComing` (a daemon that stays down is restarted again and
  again, whatever the back-off).
- **BGP structures.** `DoppelgangerLinked`: the two peers of a neighbour point at
  each other or there is one, and nothing is queued for a freed one.
  `SocketsOwned`: no reconnect, swap or deletion leaks or double-closes a socket.
  `NoThreadLost`: a thread pointer that is set is that of a thread that will run
  (without graceful restart; with it see section 8).
- **BGP progress.** `NeverStuck`: the configured peer always has an event, timer,
  descriptor or the clear queue ahead of it, unless it is suppressed or passive.
  `ClearingWillEnd`, `ClearingEnds`: the one event that ends Clearing is not flushed
  away. `HoldTimerGuards`: once an OPEN was sent the hold timer runs, unless an event
  that the table sends to `bgp_stop` from every such state is queued.
- **BGP sessions.** `OneSession`: the session that survives a collision is the
  configured peer's. `NoSessionIfSuppressed`: after shutdown, or over the prefix
  limit, a session exists only while its end is queued. That is so for connections
  we open; one that the neighbour opens escapes both checks (section 8). `NoOldRoutes`: a session starts without unflagged routes of an earlier
  one. `ClearedBeforeSession`: the clear queue never runs in a later session.
  `KeptThroughRestart`: while the restart of the neighbour is waited for, nothing
  removes the routes of the lost session before they are flagged stale.
  `StaleCanGo`: a flagged route is one that the code still looks for, in a family
  with `peer->nsf` set or with the clear queue on its way to it. No claim is made
  that the timers which then remove it, or end the wait, do run: `bgp_thread_lost`
  shows that they may be lost. `ClearedBeforeSession` and `KeptThroughRestart` are
  checked without dynamic capability, whose purpose is to clear a family within a
  session.

Each property has a mutant in `PROJECT.json`: a plausible slip in a mapped
definition (marked "Variation" in the module) under which the same run fails.

Deadlock is checked in `watch_*`, `bgp_collision` and `bgp_admin`. It is not in
`bgp_restart`, where the lost restart timer of section 8 can leave a neighbour in
Active with nothing to wait for.

## 5. Bounds

| Bound | Where | Why it is enough |
|---|---|---|
| one or two daemons | `Daemons` | handlers touch one daemon and the shared counters; two are needed for SIGCHLD to be shared and for one to be up while the other is not. The theorems of section 7 hold for any number. |
| `MinInterval`, `MaxInterval` 1 and 2 ticks | `Watch*.cfg` | the back-off doubles once and is then capped, and is reset after `LongAgo`. |
| `LongAgo` | `Watchquagga` | elapsed time saturates just above every comparison of `run_job`. |
| `connect_tries` to 2, `kills` to 1 | `Watchquagga` | the code asks `> 1` and whether a first signal was sent. |
| `MaxPending` 2 | `RoomForTimer` | only `check_connect` adds a timer without using one up; two allow an overwritten one and its successor. |
| one neighbour, one route | `BgpSession` | the machine of one neighbour does not read another's. |
| `MaxBatch` 2 | `Batches` | how many timers and descriptors one `thread_fetch` finds due, besides all events; two suffice for one callback to undo what the next was scheduled for. |
| `MaxClear` 1 | `bgp_capability_receive` | a message withdraws a family only while nothing is queued; the end of the session then queues the node again, so both kinds of entry meet. All other entries are counted without a bound. |
| `Unused` 1 or 2 | `Bgp*.cfg` | free thread structures ahead of the flushed ones; with 1 (`bgp_restart`) the second graceful-restart timer gets the first flushed one, with 2 neither gets one. |
| `Inputs` | `MCBgpSession` | which outside callbacks take part; `bgp_collision` has all of them. |

The constants `HoldTimeZero`, `LocalLower`, `ConnectedOnly`, `MaxPrefix`,
`GracefulRestart`, `SockNameFails`, `DynamicCapability`, `Unnumbered` and `Passive` are configuration of the router or
behaviour of the neighbour, not bounds. `Passive` is FALSE in every configuration.

## 6. Fairness

- `Watchquagga`: the event loop runs a caught signal's handler, a due timer and the
  clock. Nothing is assumed of the daemons and the commands: for `wakeup_down` only
  the outcome in which the connect fails again is fair, and for `restart_kill` a
  first SIGTERM that is ignored; a command may run for ever, and only SIGKILL is
  certain to end it. `lib/thread.c` sleeps until the next timer and checks signals
  on every round, which is what weak fairness states.
- `BgpSession`: weak fairness of the scheduler as a whole (`Next`), since the main
  loop never stops while something is ready; and strong fairness of a fetch that
  includes the clear queue when it has work, because a background thread whose time
  has come is moved to the ready list by every fetch. No packet, command or
  neighbour is assumed to come.

Safety properties use no fairness.

## 7. What is proved

All theorems are about `Spec` of `Watchquagga`, for every finite set of daemons and
every setting of the options (`WatchAssumption`, which TLC evaluates in every run of
the module). Check with `tlapm WatchquaggaProofs.tla` and
`tlapm WatchquaggaSupervision.tla`.

| Theorem | Further assumption | States |
|---|---|---|
| `KillsOwnChildThm` | not a phased mode | `Spec => []KillsOwnChild` |
| `NumPidsExactThm` | not a phased mode | `Spec => []NumPidsExact` |
| `TypeOKThm` | none | `Spec => []TypeOK` |
| `NumDownExactThm` | connects do not block | `Spec => []NumDownExact` |
| `StillWatchedThm` | connects do not block | `Spec => []StillWatched` |
| `UnresponsiveCancelledThm` | connects do not block | `Spec => []UnresponsiveCancelled` |
| `ReadyMeansAllUpThm` | connects do not block | `Spec => ReadyMeansAllUp` |

*Jobs.* `JobInv` strengthens the two properties until a step preserves them: a
restart record has a pid exactly as long as it has a kill timer and as its child has
not been reaped, only records that `find_child` searches ever have one, and
`numpids` counts them. The condition on `find_child` is what fails in the phased modes, where
`run_job("all")` fills a record that `find_child` does not look at; hence the
assumption, and the finding. The count moves by one because the record that changes
was, or was not, in the set counted (`CountStart`, `CountReap`).

*Types.* `TypeInv` adds to the types that `t_wakeup` points at a timer that is
queued: without that, cancelling it could make a count in `pending` negative.

*Books.* `BooksInv` says for each daemon that the one timer queued is the one
`t_wakeup` points at, that its handler belongs to the state the daemon is in, and
that the daemon is read from exactly when it is up; and that `numdown` is exact. The
last needs the others: `daemon_up` subtracts one without looking at the state, so
it must be known that only a daemon that is down gets there. `ReadyMeansAllUp` then
follows, as `daemon_send_ready` runs when `numdown` has become zero.

The assumption `~DelayedConnect` is that `connect(2)` on a local stream socket
succeeds or fails at once. With it dropped the invariant is false: `check_connect`
brings a daemon up and leaves the time-out of the connect queued, and when that
fires the daemon is declared down although it is up (`watchquagga.c:727`, `:756`);
the run `watch_delayed_connect` is the counterexample.
With pings off and one daemon the run `watch_jobs` shows that the counts still
agree then.

Only model-checked: the liveness properties (`RestartsKeepComing`, `HungJobsEnd`,
`ClearingEnds`), since fairness and `ENABLED` are beyond the prover,
and everything about BGP so far.

## 8. Where the code and its documentation disagree

Each has a run whose counterexample shows it.

- `watch_unreaped`: two children exit before `sigchild` runs once; the second stays a
  zombie, and its restart record blocks further restarts.
- `watch_phased_kill`: in the phased modes the record of the finished command is not
  found, so its kill timer goes on signalling a number that is no longer its own.
- `watch_delayed_connect`: a connect that had to wait succeeds and its time-out stays
  queued; it takes down a daemon that is up, the other timer of the daemon brings it
  up twice, and `numdown` is wrong from then on.
- `bgp_thread_lost`: `thread_cancel_event` drops an expired timer from the ready list
  and leaves `t_gr_restart` set, so the timer never starts again.
- `bgp_transfer_fails`: `getsockname` fails in `peer_xfer_conn`; the configured peer
  is left in OpenConfirm with nothing armed.
- `bgp_shutdown_session`: `shutdown` while a connection of each side is being opened
  ends one of them; the other becomes a session.
- `bgp_clear_race`: `shutdown` and `no shutdown` while a restart is waited for; the
  queue that deletes the old routes still runs in the next session.

Met while modelling, without a run of their own:

- In the phased modes the watchdog runs one restart command for "all" and no stop
  and start phases, though its usage text describes them (`watchquagga.c:250`,
  `:959`).
- With delayed connects `wakeup_unresponsive` too can find another state ("wakeup
  should have been cancelled!", `watchquagga.c:975`).
- Nexthop tracking posts `BGP_Start` to an Idle peer that is shut down
  (`bgp_fsm.c:1634`), where `bgp_start` logs that this is never supposed to happen
  (`:1294`); `bgp_start` refuses, so no session follows.
- `bgp_accept` refuses a neighbour that is shut down but not one over its prefix
  limit (`bgp_network.c:378`): `NoSessionIfSuppressed` fails when the neighbour
  connects in before the restart timer of the limit has run.
- A neighbour that withdraws one family of several with dynamic capability loses the
  session: when the clear queue is done it posts `Clearing_Completed`, for which the
  table has `bgp_fsm_exeption`, which stops, and Idle in Established (`bgp_fsm.c:1772`).

## 9. What is not modelled

- *watchquagga*: option parsing (its results are the constants), logging, the
  SIGINT and SIGTERM handler that ends the program, and the arms of `phase_check`
  that cannot be reached.
- *BGP sessions*: removal of a configured neighbour, dynamic neighbours, peer
  groups, BFD, update-delay and max-med, the start-timer back-off, the routes of
  several address families apart, and the contents of packets.
- *Thread structures*: their reuse is modelled where `bgp_stop` itself allocates, not
  where update groups or BFD do so in the middle of it, and not for a pointer that was
  lost earlier and whose structure any thread of the process may have got since.
- *lib/thread.c*: as a component of its own, with priorities between timers that are
  due and CPU accounting.
- Everything marked planned, later or no in section 1. Parsers, printers, graph
  computations on large inputs and the kernel interface are not planned: they have no
  interleavings, or the other side of the exchange is not in this repository.
