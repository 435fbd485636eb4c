---------------------------- MODULE Watchquagga ----------------------------
(***************************************************************************)
(* The watchdog daemon (watchquagga/watchquagga.c): it connects to the vty *)
(* socket of every monitored daemon, pings it, and runs restart commands   *)
(* in child processes when a daemon is down or does not answer.            *)
(*                                                                         *)
(* The program is one thread driven by timers, file descriptors and a      *)
(* SIGCHLD flag.  Every handler is one action; time is abstract (a pending *)
(* timer may fire at any moment) except for the restart back-off, whose    *)
(* elapsed time is counted in ticks.                                       *)
(*                                                                         *)
(* gs.phase is not a variable: only phase_check() calls set_phase(), and   *)
(* only when the phase is already different from PHASE_NONE, the value it  *)
(* starts with, so phase_check() always takes its first arm and returns.   *)
(***************************************************************************)
EXTENDS Integers, FiniteSets

CONSTANTS
    Daemons,              \* the daemons named on the command line
    Zebra,                \* gs.special: the daemon named "zebra"
    Mode,                 \* gs.mode
    DoPing,               \* gs.do_ping (FALSE with -e)
    UnresponsiveRestart,  \* gs.unresponsive_restart (-z)
    MinInterval,          \* gs.min_restart_interval (-m), in ticks
    MaxInterval,          \* gs.max_restart_interval (-M), in ticks
    DelayedConnect,       \* may connect(2) report EINPROGRESS or EWOULDBLOCK
    ConfigWrites,         \* may a vty session issue "write integrated"
    MaxPending            \* bound: wake-up timers queued for one daemon

Modes == {"MODE_MONITOR", "MODE_GLOBAL_RESTART", "MODE_SEPARATE_RESTART",
          "MODE_PHASED_ZEBRA_RESTART", "MODE_PHASED_ALL_RESTART"}

ASSUME WatchAssumption ==
    /\ IsFiniteSet(Daemons)
    /\ Zebra \in Daemons
    /\ "all" \notin Daemons /\ "write" \notin Daemons
    /\ Mode \in Modes
    /\ {DoPing, UnresponsiveRestart, DelayedConnect, ConfigWrites} \subseteq BOOLEAN
    /\ MinInterval \in Nat /\ MaxInterval \in Nat
    /\ MaxPending \in Nat

VARIABLES
    state,          \* dmn->state
    t_read,         \* is dmn->t_read armed (between handlers: dmn->fd >= 0)
    t_write,        \* is dmn->t_write armed
    t_wakeup,       \* the handler of the timer dmn->t_wakeup points at
    pending,        \* how many wake-up timers are queued, by handler
    echo_sent,      \* dmn->echo_sent: "none" when tv_sec = 0; "late" once the
                    \* ping is older than gs.timeout
    connect_tries,  \* dmn->connect_tries, saturating at 2
    numdown,        \* gs.numdown
    sent,           \* has daemon_send_ready() notified systemd
    pid,            \* is restart->pid non-zero
    t_kill,         \* is restart->t_kill armed
    kills,          \* restart->kills, saturating at 1
    interval,       \* restart->interval
    elapsed,        \* ticks since restart->time, saturating
    numpids,        \* gs.numpids
    write_pid,      \* is integrated_write_pid # -1
    proc,           \* the child processes, as the kernel sees them
    caught,         \* the caught flag of SIGCHLD
    handling        \* quagga_sigevent_process() is about to call sigchild()

dmnVars == <<state, t_read, t_write, t_wakeup, pending, echo_sent, connect_tries, numdown, sent>>
jobVars == <<pid, t_kill, kills, interval, elapsed, numpids, write_pid>>
envVars == <<proc, caught, handling>>
vars == <<dmnVars, jobVars, envVars>>

States   == {"INIT", "DOWN", "CONNECTING", "UP", "UNRESPONSIVE"}
Wakeups  == {"init", "down", "connect_hanging", "send_echo", "no_answer", "unresponsive"}
Restarts == Daemons \cup {"all"}          \* the restart_info structures
Children == Restarts \cup {"write"}       \* who a child process belongs to

\* Elapsed time above twice the longest interval is all the same to run_job().
LongAgo == 2 * (IF MaxInterval > MinInterval THEN MaxInterval ELSE MinInterval) + 1

IsUpState(s) == s \in {"UP", "UNRESPONSIVE"}
IS_UP(d) == IsUpState(state[d])

Init ==
    /\ state = [d \in Daemons |-> "INIT"]
    /\ t_read = [d \in Daemons |-> FALSE]
    /\ t_write = [d \in Daemons |-> FALSE]
    /\ t_wakeup = [d \in Daemons |-> "init"]
    /\ pending = [d \in Daemons |-> [w \in Wakeups |-> IF w = "init" THEN 1 ELSE 0]]
    /\ echo_sent = [d \in Daemons |-> "none"]
    /\ connect_tries = [d \in Daemons |-> 0]
    /\ numdown = Cardinality(Daemons)
    /\ sent = FALSE
    /\ pid = [r \in Restarts |-> FALSE]
    /\ t_kill = [r \in Restarts |-> FALSE]
    /\ kills = [r \in Restarts |-> 0]
    /\ interval = [r \in Restarts |-> MinInterval]
    /\ elapsed = [r \in Restarts |-> LongAgo]
    /\ numpids = 0
    /\ write_pid = FALSE
    /\ proc = [c \in Children |-> "none"]
    /\ caught = FALSE
    /\ handling = FALSE

-----------------------------------------------------------------------------
(* Jobs *)

NoJob == UNCHANGED <<jobVars, proc>>

\* update_interval: the back-off of run_job().
NextInterval(r) ==
    IF elapsed[r] > 2 * MaxInterval THEN MinInterval
    ELSE IF 2 * interval[r] > MaxInterval THEN MaxInterval
    ELSE 2 * interval[r]

\* Variation: gs.numpids is counted whether or not fork() succeeded.
run_job_counts_failure(r) ==
    IF pid[r] \/ elapsed[r] < interval[r]
    THEN NoJob
    ELSE /\ elapsed' = [elapsed EXCEPT ![r] = 0]
         /\ kills' = [kills EXCEPT ![r] = 0]
         /\ interval' = [interval EXCEPT ![r] = NextInterval(r)]
         /\ \E ok \in BOOLEAN :
              /\ pid' = [pid EXCEPT ![r] = ok]
              /\ t_kill' = [t_kill EXCEPT ![r] = ok]
              /\ proc' = [proc EXCEPT ![r] = IF ok THEN "running" ELSE @]
         /\ numpids' = numpids + 1
         /\ UNCHANGED write_pid

\* run_job(restart, ..., force = 0, update_interval = 1); fork() may fail, and
\* then only the time and the interval have changed.
run_job(r) ==
    IF pid[r] \/ elapsed[r] < interval[r]
    THEN NoJob
    ELSE /\ elapsed' = [elapsed EXCEPT ![r] = 0]
         /\ kills' = [kills EXCEPT ![r] = 0]
         /\ interval' = [interval EXCEPT ![r] = NextInterval(r)]
         /\ \/ UNCHANGED <<pid, t_kill, numpids, proc>>
            \/ /\ pid' = [pid EXCEPT ![r] = TRUE]
               /\ t_kill' = [t_kill EXCEPT ![r] = TRUE]
               /\ numpids' = numpids + 1
               /\ proc' = [proc EXCEPT ![r] = "running"]
         /\ UNCHANGED write_pid

\* The callers have set state' before: gs.special->state is read after them.
try_restart(d) ==
    CASE Mode = "MODE_MONITOR" -> NoJob
      [] Mode = "MODE_GLOBAL_RESTART" -> run_job("all")
      [] Mode = "MODE_SEPARATE_RESTART" -> run_job(d)
      [] Mode = "MODE_PHASED_ZEBRA_RESTART" /\ d # Zebra ->
            IF state'[Zebra] = "UP" THEN run_job(d) ELSE NoJob
      [] OTHER ->
            IF numpids # 0 \/ elapsed[Zebra] < interval[Zebra]
            THEN NoJob ELSE run_job("all")

\* Variation: restart->kills is never incremented, so SIGKILL is never sent.
restart_kill_term_only(r) ==
    /\ t_kill[r]
    /\ \/ UNCHANGED <<proc, caught>>
       \/ /\ proc[r] = "running"
          /\ proc' = [proc EXCEPT ![r] = "zombie"]
          /\ caught' = TRUE
    /\ UNCHANGED <<dmnVars, pid, t_kill, kills, interval, elapsed, numpids, write_pid, handling>>

\* The t_kill timer expires: SIGTERM first, SIGKILL from then on, to the
\* process group of restart->pid.  A shell may ignore SIGTERM, not SIGKILL.
restart_kill(r) ==
    /\ t_kill[r]
    /\ kills' = [kills EXCEPT ![r] = 1]
    /\ \/ /\ proc[r] = "running" => kills[r] = 0
          /\ UNCHANGED <<proc, caught>>
       \/ /\ proc[r] = "running"
          /\ proc' = [proc EXCEPT ![r] = "zombie"]
          /\ caught' = TRUE
    /\ UNCHANGED <<dmnVars, pid, t_kill, interval, elapsed, numpids, write_pid, handling>>

\* Variation: the restart_info of the child is not found.
find_child_none(c) == FALSE

find_child(c) == (c = "all") <=> (Mode = "MODE_GLOBAL_RESTART")

\* quagga_sigevent_process(): the flag is cleared before the handler runs, and
\* a child may exit in between.
sigevent_process ==
    /\ caught
    /\ caught' = FALSE
    /\ handling' = TRUE
    /\ UNCHANGED <<dmnVars, jobVars, proc>>

\* sigchild(): waitpid() reaps one child, whichever the kernel picks.
sigchild ==
    /\ handling
    /\ handling' = FALSE
    /\ \/ /\ \A c \in Children : proc[c] # "zombie"
          /\ UNCHANGED <<jobVars, proc>>
       \/ \E c \in Children :
            /\ proc[c] = "zombie"
            /\ proc' = [proc EXCEPT ![c] = "none"]
            /\ \/ /\ c = "write"
                  /\ write_pid' = FALSE
                  /\ UNCHANGED <<pid, t_kill, elapsed, numpids>>
               \/ /\ c # "write"
                  /\ find_child(c)
                  /\ pid' = [pid EXCEPT ![c] = FALSE]
                  /\ t_kill' = [t_kill EXCEPT ![c] = FALSE]
                  /\ elapsed' = [elapsed EXCEPT ![c] = 0]
                  /\ numpids' = numpids - 1
                  /\ UNCHANGED write_pid
               \/ /\ c # "write"
                  /\ ~find_child(c)
                  /\ UNCHANGED <<pid, t_kill, elapsed, numpids, write_pid>>
            /\ UNCHANGED <<kills, interval>>
    /\ UNCHANGED <<dmnVars, caught>>

\* The vty command "write integrated" forks vtysh -w.
config_write_integrated ==
    /\ ConfigWrites
    /\ ~write_pid
    /\ write_pid' = TRUE
    /\ proc' = [proc EXCEPT !["write"] = "running"]
    /\ UNCHANGED <<dmnVars, pid, t_kill, kills, interval, elapsed, numpids, caught, handling>>

\* A child process ends by itself: it becomes a zombie and SIGCHLD is raised.
ChildExits(c) ==
    /\ proc[c] = "running"
    /\ proc' = [proc EXCEPT ![c] = "zombie"]
    /\ caught' = TRUE
    /\ UNCHANGED <<dmnVars, jobVars, handling>>

\* A second of wall-clock time, for the time_elapsed() comparisons.
Tick ==
    /\ \E r \in Restarts : elapsed[r] < LongAgo
    /\ elapsed' = [r \in Restarts |-> IF elapsed[r] < LongAgo THEN elapsed[r] + 1 ELSE LongAgo]
    /\ UNCHANGED <<dmnVars, pid, t_kill, kills, interval, numpids, write_pid, envVars>>

-----------------------------------------------------------------------------
(* Daemons *)


\* The queued wake-up timers b with one of handler w added or taken away.
More(b, w) == [b EXCEPT ![w] = @ + 1]
Less(b, w) == IF w = "NULL" THEN b ELSE [b EXCEPT ![w] = @ - 1]

\* What is queued once the timer of handler w has fired, or once the timer that
\* t_wakeup points at has been cancelled.
AfterFiring(d, w) == Less(pending[d], w)
AfterCancel(d)    == Less(pending[d], t_wakeup[d])

\* daemon_up(), called with b queued, t_wakeup = p and gs.numdown = n.
daemon_up(d, b, p, n) ==
    /\ state' = [state EXCEPT ![d] = "UP"]
    /\ numdown' = n - 1
    /\ sent' = (sent \/ n - 1 = 0)          \* daemon_send_ready()
    /\ connect_tries' = [connect_tries EXCEPT ![d] = 0]
    /\ pending' = [pending EXCEPT ![d] = IF DoPing THEN More(b, "send_echo") ELSE b]
    /\ t_wakeup' = [t_wakeup EXCEPT ![d] = IF DoPing THEN "send_echo" ELSE p]

OneMoreTry(d) ==
    connect_tries' = [connect_tries EXCEPT ![d] = IF @ < 2 THEN @ + 1 ELSE 2]

\* Variation: a delayed connect is given no time-out.
try_connect_no_timeout(d, s, rd, wr, b, n) ==
    \/ /\ OneMoreTry(d)
       /\ state' = [state EXCEPT ![d] = s]
       /\ numdown' = n
       /\ UNCHANGED sent
       /\ t_read' = [t_read EXCEPT ![d] = rd]
       /\ t_write' = [t_write EXCEPT ![d] = wr]
       /\ pending' = [pending EXCEPT ![d] = More(b, "down")]
       /\ t_wakeup' = [t_wakeup EXCEPT ![d] = "down"]
    \/ /\ DelayedConnect
       /\ OneMoreTry(d)
       /\ state' = [state EXCEPT ![d] = "CONNECTING"]
       /\ numdown' = n
       /\ UNCHANGED sent
       /\ t_read' = [t_read EXCEPT ![d] = TRUE]
       /\ t_write' = [t_write EXCEPT ![d] = TRUE]
       /\ pending' = [pending EXCEPT ![d] = b]
       /\ t_wakeup' = [t_wakeup EXCEPT ![d] = "NULL"]

\* try_connect(), called with b queued, t_wakeup = NULL and gs.numdown = n.  A
\* failure leaves the daemon in state s with the handlers rd and wr, and each
\* of the three callers answers it with SET_WAKEUP_DOWN.
try_connect(d, s, rd, wr, b, n) ==
    \/ /\ OneMoreTry(d)
       /\ state' = [state EXCEPT ![d] = s]
       /\ numdown' = n
       /\ UNCHANGED sent
       /\ t_read' = [t_read EXCEPT ![d] = rd]
       /\ t_write' = [t_write EXCEPT ![d] = wr]
       /\ pending' = [pending EXCEPT ![d] = More(b, "down")]
       /\ t_wakeup' = [t_wakeup EXCEPT ![d] = "down"]
    \/ /\ DelayedConnect
       /\ OneMoreTry(d)
       /\ state' = [state EXCEPT ![d] = "CONNECTING"]
       /\ numdown' = n
       /\ UNCHANGED sent
       /\ t_read' = [t_read EXCEPT ![d] = TRUE]
       /\ t_write' = [t_write EXCEPT ![d] = TRUE]
       /\ pending' = [pending EXCEPT ![d] = More(b, "connect_hanging")]
       /\ t_wakeup' = [t_wakeup EXCEPT ![d] = "connect_hanging"]
    \/ /\ daemon_up(d, b, "NULL", n)
       /\ t_read' = [t_read EXCEPT ![d] = TRUE]
       /\ t_write' = [t_write EXCEPT ![d] = wr]

\* Variation: gs.numdown is not incremented.
daemon_down_uncounted(d, b, p) ==
    /\ try_connect(d, "DOWN", FALSE, FALSE, Less(b, p), numdown)
    /\ UNCHANGED echo_sent

\* daemon_down(), called with b queued and t_wakeup = p.
daemon_down(d, b, p) ==
    /\ try_connect(d, "DOWN", FALSE, FALSE, Less(b, p),
                   IF IS_UP(d) THEN numdown + 1 ELSE numdown)
    /\ UNCHANGED echo_sent

Fires(d, w) == pending[d][w] > 0

\* Bound on check_connect(), the one handler that queues a timer without having
\* used one up: the wake-ups queued for d, counted up to MaxPending.
RoomForTimer(d) ==
    Cardinality({q \in Wakeups \X (1..MaxPending) : q[2] <= pending[d][q[1]]}) < MaxPending

wakeup_init(d) ==
    /\ Fires(d, "init")
    /\ try_connect(d, "DOWN", t_read[d], t_write[d], AfterFiring(d, "init"), numdown)
    /\ UNCHANGED <<echo_sent, jobVars, envVars>>

wakeup_down(d) ==
    /\ Fires(d, "down")
    /\ try_connect(d, state[d], t_read[d], t_write[d], AfterFiring(d, "down"), numdown)
    /\ IF connect_tries'[d] > 1 /\ state'[d] # "UP" THEN try_restart(d) ELSE NoJob
    /\ UNCHANGED <<echo_sent, caught, handling>>

wakeup_connect_hanging(d) ==
    /\ Fires(d, "connect_hanging")
    /\ daemon_down(d, AfterFiring(d, "connect_hanging"), "NULL")
    /\ UNCHANGED <<jobVars, envVars>>

\* check_connect(): the socket of a delayed connect has become writable.
check_connect(d) ==
    /\ t_write[d]
    /\ \/ daemon_down(d, pending[d], t_wakeup[d])
       \/ /\ RoomForTimer(d)
          /\ daemon_up(d, pending[d], t_wakeup[d], numdown)
          /\ t_write' = [t_write EXCEPT ![d] = FALSE]
          /\ UNCHANGED <<t_read, echo_sent>>
    /\ UNCHANGED <<jobVars, envVars>>

\* Variation: the handler does not set t_wakeup to NULL, and daemon_down()
\* cancels the timer that has just fired.
wakeup_send_echo_dangling(d) ==
    /\ Fires(d, "send_echo")
    /\ \/ daemon_down(d, AfterFiring(d, "send_echo"), "send_echo")
       \/ /\ t_read[d]
          /\ echo_sent' = [echo_sent EXCEPT ![d] = "sent"]
          /\ pending' = [pending EXCEPT ![d] = More(AfterFiring(d, "send_echo"), "no_answer")]
          /\ t_wakeup' = [t_wakeup EXCEPT ![d] = "no_answer"]
          /\ UNCHANGED <<state, t_read, t_write, connect_tries, numdown, sent>>
    /\ UNCHANGED <<jobVars, envVars>>

\* write() to dmn->fd may always fail, and does where the descriptor is closed.
wakeup_send_echo(d) ==
    /\ Fires(d, "send_echo")
    /\ \/ daemon_down(d, AfterFiring(d, "send_echo"), "NULL")
       \/ /\ t_read[d]
          /\ echo_sent' = [echo_sent EXCEPT ![d] = "sent"]
          /\ pending' = [pending EXCEPT ![d] = More(AfterFiring(d, "send_echo"), "no_answer")]
          /\ t_wakeup' = [t_wakeup EXCEPT ![d] = "no_answer"]
          /\ UNCHANGED <<state, t_read, t_write, connect_tries, numdown, sent>>
    /\ UNCHANGED <<jobVars, envVars>>

wakeup_no_answer(d) ==
    /\ Fires(d, "no_answer")
    /\ state' = [state EXCEPT ![d] = "UNRESPONSIVE"]
    /\ echo_sent' = [echo_sent EXCEPT ![d] = IF @ = "sent" THEN "late" ELSE @]
    /\ IF UnresponsiveRestart
       THEN /\ pending' = [pending EXCEPT ![d] = More(AfterFiring(d, "no_answer"), "unresponsive")]
            /\ t_wakeup' = [t_wakeup EXCEPT ![d] = "unresponsive"]
            /\ try_restart(d)
       ELSE /\ pending' = [pending EXCEPT ![d] = AfterFiring(d, "no_answer")]
            /\ t_wakeup' = [t_wakeup EXCEPT ![d] = "NULL"]
            /\ NoJob
    /\ UNCHANGED <<t_read, t_write, connect_tries, numdown, sent, caught, handling>>

wakeup_unresponsive(d) ==
    /\ Fires(d, "unresponsive")
    /\ UNCHANGED state
    /\ IF state[d] = "UNRESPONSIVE"
       THEN /\ t_wakeup' = [t_wakeup EXCEPT ![d] = "unresponsive"]
            /\ UNCHANGED pending
            /\ try_restart(d)
       ELSE /\ t_wakeup' = [t_wakeup EXCEPT ![d] = "NULL"]
            /\ pending' = [pending EXCEPT ![d] = AfterFiring(d, "unresponsive")]
            /\ NoJob
    /\ UNCHANGED <<t_read, t_write, echo_sent, connect_tries, numdown, sent, caught, handling>>

\* handle_read() when the read fails, returns EOF, returns bytes nobody asked
\* for or bytes that are not the answer to the ping.
handle_read_down(d) ==
    /\ t_read[d]
    /\ daemon_down(d, pending[d], t_wakeup[d])
    /\ UNCHANGED <<jobVars, envVars>>

\* Variation: the queued wake-up is not cancelled before the next ping is set.
handle_read_echo_keeps_timer(d) ==
    /\ t_read[d]
    /\ echo_sent[d] # "none"
    /\ \/ /\ state[d] = "UNRESPONSIVE" /\ echo_sent[d] = "sent"
          /\ state' = [state EXCEPT ![d] = "UP"]
       \/ UNCHANGED state
    /\ echo_sent' = [echo_sent EXCEPT ![d] = "none"]
    /\ pending' = [pending EXCEPT ![d] = More(pending[d], "send_echo")]
    /\ t_wakeup' = [t_wakeup EXCEPT ![d] = "send_echo"]
    /\ UNCHANGED <<t_read, t_write, connect_tries, numdown, sent, jobVars, envVars>>

\* Variation: the next ping is not set.
handle_read_echo_last(d) ==
    /\ t_read[d]
    /\ echo_sent[d] # "none"
    /\ \/ /\ state[d] = "UNRESPONSIVE" /\ echo_sent[d] = "sent"
          /\ state' = [state EXCEPT ![d] = "UP"]
       \/ UNCHANGED state
    /\ echo_sent' = [echo_sent EXCEPT ![d] = "none"]
    /\ pending' = [pending EXCEPT ![d] = AfterCancel(d)]
    /\ t_wakeup' = [t_wakeup EXCEPT ![d] = "NULL"]
    /\ UNCHANGED <<t_read, t_write, connect_tries, numdown, sent, jobVars, envVars>>

\* handle_read() of the answer to a ping.  The answer to a ping that is not yet
\* late is still counted as slow when the timer was due but had not run.
handle_read_echo(d) ==
    /\ t_read[d]
    /\ echo_sent[d] # "none"
    /\ \/ /\ state[d] = "UNRESPONSIVE" /\ echo_sent[d] = "sent"
          /\ state' = [state EXCEPT ![d] = "UP"]
       \/ UNCHANGED state
    /\ echo_sent' = [echo_sent EXCEPT ![d] = "none"]
    /\ pending' = [pending EXCEPT ![d] = More(AfterCancel(d), "send_echo")]
    /\ t_wakeup' = [t_wakeup EXCEPT ![d] = "send_echo"]
    /\ UNCHANGED <<t_read, t_write, connect_tries, numdown, sent, jobVars, envVars>>

-----------------------------------------------------------------------------
Timers(d) ==
    \/ wakeup_init(d) \/ wakeup_down(d) \/ wakeup_connect_hanging(d)
    \/ wakeup_send_echo(d) \/ wakeup_no_answer(d) \/ wakeup_unresponsive(d)

Sockets(d) == check_connect(d) \/ handle_read_down(d) \/ handle_read_echo(d)

\* The thread runs one handler at a time; children and the clock do not wait.
Next ==
    \/ /\ ~handling
       /\ \/ \E d \in Daemons : Timers(d) \/ Sockets(d)
          \/ \E r \in Restarts : restart_kill(r)
          \/ sigevent_process
          \/ config_write_integrated
    \/ sigchild
    \/ \E c \in Children : ChildExits(c)
    \/ Tick

\* The event loop runs every timer that is due and handles every caught signal,
\* and the clock advances.  Nothing is assumed of the daemons, the commands or
\* the operator, so where the outcome is theirs fairness is stated for the bad
\* one only: a reconnection that is due again and again is not forced to
\* succeed, nor is a command forced to obey SIGTERM.
Fairness ==
    /\ WF_vars(~handling /\ sigevent_process)
    /\ WF_vars(sigchild)
    /\ WF_vars(Tick)
    /\ \A d \in Daemons : WF_vars(~handling /\ wakeup_down(d) /\ state'[d] = "DOWN")
    /\ \A r \in Restarts : WF_vars(~handling /\ restart_kill(r) /\ (kills[r] = 0 => UNCHANGED proc))

Spec == Init /\ [][Next]_vars /\ Fairness

-----------------------------------------------------------------------------
(* Properties *)

TypeOK ==
    /\ state \in [Daemons -> States]
    /\ t_read \in [Daemons -> BOOLEAN]
    /\ t_write \in [Daemons -> BOOLEAN]
    /\ t_wakeup \in [Daemons -> Wakeups \cup {"NULL"}]
    /\ pending \in [Daemons -> [Wakeups -> Nat]]
    /\ echo_sent \in [Daemons -> {"none", "sent", "late"}]
    /\ connect_tries \in [Daemons -> 0..2]
    /\ numdown \in Int
    /\ sent \in BOOLEAN
    /\ pid \in [Restarts -> BOOLEAN]
    /\ t_kill \in [Restarts -> BOOLEAN]
    /\ kills \in [Restarts -> 0..1]
    /\ interval \in [Restarts -> Nat]
    /\ elapsed \in [Restarts -> 0..LongAgo]
    /\ numpids \in Int
    /\ write_pid \in BOOLEAN
    /\ proc \in [Children -> {"none", "running", "zombie"}]
    /\ caught \in BOOLEAN
    /\ handling \in BOOLEAN

\* gs.numdown is what its comment says: "# of daemons that are not UP or
\* UNRESPONSIVE", although it is only ever adjusted by one.
NumDownExact == numdown = Cardinality({d \in Daemons : ~IS_UP(d)})

\* systemd is told that watchquagga is ready only at a moment when every
\* daemon is up (daemon_send_ready() trusts gs.numdown).
ReadyMeansAllUp == [][(~sent /\ sent') => \A d \in Daemons : IS_UP(d)']_vars

\* gs.numpids counts the restart jobs that have not been reaped.
NumPidsExact == numpids = Cardinality({r \in Restarts : pid[r]})

\* No daemon drops out of supervision: one that is down has a reconnection
\* queued, one that is connecting has its time-out, one that is up is being
\* read and, when pings are on, has a ping or its time-out queued.
StillWatched ==
    \A d \in Daemons :
        /\ (state[d] = "DOWN") => pending[d]["down"] > 0
        /\ (state[d] = "CONNECTING") => t_write[d] /\ pending[d]["connect_hanging"] > 0
        /\ IS_UP(d) => t_read[d]
        /\ (state[d] = "UP" /\ DoPing) => pending[d]["send_echo"] + pending[d]["no_answer"] > 0
        /\ (state[d] = "UNRESPONSIVE" /\ UnresponsiveRestart) => \E w \in Wakeups : pending[d][w] > 0

\* wakeup_unresponsive() finds the daemon unresponsive; otherwise it logs
\* "wakeup should have been cancelled!".
UnresponsiveCancelled ==
    \A d \in Daemons : pending[d]["unresponsive"] > 0 => state[d] = "UNRESPONSIVE"

\* restart_kill() signals a process group whose leader is a child that has not
\* been reaped, so its number cannot belong to anybody else.
KillsOwnChild == \A r \in Restarts : t_kill[r] => proc[r] # "none"

\* A child process that has exited is reaped: run_background() says "we will
\* reap the child later".
Reaped == \A c \in Children : (proc[c] = "zombie") ~> (proc[c] # "zombie")

\* A daemon that stays down is restarted again and again: the last attempt (or
\* the end of the command it ran) is never infinitely far in the past.
RestartsKeepComing ==
    \A d \in Daemons :
        []<>(state[d] # "DOWN" \/ elapsed[IF Mode = "MODE_GLOBAL_RESTART" THEN "all" ELSE d] = 0)

\* A restart command that never returns is killed.
HungJobsEnd == \A r \in Restarts : (proc[r] = "running") ~> (proc[r] # "running")
=============================================================================
